SPECIFICATION Spec
CONSTANTS
  Null = Null
  MaxOid = 14
  Oid <- MCOid
  Globals <- MCGlobals
  Empty <- MCEmpty
  Exc <- MCExc
  Fun <- FGH
  Params <- MCParams
  Locals <- MCLocals
  ResultOf <- MCResultOf
  InitValue <- MCInitValue
  Procs <- MCProcs
  RefParams <- MCRefParams
  CreateOutcomes <- AnyOutcome
  DestroyRaises = TRUE
  AsyncRaise = TRUE
  Decisions <- AnyDecision
  MaxArity = 2
  MaxDepth = 2
  MaxLeaks = 1
INVARIANTS TypeOK CompleteArguments
