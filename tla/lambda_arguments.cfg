SPECIFICATION Spec
CONSTANTS
  Null = Null
  MaxOid = 15
  Oid <- MCOid
  Globals <- MCGlobals
  Empty <- MCEmpty
  Exc <- MCExc
  Fun <- FGH
  Params <- MCParams
  Locals <- MCLocals
  ResultOf <- MCResultOf
  InitValue <- MCInitValue
  Procs <- MCProcs
  RefParams <- MCRefParams
  CreateOutcomes <- Ok
  DestroyRaises = FALSE
  AsyncRaise = FALSE
  Decisions <- ContinueOrRaise
  MaxArity = 2
  MaxDepth = 2
  MaxLeaks = 1
INVARIANT OneOwner
PROPERTY DeepSpec
