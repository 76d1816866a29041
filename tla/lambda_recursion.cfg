SPECIFICATION FairSpec
CONSTANTS
  Null = Null
  MaxOid = 15
  Oid <- MCOid
  Globals <- MCGlobals
  Empty <- MCEmpty
  Exc <- MCExc
  Fun <- FG
  Params <- MCParams
  Locals <- MCLocals
  ResultOf <- MCResultOf
  InitValue <- MCInitValue
  Procs <- MCProcs
  RefParams <- MCRefParams
  CreateOutcomes <- Ok
  DestroyRaises = TRUE
  AsyncRaise = FALSE
  Decisions <- AnyDecision
  MaxArity = 1
  MaxDepth = 3
  MaxLeaks = 1
INVARIANTS NoDangling ShallowBinding
PROPERTIES RestoredOnReturn ExceptionKept Unwinds
