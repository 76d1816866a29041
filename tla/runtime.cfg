SPECIFICATION RuntimeSpec
CONSTANTS
  ResizeFailsIn <- Raising
  InitialSize = 2
  MaxCalls = 6
  MaxSize = 4
  Database = {d1}
  DatabaseVariable = {x, y}
  Stmt = {s1, s2}
  StmtVariable = {p, q}
  NULL = NULL
  Param = {i}
  MaxRow = 2
  BindErrors = FALSE
  AutoReset = TRUE
  Statement = {x, y}
  MaxRows = 2
  RowCounts = {0, 2}
  Proc = {p, q}
  File = {s1, s2}
  Pid = {4, 5}
  ProcessVariable = {x, y}
  FileVariable = {w}
  NIL = NIL
  ExitValue = {1}
  HashMap = {x, y}
  HashKey = {1, 2, 3, 4}
  HashData = {a}
  Bucket = 2
  hashCode <- OneBucket
  NONE = NONE
  SetVariable = {p, q}
  BITSET_SIZE = 4
  Number <- SetNumbers
  OutOfRange = OutOfRange
  ExclInLoop = FALSE
  Node = {"d", "e", "a", "b"}
  Root = "d"
  Entries <- EntriesOf
  Directory = {"d", "e"}
  Failing <- AnyCall
  BIGDIGIT_SIZE = 3
  KARATSUBA_THRESHOLD = 4
  EUCLID_DIFFERENCE = 2
  BASIC_EXPONENT = 1
  Values <- MCValues
  MaxFactor = 600
  MaxPower = 20000
  Shifts <- MCShifts
  Radices = {2, 3, 4, 5, 7}
  Identifier = {u}
  WrittenName <- OverloadedNames
  MaxEntities = 2
  MaxBodies = 2
  MaxObjects = 3
  MaxUsage = 2
  Grammar <- SmallGrammars
  Text <- SmallTexts
  Type <- SmallTypes
  meta <- MetaOf
  interfaces <- InterfacesOf
  resultType <- ResultOf
  varFunction = {"varfunc int"}
  NoType = "no type"
  Declaration <- SmallDeclarations
  Expression <- SmallExpressions
  MaxDeclared = 3
  Parts <- AllParts
SYMMETRY Interchangeable
INVARIANTS
  RuntimeTypeOK
  TargetIsInnermost
  SqlUsageCounted
  CommitsArePermanent
  ColumnsOfRow
  ProcessesCounted
  WaitsForOwnChild
  NothingLeaked
  LoopVisitsAll
  LookupFinds
  SetsAgree
  WholeSomewhere
  MoveTellsTruth
  ArithmeticExact
  InnermostFound
  EntitiesReleased
  ParsedAsDeclared
  FittingMatched
PROPERTIES
  InnermostReceives
  CursorPromised
  DriversPromised
CHECK_DEADLOCK FALSE
