SPECIFICATION Spec
CONSTANTS
  Observed = x
  Var = {x, y}
  Undefined = Undefined
  Socket = {a, b}
  File = {f}
  NoFile = NoFile
  Zero = Zero
  PollModes <- CheckIn
  StartSize = 2
  Increment = 1
  MaxPos = 4
  Reported <- Nothing
  NoMemory = TRUE
  RangeErrors = TRUE
VIEW WithoutMiscounts
SYMMETRY Sockets
INVARIANTS IndexMatches UsageCounted
