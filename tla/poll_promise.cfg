SPECIFICATION Spec
CONSTANTS
  Observed = x
  Var = {x}
  Undefined = Undefined
  Socket = {a, b, c}
  File = {f, g}
  NoFile = NoFile
  Zero = Zero
  PollModes <- CheckIn
  StartSize = 2
  Increment = 1
  MaxPos = 4
  Reported <- In
  NoMemory = FALSE
  RangeErrors = FALSE
INVARIANT FindingsCounted
PROPERTY PollingSpec
VIEW WithoutCounts
SYMMETRY SocketsAndFiles
