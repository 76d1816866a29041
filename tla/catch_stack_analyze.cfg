SPECIFICATION Spec
CONSTANTS
  ResizeFailsIn <- Analyzing
  InitialSize = 2
  MaxCalls = 6
  MaxSize = 4
INVARIANT TargetsMaintained
