SPECIFICATION FairSpec
CONSTANTS
  Connections = {a, b}
  ListeningSocket = l
  Socket <- MCSocket
  File = {a, b}
  NoFile = STD_NULL
  Zero = Zero
  PollModes <- CheckIn
  StartSize = 3
  Increment = 1
  MaxPos = 4
  SocketLimit = TRUE
  MaxQueue = 1
  HangUps <- WithInput
INVARIANTS ConnectionsChecked ReadWillNotBlock ReturnsWithRequest AllReleased
PROPERTIES Served Accepted
CHECK_DEADLOCK FALSE
