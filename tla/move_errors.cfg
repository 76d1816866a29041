SPECIFICATION MoveSpec
CONSTANTS
  Node = {"d", "e", "a", "b"}
  Root = "d"
  Entries <- EntriesOf
  Directory = {"d", "e"}
  Failing <- Reading
PROPERTY ErrorsRaised
CHECK_DEADLOCK FALSE
