SPECIFICATION MoveSpec
CONSTANTS
  Node = {"d", "e", "a", "b"}
  Root = "d"
  Entries <- EntriesOf
  Directory = {"d", "e"}
  Failing <- Writing
PROPERTY RemainsRemoved
CHECK_DEADLOCK FALSE
