----------------------------- MODULE MCMoveFile -----------------------------
(* A directory with a file and a directory that has a file.                 *)
EXTENDS MoveFile

EntriesOf(n) == CASE n = "d" -> {"a", "e"} [] n = "e" -> {"b"} [] OTHER -> {}
AnyCall == {"rename", "open", "read", "write", "remove", "readdir", "rmdir"}
Reading == {"read", "readdir"}
Writing == {"write"}
=============================================================================
