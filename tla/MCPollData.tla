--------------------------- MODULE MCPollData ---------------------------
(* Instances of PollData with symmetric sockets and files.                 *)
EXTENDS PollData, TLC

Sockets == Permutations(Socket)
SocketsAndFiles == Permutations(Socket) \cup Permutations(File)
InOut == Event
InOutOther == Finding
In == {"in"}
InOther == {"in", "other"}
Nothing == {}
CheckIn == {{"in"}}

\* No action but those of the usage counts depends on them, and none on the history.
WithoutCounts == <<data, failed, dangling, result, overwritten>>

\* The usage count of a file says nothing when one of its references has been miscounted.
WithoutMiscounts ==
  <<data, failed, dangling, result, overwritten, miscounted \cap File,
    [f \in File \ miscounted |-> usage[f]]>>
====
