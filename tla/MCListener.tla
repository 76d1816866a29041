--------------------------- MODULE MCListener ---------------------------
(* Instances of Listener.                                                  *)
EXTENDS Listener, TLC

CONSTANT Connections

MCSocket == Connections \cup {ListeningSocket}
Sockets == Permutations(Connections)
WithInput == {"with input"}
Alone == {"with input", "alone"}
CheckIn == {{"in"}}
=============================================================================
