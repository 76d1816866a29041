--------------------------- MODULE DeepBinding ---------------------------
(***************************************************************************)
(* What local objects promise: every activation has variables of its own.  *)
(* env is the stack of activations, each binding some names; a name stands *)
(* for its value in the innermost activation that binds it.  A step of the *)
(* program changes bindings of the innermost activation only, and a return *)
(* makes the bindings of the caller visible again, unchanged.              *)
(***************************************************************************)
EXTENDS Integers, Sequences

CONSTANTS
  Name, Val,
  Outside     \* the value of a name that no activation binds

VARIABLES env, view

vars == <<env, view>>

Lookup(e, n) ==
  LET binding == {i \in DOMAIN e : n \in DOMAIN e[i]}
  IN  IF binding = {} THEN Outside[n]
      ELSE e[CHOOSE i \in binding : \A j \in binding : j <= i][n]

Visible == view = [n \in Name |-> Lookup(env, n)]

Init == env = << <<>> >> /\ Visible

Enter == env' = Append(env, <<>>)

\* The innermost activation binds one more name.
Bind ==
  /\ env # <<>>
  /\ LET top == env[Len(env)]
     IN  \E n \in Name \ DOMAIN top : \E v \in Val :
           env' = [env EXCEPT ![Len(env)] =
                     [m \in DOMAIN top \cup {n} |-> IF m = n THEN v ELSE top[m]]]

\* The innermost activation drops some of its names.
Unbind ==
  /\ env # <<>>
  /\ LET top == env[Len(env)]
     IN  \E S \in SUBSET DOMAIN top :
           env' = [env EXCEPT ![Len(env)] = [m \in S |-> top[m]]]

Leave == env # <<>> /\ env' = SubSeq(env, 1, Len(env) - 1)

Next == (Enter \/ Bind \/ Unbind \/ Leave) /\ Visible'

Spec == Init /\ [][Next]_vars
=============================================================================
