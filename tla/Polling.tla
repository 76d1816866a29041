---------------------------- MODULE Polling ----------------------------
(***************************************************************************)
(* What pollData promises (src/lib/poll.s7i): checks are added and removed *)
(* per socket, poll assigns findings to the sockets that are checked, and  *)
(* an iteration delivers the file of every socket whose checks or findings *)
(* match, exactly once, in any order, although checks are added and        *)
(* removed while it goes on.  There is one exception that poll.s7i does    *)
(* not mention: RemoveAfterEnd.                                            *)
(***************************************************************************)
EXTENDS FiniteSets

CONSTANTS Socket, File, NoFile, Event, Finding, Mask

VARIABLES
  checks,      \* socket -> checked events; {}: the socket is not in the poll data
  findings,    \* socket -> findings of the last poll
  files,       \* socket -> file to deliver
  mode,        \* what the iteration delivers
  todo,        \* sockets that the iteration has not come to
  result,      \* of the last call of hasNext or nextFile
  lost         \* has a removal lost the checks of other sockets?

vars == <<checks, findings, files, mode, todo, result, lost>>

NoResult == [of |-> "other", is |-> NoFile]
NoIterator == [over |-> "empty", mask |-> {}]
Modes == {NoIterator} \cup [over : {"checks", "findings"}, mask : Mask]
Checked == {s \in Socket : checks[s] # {}}

Init ==
  /\ checks = [s \in Socket |-> {}] /\ findings = [s \in Socket |-> {}]
  /\ files = [s \in Socket |-> NoFile]
  /\ mode = NoIterator /\ todo = {} /\ result = NoResult /\ lost = FALSE

AddCheck(s, events, file) ==
  /\ ~lost
  /\ checks' = [checks EXCEPT ![s] = @ \cup events]
  /\ IF s \in Checked THEN UNCHANGED <<files, todo>>
     ELSE files' = [files EXCEPT ![s] = file] /\ todo' \in {todo, todo \cup {s}}
  /\ UNCHANGED <<findings, mode, lost>>
  /\ result' = NoResult

RemoveCheck(s, events) ==
  /\ ~lost
  /\ checks' = [checks EXCEPT ![s] = @ \ events]
  /\ IF checks'[s] # {} THEN UNCHANGED <<findings, files, todo>>
     ELSE /\ findings' = [findings EXCEPT ![s] = {}]
          /\ files' = [files EXCEPT ![s] = NoFile]
          /\ todo' = todo \ {s}
  /\ UNCHANGED <<mode, lost>>
  /\ result' = NoResult

\* When the iteration has come to its end, the removal of a socket may change the checks,
\* findings and files of the others.  They stay lost until everything is cleared.
RemoveAfterEnd(s, events) ==
  /\ ~lost /\ lost'
  /\ todo = {} /\ s \in Checked /\ checks[s] \subseteq events
  /\ checks'[s] = {} /\ todo' = {} /\ UNCHANGED mode /\ result' = NoResult

Clear ==
  /\ checks' = [s \in Socket |-> {}] /\ findings' = [s \in Socket |-> {}]
  /\ files' = [s \in Socket |-> NoFile]
  /\ mode' = NoIterator /\ todo' = {} /\ result' = NoResult /\ lost' = FALSE

Poll ==
  /\ ~lost
  /\ findings' \in [Socket -> SUBSET Finding]
  /\ \A s \in Socket : findings'[s] \cap Event \subseteq checks[s]
                       /\ (s \notin Checked => findings'[s] = {})
  /\ \E s \in Socket : findings'[s] # {}
  /\ mode' = NoIterator /\ todo' = Checked /\ result' = NoResult
  /\ UNCHANGED <<checks, files, lost>>

Iterate ==
  /\ ~lost
  /\ mode' \in Modes /\ todo' = Checked /\ result' = NoResult
  /\ UNCHANGED <<checks, findings, files, lost>>

\* The sockets that are still to be delivered.
Wanted ==
  {s \in todo : (IF mode.over = "checks" THEN checks[s] ELSE findings[s]) \cap mode.mask # {}}

\* Only sockets that do not match are skipped.
HasNext ==
  /\ ~lost
  /\ result' = [of |-> "hasNext", is |-> Wanted # {}]
  /\ Wanted \subseteq todo' /\ todo' \subseteq todo
  /\ UNCHANGED <<checks, findings, files, mode, lost>>

NextFile ==
  /\ ~lost
  /\ IF Wanted = {}
     THEN result' = [of |-> "nextFile", is |-> NoFile] /\ todo' \subseteq todo
     ELSE \E s \in Wanted :
            /\ result' = [of |-> "nextFile", is |-> files[s]]
            /\ Wanted \ {s} \subseteq todo' /\ todo' \subseteq todo \ {s}
  /\ UNCHANGED <<checks, findings, files, mode, lost>>

Next ==
  \/ \E s \in Socket, events \in Mask :
       \/ \E file \in File : AddCheck(s, events, file)
       \/ RemoveCheck(s, events) \/ RemoveAfterEnd(s, events)
  \/ Clear \/ Poll \/ Iterate \/ HasNext \/ NextFile

Spec == Init /\ [][Next]_vars
=============================================================================
