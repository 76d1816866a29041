---------------------------- MODULE Listener ----------------------------
(***************************************************************************)
(* A server with an inetListener (src/lib/listener.s7i): waitForRequest    *)
(* accepts connections and delivers existing ones that have input, by      *)
(* iterating over the findings of a poll; between two calls the server     *)
(* reads from the delivered connection and closes connections, or signs    *)
(* them off and on, also those with findings that were not delivered.      *)
(* Clients connect and send at any time.                                   *)
(*                                                                         *)
(* checkedSocks is a record of PollTable.  A connection stands for its     *)
(* socket number and for its file.  An accepted connection gets a free     *)
(* socket number, perhaps that of one that was closed before.              *)
(***************************************************************************)
EXTENDS PollTable

CONSTANTS
  ListeningSocket,  \* aListener.sock; its file is STD_NULL
  MaxQueue,         \* bound: pending connections
  SocketLimit,      \* may clients wait when no socket number is left?
  HangUps           \* how poll reports POLLHUP, POLLERR, POLLNVAL: "with input", "alone"

Connection == Socket \ {ListeningSocket}

\* MaxPos is no limit for the entries: all sockets fit into the table.
ASSUME ListenerAssumption ==
  /\ ListeningSocket \in Socket /\ File = Connection
  /\ IsFiniteSet(Socket) /\ Cardinality(Socket) <= MaxPos
  /\ MaxQueue \in Nat /\ SocketLimit \in BOOLEAN /\ HangUps \subseteq {"with input", "alone"}
  /\ {"in"} \in PollModes

VARIABLES
  checkedSocks, existingConnection, newConnection,   \* fields of the listener
  pc,               \* what the server does next
  state,            \* connection -> "none", "open", or "signed off"
  acceptedFrom,     \* connections whose acceptedFrom is the listener
  input,            \* connections from which can be read without blocking
  queue             \* pending connections

vars == <<checkedSocks, existingConnection, newConnection, pc, state, acceptedFrom, input, queue>>
env == <<state, acceptedFrom, input, queue>>

Init ==
  /\ checkedSocks = AddCheck(Empty, ListeningSocket, {"in"}, NoFile)
  /\ existingConnection = NoFile /\ newConnection = NoFile
  /\ pc = "idle"
  /\ state = [c \in Connection |-> "none"]
  /\ acceptedFrom = {} /\ input = {} /\ queue = 0

Open == {c \in Connection : state[c] # "none"}

-----------------------------------------------------------------------------
(* waitForRequest *)

\* Mutants: findings of the last poll that are left are not delivered, or the number of
\* findings decides.
PollAlways(pos) == FALSE
FindingsNumbered(pos) == checkedSocks.mode.over = "findings" /\ checkedSocks.iterEvents > 0

FindingsLeft(pos) == HasNextAt(checkedSocks, pos)

WaitForRequest ==
  /\ pc = "idle"
  /\ \E pos \in NextPositions(checkedSocks) :
       /\ checkedSocks' = AfterHasNext(checkedSocks, pos)
       /\ IF FindingsLeft(pos)
          THEN pc' = "next" /\ newConnection' = NoFile
          ELSE pc' = "poll" /\ UNCHANGED newConnection
  /\ UNCHANGED <<existingConnection, env>>

\* What poll may find for an entry.
Findings(cell) ==
  IF cell.fd = ListeningSocket THEN {IF queue > 0 THEN {"in"} ELSE {}}
  ELSE IF cell.fd \in input
       THEN {{"in"}} \cup (IF "with input" \in HangUps THEN {{"in", "other"}} ELSE {})
       ELSE {{}} \cup (IF "alone" \in HangUps THEN {{"other"}} ELSE {})

PollSocks ==
  /\ pc = "poll"
  /\ \E found \in [Entries(checkedSocks) -> {{}, {"in"}, {"other"}, {"in", "other"}}] :
       /\ \A p \in Entries(checkedSocks) : found[p] \in Findings(checkedSocks.cells[p])
       /\ \E p \in Entries(checkedSocks) : found[p] # {}
       /\ checkedSocks' = Poll(checkedSocks, found)
  /\ pc' = "accept"
  /\ UNCHANGED <<existingConnection, newConnection, env>>

\* Mutant: connections with input go first.
AcceptLast == GetFinding(checkedSocks, ListeningSocket) = {"in"} /\ checkedSocks.numOfEvents = 1

ListenerReady == GetFinding(checkedSocks, ListeningSocket) = {"in"}
OverFindings == [over |-> "findings", mask |-> {"in"}]

Accept ==
  /\ pc = "accept" /\ ListenerReady
  /\ \E c \in Connection \ Open :
       /\ state' = [state EXCEPT ![c] = "open"]
       /\ acceptedFrom' = acceptedFrom \cup {c}
       /\ input' = input \ {c}
       /\ newConnection' = c
       /\ checkedSocks' = IterFindings(AddCheck(checkedSocks, c, {"in"}, c), OverFindings)
  /\ queue' = queue - 1
  /\ pc' = "next"
  /\ UNCHANGED existingConnection

\* No socket number is left: FILE_ERROR, after which the server tries again.
AcceptFails ==
  /\ pc = "accept" /\ ListenerReady /\ Open = Connection
  /\ pc' = "failed"
  /\ UNCHANGED <<checkedSocks, existingConnection, newConnection, env>>

NoNewConnection ==
  /\ pc = "accept" /\ ~ListenerReady
  /\ newConnection' = NoFile
  /\ checkedSocks' = IterFindings(checkedSocks, OverFindings)
  /\ pc' = "next"
  /\ UNCHANGED <<existingConnection, env>>

\* nextFile returns STD_NULL for the listener, which is skipped.
NextConnection ==
  /\ pc \in {"next", "skip"}
  /\ \E pos \in NextPositions(checkedSocks) :
       /\ checkedSocks' = AfterNextFile(checkedSocks, pos)
       /\ existingConnection' = NextFileAt(checkedSocks, pos)
  /\ pc' = IF pc = "next" /\ existingConnection' = NoFile THEN "skip" ELSE "request"
  /\ UNCHANGED <<newConnection, env>>

-----------------------------------------------------------------------------
(* The server between two calls of waitForRequest *)

\* It reads the request.
Serve ==
  /\ pc = "request"
  /\ existingConnection # NoFile => existingConnection \in input
  /\ input' = input \ {existingConnection}
  /\ pc' = "served"
  /\ UNCHANGED <<checkedSocks, existingConnection, newConnection, state, acceptedFrom, queue>>

Serving == pc \in {"served", "failed"}

Return ==
  /\ Serving
  /\ pc' = "idle"
  /\ UNCHANGED <<checkedSocks, existingConnection, newConnection, env>>

\* Mutant: the connection is not signed off.
CloseSocket(c) ==
  /\ Serving \/ pc = "closed"
  /\ c \in Open
  /\ state' = [state EXCEPT ![c] = "none"]
  /\ acceptedFrom' = acceptedFrom \ {c} /\ input' = input \ {c}
  /\ UNCHANGED <<checkedSocks, existingConnection, newConnection, pc, queue>>

\* close of socket.s7i
CloseConnection(c) ==
  /\ Serving \/ pc = "closed"
  /\ c \in Open
  /\ checkedSocks' = IF c \in acceptedFrom THEN RemoveCheck(checkedSocks, c, {"in"})
                                           ELSE checkedSocks
  /\ state' = [state EXCEPT ![c] = "none"]
  /\ acceptedFrom' = acceptedFrom \ {c} /\ input' = input \ {c}
  /\ UNCHANGED <<existingConnection, newConnection, pc, queue>>

SignOff(c) ==
  /\ Serving /\ state[c] = "open"
  /\ checkedSocks' = RemoveCheck(checkedSocks, c, {"in"})
  /\ state' = [state EXCEPT ![c] = "signed off"]
  /\ UNCHANGED <<existingConnection, newConnection, pc, acceptedFrom, input, queue>>

SignOn(c) ==
  /\ Serving /\ state[c] = "signed off"
  /\ checkedSocks' = AddCheck(checkedSocks, c, {"in"}, c)
  /\ state' = [state EXCEPT ![c] = "open"]
  /\ UNCHANGED <<existingConnection, newConnection, pc, acceptedFrom, input, queue>>

\* Mutant: only the connections with findings are released.
CloseListenerFindings ==
  /\ Serving
  /\ checkedSocks' = IterFindings(checkedSocks, OverFindings)
  /\ pc' = "closing"
  /\ queue' = 0
  /\ UNCHANGED <<existingConnection, newConnection, state, acceptedFrom, input>>

\* close of listener.s7i iterates over all checks, ...
CloseListener ==
  /\ Serving
  /\ checkedSocks' = IterChecks(checkedSocks, [over |-> "checks", mask |-> Event])
  /\ pc' = "closing"
  /\ queue' = 0
  /\ UNCHANGED <<existingConnection, newConnection, state, acceptedFrom, input>>

\* ... releases the connections ...
ReleaseNext ==
  /\ pc = "closing"
  /\ \E pos \in NextPositions(checkedSocks) :
       /\ HasNextAt(checkedSocks, pos)
       /\ checkedSocks' = AfterNextFile(checkedSocks, pos)
       /\ acceptedFrom' = acceptedFrom \ {NextFileAt(checkedSocks, pos)}
  /\ UNCHANGED <<existingConnection, newConnection, pc, state, input, queue>>

\* ... and clears the checks.
ListenerClosed ==
  /\ pc = "closing"
  /\ \E pos \in NextPositions(checkedSocks) : ~HasNextAt(checkedSocks, pos)
  /\ checkedSocks' = Clear(checkedSocks)
  /\ pc' = "closed"
  /\ UNCHANGED <<existingConnection, newConnection, env>>

-----------------------------------------------------------------------------
(* Clients *)

Connect ==
  /\ queue < MaxQueue /\ pc \notin {"closing", "closed"}
  /\ SocketLimit \/ queue < Cardinality(Connection \ Open)
  /\ queue' = queue + 1
  /\ UNCHANGED <<checkedSocks, existingConnection, newConnection, pc, state, acceptedFrom, input>>

\* Data, or the end of the connection.
Send(c) ==
  /\ c \in Open \ input
  /\ input' = input \cup {c}
  /\ UNCHANGED <<checkedSocks, existingConnection, newConnection, pc, state, acceptedFrom, queue>>

-----------------------------------------------------------------------------

Server ==
  \/ WaitForRequest \/ PollSocks \/ Accept \/ AcceptFails \/ NoNewConnection \/ NextConnection
  \/ Serve \/ Return \/ ReleaseNext \/ ListenerClosed

Decisions == CloseListener \/ \E c \in Connection : CloseConnection(c) \/ SignOff(c) \/ SignOn(c)

Clients == Connect \/ \E c \in Connection : Send(c)

Finished == pc = "closed" /\ UNCHANGED vars

Next == Server \/ Decisions \/ Clients \/ Finished

Spec == Init /\ [][Next]_vars

\* The server calls waitForRequest again and again, as in its documentation.
FairSpec == Spec /\ WF_vars(Server)

-----------------------------------------------------------------------------
(* Properties *)

\* Types; connections that are not open are not referred to.
TypeOK ==
  /\ existingConnection \in Connection \cup {NoFile}
  /\ newConnection \in Connection \cup {NoFile}
  /\ pc \in {"idle", "poll", "accept", "next", "skip", "request", "served", "failed",
             "closing", "closed"}
  /\ state \in [Connection -> {"none", "open", "signed off"}]
  /\ acceptedFrom \subseteq Open /\ input \subseteq Open /\ queue \in 0..MaxQueue
  /\ checkedSocks.cells \in [Position -> Cell] /\ checkedSocks.iterPos \in Position

SignedOn == {ListeningSocket} \cup {c \in Connection : state[c] = "open"}

\* The sockets that are checked are the listener's and those of the connections that are
\* open and not signed off: none is lost when entries move, and no entry of a closed
\* connection remains.  The variables have their types.
ConnectionsChecked ==
  /\ TypeOK
  /\ pc # "closed" =>
      \A s \in Socket : GetCheck(checkedSocks, s) = IF s \in SignedOn THEN {"in"} ELSE {}

\* What waitForRequest promises: a read from the existing connection will not block,
\* although findings become old while other connections are served and closed, and
\* socket numbers are used again.
ReadWillNotBlock ==
  pc = "request" /\ existingConnection # NoFile => existingConnection \in input

\* What waitForRequest promises: it returns when input is available for an existing
\* connection or when a new connection was accepted.
ReturnsWithRequest ==
  pc = "request" => existingConnection # NoFile \/ newConnection # NoFile

\* What close promises (listener.s7i:93-94, "all references to the listener are removed from
\* the accepted sockets") holds of the connections that are signed on: close finds them among
\* its checks.  An accepted connection that the server has signed off is not among them and
\* keeps its reference to the closed listener.
AllReleased ==
  pc = "closed" => \A c \in acceptedFrom : state[c] = "signed off"

\* A connection with input is served, unless it is closed or signed off, or no socket number
\* is left for a pending connection: then every call of waitForRequest raises FILE_ERROR
\* before it comes to the existing connections.
Served ==
  \A c \in Connection :
    c \in input /\ state[c] = "open"
      ~> \/ pc = "request" /\ existingConnection = c
         \/ state[c] # "open" \/ pc = "closed"
         \/ Open = Connection /\ queue > 0

\* A pending connection is accepted, unless there is no free socket number: the findings
\* of the existing connections do not keep waitForRequest from a poll.
Accepted ==
  queue > 0 ~> (pc = "next" /\ newConnection # NoFile) \/ Open = Connection \/ pc = "closed"
=============================================================================
