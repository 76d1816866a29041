-------------------------- MODULE ListenerProofs --------------------------
(* Proofs about Listener: the checked sockets are those of the connections  *)
(* that are open and signed on, a read from a delivered connection does not *)
(* block, waitForRequest returns with a request, and close releases the     *)
(* connections, for all sets of sockets and all orders of requests, reads,  *)
(* closes, and new connections.                                             *)
EXTENDS Listener, PollTableProofs

---------------------------------------------------------------------------
(* The inductive invariant.                                                 *)

Started == pc \notin {"closing", "closed"}

\* The entries are those of the listener, at the first position, and of the connections
\* that are signed on.
EntriesOK ==
  /\ TableOK(checkedSocks)
  /\ DOMAIN checkedSocks.index = IF pc = "closed" THEN {} ELSE SignedOn
  /\ pc # "closed" =>
       /\ checkedSocks.index[ListeningSocket] = 0
       /\ Of(checkedSocks, ListeningSocket).file = NoFile
       /\ Of(checkedSocks, ListeningSocket).revents \subseteq {"in"}
       /\ \A s \in SignedOn : Of(checkedSocks, s).events = {"in"}
       /\ \A c \in SignedOn \ {ListeningSocket} : Of(checkedSocks, c).file = c

\* A finding of the listener that the iteration has not come to.
ListenerLeft ==
  /\ checkedSocks.index[ListeningSocket] >= checkedSocks.iterPos
  /\ "in" \in Of(checkedSocks, ListeningSocket).revents

\* An iteration over findings: what is left can be read without blocking.
Iterates ==
  checkedSocks.mode.over = "findings" =>
    /\ checkedSocks.mode.mask = {"in"}
    /\ \A c \in SignedOn \ {ListeningSocket} :
         checkedSocks.index[c] >= checkedSocks.iterPos /\ "in" \in Of(checkedSocks, c).revents
           => c \in input

\* The number of findings does not lead the iterator behind the table.
SomeLeft == checkedSocks.iterEvents # 0 => Left(checkedSocks) # {}

\* What poll has found.
Polled ==
  /\ checkedSocks.mode = NoIterator /\ checkedSocks.iterPos = 0
  /\ checkedSocks.numOfEvents = Cardinality(Found(checkedSocks)) /\ Found(checkedSocks) # {}
  /\ \A s \in SignedOn : Of(checkedSocks, s).revents # {} => "in" \in Of(checkedSocks, s).revents
  /\ \A c \in SignedOn \ {ListeningSocket} : "in" \in Of(checkedSocks, c).revents => c \in input
  /\ "in" \in Of(checkedSocks, ListeningSocket).revents => queue > 0

\* Before nextFile: there is a finding of a connection, if there is no new one, and a
\* finding of the listener has been counted.
NextReady ==
  /\ newConnection = NoFile => ~ListenerLeft /\ checkedSocks.iterEvents # 0
  /\ ListenerLeft => checkedSocks.iterEvents = Cardinality(Left(checkedSocks))

\* waitForRequest has returned.
Requested ==
  /\ existingConnection # NoFile \/ newConnection # NoFile
  /\ existingConnection # NoFile =>
       /\ existingConnection \in input \cap SignedOn
       /\ checkedSocks.index[existingConnection] < checkedSocks.iterPos

\* close has not come to the connections that still refer to the listener.
Closing ==
  /\ checkedSocks.mode = [over |-> "checks", mask |-> Event]
  /\ \A c \in acceptedFrom : state[c] = "open" =>
       checkedSocks.index[c] >= checkedSocks.iterPos

PhaseOK ==
  /\ Started => Open \subseteq acceptedFrom /\ checkedSocks.mode.over # "checks" /\ Iterates
  /\ pc \in {"idle", "poll", "skip", "request", "served", "failed"} =>
       (checkedSocks.mode.over = "findings" => ~ListenerLeft)
  /\ pc \in {"request", "served", "failed"} => checkedSocks.iterPos <= checkedSocks.size
  /\ pc = "accept" => Polled
  /\ pc \in {"next", "skip"} => checkedSocks.mode.over = "findings" /\ SomeLeft
  /\ pc = "next" => NextReady
  /\ pc = "skip" => newConnection # NoFile
  /\ pc = "request" => Requested
  /\ pc = "closing" => Closing
  /\ pc = "closed" => \A c \in acceptedFrom : state[c] = "signed off"

ListenerInv == TypeOK /\ EntriesOK /\ PhaseOK

---------------------------------------------------------------------------
(* Consequences.                                                            *)

LEMMA SocketFacts ==
  /\ ListeningSocket \in Socket /\ ListeningSocket \notin Connection /\ Connection \subseteq Socket
  /\ \A c \in Connection : c # NoFile /\ c \in File /\ c # ListeningSocket
  /\ MaxPos \in Nat /\ MaxQueue \in Nat /\ {"in"} \in Mask
  /\ OverFindings \in Iterator /\ OverFindings.over = "findings" /\ OverFindings.mask = {"in"}
  /\ [over |-> "checks", mask |-> Event] \in Iterator
  <1>1. {"in"} \in Mask /\ Event \in Mask
    BY DEF Mask, Event
  <1>2. OverFindings \in Iterator /\ OverFindings.over = "findings" /\ OverFindings.mask = {"in"}
    BY <1>1 DEF OverFindings, Iterator
  <1>3. [over |-> "checks", mask |-> Event] \in Iterator
    BY <1>1 DEF Iterator
  <1> QED BY <1>1, <1>2, <1>3, ListenerAssumption, PollTableAssumption DEF Connection

\* There is space for another socket.
LEMMA SpaceLeft ==
  ASSUME NEW d, TableOK(d), NEW s \in Socket, s \notin DOMAIN d.index
  PROVE  d.size < MaxPos
  <1> DEFINE S == DOMAIN d.index
             T == {t \in DOMAIN d.index : d.index[t] \in Entries(d)}
  <1>1. d.size \in Nat /\ d.index \in Indexes /\ MaxPos \in Nat
    BY TableTypes, SocketFacts DEF TableOK
  <1>2. IsFiniteSet(T) /\ Cardinality(Entries(d)) = Cardinality(T)
    BY EntriesCounted
  <1>3. T = S
    BY DEF TableOK
  <1>4. Cardinality(Entries(d)) = d.size
    <2>1. Cardinality(0 .. d.size - 1) = IF 0 > d.size - 1 THEN 0 ELSE d.size - 1 - 0 + 1
      BY <1>1, FS_Interval, SMTT(30)
    <2> QED BY <1>1, <2>1 DEF Entries
  <1>5. S \subseteq Socket \ {s}
    BY <1>1, IndexTypes
  <1>6. /\ IsFiniteSet(Socket \ {s}) /\ Cardinality(Socket \ {s}) = Cardinality(Socket) - 1
    BY ListenerAssumption, FS_RemoveElement
  <1>7. Cardinality(S) <= Cardinality(Socket \ {s})
    BY <1>5, <1>6, FS_Subset
  <1>8. Cardinality(Socket) \in Nat
    BY ListenerAssumption, FS_CardinalityType
  <1> HIDE DEF S, T
  <1>9. d.size = Cardinality(S)
    BY <1>2, <1>3, <1>4
  <1>10. Cardinality(Socket) <= MaxPos
    BY ListenerAssumption
  <1>11. d.size <= Cardinality(Socket) - 1
    BY <1>6, <1>7, <1>9
  <1> QED BY <1>1, <1>8, <1>10, <1>11

\* The cases of AddCheckOK and RemoveCheckOK in which the set of entries changes.
LEMMA EntryAdded ==
  ASSUME NEW d, TableOK(d), NEW s \in Socket, NEW events \in Mask, NEW file \in File \cup {NoFile},
         s \notin DOMAIN d.index, d.size < MaxPos, NEW g, g = AddCheck(d, s, events, file)
  PROVE  /\ TableOK(g) /\ g.mode = d.mode /\ g.iterPos = d.iterPos
         /\ g.iterEvents = d.iterEvents /\ g.numOfEvents = d.numOfEvents
         /\ DOMAIN g.index = DOMAIN d.index \cup {s} /\ g.size = d.size + 1
         /\ Of(g, s).events = events /\ Of(g, s).revents = {} /\ Of(g, s).file = file
         /\ \A t \in DOMAIN d.index : g.index[t] = d.index[t] /\ Of(g, t) = Of(d, t)
         /\ \A p \in Entries(d) : g.cells[p] = d.cells[p]
         /\ g.cells[d.size] = Of(g, s)
  BY AddCheckOK

LEMMA EntryRemoved ==
  ASSUME NEW d, TableOK(d), d.iterPos <= d.size, NEW s, NEW events, IsRemoved(d, s, events),
         NEW g, g = RemoveCheck(d, s, events)
  PROVE  /\ TableOK(g) /\ g.iterPos <= g.size /\ g.mode = d.mode
         /\ DOMAIN g.index = DOMAIN d.index \ {s}
         /\ \A t \in DOMAIN g.index :
              /\ Of(g, t) = Of(d, t)
              /\ g.index[t] >= g.iterPos <=> d.index[t] >= d.iterPos
              /\ d.index[t] < d.index[s] => g.index[t] = d.index[t]
  <1>1. d.iterPos \in Nat /\ d.size \in Nat
    BY TableTypes, CellTypes DEF TableOK, Position
  <1>2. ~Overwrites(d, s, events)
    BY <1>1 DEF Overwrites
  <1> QED BY <1>2, RemoveCheckOK

\* A connection is signed on: its entry is the last one and has no findings.
LEMMA ConnectionAdded ==
  ASSUME NEW d, TableOK(d), NEW c \in Connection, c \notin DOMAIN d.index,
         NEW g, g = AddCheck(d, c, {"in"}, c)
  PROVE  /\ TableOK(g) /\ g.mode = d.mode /\ g.iterPos = d.iterPos
         /\ g.iterEvents = d.iterEvents /\ g.numOfEvents = d.numOfEvents
         /\ DOMAIN g.index = DOMAIN d.index \cup {c} /\ g.size = d.size + 1
         /\ Of(g, c).events = {"in"} /\ Of(g, c).revents = {} /\ Of(g, c).file = c
         /\ \A t \in DOMAIN d.index : g.index[t] = d.index[t] /\ Of(g, t) = Of(d, t)
         /\ \A p \in Entries(d) : g.cells[p] = d.cells[p]
         /\ g.cells[d.size] = Of(g, c)
  <1>1. c \in Socket /\ c \in File \cup {NoFile} /\ {"in"} \in Mask
    BY SocketFacts
  <1>2. d.size < MaxPos
    BY <1>1, SpaceLeft
  <1> QED BY <1>1, <1>2, EntryAdded

\* A connection is signed off: the other entries stay on their side of the iterator, and
\* those before the entry where they are.
EntryGone(d, c, g) ==
  /\ TableOK(g) /\ g.iterPos <= g.size /\ g.mode = d.mode
  /\ DOMAIN g.index = DOMAIN d.index \ {c}
  /\ \A t \in DOMAIN g.index :
       /\ Of(g, t) = Of(d, t)
       /\ g.index[t] >= g.iterPos <=> d.index[t] >= d.iterPos
       /\ d.index[t] < d.index[c] => g.index[t] = d.index[t]

LEMMA ConnectionRemoved ==
  ASSUME NEW d, TableOK(d), d.iterPos <= d.size, NEW c \in DOMAIN d.index,
         Of(d, c).events = {"in"}, NEW g, g = RemoveCheck(d, c, {"in"})
  PROVE  EntryGone(d, c, g)
  <1>1. IsRemoved(d, c, {"in"})
    <2>1. d.index[c] \in Entries(d) /\ d.size \in Nat
      BY TableTypes DEF TableOK
    <2>2. PosOf(d, c) = d.index[c] /\ d.index[c] # d.size
      BY <2>1 DEF PosOf, Entries
    <2> QED BY <2>2 DEF IsRemoved, Of
  <1> QED BY <1>1, EntryRemoved DEF EntryGone

LEMMA NothingRemoved ==
  ASSUME NEW d, NEW c, c \notin DOMAIN d.index, NEW events
  PROVE  RemoveCheck(d, c, events) = d
  BY DEF RemoveCheck, PosOf

\* The entries, by sockets and by positions.
LEMMA EntriesOfSockets ==
  ASSUME TypeOK, EntriesOK, pc # "closed"
  PROVE  /\ checkedSocks.size \in Nat /\ checkedSocks.iterPos \in Nat /\ 0 < checkedSocks.size
         /\ checkedSocks.iterEvents \in Nat /\ checkedSocks.numOfEvents \in Nat
         /\ checkedSocks.mode \in Iterator
         /\ ListeningSocket \in SignedOn /\ DOMAIN checkedSocks.index = SignedOn
         /\ \A s \in SignedOn :
              /\ s \in Socket /\ checkedSocks.index[s] \in Entries(checkedSocks)
              /\ checkedSocks.index[s] \in Nat /\ checkedSocks.index[s] < checkedSocks.size
              /\ Of(checkedSocks, s) = checkedSocks.cells[checkedSocks.index[s]]
              /\ Of(checkedSocks, s) \in Entry /\ Of(checkedSocks, s).fd = s
              /\ Of(checkedSocks, s).revents \subseteq Finding
         /\ \A p \in Entries(checkedSocks) :
              /\ checkedSocks.cells[p].fd \in SignedOn
              /\ checkedSocks.index[checkedSocks.cells[p].fd] = p
              /\ Of(checkedSocks, checkedSocks.cells[p].fd) = checkedSocks.cells[p]
         /\ \A c \in SignedOn \ {ListeningSocket} :
              c \in Connection /\ state[c] = "open" /\ checkedSocks.index[c] > 0
  <1> DEFINE d == checkedSocks
  <1>1. TableOK(d) /\ DOMAIN d.index = SignedOn /\ d.index[ListeningSocket] = 0
    BY DEF EntriesOK
  <1>2. /\ d.size \in Nat /\ d.iterPos \in Position /\ d.iterEvents \in Nat
        /\ d.numOfEvents \in Nat /\ d.mode \in Iterator
    BY <1>1, TableTypes DEF TableOK
  <1>3. ListeningSocket \in SignedOn /\ SignedOn \subseteq Socket
    BY SocketFacts DEF SignedOn
  <1>4. \A s \in SignedOn : d.index[s] \in Entries(d) /\ d.cells[d.index[s]].fd = s
    BY <1>1 DEF TableOK
  <1>5. \A p \in Entries(d) : /\ d.cells[p] \in Entry /\ d.cells[p].fd \in SignedOn
                              /\ d.index[d.cells[p].fd] = p
    BY <1>1 DEF TableOK
  <1>6. \A p \in Entries(d) : p \in Nat /\ p < d.size
    BY <1>2 DEF Entries
  <1>7. \A e \in Entry : e.revents \subseteq Finding
    BY DEF Entry
  <1>8. ASSUME NEW c \in SignedOn \ {ListeningSocket}
        PROVE  c \in Connection /\ state[c] = "open" /\ d.index[c] > 0
    <2>1. c \in Connection /\ state[c] = "open"
      BY DEF SignedOn
    <2>2. d.index[c] # 0
      BY <1>1, <1>3, <1>4
    <2>3. d.index[c] \in Nat
      BY <1>4, <1>6
    <2> QED BY <2>1, <2>2, <2>3
  <1>9. d.iterPos \in Nat
    BY <1>2, SocketFacts DEF Position
  <1> HIDE DEF d
  <1>10. \A s \in SignedOn : Of(d, s) = d.cells[d.index[s]]
    BY DEF Of
  <1>11. 0 < d.size
    BY <1>1, <1>3, <1>4, <1>6
  <1> QED BY <1>1, <1>2, <1>3, <1>4, <1>5, <1>6, <1>7, <1>8, <1>9, <1>10, <1>11 DEF d

\* An operation that leaves the entries and the connections as they are.
LEMMA SameEntries ==
  ASSUME TypeOK, EntriesOK, pc # "closed", pc' # "closed",
         Same(checkedSocks, checkedSocks'), state' = state
  PROVE  /\ EntriesOK' /\ SignedOn' = SignedOn /\ checkedSocks'.index = checkedSocks.index
         /\ checkedSocks'.size = checkedSocks.size /\ checkedSocks'.cells = checkedSocks.cells
         /\ checkedSocks'.numOfEvents = checkedSocks.numOfEvents
         /\ \A s \in SignedOn : Of(checkedSocks', s) = Of(checkedSocks, s)
  <1>1. SignedOn' = SignedOn
    BY DEF SignedOn
  <1>2. /\ TableOK(checkedSocks') /\ checkedSocks'.index = checkedSocks.index
        /\ checkedSocks'.size = checkedSocks.size /\ checkedSocks'.cells = checkedSocks.cells
        /\ checkedSocks'.numOfEvents = checkedSocks.numOfEvents
    BY DEF Same
  <1>3. \A s : Of(checkedSocks', s) = Of(checkedSocks, s)
    BY <1>2 DEF Of
  <1>4. EntriesOK'
    BY <1>1, <1>2, <1>3 DEF EntriesOK
  <1> QED BY <1>1, <1>2, <1>3, <1>4

\* The types of a table are known, those of the other variables are left.
LEMMA TypesKept ==
  ASSUME EntriesOK',
         existingConnection' \in Connection \cup {NoFile},
         newConnection' \in Connection \cup {NoFile},
         pc' \in {"idle", "poll", "accept", "next", "skip", "request", "served", "failed",
                  "closing", "closed"},
         state' \in [Connection -> {"none", "open", "signed off"}],
         acceptedFrom' \subseteq Open', input' \subseteq Open', queue' \in 0..MaxQueue
  PROVE  TypeOK'
  <1>1. checkedSocks' \in Table
    BY DEF EntriesOK, TableOK
  <1>2. checkedSocks'.cells \in [Position -> Cell] /\ checkedSocks'.iterPos \in Position
    BY <1>1, TableTypes
  <1> QED BY <1>2 DEF TypeOK

---------------------------------------------------------------------------
(* The actions of waitForRequest.                                           *)

LEMMA WaitKeeps ==
  ASSUME ListenerInv, WaitForRequest
  PROVE  ListenerInv'
  <1> DEFINE d == checkedSocks
             g == checkedSocks'
  <1>1. PICK pos \in NextPositions(d) :
          /\ g = AfterHasNext(d, pos)
          /\ IF FindingsLeft(pos)
             THEN pc' = "next" /\ newConnection' = NoFile
             ELSE pc' = "poll" /\ UNCHANGED newConnection
    BY DEF WaitForRequest
  <1>2. /\ pc = "idle" /\ UNCHANGED <<existingConnection, env>>
        /\ TypeOK /\ EntriesOK /\ PhaseOK /\ TableOK(d)
    BY DEF WaitForRequest, ListenerInv, EntriesOK
  <1>3. /\ Same(d, g) /\ g.mode = d.mode /\ g.iterPos = pos /\ g.iterEvents = d.iterEvents
    BY <1>1, <1>2, NextOK
  <1>4. /\ EntriesOK' /\ SignedOn' = SignedOn /\ g.index = d.index /\ g.size = d.size
        /\ g.cells = d.cells /\ \A s \in SignedOn : Of(g, s) = Of(d, s)
    BY <1>1, <1>2, <1>3, SameEntries DEF env
  <1>5. TypeOK'
    BY <1>1, <1>2, <1>4, TypesKept DEF env, TypeOK, Open
  <1>6. /\ d.mode \in Iterator /\ d.size \in Nat /\ d.iterPos \in Nat /\ ListeningSocket \in SignedOn
        /\ \A s \in SignedOn : d.index[s] \in Nat /\ d.index[s] < d.size
    BY <1>2, EntriesOfSockets
  <1>7. /\ pos \in Position
        /\ HasNextAt(d, pos) =>
             pos \in Entries(d) /\ pos >= d.iterPos /\ (d.mode.over = "findings" => d.iterEvents # 0)
    BY <1>2, NextPositionsOK
  <1>8. pos \in Nat
    BY <1>7, SocketFacts DEF Position
  <1>9. Open \subseteq acceptedFrom /\ d.mode.over # "checks" /\ Iterates
        /\ (d.mode.over = "findings" => ~ListenerLeft)
    BY <1>2 DEF PhaseOK, Started
  <1>10. Open' \subseteq acceptedFrom'
    BY <1>2, <1>9 DEF env, Open
  <1>11. CASE HasNextAt(d, pos)
    <2>1. d.mode.over = "findings" /\ d.iterEvents # 0 /\ pos >= d.iterPos
      BY <1>6, <1>7, <1>9, <1>11 DEF HasNextAt, Iterator, NoIterator
    <2>2. pc' = "next" /\ newConnection' = NoFile
      BY <1>1, <1>11 DEF FindingsLeft
    <2>3. Left(g) # {}
      BY <1>1, <1>2, <1>11, <2>1, NextLeft
    <2>4. Iterates'
      BY <1>2, <1>3, <1>4, <1>6, <1>8, <1>9, <2>1 DEF Iterates, env
    <2>5. ~ListenerLeft'
      BY <1>3, <1>4, <1>6, <1>8, <1>9, <2>1 DEF ListenerLeft
    <2>6. NextReady' /\ SomeLeft'
      BY <1>3, <2>1, <2>3, <2>5 DEF NextReady, SomeLeft
    <2>7. PhaseOK'
      BY <1>3, <1>9, <1>10, <2>1, <2>2, <2>4, <2>6 DEF PhaseOK, Started
    <2> QED BY <1>4, <1>5, <2>7 DEF ListenerInv
  <1>12. CASE ~HasNextAt(d, pos)
    <2>1. pc' = "poll"
      BY <1>1, <1>12 DEF FindingsLeft
    <2>2. ASSUME d.mode.over = "findings"
          PROVE  pos >= d.size
      BY <1>6, <1>8, <1>12, <2>2 DEF HasNextAt
    <2>3. d.mode.over = "findings" => ~ListenerLeft'
      BY <1>3, <1>4, <1>6, <1>8, <2>2 DEF ListenerLeft
    <2>4. Iterates'
      BY <1>2, <1>3, <1>4, <1>6, <1>8, <1>9, <2>2 DEF Iterates, env
    <2>5. PhaseOK'
      BY <1>3, <1>9, <1>10, <2>1, <2>3, <2>4 DEF PhaseOK, Started
    <2> QED BY <1>4, <1>5, <2>5 DEF ListenerInv
  <1> QED BY <1>11, <1>12

LEMMA PollKeeps ==
  ASSUME "alone" \notin HangUps, ListenerInv, PollSocks
  PROVE  ListenerInv'
  <1> DEFINE d == checkedSocks
             g == checkedSocks'
  <1>1. PICK found \in [Entries(d) -> {{}, {"in"}, {"other"}, {"in", "other"}}] :
          /\ \A p \in Entries(d) : found[p] \in Findings(d.cells[p])
          /\ \E p \in Entries(d) : found[p] # {}
          /\ g = Poll(d, found)
    BY DEF PollSocks
  <1>2. /\ pc = "poll" /\ pc' = "accept" /\ UNCHANGED <<existingConnection, newConnection, env>>
        /\ TypeOK /\ EntriesOK /\ PhaseOK /\ TableOK(d)
    BY DEF PollSocks, ListenerInv, EntriesOK
  <1>3. found \in [Entries(d) -> SUBSET Finding]
    BY <1>1 DEF Finding, Event
  <1>4. /\ TableOK(g) /\ g.size = d.size /\ g.index = d.index
        /\ g.mode = NoIterator /\ g.iterPos = 0
        /\ g.numOfEvents = Cardinality(WithFinding(d, found))
        /\ \A p \in Entries(d) : g.cells[p] = WithRevents(d.cells[p], found[p])
    BY <1>1, <1>2, <1>3, PollOK
  <1>5. /\ ListeningSocket \in SignedOn /\ DOMAIN d.index = SignedOn
        /\ \A s \in SignedOn :
             /\ d.index[s] \in Entries(d) /\ Of(d, s) = d.cells[d.index[s]]
             /\ Of(d, s) \in Entry /\ Of(d, s).fd = s
        /\ \A c \in SignedOn \ {ListeningSocket} : c \in Connection
    BY <1>2, EntriesOfSockets
  <1>6. SignedOn' = SignedOn
    BY <1>2 DEF SignedOn, env
  <1>7. ASSUME NEW e \in Entry, NEW r
        PROVE  /\ WithRevents(e, r).fd = e.fd /\ WithRevents(e, r).events = e.events
               /\ WithRevents(e, r).file = e.file /\ WithRevents(e, r).revents = r
    BY DEF WithRevents, Entry
  <1>8. ASSUME NEW s \in SignedOn
        PROVE  /\ Of(g, s).events = Of(d, s).events /\ Of(g, s).file = Of(d, s).file
               /\ Of(g, s).revents = found[d.index[s]]
               /\ Of(g, s).revents \in Findings(Of(d, s))
    <2>1. Of(g, s) = WithRevents(Of(d, s), found[d.index[s]])
      BY <1>4, <1>5 DEF Of
    <2> QED BY <1>1, <1>5, <1>7, <2>1
  <1>9. ASSUME NEW r, r \in Findings(Of(d, ListeningSocket))
        PROVE  r \subseteq {"in"} /\ (r # {} => "in" \in r) /\ ("in" \in r => queue > 0)
    <2>1. Of(d, ListeningSocket).fd = ListeningSocket
      BY <1>5
    <2> QED BY <1>9, <2>1 DEF Findings
  <1>10. ASSUME NEW c \in SignedOn \ {ListeningSocket}, NEW r, r \in Findings(Of(d, c)), r # {}
         PROVE  "in" \in r /\ c \in input
    <2>1. Of(d, c).fd = c
      BY <1>5
    <2>2. r \in IF c \in input
                THEN {{"in"}} \cup (IF "with input" \in HangUps THEN {{"in", "other"}} ELSE {})
                ELSE {{}}
      BY <1>10, <2>1 DEF Findings
    <2> QED BY <1>10, <2>2
  <1>11. EntriesOK'
    BY <1>2, <1>4, <1>5, <1>6, <1>8, <1>9 DEF EntriesOK
  <1>12. TypeOK'
    BY <1>2, <1>11, TypesKept DEF env, TypeOK, Open
  <1>13. Found(g) = WithFinding(d, found)
    <2>1. \A p \in Entries(d) : d.cells[p] \in Entry
      BY <1>2 DEF TableOK
    <2>2. \A p \in Entries(d) : g.cells[p].revents = found[p]
      BY <1>4, <1>7, <2>1
    <2> QED BY <1>4, <2>2 DEF Found, WithFinding, Entries
  <1>14. WithFinding(d, found) # {}
    BY <1>1 DEF WithFinding
  <1>15. Polled'
    <2>1. \A s \in SignedOn : Of(g, s).revents # {} => "in" \in Of(g, s).revents
      BY <1>8, <1>9, <1>10
    <2>2. \A c \in SignedOn \ {ListeningSocket} : "in" \in Of(g, c).revents => c \in input
      BY <1>8, <1>10
    <2>3. "in" \in Of(g, ListeningSocket).revents => queue > 0
      BY <1>5, <1>8, <1>9
    <2>4. input' = input /\ queue' = queue
      BY <1>2 DEF env
    <2> QED BY <1>4, <1>6, <1>13, <1>14, <2>1, <2>2, <2>3, <2>4 DEF Polled
  <1>16. NoIterator.over = "empty"
    BY DEF NoIterator
  <1>17. Open' \subseteq acceptedFrom'
    BY <1>2 DEF env, Open, PhaseOK, Started
  <1>18. PhaseOK'
    BY <1>2, <1>4, <1>15, <1>16, <1>17 DEF PhaseOK, Started, Iterates
  <1> QED BY <1>11, <1>12, <1>18 DEF ListenerInv

\* Every finding of poll is left to an iteration over findings.
LEMMA FindingsCounted ==
  ASSUME TypeOK, EntriesOK, Polled, pc = "accept"
  PROVE  /\ \A p \in Entries(checkedSocks) :
              checkedSocks.cells[p].revents # {} => "in" \in checkedSocks.cells[p].revents
         /\ checkedSocks.numOfEvents # 0
  <1> DEFINE d == checkedSocks
  <1>1. TableOK(d)
    BY DEF EntriesOK
  <1>2. \A p \in Entries(d) : d.cells[p].fd \in SignedOn /\ Of(d, d.cells[p].fd) = d.cells[p]
    BY EntriesOfSockets
  <1>3. \A s \in SignedOn : Of(d, s).revents # {} => "in" \in Of(d, s).revents
    BY DEF Polled
  <1>4. \A p \in Entries(d) : d.cells[p].revents # {} => "in" \in d.cells[p].revents
    BY <1>2, <1>3
  <1>5. IsFiniteSet(Found(d))
    BY <1>1, FindingsBySocket
  <1>6. Cardinality(Found(d)) # 0
    BY <1>5, FS_EmptySet DEF Polled
  <1> QED BY <1>4, <1>6 DEF Polled

LEMMA AcceptKeeps ==
  ASSUME ListenerInv, Accept
  PROVE  ListenerInv'
  <1> DEFINE d == checkedSocks
             g == checkedSocks'
             L == ListeningSocket
  <1>1. PICK c \in Connection \ Open :
          /\ state' = [state EXCEPT ![c] = "open"]
          /\ acceptedFrom' = acceptedFrom \cup {c} /\ input' = input \ {c}
          /\ newConnection' = c
          /\ g = IterFindings(AddCheck(d, c, {"in"}, c), OverFindings)
    BY DEF Accept
  <1>2. /\ pc = "accept" /\ pc' = "next" /\ queue' = queue - 1 /\ ListenerReady
        /\ UNCHANGED existingConnection
        /\ TypeOK /\ EntriesOK /\ PhaseOK /\ TableOK(d) /\ Polled /\ DOMAIN d.index = SignedOn
    BY DEF Accept, ListenerInv, EntriesOK, PhaseOK
  <1>3. /\ d.size \in Nat /\ d.numOfEvents \in Nat /\ L \in SignedOn
        /\ \A s \in SignedOn :
             /\ d.index[s] \in Nat /\ d.index[s] < d.size /\ s \in Socket
             /\ Of(d, s) \in Entry /\ Of(d, s).fd = s
        /\ \A s \in SignedOn \ {L} : s \in Connection /\ state[s] = "open"
        /\ d.index[L] = 0 /\ Of(d, L).revents \subseteq {"in"}
    BY <1>2, EntriesOfSockets DEF EntriesOK
  <1>4. /\ c \in Connection /\ c \in Socket /\ c \in File /\ c # NoFile /\ c # L
        /\ state[c] = "none" /\ c \notin SignedOn
    BY <1>1, SocketFacts DEF Open, SignedOn
  <1>5. SignedOn' = SignedOn \cup {c} /\ Open' = Open \cup {c}
        /\ state' \in [Connection -> {"none", "open", "signed off"}]
    <2>1. state' \in [Connection -> {"none", "open", "signed off"}]
          /\ \A x \in Connection : state'[x] = IF x = c THEN "open" ELSE state[x]
      BY <1>1, <1>2 DEF TypeOK
    <2>2. SignedOn' = SignedOn \cup {c}
      BY <1>4, <2>1 DEF SignedOn
    <2>3. Open' = Open \cup {c}
      BY <1>4, <2>1 DEF Open
    <2> QED BY <2>1, <2>2, <2>3
  <1> DEFINE a == AddCheck(d, c, {"in"}, c)
  <1>7. a = AddCheck(d, c, {"in"}, c)
    OBVIOUS
  <1>8. g = IterFindings(a, OverFindings)
    BY <1>1
  <1> HIDE DEF a
  <1>9. /\ TableOK(a) /\ a.numOfEvents = d.numOfEvents /\ a.size = d.size + 1
        /\ DOMAIN a.index = SignedOn \cup {c}
        /\ Of(a, c).events = {"in"} /\ Of(a, c).revents = {} /\ Of(a, c).file = c
        /\ \A t \in SignedOn : a.index[t] = d.index[t] /\ Of(a, t) = Of(d, t)
        /\ \A p \in Entries(d) : a.cells[p] = d.cells[p]
        /\ a.cells[d.size] = Of(a, c)
    <2> HIDE DEF d
    <2> QED BY <1>2, <1>4, <1>7, ConnectionAdded
  <1>10. /\ Same(a, g) /\ g.mode = OverFindings /\ g.iterPos = 0
         /\ g.iterEvents = a.numOfEvents
    BY <1>8, <1>9, StartOK, SocketFacts
  <1>11. /\ TableOK(g) /\ g.index = a.index /\ g.cells = a.cells /\ g.size = a.size
         /\ \A s : Of(g, s) = Of(a, s)
    BY <1>10 DEF Same, Of
  <1>12. EntriesOK'
    <2>1. \A s \in SignedOn : Of(d, s).events = {"in"}
      BY <1>2 DEF EntriesOK
    <2>2. \A t \in SignedOn \ {L} : Of(d, t).file = t
      BY <1>2 DEF EntriesOK
    <2>3. Of(d, L).file = NoFile
      BY <1>2 DEF EntriesOK
    <2>4. DOMAIN g.index = SignedOn'
      BY <1>5, <1>9, <1>11
    <2>5. g.index[L] = 0 /\ Of(g, L) = Of(d, L)
      BY <1>3, <1>9, <1>11
    <2>6. \A s \in SignedOn' : Of(g, s).events = {"in"}
      <3>1. Of(g, c).events = {"in"}
        BY <1>9, <1>11
      <3>2. \A s \in SignedOn : Of(g, s) = Of(d, s)
        BY <1>9, <1>11
      <3> QED BY <1>5, <2>1, <3>1, <3>2
    <2>7. \A t \in SignedOn' \ {L} : Of(g, t).file = t
      BY <1>5, <1>9, <1>11, <2>2, ZenonT(40)
    <2> QED BY <1>2, <1>3, <1>11, <2>3, <2>4, <2>5, <2>6, <2>7 DEF EntriesOK
  <1>13. "in" \in Of(d, L).revents
    <2>1. GetFinding(d, L) = {"in"}
      BY <1>2 DEF ListenerReady
    <2>2. PosOf(d, L) = d.index[L]
      BY <1>2, <1>3 DEF PosOf
    <2> QED BY <2>1, <2>2 DEF GetFinding, Of
  <1>14. queue' \in 0 .. MaxQueue
    <2>1. queue > 0
      BY <1>2, <1>13 DEF Polled
    <2>2. queue \in 0 .. MaxQueue
      BY <1>2 DEF TypeOK
    <2> QED BY <1>2, <2>1, <2>2, SocketFacts
  <1>15. TypeOK'
    BY <1>1, <1>2, <1>4, <1>5, <1>12, <1>14, TypesKept DEF TypeOK
  <1>16. Left(g) = Found(d) /\ Left(g) # {}
    <2>1. \A p \in Entries(d) : d.cells[p].revents # {} <=> "in" \in d.cells[p].revents
      BY <1>2, FindingsCounted
    <2>2. Entries(g) = Entries(d) \cup {d.size} /\ (\A p \in Entries(g) : p >= 0)
          /\ d.size \notin Entries(d)
      BY <1>3, <1>9, <1>11 DEF Entries
    <2>3. g.cells[d.size].revents = {} /\ \A p \in Entries(d) : g.cells[p] = d.cells[p]
      BY <1>9, <1>11
    <2>4. g.iterPos = 0 /\ g.mode.mask = {"in"}
      BY <1>10, SocketFacts
    <2>5. Left(g) = {p \in Entries(g) : "in" \in g.cells[p].revents}
      BY <2>2, <2>4 DEF Left
    <2>6. Left(g) = Found(d)
      BY <2>1, <2>2, <2>3, <2>5 DEF Found
    <2> QED BY <1>2, <2>6 DEF Polled
  <1>17. g.iterEvents = Cardinality(Left(g))
    BY <1>2, <1>9, <1>10, <1>16 DEF Polled
  <1>18. Iterates'
    <2>1. ASSUME NEW t \in SignedOn' \ {L}, "in" \in Of(g, t).revents
          PROVE  t \in input'
      <3>1. t # c
        BY <1>9, <1>11, <2>1
      <3>2. t \in SignedOn \ {L} /\ Of(g, t) = Of(d, t)
        BY <1>5, <1>9, <1>11, <2>1, <3>1
      <3> QED BY <1>1, <1>2, <2>1, <3>1, <3>2 DEF Polled
    <2> QED BY <1>10, <2>1, SocketFacts DEF Iterates
  <1>19. NextReady' /\ SomeLeft' /\ g.mode.over = "findings"
    BY <1>1, <1>4, <1>10, <1>16, <1>17, SocketFacts DEF NextReady, SomeLeft
  <1>20. Open' \subseteq acceptedFrom'
    BY <1>1, <1>2, <1>5 DEF PhaseOK, Started
  <1>21. PhaseOK'
    BY <1>2, <1>18, <1>19, <1>20 DEF PhaseOK, Started
  <1> QED BY <1>12, <1>15, <1>21 DEF ListenerInv

LEMMA AcceptFailsKeeps ==
  ASSUME ListenerInv, AcceptFails
  PROVE  ListenerInv'
  <1>1. /\ pc = "accept" /\ pc' = "failed"
        /\ UNCHANGED <<checkedSocks, existingConnection, newConnection, env>>
        /\ TypeOK /\ EntriesOK /\ PhaseOK
    BY DEF AcceptFails, ListenerInv
  <1>2. Polled /\ Open \subseteq acceptedFrom
    BY <1>1 DEF PhaseOK, Started
  <1>3. SignedOn' = SignedOn /\ Open' = Open
    BY <1>1 DEF SignedOn, Open, env
  <1>4. EntriesOK'
    BY <1>1, <1>3 DEF EntriesOK
  <1>5. TypeOK'
    BY <1>1, <1>3 DEF TypeOK, env
  <1>6. checkedSocks.size \in Nat /\ checkedSocks.mode.over = "empty" /\ checkedSocks.iterPos = 0
    BY <1>1, <1>2, EntriesOfSockets DEF Polled, NoIterator
  <1>7. PhaseOK'
    BY <1>1, <1>2, <1>3, <1>6 DEF PhaseOK, Started, Iterates, env
  <1> QED BY <1>4, <1>5, <1>7 DEF ListenerInv

LEMMA NoNewConnectionKeeps ==
  ASSUME ListenerInv, NoNewConnection
  PROVE  ListenerInv'
  <1> DEFINE d == checkedSocks
             g == checkedSocks'
             L == ListeningSocket
  <1>1. /\ pc = "accept" /\ pc' = "next" /\ ~ListenerReady /\ newConnection' = NoFile
        /\ g = IterFindings(d, OverFindings) /\ UNCHANGED <<existingConnection, env>>
        /\ TypeOK /\ EntriesOK /\ PhaseOK /\ TableOK(d) /\ Polled /\ DOMAIN d.index = SignedOn
    BY DEF NoNewConnection, ListenerInv, EntriesOK, PhaseOK
  <1>2. /\ Same(d, g) /\ g.mode = OverFindings /\ g.iterPos = 0
        /\ g.iterEvents = d.numOfEvents
    BY <1>1, StartOK, SocketFacts
  <1>3. /\ EntriesOK' /\ SignedOn' = SignedOn /\ g.index = d.index /\ g.size = d.size
        /\ g.cells = d.cells /\ \A s \in SignedOn : Of(g, s) = Of(d, s)
    BY <1>1, <1>2, SameEntries DEF env
  <1>4. TypeOK'
    BY <1>1, <1>3, TypesKept DEF env, TypeOK, Open
  <1>5. /\ L \in SignedOn /\ d.index[L] \in Nat /\ d.index[L] < d.size /\ d.size \in Nat
        /\ Of(d, L).revents \subseteq {"in"}
    BY <1>1, EntriesOfSockets DEF EntriesOK
  <1>6. ~ListenerLeft'
    <2>1. GetFinding(d, L) # {"in"}
      BY <1>1 DEF ListenerReady
    <2>2. PosOf(d, L) = d.index[L] /\ PosOf(d, L) # d.size
      BY <1>1, <1>5 DEF PosOf
    <2>3. GetFinding(d, L) = Of(d, L).revents \cap Event
      BY <2>2 DEF GetFinding, Of
    <2>4. "in" \notin Of(d, L).revents
      BY <1>5, <2>1, <2>3 DEF Event
    <2> QED BY <1>3, <1>5, <2>4 DEF ListenerLeft
  <1>7. Left(g) # {}
    <2>1. \A p \in Entries(d) : d.cells[p].revents # {} => "in" \in d.cells[p].revents
      BY <1>1, FindingsCounted
    <2>2. PICK p \in Entries(d) : d.cells[p].revents # {}
      BY <1>1 DEF Polled, Found
    <2>3. g.iterPos = 0 /\ g.mode.mask = {"in"} /\ Entries(g) = Entries(d) /\ p >= 0
      BY <1>2, <1>3, <1>5, SocketFacts DEF Entries
    <2>4. p \in Left(g)
      BY <1>3, <2>1, <2>2, <2>3 DEF Left
    <2> QED BY <2>4
  <1>8. NextReady' /\ SomeLeft' /\ g.mode.over = "findings"
    <2>1. g.iterEvents # 0
      BY <1>1, <1>2, FindingsCounted
    <2> QED BY <1>2, <1>6, <1>7, <2>1, SocketFacts DEF NextReady, SomeLeft
  <1>9. Iterates'
    BY <1>1, <1>2, <1>3, SocketFacts DEF Iterates, Polled, env
  <1>10. Open' \subseteq acceptedFrom'
    BY <1>1 DEF env, Open, PhaseOK, Started
  <1>11. PhaseOK'
    BY <1>1, <1>8, <1>9, <1>10 DEF PhaseOK, Started
  <1> QED BY <1>3, <1>4, <1>11 DEF ListenerInv

\* nextFile delivers a connection, or nothing: the listener's finding is skipped, or there
\* is a new connection.
LEMMA NextConnectionKeeps ==
  ASSUME ListenerInv, NextConnection
  PROVE  ListenerInv'
  <1> DEFINE d == checkedSocks
             g == checkedSocks'
             L == ListeningSocket
  <1>1. PICK pos \in NextPositions(d) :
          g = AfterNextFile(d, pos) /\ existingConnection' = NextFileAt(d, pos)
    BY DEF NextConnection
  <1>2. /\ pc \in {"next", "skip"} /\ UNCHANGED <<newConnection, env>>
        /\ pc' = IF pc = "next" /\ existingConnection' = NoFile THEN "skip" ELSE "request"
        /\ TypeOK /\ EntriesOK /\ PhaseOK /\ TableOK(d) /\ DOMAIN d.index = SignedOn
    BY DEF NextConnection, ListenerInv, EntriesOK
  <1>3. /\ Open \subseteq acceptedFrom /\ Iterates /\ SomeLeft
        /\ d.mode.over = "findings" /\ d.mode.mask = {"in"}
        /\ pc = "next" => NextReady
        /\ pc = "skip" => ~ListenerLeft /\ newConnection # NoFile
    BY <1>2 DEF PhaseOK, Started, Iterates
  <1>4. /\ d.size \in Nat /\ d.iterPos \in Nat /\ 0 < d.size /\ L \in SignedOn
        /\ \A s \in SignedOn : d.index[s] \in Nat /\ d.index[s] < d.size
        /\ \A p \in Entries(d) : /\ d.cells[p].fd \in SignedOn /\ d.index[d.cells[p].fd] = p
                                 /\ Of(d, d.cells[p].fd) = d.cells[p]
        /\ \A c \in SignedOn \ {L} : c \in Connection /\ Of(d, c).file = c /\ d.index[c] > 0
        /\ d.index[L] = 0 /\ Of(d, L).file = NoFile /\ Of(d, L).revents \subseteq {"in"}
    BY <1>2, EntriesOfSockets DEF EntriesOK
  <1>5. /\ Same(d, g) /\ g.mode = d.mode
        /\ g.iterPos = IF HasNextAt(d, pos) THEN pos + 1 ELSE pos
        /\ g.iterEvents =
             IF HasNextAt(d, pos) /\ d.mode.over = "findings"
                /\ d.cells[pos].revents \subseteq d.mode.mask
             THEN d.iterEvents - 1 ELSE d.iterEvents
    BY <1>1, <1>2, NextOK
  <1>6. /\ EntriesOK' /\ SignedOn' = SignedOn /\ g.index = d.index /\ g.size = d.size
        /\ g.cells = d.cells /\ \A s \in SignedOn : Of(g, s) = Of(d, s)
    BY <1>2, <1>5, SameEntries DEF env
  <1>7. Open' \subseteq acceptedFrom' /\ input' = input /\ Open' = Open
    BY <1>2, <1>3 DEF env, Open
  <1>8. CASE HasNextAt(d, pos)
    <2> DEFINE s == d.cells[pos].fd
    <2>1. /\ pos \in Entries(d) /\ pos >= d.iterPos /\ d.cells[pos].revents \cap d.mode.mask # {}
      BY <1>2, <1>3, <1>8, NextPositionsOK DEF EventsAt
    <2>2. /\ pos \in Nat /\ pos < d.size /\ g.iterPos = pos + 1
      BY <1>4, <1>5, <1>8, <2>1 DEF Entries
    <2>3. /\ s \in SignedOn /\ d.index[s] = pos /\ Of(d, s) = d.cells[pos] /\ "in" \in Of(d, s).revents
      BY <1>3, <1>4, <2>1
    <2>4. pos \in Left(d) /\ Left(g) = Left(d) \ {pos}
      BY <1>1, <1>2, <1>3, <1>8, NextLeft
    <2>5. existingConnection' = Of(d, s).file
      BY <1>1, <1>8, <2>3 DEF NextFileAt
    <2>6. Iterates'
      <3>1. ASSUME NEW c \in SignedOn \ {L}, d.index[c] >= pos + 1, "in" \in Of(d, c).revents
            PROVE  c \in input
        <4>1. d.index[c] >= d.iterPos
          BY <1>4, <2>1, <2>2, <3>1
        <4> QED BY <1>3, <3>1, <4>1 DEF Iterates
      <3> QED BY <1>3, <1>5, <1>6, <1>7, <2>2, <3>1 DEF Iterates
    <2>7. ~ListenerLeft'
      BY <1>4, <1>6, <2>2 DEF ListenerLeft
    <2> HIDE DEF s
    <2>8. CASE s = L
      <3>1. pos = 0 /\ ListenerLeft
        BY <1>4, <2>1, <2>3, <2>8 DEF ListenerLeft
      <3>2. pc = "next" /\ newConnection # NoFile /\ d.iterEvents = Cardinality(Left(d))
        BY <1>2, <1>3, <3>1 DEF NextReady
      <3>3. existingConnection' = NoFile /\ pc' = "skip"
        BY <1>2, <1>4, <2>5, <2>8, <3>2
      <3>4. g.iterEvents = d.iterEvents - 1
        BY <1>3, <1>4, <1>5, <1>8, <2>3, <2>8
      <3>5. SomeLeft'
        <4>1. IsFiniteSet(Left(d))
          BY <1>2, FindingsBySocket
        <4>2. Cardinality(Left(g)) = Cardinality(Left(d)) - 1
          BY <2>4, <4>1, FS_RemoveElement
        <4>3. Cardinality(Left(g)) = g.iterEvents
          BY <3>2, <3>4, <4>2
        <4>4. Left(g) = {} => g.iterEvents = 0
          BY <4>3, FS_EmptySet
        <4> QED BY <4>4 DEF SomeLeft
      <3>6. newConnection' # NoFile
        BY <1>2, <3>2
      <3>7. PhaseOK'
        BY <1>3, <1>5, <1>7, <2>6, <2>7, <3>3, <3>5, <3>6 DEF PhaseOK, Started
      <3>8. TypeOK'
        BY <1>2, <1>6, <3>3, TypesKept DEF env, TypeOK, Open
      <3> QED BY <1>6, <3>7, <3>8 DEF ListenerInv
    <2>9. CASE s # L
      <3>1. /\ s \in Connection /\ existingConnection' = s /\ s # NoFile
        BY <1>4, <2>3, <2>5, <2>9, SocketFacts
      <3>2. s \in input
        BY <1>3, <2>1, <2>3, <2>9 DEF Iterates
      <3>3. pc' = "request"
        BY <1>2, <3>1
      <3>4. g.index[s] < g.iterPos /\ g.iterPos <= g.size
        BY <1>4, <1>6, <2>2, <2>3
      <3>5. Requested'
        BY <1>6, <1>7, <2>3, <3>1, <3>2, <3>4 DEF Requested
      <3>6. PhaseOK'
        BY <1>3, <1>5, <1>7, <2>6, <2>7, <3>3, <3>4, <3>5 DEF PhaseOK, Started
      <3>7. TypeOK'
        BY <1>2, <1>6, <3>1, <3>3, TypesKept DEF env, TypeOK, Open
      <3> QED BY <1>6, <3>6, <3>7 DEF ListenerInv
    <2> QED BY <2>8, <2>9
  <1>9. CASE ~HasNextAt(d, pos)
    <2>1. d.iterEvents = 0
      BY <1>2, <1>3, <1>9, NextLeft DEF SomeLeft
    <2>2. pos = d.size
      BY <1>3, <2>1 DEF NextPositions
    <2>3. existingConnection' = NoFile /\ g.iterPos = d.size /\ g.iterEvents = 0
      BY <1>1, <1>5, <1>9, <2>1, <2>2 DEF NextFileAt
    <2>4. newConnection' # NoFile
      BY <1>2, <1>3, <2>1 DEF NextReady
    <2>5. ~ListenerLeft'
      BY <1>4, <1>6, <2>3 DEF ListenerLeft
    <2>6. Iterates'
      BY <1>3, <1>4, <1>5, <1>6, <2>3 DEF Iterates
    <2>7. SomeLeft' /\ Requested' /\ g.iterPos <= g.size
      BY <1>4, <1>6, <2>3, <2>4 DEF SomeLeft, Requested
    <2>8. PhaseOK'
      BY <1>2, <1>3, <1>5, <1>7, <2>4, <2>5, <2>6, <2>7 DEF PhaseOK, Started
    <2>9. TypeOK'
      BY <1>2, <1>6, <2>3, TypesKept DEF env, TypeOK, Open
    <2> QED BY <1>6, <2>8, <2>9 DEF ListenerInv
  <1> QED BY <1>8, <1>9

---------------------------------------------------------------------------
(* The server between two calls.                                            *)

LEMMA ServeKeeps ==
  ASSUME ListenerInv, Serve
  PROVE  ListenerInv'
  <1>1. /\ pc = "request" /\ pc' = "served" /\ input' = input \ {existingConnection}
        /\ UNCHANGED <<checkedSocks, existingConnection, newConnection, state, acceptedFrom, queue>>
        /\ TypeOK /\ EntriesOK /\ PhaseOK
    BY DEF Serve, ListenerInv
  <1>2. SignedOn' = SignedOn /\ Open' = Open
    BY <1>1 DEF SignedOn, Open
  <1>3. EntriesOK'
    BY <1>1, <1>2 DEF EntriesOK
  <1>4. TypeOK'
    BY <1>1, <1>2 DEF TypeOK
  <1>5. /\ checkedSocks.iterPos \in Nat
        /\ \A c \in SignedOn \ {ListeningSocket} : c \in Connection /\ checkedSocks.index[c] \in Nat
    BY <1>1, EntriesOfSockets
  <1>6. /\ Open \subseteq acceptedFrom /\ checkedSocks.mode.over # "checks" /\ Iterates
        /\ (checkedSocks.mode.over = "findings" => ~ListenerLeft)
        /\ checkedSocks.iterPos <= checkedSocks.size /\ Requested
    BY <1>1 DEF PhaseOK, Started
  <1>7. Iterates'
    <2>1. ASSUME NEW c \in SignedOn \ {ListeningSocket},
                 checkedSocks.index[c] >= checkedSocks.iterPos, c \in input
          PROVE  c \in input'
      BY <1>1, <1>5, <1>6, <2>1, SocketFacts DEF Requested
    <2> QED BY <1>1, <1>2, <1>6, <2>1 DEF Iterates
  <1>8. ListenerLeft' <=> ListenerLeft
    BY <1>1 DEF ListenerLeft
  <1>9. PhaseOK'
    BY <1>1, <1>2, <1>6, <1>7, <1>8 DEF PhaseOK, Started
  <1> QED BY <1>3, <1>4, <1>9 DEF ListenerInv

LEMMA ReturnKeeps ==
  ASSUME ListenerInv, Return
  PROVE  ListenerInv'
  <1>1. /\ pc \in {"served", "failed"} /\ pc' = "idle"
        /\ UNCHANGED <<checkedSocks, existingConnection, newConnection, env>>
        /\ TypeOK /\ EntriesOK /\ PhaseOK
    BY DEF Return, Serving, ListenerInv
  <1>2. SignedOn' = SignedOn /\ Open' = Open
    BY <1>1 DEF SignedOn, Open, env
  <1>3. EntriesOK'
    BY <1>1, <1>2 DEF EntriesOK
  <1>4. TypeOK'
    BY <1>1, <1>2 DEF TypeOK, env
  <1>5. Iterates' <=> Iterates
    BY <1>1, <1>2 DEF Iterates, env
  <1>6. ListenerLeft' <=> ListenerLeft
    BY <1>1 DEF ListenerLeft
  <1>7. PhaseOK'
    BY <1>1, <1>2, <1>5, <1>6 DEF PhaseOK, Started, env
  <1> QED BY <1>3, <1>4, <1>7 DEF ListenerInv

\* An open connection is signed off, to be closed or not.
LEMMA SignedOff ==
  ASSUME TypeOK, EntriesOK, PhaseOK, Serving, NEW c \in Connection, state[c] = "open",
         checkedSocks' = RemoveCheck(checkedSocks, c, {"in"}),
         NEW v, v \in {"none", "signed off"}, state' = [state EXCEPT ![c] = v], pc' = pc,
         input \ {c} \subseteq input', input' \subseteq input
  PROVE  /\ EntriesOK' /\ SignedOn' = SignedOn \ {c} /\ Iterates' /\ checkedSocks'.mode = checkedSocks.mode
         /\ checkedSocks'.iterPos <= checkedSocks'.size
         /\ checkedSocks.mode.over = "findings" => ~ListenerLeft'
  <1> DEFINE d == checkedSocks
             g == checkedSocks'
             L == ListeningSocket
  <1>1. /\ TableOK(d) /\ DOMAIN d.index = SignedOn /\ d.iterPos <= d.size /\ Iterates
        /\ (d.mode.over = "findings" => ~ListenerLeft)
        /\ Of(d, L).file = NoFile /\ Of(d, L).revents \subseteq {"in"} /\ d.index[L] = 0
        /\ \A s \in SignedOn : Of(d, s).events = {"in"}
        /\ \A s \in SignedOn \ {L} : Of(d, s).file = s
        /\ pc # "closed"
    BY DEF EntriesOK, PhaseOK, Serving, Started
  <1>2. /\ L \in SignedOn /\ d.iterPos \in Nat
        /\ \A s \in SignedOn : d.index[s] \in Nat
        /\ \A s \in SignedOn \ {L} : d.index[s] > 0
    BY <1>1, EntriesOfSockets
  <1>3. c # L /\ c \in SignedOn
    BY SocketFacts DEF SignedOn
  <1>4. SignedOn' = SignedOn \ {c}
    <2>1. \A x \in Connection : state'[x] = IF x = c THEN v ELSE state[x]
      BY DEF TypeOK
    <2> QED BY <1>3, <2>1 DEF SignedOn
  <1>5. /\ TableOK(g) /\ g.iterPos <= g.size /\ g.mode = d.mode
        /\ DOMAIN g.index = SignedOn \ {c}
        /\ \A t \in SignedOn \ {c} :
             /\ Of(g, t) = Of(d, t)
             /\ g.index[t] >= g.iterPos <=> d.index[t] >= d.iterPos
             /\ d.index[t] < d.index[c] => g.index[t] = d.index[t]
    <2>1. g = RemoveCheck(d, c, {"in"}) /\ c \in DOMAIN d.index /\ Of(d, c).events = {"in"}
      BY <1>1, <1>3
    <2>2. TableOK(d) /\ d.iterPos <= d.size
      BY <1>1
    <2> HIDE DEF d, g
    <2>3. EntryGone(d, c, g)
      BY <2>1, <2>2, ConnectionRemoved
    <2> QED BY <1>1, <2>3 DEF EntryGone
  <1>6. L \in SignedOn \ {c} /\ d.index[L] < d.index[c]
    BY <1>1, <1>2, <1>3
  <1>7. g.index[L] = 0 /\ Of(g, L) = Of(d, L)
    BY <1>1, <1>5, <1>6
  <1>8. EntriesOK'
    <2>1. \A s \in SignedOn' : Of(g, s).events = {"in"}
      BY <1>1, <1>4, <1>5
    <2>2. \A s \in SignedOn' \ {L} : Of(g, s).file = s
      BY <1>1, <1>4, <1>5
    <2>3. DOMAIN g.index = SignedOn'
      BY <1>4, <1>5
    <2> QED BY <1>1, <1>5, <1>7, <2>1, <2>2, <2>3 DEF EntriesOK
  <1>9. ListenerLeft' <=> ListenerLeft
    BY <1>5, <1>6, <1>7 DEF ListenerLeft
  <1>10. Iterates'
    <2>1. ASSUME NEW t \in SignedOn' \ {L}, d.mode.over = "findings",
                 g.index[t] >= g.iterPos, "in" \in Of(g, t).revents
          PROVE  t \in input'
      <3>1. t \in SignedOn \ {L} /\ t # c /\ d.index[t] >= d.iterPos /\ "in" \in Of(d, t).revents
        BY <1>4, <1>5, <2>1
      <3>2. t \in input
        BY <1>1, <2>1, <3>1 DEF Iterates
      <3> QED BY <3>1, <3>2
    <2> QED BY <1>1, <1>5, <2>1 DEF Iterates
  <1> QED BY <1>1, <1>4, <1>5, <1>8, <1>9, <1>10

\* An action of the server between two calls that leaves the checks as they are.
LEMMA ChecksKept ==
  ASSUME TypeOK, EntriesOK, PhaseOK, Serving, checkedSocks' = checkedSocks,
         SignedOn' = SignedOn, pc' = pc, NEW c \in Connection, c \notin SignedOn,
         input \ {c} \subseteq input'
  PROVE  /\ EntriesOK' /\ Iterates' /\ checkedSocks'.mode.over # "checks"
         /\ checkedSocks'.iterPos <= checkedSocks'.size
         /\ checkedSocks.mode.over = "findings" => ~ListenerLeft'
  <1>1. /\ checkedSocks.iterPos <= checkedSocks.size /\ Iterates
        /\ checkedSocks.mode.over # "checks"
        /\ (checkedSocks.mode.over = "findings" => ~ListenerLeft)
    BY DEF PhaseOK, Serving, Started
  <1>2. EntriesOK'
    BY DEF EntriesOK
  <1>3. Iterates'
    BY <1>1 DEF Iterates
  <1>4. ListenerLeft' <=> ListenerLeft
    BY DEF ListenerLeft
  <1> QED BY <1>1, <1>2, <1>3, <1>4

LEMMA CloseConnectionKeeps ==
  ASSUME ListenerInv, NEW c \in Connection, CloseConnection(c)
  PROVE  ListenerInv'
  <1>1. /\ Serving \/ pc = "closed"
        /\ c \in Open /\ TypeOK /\ EntriesOK /\ PhaseOK
        /\ checkedSocks' = IF c \in acceptedFrom THEN RemoveCheck(checkedSocks, c, {"in"})
                                                 ELSE checkedSocks
        /\ state' = [state EXCEPT ![c] = "none"]
        /\ acceptedFrom' = acceptedFrom \ {c} /\ input' = input \ {c}
        /\ UNCHANGED <<existingConnection, newConnection, pc, queue>>
    BY DEF CloseConnection, ListenerInv
  <1>2. /\ state' \in [Connection -> {"none", "open", "signed off"}]
        /\ \A x \in Connection : state'[x] = IF x = c THEN "none" ELSE state[x]
    BY <1>1 DEF TypeOK
  <1>3. Open' = Open \ {c} /\ SignedOn' = SignedOn \ {c}
    BY <1>2, SocketFacts DEF Open, SignedOn
  <1>4. ASSUME EntriesOK'
        PROVE  TypeOK'
    BY <1>1, <1>2, <1>3, <1>4, TypesKept DEF TypeOK
  <1>5. ASSUME Serving
        PROVE  ListenerInv'
    <2>1. pc \in {"served", "failed"} /\ Open \subseteq acceptedFrom
          /\ checkedSocks.mode.over # "checks"
      BY <1>1, <1>5 DEF Serving, PhaseOK, Started
    <2>2. /\ EntriesOK' /\ Iterates' /\ checkedSocks'.mode.over = checkedSocks.mode.over
          /\ checkedSocks'.iterPos <= checkedSocks'.size
          /\ (checkedSocks.mode.over = "findings" => ~ListenerLeft')
      <3>1. CASE state[c] = "open"
        <4>1. checkedSocks' = RemoveCheck(checkedSocks, c, {"in"})
          BY <1>1, <2>1
        <4> QED BY <1>1, <1>5, <3>1, <4>1, SignedOff
      <3>2. CASE state[c] # "open"
        <4>1. c \notin SignedOn
          BY <3>2, SocketFacts DEF SignedOn
        <4>2. c \notin DOMAIN checkedSocks.index
          BY <1>1, <2>1, <4>1 DEF EntriesOK
        <4>3. checkedSocks' = checkedSocks
          BY <1>1, <4>2, NothingRemoved
        <4>4. SignedOn' = SignedOn
          BY <1>3, <4>1
        <4> QED BY <1>1, <1>5, <4>1, <4>3, <4>4, ChecksKept
      <3> QED BY <3>1, <3>2
    <2>3. PhaseOK'
      BY <1>1, <1>3, <2>1, <2>2 DEF PhaseOK, Started
    <2> QED BY <1>4, <2>2, <2>3 DEF ListenerInv
  <1>6. ASSUME pc = "closed"
        PROVE  ListenerInv'
    <2>1. DOMAIN checkedSocks.index = {}
      BY <1>1, <1>6 DEF EntriesOK
    <2>2. checkedSocks' = checkedSocks
      BY <1>1, <2>1, NothingRemoved
    <2>3. EntriesOK'
      BY <1>1, <1>6, <2>2 DEF EntriesOK
    <2>4. PhaseOK'
      BY <1>1, <1>2, <1>6 DEF PhaseOK, Started, TypeOK, Open
    <2> QED BY <1>4, <2>3, <2>4 DEF ListenerInv
  <1> QED BY <1>1, <1>5, <1>6

LEMMA SignOffKeeps ==
  ASSUME ListenerInv, NEW c \in Connection, SignOff(c)
  PROVE  ListenerInv'
  <1>1. /\ Serving /\ state[c] = "open" /\ TypeOK /\ EntriesOK /\ PhaseOK
        /\ checkedSocks' = RemoveCheck(checkedSocks, c, {"in"})
        /\ state' = [state EXCEPT ![c] = "signed off"]
        /\ UNCHANGED <<existingConnection, newConnection, pc, acceptedFrom, input, queue>>
    BY DEF SignOff, ListenerInv
  <1>2. /\ EntriesOK' /\ Iterates' /\ checkedSocks'.mode = checkedSocks.mode
        /\ checkedSocks'.iterPos <= checkedSocks'.size
        /\ (checkedSocks.mode.over = "findings" => ~ListenerLeft')
    BY <1>1, SignedOff
  <1>3. /\ state' \in [Connection -> {"none", "open", "signed off"}]
        /\ \A x \in Connection : state'[x] = IF x = c THEN "signed off" ELSE state[x]
    BY <1>1 DEF TypeOK
  <1>4. Open' = Open
    BY <1>1, <1>3 DEF Open
  <1>5. TypeOK'
    BY <1>1, <1>2, <1>3, <1>4, TypesKept DEF TypeOK
  <1>6. pc \in {"served", "failed"} /\ Open \subseteq acceptedFrom
        /\ checkedSocks.mode.over # "checks"
    BY <1>1 DEF Serving, PhaseOK, Started
  <1>7. PhaseOK'
    BY <1>1, <1>2, <1>4, <1>6 DEF PhaseOK, Started
  <1> QED BY <1>2, <1>5, <1>7 DEF ListenerInv

LEMMA SignOnKeeps ==
  ASSUME ListenerInv, NEW c \in Connection, SignOn(c)
  PROVE  ListenerInv'
  <1> DEFINE d == checkedSocks
             g == checkedSocks'
             L == ListeningSocket
  <1>1. /\ Serving /\ state[c] = "signed off" /\ TypeOK /\ EntriesOK /\ PhaseOK
        /\ g = AddCheck(d, c, {"in"}, c)
        /\ state' = [state EXCEPT ![c] = "open"]
        /\ UNCHANGED <<existingConnection, newConnection, pc, acceptedFrom, input, queue>>
    BY DEF SignOn, ListenerInv
  <1>2. /\ pc \in {"served", "failed"} /\ Open \subseteq acceptedFrom /\ d.mode.over # "checks"
        /\ Iterates /\ d.iterPos <= d.size /\ (d.mode.over = "findings" => ~ListenerLeft)
    BY <1>1 DEF Serving, PhaseOK, Started
  <1>3. /\ TableOK(d) /\ DOMAIN d.index = SignedOn
        /\ Of(d, L).file = NoFile /\ Of(d, L).revents \subseteq {"in"} /\ d.index[L] = 0
        /\ \A s \in SignedOn : Of(d, s).events = {"in"}
        /\ \A s \in SignedOn \ {L} : Of(d, s).file = s
    BY <1>1, <1>2 DEF EntriesOK
  <1>4. L \in SignedOn /\ d.iterPos \in Nat /\ d.size \in Nat
    BY <1>1, <1>2, EntriesOfSockets
  <1>5. c \notin SignedOn /\ c # L
    BY <1>1, SocketFacts DEF SignedOn
  <1>6. /\ TableOK(g) /\ g.mode = d.mode /\ g.iterPos = d.iterPos
        /\ DOMAIN g.index = SignedOn \cup {c} /\ g.size = d.size + 1
        /\ Of(g, c).events = {"in"} /\ Of(g, c).revents = {} /\ Of(g, c).file = c
        /\ \A t \in SignedOn : g.index[t] = d.index[t] /\ Of(g, t) = Of(d, t)
    <2>1. TableOK(d) /\ c \notin DOMAIN d.index /\ g = AddCheck(d, c, {"in"}, c)
      BY <1>1, <1>3, <1>5
    <2> HIDE DEF d, g
    <2>2. /\ TableOK(g) /\ g.mode = d.mode /\ g.iterPos = d.iterPos
          /\ DOMAIN g.index = DOMAIN d.index \cup {c} /\ g.size = d.size + 1
          /\ Of(g, c).events = {"in"} /\ Of(g, c).revents = {} /\ Of(g, c).file = c
          /\ \A t \in DOMAIN d.index : g.index[t] = d.index[t] /\ Of(g, t) = Of(d, t)
      BY <2>1, ConnectionAdded
    <2> QED BY <1>3, <2>2
  <1>7. /\ state' \in [Connection -> {"none", "open", "signed off"}]
        /\ \A x \in Connection : state'[x] = IF x = c THEN "open" ELSE state[x]
    BY <1>1 DEF TypeOK
  <1>8. Open' = Open /\ SignedOn' = SignedOn \cup {c}
    BY <1>1, <1>5, <1>7 DEF Open, SignedOn
  <1>9. EntriesOK'
    <2>1. \A s \in SignedOn' : Of(g, s).events = {"in"}
      BY <1>3, <1>6, <1>8
    <2>2. \A s \in SignedOn' \ {L} : Of(g, s).file = s
      BY <1>3, <1>6, <1>8
    <2>3. g.index[L] = 0 /\ Of(g, L) = Of(d, L) /\ DOMAIN g.index = SignedOn'
      BY <1>3, <1>4, <1>6, <1>8
    <2> QED BY <1>1, <1>2, <1>3, <1>6, <2>1, <2>2, <2>3 DEF EntriesOK
  <1>10. TypeOK'
    BY <1>1, <1>7, <1>8, <1>9, TypesKept DEF TypeOK
  <1>11. Iterates'
    <2>1. ASSUME NEW t \in SignedOn' \ {L}, d.mode.over = "findings",
                 g.index[t] >= g.iterPos, "in" \in Of(g, t).revents
          PROVE  t \in input'
      <3>1. t # c
        BY <1>6, <2>1
      <3>2. t \in SignedOn \ {L} /\ d.index[t] >= d.iterPos /\ "in" \in Of(d, t).revents
        BY <1>6, <1>8, <2>1, <3>1
      <3> QED BY <1>1, <1>2, <2>1, <3>2 DEF Iterates
    <2> QED BY <1>2, <1>6, <2>1 DEF Iterates
  <1>12. ListenerLeft' <=> ListenerLeft
    BY <1>4, <1>6 DEF ListenerLeft
  <1>13. g.iterPos <= g.size
    BY <1>2, <1>4, <1>6
  <1>14. PhaseOK'
    BY <1>1, <1>2, <1>6, <1>8, <1>11, <1>12, <1>13 DEF PhaseOK, Started
  <1> QED BY <1>9, <1>10, <1>14 DEF ListenerInv

---------------------------------------------------------------------------
(* Closing of the listener.                                                 *)

LEMMA CloseListenerKeeps ==
  ASSUME ListenerInv, CloseListener
  PROVE  ListenerInv'
  <1> DEFINE d == checkedSocks
             g == checkedSocks'
             mode == [over |-> "checks", mask |-> Event]
  <1>1. /\ pc \in {"served", "failed"} /\ pc' = "closing" /\ queue' = 0
        /\ g = IterChecks(d, mode)
        /\ UNCHANGED <<existingConnection, newConnection, state, acceptedFrom, input>>
        /\ TypeOK /\ EntriesOK /\ TableOK(d)
    BY DEF CloseListener, Serving, ListenerInv, EntriesOK
  <1>2. /\ Same(d, g) /\ g.mode = mode /\ g.iterPos = 0
    <2>1. mode \in Iterator
      BY SocketFacts
    <2> QED BY <1>1, <2>1, StartOK
  <1>3. EntriesOK' /\ SignedOn' = SignedOn /\ g.index = d.index
    BY <1>1, <1>2, SameEntries
  <1>4. TypeOK'
    <2>1. 0 \in 0 .. MaxQueue
      BY SocketFacts
    <2> QED BY <1>1, <1>3, <2>1, TypesKept DEF TypeOK, Open
  <1>5. \A c \in SignedOn : d.index[c] \in Nat
    BY <1>1, EntriesOfSockets
  <1>6. Closing'
    <2>1. \A c \in acceptedFrom : state[c] = "open" => c \in SignedOn
      BY <1>1 DEF SignedOn, TypeOK, Open
    <2>2. \A c \in acceptedFrom : state[c] = "open" => d.index[c] >= 0
      BY <1>5, <2>1
    <2> QED BY <1>1, <1>2, <1>3, <2>2 DEF Closing
  <1>7. PhaseOK'
    <2>1. Of(g, ListeningSocket).revents \subseteq {"in"}
      BY <1>1, <1>3 DEF EntriesOK
    <2> QED BY <1>1, <1>6, <2>1 DEF PhaseOK, Started
  <1> QED BY <1>3, <1>4, <1>7 DEF ListenerInv

\* The loop of close passes only entries of connections that it has released.
LEMMA ReleaseKeeps ==
  ASSUME ListenerInv, ReleaseNext
  PROVE  ListenerInv'
  <1> DEFINE d == checkedSocks
             g == checkedSocks'
  <1>1. PICK pos \in NextPositions(d) :
          /\ HasNextAt(d, pos) /\ g = AfterNextFile(d, pos)
          /\ acceptedFrom' = acceptedFrom \ {NextFileAt(d, pos)}
    BY DEF ReleaseNext
  <1>2. /\ pc = "closing" /\ pc' = pc
        /\ UNCHANGED <<existingConnection, newConnection, pc, state, input, queue>>
        /\ TypeOK /\ EntriesOK /\ TableOK(d) /\ Closing
    BY DEF ReleaseNext, ListenerInv, EntriesOK, PhaseOK
  <1>3. /\ Same(d, g) /\ g.mode = d.mode /\ g.iterPos = pos + 1
    BY <1>1, <1>2, NextOK
  <1>4. EntriesOK' /\ SignedOn' = SignedOn /\ g.index = d.index
    BY <1>2, <1>3, SameEntries
  <1>5. TypeOK'
    BY <1>1, <1>2, <1>4, TypesKept DEF TypeOK, Open
  <1>6. /\ pos \in Entries(d) /\ pos >= d.iterPos
        /\ \A q \in d.iterPos .. pos - 1 : EventsAt(d, q) \cap d.mode.mask = {}
    BY <1>1, <1>2, NextPositionsOK
  <1>7. /\ d.iterPos \in Nat /\ d.size \in Nat
        /\ \A s \in SignedOn : /\ d.index[s] \in Nat /\ Of(d, s) = d.cells[d.index[s]]
                               /\ d.index[s] \in Entries(d)
        /\ \A s \in SignedOn : Of(d, s).events = {"in"}
        /\ \A s \in SignedOn \ {ListeningSocket} : Of(d, s).file = s
    BY <1>2, EntriesOfSockets DEF EntriesOK
  <1>8. ASSUME NEW c \in acceptedFrom', state[c] = "open"
        PROVE  g.index[c] >= g.iterPos
    <2>1. c \in acceptedFrom /\ c \in Connection /\ c # NextFileAt(d, pos)
      BY <1>1, <1>2, <1>8 DEF TypeOK, Open
    <2>2. c \in SignedOn \ {ListeningSocket}
      BY <1>8, <2>1, SocketFacts DEF SignedOn
    <2>3. d.index[c] >= d.iterPos
      BY <1>2, <1>8, <2>1 DEF Closing
    <2>4. EventsAt(d, d.index[c]) \cap d.mode.mask # {}
      BY <1>2, <1>7, <2>2 DEF Closing, EventsAt, Event
    <2>5. d.index[c] >= pos
      <3>1. pos \in Nat
        BY <1>6, <1>7 DEF Entries
      <3>2. ~(d.index[c] \in d.iterPos .. pos - 1)
        BY <1>6, <2>4
      <3>3. d.index[c] \in Nat
        BY <1>7, <2>2
      <3> QED BY <1>7, <2>3, <3>1, <3>2, <3>3
    <2>6. d.index[c] # pos
      BY <1>1, <1>7, <2>1, <2>2 DEF NextFileAt
    <2> QED BY <1>3, <1>4, <1>6, <1>7, <2>2, <2>5, <2>6 DEF Entries
  <1>9. Closing'
    BY <1>2, <1>3, <1>8 DEF Closing
  <1>10. PhaseOK'
    BY <1>2, <1>9 DEF PhaseOK, Started
  <1> QED BY <1>4, <1>5, <1>10 DEF ListenerInv

LEMMA ListenerClosedKeeps ==
  ASSUME ListenerInv, ListenerClosed
  PROVE  ListenerInv'
  <1> DEFINE d == checkedSocks
             g == checkedSocks'
  <1>1. /\ pc = "closing" /\ pc' = "closed" /\ g = Clear(d)
        /\ UNCHANGED <<existingConnection, newConnection, env>>
        /\ TypeOK /\ EntriesOK /\ TableOK(d) /\ Closing
    BY DEF ListenerClosed, ListenerInv, EntriesOK, PhaseOK
  <1>2. PICK pos \in NextPositions(d) : ~HasNextAt(d, pos)
    BY DEF ListenerClosed
  <1>3. TableOK(g) /\ DOMAIN g.index = {}
    BY <1>1, ClearOK, RecordTypes DEF TableOK
  <1>4. EntriesOK'
    BY <1>1, <1>3 DEF EntriesOK
  <1>5. TypeOK'
    BY <1>1, <1>4, TypesKept DEF env, TypeOK, Open
  <1>6. /\ d.iterPos \in Nat /\ d.size \in Nat
        /\ \A s \in SignedOn : /\ d.index[s] \in Nat /\ Of(d, s) = d.cells[d.index[s]]
                               /\ d.index[s] < d.size
        /\ \A s \in SignedOn : Of(d, s).events = {"in"}
    BY <1>1, EntriesOfSockets DEF EntriesOK
  <1>7. /\ pos \in d.iterPos .. MaxPos
        /\ \A q \in d.iterPos .. pos - 1 : EventsAt(d, q) \cap d.mode.mask = {}
    BY <1>1, <1>2 DEF NextPositions, Scan, Closing
  <1>8. pos \in Int /\ pos >= d.size
    <2>1. pos \in Int
      BY <1>6, <1>7, SocketFacts
    <2>2. ~(pos < d.size)
      BY <1>1, <1>2 DEF HasNextAt, Closing
    <2> QED BY <1>6, <2>1, <2>2
  <1>9. ASSUME NEW c \in acceptedFrom
        PROVE  state[c] = "signed off"
    <2>1. c \in Connection /\ state[c] \in {"open", "signed off"}
      BY <1>1 DEF TypeOK, Open
    <2>2. ASSUME state[c] = "open"
          PROVE  FALSE
      <3>1. c \in SignedOn
        BY <2>1, <2>2 DEF SignedOn
      <3>2. d.index[c] >= d.iterPos
        BY <1>1, <2>2 DEF Closing
      <3>3. EventsAt(d, d.index[c]) \cap d.mode.mask # {}
        BY <1>1, <1>6, <3>1 DEF Closing, EventsAt, Event
      <3>4. d.index[c] \in d.iterPos .. pos - 1
        BY <1>6, <1>8, <3>1, <3>2
      <3> QED BY <1>7, <3>3, <3>4
    <2> QED BY <2>1, <2>2
  <1>10. PhaseOK'
    BY <1>1, <1>9 DEF PhaseOK, Started, env
  <1> QED BY <1>4, <1>5, <1>10 DEF ListenerInv

---------------------------------------------------------------------------
(* The clients.                                                             *)

LEMMA ConnectKeeps ==
  ASSUME ListenerInv, Connect
  PROVE  ListenerInv'
  <1>1. /\ queue < MaxQueue /\ queue' = queue + 1
        /\ UNCHANGED <<checkedSocks, existingConnection, newConnection, pc, state, acceptedFrom,
                       input>>
        /\ TypeOK /\ EntriesOK /\ PhaseOK
    BY DEF Connect, ListenerInv
  <1>2. SignedOn' = SignedOn /\ Open' = Open /\ queue \in 0 .. MaxQueue
    BY <1>1 DEF SignedOn, Open, TypeOK
  <1>3. EntriesOK'
    BY <1>1, <1>2 DEF EntriesOK
  <1>4. TypeOK'
    <2>1. queue' \in 0 .. MaxQueue
      BY <1>1, <1>2, SocketFacts
    <2> QED BY <1>1, <1>2, <2>1 DEF TypeOK
  <1>5. /\ Iterates' <=> Iterates
        /\ ListenerLeft' <=> ListenerLeft
        /\ SomeLeft' <=> SomeLeft
        /\ Requested' <=> Requested
        /\ Closing' <=> Closing
    BY <1>1, <1>2 DEF Iterates, ListenerLeft, SomeLeft, Requested, Closing
  <1>6. NextReady' <=> NextReady
    BY <1>1, <1>5 DEF NextReady
  <1>7. Polled => Polled'
    BY <1>1, <1>2 DEF Polled
  <1>8. PhaseOK'
    BY <1>1, <1>2, <1>5, <1>6, <1>7 DEF PhaseOK, Started
  <1> QED BY <1>3, <1>4, <1>8 DEF ListenerInv

LEMMA SendKeeps ==
  ASSUME ListenerInv, NEW c \in Connection, Send(c)
  PROVE  ListenerInv'
  <1>1. /\ c \in Open /\ input' = input \cup {c}
        /\ UNCHANGED <<checkedSocks, existingConnection, newConnection, pc, state, acceptedFrom,
                       queue>>
        /\ TypeOK /\ EntriesOK /\ PhaseOK
    BY DEF Send, ListenerInv
  <1>2. SignedOn' = SignedOn /\ Open' = Open
    BY <1>1 DEF SignedOn, Open
  <1>3. EntriesOK'
    BY <1>1, <1>2 DEF EntriesOK
  <1>4. TypeOK'
    BY <1>1, <1>2 DEF TypeOK
  <1>5. /\ Iterates => Iterates'
        /\ Requested => Requested'
        /\ Polled => Polled'
    BY <1>1, <1>2 DEF Iterates, Requested, Polled
  <1>6. /\ ListenerLeft' <=> ListenerLeft
        /\ SomeLeft' <=> SomeLeft
        /\ Closing' <=> Closing
    BY <1>1, <1>2 DEF ListenerLeft, SomeLeft, Closing
  <1>7. NextReady' <=> NextReady
    BY <1>1, <1>6 DEF NextReady
  <1>8. PhaseOK'
    BY <1>1, <1>2, <1>5, <1>6, <1>7 DEF PhaseOK, Started
  <1> QED BY <1>3, <1>4, <1>8 DEF ListenerInv

---------------------------------------------------------------------------
(* The invariant.                                                           *)

LEMMA ListenerInit ==
  Init => ListenerInv
  <1> SUFFICES ASSUME Init PROVE ListenerInv
    OBVIOUS
  <1> DEFINE d == checkedSocks
             L == ListeningSocket
  <1>1. /\ d = AddCheck(Empty, L, {"in"}, NoFile)
        /\ existingConnection = NoFile /\ newConnection = NoFile /\ pc = "idle"
        /\ state = [c \in Connection |-> "none"]
        /\ acceptedFrom = {} /\ input = {} /\ queue = 0
    BY DEF Init
  <1>2. SignedOn = {L} /\ Open = {}
    BY <1>1 DEF SignedOn, Open
  <1>3. /\ TableOK(Empty) /\ Empty.size = 0 /\ Empty.iterPos = 0 /\ Empty.mode = NoIterator
        /\ DOMAIN Empty.index = {} /\ Empty.size < MaxPos
    <2>1. DOMAIN Empty.index = {}
      BY DEF Empty
    <2>2. 0 < MaxPos
      BY PollTableAssumption
    <2> QED BY <2>1, <2>2, EmptyOK
  <1>4. /\ TableOK(d) /\ d.mode = NoIterator /\ d.iterPos = 0 /\ DOMAIN d.index = {L}
        /\ Of(d, L).events = {"in"} /\ Of(d, L).revents = {} /\ Of(d, L).file = NoFile
    <2>1. DOMAIN d.index = DOMAIN Empty.index \cup {L}
      BY <1>1, <1>3, SocketFacts, EntryAdded
    <2> QED BY <1>1, <1>3, <2>1, SocketFacts, EntryAdded
  <1>5. d.index[L] = 0
    <2>1. d.size = 1
      BY <1>1, <1>3, SocketFacts, EntryAdded
    <2>2. d.index[L] \in Entries(d)
      BY <1>4 DEF TableOK
    <2> QED BY <2>1, <2>2 DEF Entries
  <1>6. EntriesOK
    BY <1>1, <1>2, <1>4, <1>5 DEF EntriesOK
  <1>7. TypeOK
    <2>1. d.cells \in [Position -> Cell] /\ d.iterPos \in Position
      BY <1>4, TableTypes DEF TableOK
    <2>2. queue \in 0 .. MaxQueue
      BY <1>1, SocketFacts
    <2> QED BY <1>1, <1>2, <2>1, <2>2 DEF TypeOK
  <1>8. PhaseOK
    BY <1>1, <1>2, <1>4 DEF PhaseOK, Started, Iterates, NoIterator
  <1> QED BY <1>6, <1>7, <1>8 DEF ListenerInv

LEMMA ListenerUnchanged ==
  ASSUME ListenerInv, UNCHANGED vars
  PROVE  ListenerInv'
  <1>1. /\ UNCHANGED <<checkedSocks, existingConnection, newConnection, pc, state, acceptedFrom,
                       input, queue>>
        /\ TypeOK /\ EntriesOK /\ PhaseOK
    BY DEF ListenerInv, vars
  <1>2. SignedOn' = SignedOn /\ Open' = Open
    BY <1>1 DEF SignedOn, Open
  <1>3. EntriesOK'
    BY <1>1, <1>2 DEF EntriesOK
  <1>4. TypeOK'
    BY <1>1, <1>2 DEF TypeOK
  <1>5. /\ Iterates' <=> Iterates
        /\ ListenerLeft' <=> ListenerLeft
        /\ SomeLeft' <=> SomeLeft
        /\ Requested' <=> Requested
        /\ Closing' <=> Closing
        /\ Polled' <=> Polled
    BY <1>1, <1>2 DEF Iterates, ListenerLeft, SomeLeft, Requested, Closing, Polled
  <1>6. NextReady' <=> NextReady
    BY <1>1, <1>5 DEF NextReady
  <1>7. PhaseOK'
    BY <1>1, <1>2, <1>5, <1>6 DEF PhaseOK, Started
  <1> QED BY <1>3, <1>4, <1>7 DEF ListenerInv

LEMMA ListenerStep ==
  ASSUME "alone" \notin HangUps
  PROVE  ListenerInv /\ [Next]_vars => ListenerInv'
  <1> SUFFICES ASSUME ListenerInv, [Next]_vars
               PROVE  ListenerInv'
    OBVIOUS
  <1>1. CASE WaitForRequest
    BY <1>1, WaitKeeps
  <1>2. CASE PollSocks
    BY <1>2, PollKeeps
  <1>3. CASE Accept
    BY <1>3, AcceptKeeps
  <1>4. CASE AcceptFails
    BY <1>4, AcceptFailsKeeps
  <1>5. CASE NoNewConnection
    BY <1>5, NoNewConnectionKeeps
  <1>6. CASE NextConnection
    BY <1>6, NextConnectionKeeps
  <1>7. CASE Serve
    BY <1>7, ServeKeeps
  <1>8. CASE Return
    BY <1>8, ReturnKeeps
  <1>9. CASE ReleaseNext
    BY <1>9, ReleaseKeeps
  <1>10. CASE ListenerClosed
    BY <1>10, ListenerClosedKeeps
  <1>11. CASE CloseListener
    BY <1>11, CloseListenerKeeps
  <1>12. ASSUME NEW c \in Connection, CloseConnection(c) \/ SignOff(c) \/ SignOn(c)
         PROVE  ListenerInv'
    BY <1>12, CloseConnectionKeeps, SignOffKeeps, SignOnKeeps
  <1>13. CASE Connect
    BY <1>13, ConnectKeeps
  <1>14. ASSUME NEW c \in Connection, Send(c)
         PROVE  ListenerInv'
    BY <1>14, SendKeeps
  <1>15. CASE UNCHANGED vars
    BY <1>15, ListenerUnchanged
  <1> QED
    BY <1>1, <1>2, <1>3, <1>4, <1>5, <1>6, <1>7, <1>8, <1>9, <1>10, <1>11, <1>12, <1>13, <1>14,
       <1>15 DEF Next, Server, Decisions, Clients, Finished

LEMMA ListenerInvariant ==
  ASSUME "alone" \notin HangUps
  PROVE  Spec => []ListenerInv
  BY ListenerInit, ListenerStep, PTL DEF Spec

---------------------------------------------------------------------------
(* The theorems hold when poll reports the end of a connection with input.  *)

\* The sockets in the checks are those of the listener and of the connections that are open
\* and signed on: removals that move entries lose none, and a closed one leaves none.
THEOREM ChecksOfConnections ==
  ASSUME "alone" \notin HangUps
  PROVE  Spec => []ConnectionsChecked
  <1>1. ASSUME ListenerInv
        PROVE  ConnectionsChecked
    <2> DEFINE d == checkedSocks
    <2>1. TypeOK /\ EntriesOK
      BY <1>1 DEF ListenerInv
    <2>2. ASSUME pc # "closed", NEW s \in Socket
          PROVE  GetCheck(d, s) = IF s \in SignedOn THEN {"in"} ELSE {}
      <3>1. /\ DOMAIN d.index = SignedOn /\ d.size \in Nat
            /\ \A t \in SignedOn : d.index[t] \in Nat /\ d.index[t] < d.size
                                   /\ Of(d, t).events = {"in"}
        BY <2>1, <2>2, EntriesOfSockets DEF EntriesOK
      <3>2. CASE s \in SignedOn
        <4>1. PosOf(d, s) = d.index[s] /\ d.index[s] # d.size
          BY <3>1, <3>2 DEF PosOf
        <4>2. GetCheck(d, s) = Of(d, s).events \cap Event
          BY <4>1 DEF GetCheck, Of
        <4> QED BY <3>1, <3>2, <4>2 DEF Event
      <3>3. CASE s \notin SignedOn
        BY <3>1, <3>3 DEF PosOf, GetCheck
      <3> QED BY <3>2, <3>3
    <2> QED BY <2>1, <2>2 DEF ConnectionsChecked
  <1> QED BY <1>1, ListenerInvariant, PTL

\* A read from the connection that waitForRequest has delivered does not block, although
\* findings become old while connections are served, closed and signed on again.
THEOREM DeliveredIsReadable ==
  ASSUME "alone" \notin HangUps
  PROVE  Spec => []ReadWillNotBlock
  <1>1. ASSUME ListenerInv
        PROVE  ReadWillNotBlock
    BY <1>1 DEF ListenerInv, PhaseOK, Requested, ReadWillNotBlock
  <1> QED BY <1>1, ListenerInvariant, PTL

\* waitForRequest returns with a connection that has input or with a new connection.
THEOREM RequestReturned ==
  ASSUME "alone" \notin HangUps
  PROVE  Spec => []ReturnsWithRequest
  <1>1. ASSUME ListenerInv
        PROVE  ReturnsWithRequest
    BY <1>1 DEF ListenerInv, PhaseOK, Requested, ReturnsWithRequest
  <1> QED BY <1>1, ListenerInvariant, PTL

\* When close has returned no connection that was signed on refers to the listener.
THEOREM ConnectionsReleased ==
  ASSUME "alone" \notin HangUps
  PROVE  Spec => []AllReleased
  <1>1. ASSUME ListenerInv
        PROVE  AllReleased
    BY <1>1 DEF ListenerInv, PhaseOK, AllReleased
  <1> QED BY <1>1, ListenerInvariant, PTL
===========================================================================
