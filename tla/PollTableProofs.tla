-------------------------- MODULE PollTableProofs --------------------------
(* Proofs about PollTable: every operation keeps the index and the table in *)
(* agreement, and what it does to the entry of each socket, wherever the    *)
(* entry is moved in the table.                                             *)
EXTENDS PollTable, FiniteSetTheorems, TLAPS

---------------------------------------------------------------------------
(* A table whose index refers to its entries and to nothing else.           *)

Indexes == UNION {[S -> Position] : S \in SUBSET Socket}
Table == [size : Nat, capacity : Nat, mode : Iterator, iterPos : Position, iterEvents : Nat,
          numOfEvents : Nat, index : Indexes, cells : [Position -> Cell]]

\* What is known of an entry: its memory has been assigned.
Entry == [fd : Socket, events : (SUBSET Event) \ {{}}, revents : SUBSET Finding,
          file : File \cup {NoFile}]

TableOK(d) ==
  /\ d \in Table /\ d.size <= MaxPos
  /\ \A p \in Entries(d) : /\ d.cells[p] \in Entry
                           /\ d.cells[p].fd \in DOMAIN d.index /\ d.index[d.cells[p].fd] = p
  /\ \A s \in DOMAIN d.index : d.index[s] \in Entries(d) /\ d.cells[d.index[s]].fd = s

\* The entry of a socket.
Of(d, s) == d.cells[d.index[s]]

\* A table with n entries, of which the one of the socket s, at the position h, is
\* to be removed: the place can be filled.
HoleAt(d, n, s, h) ==
  /\ d \in Table /\ n \in Nat /\ n <= MaxPos /\ h \in 0 .. n - 1 /\ s \in DOMAIN d.index
  /\ \A p \in 0 .. n - 1 : p # h => /\ d.cells[p] \in Entry /\ d.cells[p].fd # s
                                    /\ d.cells[p].fd \in DOMAIN d.index /\ d.index[d.cells[p].fd] = p
  /\ \A t \in DOMAIN d.index : t # s => /\ d.index[t] \in 0 .. n - 1 /\ d.index[t] # h
                                        /\ d.cells[d.index[t]].fd = t

---------------------------------------------------------------------------
(* Types.                                                                   *)

LEMMA TableTypes ==
  ASSUME NEW d \in Table
  PROVE  /\ d.size \in Nat /\ d.capacity \in Nat /\ d.mode \in Iterator /\ d.iterPos \in Position
         /\ d.iterEvents \in Nat /\ d.numOfEvents \in Nat /\ d.index \in Indexes
         /\ d.cells \in [Position -> Cell]
         /\ DOMAIN d = {"size", "capacity", "mode", "iterPos", "iterEvents", "numOfEvents",
                        "index", "cells"}
  BY DEF Table

LEMMA RecordTypes ==
  /\ Table \subseteq PollRecord
  /\ \A d \in PollRecord :
       /\ d.size \in Nat /\ d.capacity \in Nat /\ d.mode \in Iterator /\ d.iterPos \in Position
       /\ d.iterEvents \in Nat /\ d.numOfEvents \in Nat /\ d.index \in Index
       /\ d.cells \in [Position -> Cell]
  <1>1. Indexes \subseteq Index
    BY DEF Indexes, Index
  <1> QED BY <1>1 DEF Table, PollRecord

LEMMA IndexTypes ==
  ASSUME NEW i \in Indexes
  PROVE  /\ DOMAIN i \subseteq Socket /\ i = [t \in DOMAIN i |-> i[t]]
         /\ \A t \in DOMAIN i : i[t] \in Position
  BY DEF Indexes

LEMMA IndexMade ==
  ASSUME NEW S \in SUBSET Socket, NEW i \in [S -> Position]
  PROVE  i \in Indexes
  BY DEF Indexes

LEMMA IndexSet ==
  ASSUME NEW i \in Indexes, NEW s \in Socket, NEW pos \in Position
  PROVE  /\ SetIndex(i, s, pos) \in Indexes /\ DOMAIN SetIndex(i, s, pos) = DOMAIN i \cup {s}
         /\ SetIndex(i, s, pos)[s] = pos
         /\ \A t \in DOMAIN i : t # s => SetIndex(i, s, pos)[t] = i[t]
  <1>1. DOMAIN i \cup {s} \in SUBSET Socket /\ \A t \in DOMAIN i : i[t] \in Position
    BY IndexTypes
  <1>2. SetIndex(i, s, pos) \in [DOMAIN i \cup {s} -> Position]
    BY <1>1 DEF SetIndex
  <1>3. SetIndex(i, s, pos) \in Indexes
    BY <1>1, <1>2, IndexMade
  <1> QED BY <1>3 DEF SetIndex

LEMMA IndexWithout ==
  ASSUME NEW i \in Indexes, NEW s
  PROVE  /\ Without(i, s) \in Indexes /\ DOMAIN Without(i, s) = DOMAIN i \ {s}
         /\ \A t \in DOMAIN i : t # s => Without(i, s)[t] = i[t]
  <1>1. DOMAIN i \ {s} \in SUBSET Socket /\ \A t \in DOMAIN i : i[t] \in Position
    BY IndexTypes
  <1>2. Without(i, s) \in [DOMAIN i \ {s} -> Position]
    BY <1>1 DEF Without
  <1>3. Without(i, s) \in Indexes
    BY <1>1, <1>2, IndexMade
  <1> QED BY <1>3 DEF Without

LEMMA CellTypes ==
  /\ Entry \subseteq Cell
  /\ \A c \in Cell : Terminated(c) \in Cell
  /\ Unassigned \in Cell
  /\ MaxPos \in Nat /\ 0 \in Position
  <1>1. Entry \subseteq Cell
    BY DEF Entry, Cell, Finding, Event
  <1>2. ASSUME NEW c \in Cell
        PROVE  Terminated(c) \in Cell
    BY DEF Cell, Terminated, Finding, Event
  <1>3. Unassigned \in Cell
    BY DEF Cell, Unassigned, Finding, Event
  <1>4. MaxPos \in Nat /\ 0 \in Position
    BY PollTableAssumption DEF Position
  <1> QED BY <1>1, <1>2, <1>3, <1>4

---------------------------------------------------------------------------
(* Removal.                                                                 *)

\* An entry is moved to the free place: then its place is free.
LEMMA MoveToHole ==
  ASSUME NEW d, NEW n, NEW s, NEW h, HoleAt(d, n, s, h), NEW q \in 0 .. n - 1, q # h,
         NEW g, g = Moved(d, q, h)
  PROVE  /\ HoleAt(g, n, s, q)
         /\ DOMAIN g.index = DOMAIN d.index /\ g.size = d.size /\ g.capacity = d.capacity
         /\ g.mode = d.mode /\ g.iterPos = d.iterPos /\ g.iterEvents = d.iterEvents
         /\ g.numOfEvents = d.numOfEvents
         /\ \A t \in DOMAIN d.index : t # s =>
              /\ Of(g, t) = Of(d, t)
              /\ g.index[t] = IF d.index[t] = q THEN h ELSE d.index[t]
  <1> DEFINE u == d.cells[q].fd
             i == SetIndex(d.index, u, h)
  <1>0. /\ d \in Table /\ n \in Nat /\ n <= MaxPos /\ h \in 0 .. n - 1 /\ s \in DOMAIN d.index
        /\ q \in Position /\ h \in Position /\ MaxPos \in Nat
        /\ \A p \in 0 .. n - 1 : p \in Position
    BY CellTypes DEF HoleAt, Position
  <1>1. d.cells[q] \in Entry /\ u # s /\ u \in DOMAIN d.index /\ d.index[u] = q /\ u \in Socket
    BY DEF HoleAt, Entry
  <1>2. d.index \in Indexes /\ d.cells \in [Position -> Cell]
    BY <1>0, TableTypes
  <1>3. /\ i \in Indexes /\ DOMAIN i = DOMAIN d.index /\ i[u] = h
        /\ \A t \in DOMAIN d.index : t # u => i[t] = d.index[t]
    <2> HIDE DEF u
    <2>1. DOMAIN d.index \cup {u} = DOMAIN d.index
      BY <1>1
    <2>2. /\ SetIndex(d.index, u, h) \in Indexes
          /\ DOMAIN SetIndex(d.index, u, h) = DOMAIN d.index \cup {u}
          /\ SetIndex(d.index, u, h)[u] = h
          /\ \A t \in DOMAIN d.index : t # u => SetIndex(d.index, u, h)[t] = d.index[t]
      <3>1. h \in Position /\ u \in Socket /\ d.index \in Indexes
        BY <1>0, <1>1, <1>2
      <3> QED BY <3>1, IndexSet, ZenonT(40)
    <2> QED BY <2>1, <2>2
  <1>4. g = [d EXCEPT !.cells[h] = d.cells[q], !.index = i]
    BY DEF Moved
  <1> HIDE DEF i, u
  <1>5. d.cells[q] \in Cell
    BY <1>1, CellTypes
  <1>6. /\ g \in Table /\ g.index = i /\ g.size = d.size /\ g.capacity = d.capacity
        /\ g.mode = d.mode /\ g.iterPos = d.iterPos /\ g.iterEvents = d.iterEvents
        /\ g.numOfEvents = d.numOfEvents
        /\ g.cells = [d.cells EXCEPT ![h] = d.cells[q]]
    <2>1. d.cells \in [Position -> Cell] /\ [d.cells EXCEPT ![h] = d.cells[q]] \in [Position -> Cell]
      BY <1>0, <1>2, <1>5
    <2>2. d.index \in Indexes /\ i \in Indexes
      BY <1>2, <1>3
    <2> DEFINE c == d.cells[q]
               w == [d.cells EXCEPT ![h] = c]
    <2>3. g = [d EXCEPT !.cells = w, !.index = i]
      BY <1>0, <1>4 DEF Table
    <2>4. w \in [Position -> Cell]
      BY <2>1
    <2> HIDE DEF w
    <2>5. /\ g \in Table /\ g.index = i /\ g.size = d.size /\ g.capacity = d.capacity
          /\ g.mode = d.mode /\ g.iterPos = d.iterPos /\ g.iterEvents = d.iterEvents
          /\ g.numOfEvents = d.numOfEvents /\ g.cells = w
      BY <1>0, <2>2, <2>3, <2>4 DEF Table
    <2> QED BY <2>5 DEF w
  <1>7. g.cells[h] = d.cells[q] /\ \A p \in 0 .. n - 1 : p # h => g.cells[p] = d.cells[p]
    BY <1>0, <1>2, <1>6
  <1>8. ASSUME NEW t \in DOMAIN d.index, t # s
        PROVE  /\ Of(g, t) = Of(d, t)
               /\ g.index[t] = IF d.index[t] = q THEN h ELSE d.index[t]
               /\ g.index[t] \in 0 .. n - 1 /\ g.index[t] # q /\ g.cells[g.index[t]].fd = t
    <2>1. d.index[t] \in 0 .. n - 1 /\ d.index[t] # h /\ d.cells[d.index[t]].fd = t
      BY <1>8 DEF HoleAt
    <2>2. CASE t = u
      BY <1>0, <1>1, <1>3, <1>6, <1>7, <2>1, <2>2 DEF Of, u
    <2>3. CASE t # u
      <3>1. d.index[t] # q
        BY <2>1, <2>3 DEF u
      <3> QED BY <1>3, <1>6, <1>7, <2>1, <2>3, <3>1 DEF Of
    <2> QED BY <2>2, <2>3
  <1>9. ASSUME NEW p \in 0 .. n - 1, p # q
        PROVE  /\ g.cells[p] \in Entry /\ g.cells[p].fd # s
               /\ g.cells[p].fd \in DOMAIN g.index /\ g.index[g.cells[p].fd] = p
    <2>1. CASE p = h
      BY <1>1, <1>3, <1>6, <1>7, <2>1 DEF u
    <2>2. CASE p # h
      <3>1. /\ d.cells[p] \in Entry /\ d.cells[p].fd # s
            /\ d.cells[p].fd \in DOMAIN d.index /\ d.index[d.cells[p].fd] = p
        BY <2>2 DEF HoleAt
      <3>2. d.cells[p].fd # u
        BY <1>1, <1>9, <3>1
      <3> QED BY <1>3, <1>6, <1>7, <2>2, <3>1, <3>2
    <2> QED BY <2>1, <2>2
  <1>10. HoleAt(g, n, s, q)
    BY <1>0, <1>3, <1>6, <1>8, <1>9 DEF HoleAt
  <1> QED BY <1>3, <1>6, <1>8, <1>10

\* The free place is moved to the end of the table: before the iterator stay the same
\* entries, wherever they were moved.
LEMMA RemoveEntryOK ==
  ASSUME NEW d, NEW s, NEW h, HoleAt(d, d.size, s, h), d.iterPos <= d.size,
         NEW f, f = RemoveEntry(d, h)
  PROVE  /\ HoleAt(f, d.size, s, d.size - 1) /\ f.size = d.size - 1
         /\ f.iterPos <= f.size /\ DOMAIN f.index = DOMAIN d.index /\ f.capacity = d.capacity
         /\ f.mode = d.mode /\ f.iterEvents = d.iterEvents /\ f.numOfEvents = d.numOfEvents
         /\ \A t \in DOMAIN d.index : t # s =>
              /\ Of(f, t) = Of(d, t) /\ (f.index[t] >= f.iterPos <=> d.index[t] >= d.iterPos)
              /\ d.index[t] < h => f.index[t] = d.index[t]
  <1> DEFINE n == d.size
             last == d.size - 1
             passed == h + 1 <= d.iterPos
             iterPos == IF passed THEN d.iterPos - 1 ELSE d.iterPos
             moves == passed /\ h < iterPos
             hole == IF moves THEN iterPos ELSE h
             moved == IF moves THEN Moved(d, iterPos, h) ELSE d
             e == [moved EXCEPT !.size = last, !.iterPos = iterPos]
  <1>1. /\ d \in Table /\ n \in Nat /\ n <= MaxPos /\ h \in 0 .. n - 1 /\ s \in DOMAIN d.index
        /\ \A t \in DOMAIN d.index : t # s => d.index[t] \in 0 .. n - 1 /\ d.index[t] # h
    BY DEF HoleAt
  <1>2. d.iterPos \in Nat /\ d.iterPos <= n /\ MaxPos \in Nat /\ last \in Nat
    <2>1. d.iterPos \in Position
      BY <1>1, TableTypes
    <2> QED BY <1>1, <2>1, CellTypes DEF Position
  <1>3. f = IF hole < last THEN Moved(e, last, hole) ELSE e
    BY DEF RemoveEntry
  <1>4. /\ iterPos \in Nat /\ iterPos <= last /\ hole \in 0 .. n - 1
        /\ passed => iterPos = d.iterPos - 1
        /\ ~passed => iterPos = d.iterPos
        /\ moves => iterPos \in 0 .. n - 1 /\ iterPos # h /\ h < iterPos /\ passed
    BY <1>1, <1>2
  <1>5. /\ HoleAt(moved, n, s, hole)
        /\ DOMAIN moved.index = DOMAIN d.index /\ moved.capacity = d.capacity
        /\ moved.mode = d.mode /\ moved.iterEvents = d.iterEvents
        /\ moved.numOfEvents = d.numOfEvents
        /\ \A t \in DOMAIN d.index : t # s =>
             /\ Of(moved, t) = Of(d, t)
             /\ moved.index[t] = IF moves /\ d.index[t] = iterPos THEN h ELSE d.index[t]
    <2>1. CASE moves
      <3> HIDE DEF iterPos, passed
      <3> DEFINE m == Moved(d, iterPos, h)
      <3>1. /\ HoleAt(m, n, s, iterPos)
            /\ DOMAIN m.index = DOMAIN d.index /\ m.capacity = d.capacity
            /\ m.mode = d.mode /\ m.iterEvents = d.iterEvents /\ m.numOfEvents = d.numOfEvents
            /\ \A t \in DOMAIN d.index : t # s =>
                 /\ Of(m, t) = Of(d, t)
                 /\ m.index[t] = IF d.index[t] = iterPos THEN h ELSE d.index[t]
        <4>1. iterPos \in 0 .. n - 1 /\ iterPos # h
          BY <1>4, <2>1
        <4> QED BY <4>1, MoveToHole
      <3>2. moved = m /\ hole = iterPos
        BY <2>1
      <3> HIDE DEF m, moved, hole, moves
      <3> QED BY <2>1, <3>1, <3>2
    <2>2. CASE ~moves
      <3>1. moved = d /\ hole = h
        BY <2>2
      <3> HIDE DEF moved, hole, moves, iterPos, passed
      <3> QED BY <2>2, <3>1
    <2> QED BY <2>1, <2>2
  <1> HIDE DEF moved, hole, moves, iterPos, passed
  <1>6. /\ HoleAt(e, n, s, hole) /\ e.size = last /\ e.iterPos = iterPos
        /\ e.index = moved.index /\ e.cells = moved.cells /\ e.capacity = moved.capacity
        /\ e.mode = moved.mode /\ e.iterEvents = moved.iterEvents
        /\ e.numOfEvents = moved.numOfEvents
    <2>1. moved \in Table
      BY <1>5 DEF HoleAt
    <2>2. /\ e \in Table /\ e.size = last /\ e.iterPos = iterPos
          /\ e.index = moved.index /\ e.cells = moved.cells /\ e.capacity = moved.capacity
          /\ e.mode = moved.mode /\ e.iterEvents = moved.iterEvents
          /\ e.numOfEvents = moved.numOfEvents
      <3>1. last \in Nat /\ iterPos \in Position
        BY <1>1, <1>2, <1>4 DEF Position
      <3> HIDE DEF last
      <3> QED BY <2>1, <3>1 DEF Table
    <2> HIDE DEF e
    <2> QED BY <1>5, <2>2 DEF HoleAt
  <1>7. \A t \in DOMAIN d.index : t # s => Of(e, t) = Of(d, t) /\ e.index[t] = moved.index[t]
    BY <1>5, <1>6 DEF Of
  <1> HIDE DEF e
  <1>8. CASE hole < last
    <2>1. f = Moved(e, last, hole) /\ last \in 0 .. n - 1 /\ last # hole
      BY <1>1, <1>2, <1>3, <1>4, <1>8
    <2> HIDE DEF last
    <2>2. /\ HoleAt(f, n, s, last) /\ DOMAIN f.index = DOMAIN e.index /\ f.size = e.size
          /\ f.capacity = e.capacity /\ f.mode = e.mode /\ f.iterPos = e.iterPos
          /\ f.iterEvents = e.iterEvents /\ f.numOfEvents = e.numOfEvents
          /\ \A t \in DOMAIN e.index : t # s =>
               /\ Of(f, t) = Of(e, t)
               /\ f.index[t] = IF e.index[t] = last THEN hole ELSE e.index[t]
      BY <1>6, <2>1, MoveToHole
    <2>3. ASSUME NEW t \in DOMAIN d.index, t # s
          PROVE  /\ f.index[t] >= f.iterPos <=> d.index[t] >= d.iterPos
                 /\ d.index[t] < h => f.index[t] = d.index[t]
      <3>1. /\ f.index[t] = IF moved.index[t] = last THEN hole ELSE moved.index[t]
            /\ moved.index[t] = IF moves /\ d.index[t] = iterPos THEN h ELSE d.index[t]
            /\ f.iterPos = iterPos /\ d.index[t] \in 0 .. n - 1 /\ d.index[t] # h
        BY <1>1, <1>5, <1>6, <1>7, <2>2, <2>3
      <3>2. d.index[t] \in Nat /\ d.index[t] <= n - 1 /\ h \in Nat
        BY <1>1, <3>1
      <3>3. hole = IF moves THEN iterPos ELSE h
        BY DEF hole
      <3>4. moves <=> passed /\ h < iterPos
        BY DEF moves
      <3>5. passed <=> h + 1 <= d.iterPos
        BY DEF passed
      <3> QED BY <1>2, <1>4, <1>8, <3>1, <3>2, <3>3, <3>4, <3>5 DEF last
    <2> QED BY <1>4, <1>5, <1>6, <1>7, <2>2, <2>3 DEF last
  <1>9. CASE ~(hole < last)
    <2>1. f = e /\ hole = last
      BY <1>2, <1>3, <1>4, <1>9
    <2>2. ASSUME NEW t \in DOMAIN d.index, t # s
          PROVE  /\ f.index[t] >= f.iterPos <=> d.index[t] >= d.iterPos
                 /\ d.index[t] < h => f.index[t] = d.index[t]
      <3>1. /\ f.index[t] = moved.index[t]
            /\ moved.index[t] = IF moves /\ d.index[t] = iterPos THEN h ELSE d.index[t]
            /\ f.iterPos = iterPos /\ d.index[t] \in 0 .. n - 1 /\ d.index[t] # h
        BY <1>1, <1>5, <1>6, <1>7, <2>1, <2>2
      <3>2. d.index[t] \in Nat /\ d.index[t] <= n - 1 /\ h \in Nat
        BY <1>1, <3>1
      <3>3. hole = IF moves THEN iterPos ELSE h
        BY DEF hole
      <3>4. moves <=> passed /\ h < iterPos
        BY DEF moves
      <3>5. passed <=> h + 1 <= d.iterPos
        BY DEF passed
      <3> QED BY <1>2, <1>4, <2>1, <3>1, <3>2, <3>3, <3>4, <3>5
    <2> QED BY <1>4, <1>5, <1>6, <1>7, <2>1, <2>2
  <1> QED BY <1>8, <1>9

\* The events of an entry are changed.
WithEvents(d, h, ev) == [d EXCEPT !.cells[h].events = ev]

LEMMA EventsSet ==
  ASSUME NEW d, TableOK(d), NEW s \in DOMAIN d.index, NEW ev \in SUBSET Event,
         NEW g, g = WithEvents(d, d.index[s], ev)
  PROVE  /\ g \in Table /\ HoleAt(g, d.size, s, d.index[s])
         /\ g.index = d.index /\ g.size = d.size /\ g.capacity = d.capacity /\ g.mode = d.mode
         /\ g.iterPos = d.iterPos /\ g.iterEvents = d.iterEvents /\ g.numOfEvents = d.numOfEvents
         /\ Of(g, s) = [Of(d, s) EXCEPT !.events = ev]
         /\ \A t \in DOMAIN d.index : t # s => Of(g, t) = Of(d, t)
         /\ ev # {} => TableOK(g)
  <1> DEFINE h == d.index[s]
             c == [d.cells[h] EXCEPT !.events = ev]
             w == [d.cells EXCEPT ![h] = c]
  <1>1. /\ d \in Table /\ d.size \in Nat /\ d.size <= MaxPos /\ MaxPos \in Nat
        /\ d.cells \in [Position -> Cell] /\ d.index \in Indexes
        /\ \A p \in Entries(d) : p \in Position
    BY TableTypes, CellTypes DEF TableOK, Entries, Position
  <1>2. h \in Entries(d) /\ h \in Position /\ d.cells[h].fd = s /\ d.cells[h] \in Entry
    BY <1>1 DEF TableOK
  <1>3. c \in Cell /\ c.fd = s /\ c.events = ev /\ (ev # {} => c \in Entry)
    <2>1. c \in [fd : Socket, events : SUBSET Event, revents : SUBSET Finding,
                  file : File \cup {NoFile}]
          /\ c.fd = s /\ c.events = ev
      BY <1>2 DEF Entry
    <2> HIDE DEF c
    <2>2. c \in Cell
      BY <2>1 DEF Cell, Finding, Event
    <2>3. ev # {} => c \in Entry
      <3> SUFFICES ASSUME ev # {}
                   PROVE  c \in Entry
        OBVIOUS
      <3>1. c.events \in (SUBSET Event) \ {{}} /\ c.fd \in Socket /\ c.revents \in SUBSET Finding
            /\ c.file \in File \cup {NoFile}
            /\ c = [fd |-> c.fd, events |-> c.events, revents |-> c.revents, file |-> c.file]
        BY <2>1
      <3> QED BY <3>1 DEF Entry
    <2> QED BY <2>1, <2>2, <2>3
  <1>4. w \in [Position -> Cell] /\ w[h] = c /\ \A p \in Position : p # h => w[p] = d.cells[p]
    <2> HIDE DEF c, h
    <2> QED BY <1>1, <1>2, <1>3
  <1>5. g = [d EXCEPT !.cells = w]
    BY <1>1 DEF Table, WithEvents
  <1> HIDE DEF w
  <1>6. /\ g \in Table /\ g.cells = w
        /\ g.index = d.index /\ g.size = d.size /\ g.capacity = d.capacity /\ g.mode = d.mode
        /\ g.iterPos = d.iterPos /\ g.iterEvents = d.iterEvents /\ g.numOfEvents = d.numOfEvents
    BY <1>1, <1>4, <1>5 DEF Table
  <1>7. Of(g, s) = [Of(d, s) EXCEPT !.events = ev]
    BY <1>4, <1>6 DEF Of
  <1> HIDE DEF c
  <1>8. ASSUME NEW t \in DOMAIN d.index, t # s
        PROVE  /\ Of(g, t) = Of(d, t) /\ d.index[t] \in Entries(d) /\ d.index[t] # h
               /\ g.cells[d.index[t]].fd = t
    <2>1. d.index[t] \in Entries(d) /\ d.cells[d.index[t]].fd = t
      BY DEF TableOK
    <2>2. d.index[t] # h
      BY <1>2, <1>8, <2>1
    <2> QED BY <1>1, <1>4, <1>6, <2>1, <2>2 DEF Of
  <1>9. ASSUME NEW p \in Entries(d), p # h
        PROVE  /\ g.cells[p] \in Entry /\ g.cells[p].fd # s
               /\ g.cells[p].fd \in DOMAIN g.index /\ g.index[g.cells[p].fd] = p
    <2>1. /\ d.cells[p] \in Entry /\ d.cells[p].fd \in DOMAIN d.index
          /\ d.index[d.cells[p].fd] = p
      BY DEF TableOK
    <2> QED BY <1>1, <1>4, <1>6, <1>9, <2>1
  <1>10. HoleAt(g, d.size, s, h)
    BY <1>1, <1>2, <1>6, <1>8, <1>9 DEF HoleAt, Entries
  <1>11. ASSUME ev # {}
         PROVE  TableOK(g)
    <2>1. g.cells[h] \in Entry /\ g.cells[h].fd = s
      BY <1>3, <1>4, <1>6, <1>2, <1>11
    <2> QED BY <1>1, <1>2, <1>6, <1>8, <1>9, <2>1 DEF TableOK, Entries
  <1> QED BY <1>6, <1>7, <1>8, <1>10, <1>11

LEMMA PosOfEntry ==
  ASSUME NEW d, TableOK(d), NEW s
  PROVE  /\ s \in DOMAIN d.index => /\ PosOf(d, s) = d.index[s] /\ d.index[s] \in Entries(d)
                                    /\ PosOf(d, s) # d.size /\ d.cells[PosOf(d, s)] = Of(d, s)
                                    /\ Of(d, s) \in Entry /\ Of(d, s).fd = s
         /\ s \notin DOMAIN d.index => PosOf(d, s) = d.size
         /\ \A events : IsRemoved(d, s, events) <=>
                          s \in DOMAIN d.index /\ Of(d, s).events \ events = {}
  <1>1. d.size \in Nat
    BY TableTypes DEF TableOK
  <1>2. ASSUME s \in DOMAIN d.index
        PROVE  /\ PosOf(d, s) = d.index[s] /\ d.index[s] \in Entries(d)
               /\ PosOf(d, s) # d.size /\ d.cells[PosOf(d, s)] = Of(d, s)
               /\ Of(d, s) \in Entry /\ Of(d, s).fd = s
    BY <1>1, <1>2 DEF TableOK, Entries, PosOf, Of
  <1>3. s \notin DOMAIN d.index => PosOf(d, s) = d.size
    BY DEF PosOf
  <1> QED BY <1>2, <1>3 DEF IsRemoved

\* What polRemoveCheck does: the entry of the socket loses events or is removed; the
\* other sockets keep their entries, on the same side of the iterator.
LEMMA RemoveCheckOK ==
  ASSUME NEW d, TableOK(d), NEW s, NEW events, ~Overwrites(d, s, events), NEW g,
         g = RemoveCheck(d, s, events)
  PROVE  /\ TableOK(g) /\ (d.iterPos <= d.size => g.iterPos <= g.size) /\ g.capacity = d.capacity
         /\ g.mode = d.mode /\ g.iterEvents = d.iterEvents /\ g.numOfEvents = d.numOfEvents
         /\ IF IsRemoved(d, s, events)
            THEN /\ DOMAIN g.index = DOMAIN d.index \ {s} /\ g.size = d.size - 1
                 /\ \A t \in DOMAIN g.index :
                      /\ Of(g, t) = Of(d, t)
                      /\ g.index[t] >= g.iterPos <=> d.index[t] >= d.iterPos
                      /\ d.index[t] < d.index[s] => g.index[t] = d.index[t]
            ELSE /\ g.index = d.index /\ g.iterPos = d.iterPos /\ g.size = d.size
                 /\ \A t \in DOMAIN d.index : t # s => Of(g, t) = Of(d, t)
                 /\ s \in DOMAIN d.index =>
                      Of(g, s) = [Of(d, s) EXCEPT !.events = @ \ events]
  <1>1. CASE s \notin DOMAIN d.index
    <2>1. ~IsRemoved(d, s, events) /\ g = d
      BY <1>1, PosOfEntry DEF RemoveCheck
    <2> QED BY <1>1, <2>1
  <1>2. CASE s \in DOMAIN d.index
    <2> DEFINE h == d.index[s]
               ev == d.cells[h].events \ events
               e == [d EXCEPT !.cells[h].events = ev]
               f == RemoveEntry(e, h)
    <2>1. /\ PosOf(d, s) = h /\ h # d.size /\ h \in Entries(d)
          /\ Of(d, s) = d.cells[h] /\ d.cells[h] \in Entry
          /\ IsRemoved(d, s, events) <=> ev = {}
      BY <1>2, PosOfEntry DEF Of
    <2>2. ev \in SUBSET Event
      BY <2>1 DEF Entry
    <2>3. /\ e \in Table /\ HoleAt(e, d.size, s, h)
          /\ e.index = d.index /\ e.size = d.size /\ e.capacity = d.capacity /\ e.mode = d.mode
          /\ e.iterPos = d.iterPos /\ e.iterEvents = d.iterEvents
          /\ e.numOfEvents = d.numOfEvents
          /\ Of(e, s) = [Of(d, s) EXCEPT !.events = ev]
          /\ \A t \in DOMAIN d.index : t # s => Of(e, t) = Of(d, t)
          /\ ev # {} => TableOK(e)
      <3> HIDE DEF ev, e
      <3>1. e = WithEvents(d, d.index[s], ev)
        BY DEF e, WithEvents
      <3> QED BY <1>2, <2>2, <3>1, EventsSet
    <2>4. e.cells[h].events = ev
      <3>1. e.cells[h] = [d.cells[h] EXCEPT !.events = ev]
        BY <2>1, <2>3 DEF Of
      <3> QED BY <3>1, <2>1 DEF Entry
    <2>5. /\ ev # {} => g = e
          /\ ev = {} => g = [f EXCEPT !.index = Without(@, s)]
      BY <2>1, <2>4 DEF RemoveCheck
    <2>6. CASE ev # {}
      BY <1>2, <2>1, <2>3, <2>5, <2>6
    <2>7. CASE ev = {}
      <3>0. d.iterPos <= d.size
        <4>1. d.iterPos \in Nat /\ d.size \in Nat
          BY TableTypes, CellTypes DEF TableOK, Position
        <4> HIDE DEF e, f, ev
        <4> QED BY <2>1, <2>7, <4>1 DEF Overwrites
      <3> HIDE DEF e, f, ev
      <3>1. /\ HoleAt(f, d.size, s, d.size - 1) /\ f.size = d.size - 1
            /\ f.iterPos <= f.size /\ DOMAIN f.index = DOMAIN d.index /\ f.capacity = d.capacity
            /\ f.mode = d.mode /\ f.iterEvents = d.iterEvents /\ f.numOfEvents = d.numOfEvents
            /\ \A t \in DOMAIN d.index : t # s =>
                 /\ Of(f, t) = Of(d, t)
                 /\ f.index[t] >= f.iterPos <=> d.index[t] >= d.iterPos
                 /\ e.index[t] < h => f.index[t] = d.index[t]
        BY <2>3, <3>0, RemoveEntryOK, SMTT(30) DEF f
      <3>2. f \in Table /\ f.index \in Indexes /\ d.size \in Nat /\ d.size <= MaxPos
        BY <3>1, TableTypes DEF HoleAt
      <3> DEFINE i == Without(f.index, s)
      <3>3. /\ i \in Indexes /\ DOMAIN i = DOMAIN d.index \ {s}
            /\ \A t \in DOMAIN d.index : t # s => i[t] = f.index[t]
        <4> HIDE DEF i
        <4>1. i = Without(f.index, s)
          BY DEF i
        <4>2. /\ Without(f.index, s) \in Indexes
              /\ DOMAIN Without(f.index, s) = DOMAIN f.index \ {s}
              /\ \A t \in DOMAIN f.index : t # s => Without(f.index, s)[t] = f.index[t]
          BY <3>2, IndexWithout
        <4> QED BY <3>1, <4>1, <4>2
      <3>4. g = [f EXCEPT !.index = i]
        BY <2>5, <2>7, <3>2 DEF Table
      <3> HIDE DEF i
      <3>5. /\ g \in Table /\ g.index = i /\ g.size = f.size /\ g.capacity = f.capacity
            /\ g.mode = f.mode /\ g.iterPos = f.iterPos /\ g.iterEvents = f.iterEvents
            /\ g.numOfEvents = f.numOfEvents /\ g.cells = f.cells
        BY <3>2, <3>3, <3>4 DEF Table
      <3>6. \A t \in DOMAIN g.index :
              /\ Of(g, t) = Of(d, t)
              /\ g.index[t] >= g.iterPos <=> d.index[t] >= d.iterPos
              /\ d.index[t] < h => g.index[t] = d.index[t]
        BY <2>3, <3>1, <3>3, <3>5 DEF Of
      <3>7. d.size - 1 \in Nat
        BY <3>1, <3>2 DEF HoleAt
      <3>8. ASSUME NEW p \in Entries(g)
            PROVE  /\ g.cells[p] \in Entry
                   /\ g.cells[p].fd \in DOMAIN g.index /\ g.index[g.cells[p].fd] = p
        <4>1. p \in 0 .. d.size - 1 /\ p # d.size - 1
          BY <3>1, <3>2, <3>5, <3>7 DEF Entries
        <4>2. /\ f.cells[p] \in Entry /\ f.cells[p].fd # s
              /\ f.cells[p].fd \in DOMAIN f.index /\ f.index[f.cells[p].fd] = p
          BY <3>1, <4>1 DEF HoleAt
        <4> QED BY <3>1, <3>3, <3>5, <4>2
      <3>9. ASSUME NEW t \in DOMAIN g.index
            PROVE  g.index[t] \in Entries(g) /\ g.cells[g.index[t]].fd = t
        <4>1. t \in DOMAIN f.index /\ t # s /\ g.index[t] = f.index[t]
          BY <3>1, <3>3, <3>5
        <4>2. f.index[t] \in 0 .. d.size - 1 /\ f.index[t] # d.size - 1
              /\ f.cells[f.index[t]].fd = t
          BY <3>1, <4>1 DEF HoleAt
        <4> QED BY <3>1, <3>2, <3>5, <3>7, <4>1, <4>2 DEF Entries
      <3>10. TableOK(g)
        BY <3>1, <3>2, <3>5, <3>7, <3>8, <3>9, CellTypes DEF TableOK
      <3> QED BY <2>1, <2>7, <3>1, <3>3, <3>5, <3>6, <3>10
    <2> QED BY <2>6, <2>7
  <1> QED BY <1>1, <1>2

\* A removal while the iterator is behind the table: the entry is overwritten with what is
\* there, and the last entry is lost.
LEMMA OverwritesOK ==
  ASSUME NEW d, TableOK(d), NEW s, NEW events, Overwrites(d, s, events), NEW g,
         g = RemoveCheck(d, s, events)
  PROVE  /\ g \in PollRecord /\ g.size = d.size - 1 /\ g.size \in Nat /\ g.capacity = d.capacity
         /\ g.mode = d.mode /\ g.iterEvents = d.iterEvents /\ g.numOfEvents = d.numOfEvents
         /\ g.iterPos > g.size /\ d.iterPos - 1 \in Position /\ d.iterPos > d.size
         /\ s \in DOMAIN d.index /\ s \notin DOMAIN g.index /\ d.index[s] \in Entries(d)
         /\ Of(d, s).events \subseteq events
         /\ \A p \in Entries(g) :
              g.cells[p] = IF p = d.index[s] THEN d.cells[d.iterPos - 1] ELSE d.cells[p]
  <1> DEFINE h == d.index[s]
             m == d.iterPos - 1
             ev == d.cells[h].events \ events
             e == [d EXCEPT !.cells[h].events = ev]
             f == RemoveEntry(e, h)
  <1>1. /\ d \in Table /\ d.size \in Nat /\ d.size <= MaxPos /\ MaxPos \in Nat
        /\ d.iterPos \in Nat /\ d.iterPos <= MaxPos /\ d.cells \in [Position -> Cell]
        /\ d.index \in Indexes /\ d.iterPos > d.size
    BY TableTypes, CellTypes DEF TableOK, Position, Overwrites
  <1>2. /\ s \in DOMAIN d.index /\ PosOf(d, s) = h /\ h # d.size /\ h \in Entries(d)
        /\ Of(d, s) = d.cells[h] /\ d.cells[h] \in Entry /\ ev = {}
    BY PosOfEntry DEF Of, Overwrites
  <1>3. h \in Nat /\ h < d.size /\ m \in Nat /\ m >= d.size /\ m <= MaxPos /\ d.size - 1 \in Nat
        /\ h \in Position /\ m \in Position
    BY <1>1, <1>2 DEF Entries, Position
  <1>4. /\ e \in Table /\ e.index = d.index /\ e.size = d.size /\ e.capacity = d.capacity
        /\ e.mode = d.mode /\ e.iterPos = d.iterPos /\ e.iterEvents = d.iterEvents
        /\ e.numOfEvents = d.numOfEvents /\ Of(e, s) = [Of(d, s) EXCEPT !.events = ev]
    <2>1. ev \in SUBSET Event /\ s \in DOMAIN d.index
      BY <1>2
    <2> HIDE DEF ev, e
    <2>2. e = WithEvents(d, d.index[s], ev)
      BY DEF e, WithEvents
    <2> HIDE DEF h, m
    <2> QED BY <2>1, <2>2, EventsSet, SMTT(30)
  <1>5. e.cells \in [Position -> Cell] /\ \A p \in Position : p # h => e.cells[p] = d.cells[p]
    <2>1. e.cells = [d.cells EXCEPT ![h] = [d.cells[h] EXCEPT !.events = ev]]
      BY <1>1, <1>3 DEF Table
    <2>2. e.cells \in [Position -> Cell]
      BY <1>4, TableTypes
    <2> QED BY <1>1, <2>1, <2>2
  <1>6. e.cells[h].events = {}
    <2>1. e.cells[h] = [d.cells[h] EXCEPT !.events = ev]
      BY <1>2, <1>4 DEF Of
    <2> QED BY <1>2, <2>1 DEF Entry
  <1>7. g = [f EXCEPT !.index = Without(@, s)]
    BY <1>2, <1>6 DEF RemoveCheck
  <1> HIDE DEF ev, e, h, m
  <1> DEFINE w == [e.cells EXCEPT ![h] = e.cells[m]]
             i == SetIndex(e.index, e.cells[m].fd, h)
  <1>8. f = [e EXCEPT !.cells = w, !.index = i, !.size = d.size - 1, !.iterPos = m]
    <2>1. /\ e.iterPos = m + 1 /\ h + 1 <= e.iterPos /\ e.iterPos - 1 = m /\ h < m
          /\ ~(m < e.size - 1) /\ e.size = d.size
      BY <1>1, <1>3, <1>4 DEF m
    <2>2. Moved(e, m, h) = [e EXCEPT !.cells = w, !.index = i]
      BY <1>4 DEF Moved, Table
    <2> HIDE DEF w, i
    <2>3. f = [Moved(e, m, h) EXCEPT !.size = e.size - 1, !.iterPos = m]
      BY <2>1 DEF RemoveEntry
    <2> QED BY <1>4, <2>1, <2>2, <2>3 DEF Table
  <1>9. i \in Index
    <2>1. e.cells[m].fd \in Socket \cup {Zero} /\ DOMAIN d.index \in SUBSET Socket
          /\ \A t \in DOMAIN d.index : d.index[t] \in Position
      BY <1>1, <1>3, <1>5, IndexTypes DEF Cell
    <2> DEFINE S == DOMAIN d.index \cup {e.cells[m].fd}
    <2>2. i \in [S -> Position] /\ S \in SUBSET (Socket \cup {Zero})
      BY <1>3, <1>4, <2>1 DEF SetIndex
    <2> HIDE DEF i, S
    <2> QED BY <2>2 DEF Index
  <1> DEFINE j == Without(i, s)
  <1>10. j \in Index /\ s \notin DOMAIN j
    <2> HIDE DEF i
    <2>1. PICK S \in SUBSET (Socket \cup {Zero}) : i \in [S -> Position]
      BY <1>9 DEF Index
    <2>2. j \in [S \ {s} -> Position] /\ S \ {s} \in SUBSET (Socket \cup {Zero})
      BY <2>1 DEF Without
    <2> HIDE DEF j
    <2> QED BY <2>2 DEF Index
  <1>11. w \in [Position -> Cell] /\ w[h] = d.cells[m]
         /\ \A p \in Position : p # h => w[p] = d.cells[p]
    <2>1. m # h
      BY <1>1, <1>3
    <2> QED BY <1>3, <1>5, <2>1
  <1>12. g = [e EXCEPT !.cells = w, !.index = j, !.size = d.size - 1, !.iterPos = m]
    <2> HIDE DEF w, i, f
    <2> QED BY <1>4, <1>7, <1>8 DEF Table
  <1> HIDE DEF w, i, j, f
  <1>13. e \in PollRecord
    BY <1>4, RecordTypes
  <1>14. /\ g \in PollRecord /\ g.size = d.size - 1 /\ g.iterPos = m /\ g.cells = w /\ g.index = j
         /\ g.capacity = e.capacity /\ g.mode = e.mode /\ g.iterEvents = e.iterEvents
         /\ g.numOfEvents = e.numOfEvents
    BY <1>3, <1>10, <1>11, <1>12, <1>13 DEF PollRecord
  <1>15. \A p \in Entries(g) : p \in Position
    BY <1>1, <1>3, <1>14 DEF Entries, Position
  <1>16. Of(d, s).events \subseteq events
    BY <1>2 DEF h, ev
  <1> QED BY <1>1, <1>2, <1>3, <1>4, <1>10, <1>11, <1>14, <1>15, <1>16 DEF h, m

---------------------------------------------------------------------------
(* Addition.                                                                *)

\* What polAddCheck does: the entry of the socket gets events, or an entry is appended,
\* which has no findings.
LEMMA AddCheckOK ==
  ASSUME NEW d, TableOK(d), NEW s \in Socket, NEW events \in Mask, NEW file \in File \cup {NoFile},
         s \in DOMAIN d.index \/ d.size < MaxPos,
         NEW g, g = AddCheck(d, s, events, file)
  PROVE  /\ TableOK(g) /\ g.mode = d.mode /\ g.iterPos = d.iterPos
         /\ g.iterEvents = d.iterEvents /\ g.numOfEvents = d.numOfEvents
         /\ d.size < d.capacity => g.size < g.capacity
         /\ IF s \in DOMAIN d.index
            THEN /\ g.index = d.index /\ g.size = d.size
                 /\ \A t \in DOMAIN d.index : t # s => Of(g, t) = Of(d, t)
                 /\ Of(g, s) = [Of(d, s) EXCEPT !.events = @ \cup events]
            ELSE /\ DOMAIN g.index = DOMAIN d.index \cup {s} /\ g.size = d.size + 1
                 /\ g.index[s] = d.size
                 /\ Of(g, s) = [fd |-> s, events |-> events, revents |-> {}, file |-> file]
                 /\ \A t \in DOMAIN d.index : g.index[t] = d.index[t] /\ Of(g, t) = Of(d, t)
                 /\ \A p \in Entries(d) : g.cells[p] = d.cells[p]
                 /\ g.cells[d.size] = Of(g, s)
  <1>0. /\ d \in Table /\ d.size \in Nat /\ d.size <= MaxPos /\ MaxPos \in Nat
        /\ d.cells \in [Position -> Cell] /\ d.index \in Indexes /\ d.capacity \in Nat
        /\ events \in (SUBSET Event) \ {{}} /\ Increment \in Nat \ {0}
        /\ \A p \in Entries(d) : p \in Position /\ p # d.size /\ p # d.size + 1
    <2>1. d \in Table /\ d.size <= MaxPos
      BY DEF TableOK
    <2>2. /\ d.size \in Nat /\ d.cells \in [Position -> Cell] /\ d.index \in Indexes
          /\ d.capacity \in Nat
      BY <2>1, TableTypes
    <2>3. MaxPos \in Nat /\ Increment \in Nat \ {0}
      BY PollTableAssumption
    <2>4. events \in (SUBSET Event) \ {{}}
      BY DEF Mask, Event
    <2>5. \A p \in Entries(d) : p \in Position /\ p # d.size /\ p # d.size + 1
      BY <2>1, <2>2, <2>3 DEF Entries, Position
    <2> QED BY <2>1, <2>2, <2>3, <2>4, <2>5
  <1>1. CASE s \in DOMAIN d.index
    <2> DEFINE h == d.index[s]
               ev == d.cells[h].events \cup events
    <2>1. /\ PosOf(d, s) = h /\ h # d.size /\ h \in Entries(d)
          /\ Of(d, s) = d.cells[h] /\ d.cells[h] \in Entry
      BY <1>1, PosOfEntry DEF Of
    <2>2. ev \in SUBSET Event /\ ev # {}
      BY <1>0, <2>1 DEF Entry
    <2>3. g = WithEvents(d, d.index[s], ev)
      BY <2>1 DEF AddCheck, WithEvents
    <2> HIDE DEF ev
    <2>4. /\ g.index = d.index /\ g.size = d.size /\ g.capacity = d.capacity /\ g.mode = d.mode
          /\ g.iterPos = d.iterPos /\ g.iterEvents = d.iterEvents /\ g.numOfEvents = d.numOfEvents
          /\ Of(g, s) = [Of(d, s) EXCEPT !.events = ev]
          /\ \A t \in DOMAIN d.index : t # s => Of(g, t) = Of(d, t)
          /\ TableOK(g)
      BY <1>1, <2>2, <2>3, EventsSet
    <2> QED BY <1>1, <2>1, <2>4 DEF ev
  <1>2. CASE s \notin DOMAIN d.index
    <2> DEFINE n == d.size
               c == [fd |-> s, events |-> events, revents |-> {}, file |-> file]
               i == SetIndex(d.index, s, n)
               cap == IF NeedsSpace(d, s) THEN d.capacity + Increment ELSE d.capacity
               v == [d.cells EXCEPT ![n] = c]
               w == [v EXCEPT ![n + 1] = Terminated(@)]
    <2>1. PosOf(d, s) = n /\ n \in Position /\ n + 1 \in Position /\ n < MaxPos
      BY <1>0, <1>2, PosOfEntry DEF Position
    <2>2. c \in Entry /\ c \in Cell /\ c.fd = s
      <3>1. c \in Entry
        BY <1>0 DEF Entry
      <3> QED BY <3>1, CellTypes
    <2>3. /\ i \in Indexes /\ DOMAIN i = DOMAIN d.index \cup {s} /\ i[s] = n
          /\ \A t \in DOMAIN d.index : i[t] = d.index[t]
      <3> HIDE DEF i
      <3>1. /\ SetIndex(d.index, s, n) \in Indexes
            /\ DOMAIN SetIndex(d.index, s, n) = DOMAIN d.index \cup {s}
            /\ SetIndex(d.index, s, n)[s] = n
            /\ \A t \in DOMAIN d.index : t # s => SetIndex(d.index, s, n)[t] = d.index[t]
        <4>1. d.index \in Indexes /\ n \in Position
          BY <1>0, <2>1
        <4> HIDE DEF n
        <4> QED BY <4>1, IndexSet
      <3> QED BY <1>2, <3>1 DEF i
    <2>4. cap \in Nat /\ (n < d.capacity => n + 1 < cap)
      BY <1>0, <2>1 DEF NeedsSpace
    <2> HIDE DEF c
    <2>5. v \in [Position -> Cell] /\ v[n] = c /\ \A p \in Position : p # n => v[p] = d.cells[p]
      BY <1>0, <2>1, <2>2
    <2> HIDE DEF v
    <2>7. w \in [Position -> Cell] /\ w[n] = c /\ \A p \in Entries(d) : w[p] = d.cells[p]
      <3>1. Terminated(v[n + 1]) \in Cell
        BY <2>1, <2>5, CellTypes
      <3>2. w = [v EXCEPT ![n + 1] = Terminated(v[n + 1])]
        OBVIOUS
      <3> HIDE DEF w
      <3>3. w \in [Position -> Cell] /\ \A p \in Position : p # n + 1 => w[p] = v[p]
        BY <2>5, <3>1, <3>2
      <3>4. n # n + 1
        BY <1>0
      <3> QED BY <1>0, <2>1, <2>5, <3>3, <3>4
    <2> HIDE DEF i, cap
    <2>8. /\ g \in Table /\ g.size = n + 1 /\ g.capacity = cap /\ g.index = i /\ g.cells = w
          /\ g.mode = d.mode /\ g.iterPos = d.iterPos /\ g.iterEvents = d.iterEvents
          /\ g.numOfEvents = d.numOfEvents
      <3>1. /\ g = [d EXCEPT !.size = @ + 1, !.capacity = cap, !.index = SetIndex(@, s, n),
                             !.cells[n] = c, !.cells[n + 1] = Terminated(@)]
            /\ n + 1 \in Nat
        BY <1>0, <2>1 DEF AddCheck, c, cap
      <3>2. g.size = n + 1 /\ g.capacity = cap /\ g.index = SetIndex(d.index, s, n)
        BY <1>0, <3>1 DEF Table
      <3>3. g.mode = d.mode /\ g.iterPos = d.iterPos
            /\ g.iterEvents = d.iterEvents /\ g.numOfEvents = d.numOfEvents
        BY <1>0, <3>1 DEF Table
      <3>4. g.cells = [[d.cells EXCEPT ![n] = c] EXCEPT ![n + 1] = Terminated(@)]
        BY <1>0, <2>1, <3>1 DEF Table
      <3>5. g = [size |-> g.size, capacity |-> g.capacity, mode |-> g.mode,
                 iterPos |-> g.iterPos, iterEvents |-> g.iterEvents,
                 numOfEvents |-> g.numOfEvents, index |-> g.index, cells |-> g.cells]
        BY <1>0, <3>1 DEF Table
      <3>6. g.cells = w
        BY <3>4 DEF v
      <3>7. g.index = i
        BY <3>2 DEF i
      <3> HIDE DEF w
      <3>8. g \in Table
        <4>1. g.size \in Nat /\ g.capacity \in Nat /\ g.index \in Indexes
              /\ g.cells \in [Position -> Cell] /\ g.mode \in Iterator /\ g.iterPos \in Position
              /\ g.iterEvents \in Nat /\ g.numOfEvents \in Nat
          BY <1>0, <2>3, <2>4, <2>7, <3>1, <3>2, <3>3, <3>6, <3>7, TableTypes DEF w
        <4> QED BY <3>5, <4>1 DEF Table
      <3> QED BY <3>2, <3>3, <3>6, <3>7, <3>8 DEF w
    <2> HIDE DEF w
    <2>9. ASSUME NEW t \in DOMAIN d.index
          PROVE  /\ g.index[t] = d.index[t] /\ Of(g, t) = Of(d, t) /\ d.index[t] \in Entries(d)
                 /\ g.cells[g.index[t]].fd = t
      <3>1. d.index[t] \in Entries(d) /\ d.cells[d.index[t]].fd = t
        BY DEF TableOK
      <3> QED BY <2>3, <2>7, <2>8, <3>1 DEF Of
    <2>10. g.index[s] = n /\ Of(g, s) = c /\ g.cells[n] = c
      BY <2>3, <2>7, <2>8 DEF Of
    <2>11. ASSUME NEW p \in Entries(g)
           PROVE  /\ g.cells[p] \in Entry
                  /\ g.cells[p].fd \in DOMAIN g.index /\ g.index[g.cells[p].fd] = p
      <3>1. CASE p = n
        BY <2>2, <2>3, <2>8, <2>10, <3>1
      <3>2. CASE p # n
        <4>1. p \in Entries(d)
          BY <1>0, <2>8, <3>2 DEF Entries
        <4>2. /\ d.cells[p] \in Entry
              /\ d.cells[p].fd \in DOMAIN d.index /\ d.index[d.cells[p].fd] = p
          BY <4>1 DEF TableOK
        <4> QED BY <2>3, <2>7, <2>8, <4>1, <4>2
      <3> QED BY <3>1, <3>2
    <2>12. ASSUME NEW t \in DOMAIN g.index
           PROVE  g.index[t] \in Entries(g) /\ g.cells[g.index[t]].fd = t
      <3>1. CASE t = s
        BY <1>0, <2>2, <2>8, <2>10, <3>1 DEF Entries
      <3>2. CASE t # s
        <4>1. t \in DOMAIN d.index
          BY <2>3, <2>8, <3>2
        <4>2. g.index[t] = d.index[t] /\ d.index[t] \in Entries(d) /\ g.cells[g.index[t]].fd = t
          BY <2>9, <4>1
        <4> QED BY <1>0, <2>8, <4>2 DEF Entries
      <3> QED BY <3>1, <3>2
    <2>13. TableOK(g)
      BY <1>0, <2>1, <2>8, <2>11, <2>12 DEF TableOK
    <2> QED BY <1>2, <2>3, <2>4, <2>7, <2>8, <2>9, <2>10, <2>13 DEF c
  <1> QED BY <1>1, <1>2

---------------------------------------------------------------------------
(* The operations that leave the entries where they are.                    *)

LEMMA EmptyOK ==
  TableOK(Empty) /\ Empty.size = 0 /\ Empty.iterPos = 0 /\ Empty.numOfEvents = 0
  /\ Empty.size < Empty.capacity /\ Empty.mode = NoIterator
  <1>1. /\ MaxPos \in Nat /\ 0 \in Position /\ StartSize \in Nat \ {0, 1} /\ Unassigned \in Cell
        /\ Terminated(Unassigned) \in Cell
    BY CellTypes, PollTableAssumption
  <1>2. /\ Empty.size = 0 /\ Empty.capacity = StartSize /\ Empty.mode = NoIterator
        /\ Empty.iterPos = 0 /\ Empty.iterEvents = 0 /\ Empty.numOfEvents = 0
        /\ Empty.index = [s \in {} |-> 0]
        /\ Empty.cells = [p \in Position |-> IF p = 0 THEN Terminated(Unassigned) ELSE Unassigned]
    BY DEF Empty
  <1>3. Empty.index \in Indexes /\ DOMAIN Empty.index = {}
    <2>1. [s \in {} |-> 0] \in [{} -> Position] /\ {} \in SUBSET Socket
      OBVIOUS
    <2> QED BY <1>2, <2>1, IndexMade
  <1>4. Empty.cells \in [Position -> Cell]
    BY <1>1, <1>2
  <1>5. Empty \in Table
    <2>1. Empty = [size |-> Empty.size, capacity |-> Empty.capacity, mode |-> Empty.mode,
                   iterPos |-> Empty.iterPos, iterEvents |-> Empty.iterEvents,
                   numOfEvents |-> Empty.numOfEvents, index |-> Empty.index,
                   cells |-> Empty.cells]
      BY DEF Empty
    <2>2. Empty.mode \in Iterator
      BY <1>2 DEF Iterator
    <2> QED BY <1>1, <1>2, <1>3, <1>4, <2>1, <2>2 DEF Table
  <1>6. TableOK(Empty)
    BY <1>1, <1>2, <1>3, <1>5 DEF TableOK, Entries
  <1> QED BY <1>1, <1>2, <1>6

LEMMA ClearOK ==
  ASSUME NEW d \in PollRecord, NEW g, g = Clear(d)
  PROVE  /\ TableOK(g) /\ g.size = 0 /\ g.iterPos = 0 /\ g.numOfEvents = 0
         /\ g.capacity = d.capacity /\ g.mode = NoIterator /\ DOMAIN g.index = {}
  <1>1. MaxPos \in Nat /\ 0 \in Position
    BY CellTypes
  <1> DEFINE i == [s \in {} |-> 0]
  <1>2. i \in Indexes /\ DOMAIN i = {}
    <2>1. i \in [{} -> Position] /\ {} \in SUBSET Socket
      OBVIOUS
    <2> QED BY <2>1, IndexMade
  <1>3. NoIterator \in Iterator
    BY DEF Iterator
  <1>4. g = [d EXCEPT !.size = 0, !.mode = NoIterator, !.iterPos = 0, !.iterEvents = 0,
                      !.numOfEvents = 0, !.index = i]
    BY DEF Clear
  <1> HIDE DEF i
  <1>5. /\ g \in Table /\ g.size = 0 /\ g.iterPos = 0 /\ g.numOfEvents = 0
        /\ g.capacity = d.capacity /\ g.mode = NoIterator /\ g.index = i
    <2>1. /\ d = [size |-> d.size, capacity |-> d.capacity, mode |-> d.mode,
                  iterPos |-> d.iterPos, iterEvents |-> d.iterEvents,
                  numOfEvents |-> d.numOfEvents, index |-> d.index, cells |-> d.cells]
          /\ d.capacity \in Nat /\ d.cells \in [Position -> Cell]
      BY DEF PollRecord
    <2>2. g = [size |-> 0, capacity |-> d.capacity, mode |-> NoIterator, iterPos |-> 0,
               iterEvents |-> 0, numOfEvents |-> 0, index |-> i, cells |-> d.cells]
      BY <1>4, <2>1
    <2> QED BY <1>1, <1>2, <1>3, <2>1, <2>2 DEF Table
  <1>6. TableOK(g)
    BY <1>1, <1>2, <1>5 DEF TableOK, Entries
  <1> QED BY <1>2, <1>5, <1>6

\* The findings of an entry are assigned by poll.
WithRevents(cell, revents) == [cell EXCEPT !.revents = revents]
WithFinding(d, found) == {p \in Entries(d) : found[p] # {}}

LEMMA PollOK ==
  ASSUME NEW d, TableOK(d), NEW found \in [Entries(d) -> SUBSET Finding],
         NEW g, g = Poll(d, found)
  PROVE  /\ TableOK(g) /\ g.size = d.size /\ g.capacity = d.capacity /\ g.index = d.index
         /\ g.mode = NoIterator /\ g.iterPos = 0
         /\ g.numOfEvents = Cardinality(WithFinding(d, found))
         /\ \A p \in Entries(d) : g.cells[p] = WithRevents(d.cells[p], found[p])
  <1> DEFINE n == Cardinality({p \in Entries(d) : found[p] # {}})
             w == [p \in Position |-> IF p \in Entries(d)
                                      THEN [d.cells[p] EXCEPT !.revents = found[p]]
                                      ELSE d.cells[p]]
  <1>1. /\ d \in Table /\ d.size \in Nat /\ d.size <= MaxPos /\ MaxPos \in Nat /\ 0 \in Position
        /\ d.cells \in [Position -> Cell]
    BY TableTypes, CellTypes DEF TableOK
  <1>2. \A p \in Entries(d) : p \in Position
    BY <1>1 DEF Entries, Position
  <1>3. n \in Nat
    <2>1. IsFiniteSet(Entries(d))
      BY <1>1, FS_Interval DEF Entries
    <2>2. {p \in Entries(d) : found[p] # {}} \in SUBSET Entries(d)
      OBVIOUS
    <2> QED BY <2>1, <2>2, FS_Subset, FS_CardinalityType
  <1>4. ASSUME NEW p \in Entries(d)
        PROVE  w[p] = [d.cells[p] EXCEPT !.revents = found[p]] /\ w[p] \in Entry
               /\ w[p].fd = d.cells[p].fd
    <2>1. d.cells[p] \in Entry /\ found[p] \in SUBSET Finding
      BY DEF TableOK
    <2>2. w[p] = [d.cells[p] EXCEPT !.revents = found[p]]
      BY <1>2
    <2> HIDE DEF w
    <2> QED BY <2>1, <2>2 DEF Entry
  <1>5. w \in [Position -> Cell]
    <2>1. ASSUME NEW p \in Position
          PROVE  w[p] \in Cell
      <3>1. CASE p \in Entries(d)
        <4> HIDE DEF w
        <4> QED BY <1>4, <3>1, CellTypes
      <3>2. CASE p \notin Entries(d)
        BY <1>1, <3>2
      <3> QED BY <3>1, <3>2
    <2>2. w = [p \in Position |-> w[p]]
      OBVIOUS
    <2> HIDE DEF w
    <2> QED BY <2>1, <2>2
  <1>6. g = [d EXCEPT !.mode = NoIterator, !.iterPos = 0, !.numOfEvents = n, !.cells = w]
    BY DEF Poll
  <1>7. NoIterator \in Iterator
    BY DEF Iterator
  <1> HIDE DEF n, w
  <1>8. /\ g \in Table /\ g.size = d.size /\ g.capacity = d.capacity /\ g.index = d.index
        /\ g.mode = NoIterator /\ g.iterPos = 0 /\ g.numOfEvents = n /\ g.cells = w
    BY <1>1, <1>3, <1>5, <1>6, <1>7 DEF Table
  <1>9. Entries(g) = Entries(d)
    BY <1>8 DEF Entries
  <1>10. TableOK(g)
    <2>1. ASSUME NEW p \in Entries(g)
          PROVE  /\ g.cells[p] \in Entry
                 /\ g.cells[p].fd \in DOMAIN g.index /\ g.index[g.cells[p].fd] = p
      <3>1. d.cells[p].fd \in DOMAIN d.index /\ d.index[d.cells[p].fd] = p
        BY <1>9 DEF TableOK
      <3> QED BY <1>4, <1>8, <1>9, <3>1
    <2>2. ASSUME NEW t \in DOMAIN g.index
          PROVE  g.index[t] \in Entries(g) /\ g.cells[g.index[t]].fd = t
      <3>1. d.index[t] \in Entries(d) /\ d.cells[d.index[t]].fd = t
        BY <1>8 DEF TableOK
      <3> QED BY <1>4, <1>8, <1>9, <3>1
    <2> QED BY <1>1, <1>8, <2>1, <2>2 DEF TableOK
  <1> QED BY <1>4, <1>8, <1>10 DEF n, WithFinding, WithRevents

\* Tables with the same entries.
Same(d, g) ==
  /\ TableOK(g) /\ g.size = d.size /\ g.capacity = d.capacity /\ g.index = d.index
  /\ g.cells = d.cells /\ g.numOfEvents = d.numOfEvents

WithIterator(d, mode, pos, n) ==
  [d EXCEPT !.mode = mode, !.iterPos = pos, !.iterEvents = n]

LEMMA IteratorOK ==
  ASSUME NEW d, TableOK(d), NEW mode \in Iterator, NEW pos \in Position, NEW n \in Nat,
         NEW g, g = WithIterator(d, mode, pos, n)
  PROVE  Same(d, g) /\ g.mode = mode /\ g.iterPos = pos /\ g.iterEvents = n
  <1>1. d \in Table
    BY DEF TableOK
  <1>2. /\ g \in Table /\ g.size = d.size /\ g.capacity = d.capacity /\ g.index = d.index
        /\ g.cells = d.cells /\ g.numOfEvents = d.numOfEvents
        /\ g.mode = mode /\ g.iterPos = pos /\ g.iterEvents = n
    BY <1>1 DEF Table, WithIterator
  <1>3. TableOK(g)
    BY <1>2 DEF TableOK, Entries
  <1> QED BY <1>2, <1>3 DEF Same

LEMMA StartOK ==
  ASSUME NEW d, TableOK(d), NEW mode \in Iterator, NEW g,
         g = IterChecks(d, mode) \/ g = IterFindings(d, mode)
  PROVE  /\ Same(d, g) /\ g.mode = mode /\ g.iterPos = 0
         /\ g = IterFindings(d, mode) => g.iterEvents = d.numOfEvents
  <1>1. d \in Table /\ d.iterEvents \in Nat /\ d.numOfEvents \in Nat /\ 0 \in Position
    BY TableTypes, CellTypes DEF TableOK
  <1>2. IterChecks(d, mode) = WithIterator(d, mode, 0, d.iterEvents)
    BY <1>1 DEF IterChecks, Table, WithIterator
  <1>3. IterFindings(d, mode) = WithIterator(d, mode, 0, d.numOfEvents)
    BY DEF IterFindings, WithIterator
  <1>4. /\ Same(d, IterFindings(d, mode)) /\ IterFindings(d, mode).mode = mode
        /\ IterFindings(d, mode).iterPos = 0 /\ IterFindings(d, mode).iterEvents = d.numOfEvents
    BY <1>1, <1>3, IteratorOK
  <1>5. /\ Same(d, IterChecks(d, mode)) /\ IterChecks(d, mode).mode = mode
        /\ IterChecks(d, mode).iterPos = 0
    BY <1>1, <1>2, IteratorOK
  <1> QED BY <1>4, <1>5

LEMMA NextPositionsOK ==
  ASSUME NEW d, TableOK(d), NEW pos \in NextPositions(d)
  PROVE  /\ pos \in Position
         /\ HasNextAt(d, pos) =>
              /\ pos \in Entries(d) /\ pos >= d.iterPos /\ pos + 1 \in Position
              /\ EventsAt(d, pos) \cap d.mode.mask # {}
              /\ \A q \in d.iterPos .. pos - 1 : EventsAt(d, q) \cap d.mode.mask = {}
              /\ d.mode.over = "findings" => d.iterEvents # 0 /\ d.iterEvents - 1 \in Nat
  <1>1. /\ d \in Table /\ d.size \in Nat /\ d.size <= MaxPos /\ MaxPos \in Nat
        /\ d.iterPos \in Position /\ d.iterEvents \in Nat
    BY TableTypes, CellTypes DEF TableOK
  <1>2. pos \in Scan(d) => pos \in d.iterPos .. MaxPos
    BY DEF Scan
  <1>3. pos \in Position
    BY <1>1, <1>2 DEF NextPositions, Position
  <1>4. ASSUME HasNextAt(d, pos)
        PROVE  /\ pos \in Entries(d) /\ pos >= d.iterPos /\ pos + 1 \in Position
               /\ EventsAt(d, pos) \cap d.mode.mask # {}
               /\ \A q \in d.iterPos .. pos - 1 : EventsAt(d, q) \cap d.mode.mask = {}
               /\ d.mode.over = "findings" => d.iterEvents # 0 /\ d.iterEvents - 1 \in Nat
    <2>1. d.mode.over # "empty" /\ pos < d.size
      BY <1>4 DEF HasNextAt
    <2>2. pos \in Scan(d) /\ (d.mode.over = "findings" => d.iterEvents # 0)
      BY <1>1, <2>1 DEF NextPositions
    <2>3. /\ pos \in d.iterPos .. MaxPos /\ pos # MaxPos
          /\ EventsAt(d, pos) \cap (d.mode.mask \cup {"unknown"}) # {}
          /\ \A q \in d.iterPos .. pos - 1 : EventsAt(d, q) \cap d.mode.mask = {}
      BY <1>1, <2>1, <2>2 DEF Scan
    <2>4. pos \in Entries(d) /\ pos >= d.iterPos /\ pos + 1 \in Position
      BY <1>1, <1>3, <2>1, <2>3 DEF Entries, Position
    <2>5. d.cells[pos] \in Entry
      BY <2>4 DEF TableOK
    <2>6. "unknown" \notin EventsAt(d, pos)
      BY <2>5 DEF Entry, EventsAt, Event, Finding
    <2> QED BY <1>1, <2>2, <2>3, <2>4, <2>6
  <1> QED BY <1>3, <1>4

\* hasNext and nextFile leave the entries as they are.
LEMMA NextOK ==
  ASSUME NEW d, TableOK(d), NEW pos \in NextPositions(d)
  PROVE  /\ Same(d, AfterHasNext(d, pos)) /\ AfterHasNext(d, pos).mode = d.mode
         /\ AfterHasNext(d, pos).iterPos = pos
         /\ AfterHasNext(d, pos).iterEvents = d.iterEvents
         /\ Same(d, AfterNextFile(d, pos)) /\ AfterNextFile(d, pos).mode = d.mode
         /\ AfterNextFile(d, pos).iterPos = IF HasNextAt(d, pos) THEN pos + 1 ELSE pos
         /\ AfterNextFile(d, pos).iterEvents =
              IF HasNextAt(d, pos) /\ d.mode.over = "findings"
                 /\ d.cells[pos].revents \subseteq d.mode.mask
              THEN d.iterEvents - 1 ELSE d.iterEvents
  <1>1. d \in Table /\ d.mode \in Iterator /\ d.iterEvents \in Nat
    BY TableTypes DEF TableOK
  <1>2. AfterHasNext(d, pos) = WithIterator(d, d.mode, pos, d.iterEvents)
    BY <1>1 DEF AfterHasNext, Table, WithIterator
  <1>3. pos \in Position
    BY NextPositionsOK
  <1>4. /\ Same(d, AfterHasNext(d, pos)) /\ AfterHasNext(d, pos).mode = d.mode
        /\ AfterHasNext(d, pos).iterPos = pos
        /\ AfterHasNext(d, pos).iterEvents = d.iterEvents
    BY <1>1, <1>2, <1>3, IteratorOK
  <1>5. CASE ~HasNextAt(d, pos)
    BY <1>4, <1>5 DEF AfterNextFile
  <1>6. CASE HasNextAt(d, pos)
    <2> DEFINE counted == d.mode.over = "findings" /\ d.cells[pos].revents \subseteq d.mode.mask
               n == IF counted THEN d.iterEvents - 1 ELSE d.iterEvents
               np == pos + 1
    <2>1. np \in Position /\ n \in Nat
      BY <1>1, <1>6, NextPositionsOK
    <2>2. AfterNextFile(d, pos) = [d EXCEPT !.iterPos = np, !.iterEvents = n]
      BY <1>6 DEF AfterNextFile
    <2> HIDE DEF n, np
    <2>3. AfterNextFile(d, pos) = WithIterator(d, d.mode, np, n)
      BY <1>1, <2>2 DEF Table, WithIterator
    <2>4. /\ Same(d, AfterNextFile(d, pos)) /\ AfterNextFile(d, pos).mode = d.mode
          /\ AfterNextFile(d, pos).iterPos = np /\ AfterNextFile(d, pos).iterEvents = n
      BY <1>1, <2>1, <2>3, IteratorOK
    <2> QED BY <1>4, <1>6, <2>4 DEF n, np
  <1> QED BY <1>5, <1>6

---------------------------------------------------------------------------
(* Counting.                                                                *)

LEMMA SameCount ==
  ASSUME NEW S, NEW T, IsFiniteSet(S), NEW f \in [S -> T],
         \A a, b \in S : f[a] = f[b] => a = b, \A t \in T : \E a \in S : f[a] = t
  PROVE  IsFiniteSet(T) /\ Cardinality(T) = Cardinality(S)
  <1>1. f \in Bijection(S, T)
    BY DEF Bijection, Injection, Surjection, IsInjective
  <1>2. ExistsBijection(S, T)
    BY <1>1 DEF ExistsBijection
  <1> QED BY <1>2, FS_Bijection

\* Entries may be counted by their sockets.
LEMMA EntriesCounted ==
  ASSUME NEW d, TableOK(d), NEW P \in SUBSET Entries(d)
  PROVE  LET T == {s \in DOMAIN d.index : d.index[s] \in P}
         IN  IsFiniteSet(P) /\ IsFiniteSet(T) /\ Cardinality(P) = Cardinality(T)
  <1> DEFINE T == {s \in DOMAIN d.index : d.index[s] \in P}
             f == [p \in P |-> d.cells[p].fd]
  <1>1. IsFiniteSet(P)
    <2>1. d.size \in Nat
      BY TableTypes DEF TableOK
    <2>2. IsFiniteSet(Entries(d))
      BY <2>1, FS_Interval DEF Entries
    <2> QED BY <2>2, FS_Subset
  <1>2. \A p \in P : d.cells[p].fd \in DOMAIN d.index /\ d.index[d.cells[p].fd] = p
    BY DEF TableOK
  <1>3. f \in [P -> T]
    BY <1>2
  <1>4. \A a, b \in P : f[a] = f[b] => a = b
    BY <1>2
  <1>5. ASSUME NEW t \in T
        PROVE  \E a \in P : f[a] = t
    <2>1. d.index[t] \in P /\ d.cells[d.index[t]].fd = t
      BY DEF TableOK
    <2> QED BY <2>1
  <1> HIDE DEF f, T
  <1>6. IsFiniteSet(T) /\ Cardinality(T) = Cardinality(P)
    BY <1>1, <1>3, <1>4, <1>5, SameCount
  <1> QED BY <1>1, <1>6 DEF T

---------------------------------------------------------------------------
(* Entries with findings, and those that the iterator has not come to.      *)

Found(d) == {p \in Entries(d) : d.cells[p].revents # {}}
Left(d) == {p \in Entries(d) : p >= d.iterPos /\ d.cells[p].revents \cap d.mode.mask # {}}

FoundSockets(d) == {s \in DOMAIN d.index : Of(d, s).revents # {}}
LeftSockets(d) == {s \in DOMAIN d.index : d.index[s] >= d.iterPos
                                          /\ Of(d, s).revents \cap d.mode.mask # {}}

LEMMA FindingsBySocket ==
  ASSUME NEW d, TableOK(d)
  PROVE  /\ Cardinality(Found(d)) = Cardinality(FoundSockets(d))
         /\ IsFiniteSet(FoundSockets(d)) /\ IsFiniteSet(Found(d))
         /\ Cardinality(Left(d)) = Cardinality(LeftSockets(d))
         /\ IsFiniteSet(LeftSockets(d)) /\ IsFiniteSet(Left(d))
         /\ Left(d) \subseteq Found(d)
         /\ Cardinality(Found(d)) \in Nat /\ Cardinality(Left(d)) \in Nat
  <1>1. Found(d) \in SUBSET Entries(d) /\ Left(d) \in SUBSET Entries(d)
    BY DEF Found, Left
  <1>2. \A s \in DOMAIN d.index : d.index[s] \in Entries(d)
    BY DEF TableOK
  <1>3. FoundSockets(d) = {s \in DOMAIN d.index : d.index[s] \in Found(d)}
    BY <1>2 DEF FoundSockets, Found, Of
  <1>4. LeftSockets(d) = {s \in DOMAIN d.index : d.index[s] \in Left(d)}
    BY <1>2 DEF LeftSockets, Left, Of
  <1>5. /\ IsFiniteSet(Found(d)) /\ IsFiniteSet(FoundSockets(d))
        /\ Cardinality(Found(d)) = Cardinality(FoundSockets(d))
    BY <1>1, <1>3, EntriesCounted
  <1>6. /\ IsFiniteSet(Left(d)) /\ IsFiniteSet(LeftSockets(d))
        /\ Cardinality(Left(d)) = Cardinality(LeftSockets(d))
    BY <1>1, <1>4, EntriesCounted
  <1>7. Left(d) \subseteq Found(d)
    BY DEF Left, Found
  <1> QED BY <1>5, <1>6, <1>7, FS_CardinalityType

\* nextFile delivers one of the entries that are left.
LEMMA NextLeft ==
  ASSUME NEW d, TableOK(d), d.mode.over = "findings", NEW pos \in NextPositions(d)
  PROVE  /\ HasNextAt(d, pos) => pos \in Left(d) /\ Left(AfterNextFile(d, pos)) = Left(d) \ {pos}
         /\ d.iterEvents # 0 /\ Left(d) # {} => HasNextAt(d, pos)
         /\ HasNextAt(d, pos) => \A p \in Left(d) : pos <= p
         /\ Left(AfterHasNext(d, pos)) \subseteq Left(d)
         /\ HasNextAt(d, pos) => Left(AfterHasNext(d, pos)) = Left(d)
  <1>1. /\ d.size \in Nat /\ d.iterPos \in Nat /\ d.iterEvents \in Nat /\ pos \in Nat
        /\ d.size <= MaxPos /\ MaxPos \in Nat /\ d \in Table
    BY TableTypes, NextPositionsOK, CellTypes DEF TableOK, Position
  <1>2. \A p : EventsAt(d, p) = d.cells[p].revents
    BY DEF EventsAt
  <1>3. \A p \in Entries(d) : p \in Nat /\ p < d.size
    BY <1>1 DEF Entries
  <1>4. ASSUME HasNextAt(d, pos)
        PROVE  /\ pos \in Left(d) /\ Left(AfterNextFile(d, pos)) = Left(d) \ {pos}
               /\ \A p \in Left(d) : pos <= p
               /\ Left(AfterHasNext(d, pos)) = Left(d)
    <2> DEFINE g == AfterNextFile(d, pos)
               h == AfterHasNext(d, pos)
    <2>1. /\ pos \in Entries(d) /\ pos >= d.iterPos /\ d.cells[pos].revents \cap d.mode.mask # {}
          /\ \A q \in d.iterPos .. pos - 1 : d.cells[q].revents \cap d.mode.mask = {}
      BY <1>2, <1>4, NextPositionsOK
    <2>2. \A p \in Left(d) : pos <= p
      BY <1>1, <1>3, <2>1 DEF Left
    <2>3. /\ g.size = d.size /\ g.cells = d.cells /\ g.mode = d.mode /\ g.iterPos = pos + 1
          /\ h.size = d.size /\ h.cells = d.cells /\ h.mode = d.mode /\ h.iterPos = pos
      BY <1>4, NextOK DEF Same
    <2> HIDE DEF g, h
    <2>4. Entries(g) = Entries(d) /\ Entries(h) = Entries(d)
      BY <2>3 DEF Entries
    <2>5. Left(g) = Left(d) \ {pos} /\ Left(h) = Left(d)
      BY <1>1, <1>3, <2>1, <2>2, <2>3, <2>4 DEF Left
    <2> QED BY <2>1, <2>2, <2>5 DEF Left, g, h
  <1>5. ASSUME d.iterEvents # 0, NEW p \in Left(d)
        PROVE  HasNextAt(d, pos)
    <2>1. pos \in Scan(d)
      BY <1>5 DEF NextPositions
    <2>2. pos \in d.iterPos .. MaxPos /\ \A q \in d.iterPos .. pos - 1 :
                                           d.cells[q].revents \cap d.mode.mask = {}
      BY <1>2, <2>1 DEF Scan
    <2>3. p \in Nat /\ p < d.size /\ p >= d.iterPos /\ d.cells[p].revents \cap d.mode.mask # {}
      BY <1>3 DEF Left
    <2>4. pos <= p
      BY <1>1, <2>2, <2>3
    <2> QED BY <1>1, <2>3, <2>4 DEF HasNextAt
  <1>6. Left(AfterHasNext(d, pos)) \subseteq Left(d)
    <2> DEFINE h == AfterHasNext(d, pos)
    <2>1. h.size = d.size /\ h.cells = d.cells /\ h.mode = d.mode /\ h.iterPos = pos
      BY NextOK DEF Same
    <2>2. pos >= d.iterPos \/ pos = d.size
      BY <1>1 DEF NextPositions, Scan
    <2> HIDE DEF h
    <2>3. Left(h) \subseteq Left(d)
      BY <1>1, <1>3, <2>1, <2>2 DEF Left, Entries
    <2> QED BY <2>3 DEF h
  <1> QED BY <1>4, <1>5, <1>6
=============================================================================
