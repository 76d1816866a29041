--------------------------- MODULE PollTable ---------------------------
(***************************************************************************)
(* The data structure behind the type pollData (src/src/pol_unx.c): a      *)
(* table of sockets with the events to check (events), the events found by *)
(* poll (revents) and the files to deliver, an index from sockets to       *)
(* positions in the table, and an iterator over the table.                 *)
(*                                                                         *)
(* A poll_based_pollRecord is a record, and a function of pol_unx.c is an  *)
(* operator from the old to the new record.  The arrays pollFds and        *)
(* pollFiles are one function, cells, which extends to the position        *)
(* MaxPos: the loops of the iterator have no bound, and what is behind the *)
(* table matters.                                                          *)
(***************************************************************************)
EXTENDS Integers, FiniteSets

CONSTANTS
  Socket,          \* socket numbers
  File,            \* files (rtlValueUnion)
  NoFile,          \* nullFile, and the content of pollFiles before it is assigned
  Zero,            \* socket number 0, in cells that memset has cleared
  PollModes,       \* event checks and iterations that the program uses: a subset of Mask
  StartSize,       \* TABLE_START_SIZE
  Increment,       \* TABLE_INCREMENT
  MaxPos           \* bound: positions that are distinguished

Event == {"in", "out"}
Mask == {{"in"}, {"out"}, {"in", "out"}}      \* POLL_IN, POLL_OUT, POLL_INOUT

ASSUME PollTableAssumption ==
  /\ PollModes \subseteq Mask
  /\ Zero \notin Socket /\ NoFile \notin File
  /\ StartSize \in Nat \ {0, 1} /\ Increment \in Nat \ {0} /\ MaxPos \in Nat
  /\ StartSize <= MaxPos

Position == 0..MaxPos

\* "other" stands for POLLHUP, POLLERR and POLLNVAL, and "unknown" for the bits of
\* memory that was never assigned.
Finding == Event \cup {"other"}
Cell == [fd : Socket \cup {Zero}, events : SUBSET (Event \cup {"unknown"}),
         revents : SUBSET (Finding \cup {"unknown"}), file : File \cup {NoFile}]
Unassigned == [fd |-> Zero, events |-> {"unknown"}, revents |-> {"unknown"}, file |-> NoFile]

\* The end mark: TERMINATING_REVENT.
Terminated(cell) == [cell EXCEPT !.fd = Zero, !.events = {}, !.revents = Finding]

\* iteratorMode
NoIterator == [over |-> "empty", mask |-> {}]
Iterator == {NoIterator} \cup [over : {"checks", "findings"}, mask : Mask]

\* poll_based_pollRecord
Index == UNION {[S -> Position] : S \in SUBSET (Socket \cup {Zero})}
PollRecord ==
  [size : Nat, capacity : Nat, mode : Iterator, iterPos : Position, iterEvents : Nat,
   numOfEvents : Nat, index : Index, cells : [Position -> Cell]]

\* polEmpty
Empty ==
  [size |-> 0, capacity |-> StartSize, mode |-> NoIterator, iterPos |-> 0, iterEvents |-> 0,
   numOfEvents |-> 0, index |-> [s \in {} |-> 0],
   cells |-> [p \in Position |-> IF p = 0 THEN Terminated(Unassigned) ELSE Unassigned]]

-----------------------------------------------------------------------------
(* Checks *)

\* hshIdxWithDefault: an entry of the index, or the size of the table.
PosOf(d, s) == IF s \in DOMAIN d.index THEN d.index[s] ELSE d.size
SetIndex(index, s, pos) == [t \in DOMAIN index \cup {s} |-> IF t = s THEN pos ELSE index[t]]
Without(index, s) == [t \in DOMAIN index \ {s} |-> index[t]]

\* Mutant: no space for the end mark.
NeedsSpaceForEntry(d, s) == PosOf(d, s) = d.size /\ d.size >= d.capacity

NeedsSpace(d, s) == PosOf(d, s) = d.size /\ d.size + 1 >= d.capacity

\* Mutant: the new entry keeps the findings in its memory.
AddCheckKeepsFindings(d, s, events, file) ==
  LET pos == PosOf(d, s)
  IN  IF pos # d.size
      THEN [d EXCEPT !.cells[pos].events = @ \cup events]
      ELSE [d EXCEPT !.size = @ + 1,
                     !.capacity = IF NeedsSpace(d, s) THEN @ + Increment ELSE @,
                     !.index = SetIndex(@, s, pos),
                     !.cells[pos] = [@ EXCEPT !.fd = s, !.events = events, !.file = file],
                     !.cells[pos + 1] = Terminated(@)]

AddCheck(d, s, events, file) ==
  LET pos == PosOf(d, s)
  IN  IF pos # d.size
      THEN [d EXCEPT !.cells[pos].events = @ \cup events]
      ELSE [d EXCEPT !.size = @ + 1,
                     !.capacity = IF NeedsSpace(d, s) THEN @ + Increment ELSE @,
                     !.index = SetIndex(@, s, pos),
                     !.cells[pos] = [fd |-> s, events |-> events, revents |-> {}, file |-> file],
                     !.cells[pos + 1] = Terminated(@)]

\* The index is changed before the table is resized.
AddCheckFails(d, s) == [d EXCEPT !.index = SetIndex(@, s, PosOf(d, s))]

\* Mutant: the index keeps the old position.
MovedEntry(d, from, to) == [d EXCEPT !.cells[to] = d.cells[from]]

\* memcpy of an entry, and the new position in the index.
Moved(d, from, to) ==
  [d EXCEPT !.cells[to] = d.cells[from], !.index = SetIndex(@, d.cells[from].fd, to)]

\* Mutant: the entry before the iterator is filled with the last entry, too.
RemoveEntryUnordered(d, pos) ==
  LET last == d.size - 1
      e == [d EXCEPT !.size = last, !.iterPos = IF pos + 1 <= @ THEN @ - 1 ELSE @]
  IN  IF pos < last THEN Moved(e, last, pos) ELSE e

\* The entry at pos is overwritten with the one before the iterator, if it is
\* further before it, and then the free place with the last entry.
RemoveEntry(d, pos) ==
  LET passed == pos + 1 <= d.iterPos
      iterPos == IF passed THEN d.iterPos - 1 ELSE d.iterPos
      moves == passed /\ pos < iterPos
      hole == IF moves THEN iterPos ELSE pos
      last == d.size - 1
      moved == IF moves THEN Moved(d, iterPos, pos) ELSE d
      e == [moved EXCEPT !.size = last, !.iterPos = iterPos]
  IN  IF hole < last THEN Moved(e, last, hole) ELSE e

RemoveCheck(d, s, events) ==
  LET pos == PosOf(d, s)
      e == [d EXCEPT !.cells[pos].events = @ \ events]
      f == RemoveEntry(e, pos)
  IN  IF pos = d.size THEN d
      ELSE IF e.cells[pos].events # {} THEN e
      ELSE [f EXCEPT !.index = Without(@, s)]

\* The file that loses a reference.
IsRemoved(d, s, events) ==
  PosOf(d, s) # d.size /\ d.cells[PosOf(d, s)].events \ events = {}

\* The iterator is behind the table, when the entry before it is moved: what is in
\* the memory there overwrites the entry that is removed, and the last one is lost.
Overwrites(d, s, events) == d.iterPos > d.size /\ IsRemoved(d, s, events)
Strays(d) == {d.cells[d.iterPos - 1].file, d.cells[d.size - 1].file}

GetCheck(d, s) ==
  IF PosOf(d, s) = d.size THEN {} ELSE d.cells[PosOf(d, s)].events \cap Event
GetFinding(d, s) ==
  IF PosOf(d, s) = d.size THEN {} ELSE d.cells[PosOf(d, s)].revents \cap Event

Entries(d) == 0..d.size - 1

\* poll: the operating system assigns revents, and counts the entries with findings.
Poll(d, found) ==
  [d EXCEPT !.mode = NoIterator, !.iterPos = 0,
            !.numOfEvents = Cardinality({p \in Entries(d) : found[p] # {}}),
            !.cells = [p \in Position |-> IF p \in Entries(d)
                                          THEN [d.cells[p] EXCEPT !.revents = found[p]]
                                          ELSE d.cells[p]]]

\* Mutant: the index is not emptied.
ClearTable(d) ==
  [d EXCEPT !.size = 0, !.mode = NoIterator, !.iterPos = 0, !.iterEvents = 0, !.numOfEvents = 0]

\* There is no end mark at position 0 afterwards.
Clear(d) ==
  [d EXCEPT !.size = 0, !.mode = NoIterator, !.iterPos = 0, !.iterEvents = 0,
            !.numOfEvents = 0, !.index = [s \in {} |-> 0]]

-----------------------------------------------------------------------------
(* Iterator *)

\* The mode comes from the pollMode.
ModesFor(over) == {NoIterator} \cup [over : {over}, mask : PollModes]

IterChecks(d, mode) == [d EXCEPT !.mode = mode, !.iterPos = 0]
IterFindings(d, mode) == [d EXCEPT !.mode = mode, !.iterPos = 0, !.iterEvents = d.numOfEvents]

EventsAt(d, p) == IF d.mode.over = "checks" THEN d.cells[p].events ELSE d.cells[p].revents

\* The positions where the loop that looks for one of the mask's events may end.
Scan(d) ==
  {p \in d.iterPos..MaxPos :
     /\ p = MaxPos \/ EventsAt(d, p) \cap (d.mode.mask \cup {"unknown"}) # {}
     /\ \A q \in d.iterPos..p - 1 : EventsAt(d, q) \cap d.mode.mask = {}}

\* The positions where hasNext and nextFile may find the next entry, or end.
NextPositions(d) ==
  IF d.mode.over = "empty" THEN {d.iterPos}
  ELSE IF d.mode.over = "findings" /\ d.iterEvents = 0 THEN {d.size}
  ELSE Scan(d)

HasNextAt(d, pos) == d.mode.over # "empty" /\ pos < d.size
NextFileAt(d, pos) == IF HasNextAt(d, pos) THEN d.cells[pos].file ELSE NoFile

\* Mutant: hasNext counts the finding, too.
AfterHasNextCounted(d, pos) ==
  [d EXCEPT !.iterPos = pos, !.iterEvents = IF d.mode.over = "findings" /\ @ > 0 THEN @ - 1 ELSE @]

\* hasNext remembers the position.
AfterHasNext(d, pos) == [d EXCEPT !.iterPos = pos]

\* An entry with other findings than those of the iterator is not counted.
AfterNextFile(d, pos) ==
  IF ~HasNextAt(d, pos) THEN AfterHasNext(d, pos)
  ELSE [d EXCEPT !.iterPos = pos + 1,
                 !.iterEvents = IF d.mode.over = "findings" /\ d.cells[pos].revents \subseteq d.mode.mask
                                THEN @ - 1 ELSE @]
=============================================================================
