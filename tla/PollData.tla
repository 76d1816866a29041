---------------------------- MODULE PollData ----------------------------
(***************************************************************************)
(* Variables of the type pollData in a program, with the functions of      *)
(* src/src/pol_unx.c as actions.  PollTable describes the data structure.  *)
(* The actions of a program may come in any order.                         *)
(***************************************************************************)
EXTENDS PollTable

CONSTANTS
  Var,             \* variables
  Observed,        \* the variable that is shown to implement Polling
  Undefined,       \* a variable before its creation and after its destruction
  Reported,        \* findings that the operating system reports
  NoMemory,        \* may the allocation of memory fail?
  RangeErrors      \* may programs go on after RANGE_ERROR for an illegal pollMode?

ASSUME PollDataAssumption ==
  /\ Observed \in Var /\ IsFiniteSet(Var)
  /\ Reported \subseteq Finding
  /\ NoMemory \in BOOLEAN /\ RangeErrors \in BOOLEAN

VARIABLES
  data,            \* variable -> record
  failed,          \* variables for which addCheck raised MEMORY_ERROR
  dangling,        \* variables whose indexHash was freed by a failed assignment
  usage,           \* file -> references that pollData has counted with incrUsageCount
  result,          \* of the last call of hasNext or nextFile
  overwritten,     \* history: variables with a table that a removal has overwritten
  miscounted       \* history: files with a reference that a removal has overwritten or lost

lost == <<overwritten, miscounted>>
vars == <<data, failed, dangling, usage, result, overwritten, miscounted>>

NoResult == [of |-> "other", is |-> NoFile]

ASSUME UndefinedAssumption == Undefined \notin PollRecord

Init ==
  /\ data = [x \in Var |-> Empty]
  /\ failed = {} /\ dangling = {} /\ overwritten = {} /\ miscounted = {}
  /\ usage = [f \in File \cup {NoFile} |-> 0]
  /\ result = NoResult

Defined(x) == data[x] # Undefined /\ x \notin dangling
Valid(x) == Defined(x) /\ x \notin failed

\* An overwritten table can be cleared, replaced by an assignment, and destroyed.
\* Other uses would only spread what is in it.
Usable(x) == Valid(x) /\ x \notin overwritten

\* How many entries of the table refer to the file.
Refs(d, f) == Cardinality({p \in Entries(d) : d.cells[p].file = f})

Set(x, d) == data' = [data EXCEPT ![x] = d]

PolAddCheck(x, s, events, file) ==
  /\ Usable(x)
  /\ data[x].size + 1 < MaxPos
  /\ Set(x, AddCheck(data[x], s, events, file))
  /\ usage' = IF PosOf(data[x], s) = data[x].size THEN [usage EXCEPT ![file] = @ + 1] ELSE usage
  /\ result' = NoResult /\ UNCHANGED <<failed, dangling, lost>>

\* MEMORY_ERROR
PolAddCheckFails(x, s) ==
  /\ NoMemory /\ Usable(x) /\ NeedsSpace(data[x], s)
  /\ Set(x, AddCheckFails(data[x], s))
  /\ failed' = failed \cup {x}
  /\ result' = NoResult /\ UNCHANGED <<dangling, usage, lost>>

PolRemoveCheck(x, s, events) ==
  /\ Usable(x)
  /\ Set(x, RemoveCheck(data[x], s, events))
  /\ IF Overwrites(data[x], s, events)
     THEN overwritten' = overwritten \cup {x} /\ miscounted' = miscounted \cup Strays(data[x])
     ELSE UNCHANGED lost
  /\ usage' = IF IsRemoved(data[x], s, events)
              THEN [usage EXCEPT ![data[x].cells[PosOf(data[x], s)].file] = @ - 1] ELSE usage
  /\ result' = NoResult /\ UNCHANGED <<failed, dangling>>

PolClear(x) ==
  /\ Valid(x)
  /\ Set(x, Clear(data[x]))
  /\ usage' = [f \in DOMAIN usage |-> usage[f] - Refs(data[x], f)]
  /\ overwritten' = overwritten \ {x}
  /\ result' = NoResult /\ UNCHANGED <<failed, dangling, miscounted>>

\* poll waits until there are findings: of the checked events, or others.
PolPoll(x) ==
  /\ Usable(x)
  /\ LET d == data[x]
     IN  \E found \in [Entries(d) -> SUBSET Reported] :
           /\ \A p \in Entries(d) : found[p] \cap Event \subseteq d.cells[p].events
           /\ \E p \in Entries(d) : found[p] # {}
           /\ Set(x, Poll(d, found))
  /\ result' = NoResult /\ UNCHANGED <<failed, dangling, usage, lost>>

\* An illegal pollMode leaves the mode as it is, but restarts the iterator.
ChosenModes(x, over) == ModesFor(over) \cup (IF RangeErrors THEN {data[x].mode} ELSE {})

PolIterChecks(x) ==
  /\ Usable(x)
  /\ \E mode \in ChosenModes(x, "checks") : Set(x, IterChecks(data[x], mode))
  /\ result' = NoResult /\ UNCHANGED <<failed, dangling, usage, lost>>

PolIterFindings(x) ==
  /\ Usable(x)
  /\ \E mode \in ChosenModes(x, "findings") : Set(x, IterFindings(data[x], mode))
  /\ result' = NoResult /\ UNCHANGED <<failed, dangling, usage, lost>>

PolHasNext(x) ==
  /\ Usable(x)
  /\ \E pos \in NextPositions(data[x]) :
       /\ Set(x, AfterHasNext(data[x], pos))
       /\ result' = [of |-> "hasNext", is |-> HasNextAt(data[x], pos)]
  /\ UNCHANGED <<failed, dangling, usage, lost>>

PolNextFile(x) ==
  /\ Usable(x)
  /\ \E pos \in NextPositions(data[x]) :
       /\ Set(x, AfterNextFile(data[x], pos))
       /\ result' = [of |-> "nextFile", is |-> NextFileAt(data[x], pos)]
  /\ UNCHANGED <<failed, dangling, usage, lost>>

\* A table with the entries of d in memory with these other cells.
CopiedInto(d, cells, capacity) ==
  [d EXCEPT !.capacity = capacity,
            !.cells = [p \in Position |->
                         IF p \in Entries(d) THEN d.cells[p]
                         ELSE IF p = d.size THEN Terminated([cells[p] EXCEPT !.file = NoFile])
                         ELSE [cells[p] EXCEPT !.file = NoFile]]]

Fresh == [p \in Position |-> Unassigned]

\* Mutant: the references of the old value are not given up.
PolCpyKeepsFiles(x, y) ==
  /\ x # y /\ Valid(x) /\ Usable(y)
  /\ LET fits == data[y].size + 1 <= data[x].capacity
     IN  Set(x, CopiedInto(data[y], IF fits THEN data[x].cells ELSE Fresh,
                           IF fits THEN data[x].capacity ELSE data[y].capacity))
  /\ usage' = [f \in DOMAIN usage |-> usage[f] + Refs(data[y], f)]
  /\ overwritten' = overwritten \ {x}
  /\ result' = NoResult /\ UNCHANGED <<failed, dangling, miscounted>>

\* The assignment keeps pollFds when it has space; pollFiles is always new.
PolCpy(x, y) ==
  /\ x # y /\ Valid(x) /\ Usable(y)
  /\ LET fits == data[y].size + 1 <= data[x].capacity
     IN  Set(x, CopiedInto(data[y], IF fits THEN data[x].cells ELSE Fresh,
                           IF fits THEN data[x].capacity ELSE data[y].capacity))
  /\ usage' = [f \in DOMAIN usage |-> usage[f] + Refs(data[y], f) - Refs(data[x], f)]
  /\ overwritten' = overwritten \ {x}
  /\ result' = NoResult /\ UNCHANGED <<failed, dangling, miscounted>>

\* MEMORY_ERROR, when the index of x has already been destroyed.
PolCpyFails(x, y) ==
  /\ NoMemory /\ x # y /\ Valid(x) /\ Usable(y)
  /\ dangling' = dangling \cup {x}
  /\ result' = NoResult /\ UNCHANGED <<data, failed, usage, lost>>

\* polEmpty, and the creation of a variable from the empty value.
PolEmpty(x) ==
  /\ data[x] = Undefined
  /\ Set(x, Empty)
  /\ result' = NoResult /\ UNCHANGED <<failed, dangling, usage, lost>>

PolCreate(x, y) ==
  /\ data[x] = Undefined /\ Usable(y)
  /\ Set(x, CopiedInto(data[y], Fresh, data[y].capacity))
  /\ usage' = [f \in DOMAIN usage |-> usage[f] + Refs(data[y], f)]
  /\ result' = NoResult /\ UNCHANGED <<failed, dangling, lost>>

PolDestr(x) ==
  /\ Defined(x)
  /\ Set(x, Undefined)
  /\ usage' = [f \in DOMAIN usage |-> usage[f] - Refs(data[x], f)]
  /\ result' = NoResult /\ failed' = failed \ {x} /\ overwritten' = overwritten \ {x}
  /\ UNCHANGED <<dangling, miscounted>>

Next ==
  \E x \in Var :
    \/ \E s \in Socket, events \in PollModes :
         \/ \E file \in File : PolAddCheck(x, s, events, file)
         \/ PolRemoveCheck(x, s, events)
    \/ \E s \in Socket : PolAddCheckFails(x, s)
    \/ PolClear(x) \/ PolPoll(x) \/ PolIterChecks(x) \/ PolIterFindings(x)
    \/ PolHasNext(x) \/ PolNextFile(x)
    \/ \E y \in Var : PolCpy(x, y) \/ PolCpyFails(x, y) \/ PolCreate(x, y)
    \/ PolEmpty(x) \/ PolDestr(x)

Spec == Init /\ [][Next]_vars

-----------------------------------------------------------------------------
(* Properties *)

\* Types; the end mark never leaves the allocated memory.
TypeOK ==
  /\ \A x \in Var : data[x] # Undefined =>
       data[x] \in PollRecord /\ data[x].size < data[x].capacity
  /\ failed \subseteq Var /\ dangling \subseteq Var /\ overwritten \subseteq Var
  /\ miscounted \subseteq File \cup {NoFile}
  /\ usage \in [File \cup {NoFile} -> Int]
  /\ \A f \in File \ miscounted : usage[f] >= 0
  /\ result \in [of : {"other", "hasNext", "nextFile"}, is : File \cup {NoFile} \cup BOOLEAN]

\* The index refers to the entries of the table, and to nothing else: every socket
\* has at most one entry, which is found, whatever was moved by removals during an
\* iteration.  The exception: an iteration may end behind the table (one over checks
\* does, as the end mark has no events).  A check that is then removed, before the next
\* iteration is started, is overwritten with what is behind the table, the last entry is
\* lost, and the table does not agree with its index until it is cleared or replaced.
IndexMatches ==
  \A x \in Var : Valid(x) /\ x \notin overwritten =>
    LET d == data[x]
    IN  /\ \A p \in Entries(d) : d.cells[p].fd \in DOMAIN d.index /\ d.index[d.cells[p].fd] = p
        /\ \A s \in DOMAIN d.index : d.index[s] \in Entries(d) /\ d.cells[d.index[s]].fd = s
        /\ \A p \in Entries(d) : d.cells[p].events # {}

\* The usage count of a file is the number of entries, in all variables, that refer to it,
\* except for the files of entries that such a removal has overwritten or lost.
UsageCounted ==
  \A f \in File \ miscounted :
    LET RefersTo(x, p) == data[x] # Undefined /\ p \in Entries(data[x])
                                            /\ data[x].cells[p].file = f
    IN  usage[f] = Cardinality({entry \in Var \X Position : RefersTo(entry[1], entry[2])})

\* iterEvents may stop an iteration over findings: it is never zero too early.
FindingsCounted ==
  \A x \in Var : Defined(x) /\ data[x].mode.over = "findings" =>
    LET d == data[x]
    IN  d.iterEvents >= Cardinality({p \in Entries(d) : p >= d.iterPos
                                       /\ d.cells[p].revents \cap d.mode.mask # {}})

-----------------------------------------------------------------------------
(* The variable Observed implements Polling. *)

View == IF data[Observed] = Undefined THEN Empty ELSE data[Observed]
EntryOf(s) == IF PosOf(View, s) = View.size THEN Unassigned ELSE View.cells[PosOf(View, s)]

Promise == INSTANCE Polling WITH
  checks <- [s \in Socket |-> GetCheck(View, s)],
  findings <- [s \in Socket |-> EntryOf(s).revents \ {"unknown"}],
  files <- [s \in Socket |-> EntryOf(s).file],
  mode <- View.mode,
  todo <- {View.cells[p].fd : p \in {q \in Entries(View) : q >= View.iterPos}},
  lost <- Observed \in overwritten

\* What poll.s7i promises: checks are those added and not removed, and every file is
\* delivered exactly once, while entries move in the table.  Checks may be lost when one
\* is removed after the end of an iteration (Polling!RemoveAfterEnd).
PollingSpec == Promise!Spec
=============================================================================
