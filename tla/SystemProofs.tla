---------------------------- MODULE SystemProofs ----------------------------
(* Proofs about Process and MoveFile, the drivers of the operating system.  *)
(*                                                                          *)
(* Process: the usage counts of process records and files are exact, a      *)
(* process id is waited for only while it is that of the own child and no   *)
(* failing call keeps what it acquired, for all sets of processes, files,   *)
(* process ids and variables.                                               *)
(*                                                                          *)
(* MoveFile, for every tree and every set of system calls that may fail:    *)
(* the whole tree is always somewhere on the disk, and a move tells the     *)
(* program the truth about it.                                              *)
EXTENDS Process, MoveFile, SequenceTheorems, FiniteSetTheorems, TLAPS

---------------------------------------------------------------------------
(* Process: the inductive invariant.                                        *)

Use == Proc \X Stream
ProcessRecord == [usage : Nat, pid : Pid \cup {NIL}, isTerminated : BOOLEAN, exitValue : Exit,
                  file : [Stream -> File \cup {NIL}]]
FileRecord == [usage : Nat, open : BOOLEAN]
Memory == [process : [Proc -> ProcessRecord], file : [File -> FileRecord]]

\* The files of the pipes in the process records.
UsesOf(m) == [use \in Use |-> m.process[use[1]].file[use[2]]]

Count(refs, x) == Cardinality({r \in DOMAIN refs : refs[r] = x})

RecordsCounted(m, variable) == \A p \in Proc : m.process[p].usage = Count(variable, p)

FilesCounted(m, variable, uses) == \A f \in File :
    /\ m.file[f].usage = Count(variable, f) + Count(uses, f)
    /\ m.file[f].open => m.file[f].usage > 0

\* What is known of a process record and of its child.
LivesIn(children, p) == children[p].state \in {"running", "zombie"}

UnusedIsEmpty(record, children) == \A p \in Proc : record[p].usage = 0 =>
    record[p] = NoProc /\ children[p] = NoChild

OwnChild(record, children, foreign) == \A p \in Proc : record[p].usage > 0 =>
    IF record[p].isTerminated
    THEN children[p].state = "reaped" /\ record[p].exitValue = children[p].exit
    ELSE LivesIn(children, p) /\ record[p].pid \in Pid \ foreign

DifferentPids(record, children) == \A p, q \in Proc :
    p # q /\ LivesIn(children, p) /\ LivesIn(children, q) => record[p].pid # record[q].pid

ChildrenOK(record, children, foreign) ==
    /\ UnusedIsEmpty(record, children)
    /\ OwnChild(record, children, foreign)
    /\ DifferentPids(record, children)

Children == [Proc -> [state : {"none", "running", "zombie", "reaped"}, exit : Exit]]

ProcessInv ==
    /\ mem \in Memory /\ child \in Children /\ others \subseteq Pid /\ leaked = {}
    /\ processVariable \in [ProcessVariable -> Proc \cup {NIL}]
    /\ fileVariable \in [FileVariable -> File \cup {NIL}]
    /\ RecordsCounted(mem, processVariable)
    /\ FilesCounted(mem, fileVariable, UsesOf(mem))
    /\ ChildrenOK(mem.process, child, others)

---------------------------------------------------------------------------
(* Counting of references.                                                  *)

LEMMA CountType ==
  ASSUME NEW S, IsFiniteSet(S), NEW T, NEW refs \in [S -> T], NEW x
  PROVE  /\ Count(refs, x) \in Nat
         /\ (\E r \in S : refs[r] = x) <=> Count(refs, x) > 0
  <1> DEFINE R == {r \in S : refs[r] = x}
  <1>1. Count(refs, x) = Cardinality(R)
    BY DEF Count
  <1>2. IsFiniteSet(R) /\ Cardinality(R) \in Nat
    BY FS_Subset, FS_CardinalityType
  <1>3. Cardinality(R) = 0 <=> R = {}
    BY <1>2, FS_EmptySet
  <1> QED BY <1>1, <1>2, <1>3

Redirected(refs, r, t) == [refs EXCEPT ![r] = t]

\* One reference is changed.
CountAfter(refs, r, t, x) ==
    (Count(refs, x) + (IF x = t THEN 1 ELSE 0)) - (IF x = refs[r] THEN 1 ELSE 0)

LEMMA OneCountChanges ==
  ASSUME NEW S, NEW T, NEW refs \in [S -> T], NEW r \in S, NEW t \in T, NEW x,
         IsFiniteSet(S)
  PROVE  /\ Redirected(refs, r, t) \in [S -> T]
         /\ Count(Redirected(refs, r, t), x) = CountAfter(refs, r, t, x)
  <1> DEFINE g == [refs EXCEPT ![r] = t]
             Rest == {s \in S : s # r /\ refs[s] = x}
             R == {s \in S : refs[s] = x}
             G == {s \in S : g[s] = x}
  <1>1. Count(refs, x) = Cardinality(R) /\ Count(g, x) = Cardinality(G)
    BY DEF Count
  <1>2. IsFiniteSet(Rest) /\ Cardinality(Rest) \in Nat /\ r \notin Rest
    BY FS_Subset, FS_CardinalityType
  <1>3. Cardinality(Rest \cup {r}) = Cardinality(Rest) + 1
    BY <1>2, FS_AddElement
  <1>4. R = IF x = refs[r] THEN Rest \cup {r} ELSE Rest
    OBVIOUS
  <1>5. G = IF x = t THEN Rest \cup {r} ELSE Rest
    OBVIOUS
  <1> HIDE DEF Rest, R, G
  <1>6. Cardinality(R) = Cardinality(Rest) + (IF x = refs[r] THEN 1 ELSE 0)
    BY <1>2, <1>3, <1>4
  <1>7. Cardinality(G) = Cardinality(Rest) + (IF x = t THEN 1 ELSE 0)
    BY <1>2, <1>3, <1>5
  <1>8. g \in [S -> T] /\ g = Redirected(refs, r, t)
    BY DEF Redirected
  <1> HIDE DEF g
  <1>9. Count(g, x) = CountAfter(refs, r, t, x)
    BY <1>1, <1>2, <1>6, <1>7 DEF CountAfter
  <1> QED BY <1>8, <1>9

LEMMA CountChanges ==
  \A S, T, refs, r, t, x :
    IsFiniteSet(S) /\ refs \in [S -> T] /\ r \in S /\ t \in T =>
      /\ Redirected(refs, r, t) \in [S -> T]
      /\ Count(Redirected(refs, r, t), x) = CountAfter(refs, r, t, x)
  BY OneCountChanges

LEMMA UseFacts ==
  /\ IsFiniteSet(Use) /\ IsFiniteSet(ProcessVariable) /\ IsFiniteSet(FileVariable)
  /\ NIL \notin Proc /\ NIL \notin File
  /\ Stream = {"stdIn", "stdOut", "stdErr"}
  /\ \A p \in Proc, std \in Stream : <<p, std>> \in Use
  /\ NoProc \in ProcessRecord /\ NoFile \in FileRecord
  <1>1. IsFiniteSet(Stream)
    <2>1. IsFiniteSet({"stdIn"}) /\ IsFiniteSet({"stdOut"}) /\ IsFiniteSet({"stdErr"})
      BY FS_Singleton
    <2>2. Stream = ({"stdIn"} \cup {"stdOut"}) \cup {"stdErr"}
      BY DEF Stream
    <2> QED BY <2>1, <2>2, FS_Union
  <1>2. IsFiniteSet(Use)
    BY <1>1, ProcessAssumption, FS_Product DEF Use
  <1>3. NoProc \in ProcessRecord
    BY DEF NoProc, ProcessRecord, NoFiles, Exit
  <1>4. NoFile \in FileRecord
    BY DEF NoFile, FileRecord
  <1> QED BY <1>2, <1>3, <1>4, ProcessAssumption DEF Use, Stream

LEMMA UsesType ==
  ASSUME NEW m \in Memory
  PROVE  /\ UsesOf(m) \in [Use -> File \cup {NIL}]
         /\ \A p \in Proc, std \in Stream : UsesOf(m)[<<p, std>>] = m.process[p].file[std]
  <1>1. ASSUME NEW use \in Use
        PROVE  m.process[use[1]].file[use[2]] \in File \cup {NIL}
    <2>1. use[1] \in Proc /\ use[2] \in Stream
      BY DEF Use
    <2>2. m.process[use[1]] \in ProcessRecord
      BY <2>1 DEF Memory
    <2> QED BY <2>1, <2>2 DEF ProcessRecord
  <1> QED BY <1>1, UseFacts DEF UsesOf


---------------------------------------------------------------------------
(* The operations on memory.                                                *)

OpenCounted(m) == \A f \in File : m.file[f].open => m.file[f].usage > 0

LEMMA MemoryTypes ==
  ASSUME NEW m \in Memory
  PROVE  /\ m = [process |-> m.process, file |-> m.file]
         /\ m.process \in [Proc -> ProcessRecord] /\ m.file \in [File -> FileRecord]
         /\ \A p \in Proc : /\ m.process[p] \in ProcessRecord /\ m.process[p].usage \in Nat
                            /\ m.process[p].file \in [Stream -> File \cup {NIL}]
         /\ \A f \in File : /\ m.file[f] \in FileRecord /\ m.file[f].usage \in Nat
                            /\ m.file[f].open \in BOOLEAN
  BY DEF Memory, ProcessRecord, FileRecord

LEMMA filDestrOK ==
  ASSUME NEW m \in Memory, OpenCounted(m), NEW f \in File \cup {NIL},
         f # NIL => m.file[f].usage > 0, NEW g, g = filDestr(m, f)
  PROVE  /\ g \in Memory /\ OpenCounted(g) /\ g.process = m.process
         /\ \A x \in File : /\ x # f => g.file[x] = m.file[x]
                            /\ g.file[x].usage = m.file[x].usage - (IF x = f THEN 1 ELSE 0)
  <1>1. CASE f = NIL
    BY <1>1, UseFacts, MemoryTypes DEF filDestr
  <1>2. ASSUME f # NIL
        PROVE  /\ g \in Memory /\ OpenCounted(g) /\ g.process = m.process
               /\ \A x \in File : /\ x # f => g.file[x] = m.file[x]
                                  /\ g.file[x].usage = m.file[x].usage - (IF x = f THEN 1 ELSE 0)
    <2> DEFINE r == IF m.file[f].usage = 1 THEN NoFile
                    ELSE [m.file[f] EXCEPT !.usage = @ - 1]
    <2>1. f \in File /\ m.file[f] \in FileRecord /\ m.file[f].usage \in Nat \ {0}
          /\ m.file \in [File -> FileRecord]
      BY <1>2, MemoryTypes
    <2>2. /\ r \in FileRecord /\ r.usage = m.file[f].usage - 1 /\ (r.open => r.usage > 0)
      <3>1. CASE m.file[f].usage = 1
        BY <2>1, <3>1, UseFacts DEF NoFile
      <3>2. ASSUME m.file[f].usage # 1
            PROVE  /\ r \in FileRecord /\ r.usage = m.file[f].usage - 1
                   /\ (r.open => r.usage > 0)
        <4>1. m.file[f].usage - 1 \in Nat /\ m.file[f].usage - 1 > 0
          BY <2>1, <3>2
        <4>2. r = [m.file[f] EXCEPT !.usage = @ - 1]
          BY <3>2
        <4> QED BY <2>1, <4>1, <4>2 DEF FileRecord
      <3> QED BY <3>1, <3>2
    <2>3. g = [m EXCEPT !.file[f] = r]
      BY <1>2 DEF filDestr
    <2> HIDE DEF r
    <2>4. g.process = m.process /\ g.file = [m.file EXCEPT ![f] = r]
      BY <2>3 DEF Memory
    <2>5. g.file \in [File -> FileRecord] /\ \A x \in File : g.file[x] = IF x = f THEN r ELSE m.file[x]
      BY <2>1, <2>2, <2>4
    <2>6. g \in Memory
      <3>1. g = [process |-> g.process, file |-> g.file]
        BY <2>3 DEF Memory
      <3> QED BY <2>4, <2>5, <3>1, MemoryTypes DEF Memory
    <2>7. OpenCounted(g)
      BY <2>2, <2>5 DEF OpenCounted
    <2>8. \A x \in File : g.file[x].usage = m.file[x].usage - (IF x = f THEN 1 ELSE 0)
      BY <2>1, <2>2, <2>5, MemoryTypes
    <2> QED BY <2>4, <2>5, <2>6, <2>7, <2>8
  <1> QED BY <1>1, <1>2

LEMMA ClosedOK ==
  ASSUME NEW m \in Memory, OpenCounted(m), NEW f \in File \cup {NIL}, NEW g, g = Closed(m, f)
  PROVE  /\ g \in Memory /\ OpenCounted(g) /\ g.process = m.process
         /\ \A x \in File : g.file[x].usage = m.file[x].usage
  <1>1. CASE f = NIL
    BY <1>1 DEF Closed
  <1>2. ASSUME f # NIL
        PROVE  /\ g \in Memory /\ OpenCounted(g) /\ g.process = m.process
               /\ \A x \in File : g.file[x].usage = m.file[x].usage
    <2> DEFINE r == [m.file[f] EXCEPT !.open = FALSE]
    <2>1. f \in File /\ m.file[f] \in FileRecord /\ m.file \in [File -> FileRecord]
      BY <1>2, MemoryTypes
    <2>2. r \in FileRecord /\ r.usage = m.file[f].usage /\ ~r.open
      BY <2>1 DEF FileRecord
    <2>3. g = [m EXCEPT !.file[f] = r]
      BY <1>2 DEF Closed
    <2> HIDE DEF r
    <2>4. g.process = m.process /\ g.file = [m.file EXCEPT ![f] = r]
          /\ g = [process |-> g.process, file |-> g.file]
      BY <2>3 DEF Memory
    <2>5. g.file \in [File -> FileRecord] /\ \A x \in File : g.file[x] = IF x = f THEN r ELSE m.file[x]
      BY <2>1, <2>2, <2>4
    <2>6. g \in Memory
      BY <2>4, <2>5, MemoryTypes DEF Memory
    <2>7. OpenCounted(g)
      BY <2>2, <2>5 DEF OpenCounted
    <2> QED BY <2>2, <2>4, <2>5, <2>6, <2>7
  <1> QED BY <1>1, <1>2

LEMMA CountedOpen ==
  ASSUME NEW m, NEW variable, NEW uses, FilesCounted(m, variable, uses)
  PROVE  OpenCounted(m)
  BY DEF FilesCounted, OpenCounted

\* The file of one use is given up.
LEMMA FreeStreamOK ==
  ASSUME NEW m \in Memory, NEW variable \in [FileVariable -> File \cup {NIL}],
         NEW uses \in [Use -> File \cup {NIL}], FilesCounted(m, variable, uses),
         NEW p \in Proc, NEW std \in Stream, uses[<<p, std>>] = m.process[p].file[std],
         NEW g, g = FreeStream(m, p, std)
  PROVE  /\ g \in Memory /\ g.process = m.process
         /\ FilesCounted(g, variable, Redirected(uses, <<p, std>>, NIL))
  <1> DEFINE f == m.process[p].file[std]
             h == Closed(m, f)
             later == Redirected(uses, <<p, std>>, NIL)
  <1>1. f \in File \cup {NIL} /\ OpenCounted(m)
    BY MemoryTypes, CountedOpen
  <1>2. h = Closed(m, f) /\ g = filDestr(h, f)
    BY DEF FreeStream
  <1>3. <<p, std>> \in Use /\ uses[<<p, std>>] = f /\ NIL \notin File
    BY UseFacts
  <1>4. ASSUME NEW x \in File
        PROVE  /\ Count(variable, x) \in Nat /\ Count(uses, x) \in Nat
               /\ Count(later, x) = Count(uses, x) - (IF x = f THEN 1 ELSE 0)
               /\ x = f => Count(uses, x) > 0
    <2>1. Count(variable, x) \in Nat /\ Count(uses, x) \in Nat
      BY CountType, UseFacts
    <2>2. Count(later, x) = CountAfter(uses, <<p, std>>, NIL, x)
      <3>1. <<p, std>> \in Use /\ uses \in [Use -> File \cup {NIL}]
            /\ NIL \in File \cup {NIL} /\ IsFiniteSet(Use)
        BY <1>3, UseFacts
      <3> DEFINE r == <<p, std>>
                 T == File \cup {NIL}
      <3> HIDE DEF r, T
      <3>2. r \in Use /\ uses \in [Use -> T] /\ NIL \in T /\ IsFiniteSet(Use)
        BY <3>1 DEF r, T
      <3>3. Count(Redirected(uses, r, NIL), x) = CountAfter(uses, r, NIL, x)
        BY <3>2, CountChanges
      <3> QED BY <3>3 DEF r
    <2>3. x = f => Count(uses, x) > 0
      BY <1>3, CountType, UseFacts
    <2> QED BY <1>3, <2>1, <2>2, <2>3 DEF CountAfter
  <1> HIDE DEF f, h, later
  <1>5. /\ h \in Memory /\ OpenCounted(h) /\ h.process = m.process
        /\ \A x \in File : h.file[x].usage = m.file[x].usage
    BY <1>1, <1>2, ClosedOK
  <1>6. f # NIL => h.file[f].usage > 0
    BY <1>1, <1>4, <1>5 DEF FilesCounted
  <1>7. /\ g \in Memory /\ OpenCounted(g) /\ g.process = h.process
        /\ \A x \in File : g.file[x].usage = h.file[x].usage - (IF x = f THEN 1 ELSE 0)
    BY <1>1, <1>2, <1>5, <1>6, filDestrOK
  <1>8. FilesCounted(g, variable, later)
    <2>1. ASSUME NEW x \in File
          PROVE  g.file[x].usage = Count(variable, x) + Count(later, x)
      <3>1. m.file[x].usage = Count(variable, x) + Count(uses, x)
        BY DEF FilesCounted
      <3> QED BY <1>4, <1>5, <1>7, <3>1
    <2> QED BY <1>7, <2>1 DEF FilesCounted, OpenCounted
  <1> QED BY <1>5, <1>7, <1>8 DEF later

LEMMA UsesAre ==
  ASSUME NEW m \in Memory, NEW uses \in [Use -> File \cup {NIL}],
         \A p \in Proc, std \in Stream : uses[<<p, std>>] = m.process[p].file[std]
  PROVE  uses = UsesOf(m)
  <1>1. ASSUME NEW use \in Use
        PROVE  uses[use] = UsesOf(m)[use]
    <2>1. PICK p \in Proc, std \in Stream : use = <<p, std>>
      BY DEF Use
    <2> QED BY <2>1, UsesType
  <1>2. UsesOf(m) \in [Use -> File \cup {NIL}]
    BY UsesType
  <1> QED BY <1>1, <1>2

LEMMA RedirectedIs ==
  ASSUME NEW S, NEW T, NEW refs \in [S -> T], NEW r \in S, NEW t \in T
  PROVE  /\ Redirected(refs, r, t) \in [S -> T]
         /\ \A s \in S : Redirected(refs, r, t)[s] = IF s = r THEN t ELSE refs[s]
  BY DEF Redirected

UseGivenUp(uses, p, std) == Redirected(uses, <<p, std>>, NIL)

LEMMA UseGivenUpIs ==
  ASSUME NEW uses \in [Use -> File \cup {NIL}], NEW p \in Proc, NEW std \in Stream
  PROVE  /\ UseGivenUp(uses, p, std) \in [Use -> File \cup {NIL}]
         /\ \A q \in Proc, other \in Stream : UseGivenUp(uses, p, std)[<<q, other>>] =
              IF q = p /\ other = std THEN NIL ELSE uses[<<q, other>>]
  BY UseFacts DEF UseGivenUp, Redirected

WithProcess(m, p, record) == [m EXCEPT !.process[p] = record]

LEMMA WithProcessIs ==
  ASSUME NEW m \in Memory, NEW p \in Proc, NEW record \in ProcessRecord
  PROVE  /\ WithProcess(m, p, record) \in Memory
         /\ WithProcess(m, p, record).file = m.file
         /\ WithProcess(m, p, record).process[p] = record
         /\ \A q \in Proc : q # p => WithProcess(m, p, record).process[q] = m.process[q]
  BY DEF WithProcess, Memory

\* A process record is freed with the uses that it has.
LEMMA pcsFreeOK ==
  ASSUME NEW m \in Memory, NEW variable \in [FileVariable -> File \cup {NIL}],
         FilesCounted(m, variable, UsesOf(m)), NEW p \in Proc, NEW g, g = pcsFree(m, p)
  PROVE  /\ g \in Memory /\ g.process[p] = NoProc
         /\ \A q \in Proc : q # p => g.process[q] = m.process[q]
         /\ FilesCounted(g, variable, UsesOf(g))
  <1> DEFINE u == UsesOf(m)
             m1 == FreeStream(m, p, "stdIn")
             u1 == UseGivenUp(u, p, "stdIn")
             m2 == FreeStream(m1, p, "stdOut")
             u2 == UseGivenUp(u1, p, "stdOut")
             m3 == FreeStream(m2, p, "stdErr")
             u3 == UseGivenUp(u2, p, "stdErr")
  <1>1. g = WithProcess(m3, p, NoProc)
    BY DEF pcsFree, WithProcess
  <1>2. /\ u \in [Use -> File \cup {NIL}]
        /\ \A q \in Proc, std \in Stream : u[<<q, std>>] = m.process[q].file[std]
    BY UsesType
  <1>3. /\ u1 = UseGivenUp(u, p, "stdIn") /\ u2 = UseGivenUp(u1, p, "stdOut")
        /\ u3 = UseGivenUp(u2, p, "stdErr") /\ FilesCounted(m, variable, u)
        /\ m1 = FreeStream(m, p, "stdIn") /\ m2 = FreeStream(m1, p, "stdOut")
        /\ m3 = FreeStream(m2, p, "stdErr")
    OBVIOUS
  <1> HIDE DEF u, m1, u1, m2, u2, m3, u3
  <1>4. "stdIn" \in Stream /\ "stdOut" \in Stream /\ "stdErr" \in Stream
    BY DEF Stream
  <1>5. m1 \in Memory /\ m1.process = m.process /\ FilesCounted(m1, variable, u1)
    BY <1>2, <1>3, <1>4, FreeStreamOK DEF UseGivenUp
  <1>6. /\ u1 \in [Use -> File \cup {NIL}] /\ u1[<<p, "stdOut">>] = m1.process[p].file["stdOut"]
    BY <1>2, <1>3, <1>4, <1>5, UseGivenUpIs
  <1>7. m2 \in Memory /\ m2.process = m.process /\ FilesCounted(m2, variable, u2)
    BY <1>3, <1>4, <1>5, <1>6, FreeStreamOK DEF UseGivenUp
  <1>8. /\ u2 \in [Use -> File \cup {NIL}] /\ u2[<<p, "stdErr">>] = m2.process[p].file["stdErr"]
    BY <1>2, <1>3, <1>4, <1>6, <1>7, UseGivenUpIs
  <1>9. m3 \in Memory /\ m3.process = m.process /\ FilesCounted(m3, variable, u3)
    BY <1>3, <1>4, <1>7, <1>8, FreeStreamOK DEF UseGivenUp
  <1>10. /\ g \in Memory /\ g.file = m3.file /\ g.process[p] = NoProc
         /\ \A q \in Proc : q # p => g.process[q] = m.process[q]
    BY <1>1, <1>9, WithProcessIs, UseFacts
  <1>11. u3 = UsesOf(g)
    <2>1. u3 \in [Use -> File \cup {NIL}]
      BY <1>3, <1>4, <1>8, UseGivenUpIs
    <2>2. ASSUME NEW q \in Proc, NEW std \in Stream
          PROVE  u3[<<q, std>>] = g.process[q].file[std]
      <3>1. u3[<<q, std>>] = IF q = p /\ std = "stdErr" THEN NIL ELSE u2[<<q, std>>]
        BY <1>3, <1>4, <1>8, UseGivenUpIs
      <3>2. u2[<<q, std>>] = IF q = p /\ std = "stdOut" THEN NIL ELSE u1[<<q, std>>]
        BY <1>3, <1>4, <1>6, UseGivenUpIs
      <3>3. u1[<<q, std>>] = IF q = p /\ std = "stdIn" THEN NIL ELSE m.process[q].file[std]
        BY <1>2, <1>3, <1>4, UseGivenUpIs
      <3>4. CASE q = p
        BY <3>1, <3>2, <3>3, <3>4, <1>10 DEF NoProc, NoFiles, Stream
      <3>5. CASE q # p
        BY <3>1, <3>2, <3>3, <3>5, <1>10
      <3> QED BY <3>4, <3>5
    <2> QED BY <1>10, <2>1, <2>2, UsesAre
  <1>12. FilesCounted(g, variable, u3)
    BY <1>9, <1>10 DEF FilesCounted
  <1> QED BY <1>10, <1>11, <1>12

SameChild(r, s) == /\ r.pid = s.pid /\ r.isTerminated = s.isTerminated
                   /\ r.exitValue = s.exitValue /\ r.file = s.file

LEMMA WithUsageOK ==
  ASSUME NEW m \in Memory, NEW variable, FilesCounted(m, variable, UsesOf(m)),
         NEW p \in Proc, NEW n \in Nat, NEW g, g = [m EXCEPT !.process[p].usage = n]
  PROVE  /\ g \in Memory /\ g.process[p].usage = n
         /\ SameChild(g.process[p], m.process[p])
         /\ \A q \in Proc : q # p => g.process[q] = m.process[q]
         /\ g.file = m.file /\ UsesOf(g) = UsesOf(m) /\ FilesCounted(g, variable, UsesOf(g))
  <1> DEFINE r == [m.process[p] EXCEPT !.usage = n]
  <1>1. r \in ProcessRecord /\ r.usage = n /\ SameChild(r, m.process[p])
    <2>1. m.process[p] \in ProcessRecord
      BY MemoryTypes
    <2> QED BY <2>1 DEF ProcessRecord, SameChild
  <1>2. g = WithProcess(m, p, r)
    BY DEF WithProcess
  <1> HIDE DEF r
  <1>3. /\ g \in Memory /\ g.file = m.file /\ g.process[p] = r
        /\ \A q \in Proc : q # p => g.process[q] = m.process[q]
    <2>1. r \in ProcessRecord
      BY <1>1
    <2>2. /\ WithProcess(m, p, r) \in Memory /\ WithProcess(m, p, r).file = m.file
          /\ WithProcess(m, p, r).process[p] = r
          /\ \A q \in Proc : q # p => WithProcess(m, p, r).process[q] = m.process[q]
      BY <2>1, WithProcessIs
    <2> QED BY <1>2, <2>2
  <1>4. UsesOf(m) = UsesOf(g)
    <2>1. ASSUME NEW q \in Proc, NEW std \in Stream
          PROVE  UsesOf(m)[<<q, std>>] = g.process[q].file[std]
      BY <1>1, <1>3, UsesType DEF SameChild
    <2> QED BY <1>3, <2>1, UsesType, UsesAre
  <1>5. FilesCounted(g, variable, UsesOf(g))
    BY <1>3, <1>4 DEF FilesCounted
  <1> QED BY <1>1, <1>3, <1>4, <1>5

LEMMA pcsCreateOK ==
  ASSUME NEW m \in Memory, NEW variable, FilesCounted(m, variable, UsesOf(m)),
         NEW p \in Proc \cup {NIL}, NEW g, g = pcsCreate(m, p)
  PROVE  /\ g \in Memory /\ FilesCounted(g, variable, UsesOf(g))
         /\ \A q \in Proc :
              /\ g.process[q].usage = m.process[q].usage + (IF q = p THEN 1 ELSE 0)
              /\ SameChild(g.process[q], m.process[q])
              /\ q # p => g.process[q] = m.process[q]
  <1>1. CASE p = NIL
    BY <1>1, UseFacts, MemoryTypes DEF pcsCreate, SameChild
  <1>2. ASSUME p \in Proc
        PROVE  /\ g \in Memory /\ FilesCounted(g, variable, UsesOf(g))
               /\ \A q \in Proc :
                    /\ g.process[q].usage = m.process[q].usage + (IF q = p THEN 1 ELSE 0)
                    /\ SameChild(g.process[q], m.process[q])
                    /\ q # p => g.process[q] = m.process[q]
    <2> DEFINE n == m.process[p].usage + 1
    <2>1. m.process[p].usage \in Nat /\ n \in Nat
      BY <1>2, MemoryTypes
    <2>2. g = [m EXCEPT !.process[p].usage = n]
      BY <1>2, UseFacts DEF pcsCreate
    <2>3. n = m.process[p].usage + 1
      OBVIOUS
    <2> HIDE DEF n
    <2>4. /\ g \in Memory /\ g.process[p].usage = n
          /\ SameChild(g.process[p], m.process[p])
          /\ \A q \in Proc : q # p => g.process[q] = m.process[q]
          /\ FilesCounted(g, variable, UsesOf(g))
      BY <1>2, <2>1, <2>2, WithUsageOK
    <2>5. ASSUME NEW q \in Proc
          PROVE  /\ g.process[q].usage = m.process[q].usage + (IF q = p THEN 1 ELSE 0)
                 /\ SameChild(g.process[q], m.process[q])
      <3>1. CASE q = p
        BY <2>3, <2>4, <3>1
      <3>2. CASE q # p
        BY <2>4, <3>2, MemoryTypes DEF SameChild
      <3> QED BY <3>1, <3>2
    <2> QED BY <2>4, <2>5
  <1> QED BY <1>1, <1>2

LEMMA pcsDestrOK ==
  ASSUME NEW m \in Memory, NEW variable \in [FileVariable -> File \cup {NIL}],
         FilesCounted(m, variable, UsesOf(m)), NEW p \in Proc \cup {NIL},
         p # NIL => m.process[p].usage > 0, NEW g, g = pcsDestr(m, p)
  PROVE  /\ g \in Memory /\ FilesCounted(g, variable, UsesOf(g))
         /\ \A q \in Proc :
              /\ g.process[q].usage = m.process[q].usage - (IF q = p THEN 1 ELSE 0)
              /\ q # p => g.process[q] = m.process[q]
              /\ q = p => \/ g.process[q] = NoProc
                          \/ g.process[q].usage > 0 /\ SameChild(g.process[q], m.process[q])
  <1>1. CASE p = NIL
    BY <1>1, UseFacts, MemoryTypes DEF pcsDestr
  <1>2. CASE p # NIL /\ m.process[p].usage = 1
    <2>1. p \in Proc /\ g = pcsFree(m, p)
      BY <1>2 DEF pcsDestr
    <2>2. /\ g \in Memory /\ g.process[p] = NoProc
          /\ \A q \in Proc : q # p => g.process[q] = m.process[q]
          /\ FilesCounted(g, variable, UsesOf(g))
      BY <2>1, pcsFreeOK
    <2>3. ASSUME NEW q \in Proc
          PROVE  g.process[q].usage = m.process[q].usage - (IF q = p THEN 1 ELSE 0)
      <3>1. CASE q = p
        BY <1>2, <2>2, <3>1 DEF NoProc
      <3>2. CASE q # p
        BY <2>2, <3>2, MemoryTypes
      <3> QED BY <3>1, <3>2
    <2> QED BY <2>2, <2>3
  <1>3. ASSUME p # NIL, m.process[p].usage # 1
        PROVE  /\ g \in Memory /\ FilesCounted(g, variable, UsesOf(g))
               /\ \A q \in Proc :
                    /\ g.process[q].usage = m.process[q].usage - (IF q = p THEN 1 ELSE 0)
                    /\ q # p => g.process[q] = m.process[q]
                    /\ q = p => g.process[q].usage > 0 /\ SameChild(g.process[q], m.process[q])
    <2> DEFINE n == m.process[p].usage - 1
    <2>1. p \in Proc /\ m.process[p].usage \in Nat /\ m.process[p].usage > 0
      BY <1>3, MemoryTypes
    <2>2. n \in Nat /\ n > 0 /\ n = m.process[p].usage - 1
      BY <1>3, <2>1
    <2>3. g = [m EXCEPT !.process[p].usage = n]
      BY <1>3 DEF pcsDestr
    <2> HIDE DEF n
    <2>4. /\ g \in Memory /\ g.process[p].usage = n
          /\ SameChild(g.process[p], m.process[p])
          /\ \A q \in Proc : q # p => g.process[q] = m.process[q]
          /\ FilesCounted(g, variable, UsesOf(g))
      BY <2>1, <2>2, <2>3, WithUsageOK
    <2>5. ASSUME NEW q \in Proc
          PROVE  g.process[q].usage = m.process[q].usage - (IF q = p THEN 1 ELSE 0)
      <3>1. CASE q = p
        BY <2>2, <2>4, <3>1
      <3>2. CASE q # p
        BY <2>4, <3>2, MemoryTypes
      <3> QED BY <3>1, <3>2
    <2> QED BY <2>2, <2>4, <2>5
  <1> QED BY <1>1, <1>2, <1>3

---------------------------------------------------------------------------
(* Variables of processes.                                                  *)

LEMMA InvFacts ==
  ASSUME ProcessInv
  PROVE  /\ mem \in Memory /\ child \in Children
         /\ \A p \in Proc : /\ mem.process[p] \in ProcessRecord /\ child[p].exit \in Exit
                            /\ mem.process[p].usage \in Nat
         /\ \A v \in ProcessVariable : /\ processVariable[v] \in Proc \cup {NIL}
                                       /\ processVariable[v] # NIL =>
                                            /\ processVariable[v] \in Proc
                                            /\ mem.process[processVariable[v]].usage > 0
         /\ \A w \in FileVariable : /\ fileVariable[w] \in File \cup {NIL}
                                    /\ fileVariable[w] # NIL =>
                                         /\ fileVariable[w] \in File
                                         /\ mem.file[fileVariable[w]].usage > 0
  <1>1. mem \in Memory /\ child \in Children
    BY DEF ProcessInv
  <1>2. \A p \in Proc : /\ mem.process[p] \in ProcessRecord /\ child[p].exit \in Exit
                        /\ mem.process[p].usage \in Nat
    BY <1>1, MemoryTypes DEF Children
  <1>3. ASSUME NEW v \in ProcessVariable
        PROVE  /\ processVariable[v] \in Proc \cup {NIL}
               /\ processVariable[v] # NIL => mem.process[processVariable[v]].usage > 0
    <2>1. processVariable \in [ProcessVariable -> Proc \cup {NIL}]
      BY DEF ProcessInv
    <2>2. ASSUME processVariable[v] # NIL
          PROVE  mem.process[processVariable[v]].usage > 0
      <3>1. processVariable[v] \in Proc
        BY <2>1, <2>2
      <3>2. Count(processVariable, processVariable[v]) > 0
        BY <2>1, CountType, UseFacts
      <3> QED BY <3>1, <3>2 DEF ProcessInv, RecordsCounted
    <2> QED BY <2>1, <2>2
  <1>4. ASSUME NEW w \in FileVariable
        PROVE  /\ fileVariable[w] \in File \cup {NIL}
               /\ fileVariable[w] # NIL => mem.file[fileVariable[w]].usage > 0
    <2>1. fileVariable \in [FileVariable -> File \cup {NIL}]
      BY DEF ProcessInv
    <2>2. ASSUME fileVariable[w] # NIL
          PROVE  mem.file[fileVariable[w]].usage > 0
      <3>1. fileVariable[w] \in File
        BY <2>1, <2>2
      <3>2. Count(fileVariable, fileVariable[w]) > 0
            /\ Count(fileVariable, fileVariable[w]) \in Nat
        BY <2>1, CountType, UseFacts
      <3>3. Count(UsesOf(mem), fileVariable[w]) \in Nat
        BY <1>1, UsesType, CountType, UseFacts
      <3>4. mem.file[fileVariable[w]].usage =
              Count(fileVariable, fileVariable[w]) + Count(UsesOf(mem), fileVariable[w])
        BY <3>1 DEF ProcessInv, FilesCounted
      <3> QED BY <3>2, <3>3, <3>4
    <2> QED BY <2>1, <2>2
  <1> QED BY <1>1, <1>2, <1>3, <1>4

UsagesAfter(g, m, variable, v, b) == \A q \in Proc : g.process[q].usage =
    (m.process[q].usage + (IF q = b THEN 1 ELSE 0)) - (IF q = variable[v] THEN 1 ELSE 0)

LEMMA RecordsRedirected ==
  ASSUME NEW variable \in [ProcessVariable -> Proc \cup {NIL}], NEW v \in ProcessVariable,
         NEW b \in Proc \cup {NIL}, NEW m, RecordsCounted(m, variable), NEW g,
         UsagesAfter(g, m, variable, v, b)
  PROVE  /\ RecordsCounted(g, Redirected(variable, v, b))
         /\ Redirected(variable, v, b) \in [ProcessVariable -> Proc \cup {NIL}]
  <1>1. ASSUME NEW q \in Proc
        PROVE  g.process[q].usage = Count(Redirected(variable, v, b), q)
    <2>1. Count(Redirected(variable, v, b), q) = CountAfter(variable, v, b, q)
      <3> DEFINE T == Proc \cup {NIL}
      <3>1. variable \in [ProcessVariable -> T] /\ b \in T /\ IsFiniteSet(ProcessVariable)
        BY UseFacts
      <3> HIDE DEF T
      <3> QED BY <3>1, CountChanges
    <2> QED BY <2>1 DEF CountAfter, RecordsCounted, UsagesAfter
  <1> QED BY <1>1, RedirectedIs DEF RecordsCounted

KeptOrFreed(m, old) == \A p \in Proc :
    \/ m.process[p] = NoProc
    \/ /\ m.process[p].usage > 0 /\ old.process[p].usage > 0
       /\ SameChild(m.process[p], old.process[p])

\* A child that lives has a process id that is only its own.
LEMMA LivingChild ==
  ASSUME ProcessInv, NEW p \in Proc, Lives(p)
  PROVE  /\ mem.process[p].usage > 0 /\ ~mem.process[p].isTerminated
         /\ mem.process[p].pid \in Pid \ others
         /\ \A q \in Proc : q # p /\ Lives(q) => mem.process[q].pid # mem.process[p].pid
  <1>1. mem.process[p].usage \in Nat
    BY InvFacts
  <1>2. mem.process[p].usage # 0
    BY DEF ProcessInv, ChildrenOK, UnusedIsEmpty, Lives, NoChild
  <1>3. IF mem.process[p].isTerminated THEN child[p].state = "reaped"
        ELSE mem.process[p].pid \in Pid \ others
    BY <1>1, <1>2 DEF ProcessInv, ChildrenOK, OwnChild
  <1>4. \A q \in Proc : q # p /\ Lives(q) => mem.process[q].pid # mem.process[p].pid
    BY DEF ProcessInv, ChildrenOK, DifferentPids, Lives, LivesIn
  <1> QED BY <1>1, <1>2, <1>3, <1>4 DEF Lives

LEMMA ReleaseOK ==
  ASSUME ProcessInv, NEW m \in Memory, KeptOrFreed(m, mem), Release(m)
  PROVE  /\ mem' = m /\ child' \in Children /\ others' \subseteq Pid
         /\ ChildrenOK(mem'.process, child', others')
  <1>1. /\ mem' = m /\ others' = others \cup {mem.process[p].pid : p \in Abandoned(m)}
        /\ child' = [p \in Proc |-> IF m.process[p].usage = 0 THEN NoChild ELSE child[p]]
    BY DEF Release
  <1>2. NoChild \in [state : {"none", "running", "zombie", "reaped"}, exit : Exit]
    BY DEF NoChild, Exit
  <1>3. child' \in Children
    BY <1>1, <1>2, InvFacts DEF Children
  <1>4. others' \subseteq Pid
    <2>1. \A p \in Abandoned(m) : p \in Proc /\ Lives(p)
      BY DEF Abandoned
    <2>2. \A p \in Abandoned(m) : mem.process[p].pid \in Pid
      BY <2>1, LivingChild
    <2> QED BY <1>1, <2>2 DEF ProcessInv
  <1>5. ASSUME NEW p \in Proc, m.process[p].usage > 0
        PROVE  /\ child'[p] = child[p] /\ mem.process[p].usage > 0
               /\ SameChild(m.process[p], mem.process[p])
    <2>1. m.process[p] # NoProc
      BY <1>5 DEF NoProc
    <2> QED BY <1>1, <1>5, <2>1 DEF KeptOrFreed
  <1>6. ASSUME NEW p \in Proc, LivesIn(child', p)
        PROVE  m.process[p].usage > 0 /\ Lives(p)
    <2>1. m.process[p].usage # 0
      BY <1>1, <1>6 DEF LivesIn, NoChild
    <2>2. m.process[p].usage \in Nat
      BY MemoryTypes
    <2>3. child'[p] = child[p]
      BY <1>5, <2>1, <2>2
    <2> QED BY <1>6, <2>1, <2>2, <2>3 DEF LivesIn, Lives
  <1>7. UnusedIsEmpty(m.process, child')
    <2>1. ASSUME NEW p \in Proc, m.process[p].usage = 0
          PROVE  m.process[p] = NoProc /\ child'[p] = NoChild
      BY <1>1, <2>1 DEF KeptOrFreed
    <2> QED BY <2>1 DEF UnusedIsEmpty
  <1>8. OwnChild(m.process, child', others')
    <2>1. ASSUME NEW p \in Proc, m.process[p].usage > 0
          PROVE  IF m.process[p].isTerminated
                 THEN child'[p].state = "reaped" /\ m.process[p].exitValue = child'[p].exit
                 ELSE LivesIn(child', p) /\ m.process[p].pid \in Pid \ others'
      <3>1. /\ child'[p] = child[p] /\ mem.process[p].usage > 0
            /\ SameChild(m.process[p], mem.process[p])
        BY <1>5, <2>1
      <3>2. IF mem.process[p].isTerminated
            THEN child[p].state = "reaped" /\ mem.process[p].exitValue = child[p].exit
            ELSE LivesIn(child, p) /\ mem.process[p].pid \in Pid \ others
        BY <3>1 DEF ProcessInv, ChildrenOK, OwnChild
      <3>3. ASSUME ~mem.process[p].isTerminated
            PROVE  mem.process[p].pid \notin others'
        <4>1. Lives(p) /\ mem.process[p].pid \notin others
          BY <3>2, <3>3 DEF Lives, LivesIn
        <4>2. ASSUME NEW q \in Abandoned(m)
              PROVE  mem.process[q].pid # mem.process[p].pid
          <5>1. q \in Proc /\ Lives(q) /\ q # p
            BY <2>1, <4>2 DEF Abandoned
          <5> QED BY <4>1, <5>1, LivingChild
        <4> QED BY <1>1, <4>1, <4>2
      <3> QED BY <3>1, <3>2, <3>3 DEF SameChild, LivesIn
    <2> QED BY <2>1 DEF OwnChild
  <1>9. DifferentPids(m.process, child')
    <2>1. ASSUME NEW p \in Proc, NEW q \in Proc, p # q, LivesIn(child', p), LivesIn(child', q)
          PROVE  m.process[p].pid # m.process[q].pid
      <3>1. Lives(p) /\ Lives(q) /\ SameChild(m.process[p], mem.process[p])
            /\ SameChild(m.process[q], mem.process[q])
        BY <1>5, <1>6, <2>1
      <3>2. mem.process[p].pid # mem.process[q].pid
        BY <2>1, <3>1, LivingChild
      <3> QED BY <3>1, <3>2 DEF SameChild
    <2> QED BY <2>1 DEF DifferentPids
  <1> QED BY <1>1, <1>3, <1>4, <1>7, <1>8, <1>9 DEF ChildrenOK

\* A variable gets the process b, and the process that it had is released.
LEMMA AssignmentStep ==
  ASSUME ProcessInv, NEW v \in ProcessVariable, NEW b \in Proc \cup {NIL},
         b # NIL => mem.process[b].usage > 0,
         Release(pcsDestr(pcsCreate(mem, b), processVariable[v])),
         processVariable' = Redirected(processVariable, v, b),
         UNCHANGED <<fileVariable, leaked>>
  PROVE  ProcessInv'
  <1> DEFINE a == processVariable[v]
             m1 == pcsCreate(mem, b)
             m == pcsDestr(m1, a)
  <1>1. /\ mem \in Memory /\ FilesCounted(mem, fileVariable, UsesOf(mem)) /\ leaked = {}
        /\ fileVariable \in [FileVariable -> File \cup {NIL}]
        /\ processVariable \in [ProcessVariable -> Proc \cup {NIL}]
        /\ RecordsCounted(mem, processVariable)
    BY DEF ProcessInv
  <1>2. /\ a \in Proc \cup {NIL} /\ a = processVariable[v]
        /\ (a # NIL => a \in Proc /\ mem.process[a].usage > 0)
    BY InvFacts
  <1>3. m1 = pcsCreate(mem, b) /\ m = pcsDestr(m1, a) /\ Release(m)
    OBVIOUS
  <1> HIDE DEF a, m1, m
  <1>4. /\ m1 \in Memory /\ FilesCounted(m1, fileVariable, UsesOf(m1))
        /\ \A q \in Proc :
             /\ m1.process[q].usage = mem.process[q].usage + (IF q = b THEN 1 ELSE 0)
             /\ SameChild(m1.process[q], mem.process[q])
             /\ q # b => m1.process[q] = mem.process[q]
    BY <1>1, <1>3, pcsCreateOK
  <1>5. a # NIL => m1.process[a].usage > 0
    BY <1>2, <1>4, InvFacts
  <1>6. /\ m \in Memory /\ FilesCounted(m, fileVariable, UsesOf(m))
        /\ \A q \in Proc :
             /\ m.process[q].usage = m1.process[q].usage - (IF q = a THEN 1 ELSE 0)
             /\ q # a => m.process[q] = m1.process[q]
             /\ q = a => \/ m.process[q] = NoProc
                         \/ m.process[q].usage > 0 /\ SameChild(m.process[q], m1.process[q])
    BY <1>1, <1>2, <1>3, <1>4, <1>5, pcsDestrOK
  <1>7. /\ RecordsCounted(m, processVariable')
        /\ processVariable' \in [ProcessVariable -> Proc \cup {NIL}]
    <2>1. ASSUME NEW q \in Proc
          PROVE  m.process[q].usage = (mem.process[q].usage + (IF q = b THEN 1 ELSE 0))
                                        - (IF q = processVariable[v] THEN 1 ELSE 0)
      BY <1>2, <1>4, <1>6
    <2>2. UsagesAfter(m, mem, processVariable, v, b)
      BY <2>1 DEF UsagesAfter
    <2> QED BY <1>1, <2>2, RecordsRedirected
  <1>8. KeptOrFreed(m, mem)
    <2>1. ASSUME NEW q \in Proc
          PROVE  \/ m.process[q] = NoProc
                 \/ /\ m.process[q].usage > 0 /\ mem.process[q].usage > 0
                    /\ SameChild(m.process[q], mem.process[q])
      <3>1. mem.process[q].usage \in Nat /\ m.process[q].usage \in Nat
        BY <1>6, InvFacts, MemoryTypes
      <3>2. CASE mem.process[q].usage = 0
        <4>1. q # a /\ q # b
          BY <1>2, <3>2, UseFacts
        <4>2. mem.process[q] = NoProc
          BY <3>2 DEF ProcessInv, ChildrenOK, UnusedIsEmpty
        <4> QED BY <1>4, <1>6, <4>1, <4>2
      <3>3. CASE mem.process[q].usage # 0 /\ q = a
        BY <1>4, <1>6, <3>1, <3>3 DEF SameChild
      <3>4. CASE mem.process[q].usage # 0 /\ q # a
        BY <1>4, <1>6, <3>1, <3>4 DEF SameChild
      <3> QED BY <3>2, <3>3, <3>4
    <2> QED BY <2>1 DEF KeptOrFreed
  <1>9. /\ mem' = m /\ child' \in Children /\ others' \subseteq Pid
        /\ ChildrenOK(mem'.process, child', others')
    BY <1>3, <1>6, <1>8, ReleaseOK
  <1> QED BY <1>1, <1>6, <1>7, <1>9 DEF ProcessInv

LEMMA CpyStep ==
  ASSUME ProcessInv, NEW v \in ProcessVariable, NEW w \in ProcessVariable, pcsCpy(v, w)
  PROVE  ProcessInv'
  <1> DEFINE b == processVariable[w]
  <1>1. b \in Proc \cup {NIL} /\ (b # NIL => mem.process[b].usage > 0)
    BY InvFacts
  <1>2. /\ Release(pcsDestr(pcsCreate(mem, b), processVariable[v]))
        /\ processVariable' = Redirected(processVariable, v, b)
        /\ UNCHANGED <<fileVariable, leaked>>
    BY DEF pcsCpy, Redirected
  <1> HIDE DEF b
  <1> QED BY <1>1, <1>2, AssignmentStep

LEMMA ProcessVariableEndsStep ==
  ASSUME ProcessInv, NEW v \in ProcessVariable, ProcessVariableEnds(v)
  PROVE  ProcessInv'
  <1>1. /\ Release(pcsDestr(pcsCreate(mem, NIL), processVariable[v]))
        /\ processVariable' = Redirected(processVariable, v, NIL)
        /\ UNCHANGED <<fileVariable, leaked>>
    BY DEF ProcessVariableEnds, Redirected, pcsCreate
  <1> QED BY <1>1, AssignmentStep

---------------------------------------------------------------------------
(* Variables of files.                                                      *)

\* A new process id is none of a child that lives.
LEMMA FreePidOK ==
  ASSUME ProcessInv, NEW pid \in FreePid
  PROVE  /\ pid \in Pid /\ pid \notin others
         /\ \A p \in Proc : Lives(p) => mem.process[p].pid # pid
  BY DEF FreePid, PidInUse

LEMMA OthersGrow ==
  ASSUME ProcessInv, NEW pid \in FreePid, others' = others \cup {pid}
  PROVE  others' \subseteq Pid /\ ChildrenOK(mem.process, child, others')
  <1>1. OwnChild(mem.process, child, others')
    <2>1. ASSUME NEW p \in Proc, mem.process[p].usage > 0
          PROVE  IF mem.process[p].isTerminated
                 THEN child[p].state = "reaped" /\ mem.process[p].exitValue = child[p].exit
                 ELSE LivesIn(child, p) /\ mem.process[p].pid \in Pid \ others'
      <3>1. IF mem.process[p].isTerminated
            THEN child[p].state = "reaped" /\ mem.process[p].exitValue = child[p].exit
            ELSE LivesIn(child, p) /\ mem.process[p].pid \in Pid \ others
        BY <2>1 DEF ProcessInv, ChildrenOK, OwnChild
      <3> QED BY <3>1, FreePidOK DEF LivesIn, Lives
    <2> QED BY <2>1 DEF OwnChild
  <1> QED BY <1>1, FreePidOK DEF ProcessInv, ChildrenOK

LEMMA FileStep ==
  ASSUME ProcessInv, mem' \in Memory, mem'.process = mem.process,
         FilesCounted(mem', fileVariable', UsesOf(mem)),
         fileVariable' \in [FileVariable -> File \cup {NIL}],
         others' = others \/ \E pid \in FreePid : others' = others \cup {pid},
         UNCHANGED <<child, processVariable, leaked>>
  PROVE  ProcessInv'
  <1>1. others' \subseteq Pid /\ ChildrenOK(mem.process, child, others')
    <2>1. CASE others' = others
      BY <2>1 DEF ProcessInv
    <2>2. CASE \E pid \in FreePid : others' = others \cup {pid}
      BY <2>2, OthersGrow
    <2> QED BY <2>1, <2>2
  <1>2. UsesOf(mem') = UsesOf(mem)
    BY DEF UsesOf
  <1>3. RecordsCounted(mem', processVariable')
    BY DEF ProcessInv, RecordsCounted
  <1> QED BY <1>1, <1>2, <1>3 DEF ProcessInv

\* The files are counted but for one usage more of f.
UsageAhead(m, variable, uses, f) == \A x \in File :
    m.file[x].usage = (Count(variable, x) + (IF x = f THEN 1 ELSE 0)) + Count(uses, x)

\* A file variable gets a file with a usage more.
LEMMA FileAssigned ==
  ASSUME NEW m \in Memory, NEW variable \in [FileVariable -> File \cup {NIL}],
         NEW uses \in [Use -> File \cup {NIL}], NEW w \in FileVariable,
         NEW f \in File \cup {NIL}, OpenCounted(m), UsageAhead(m, variable, uses, f),
         NEW g, g = filDestr(m, variable[w])
  PROVE  /\ g \in Memory /\ g.process = m.process
         /\ Redirected(variable, w, f) \in [FileVariable -> File \cup {NIL}]
         /\ FilesCounted(g, Redirected(variable, w, f), uses)
         /\ \A x \in File : x # variable[w] => g.file[x] = m.file[x]
  <1> DEFINE old == variable[w]
  <1>1. old \in File \cup {NIL} /\ g = filDestr(m, old) /\ old = variable[w]
    OBVIOUS
  <1> HIDE DEF old
  <1>2. \A x \in File : Count(variable, x) \in Nat /\ Count(uses, x) \in Nat
    BY CountType, UseFacts
  <1>3. ASSUME old # NIL
        PROVE  m.file[old].usage > 0
    <2>1. old \in File
      BY <1>1, <1>3
    <2>2. Count(variable, old) > 0
      BY <1>1, CountType, UseFacts
    <2>3. Count(variable, old) \in Nat /\ Count(uses, old) \in Nat
      BY <1>2, <2>1
    <2>4. m.file[old].usage =
            (Count(variable, old) + (IF old = f THEN 1 ELSE 0)) + Count(uses, old)
      BY <2>1 DEF UsageAhead
    <2> QED BY <2>2, <2>3, <2>4
  <1>4. /\ g \in Memory /\ OpenCounted(g) /\ g.process = m.process
        /\ \A x \in File : /\ x # old => g.file[x] = m.file[x]
                           /\ g.file[x].usage = m.file[x].usage - (IF x = old THEN 1 ELSE 0)
    BY <1>1, <1>3, filDestrOK
  <1>5. ASSUME NEW x \in File
        PROVE  g.file[x].usage = Count(Redirected(variable, w, f), x) + Count(uses, x)
    <2>1. Count(Redirected(variable, w, f), x) = CountAfter(variable, w, f, x)
      <3> DEFINE T == File \cup {NIL}
      <3>1. variable \in [FileVariable -> T] /\ f \in T /\ IsFiniteSet(FileVariable)
        BY UseFacts
      <3> HIDE DEF T
      <3> QED BY <3>1, CountChanges
    <2>2. m.file[x].usage = (Count(variable, x) + (IF x = f THEN 1 ELSE 0)) + Count(uses, x)
      BY DEF UsageAhead
    <2>3. g.file[x].usage = m.file[x].usage - (IF x = old THEN 1 ELSE 0)
      BY <1>4
    <2>4. Count(variable, x) \in Nat /\ Count(uses, x) \in Nat
      BY <1>2
    <2> QED BY <1>1, <2>1, <2>2, <2>3, <2>4 DEF CountAfter
  <1>6. FilesCounted(g, Redirected(variable, w, f), uses)
    BY <1>4, <1>5 DEF FilesCounted, OpenCounted
  <1> QED BY <1>1, <1>4, <1>6, RedirectedIs

WithFile(m, f, record) == [m EXCEPT !.file[f] = record]

LEMMA WithFileIs ==
  ASSUME NEW m \in Memory, NEW f \in File, NEW record \in FileRecord,
         NEW g, g = WithFile(m, f, record)
  PROVE  /\ g \in Memory /\ g.process = m.process
         /\ \A x \in File : g.file[x] = IF x = f THEN record ELSE m.file[x]
  <1>1. /\ g = [process |-> g.process, file |-> g.file] /\ g.process = m.process
        /\ g.file = [m.file EXCEPT ![f] = record]
    BY DEF Memory, WithFile
  <1> QED BY <1>1, MemoryTypes DEF Memory

LEMMA FileVariableEndsStep ==
  ASSUME ProcessInv, NEW w \in FileVariable, FileVariableEnds(w)
  PROVE  ProcessInv'
  <1>1. /\ mem \in Memory /\ UsesOf(mem) \in [Use -> File \cup {NIL}] /\ OpenCounted(mem)
        /\ fileVariable \in [FileVariable -> File \cup {NIL}]
    BY UsesType, CountedOpen DEF ProcessInv
  <1>2. ASSUME NEW x \in File
        PROVE  mem.file[x].usage = (Count(fileVariable, x) + (IF x = NIL THEN 1 ELSE 0))
                                      + Count(UsesOf(mem), x)
    <2>1. Count(fileVariable, x) \in Nat
      BY <1>1, CountType, UseFacts
    <2>2. mem.file[x].usage = Count(fileVariable, x) + Count(UsesOf(mem), x)
      BY DEF ProcessInv, FilesCounted
    <2> QED BY <2>1, <2>2, UseFacts
  <1>3. /\ mem' = filDestr(mem, fileVariable[w])
        /\ fileVariable' = Redirected(fileVariable, w, NIL)
        /\ UNCHANGED <<child, others, processVariable, leaked>>
    BY DEF FileVariableEnds, Redirected
  <1>4. /\ mem' \in Memory /\ mem'.process = mem.process
        /\ fileVariable' \in [FileVariable -> File \cup {NIL}]
        /\ FilesCounted(mem', fileVariable', UsesOf(mem))
    <2> DEFINE uses == UsesOf(mem)
    <2>1. uses \in [Use -> File \cup {NIL}] /\ UsageAhead(mem, fileVariable, uses, NIL)
      BY <1>1, <1>2 DEF UsageAhead
    <2> HIDE DEF uses
    <2>2. /\ mem' \in Memory /\ mem'.process = mem.process
          /\ Redirected(fileVariable, w, NIL) \in [FileVariable -> File \cup {NIL}]
          /\ FilesCounted(mem', Redirected(fileVariable, w, NIL), uses)
      BY <1>1, <1>3, <2>1, FileAssigned
    <2> QED BY <1>3, <2>2 DEF uses
  <1> QED BY <1>3, <1>4, FileStep

LEMMA filCloseStep ==
  ASSUME ProcessInv, NEW w \in FileVariable, filClose(w)
  PROVE  ProcessInv'
  <1>1. /\ mem \in Memory /\ OpenCounted(mem)
        /\ fileVariable \in [FileVariable -> File \cup {NIL}]
        /\ fileVariable[w] \in File \cup {NIL}
    BY CountedOpen DEF ProcessInv
  <1>2. /\ mem' = Closed(mem, fileVariable[w])
        /\ UNCHANGED <<child, others, processVariable, fileVariable, leaked>>
    BY DEF filClose
  <1>3. /\ mem' \in Memory /\ OpenCounted(mem') /\ mem'.process = mem.process
        /\ \A x \in File : mem'.file[x].usage = mem.file[x].usage
    BY <1>1, <1>2, ClosedOK
  <1>4. FilesCounted(mem', fileVariable', UsesOf(mem))
    BY <1>2, <1>3 DEF ProcessInv, FilesCounted, OpenCounted
  <1> QED BY <1>1, <1>2, <1>3, <1>4, FileStep

LEMMA pcsChildFileStep ==
  ASSUME ProcessInv, NEW v \in ProcessVariable, NEW std \in Stream, NEW w \in FileVariable,
         pcsChildFile(v, std, w)
  PROVE  ProcessInv'
  <1> DEFINE p == processVariable[v]
             f == mem.process[p].file[std]
             counted == IF f = NIL THEN mem ELSE [mem EXCEPT !.file[f].usage = @ + 1]
             uses == UsesOf(mem)
  <1>1. /\ p # NIL /\ mem' = filDestr(counted, fileVariable[w])
        /\ fileVariable' = Redirected(fileVariable, w, f)
        /\ UNCHANGED <<child, others, processVariable, leaked>>
    BY DEF pcsChildFile, Redirected
  <1>2. /\ mem \in Memory /\ uses \in [Use -> File \cup {NIL}] /\ OpenCounted(mem)
        /\ fileVariable \in [FileVariable -> File \cup {NIL}]
    BY UsesType, CountedOpen DEF ProcessInv
  <1>3. p \in Proc
    BY <1>1, InvFacts
  <1>4. f \in File \cup {NIL}
    BY <1>2, <1>3, MemoryTypes
  <1>5. ASSUME NEW x \in File
        PROVE  /\ mem.file[x].usage = Count(fileVariable, x) + Count(uses, x)
               /\ Count(fileVariable, x) \in Nat /\ Count(uses, x) \in Nat
    BY <1>2, CountType, UseFacts DEF ProcessInv, FilesCounted
  <1>6. /\ counted \in Memory /\ counted.process = mem.process /\ OpenCounted(counted)
        /\ \A x \in File : counted.file[x].usage = mem.file[x].usage + (IF x = f THEN 1 ELSE 0)
    <2>1. CASE f = NIL
      BY <1>2, <2>1, MemoryTypes, UseFacts
    <2>2. ASSUME f # NIL
          PROVE  /\ counted \in Memory /\ counted.process = mem.process /\ OpenCounted(counted)
                 /\ \A x \in File :
                      counted.file[x].usage = mem.file[x].usage + (IF x = f THEN 1 ELSE 0)
      <3> DEFINE r == [mem.file[f] EXCEPT !.usage = @ + 1]
      <3> HIDE DEF p, f, uses
      <3>1. f \in File /\ mem.file[f] \in FileRecord /\ mem.file[f].usage \in Nat
        BY <1>2, <1>4, <2>2, MemoryTypes
      <3>2. r \in FileRecord /\ r.usage = mem.file[f].usage + 1 /\ r.usage > 0
        BY <3>1 DEF FileRecord
      <3>3. counted = WithFile(mem, f, r)
        BY <2>2 DEF WithFile
      <3> HIDE DEF r, counted
      <3>4. /\ counted \in Memory /\ counted.process = mem.process
            /\ \A x \in File : counted.file[x] = IF x = f THEN r ELSE mem.file[x]
        BY <1>2, <3>1, <3>2, <3>3, WithFileIs
      <3>5. OpenCounted(counted)
        BY <1>2, <3>2, <3>4 DEF OpenCounted
      <3>6. \A x \in File :
              counted.file[x].usage = mem.file[x].usage + (IF x = f THEN 1 ELSE 0)
        BY <1>2, <3>2, <3>4, MemoryTypes
      <3> QED BY <3>4, <3>5, <3>6
    <2> QED BY <2>1, <2>2
  <1> HIDE DEF p, f, counted, uses
  <1>7. UsageAhead(counted, fileVariable, uses, f)
    BY <1>5, <1>6 DEF UsageAhead
  <1>8. /\ mem' \in Memory /\ mem'.process = counted.process
        /\ Redirected(fileVariable, w, f) \in [FileVariable -> File \cup {NIL}]
        /\ FilesCounted(mem', Redirected(fileVariable, w, f), uses)
    BY <1>1, <1>2, <1>4, <1>6, <1>7, FileAssigned
  <1> QED BY <1>1, <1>6, <1>8, FileStep DEF uses

\* A new file is assigned to a variable.
LEMMA NewFileOK ==
  ASSUME NEW m \in Memory, NEW variable \in [FileVariable -> File \cup {NIL}],
         NEW uses \in [Use -> File \cup {NIL}], FilesCounted(m, variable, uses),
         NEW w \in FileVariable, NEW f \in File, m.file[f].usage = 0,
         NEW g, g = filDestr([m EXCEPT !.file[f] = [usage |-> 1, open |-> TRUE]], variable[w])
  PROVE  /\ g \in Memory /\ g.process = m.process
         /\ Redirected(variable, w, f) \in [FileVariable -> File \cup {NIL}]
         /\ FilesCounted(g, Redirected(variable, w, f), uses)
         /\ \A x \in File : x # f /\ m.file[x].usage = 0 => g.file[x].usage = 0
  <1> DEFINE r == [usage |-> 1, open |-> TRUE]
             h == [m EXCEPT !.file[f] = r]
  <1>1. r \in FileRecord /\ r.usage = 1
    BY DEF FileRecord
  <1>2. h = WithFile(m, f, r) /\ g = filDestr(h, variable[w])
    BY DEF WithFile
  <1> HIDE DEF r, h
  <1>3. /\ h \in Memory /\ h.process = m.process
        /\ \A x \in File : h.file[x] = IF x = f THEN r ELSE m.file[x]
    BY <1>1, <1>2, WithFileIs
  <1>4. OpenCounted(h)
    BY <1>1, <1>3 DEF OpenCounted, FilesCounted
  <1>5. ASSUME NEW x \in File
        PROVE  /\ m.file[x].usage = Count(variable, x) + Count(uses, x)
               /\ Count(variable, x) \in Nat /\ Count(uses, x) \in Nat
    BY CountType, UseFacts DEF FilesCounted
  <1>6. ASSUME NEW x \in File
        PROVE  h.file[x].usage = (Count(variable, x) + (IF x = f THEN 1 ELSE 0)) + Count(uses, x)
    <2>1. CASE x = f
      BY <1>1, <1>3, <1>5, <2>1
    <2>2. CASE x # f
      BY <1>3, <1>5, <2>2
    <2> QED BY <2>1, <2>2
  <1>7. /\ g \in Memory /\ g.process = h.process
        /\ Redirected(variable, w, f) \in [FileVariable -> File \cup {NIL}]
        /\ FilesCounted(g, Redirected(variable, w, f), uses)
        /\ \A x \in File : x # variable[w] => g.file[x] = h.file[x]
    <2>1. f \in File \cup {NIL} /\ h \in Memory
      BY <1>3
    <2>2. UsageAhead(h, variable, uses, f)
      BY <1>6 DEF UsageAhead
    <2>3. g = filDestr(h, variable[w])
      BY <1>2
    <2>4. g \in Memory /\ g.process = h.process
      BY <1>4, <2>1, <2>2, <2>3, FileAssigned
    <2>5. Redirected(variable, w, f) \in [FileVariable -> File \cup {NIL}]
      BY <1>4, <2>1, <2>2, <2>3, FileAssigned
    <2>6. FilesCounted(g, Redirected(variable, w, f), uses)
      BY <1>4, <2>1, <2>2, <2>3, FileAssigned
    <2>7. \A x \in File : x # variable[w] => g.file[x] = h.file[x]
      BY <1>4, <2>1, <2>2, <2>3, FileAssigned
    <2> QED BY <2>4, <2>5, <2>6, <2>7
  <1>8. ASSUME NEW x \in File, x # f, m.file[x].usage = 0
        PROVE  g.file[x].usage = 0
    <2>1. Count(variable, x) = 0
      BY <1>5, <1>8
    <2>2. (\E v \in FileVariable : variable[v] = x) <=> Count(variable, x) > 0
      BY CountType, UseFacts
    <2>3. variable[w] # x
      BY <2>1, <2>2
    <2> QED BY <1>3, <1>7, <1>8, <2>3
  <1> QED BY <1>3, <1>7, <1>8

LEMMA AnyOneOfIsIn ==
  ASSUME NEW S, S # {}
  PROVE  AnyOneOf(S) \in S
  BY DEF AnyOneOf

LEMMA FilesForIs ==
  ASSUME ProcessInv, NEW streams, FilesFor(streams) # {},
         NEW used, used = AnyOneOf(FilesFor(streams))
  PROVE  /\ used \in [streams -> UnusedFile] /\ DOMAIN used = streams
         /\ \A s \in streams : used[s] \in File /\ mem.file[used[s]].usage = 0
         /\ \A s, t \in streams : used[s] = used[t] => s = t
  <1> DEFINE Files == FilesFor(streams)
  <1>1. Files # {} /\ used = AnyOneOf(Files)
    OBVIOUS
  <1> HIDE DEF Files
  <1>2. used \in Files
    BY <1>1, AnyOneOfIsIn
  <1> QED BY <1>2 DEF Files, FilesFor, UnusedFile

\* A new file, if the stream was opened, is assigned to the variable w.
NewVariable(variable, w, used, std) ==
    IF std \in DOMAIN used THEN Redirected(variable, w, used[std]) ELSE variable

LEMMA NewStreamOK ==
  ASSUME NEW m \in Memory, NEW variable \in [FileVariable -> File \cup {NIL}],
         NEW uses \in [Use -> File \cup {NIL}], FilesCounted(m, variable, uses),
         NEW w \in FileVariable, NEW used, NEW std,
         std \in DOMAIN used => used[std] \in File /\ m.file[used[std]].usage = 0,
         NEW g, g = NewFile(m, variable[w], used, std)
  PROVE  /\ g \in Memory /\ g.process = m.process
         /\ NewVariable(variable, w, used, std) \in [FileVariable -> File \cup {NIL}]
         /\ FilesCounted(g, NewVariable(variable, w, used, std), uses)
         /\ \A x \in File : (std \in DOMAIN used => x # used[std]) /\ m.file[x].usage = 0 =>
              g.file[x].usage = 0
  <1>1. CASE std \notin DOMAIN used
    BY <1>1 DEF NewFile, NewVariable
  <1>2. CASE std \in DOMAIN used
    <2> DEFINE f == used[std]
    <2>1. f \in File /\ m.file[f].usage = 0 /\ NewVariable(variable, w, used, std) = Redirected(variable, w, f)
      BY <1>2 DEF NewVariable
    <2>2. g = filDestr([m EXCEPT !.file[f] = [usage |-> 1, open |-> TRUE]], variable[w])
      BY <1>2 DEF NewFile
    <2>3. f = used[std]
      OBVIOUS
    <2> HIDE DEF f
    <2>4. /\ g \in Memory /\ g.process = m.process
          /\ Redirected(variable, w, f) \in [FileVariable -> File \cup {NIL}]
          /\ FilesCounted(g, Redirected(variable, w, f), uses)
          /\ \A x \in File : x # f /\ m.file[x].usage = 0 => g.file[x].usage = 0
      BY <2>1, <2>2, NewFileOK
    <2> QED BY <1>2, <2>1, <2>3, <2>4
  <1> QED BY <1>1, <1>2

LEMMA ChildOf2FilesStep ==
  ASSUME ProcessInv, NEW w \in FileVariable, NEW x \in FileVariable,
         NEW opened \in SUBSET {"stdIn", "stdOut"}, ChildOf2Files(w, x, opened)
  PROVE  ProcessInv'
  <1> DEFINE used == AnyOneOf(FilesFor(opened))
             uses == UsesOf(mem)
             first == NewVariable(fileVariable, w, used, "stdIn")
             second == NewVariable(first, x, used, "stdOut")
             m1 == NewFile(mem, fileVariable[w], used, "stdIn")
             m2 == NewFile(m1, first[x], used, "stdOut")
  <1>1. FilesFor(opened) # {} /\ used = AnyOneOf(FilesFor(opened))
    BY DEF ChildOf2Files
  <1> HIDE DEF used
  <1>2. /\ DOMAIN used = opened
        /\ \A s \in opened : used[s] \in File /\ mem.file[used[s]].usage = 0
        /\ \A s, t \in opened : used[s] = used[t] => s = t
    BY <1>1, FilesForIs
  <1>3. /\ mem' = m2 /\ fileVariable' = second /\ FreePid # {}
        /\ others' = others \cup {AnyOneOf(FreePid)}
        /\ UNCHANGED <<child, processVariable, leaked>>
    BY <1>1, <1>2 DEF ChildOf2Files, NewVariable, Redirected
  <1>4. /\ mem \in Memory /\ uses \in [Use -> File \cup {NIL}]
        /\ FilesCounted(mem, fileVariable, uses)
        /\ fileVariable \in [FileVariable -> File \cup {NIL}]
    BY UsesType DEF ProcessInv
  <1>5. /\ first = NewVariable(fileVariable, w, used, "stdIn")
        /\ second = NewVariable(first, x, used, "stdOut")
        /\ m1 = NewFile(mem, fileVariable[w], used, "stdIn")
        /\ m2 = NewFile(m1, first[x], used, "stdOut")
    OBVIOUS
  <1>6. uses = UsesOf(mem)
    OBVIOUS
  <1> HIDE DEF uses, first, second, m1, m2
  <1>7. "stdIn" \in DOMAIN used => used["stdIn"] \in File /\ mem.file[used["stdIn"]].usage = 0
    BY <1>2
  <1>8. /\ m1 \in Memory /\ m1.process = mem.process
        /\ first \in [FileVariable -> File \cup {NIL}]
        /\ FilesCounted(m1, first, uses)
        /\ \A f \in File : ("stdIn" \in DOMAIN used => f # used["stdIn"]) /\ mem.file[f].usage = 0 =>
             m1.file[f].usage = 0
    BY <1>4, <1>5, <1>7, NewStreamOK
  <1>9. "stdOut" \in DOMAIN used => used["stdOut"] \in File /\ m1.file[used["stdOut"]].usage = 0
    <2>1. ASSUME "stdOut" \in opened
          PROVE  /\ used["stdOut"] \in File /\ mem.file[used["stdOut"]].usage = 0
                 /\ "stdIn" \in opened => used["stdOut"] # used["stdIn"]
      BY <1>2, <2>1
    <2> QED BY <1>2, <1>8, <2>1
  <1>10. /\ m2 \in Memory /\ m2.process = m1.process
         /\ second \in [FileVariable -> File \cup {NIL}] /\ FilesCounted(m2, second, uses)
    BY <1>4, <1>5, <1>8, <1>9, NewStreamOK
  <1>11. \E pid \in FreePid : others' = others \cup {pid}
    BY <1>3, AnyOneOfIsIn
  <1> QED BY <1>3, <1>6, <1>8, <1>10, <1>11, FileStep

---------------------------------------------------------------------------
(* Starting of processes with a record.                                     *)

\* Memory in which the unused record n may already have the files of pipes.
Prepared(m, n) ==
    /\ m \in Memory /\ FilesCounted(m, fileVariable, UsesOf(m))
    /\ n \in Proc /\ mem.process[n].usage = 0
    /\ \A q \in Proc : q # n => m.process[q] = mem.process[q]
    /\ m.process[n].usage = 0 /\ ~m.process[n].isTerminated

LEMMA UnusedPrepared ==
  ASSUME ProcessInv, NEW n \in UnusedProc
  PROVE  Prepared(mem, n) /\ mem.process[n] = NoProc
  <1>1. n \in Proc /\ mem.process[n].usage = 0
    BY DEF UnusedProc
  <1>2. mem.process[n] = NoProc
    BY <1>1 DEF ProcessInv, ChildrenOK, UnusedIsEmpty
  <1> QED BY <1>1, <1>2 DEF ProcessInv, Prepared, NoProc

LEMMA WithFilesOK ==
  ASSUME ProcessInv, NEW n \in UnusedProc, NEW opened \in SUBSET Stream,
         FilesFor(opened) # {}, NEW m, m = WithFiles(mem, n, AnyOneOf(FilesFor(opened)))
  PROVE  Prepared(m, n)
  <1> DEFINE used == AnyOneOf(FilesFor(opened))
             given == [std \in Stream |-> IF std \in opened THEN used[std] ELSE NIL]
             r == [NoProc EXCEPT !.file = given]
             files == [f \in File |-> IF \E std \in opened : used[std] = f
                                      THEN [usage |-> 1, open |-> TRUE] ELSE mem.file[f]]
  <1>1. used = AnyOneOf(FilesFor(opened)) /\ m = WithFiles(mem, n, used)
    OBVIOUS
  <1> HIDE DEF used
  <1>2. /\ DOMAIN used = opened
        /\ \A s \in opened : used[s] \in File /\ mem.file[used[s]].usage = 0
        /\ \A s, t \in opened : used[s] = used[t] => s = t
    BY <1>1, FilesForIs
  <1>3. /\ n \in Proc /\ mem.process[n].usage = 0 /\ mem.process[n] = NoProc
        /\ mem \in Memory
    BY UnusedPrepared DEF Prepared
  <1>4. /\ m.file = files /\ m.process = [mem.process EXCEPT ![n] = r]
        /\ m = [process |-> m.process, file |-> m.file]
    <2>1. m = [mem EXCEPT !.process[n].file = given, !.file = files]
      BY <1>1, <1>2 DEF WithFiles
    <2> HIDE DEF given, files
    <2>2. m = [process |-> [mem.process EXCEPT ![n] = [mem.process[n] EXCEPT !.file = given]],
               file |-> files]
      BY <1>3, <2>1 DEF Memory
    <2> QED BY <1>3, <2>2
  <1>5. given \in [Stream -> File \cup {NIL}]
    BY <1>2
  <1>6. r \in ProcessRecord /\ r.usage = 0 /\ ~r.isTerminated /\ r.file = given
    <2> HIDE DEF given
    <2>1. NoProc \in ProcessRecord /\ NoProc.usage = 0 /\ ~NoProc.isTerminated
      BY UseFacts DEF NoProc
    <2> QED BY <1>5, <2>1 DEF ProcessRecord
  <1>7. \A f \in File : files[f] \in FileRecord
    <2>1. [usage |-> 1, open |-> TRUE] \in FileRecord
      BY DEF FileRecord
    <2> QED BY <1>3, <2>1, MemoryTypes
  <1>8. files \in [File -> FileRecord]
    BY <1>7
  <1> HIDE DEF r
  <1>9. /\ m \in Memory /\ m.process[n] = r
        /\ \A q \in Proc : q # n => m.process[q] = mem.process[q]
    <2>1. m.process \in [Proc -> ProcessRecord]
      BY <1>3, <1>4, <1>6, MemoryTypes
    <2>2. m \in Memory
      BY <1>4, <1>8, <2>1 DEF Memory
    <2> QED BY <1>3, <1>4, <2>2, MemoryTypes
  <1> DEFINE old == UsesOf(mem)
             new == UsesOf(m)
  <1>10. /\ old \in [Use -> File \cup {NIL}] /\ new \in [Use -> File \cup {NIL}]
         /\ \A q \in Proc, std \in Stream :
              /\ old[<<q, std>>] = IF q = n THEN NIL ELSE mem.process[q].file[std]
              /\ new[<<q, std>>] = IF q = n THEN given[std] ELSE old[<<q, std>>]
    <2>1. /\ old \in [Use -> File \cup {NIL}] /\ new \in [Use -> File \cup {NIL}]
          /\ \A q \in Proc, std \in Stream :
               /\ old[<<q, std>>] = mem.process[q].file[std]
               /\ new[<<q, std>>] = m.process[q].file[std]
      BY <1>3, <1>9, UsesType
    <2>2. \A std \in Stream : NoProc.file[std] = NIL
      BY DEF NoProc, NoFiles
    <2> HIDE DEF old, new, given
    <2> QED BY <1>3, <1>6, <1>9, <2>1, <2>2
  <1>11. \A f \in File : /\ mem.file[f].usage = Count(fileVariable, f) + Count(old, f)
                         /\ mem.file[f].open => mem.file[f].usage > 0
                         /\ Count(fileVariable, f) \in Nat /\ Count(old, f) \in Nat
                         /\ (\E use \in Use : old[use] = f) <=> Count(old, f) > 0
    <2>1. fileVariable \in [FileVariable -> File \cup {NIL}]
      BY DEF ProcessInv
    <2>2. \A f \in File : /\ mem.file[f].usage = Count(fileVariable, f) + Count(old, f)
                          /\ mem.file[f].open => mem.file[f].usage > 0
      BY DEF ProcessInv, FilesCounted
    <2> HIDE DEF old
    <2> QED BY <1>10, <2>1, <2>2, CountType, UseFacts
  <1> HIDE DEF old, new
  <1>12. ASSUME NEW f \in File, NEW s \in opened, used[s] = f
         PROVE  files[f].usage = Count(fileVariable, f) + Count(new, f)
    <2>1. Count(fileVariable, f) = 0 /\ ~\E use \in Use : old[use] = f
      BY <1>2, <1>11, <1>12
    <2>2. {use \in Use : new[use] = f} = {<<n, s>>}
      <3>1. <<n, s>> \in Use /\ new[<<n, s>>] = f
        BY <1>3, <1>10, <1>12, UseFacts
      <3>2. ASSUME NEW use \in Use, new[use] = f
            PROVE  use = <<n, s>>
        <4>1. PICK q \in Proc, std \in Stream : use = <<q, std>>
          BY DEF Use
        <4>2. q = n
          BY <1>10, <2>1, <3>2, <4>1, UseFacts
        <4>3. given[std] = f
          BY <1>10, <3>2, <4>1, <4>2
        <4>4. std \in opened /\ used[std] = f
          BY <4>3, UseFacts
        <4>5. std = s
          BY <1>2, <1>12, <4>4
        <4> QED BY <4>1, <4>2, <4>5
      <3> QED BY <3>1, <3>2
    <2>3. Count(new, f) = Cardinality({<<n, s>>})
      BY <1>10, <2>2 DEF Count
    <2>4. Cardinality({<<n, s>>}) = 1
      BY FS_Singleton
    <2>5. files[f].usage = 1
      BY <1>12
    <2> QED BY <2>1, <2>3, <2>4, <2>5
  <1>13. ASSUME NEW f \in File, \A s \in opened : used[s] # f
         PROVE  files[f] = mem.file[f] /\ Count(new, f) = Count(old, f)
    <2>1. ASSUME NEW use \in Use
          PROVE  new[use] = f <=> old[use] = f
      <3>1. PICK q \in Proc, std \in Stream : use = <<q, std>>
        BY DEF Use
      <3>2. CASE q = n
        <4>1. old[use] = NIL /\ new[use] = given[std]
          BY <1>10, <3>1, <3>2
        <4>2. given[std] # f
          BY <1>13, UseFacts
        <4> QED BY <4>1, <4>2, UseFacts
      <3>3. CASE q # n
        BY <1>10, <3>1, <3>3
      <3> QED BY <3>2, <3>3
    <2>2. {use \in Use : new[use] = f} = {use \in Use : old[use] = f}
      BY <2>1
    <2>3. Count(new, f) = Count(old, f)
      BY <1>10, <2>2 DEF Count
    <2>4. files[f] = mem.file[f]
      BY <1>13
    <2> QED BY <2>3, <2>4
  <1>14. \A f \in File : files[f].open => files[f].usage > 0
    BY <1>11
  <1>15. FilesCounted(m, fileVariable, new)
    <2> HIDE DEF files
    <2>1. ASSUME NEW f \in File
          PROVE  /\ m.file[f].usage = Count(fileVariable, f) + Count(new, f)
                 /\ m.file[f].open => m.file[f].usage > 0
      <3>1. m.file[f] = files[f]
        BY <1>4
      <3>2. CASE \E s \in opened : used[s] = f
        BY <1>12, <1>14, <3>1, <3>2
      <3>3. CASE \A s \in opened : used[s] # f
        BY <1>11, <1>13, <1>14, <3>1, <3>3
      <3> QED BY <3>2, <3>3
    <2> QED BY <2>1 DEF FilesCounted
  <1> QED BY <1>3, <1>6, <1>9, <1>15 DEF Prepared, new

\* The children after the record n got one: the other records are kept or freed.
LEMMA StartedChildrenOK ==
  ASSUME ProcessInv, NEW n \in Proc, mem.process[n].usage = 0, NEW pid \in FreePid,
         mem' \in Memory,
         mem'.process[n].usage = 1, mem'.process[n].pid = pid, ~mem'.process[n].isTerminated,
         \A q \in Proc : q # n =>
            \/ mem'.process[q] = NoProc
            \/ /\ mem'.process[q].usage > 0 /\ mem.process[q].usage > 0
               /\ SameChild(mem'.process[q], mem.process[q]),
         child' = [q \in Proc |-> IF q = n THEN [state |-> "running", exit |-> 0]
                                  ELSE IF mem'.process[q].usage = 0 THEN NoChild ELSE child[q]],
         others' = others \cup {mem.process[q].pid : q \in {r \in Abandoned(mem') : r # n}}
  PROVE  /\ child' \in Children /\ others' \subseteq Pid
         /\ ChildrenOK(mem'.process, child', others')
  <1>1. /\ pid \in Pid /\ pid \notin others
        /\ \A p \in Proc : Lives(p) => mem.process[p].pid # pid
    BY FreePidOK
  <1>2. \A q \in Abandoned(mem') : q \in Proc /\ Lives(q) /\ mem'.process[q].usage = 0
    BY DEF Abandoned
  <1>3. child' \in Children
    <2>1. /\ NoChild \in [state : {"none", "running", "zombie", "reaped"}, exit : Exit]
          /\ [state |-> "running", exit |-> 0] \in
                [state : {"none", "running", "zombie", "reaped"}, exit : Exit]
      BY DEF NoChild, Exit
    <2>2. child \in [Proc -> [state : {"none", "running", "zombie", "reaped"}, exit : Exit]]
      BY InvFacts DEF Children
    <2> QED BY <2>1, <2>2 DEF Children
  <1>4. others' \subseteq Pid /\ pid \notin others'
    <2>1. \A q \in Abandoned(mem') : mem.process[q].pid \in Pid /\ mem.process[q].pid # pid
      BY <1>1, <1>2, LivingChild
    <2> QED BY <1>1, <2>1 DEF ProcessInv
  <1>5. child'[n].state = "running"
    OBVIOUS
  <1>6. ASSUME NEW q \in Proc, q # n, mem'.process[q].usage > 0
        PROVE  /\ child'[q] = child[q] /\ mem.process[q].usage > 0
               /\ SameChild(mem'.process[q], mem.process[q])
    <2>1. mem'.process[q] # NoProc
      BY <1>6 DEF NoProc
    <2>2. mem.process[q].usage > 0 /\ SameChild(mem'.process[q], mem.process[q])
      BY <1>6, <2>1
    <2>3. child'[q] = child[q]
      BY <1>6
    <2> QED BY <2>2, <2>3
  <1>7. ASSUME NEW q \in Proc, q # n, LivesIn(child', q)
        PROVE  mem'.process[q].usage > 0 /\ Lives(q)
    <2>1. mem'.process[q].usage # 0
      BY <1>7 DEF LivesIn, NoChild
    <2>2. mem'.process[q].usage \in Nat
      BY MemoryTypes
    <2>3. child'[q] = child[q]
      BY <1>6, <1>7, <2>1, <2>2
    <2> QED BY <1>7, <2>1, <2>2, <2>3 DEF LivesIn, Lives
  <1>8. UnusedIsEmpty(mem'.process, child')
    <2>1. ASSUME NEW q \in Proc, mem'.process[q].usage = 0
          PROVE  mem'.process[q] = NoProc /\ child'[q] = NoChild
      <3>1. q # n
        BY <2>1
      <3>2. mem'.process[q] = NoProc
        BY <2>1, <3>1
      <3>3. child'[q] = NoChild
        BY <2>1, <3>1
      <3> QED BY <3>2, <3>3
    <2> QED BY <2>1 DEF UnusedIsEmpty
  <1>9. OwnChild(mem'.process, child', others')
    <2>1. ASSUME NEW p \in Proc, mem'.process[p].usage > 0
          PROVE  IF mem'.process[p].isTerminated
                 THEN child'[p].state = "reaped" /\ mem'.process[p].exitValue = child'[p].exit
                 ELSE LivesIn(child', p) /\ mem'.process[p].pid \in Pid \ others'
      <3>1. CASE p = n
        BY <1>1, <1>4, <1>5, <3>1 DEF LivesIn
      <3>2. ASSUME p # n
            PROVE  IF mem'.process[p].isTerminated
                   THEN child'[p].state = "reaped" /\ mem'.process[p].exitValue = child'[p].exit
                   ELSE LivesIn(child', p) /\ mem'.process[p].pid \in Pid \ others'
        <4>1. /\ child'[p] = child[p] /\ mem.process[p].usage > 0
              /\ SameChild(mem'.process[p], mem.process[p])
          BY <1>6, <2>1, <3>2
        <4>2. IF mem.process[p].isTerminated
              THEN child[p].state = "reaped" /\ mem.process[p].exitValue = child[p].exit
              ELSE LivesIn(child, p) /\ mem.process[p].pid \in Pid \ others
          BY <4>1 DEF ProcessInv, ChildrenOK, OwnChild
        <4>3. ASSUME ~mem.process[p].isTerminated
              PROVE  mem.process[p].pid \notin others'
          <5>1. Lives(p) /\ mem.process[p].pid \notin others
            BY <4>2, <4>3 DEF Lives, LivesIn
          <5>2. ASSUME NEW q \in Abandoned(mem')
                PROVE  mem.process[q].pid # mem.process[p].pid
            <6>1. q \in Proc /\ Lives(q) /\ q # p
              BY <1>2, <2>1
            <6> QED BY <5>1, <6>1, LivingChild
          <5> QED BY <5>1, <5>2
        <4> QED BY <4>1, <4>2, <4>3 DEF SameChild, LivesIn
      <3> QED BY <3>1, <3>2
    <2> QED BY <2>1 DEF OwnChild
  <1>10. DifferentPids(mem'.process, child')
    <2>1. ASSUME NEW q \in Proc, q # n, LivesIn(child', q)
          PROVE  /\ Lives(q) /\ mem'.process[q].pid = mem.process[q].pid
                 /\ mem'.process[q].pid # pid
      <3>1. Lives(q) /\ SameChild(mem'.process[q], mem.process[q])
        BY <1>6, <1>7, <2>1
      <3> QED BY <1>1, <3>1 DEF SameChild
    <2>2. ASSUME NEW p \in Proc, NEW q \in Proc, p # q, LivesIn(child', p), LivesIn(child', q)
          PROVE  mem'.process[p].pid # mem'.process[q].pid
      <3>1. CASE p = n \/ q = n
        BY <2>1, <2>2, <3>1
      <3>2. CASE p # n /\ q # n
        BY <2>1, <2>2, <3>2, LivingChild
      <3> QED BY <3>1, <3>2
    <2> QED BY <2>2 DEF DifferentPids
  <1> QED BY <1>3, <1>4, <1>8, <1>9, <1>10 DEF ChildrenOK

LEMMA ChildStartedStep ==
  ASSUME ProcessInv, NEW v \in ProcessVariable, NEW n, NEW m, Prepared(m, n),
         FreePid # {}, ChildStarted(v, n, m)
  PROVE  ProcessInv'
  <1> DEFINE a == processVariable[v]
             pid == AnyOneOf(FreePid)
             r == [m.process[n] EXCEPT !.usage = 1, !.pid = pid]
             m1 == WithProcess(m, n, r)
             m2 == pcsDestr(m1, a)
  <1>1. pid \in FreePid /\ pid \in Pid
    BY AnyOneOfIsIn, FreePidOK
  <1>2. /\ m \in Memory /\ n \in Proc /\ mem.process[n].usage = 0
        /\ FilesCounted(m, fileVariable, UsesOf(m))
        /\ m.process[n].usage = 0 /\ ~m.process[n].isTerminated
        /\ \A q \in Proc : q # n => m.process[q] = mem.process[q]
    BY DEF Prepared
  <1>3. /\ mem' = m2
        /\ child' = [q \in Proc |-> IF q = n THEN [state |-> "running", exit |-> 0]
                                    ELSE IF mem'.process[q].usage = 0 THEN NoChild ELSE child[q]]
        /\ others' = others \cup {mem.process[q].pid : q \in {x \in Abandoned(mem') : x # n}}
        /\ processVariable' = Redirected(processVariable, v, n)
        /\ UNCHANGED <<fileVariable, leaked>>
    BY DEF ChildStarted, Redirected, WithProcess
  <1>4. /\ r \in ProcessRecord /\ r.usage = 1 /\ r.pid = pid /\ ~r.isTerminated
        /\ r.file = m.process[n].file
    <2>1. m.process[n] \in ProcessRecord
      BY <1>2, MemoryTypes
    <2> HIDE DEF pid
    <2> QED BY <1>1, <1>2, <2>1 DEF ProcessRecord
  <1>5. m1 = WithProcess(m, n, r) /\ m2 = pcsDestr(m1, a) /\ a = processVariable[v]
    OBVIOUS
  <1> HIDE DEF a, pid, r, m1, m2
  <1>6. /\ m1 \in Memory /\ m1.file = m.file /\ m1.process[n] = r
        /\ \A q \in Proc : q # n => m1.process[q] = m.process[q]
    <2>1. /\ WithProcess(m, n, r) \in Memory /\ WithProcess(m, n, r).file = m.file
          /\ WithProcess(m, n, r).process[n] = r
          /\ \A q \in Proc : q # n => WithProcess(m, n, r).process[q] = m.process[q]
      BY <1>2, <1>4, WithProcessIs
    <2> QED BY <1>5, <2>1
  <1>7. UsesOf(m) = UsesOf(m1) /\ FilesCounted(m1, fileVariable, UsesOf(m1))
    <2>1. ASSUME NEW q \in Proc, NEW std \in Stream
          PROVE  UsesOf(m)[<<q, std>>] = m1.process[q].file[std]
      BY <1>2, <1>4, <1>6, UsesType
    <2>2. UsesOf(m) = UsesOf(m1)
      BY <1>2, <1>6, <2>1, UsesType, UsesAre
    <2> QED BY <1>2, <1>6, <2>2 DEF FilesCounted
  <1>8. /\ a \in Proc \cup {NIL} /\ a # n
        /\ a # NIL => a \in Proc /\ mem.process[a].usage > 0 /\ m1.process[a].usage > 0
    <2>1. a \in Proc \cup {NIL} /\ (a # NIL => a \in Proc /\ mem.process[a].usage > 0)
      BY <1>5, InvFacts
    <2>2. a # n
      BY <1>2, <2>1, UseFacts
    <2> QED BY <1>2, <1>6, <2>1, <2>2
  <1>9. /\ m2 \in Memory /\ FilesCounted(m2, fileVariable, UsesOf(m2))
        /\ \A q \in Proc :
             /\ m2.process[q].usage = m1.process[q].usage - (IF q = a THEN 1 ELSE 0)
             /\ q # a => m2.process[q] = m1.process[q]
             /\ q = a => \/ m2.process[q] = NoProc
                         \/ m2.process[q].usage > 0 /\ SameChild(m2.process[q], m1.process[q])
    <2>1. fileVariable \in [FileVariable -> File \cup {NIL}]
      BY DEF ProcessInv
    <2> QED BY <1>5, <1>6, <1>7, <1>8, <2>1, pcsDestrOK
  <1>10. m2.process[n] = r
    BY <1>2, <1>6, <1>8, <1>9
  <1>11. ASSUME NEW q \in Proc, q # n
         PROVE  \/ m2.process[q] = NoProc
                \/ /\ m2.process[q].usage > 0 /\ mem.process[q].usage > 0
                   /\ SameChild(m2.process[q], mem.process[q])
    <2>1. m1.process[q] = mem.process[q] /\ mem.process[q].usage \in Nat
      BY <1>2, <1>6, <1>11, InvFacts
    <2>2. CASE q = a
      BY <1>8, <1>9, <2>1, <2>2, UseFacts
    <2>3. CASE q # a /\ mem.process[q].usage = 0
      BY <1>9, <2>1, <2>3 DEF ProcessInv, ChildrenOK, UnusedIsEmpty
    <2>4. CASE q # a /\ mem.process[q].usage # 0
      BY <1>9, <2>1, <2>4 DEF SameChild
    <2> QED BY <2>2, <2>3, <2>4
  <1>12. /\ RecordsCounted(m2, processVariable')
         /\ processVariable' \in [ProcessVariable -> Proc \cup {NIL}]
    <2>1. ASSUME NEW q \in Proc
          PROVE  m2.process[q].usage = (mem.process[q].usage + (IF q = n THEN 1 ELSE 0))
                                         - (IF q = processVariable[v] THEN 1 ELSE 0)
      <3>1. mem.process[q].usage \in Nat
        BY InvFacts
      <3>2. CASE q = n
        BY <1>2, <1>4, <1>5, <1>8, <1>10, <3>2
      <3>3. CASE q # n
        BY <1>2, <1>5, <1>6, <1>9, <3>1, <3>3
      <3> QED BY <3>2, <3>3
    <2>2. UsagesAfter(m2, mem, processVariable, v, n)
      BY <2>1 DEF UsagesAfter
    <2>3. /\ processVariable \in [ProcessVariable -> Proc \cup {NIL}]
          /\ RecordsCounted(mem, processVariable) /\ n \in Proc \cup {NIL}
      BY <1>2 DEF ProcessInv
    <2> QED BY <1>3, <2>2, <2>3, RecordsRedirected
  <1>13. /\ child' \in Children /\ others' \subseteq Pid
         /\ ChildrenOK(mem'.process, child', others')
    BY <1>1, <1>2, <1>3, <1>4, <1>9, <1>10, <1>11, StartedChildrenOK
  <1> QED BY <1>3, <1>9, <1>12, <1>13 DEF ProcessInv

---------------------------------------------------------------------------
(* Calls that fail.                                                         *)

ForgetsNothing(forgets) == \A forgotten \in forgets : forgotten = {}

\* Nothing is forgotten if every step gives up all that comes before it.
LEMMA StartForgetsNothing == ForgetsNothing(StartForgets)
  <1>1. ASSUME NEW k \in DOMAIN StartSteps
        PROVE  {StartSteps[i] : i \in 1 .. k - 1} \subseteq {"access"} \cup StartGivesUp(StartSteps[k])
    <2>1. k \in 1 .. 5
      BY DEF StartSteps
    <2>2. ASSUME NEW i \in 1 .. k - 1
          PROVE  StartSteps[i] \in {"access"} \cup StartGivesUp(StartSteps[k])
      <3>1. CASE k = 1
        BY <2>2, <3>1 DEF StartSteps, StartGivesUp
      <3>2. CASE k = 2
        BY <2>2, <3>2 DEF StartSteps, StartGivesUp
      <3>3. CASE k = 3
        BY <2>2, <3>3 DEF StartSteps, StartGivesUp
      <3>4. CASE k = 4
        BY <2>2, <3>4 DEF StartSteps, StartGivesUp
      <3>5. CASE k = 5
        BY <2>2, <3>5 DEF StartSteps, StartGivesUp
      <3> QED BY <2>1, <3>1, <3>2, <3>3, <3>4, <3>5
    <2> QED BY <2>2
  <1> QED BY <1>1 DEF ForgetsNothing, StartForgets, Forgotten

LEMMA StartPipeForgetsNothing == ForgetsNothing(StartPipeForgets)
  <1>1. ASSUME NEW k \in DOMAIN StartPipeSteps
        PROVE  {StartPipeSteps[i] : i \in 1 .. k - 1} \subseteq {"access"} \cup StartPipeGivesUp(StartPipeSteps[k])
    <2>1. k \in 1 .. 10
      BY DEF StartPipeSteps
    <2>2. ASSUME NEW i \in 1 .. k - 1
          PROVE  StartPipeSteps[i] \in {"access"} \cup StartPipeGivesUp(StartPipeSteps[k])
      <3>1. CASE k = 1
        BY <2>2, <3>1 DEF StartPipeSteps, StartPipeGivesUp, PipeFiles
      <3>2. CASE k = 2
        BY <2>2, <3>2 DEF StartPipeSteps, StartPipeGivesUp, PipeFiles
      <3>3. CASE k = 3
        BY <2>2, <3>3 DEF StartPipeSteps, StartPipeGivesUp, PipeFiles
      <3>4. CASE k = 4
        BY <2>2, <3>4 DEF StartPipeSteps, StartPipeGivesUp, PipeFiles
      <3>5. CASE k = 5
        BY <2>2, <3>5 DEF StartPipeSteps, StartPipeGivesUp, PipeFiles
      <3>6. CASE k = 6
        BY <2>2, <3>6 DEF StartPipeSteps, StartPipeGivesUp, PipeFiles
      <3>7. CASE k = 7
        BY <2>2, <3>7 DEF StartPipeSteps, StartPipeGivesUp, PipeFiles
      <3>8. CASE k = 8
        BY <2>2, <3>8 DEF StartPipeSteps, StartPipeGivesUp, PipeFiles
      <3>9. CASE k = 9
        BY <2>2, <3>9 DEF StartPipeSteps, StartPipeGivesUp, PipeFiles
      <3>10. CASE k = 10
        BY <2>2, <3>10 DEF StartPipeSteps, StartPipeGivesUp, PipeFiles
      <3> QED BY <2>1, <3>1, <3>2, <3>3, <3>4, <3>5, <3>6, <3>7, <3>8, <3>9, <3>10
    <2> QED BY <2>2
  <1> QED BY <1>1 DEF ForgetsNothing, StartPipeForgets, Forgotten

LEMMA Pipe2ForgetsNothing == ForgetsNothing(Pipe2Forgets)
  <1>1. ASSUME NEW k \in DOMAIN Pipe2Steps
        PROVE  {Pipe2Steps[i] : i \in 1 .. k - 1} \subseteq {"access"} \cup Pipe2GivesUp(Pipe2Steps[k])
    <2>1. k \in 1 .. 7
      BY DEF Pipe2Steps
    <2>2. ASSUME NEW i \in 1 .. k - 1
          PROVE  Pipe2Steps[i] \in {"access"} \cup Pipe2GivesUp(Pipe2Steps[k])
      <3>1. CASE k = 1
        BY <2>2, <3>1 DEF Pipe2Steps, Pipe2GivesUp
      <3>2. CASE k = 2
        BY <2>2, <3>2 DEF Pipe2Steps, Pipe2GivesUp
      <3>3. CASE k = 3
        BY <2>2, <3>3 DEF Pipe2Steps, Pipe2GivesUp
      <3>4. CASE k = 4
        BY <2>2, <3>4 DEF Pipe2Steps, Pipe2GivesUp
      <3>5. CASE k = 5
        BY <2>2, <3>5 DEF Pipe2Steps, Pipe2GivesUp
      <3>6. CASE k = 6
        BY <2>2, <3>6 DEF Pipe2Steps, Pipe2GivesUp
      <3>7. CASE k = 7
        BY <2>2, <3>7 DEF Pipe2Steps, Pipe2GivesUp
      <3> QED BY <2>1, <3>1, <3>2, <3>3, <3>4, <3>5, <3>6, <3>7
    <2> QED BY <2>2
  <1> QED BY <1>1 DEF ForgetsNothing, Pipe2Forgets, Forgotten

LEMMA PtyForgetsNothing == ForgetsNothing(PtyForgets)
  <1>1. ASSUME NEW k \in DOMAIN PtySteps
        PROVE  {PtySteps[i] : i \in 1 .. k - 1} \subseteq {"access"} \cup PtyGivesUp(PtySteps[k])
    <2>1. k \in 1 .. 7
      BY DEF PtySteps
    <2>2. ASSUME NEW i \in 1 .. k - 1
          PROVE  PtySteps[i] \in {"access"} \cup PtyGivesUp(PtySteps[k])
      <3>1. CASE k = 1
        BY <2>2, <3>1 DEF PtySteps, PtyGivesUp
      <3>2. CASE k = 2
        BY <2>2, <3>2 DEF PtySteps, PtyGivesUp
      <3>3. CASE k = 3
        BY <2>2, <3>3 DEF PtySteps, PtyGivesUp
      <3>4. CASE k = 4
        BY <2>2, <3>4 DEF PtySteps, PtyGivesUp
      <3>5. CASE k = 5
        BY <2>2, <3>5 DEF PtySteps, PtyGivesUp
      <3>6. CASE k = 6
        BY <2>2, <3>6 DEF PtySteps, PtyGivesUp
      <3>7. CASE k = 7
        BY <2>2, <3>7 DEF PtySteps, PtyGivesUp
      <3> QED BY <2>1, <3>1, <3>2, <3>3, <3>4, <3>5, <3>6, <3>7
    <2> QED BY <2>2
  <1> QED BY <1>1 DEF ForgetsNothing, PtyForgets, Forgotten

LEMMA StartFailsStep ==
  ASSUME ProcessInv, NEW forgets, ForgetsNothing(forgets), StartFails(forgets)
  PROVE  ProcessInv'
  <1>1. leaked' = {} /\ UNCHANGED <<mem, child, others, processVariable, fileVariable>>
    BY DEF StartFails, ForgetsNothing, ProcessInv
  <1> QED BY <1>1 DEF ProcessInv

LEMMA StartStep ==
  ASSUME ProcessInv, NEW v \in ProcessVariable, pcsStart(v)
  PROVE  ProcessInv'
  <1>1. CASE UnusedProc # {} /\ FreePid # {} /\ ChildStarted(v, AnyOneOf(UnusedProc), mem)
    <2>1. AnyOneOf(UnusedProc) \in UnusedProc
      BY <1>1, AnyOneOfIsIn
    <2>2. Prepared(mem, AnyOneOf(UnusedProc))
      BY <2>1, UnusedPrepared
    <2> QED BY <1>1, <2>2, ChildStartedStep
  <1>2. CASE StartFails(StartForgets)
    BY <1>2, StartForgetsNothing, StartFailsStep
  <1> QED BY <1>1, <1>2 DEF pcsStart

LEMMA StartPipeStep ==
  ASSUME ProcessInv, NEW v \in ProcessVariable, pcsStartPipe(v)
  PROVE  ProcessInv'
  <1>1. ASSUME UnusedProc # {}, FreePid # {}, NEW opened \in SUBSET Stream,
               FilesFor(opened) # {},
               ChildStarted(v, AnyOneOf(UnusedProc),
                  WithFiles(mem, AnyOneOf(UnusedProc), AnyOneOf(FilesFor(opened))))
        PROVE  ProcessInv'
    <2> DEFINE n == AnyOneOf(UnusedProc)
               m == WithFiles(mem, n, AnyOneOf(FilesFor(opened)))
    <2>1. n \in UnusedProc
      BY <1>1, AnyOneOfIsIn
    <2>2. m = WithFiles(mem, n, AnyOneOf(FilesFor(opened))) /\ ChildStarted(v, n, m)
      BY <1>1
    <2> HIDE DEF n, m
    <2>3. Prepared(m, n)
      BY <1>1, <2>1, <2>2, WithFilesOK
    <2> QED BY <1>1, <2>2, <2>3, ChildStartedStep
  <1>2. CASE StartFails(StartPipeForgets)
    BY <1>2, StartPipeForgetsNothing, StartFailsStep
  <1> QED BY <1>1, <1>2 DEF pcsStartPipe

LEMMA Pipe2Step ==
  ASSUME ProcessInv, NEW w \in FileVariable, NEW x \in FileVariable, pcsPipe2(w, x)
  PROVE  ProcessInv'
  <1>1. CASE StartFails(Pipe2Forgets)
    BY <1>1, Pipe2ForgetsNothing, StartFailsStep
  <1> QED BY <1>1, ChildOf2FilesStep DEF pcsPipe2

LEMMA PtyStep ==
  ASSUME ProcessInv, NEW w \in FileVariable, NEW x \in FileVariable, pcsPty(w, x)
  PROVE  ProcessInv'
  <1>1. CASE StartFails(PtyForgets)
    BY <1>1, PtyForgetsNothing, StartFailsStep
  <1>2. ASSUME NEW opened \in {{}, {"stdIn"}, {"stdIn", "stdOut"}}, ChildOf2Files(w, x, opened)
        PROVE  ProcessInv'
    <2>1. opened \in SUBSET {"stdIn", "stdOut"}
      BY <1>2
    <2> QED BY <1>2, <2>1, ChildOf2FilesStep
  <1> QED BY <1>1, <1>2 DEF pcsPty

---------------------------------------------------------------------------
(* Children end, are waited for and are killed.                             *)

\* The states and exit values of children change, and other processes end.
LEMMA ChildrenStep ==
  ASSUME ProcessInv, child' \in Children, others' \subseteq others,
         \A p \in Proc : IF Lives(p) THEN child'[p].state \in {"running", "zombie"}
                         ELSE child'[p] = child[p],
         UNCHANGED <<mem, processVariable, fileVariable, leaked>>
  PROVE  ProcessInv'
  <1>1. UnusedIsEmpty(mem.process, child')
    <2>1. ASSUME NEW p \in Proc, mem.process[p].usage = 0
          PROVE  mem.process[p] = NoProc /\ child'[p] = NoChild
      <3>1. mem.process[p] = NoProc /\ child[p] = NoChild
        BY <2>1 DEF ProcessInv, ChildrenOK, UnusedIsEmpty
      <3> QED BY <3>1 DEF Lives, NoChild
    <2> QED BY <2>1 DEF UnusedIsEmpty
  <1>2. OwnChild(mem.process, child', others')
    <2>1. ASSUME NEW p \in Proc, mem.process[p].usage > 0
          PROVE  IF mem.process[p].isTerminated
                 THEN child'[p].state = "reaped" /\ mem.process[p].exitValue = child'[p].exit
                 ELSE LivesIn(child', p) /\ mem.process[p].pid \in Pid \ others'
      <3>1. IF mem.process[p].isTerminated
            THEN child[p].state = "reaped" /\ mem.process[p].exitValue = child[p].exit
            ELSE LivesIn(child, p) /\ mem.process[p].pid \in Pid \ others
        BY <2>1 DEF ProcessInv, ChildrenOK, OwnChild
      <3> QED BY <3>1 DEF Lives, LivesIn
    <2> QED BY <2>1 DEF OwnChild
  <1>3. DifferentPids(mem.process, child')
    <2>1. \A p \in Proc : LivesIn(child', p) => Lives(p)
      BY DEF Lives, LivesIn
    <2> QED BY <2>1, LivingChild DEF DifferentPids
  <1>4. others' \subseteq Pid
    BY DEF ProcessInv
  <1> QED BY <1>1, <1>2, <1>3, <1>4 DEF ProcessInv, ChildrenOK

LEMMA ChildEndsStep ==
  ASSUME ProcessInv, NEW p \in Proc, ChildEnds(p)
  PROVE  ProcessInv'
  <1>1. PICK e \in ExitValue : child' = [child EXCEPT ![p] = [state |-> "zombie", exit |-> e]]
    BY DEF ChildEnds
  <1>2. child \in [Proc -> [state : {"none", "running", "zombie", "reaped"}, exit : Exit]]
    BY InvFacts DEF Children
  <1>3. child' \in Children
    BY <1>1, <1>2 DEF Children, Exit
  <1>4. \A q \in Proc : IF Lives(q) THEN child'[q].state \in {"running", "zombie"}
                        ELSE child'[q] = child[q]
    BY <1>1, <1>2 DEF Lives, ChildEnds
  <1> QED BY <1>3, <1>4, ChildrenStep DEF ChildEnds

LEMMA KillStep ==
  ASSUME ProcessInv, NEW v \in ProcessVariable, pcsKill(v)
  PROVE  ProcessInv'
  <1> DEFINE Reached == {q \in Proc : Lives(q) /\ mem.process[q].pid
                                                    = mem.process[processVariable[v]].pid}
  <1>1. child' = [q \in Proc |-> IF q \in Reached THEN [child[q] EXCEPT !.state = "zombie"]
                                 ELSE child[q]]
    BY DEF pcsKill
  <1>2. child \in [Proc -> [state : {"none", "running", "zombie", "reaped"}, exit : Exit]]
    BY InvFacts DEF Children
  <1>3. \A q \in Reached : Lives(q)
    OBVIOUS
  <1> HIDE DEF Reached
  <1>4. child' \in Children
    BY <1>1, <1>2 DEF Children
  <1>5. \A q \in Proc : IF Lives(q) THEN child'[q].state \in {"running", "zombie"}
                        ELSE child'[q] = child[q]
    BY <1>1, <1>2, <1>3 DEF Lives
  <1> QED BY <1>4, <1>5, ChildrenStep DEF pcsKill

LEMMA ReapStep ==
  ASSUME ProcessInv, NEW p \in Proc, mem.process[p].usage > 0, child[p].state = "zombie", Reap(p)
  PROVE  ProcessInv'
  <1> DEFINE r == [mem.process[p] EXCEPT !.isTerminated = TRUE, !.exitValue = child[p].exit]
             c == [child[p] EXCEPT !.state = "reaped"]
  <1>1. /\ mem.process[p] \in ProcessRecord /\ child[p].exit \in Exit /\ mem \in Memory
        /\ child \in [Proc -> [state : {"none", "running", "zombie", "reaped"}, exit : Exit]]
    BY InvFacts DEF Children
  <1>2. /\ r \in ProcessRecord /\ r.isTerminated /\ r.exitValue = child[p].exit
        /\ r.usage = mem.process[p].usage /\ r.file = mem.process[p].file
    BY <1>1 DEF ProcessRecord
  <1>3. /\ c \in [state : {"none", "running", "zombie", "reaped"}, exit : Exit]
        /\ c.state = "reaped" /\ c.exit = child[p].exit
    BY <1>1
  <1>4. /\ mem' = WithProcess(mem, p, r) /\ child' = [child EXCEPT ![p] = c]
        /\ UNCHANGED <<others, processVariable, fileVariable, leaked>>
    BY DEF Reap, WithProcess
  <1> HIDE DEF r, c
  <1>5. /\ mem' \in Memory /\ mem'.file = mem.file /\ mem'.process[p] = r
        /\ \A q \in Proc : q # p => mem'.process[q] = mem.process[q]
    <2>1. /\ WithProcess(mem, p, r) \in Memory /\ WithProcess(mem, p, r).file = mem.file
          /\ WithProcess(mem, p, r).process[p] = r
          /\ \A q \in Proc : q # p => WithProcess(mem, p, r).process[q] = mem.process[q]
      BY <1>1, <1>2, WithProcessIs
    <2> QED BY <1>4, <2>1
  <1>6. /\ child' \in Children /\ child'[p] = c
        /\ \A q \in Proc : q # p => child'[q] = child[q]
    BY <1>1, <1>3, <1>4 DEF Children
  <1>7. UsesOf(mem) = UsesOf(mem')
    <2>1. ASSUME NEW q \in Proc, NEW std \in Stream
          PROVE  UsesOf(mem)[<<q, std>>] = mem'.process[q].file[std]
      BY <1>1, <1>2, <1>5, UsesType
    <2> QED BY <1>1, <1>5, <2>1, UsesType, UsesAre
  <1>8. /\ FilesCounted(mem', fileVariable', UsesOf(mem'))
        /\ RecordsCounted(mem', processVariable')
    <2>1. \A q \in Proc : mem'.process[q].usage = mem.process[q].usage
      BY <1>2, <1>5
    <2> QED BY <1>4, <1>5, <1>7, <2>1 DEF ProcessInv, FilesCounted, RecordsCounted
  <1>9. UnusedIsEmpty(mem'.process, child')
    <2>1. ASSUME NEW q \in Proc, mem'.process[q].usage = 0
          PROVE  mem'.process[q] = NoProc /\ child'[q] = NoChild
      <3>1. q # p
        BY <1>2, <1>5, <2>1
      <3> QED BY <1>5, <1>6, <2>1, <3>1 DEF ProcessInv, ChildrenOK, UnusedIsEmpty
    <2> QED BY <2>1 DEF UnusedIsEmpty
  <1>10. OwnChild(mem'.process, child', others')
    <2>1. ASSUME NEW q \in Proc, mem'.process[q].usage > 0
          PROVE  IF mem'.process[q].isTerminated
                 THEN child'[q].state = "reaped" /\ mem'.process[q].exitValue = child'[q].exit
                 ELSE LivesIn(child', q) /\ mem'.process[q].pid \in Pid \ others'
      <3>1. CASE q = p
        BY <1>2, <1>3, <1>5, <1>6, <3>1
      <3>2. CASE q # p
        BY <1>4, <1>5, <1>6, <2>1, <3>2 DEF ProcessInv, ChildrenOK, OwnChild, LivesIn
      <3> QED BY <3>1, <3>2
    <2> QED BY <2>1 DEF OwnChild
  <1>11. DifferentPids(mem'.process, child')
    <2>1. ASSUME NEW q \in Proc, LivesIn(child', q)
          PROVE  Lives(q) /\ mem'.process[q].pid = mem.process[q].pid
      <3>1. q # p
        BY <1>3, <1>6, <2>1 DEF LivesIn
      <3> QED BY <1>5, <1>6, <2>1, <3>1 DEF LivesIn, Lives
    <2> QED BY <2>1, LivingChild DEF DifferentPids
  <1> QED BY <1>4, <1>5, <1>6, <1>8, <1>9, <1>10, <1>11 DEF ProcessInv, ChildrenOK

LEMMA WaitStep ==
  ASSUME ProcessInv, NEW v \in ProcessVariable, pcsIsAlive(v) \/ pcsWaitFor(v)
  PROVE  ProcessInv'
  <1> DEFINE p == processVariable[v]
  <1>1. p # NIL /\ child[p].state = "zombie" /\ Reap(p)
    BY DEF pcsIsAlive, pcsWaitFor, Waitable
  <1>2. p \in Proc /\ mem.process[p].usage > 0
    BY <1>1, InvFacts
  <1> HIDE DEF p
  <1> QED BY <1>1, <1>2, ReapStep

LEMMA OtherStartsStep ==
  ASSUME ProcessInv, OtherStarts
  PROVE  ProcessInv'
  <1>1. /\ \E pid \in FreePid : others' = others \cup {pid}
        /\ UNCHANGED <<mem, child, processVariable, fileVariable, leaked>>
    BY DEF OtherStarts
  <1>2. others' \subseteq Pid /\ ChildrenOK(mem.process, child, others')
    BY <1>1, OthersGrow
  <1> QED BY <1>1, <1>2 DEF ProcessInv

---------------------------------------------------------------------------
(* The theorems.                                                            *)

LEMMA ProcessInitial == ProcessInit => ProcessInv
  <1> SUFFICES ASSUME ProcessInit PROVE ProcessInv
    OBVIOUS
  <1>1. /\ mem = [process |-> [p \in Proc |-> NoProc], file |-> [f \in File |-> NoFile]]
        /\ child = [p \in Proc |-> NoChild] /\ others = {} /\ leaked = {}
        /\ processVariable = [v \in ProcessVariable |-> NIL]
        /\ fileVariable = [w \in FileVariable |-> NIL]
    BY DEF ProcessInit
  <1>2. mem \in Memory /\ (\A p \in Proc : mem.process[p] = NoProc)
        /\ \A f \in File : mem.file[f] = NoFile
    BY <1>1, UseFacts DEF Memory
  <1>3. child \in Children /\ \A p \in Proc : child[p] = NoChild
    BY <1>1 DEF Children, NoChild, Exit
  <1>4. /\ processVariable \in [ProcessVariable -> Proc \cup {NIL}]
        /\ fileVariable \in [FileVariable -> File \cup {NIL}]
        /\ \A v \in ProcessVariable : processVariable[v] = NIL
        /\ \A w \in FileVariable : fileVariable[w] = NIL
    BY <1>1
  <1>5. RecordsCounted(mem, processVariable)
    <2>1. ASSUME NEW p \in Proc
          PROVE  Count(processVariable, p) = 0
      <3>1. {v \in DOMAIN processVariable : processVariable[v] = p} = {}
        BY <1>1, UseFacts
      <3> QED BY <3>1, FS_EmptySet DEF Count
    <2> QED BY <1>2, <2>1 DEF RecordsCounted, NoProc
  <1>6. FilesCounted(mem, fileVariable, UsesOf(mem))
    <2>1. \A use \in Use : UsesOf(mem)[use] = NIL
      <3>1. ASSUME NEW p \in Proc, NEW std \in Stream
            PROVE  UsesOf(mem)[<<p, std>>] = NIL
        BY <1>2, UsesType DEF NoProc, NoFiles
      <3> QED BY <3>1 DEF Use
    <2>2. ASSUME NEW f \in File
          PROVE  Count(fileVariable, f) = 0 /\ Count(UsesOf(mem), f) = 0
      <3>1. {w \in DOMAIN fileVariable : fileVariable[w] = f} = {}
        BY <1>1, UseFacts
      <3>2. DOMAIN UsesOf(mem) = Use
        BY <1>2, UsesType
      <3>3. {use \in DOMAIN UsesOf(mem) : UsesOf(mem)[use] = f} = {}
        BY <2>1, <3>2, UseFacts
      <3> QED BY <3>1, <3>3, FS_EmptySet DEF Count
    <2> QED BY <1>2, <2>2 DEF FilesCounted, NoFile
  <1>7. ChildrenOK(mem.process, child, others)
    <2>1. \A p \in Proc : ~(mem.process[p].usage > 0)
      BY <1>2 DEF NoProc
    <2>2. \A p \in Proc : ~LivesIn(child, p)
      BY <1>3 DEF LivesIn, NoChild
    <2>3. UnusedIsEmpty(mem.process, child)
      BY <1>2, <1>3 DEF UnusedIsEmpty
    <2> QED BY <2>1, <2>2, <2>3 DEF ChildrenOK, OwnChild, DifferentPids
  <1> QED BY <1>1, <1>2, <1>3, <1>4, <1>5, <1>6, <1>7 DEF ProcessInv

LEMMA ProcessStep == ProcessInv /\ [ProcessNext]_processVars => ProcessInv'
  <1> SUFFICES ASSUME ProcessInv, [ProcessNext]_processVars PROVE ProcessInv'
    OBVIOUS
  <1>1. ASSUME NEW p \in Proc, ChildEnds(p) PROVE ProcessInv'
    BY <1>1, ChildEndsStep
  <1>2. CASE OtherStarts
    BY <1>2, OtherStartsStep
  <1>3. ASSUME NEW v \in ProcessVariable, pcsStart(v) PROVE ProcessInv'
    BY <1>3, StartStep
  <1>4. ASSUME NEW v \in ProcessVariable, pcsStartPipe(v) PROVE ProcessInv'
    BY <1>4, StartPipeStep
  <1>5. ASSUME NEW v \in ProcessVariable, pcsIsAlive(v) \/ pcsWaitFor(v) PROVE ProcessInv'
    BY <1>5, WaitStep
  <1>6. ASSUME NEW v \in ProcessVariable, pcsKill(v) PROVE ProcessInv'
    BY <1>6, KillStep
  <1>7. ASSUME NEW v \in ProcessVariable, ProcessVariableEnds(v) PROVE ProcessInv'
    BY <1>7, ProcessVariableEndsStep
  <1>8. ASSUME NEW v \in ProcessVariable, NEW u \in ProcessVariable, pcsCpy(v, u)
        PROVE  ProcessInv'
    BY <1>8, CpyStep
  <1>9. ASSUME NEW v \in ProcessVariable, NEW std \in Stream, NEW w \in FileVariable,
               pcsChildFile(v, std, w)
        PROVE  ProcessInv'
    BY <1>9, pcsChildFileStep
  <1>10. ASSUME NEW w \in FileVariable, filClose(w) PROVE ProcessInv'
    BY <1>10, filCloseStep
  <1>11. ASSUME NEW w \in FileVariable, FileVariableEnds(w) PROVE ProcessInv'
    BY <1>11, FileVariableEndsStep
  <1>12. ASSUME NEW w \in FileVariable, NEW x \in FileVariable, pcsPipe2(w, x)
         PROVE  ProcessInv'
    BY <1>12, Pipe2Step
  <1>13. ASSUME NEW w \in FileVariable, NEW x \in FileVariable, pcsPty(w, x)
         PROVE  ProcessInv'
    BY <1>13, PtyStep
  <1>14. CASE UNCHANGED processVars
    BY <1>14 DEF processVars, ProcessInv
  <1> QED BY <1>1, <1>2, <1>3, <1>4, <1>5, <1>6, <1>7, <1>8, <1>9, <1>10, <1>11, <1>12, <1>13,
             <1>14 DEF ProcessNext

LEMMA ProcessInvariant == ProcessSpec => []ProcessInv
  BY ProcessInitial, ProcessStep, PTL DEF ProcessSpec

(* Records, files, children and variables have their types at all times,    *)
(* whatever is started, waited for, killed, copied and closed (pcs_unx.c,   *)
(* pcs_rtl.c).                                                              *)
THEOREM ProcessTyped == ProcessSpec => []ProcessTypeOK
  <1>1. ProcessInv => ProcessTypeOK
    BY DEF ProcessInv, ProcessTypeOK, Memory, ProcessRecord, FileRecord, Children
  <1> QED BY <1>1, ProcessInvariant, PTL

(* The usage counts of pcsCpy, pcsDestr, pcsFree and of the files of pipes  *)
(* are the numbers of references, and only a file with a usage is open.     *)
THEOREM UsageOfProcesses == ProcessSpec => []ProcessesCounted
  <1>1. ProcessInv => ProcessesCounted
    <2> SUFFICES ASSUME ProcessInv PROVE ProcessesCounted
      OBVIOUS
    <2>1. /\ DOMAIN processVariable = ProcessVariable /\ DOMAIN fileVariable = FileVariable
          /\ DOMAIN UsesOf(mem) = Proc \X Stream
      BY UsesType DEF ProcessInv, Use
    <2>2. \A p \in Proc : mem.process[p].usage =
                            Cardinality({v \in ProcessVariable : processVariable[v] = p})
      BY <2>1 DEF ProcessInv, RecordsCounted, Count
    <2>3. ASSUME NEW f \in File
          PROVE  Count(UsesOf(mem), f) =
                   Cardinality({use \in Proc \X Stream : mem.process[use[1]].file[use[2]] = f})
      <3>1. \A use \in Proc \X Stream : UsesOf(mem)[use] = mem.process[use[1]].file[use[2]]
        BY DEF UsesOf, Use
      <3>2. {use \in Proc \X Stream : UsesOf(mem)[use] = f} =
              {use \in Proc \X Stream : mem.process[use[1]].file[use[2]] = f}
        BY <3>1
      <3> QED BY <2>1, <3>2 DEF Count
    <2>4. \A f \in File : Count(fileVariable, f) =
                            Cardinality({w \in FileVariable : fileVariable[w] = f})
      BY <2>1 DEF Count
    <2>5. \A f \in File : /\ mem.file[f].usage = Count(fileVariable, f) + Count(UsesOf(mem), f)
                          /\ mem.file[f].open => mem.file[f].usage > 0
      BY DEF ProcessInv, FilesCounted
    <2> QED BY <2>2, <2>3, <2>4, <2>5 DEF ProcessesCounted
  <1> QED BY <1>1, ProcessInvariant, PTL

(* waitpid is called with an id only while it is that of the own child, and *)
(* the exit value that it left is the one of this child, though the system  *)
(* gives ids to other processes (pcsIsAlive, pcsWaitFor, pcsExitValue).     *)
THEOREM OwnChildAwaited == ProcessSpec => []WaitsForOwnChild
  <1>1. ProcessInv => WaitsForOwnChild
    BY DEF ProcessInv, ChildrenOK, OwnChild, WaitsForOwnChild, Lives, LivesIn
  <1> QED BY <1>1, ProcessInvariant, PTL

(* Every branch for a step that fails in pcsStart, pcsStartPipe, pcsPipe2   *)
(* and pcsPty gives up all memory and all descriptors acquired before it.   *)
THEOREM FailuresReleaseAll == ProcessSpec => []NothingLeaked
  <1>1. ProcessInv => NothingLeaked
    BY DEF ProcessInv, NothingLeaked
  <1> QED BY <1>1, ProcessInvariant, PTL

---------------------------------------------------------------------------
(* MoveFile: the inductive invariant, what is known about the disk in each  *)
(* phase.                                                                   *)

Present(place, n) == disk[place][n] # "absent"
Empty(place) == \A n \in Node : ~Present(place, n)

\* What is below a directory that does not exist does not exist.
Connected == \A place \in Place, d \in Directory : ~Present(place, d) =>
               \A n \in Entries(d) : ~Present(place, n)

\* Between the operations.
IdleDisk ==
    /\ Exists("from") => Whole("from") /\ Empty("temp")
    /\ Whole("from") \/ AllRead("to") \/ (Whole("temp") /\ May("rename"))
    /\ job.op = "move" /\ ~err_info => AllRead("to") /\ Empty("from") /\ Empty("temp")

\* Before and while the tree is copied.
SourceReady ==
    /\ job.op \in {"move", "clone"}
    /\ Whole(Source)
    /\ IF job.op = "move" THEN Empty("from") ELSE Empty("temp")

\* remove_dir has been called by copy_dir only because of an error.
CopyFrames == \A i \in 1..Len(frames) :
    /\ frames[i].place = "to" /\ frames[i].node \in Directory /\ Present("to", frames[i].node)
    /\ frames[i].left \subseteq Entries(frames[i].node)
    /\ frames[i].call = "remove_dir" => err_info

\* The entries of a directory that was created have been copied, were not read, or are
\* going to be copied.
Copying(n) == job.phase = "open" /\ job.file = n
WillBeCopied(n) == \E i \in 1..Len(frames) : n \in frames[i].left
CopiedSoFar ==
    /\ disk["to"][Root] = "complete"
    /\ \A d \in Directory : disk["to"][d] = "complete" =>
         \A n \in Entries(d) : \/ disk["to"][n] = "complete" \/ n \in unread
                                \/ WillBeCopied(n) \/ Copying(n)

\* The entries of a directory that is being removed have been removed, or are going to be.
BeingRemoved(i, n) == i < Len(frames) /\ n = frames[i + 1].node
RemoveFrames(place) ==
    /\ \A i \in 1..Len(frames) :
         /\ frames[i].call = "remove_dir" /\ frames[i].place = place /\ frames[i].node \in Directory
         /\ ~err_info => \A n \in Entries(frames[i].node) :
                           Present(place, n) => n \in frames[i].left \/ BeingRemoved(i, n)
    /\ IF frames = <<>> THEN ~err_info => Empty(place) ELSE frames[1].node = Root

Removing ==
    \/ job.op = "move" /\ AllRead("to") /\ Empty("from") /\ RemoveFrames("temp")
    \/ job.op = "removeTree" /\ Whole("from") /\ Empty("temp") /\ RemoveFrames("to")

PhaseInv ==
    \/ job.phase = "idle" /\ frames = <<>> /\ IdleDisk
    \/ job.phase = "start" /\ frames = <<>> /\ ~err_info /\ SourceReady /\ Empty("to")
    \/ job.phase = "copy" /\ SourceReady /\ CopyFrames /\ (~err_info => CopiedSoFar)
    \/ /\ job.phase = "open" /\ SourceReady /\ CopyFrames /\ ~err_info /\ CopiedSoFar
       /\ job.file \notin Directory /\ Present("to", job.file)
    \/ job.phase = "remove" /\ Removing

DiskInv == MoveTypeOK /\ Connected /\ PhaseInv

\* Below a directory that was not read nothing was read.
UnreadClosed == \A d \in Directory \cap unread : Entries(d) \subseteq unread

MoveInv == DiskInv /\ UnreadClosed
---------------------------------------------------------------------------
(* The tree, the disk and the frames.                                       *)

Status == {"absent", "partial", "complete"}

\* A set that has the root, and with a directory all its entries, has all nodes.
LEMMA AllNodes ==
  ASSUME NEW below \in SUBSET Node, Root \in below,
         \A d \in Directory : d \in below => Entries(d) \subseteq below
  PROVE  below = Node
  BY TreeAssumption

LEMMA RootIsNode == Root \in Directory /\ Root \in Node /\ Directory \subseteq Node
  BY TreeAssumption

LEMMA EntryIsNode ==
  ASSUME NEW d \in Directory, NEW n \in Entries(d)
  PROVE  n \in Node /\ n # Root /\ \A d2 \in Directory : n \in Entries(d2) => d2 = d
  BY TreeAssumption

LEMMA MoveTypes ==
  ASSUME MoveTypeOK
  PROVE  /\ disk \in [Place -> [Node -> Status]]
         /\ \A place \in Place, n \in Node : disk[place][n] \in Status
         /\ frames \in Seq(Frame) /\ Len(frames) \in Nat
         /\ \A i \in 1..Len(frames) :
              /\ frames[i] \in Frame /\ frames[i].call \in {"copy_dir", "remove_dir"}
              /\ frames[i].place \in Place /\ frames[i].node \in Node /\ frames[i].left \subseteq Node
         /\ err_info \in BOOLEAN /\ job.file \in Node /\ DOMAIN job = {"op", "phase", "file"}
  <1>1. disk \in [Place -> [Node -> Status]]
    BY DEF MoveTypeOK, Status
  <1>2. \A place \in Place, n \in Node : disk[place][n] \in Status
    BY <1>1
  <1>3. frames \in Seq(Frame) /\ Len(frames) \in Nat /\ \A i \in 1..Len(frames) : frames[i] \in Frame
    BY DEF MoveTypeOK
  <1>4. \A frame \in Frame : /\ frame.call \in {"copy_dir", "remove_dir"} /\ frame.place \in Place
                             /\ frame.node \in Node /\ frame.left \subseteq Node
    BY DEF Frame
  <1>5. err_info \in BOOLEAN /\ job.file \in Node /\ DOMAIN job = {"op", "phase", "file"}
    BY DEF MoveTypeOK
  <1> QED BY <1>1, <1>2, <1>3, <1>4, <1>5

LEMMA RootAbsent ==
  ASSUME MoveTypeOK, Connected, NEW place \in Place, ~Present(place, Root)
  PROVE  Empty(place)
  <1> DEFINE absent == {n \in Node : ~Present(place, n)}
  <1>1. Root \in absent
    BY RootIsNode
  <1>2. ASSUME NEW d \in Directory, d \in absent
        PROVE  Entries(d) \subseteq absent
    BY <1>2, EntryIsNode DEF Connected
  <1>3. absent = Node
    BY <1>1, <1>2, AllNodes
  <1> QED BY <1>3 DEF Empty

\* One node of the disk was changed.
LEMMA DiskUpdate ==
  ASSUME MoveTypeOK, NEW place \in Place, NEW n \in Node, NEW status \in Status,
         disk' = [disk EXCEPT ![place][n] = status]
  PROVE  /\ disk' \in [Place -> [Node -> Status]]
         /\ disk'[place][n] = status
         /\ \A p \in Place : p # place => disk'[p] = disk[p]
         /\ \A m \in Node : m # n => disk'[place][m] = disk[place][m]
  <1>1. disk \in [Place -> [Node -> Status]]
    BY MoveTypes
  <1>2. [disk[place] EXCEPT ![n] = status] \in [Node -> Status]
    BY <1>1
  <1>3. disk' = [disk EXCEPT ![place] = [disk[place] EXCEPT ![n] = status]]
    OBVIOUS
  <1> QED BY <1>1, <1>2, <1>3

\* A tree was renamed.
LEMMA DiskRename ==
  ASSUME MoveTypeOK, NEW old \in Place, NEW new \in Place, old # new, disk' = Rename(old, new)
  PROVE  /\ disk' \in [Place -> [Node -> Status]]
         /\ disk'[new] = disk[old] /\ disk'[old] = Nothing
         /\ \A p \in Place : p # old /\ p # new => disk'[p] = disk[p]
  <1>1. disk \in [Place -> [Node -> Status]] /\ Nothing \in [Node -> Status]
    BY MoveTypes DEF Nothing, Status
  <1>2. disk[old] \in [Node -> Status]
    BY <1>1
  <1> QED BY <1>1, <1>2 DEF Rename

LEMMA PushedFrames ==
  ASSUME NEW s \in Seq(Frame), NEW frame \in Frame
  PROVE  /\ Append(s, frame) \in Seq(Frame) /\ Len(Append(s, frame)) = Len(s) + 1
         /\ \A i \in 1..Len(s) : Append(s, frame)[i] = s[i]
         /\ Append(s, frame)[Len(s) + 1] = frame
  OBVIOUS

LEMMA PoppedFrames ==
  ASSUME MoveTypeOK, frames # <<>>
  PROVE  /\ Popped \in Seq(Frame) /\ Len(frames) > 0 /\ Len(Popped) = Len(frames) - 1
         /\ \A i \in 1..Len(Popped) : Popped[i] = frames[i]
         /\ Innermost \in Frame
  <1>1. frames \in Seq(Frame) /\ Len(frames) \in Nat \ {0}
    BY EmptySeq DEF MoveTypeOK
  <1>2. \A i \in 1..Len(frames) - 1 : frames[i] \in Frame
    BY <1>1
  <1>3. /\ Popped \in Seq(Frame)
        /\ 1 <= Len(frames) - 1 => Len(Popped) = Len(frames) - 1 - 1 + 1
        /\ ~(1 <= Len(frames) - 1) => Len(Popped) = 0
        /\ \A i \in 1..Len(frames) - 1 - 1 + 1 : Popped[i] = frames[1 + i - 1]
    BY <1>1, <1>2, SubSeqProperties DEF Popped
  <1>4. Len(Popped) = Len(frames) - 1 /\ \A i \in 1..Len(frames) - 1 : Popped[i] = frames[i]
    <2>1. Len(Popped) = Len(frames) - 1
      BY <1>1, <1>3
    <2>2. ASSUME NEW i \in 1..Len(frames) - 1
          PROVE  Popped[i] = frames[i]
      <3>1. i \in 1..Len(frames) - 1 - 1 + 1 /\ 1 + i - 1 = i
        BY <1>1
      <3> QED BY <3>1, <1>3
    <2> QED BY <2>1, <2>2
  <1> QED BY <1>1, <1>3, <1>4 DEF Innermost

LEMMA FramesWithoutEntry ==
  ASSUME MoveTypeOK, frames # <<>>, NEW e
  PROVE  /\ WithoutEntry(e) \in Seq(Frame) /\ Len(WithoutEntry(e)) = Len(frames)
         /\ \A i \in 1..Len(frames) :
              /\ WithoutEntry(e)[i].call = frames[i].call /\ WithoutEntry(e)[i].place = frames[i].place
              /\ WithoutEntry(e)[i].node = frames[i].node
              /\ WithoutEntry(e)[i].left = IF i = Len(frames) THEN frames[i].left \ {e}
                                           ELSE frames[i].left
  <1> DEFINE last == Len(frames)
             frame == [frames[last] EXCEPT !.left = @ \ {e}]
  <1>1. frames \in Seq(Frame) /\ last \in 1..Len(frames) /\ frames[last] \in Frame
    BY EmptySeq DEF MoveTypeOK
  <1>2. /\ frame \in Frame /\ frame.left = frames[last].left \ {e} /\ frame.call = frames[last].call
        /\ frame.place = frames[last].place /\ frame.node = frames[last].node
    BY <1>1 DEF Frame
  <1>3. WithoutEntry(e) = [frames EXCEPT ![last] = frame]
    BY DEF WithoutEntry
  <1> HIDE DEF frame
  <1>4. /\ WithoutEntry(e) \in Seq(Frame) /\ Len(WithoutEntry(e)) = Len(frames)
        /\ \A i \in 1..Len(frames) : WithoutEntry(e)[i] = IF i = last THEN frame ELSE frames[i]
    BY <1>1, <1>2, <1>3, ExceptSeq
  <1> QED BY <1>2, <1>4

LEMMA JobTyped ==
  ASSUME MoveTypeOK,
         NEW op \in {"none", "move", "clone", "removeTree"}, NEW phase \in Phase, NEW file \in Node,
         \/ job' = [job EXCEPT !.op = op] /\ phase = job.phase /\ file = job.file
         \/ job' = [job EXCEPT !.phase = phase] /\ op = job.op /\ file = job.file
         \/ job' = [job EXCEPT !.op = op, !.phase = phase] /\ file = job.file
         \/ job' = [job EXCEPT !.phase = phase, !.file = file] /\ op = job.op
  PROVE  /\ job' \in [op : {"none", "move", "clone", "removeTree"}, phase : Phase, file : Node]
         /\ job'.op = op /\ job'.phase = phase /\ job'.file = file
  BY DEF MoveTypeOK

LEMMA DiskInvInit == MoveInit => DiskInv
  <1> SUFFICES ASSUME MoveInit PROVE DiskInv
    OBVIOUS
  <1>1. /\ disk \in [Place -> [Node -> Status]] /\ Whole("from") /\ Empty("to") /\ Empty("temp")
        /\ \A n \in Node : disk["from"][n] = "complete"
    BY DEF MoveInit, Nothing, Place, Status, Whole, Empty, Present
  <1>2. MoveTypeOK
    <2>1. frames \in Seq(Frame)
      BY EmptySeq DEF MoveInit
    <2>2. job \in [op : {"none", "move", "clone", "removeTree"}, phase : Phase, file : Node]
      BY RootIsNode DEF MoveInit, NoJob, Phase
    <2> QED BY <1>1, <2>1, <2>2 DEF MoveInit, MoveTypeOK, Status
  <1>3. Connected
    BY <1>1, EntryIsNode, RootIsNode DEF Connected, Present, Place, Whole, Empty
  <1>4. IdleDisk
    BY <1>1 DEF MoveInit, IdleDisk, NoJob
  <1> QED BY <1>2, <1>3, <1>4 DEF MoveInit, DiskInv, PhaseInv, NoJob

\* A renamed tree is as connected as it was.
LEMMA RenameKeepsConnected ==
  ASSUME MoveTypeOK, Connected, NEW old \in Place, NEW new \in Place, old # new,
         disk' = Rename(old, new)
  PROVE  Connected'
  <1>1. /\ disk'[new] = disk[old] /\ disk'[old] = Nothing
        /\ \A p \in Place : p # old /\ p # new => disk'[p] = disk[p]
    BY DiskRename
  <1>2. \A n \in Node : Nothing[n] = "absent"
    BY DEF Nothing
  <1>3. ASSUME NEW place \in Place, NEW d \in Directory, ~Present(place, d)', NEW n \in Entries(d)
        PROVE  ~Present(place, n)'
    <2>1. d \in Node /\ n \in Node
      BY EntryIsNode, RootIsNode
    <2>2. CASE place = old
      BY <2>1, <2>2, <1>1, <1>2 DEF Present
    <2>3. CASE place = new
      BY <2>1, <2>3, <1>1, <1>3 DEF Present, Connected
    <2>4. CASE place # old /\ place # new
      BY <2>1, <2>4, <1>1, <1>3 DEF Present, Connected
    <2> QED BY <2>2, <2>3, <2>4
  <1> QED BY <1>3 DEF Connected

---------------------------------------------------------------------------
(* The operations.                                                          *)

LEMMA cmdMoveKeeps ==
  ASSUME DiskInv, cmdMove
  PROVE  DiskInv'
  <1>1. MoveTypeOK /\ Connected /\ frames = <<>> /\ IdleDisk /\ job.phase = "idle" /\ frames' = frames
    BY DEF DiskInv, PhaseInv, cmdMove
  <1>2. "from" \in Place /\ "temp" \in Place /\ "to" \in Place
    BY DEF Place
  <1>3. CASE err_info' = TRUE /\ job' = [job EXCEPT !.op = "move"] /\ UNCHANGED <<disk, unread>>
    <2>1. MoveTypeOK' /\ job'.phase = "idle"
      BY <1>1, <1>3, JobTyped DEF MoveTypeOK
    <2>2. Connected'
      BY <1>1, <1>3 DEF Connected, Present
    <2>3. IdleDisk'
      BY <1>1, <1>3 DEF IdleDisk, Exists, Whole, AllRead, Empty, Present
    <2> QED BY <1>1, <2>1, <2>2, <2>3 DEF DiskInv, PhaseInv
  <1>4. CASE /\ ~Exists("to") /\ Exists("from") /\ disk' = Rename("from", "to")
             /\ err_info' = FALSE /\ unread' = {} /\ job' = [job EXCEPT !.op = "move"]
    <2>1. /\ disk' \in [Place -> [Node -> Status]] /\ Connected'
          /\ disk'["to"] = disk["from"] /\ disk'["from"] = Nothing /\ disk'["temp"] = disk["temp"]
      BY <1>1, <1>2, <1>4, DiskRename, RenameKeepsConnected
    <2>2. MoveTypeOK' /\ job'.phase = "idle"
      BY <1>1, <1>4, <2>1, JobTyped DEF MoveTypeOK, Status
    <2>3. Whole("from") /\ Empty("temp")
      BY <1>1, <1>4 DEF IdleDisk
    <2>4. AllRead("to")' /\ Empty("from")' /\ Empty("temp")' /\ ~Exists("from")'
      BY <2>1, <2>3, RootIsNode DEF Whole, AllRead, Empty, Present, Nothing, Exists
    <2> QED BY <1>1, <2>1, <2>2, <2>4 DEF DiskInv, PhaseInv, IdleDisk
  <1>5. CASE /\ ~Exists("to") /\ Exists("from") /\ disk' = Rename("from", "temp")
             /\ err_info' = FALSE /\ unread' = {}
             /\ job' = [job EXCEPT !.op = "move", !.phase = "start"]
    <2>1. /\ disk' \in [Place -> [Node -> Status]] /\ Connected'
          /\ disk'["temp"] = disk["from"] /\ disk'["from"] = Nothing /\ disk'["to"] = disk["to"]
      BY <1>1, <1>2, <1>5, DiskRename, RenameKeepsConnected
    <2>2. MoveTypeOK' /\ job'.phase = "start" /\ job'.op = "move"
      BY <1>1, <1>5, <2>1, JobTyped DEF MoveTypeOK, Status, Phase
    <2>3. Whole("from") /\ Empty("to")
      BY <1>1, <1>2, <1>5, RootAbsent DEF IdleDisk, Exists, Present
    <2>4. Whole("temp")' /\ Empty("from")' /\ Empty("to")'
      BY <2>1, <2>3 DEF Whole, Empty, Present, Nothing
    <2> QED BY <1>1, <1>5, <2>1, <2>2, <2>4 DEF DiskInv, PhaseInv, SourceReady, Source
  <1> QED BY <1>3, <1>4, <1>5 DEF cmdMove

LEMMA cmdCloneFileKeeps ==
  ASSUME DiskInv, cmdCloneFile
  PROVE  DiskInv'
  <1>1. /\ MoveTypeOK /\ Connected /\ frames = <<>> /\ IdleDisk /\ job.phase = "idle"
        /\ frames' = frames /\ disk' = disk
    BY DEF DiskInv, PhaseInv, cmdCloneFile
  <1>2. Connected'
    BY <1>1 DEF Connected, Present
  <1>3. CASE /\ Exists("from") /\ ~Exists("to") /\ err_info' = FALSE /\ unread' = {}
             /\ job' = [job EXCEPT !.op = "clone", !.phase = "start"]
    <2>1. MoveTypeOK' /\ job'.phase = "start" /\ job'.op = "clone"
      BY <1>1, <1>3, JobTyped DEF MoveTypeOK, Phase
    <2>2. Whole("from") /\ Empty("temp") /\ Empty("to")
      BY <1>1, <1>3, RootAbsent DEF IdleDisk, Exists, Present, Place
    <2>3. (Whole("from") /\ Empty("temp") /\ Empty("to"))'
      BY <1>1, <2>2 DEF Whole, Empty, Present
    <2> QED BY <1>1, <1>2, <1>3, <2>1, <2>3 DEF DiskInv, PhaseInv, SourceReady, Source
  <1>4. CASE err_info' = TRUE /\ job' = [job EXCEPT !.op = "clone"] /\ unread' = unread
    <2>1. MoveTypeOK' /\ job'.phase = "idle"
      BY <1>1, <1>4, JobTyped DEF MoveTypeOK
    <2>2. IdleDisk'
      BY <1>1, <1>4 DEF IdleDisk, Exists, Whole, AllRead, Empty, Present
    <2> QED BY <1>1, <1>2, <2>1, <2>2 DEF DiskInv, PhaseInv
  <1> QED BY <1>3, <1>4 DEF cmdCloneFile

\* remove_dir was called for the root.
LEMMA RemovalStarts ==
  ASSUME MoveTypeOK, Connected, frames = <<>>, NEW place \in Place, disk' = disk,
         frames' = Open("remove_dir", place, Root, EntriesAt(place, Root))
  PROVE  frames' \in Seq(Frame) /\ RemoveFrames(place)'
  <1> DEFINE frame == [call |-> "remove_dir", place |-> place, node |-> Root,
                       left |-> EntriesAt(place, Root)]
  <1>1. frame \in Frame
    BY RootIsNode, EntryIsNode DEF Frame, EntriesAt
  <1>2. frames' = Append(frames, frame)
    BY DEF Open
  <1>3. \A n \in Entries(Root) : Present(place, n)' => n \in frame.left
    BY DEF EntriesAt, Present
  <1>4. frame.call = "remove_dir" /\ frame.place = place /\ frame.node = Root
    OBVIOUS
  <1> HIDE DEF frame
  <1>5. frames \in Seq(Frame) /\ Len(frames) = 0
    BY EmptySeq DEF MoveTypeOK
  <1>6. frames' \in Seq(Frame) /\ Len(frames') = 1 /\ frames'[1] = frame
    <2>1. /\ Append(frames, frame) \in Seq(Frame) /\ Len(Append(frames, frame)) = Len(frames) + 1
          /\ Append(frames, frame)[Len(frames) + 1] = frame
      BY <1>1, <1>5, PushedFrames
    <2>2. Len(frames) + 1 = 1
      BY <1>5
    <2> QED BY <2>1, <2>2, <1>2
  <1>7. frames' # <<>>
    BY <1>6, EmptySeq
  <1> QED BY <1>3, <1>4, <1>6, <1>7, RootIsNode DEF RemoveFrames

LEMMA cmdRemoveTreeKeeps ==
  ASSUME DiskInv, cmdRemoveTree
  PROVE  DiskInv'
  <1>1. /\ MoveTypeOK /\ Connected /\ frames = <<>> /\ IdleDisk /\ Whole("from")
        /\ disk' = disk /\ unread' = unread
        /\ frames' = Open("remove_dir", "to", Root, EntriesAt("to", Root)) /\ err_info' = FALSE
        /\ job' = [job EXCEPT !.op = "removeTree", !.phase = "remove"]
    BY DEF DiskInv, PhaseInv, cmdRemoveTree
  <1>2. frames' \in Seq(Frame) /\ RemoveFrames("to")'
    BY <1>1, RemovalStarts DEF Place
  <1>3. MoveTypeOK' /\ job'.phase = "remove" /\ job'.op = "removeTree"
    BY <1>1, <1>2, JobTyped DEF MoveTypeOK, Phase
  <1>4. Exists("from") /\ Empty("temp")
    BY <1>1, RootIsNode DEF IdleDisk, Exists, Whole
  <1>5. Connected' /\ Whole("from")' /\ Empty("temp")'
    BY <1>1, <1>4 DEF Connected, Present, Whole, Empty
  <1> QED BY <1>2, <1>3, <1>5 DEF DiskInv, PhaseInv, Removing

LEMMA RemoveReturnsKeeps ==
  ASSUME DiskInv, RemoveReturns
  PROVE  DiskInv'
  <1>1. /\ MoveTypeOK /\ Connected /\ Removing /\ frames = <<>> /\ job' = [job EXCEPT !.phase = "idle"]
        /\ disk' = disk /\ frames' = frames /\ err_info' = err_info /\ unread' = unread
    BY DEF DiskInv, PhaseInv, RemoveReturns
  <1>2. MoveTypeOK' /\ job'.phase = "idle" /\ job'.op = job.op
    <2>1. job.op \in {"none", "move", "clone", "removeTree"} /\ job.file \in Node
      BY <1>1 DEF MoveTypeOK
    <2> QED BY <1>1, <2>1, JobTyped DEF MoveTypeOK, Phase
  <1>3. Connected'
    BY <1>1 DEF Connected, Present
  <1>4. IdleDisk
    <2>1. Whole("from") => Exists("from")
      BY RootIsNode DEF Whole, Exists
    <2>2. Empty("from") => ~Exists("from")
      BY RootIsNode DEF Empty, Exists, Present
    <2> QED BY <1>1, <2>1, <2>2 DEF Removing, RemoveFrames, IdleDisk
  <1>5. IdleDisk'
    BY <1>1, <1>2, <1>4 DEF IdleDisk, Exists, Whole, AllRead, Empty, Present
  <1> QED BY <1>1, <1>2, <1>3, <1>5 DEF DiskInv, PhaseInv

LEMMA CloneReturnsKeeps ==
  ASSUME DiskInv, CloneReturns
  PROVE  DiskInv'
  <1>1. /\ MoveTypeOK /\ Connected /\ SourceReady /\ frames = <<>> /\ job.op = "clone"
        /\ job' = [job EXCEPT !.phase = "idle"]
        /\ disk' = disk /\ frames' = frames /\ err_info' = err_info /\ unread' = unread
    BY DEF DiskInv, PhaseInv, CloneReturns
  <1>2. MoveTypeOK' /\ job'.phase = "idle" /\ job'.op = "clone"
    <2>1. job.file \in Node
      BY <1>1 DEF MoveTypeOK
    <2> QED BY <1>1, <2>1, JobTyped DEF MoveTypeOK, Phase
  <1>3. Connected'
    BY <1>1 DEF Connected, Present
  <1>4. Whole("from")' /\ Empty("temp")'
    BY <1>1 DEF SourceReady, Source, Whole, Empty, Present
  <1> QED BY <1>1, <1>2, <1>3, <1>4 DEF DiskInv, PhaseInv, IdleDisk
---------------------------------------------------------------------------
(* Copying.                                                                 *)

LEMMA SourceKept ==
  ASSUME SourceReady, disk'["from"] = disk["from"], disk'["temp"] = disk["temp"], job'.op = job.op
  PROVE  SourceReady'
  BY DEF SourceReady, Source, Whole, Empty, Present

\* A node was created at the destination in a directory that exists.
LEMMA CreatedConnected ==
  ASSUME MoveTypeOK, Connected, NEW n \in Node, NEW status \in Status \ {"absent"},
         disk' = [disk EXCEPT !["to"][n] = status],
         \A d \in Directory : n \in Entries(d) => Present("to", d)
  PROVE  /\ Connected' /\ disk' \in [Place -> [Node -> Status]]
         /\ disk'["to"][n] = status
         /\ \A p \in Place : p # "to" => disk'[p] = disk[p]
         /\ \A m \in Node : m # n => disk'["to"][m] = disk["to"][m]
  <1>1. "to" \in Place /\ status \in Status
    BY DEF Place
  <1>2. /\ disk' \in [Place -> [Node -> Status]]
        /\ disk'["to"][n] = status
        /\ \A p \in Place : p # "to" => disk'[p] = disk[p]
        /\ \A m \in Node : m # n => disk'["to"][m] = disk["to"][m]
    BY <1>1, DiskUpdate
  <1>3. ASSUME NEW place \in Place, NEW d \in Directory, ~Present(place, d)', NEW m \in Entries(d)
        PROVE  ~Present(place, m)'
    <2>1. d \in Node /\ m \in Node
      BY EntryIsNode, RootIsNode
    <2>2. CASE place # "to"
      BY <2>1, <2>2, <1>2, <1>3 DEF Present, Connected
    <2>3. CASE place = "to"
      <3>1. d # n /\ ~Present("to", d)
        BY <2>1, <2>3, <1>2, <1>3 DEF Present
      <3>2. m # n /\ ~Present("to", m)
        BY <3>1, <1>1 DEF Connected
      <3> QED BY <3>2, <2>1, <2>3, <1>2 DEF Present
    <2> QED BY <2>2, <2>3
  <1> QED BY <1>2, <1>3 DEF Connected

\* copy_any_file for a node whose directory has been created, when the rest will be copied by
\* the calls of copy_dir that go on.
LEMMA CopyAnyFileKeeps ==
  ASSUME MoveTypeOK, Connected, SourceReady, ~err_info, NEW n \in Node, NEW before \in Seq(Frame),
         \A i \in 1..Len(before) :
            /\ before[i].call = "copy_dir" /\ before[i].place = "to" /\ before[i].node \in Directory
            /\ Present("to", before[i].node) /\ before[i].left \subseteq Entries(before[i].node),
         \A d \in Directory : n \in Entries(d) => Present("to", d),
         n = Root \/ disk["to"][Root] = "complete",
         \A d \in Directory : disk["to"][d] = "complete" =>
            \A m \in Entries(d) : \/ disk["to"][m] = "complete" \/ m \in unread \/ m = n
                                  \/ \E i \in 1..Len(before) : m \in before[i].left,
         CopyAnyFile(n, before, "copy"), unread' = unread
  PROVE  DiskInv'
  <1>1. "to" \in Place /\ "complete" \in Status \ {"absent"} /\ "partial" \in Status \ {"absent"}
    BY DEF Place, Status
  <1>2. job.op \in {"none", "move", "clone", "removeTree"} /\ job.file \in Node /\ Len(before) \in Nat
    BY DEF MoveTypeOK
  <1>3. CASE /\ n \in Directory /\ disk' = [disk EXCEPT !["to"][n] = "complete"]
             /\ frames' = Append(before, [call |-> "copy_dir", place |-> "to", node |-> n,
                                          left |-> EntriesAt(Source, n)])
             /\ job' = [job EXCEPT !.phase = "copy"] /\ UNCHANGED err_info
    <2> DEFINE frame == [call |-> "copy_dir", place |-> "to", node |-> n,
                         left |-> EntriesAt(Source, n)]
    <2>1. frame.left = Entries(n)
      <3>1. ASSUME NEW e \in Entries(n)
            PROVE  e \in EntriesAt(Source, n)
        <4>1. e \in Node
          BY <1>3, EntryIsNode
        <4> QED BY <4>1 DEF SourceReady, Whole, EntriesAt
      <3> QED BY <3>1 DEF EntriesAt
    <2>2. frame \in Frame
      BY <2>1, <1>1, <1>3, EntryIsNode DEF Frame
    <2>3. frame.call = "copy_dir" /\ frame.place = "to" /\ frame.node = n /\ frames' = Append(before, frame)
      BY <1>3
    <2> HIDE DEF frame
    <2>4. /\ frames' \in Seq(Frame) /\ Len(frames') = Len(before) + 1
          /\ \A i \in 1..Len(before) : frames'[i] = before[i]
          /\ frames'[Len(before) + 1] = frame
      BY <2>2, <2>3, PushedFrames
    <2>5. /\ disk' \in [Place -> [Node -> Status]]
          /\ disk'["to"][n] = "complete"
          /\ \A p \in Place : p # "to" => disk'[p] = disk[p]
          /\ \A m \in Node : m # n => disk'["to"][m] = disk["to"][m]
          /\ Connected'
      BY <1>1, <1>3, CreatedConnected
    <2>7. MoveTypeOK' /\ job'.phase = "copy" /\ job'.op = job.op
      BY <1>2, <1>3, <2>4, <2>5, JobTyped DEF MoveTypeOK, Status, Phase
    <2>8. SourceReady'
      BY <2>5, <2>7, SourceKept DEF Place
    <2>9. CopyFrames'
      <3>1. ASSUME NEW i \in 1..Len(frames')
            PROVE  /\ frames'[i].place = "to" /\ frames'[i].node \in Directory
                   /\ disk'["to"][frames'[i].node] # "absent"
                   /\ frames'[i].left \subseteq Entries(frames'[i].node)
                   /\ frames'[i].call # "remove_dir"
        <4>1. CASE i = Len(before) + 1
          <5>1. /\ frames'[i].place = "to" /\ frames'[i].node = n /\ frames'[i].left = Entries(n)
                /\ frames'[i].call = "copy_dir"
            BY <4>1, <2>1, <2>3, <2>4
          <5> QED BY <5>1, <2>5, <1>3 DEF Present
        <4>2. CASE i \in 1..Len(before)
          <5>1. frames'[i] = before[i] /\ before[i].node \in Directory /\ before[i].node \in Node
            BY <4>2, <2>4, RootIsNode
          <5>2. Present("to", before[i].node)'
            BY <4>2, <5>1, <2>5 DEF Present
          <5>3. disk'["to"][before[i].node] # "absent"
            BY <5>2 DEF Present
          <5>4. /\ before[i].call = "copy_dir" /\ before[i].place = "to"
                /\ before[i].left \subseteq Entries(before[i].node)
            BY <4>2
          <5> QED BY <5>1, <5>3, <5>4
        <4> QED BY <4>1, <4>2, <2>4, <1>2
      <3>2. \A i \in 1..Len(frames') :
              /\ frames'[i].place = "to" /\ frames'[i].node \in Directory
              /\ disk'["to"][frames'[i].node] # "absent"
              /\ frames'[i].left \subseteq Entries(frames'[i].node)
              /\ frames'[i].call # "remove_dir"
        BY <3>1
      <3> QED BY <3>2 DEF CopyFrames, Present
    <2>10. CopiedSoFar'
      <3>1. disk'["to"][Root] = "complete"
        BY <2>5, RootIsNode
      <3>2. ASSUME NEW d \in Directory, disk'["to"][d] = "complete", NEW m \in Entries(d)
            PROVE  disk'["to"][m] = "complete" \/ m \in unread \/ WillBeCopied(m)'
        <4>1. d \in Node /\ m \in Node
          BY EntryIsNode, RootIsNode
        <4>2. CASE d = n
          <5>1. m \in frames'[Len(before) + 1].left /\ Len(before) + 1 \in 1..Len(frames')
            BY <4>2, <2>1, <2>4, <1>2
          <5> QED BY <5>1 DEF WillBeCopied
        <4>3. CASE d # n
          <5>1. disk["to"][d] = "complete"
            BY <4>1, <4>3, <3>2, <2>5
          <5>2. CASE disk["to"][m] = "complete" \/ m = n
            BY <5>2, <4>1, <2>5
          <5>3. CASE \E i \in 1..Len(before) : m \in before[i].left
            <6>1. PICK i \in 1..Len(before) : m \in before[i].left
              BY <5>3
            <6>2. i \in 1..Len(frames') /\ m \in frames'[i].left
              BY <6>1, <2>4, <1>2
            <6> QED BY <6>2 DEF WillBeCopied
          <5> QED BY <5>1, <5>2, <5>3
        <4> QED BY <4>2, <4>3
      <3> QED BY <3>1, <3>2 DEF CopiedSoFar
    <2> QED BY <2>5, <2>7, <2>8, <2>9, <2>10 DEF DiskInv, PhaseInv
  <1>4. CASE /\ n \notin Directory /\ disk' = [disk EXCEPT !["to"][n] = "partial"]
             /\ frames' = before /\ job' = [job EXCEPT !.phase = "open", !.file = n]
             /\ UNCHANGED err_info
    <2>1. /\ disk' \in [Place -> [Node -> Status]]
          /\ disk'["to"][n] = "partial"
          /\ \A p \in Place : p # "to" => disk'[p] = disk[p]
          /\ \A m \in Node : m # n => disk'["to"][m] = disk["to"][m]
          /\ Connected'
      BY <1>1, <1>4, CreatedConnected
    <2>3. MoveTypeOK' /\ job'.phase = "open" /\ job'.op = job.op /\ job'.file = n
      BY <1>2, <1>4, <2>1, JobTyped DEF MoveTypeOK, Status, Phase
    <2>4. SourceReady'
      BY <2>1, <2>3, SourceKept DEF Place
    <2>5. \A d \in Directory : d \in Node /\ d # n /\ disk'["to"][d] = disk["to"][d]
      BY <2>1, <1>4, RootIsNode
    <2>6. CopyFrames'
      BY <2>5, <1>4 DEF CopyFrames, Present
    <2>7. CopiedSoFar'
      <3>1. disk'["to"][Root] = "complete"
        BY <2>5, <1>4, RootIsNode
      <3>2. ASSUME NEW d \in Directory, disk'["to"][d] = "complete", NEW m \in Entries(d)
            PROVE  disk'["to"][m] = "complete" \/ m \in unread \/ WillBeCopied(m)' \/ Copying(m)'
        <4>1. m \in Node /\ disk["to"][d] = "complete"
          BY EntryIsNode, <2>5, <3>2
        <4>2. CASE m = n
          BY <4>2, <2>3 DEF Copying
        <4>3. CASE m # n /\ disk["to"][m] = "complete"
          BY <4>1, <4>3, <2>1
        <4>4. CASE \E i \in 1..Len(before) : m \in before[i].left
          BY <4>4, <1>4 DEF WillBeCopied
        <4> QED BY <4>1, <4>2, <4>3, <4>4
      <3> QED BY <3>1, <3>2 DEF CopiedSoFar
    <2>8. Present("to", n)'
      BY <2>1 DEF Present
    <2> QED BY <1>4, <2>1, <2>3, <2>4, <2>6, <2>7, <2>8 DEF DiskInv, PhaseInv
  <1>5. CASE /\ err_info' = TRUE /\ frames' = before /\ job' = [job EXCEPT !.phase = "copy"]
             /\ UNCHANGED disk
    <2>1. MoveTypeOK' /\ job'.phase = "copy" /\ job'.op = job.op
      BY <1>2, <1>5, JobTyped DEF MoveTypeOK, Phase
    <2>2. Connected' /\ CopyFrames'
      BY <1>5 DEF Connected, Present, CopyFrames
    <2>3. SourceReady'
      BY <2>1, <1>5, SourceKept
    <2> QED BY <1>5, <2>1, <2>2, <2>3 DEF DiskInv, PhaseInv
  <1> QED BY <1>3, <1>4, <1>5 DEF CopyAnyFile

LEMMA CopyRenamedKeeps ==
  ASSUME DiskInv, CopyRenamed
  PROVE  DiskInv'
  <1>1. /\ MoveTypeOK /\ Connected /\ SourceReady /\ ~err_info /\ Empty("to")
        /\ CopyAnyFile(Root, <<>>, "copy") /\ unread' = unread
    BY DEF DiskInv, PhaseInv, CopyRenamed
  <1>2. <<>> \in Seq(Frame) /\ Root \in Node /\ \A i \in 1..Len(<<>>) : FALSE
    BY RootIsNode
  <1>3. \A d \in Directory : Root \notin Entries(d) /\ disk["to"][d] # "complete"
    BY <1>1, EntryIsNode, RootIsNode DEF Empty, Present
  <1> QED BY <1>1, <1>2, <1>3, CopyAnyFileKeeps

LEMMA CopyEntryKeeps ==
  ASSUME DiskInv, NEW e \in Node, CopyEntry(e)
  PROVE  DiskInv'
  <1>1. /\ MoveTypeOK /\ Connected /\ SourceReady /\ CopyFrames /\ CopiedSoFar /\ ~err_info
        /\ job.phase = "copy" /\ frames # <<>> /\ e \in Innermost.left
        /\ CopyAnyFile(e, WithoutEntry(e), "copy") /\ unread' = unread
    BY DEF DiskInv, PhaseInv, CopyEntry, InCall
  <1>2. Len(frames) \in 1..Len(frames)
    BY <1>1, EmptySeq DEF MoveTypeOK
  <1>3. /\ WithoutEntry(e) \in Seq(Frame) /\ Len(WithoutEntry(e)) = Len(frames)
        /\ \A i \in 1..Len(frames) :
              /\ WithoutEntry(e)[i].call = frames[i].call /\ WithoutEntry(e)[i].place = frames[i].place
              /\ WithoutEntry(e)[i].node = frames[i].node
              /\ WithoutEntry(e)[i].left = IF i = Len(frames) THEN frames[i].left \ {e}
                                           ELSE frames[i].left
    BY <1>1, FramesWithoutEntry
  <1>4. Innermost.node \in Directory /\ e \in Entries(Innermost.node) /\ Present("to", Innermost.node)
    BY <1>1, <1>2 DEF CopyFrames, Innermost
  <1>5. \A d \in Directory : e \in Entries(d) => Present("to", d)
    BY <1>4, EntryIsNode
  <1>6. ASSUME NEW i \in 1..Len(frames)
        PROVE  /\ frames[i].call = "copy_dir" /\ frames[i].place = "to" /\ frames[i].node \in Directory
               /\ Present("to", frames[i].node) /\ frames[i].left \subseteq Entries(frames[i].node)
    BY <1>1, MoveTypes DEF CopyFrames
  <1>7. \A i \in 1..Len(WithoutEntry(e)) :
          /\ WithoutEntry(e)[i].call = "copy_dir" /\ WithoutEntry(e)[i].place = "to"
          /\ WithoutEntry(e)[i].node \in Directory /\ Present("to", WithoutEntry(e)[i].node)
          /\ WithoutEntry(e)[i].left \subseteq Entries(WithoutEntry(e)[i].node)
    BY <1>3, <1>6
  <1>8. ASSUME NEW d \in Directory, disk["to"][d] = "complete", NEW m \in Entries(d)
        PROVE  \/ disk["to"][m] = "complete" \/ m \in unread \/ m = e
               \/ \E i \in 1..Len(WithoutEntry(e)) : m \in WithoutEntry(e)[i].left
    <2>1. disk["to"][m] = "complete" \/ m \in unread \/ WillBeCopied(m)
      BY <1>1, <1>8 DEF CopiedSoFar, Copying
    <2>2. CASE WillBeCopied(m) /\ m # e
      <3>1. PICK i \in 1..Len(frames) : m \in frames[i].left
        BY <2>2 DEF WillBeCopied
      <3>2. m \in WithoutEntry(e)[i].left
        BY <3>1, <2>2, <1>3
      <3> QED BY <3>2, <1>3
    <2> QED BY <2>1, <2>2
  <1>9. disk["to"][Root] = "complete"
    BY <1>1 DEF CopiedSoFar
  <1> QED BY <1>1, <1>3, <1>5, <1>7, <1>8, <1>9, CopyAnyFileKeeps
\* A node that is not a directory was changed.
LEMMA FileChangedConnected ==
  ASSUME MoveTypeOK, Connected, NEW place \in Place, NEW n \in Node, n \notin Directory,
         NEW status \in Status, disk' = [disk EXCEPT ![place][n] = status],
         Present(place, n) \/ status = "absent"
  PROVE  /\ Connected' /\ disk' \in [Place -> [Node -> Status]]
         /\ disk'[place][n] = status
         /\ \A p \in Place : p # place => disk'[p] = disk[p]
         /\ \A m \in Node : m # n => disk'[place][m] = disk[place][m]
  <1>1. /\ disk' \in [Place -> [Node -> Status]]
        /\ disk'[place][n] = status
        /\ \A p \in Place : p # place => disk'[p] = disk[p]
        /\ \A m \in Node : m # n => disk'[place][m] = disk[place][m]
    BY DiskUpdate
  <1>2. ASSUME NEW p \in Place, NEW d \in Directory, ~Present(p, d)', NEW m \in Entries(d)
        PROVE  ~Present(p, m)'
    <2>1. d \in Node /\ m \in Node /\ d # n
      BY EntryIsNode, RootIsNode
    <2>2. ~Present(p, d) /\ ~Present(p, m)
      BY <1>1, <1>2, <2>1 DEF Present, Connected
    <2> QED BY <1>1, <2>1, <2>2 DEF Present
  <1> QED BY <1>1, <1>2 DEF Connected

LEMMA CopyFileKeeps ==
  ASSUME DiskInv, CopyFile
  PROVE  DiskInv'
  <1>1. /\ MoveTypeOK /\ Connected /\ SourceReady /\ CopyFrames /\ CopiedSoFar /\ ~err_info
        /\ job.phase = "open" /\ job.file \in Node \ Directory /\ Present("to", job.file)
        /\ job' = [job EXCEPT !.phase = "copy", !.file = Root] /\ frames' = frames
    BY DEF DiskInv, MoveTypeOK, PhaseInv, CopyFile
  <1>2. /\ job' \in [op : {"none", "move", "clone", "removeTree"}, phase : Phase, file : Node]
        /\ job'.op = job.op /\ job'.phase = "copy"
    <2>1. job.op \in {"none", "move", "clone", "removeTree"}
      BY <1>1 DEF MoveTypeOK
    <2> QED BY <1>1, <2>1, JobTyped, RootIsNode DEF Phase
  <1>3. "to" \in Place /\ "complete" \in Status /\ "absent" \in Status
    BY DEF Place, Status
  <1>4. ASSUME NEW status \in Status, disk' = [disk EXCEPT !["to"][job.file] = status],
               err_info' \in BOOLEAN, status = "absent" \/ status = "complete",
               err_info' \/ status = "complete", unread' = unread
        PROVE  DiskInv'
    <2>1. /\ Connected' /\ disk' \in [Place -> [Node -> Status]]
          /\ disk'["to"][job.file] = status
          /\ \A p \in Place : p # "to" => disk'[p] = disk[p]
          /\ \A m \in Node : m # job.file => disk'["to"][m] = disk["to"][m]
      BY <1>1, <1>3, <1>4, FileChangedConnected, ZenonT(40)
    <2>2. MoveTypeOK'
      BY <1>1, <1>2, <1>4, <2>1 DEF MoveTypeOK, Status
    <2>3. SourceReady'
      BY <1>1, <1>2, <2>1, SourceKept DEF Place
    <2>4. \A d \in Directory : disk'["to"][d] = disk["to"][d]
      BY <1>1, <2>1, RootIsNode
    <2>5. CopyFrames'
      BY <1>1, <2>4 DEF CopyFrames, Present
    <2>6. ASSUME ~err_info'
          PROVE  CopiedSoFar'
      <3>1. disk'["to"][Root] = "complete"
        BY <1>1, <2>4, RootIsNode DEF CopiedSoFar
      <3>2. ASSUME NEW d \in Directory, disk'["to"][d] = "complete", NEW n \in Entries(d)
            PROVE  disk'["to"][n] = "complete" \/ n \in unread \/ WillBeCopied(n)'
        <4>1. n \in Node /\ disk["to"][d] = "complete"
          BY <2>4, <3>2, EntryIsNode
        <4>2. CASE n = job.file
          BY <4>2, <1>4, <2>1, <2>6
        <4>3. CASE n # job.file
          <5>1. disk["to"][n] = "complete" \/ n \in unread \/ WillBeCopied(n)
            BY <1>1, <4>1, <4>3 DEF CopiedSoFar, Copying
          <5> QED BY <5>1, <4>1, <4>3, <1>1, <2>1 DEF WillBeCopied
        <4> QED BY <4>2, <4>3
      <3> QED BY <1>4, <3>1, <3>2 DEF CopiedSoFar
    <2> QED BY <1>2, <2>1, <2>2, <2>3, <2>5, <2>6 DEF DiskInv, PhaseInv
  <1>5. CASE disk' = [disk EXCEPT !["to"][job.file] = "complete"] /\ UNCHANGED <<err_info, unread>>
    BY <1>1, <1>3, <1>4, <1>5, MoveTypes
  <1>6. CASE /\ disk' = [disk EXCEPT !["to"][job.file] = "absent"] /\ err_info' = TRUE
             /\ unread' = unread
    BY <1>3, <1>4, <1>6
  <1>7. CASE err_info' = TRUE /\ UNCHANGED <<disk, unread>>
    <2>1. MoveTypeOK' /\ Connected' /\ CopyFrames'
      BY <1>1, <1>2, <1>7 DEF MoveTypeOK, Connected, CopyFrames, Present
    <2>2. SourceReady'
      BY <1>1, <1>2, <1>7, SourceKept
    <2> QED BY <1>2, <1>7, <2>1, <2>2 DEF DiskInv, PhaseInv
  <1>8. CASE unread' = unread \cup {job.file} /\ UNCHANGED <<disk, err_info>>
    <2>1. MoveTypeOK' /\ Connected' /\ CopyFrames'
      BY <1>1, <1>2, <1>8 DEF MoveTypeOK, Connected, CopyFrames, Present
    <2>2. SourceReady'
      BY <1>1, <1>2, <1>8, SourceKept
    <2>3. CopiedSoFar'
      BY <1>1, <1>8 DEF CopiedSoFar, Copying, WillBeCopied
    <2> QED BY <1>2, <1>8, <2>1, <2>2, <2>3 DEF DiskInv, PhaseInv
  <1> QED BY <1>5, <1>6, <1>7, <1>8 DEF CopyFile

\* What is below entries of the tree, and the entries themselves.
LEMMA BelowClosed ==
  ASSUME NEW entries \in SUBSET Node
  PROVE  /\ entries \subseteq Below(entries) /\ Below(entries) \subseteq Node
         /\ \A d \in Directory \cap Below(entries) : Entries(d) \subseteq Below(entries)
  <1>1. ASSUME NEW d \in Directory \cap Below(entries), NEW n \in Entries(d)
        PROVE  n \in Below(entries)
    <2>1. n \in Node
      BY EntryIsNode
    <2>2. ASSUME NEW below \in SUBSET Node, entries \subseteq below,
                 \A e \in below \cap Directory : Entries(e) \subseteq below
          PROVE  n \in below
      <3>1. d \in below
        BY <2>2 DEF Below
      <3> QED BY <3>1, <2>2
    <2> QED BY <2>1, <2>2 DEF Below
  <1>2. entries \subseteq Below(entries) /\ Below(entries) \subseteq Node
    BY DEF Below
  <1> QED BY <1>1, <1>2

LEMMA CopyDirEndsKeeps ==
  ASSUME DiskInv, CopyDirEnds
  PROVE  DiskInv'
  <1>1. /\ MoveTypeOK /\ Connected /\ SourceReady /\ CopyFrames /\ (~err_info => CopiedSoFar)
        /\ job.phase = "copy" /\ frames # <<>>
        /\ disk' = disk /\ job' = job /\ err_info' = err_info
    BY DEF DiskInv, PhaseInv, CopyDirEnds, InCall
  <1>2. Connected' /\ SourceReady'
    BY <1>1, SourceKept DEF Connected, Present
  <1>3. /\ Popped \in Seq(Frame) /\ Len(frames) > 0 /\ Len(Popped) = Len(frames) - 1
        /\ \A i \in 1..Len(Popped) : Popped[i] = frames[i]
        /\ Innermost \in Frame /\ Len(frames) \in Nat
    BY <1>1, PoppedFrames, MoveTypes
  <1>4. \A i \in 1..Len(Popped) : i \in 1..Len(frames)
    BY <1>3
  <1>5. CASE ~err_info
    <2>1. frames' = Popped /\ unread' = unread \cup Below(Innermost.left)
      BY <1>5 DEF CopyDirEnds
    <2>2. Innermost.left \subseteq Below(Innermost.left) /\ Below(Innermost.left) \subseteq Node
      BY <1>3, BelowClosed DEF Frame
    <2>3. frames' \in Seq(Frame) /\ unread' \subseteq Node
      BY <1>1, <1>3, <2>1, <2>2 DEF MoveTypeOK
    <2>4. MoveTypeOK' /\ CopyFrames'
      BY <1>1, <1>3, <1>4, <2>1, <2>3, SMTT(30) DEF MoveTypeOK, CopyFrames, Present
    <2>5. ASSUME NEW n, WillBeCopied(n)
          PROVE  WillBeCopied(n)' \/ n \in unread'
      <3>1. PICK i \in 1..Len(frames) : n \in frames[i].left
        BY <2>5 DEF WillBeCopied
      <3>2. CASE i # Len(frames)
        <4>1. i \in 1..Len(Popped)
          BY <3>2, <1>3
        <4> QED BY <3>1, <4>1, <2>1, <1>3 DEF WillBeCopied
      <3>3. CASE i = Len(frames)
        BY <3>1, <3>3, <2>1, <2>2 DEF Innermost
      <3> QED BY <3>2, <3>3
    <2>6. \A n : n \in unread => n \in unread'
      BY <2>1
    <2>7. CopiedSoFar'
      BY <1>1, <1>5, <2>5, <2>6 DEF CopiedSoFar, Copying
    <2> QED BY <1>1, <1>2, <2>4, <2>7 DEF DiskInv, PhaseInv
  <1>6. CASE err_info
    <2> DEFINE frame == [call |-> "remove_dir", place |-> "to", node |-> Innermost.node,
                         left |-> EntriesAt("to", Innermost.node)]
    <2>1. frames' = Append(Popped, frame) /\ unread' = unread
      BY <1>6 DEF CopyDirEnds
    <2>2. Innermost.node \in Directory /\ Present("to", Innermost.node) /\ Innermost.node \in Node
      BY <1>1, <1>3, RootIsNode DEF CopyFrames, Innermost
    <2>3. frame \in Frame /\ frame.left \subseteq Entries(Innermost.node)
      BY <2>2, EntryIsNode DEF Frame, EntriesAt, Place
    <2>4. frame.place = "to" /\ frame.node = Innermost.node
      OBVIOUS
    <2> HIDE DEF frame
    <2>5. /\ frames' \in Seq(Frame) /\ Len(frames') = Len(Popped) + 1
          /\ \A i \in 1..Len(Popped) : frames'[i] = Popped[i]
          /\ frames'[Len(Popped) + 1] = frame
      BY <2>1, <2>3, <1>3, PushedFrames
    <2>6. MoveTypeOK'
      BY <1>1, <2>1, <2>5 DEF MoveTypeOK
    <2>7. ASSUME NEW i \in 1..Len(frames')
          PROVE  /\ frames'[i].place = "to" /\ frames'[i].node \in Directory
                 /\ disk["to"][frames'[i].node] # "absent"
                 /\ frames'[i].left \subseteq Entries(frames'[i].node)
      <3>1. CASE i \in 1..Len(Popped)
        <4>1. frames'[i] = frames[i] /\ i \in 1..Len(frames)
          BY <3>1, <1>3, <1>4, <2>5
        <4> QED BY <4>1, <1>1 DEF CopyFrames, Present
      <3>2. CASE i = Len(Popped) + 1
        BY <3>2, <2>2, <2>3, <2>4, <2>5 DEF Present
      <3>3. Len(Popped) \in Nat
        BY <1>3
      <3> QED BY <3>1, <3>2, <3>3, <2>5
    <2>8. CopyFrames'
      BY <1>1, <1>6, <2>7 DEF CopyFrames, Present
    <2> QED BY <1>1, <1>2, <1>6, <2>6, <2>8 DEF DiskInv, PhaseInv
  <1> QED BY <1>5, <1>6

LEMMA CopyReturnsKeeps ==
  ASSUME DiskInv, UnreadClosed, CopyReturns
  PROVE  DiskInv'
  <1>1. /\ MoveTypeOK /\ Connected /\ SourceReady /\ (~err_info => CopiedSoFar)
        /\ job.op = "move" /\ job.phase = "copy" /\ frames = <<>> /\ unread' = unread
    BY DEF DiskInv, PhaseInv, CopyReturns
  <1>2. Whole("temp") /\ Empty("from")
    BY <1>1 DEF SourceReady, Source
  <1>3. job.file \in Node /\ "temp" \in Place /\ "from" \in Place
    BY <1>1, MoveTypes DEF Place
  <1>4. CASE /\ ~err_info /\ job' = [job EXCEPT !.phase = "remove"]
             /\ frames' = Open("remove_dir", "temp", Root, EntriesAt("temp", Root))
             /\ UNCHANGED <<disk, err_info>>
    <2>1. AllRead("to")
      <3> DEFINE copied == {n \in Node : disk["to"][n] = "complete" \/ n \in unread}
      <3>1. Root \in copied
        BY <1>1, <1>4, RootIsNode DEF CopiedSoFar
      <3>2. ASSUME NEW d \in Directory, d \in copied, NEW n \in Entries(d)
            PROVE  n \in copied
        <4>1. ~WillBeCopied(n) /\ n \in Node
          BY <1>1, EmptySeq, EntryIsNode DEF WillBeCopied
        <4>2. CASE d \in unread
          BY <3>2, <4>1, <4>2 DEF UnreadClosed
        <4>3. CASE disk["to"][d] = "complete"
          BY <1>1, <1>4, <3>2, <4>1, <4>3 DEF CopiedSoFar, Copying
        <4> QED BY <3>2, <4>2, <4>3
      <3>3. copied = Node
        BY <3>1, <3>2, AllNodes
      <3> QED BY <3>3 DEF AllRead
    <2>2. frames' \in Seq(Frame) /\ RemoveFrames("temp")'
      BY <1>1, <1>3, <1>4, RemovalStarts
    <2>3. MoveTypeOK' /\ job'.phase = "remove" /\ job'.op = "move"
      BY <1>1, <1>3, <1>4, <2>2, JobTyped DEF MoveTypeOK, Phase
    <2>4. Connected' /\ AllRead("to")' /\ Empty("from")'
      BY <1>1, <1>2, <1>4, <2>1 DEF Connected, Present, AllRead, Empty
    <2> QED BY <2>2, <2>3, <2>4 DEF DiskInv, PhaseInv, Removing
  <1>5. CASE /\ err_info /\ job' = [job EXCEPT !.phase = "idle"] /\ disk' = Rename("temp", "from")
             /\ UNCHANGED <<frames, err_info>>
    <2>1. /\ disk' \in [Place -> [Node -> Status]] /\ Connected'
          /\ disk'["from"] = disk["temp"] /\ disk'["temp"] = Nothing
      BY <1>1, <1>3, <1>5, DiskRename, RenameKeepsConnected
    <2>2. MoveTypeOK' /\ job'.phase = "idle"
      BY <1>1, <1>3, <1>5, <2>1, JobTyped DEF MoveTypeOK, Phase, Status
    <2>3. Whole("from")' /\ Empty("temp")'
      BY <1>2, <2>1 DEF Whole, Empty, Present, Nothing
    <2> QED BY <1>1, <1>5, <2>1, <2>2, <2>3 DEF DiskInv, PhaseInv, IdleDisk
  <1>6. CASE /\ err_info /\ May("rename") /\ job' = [job EXCEPT !.phase = "idle"]
             /\ UNCHANGED <<disk, frames, err_info>>
    <2>1. MoveTypeOK' /\ job'.phase = "idle"
      BY <1>1, <1>3, <1>6, JobTyped DEF MoveTypeOK, Phase
    <2>2. Connected' /\ Whole("temp")' /\ Empty("from")'
      BY <1>1, <1>2, <1>6 DEF Connected, Whole, Empty, Present
    <2>3. ~Exists("from")'
      BY <2>2, RootIsNode DEF Exists, Empty, Present
    <2> QED BY <1>1, <1>6, <2>1, <2>2, <2>3 DEF DiskInv, PhaseInv, IdleDisk
  <1> QED BY <1>4, <1>5, <1>6 DEF CopyReturns

---------------------------------------------------------------------------
(* Removing.                                                                *)

\* A step of remove_dir that keeps what is known about its frames.
LEMMA RemovingKept ==
  ASSUME MoveTypeOK, Removing, job' = job, job.phase = "remove", frames' \in Seq(Frame),
         err_info' \in BOOLEAN, disk' \in [Place -> [Node -> Status]], Connected', unread' = unread,
         \A place \in {"temp", "to"} : RemoveFrames(place) =>
            RemoveFrames(place)' /\ \A p \in Place : p # place => disk'[p] = disk[p]
  PROVE  DiskInv'
  <1>1. MoveTypeOK'
    BY DEF MoveTypeOK, Status
  <1>2. "from" \in Place /\ "to" \in Place /\ "temp" \in Place
    BY DEF Place
  <1>3. Removing'
    <2>1. CASE job.op = "move" /\ AllRead("to") /\ Empty("from") /\ RemoveFrames("temp")
      BY <2>1, <1>2 DEF Removing, AllRead, Empty, Present
    <2>2. CASE job.op = "removeTree" /\ Whole("from") /\ Empty("temp") /\ RemoveFrames("to")
      BY <2>2, <1>2 DEF Removing, Whole, Empty, Present
    <2> QED BY <2>1, <2>2 DEF Removing
  <1> QED BY <1>1, <1>3 DEF DiskInv, PhaseInv

\* remove_dir is executing: for a directory of a tree that is removed, or after an error.
LEMMA InRemoveDir ==
  ASSUME DiskInv, InCall("remove_dir")
  PROVE  /\ MoveTypeOK /\ Connected /\ frames # <<>>
         /\ \/ job.phase = "remove" /\ Removing
            \/ job.phase = "copy" /\ err_info /\ SourceReady /\ CopyFrames
  <1>1. Len(frames) \in 1..Len(frames)
    BY EmptySeq DEF InCall, DiskInv, MoveTypeOK
  <1>2. CopyFrames => err_info
    BY <1>1 DEF CopyFrames, InCall, Innermost
  <1> QED BY <1>2 DEF DiskInv, PhaseInv, InCall

LEMMA RemoveEntryFrames ==
  ASSUME MoveTypeOK, Connected, NEW place \in Place, RemoveFrames(place), NEW e \in Node,
         RemoveEntry(e)
  PROVE  /\ RemoveFrames(place)' /\ Connected' /\ frames' \in Seq(Frame) /\ err_info' \in BOOLEAN
         /\ disk' \in [Place -> [Node -> Status]]
         /\ \A p \in Place : p # place => disk'[p] = disk[p]
  <1>1. frames # <<>> /\ ~err_info /\ e \in Innermost.left
    BY DEF RemoveEntry, InCall
  <1> DEFINE last == Len(frames)
             before == WithoutEntry(e)
  <1>2. last \in Nat \ {0} /\ last \in 1..Len(frames)
    BY <1>1, EmptySeq DEF MoveTypeOK
  <1>3. /\ before \in Seq(Frame) /\ Len(before) = last
        /\ \A i \in 1..last :
              /\ before[i].call = "remove_dir" /\ before[i].place = place
              /\ before[i].node = frames[i].node /\ before[i].node \in Directory
              /\ before[i].left = IF i = last THEN frames[i].left \ {e} ELSE frames[i].left
    BY <1>1, FramesWithoutEntry, ZenonT(40) DEF RemoveFrames
  <1>4. /\ Innermost.place = place /\ frames[1].node = Root /\ before[1].node = Root
        /\ disk \in [Place -> [Node -> Status]]
    <2>1. frames[1].node = Root /\ frames[last].place = place
      BY <1>1, <1>2 DEF RemoveFrames
    <2>2. 1 \in 1..last
      BY <1>2
    <2> QED BY <2>1, <2>2, <1>3, MoveTypes DEF Innermost
  <1>5. ASSUME NEW i \in 1..last, NEW n \in Entries(frames[i].node), Present(place, n)
        PROVE  n \in before[i].left \/ BeingRemoved(i, n) \/ (i = last /\ n = e)
    <2>1. n \in frames[i].left \/ BeingRemoved(i, n)
      BY <1>1, <1>5 DEF RemoveFrames
    <2> QED BY <2>1, <1>3
  <1> HIDE DEF last, before
  <1>6. CASE /\ e \in Directory
             /\ frames' = Append(before, [call |-> "remove_dir", place |-> place, node |-> e,
                                          left |-> EntriesAt(place, e)])
             /\ UNCHANGED <<disk, err_info>>
    <2> DEFINE frame == [call |-> "remove_dir", place |-> place, node |-> e,
                         left |-> EntriesAt(place, e)]
    <2>1. frame \in Frame
      BY <1>6, EntryIsNode DEF Frame, EntriesAt
    <2>2. /\ frame.call = "remove_dir" /\ frame.place = place /\ frame.node = e
          /\ frame.left = EntriesAt(place, e) /\ frames' = Append(before, frame)
      BY <1>6
    <2> HIDE DEF frame
    <2>3. /\ frames' \in Seq(Frame) /\ Len(frames') = last + 1
          /\ \A i \in 1..last : frames'[i] = before[i]
          /\ frames'[last + 1] = frame
      BY <2>1, <2>2, <1>3, PushedFrames
    <2>4. ASSUME NEW i \in 1..Len(frames')
          PROVE  /\ frames'[i].call = "remove_dir" /\ frames'[i].place = place
                 /\ frames'[i].node \in Directory
                 /\ \A n \in Entries(frames'[i].node) :
                      disk[place][n] # "absent" =>
                        n \in frames'[i].left \/ (i < Len(frames') /\ n = frames'[i + 1].node)
      <3>1. CASE i = last + 1
        BY <3>1, <2>2, <2>3, <1>6 DEF EntriesAt
      <3>2. CASE i \in 1..last
        <4>1. frames'[i] = before[i] /\ before[i].node = frames[i].node /\ i < Len(frames')
          <5>1. frames'[i] = before[i] /\ before[i].node = frames[i].node
            BY <3>2, <2>3, <1>3
          <5>2. i < last + 1
            BY <3>2, <1>2
          <5> QED BY <5>1, <5>2, <2>3
        <4>2. ASSUME NEW n \in Entries(frames[i].node), Present(place, n)
              PROVE  n \in before[i].left \/ n = frames'[i + 1].node
          <5>1. CASE i = last /\ n = e
            BY <5>1, <2>2, <2>3
          <5>2. CASE BeingRemoved(i, n)
            <6>1. i + 1 \in 1..last /\ n = frames[i + 1].node
              BY <5>2, <1>2, <3>2 DEF BeingRemoved, last
            <6> QED BY <6>1, <1>3, <2>3
          <5> QED BY <5>1, <5>2, <4>2, <3>2, <1>5
        <4>3. before[i].call = "remove_dir" /\ before[i].place = place /\ before[i].node \in Directory
          BY <3>2, <1>3
        <4> QED BY <4>1, <4>2, <4>3 DEF Present
      <3> QED BY <3>1, <3>2, <2>3, <1>2
    <2>5. frames' # <<>> /\ frames'[1].node = Root
      <3>1. 1 \in 1..last /\ Len(frames') # 0
        BY <1>2, <2>3
      <3> QED BY <3>1, <2>3, <1>4, EmptySeq
    <2>6. RemoveFrames(place)'
      BY <2>4, <2>5, <1>6 DEF RemoveFrames, BeingRemoved, Present
    <2>7. Connected'
      BY <1>6 DEF Connected, Present
    <2> QED BY <1>1, <1>4, <1>6, <2>3, <2>6, <2>7, MoveTypes
  <1>7. ASSUME frames' = before, err_info' \in BOOLEAN, disk' \in [Place -> [Node -> Status]], Connected',
               \A n \in Node : disk'[place][n] # "absent" => disk[place][n] # "absent",
               ~err_info' => disk'[place][e] = "absent"
        PROVE  RemoveFrames(place)' /\ frames' \in Seq(Frame)
    <2>1. ASSUME NEW i \in 1..Len(frames')
          PROVE  /\ frames'[i].call = "remove_dir" /\ frames'[i].place = place
                 /\ frames'[i].node \in Directory
                 /\ ~err_info' => \A n \in Entries(frames'[i].node) :
                      disk'[place][n] # "absent" =>
                        n \in frames'[i].left \/ (i < Len(frames') /\ n = frames'[i + 1].node)
      <3>1. /\ i \in 1..last /\ frames'[i] = before[i] /\ before[i].node = frames[i].node
            /\ before[i].call = "remove_dir" /\ before[i].place = place /\ before[i].node \in Directory
        BY <2>1, <1>3, <1>7
      <3>2. ASSUME ~err_info', NEW n \in Entries(frames[i].node), disk'[place][n] # "absent"
            PROVE  n \in before[i].left \/ (i < last /\ n = before[i + 1].node)
        <4>1. n \in Node /\ n # e /\ Present(place, n)
          BY <3>1, <3>2, <1>7, EntryIsNode DEF Present
        <4>2. CASE BeingRemoved(i, n)
          <5>1. i + 1 \in 1..last /\ n = frames[i + 1].node
            BY <4>2, <1>2, <3>1 DEF BeingRemoved, last
          <5>2. before[i + 1].node = frames[i + 1].node
            BY <5>1, <1>3
          <5>3. i < last
            BY <5>1, <3>1, <1>2
          <5> QED BY <5>1, <5>2, <5>3
        <4> QED BY <4>1, <4>2, <3>1, <1>5
      <3> QED BY <3>1, <3>2, <1>3, <1>7
    <2>2. frames' # <<>> /\ frames'[1].node = Root
      <3>1. Len(frames') # 0
        BY <1>2, <1>3, <1>7
      <3> QED BY <3>1, <1>4, <1>7, EmptySeq
    <2> QED BY <2>1, <2>2, <1>3, <1>7 DEF RemoveFrames, BeingRemoved, Present
  <1>8. CASE /\ e \notin Directory /\ disk' = [disk EXCEPT ![place][e] = "absent"]
             /\ frames' = before /\ UNCHANGED err_info
    <2>1. /\ Connected' /\ disk' \in [Place -> [Node -> Status]]
          /\ disk'[place][e] = "absent"
          /\ \A p \in Place : p # place => disk'[p] = disk[p]
          /\ \A m \in Node : m # e => disk'[place][m] = disk[place][m]
      BY <1>8, FileChangedConnected DEF Status
    <2>2. \A n \in Node : disk'[place][n] # "absent" => disk[place][n] # "absent"
      BY <2>1
    <2> QED BY <1>7, <1>8, <2>1, <2>2, MoveTypes
  <1>9. CASE err_info' = TRUE /\ frames' = before /\ UNCHANGED disk
    <2>1. Connected'
      BY <1>9 DEF Connected, Present
    <2> QED BY <1>4, <1>7, <1>9, <2>1
  <1> QED BY <1>4, <1>6, <1>8, <1>9 DEF RemoveEntry, before

LEMMA RemoveEntryKeeps ==
  ASSUME DiskInv, NEW e \in Node, RemoveEntry(e)
  PROVE  DiskInv'
  <1>1. InCall("remove_dir") /\ ~err_info /\ job' = job /\ unread' = unread
    BY DEF RemoveEntry
  <1>2. MoveTypeOK /\ Connected /\ job.phase = "remove" /\ Removing
    BY <1>1, InRemoveDir
  <1>3. ASSUME NEW place \in Place, RemoveFrames(place)
        PROVE  /\ RemoveFrames(place)' /\ Connected' /\ frames' \in Seq(Frame) /\ err_info' \in BOOLEAN
               /\ disk' \in [Place -> [Node -> Status]]
               /\ \A p \in Place : p # place => disk'[p] = disk[p]
    BY <1>2, <1>3, RemoveEntryFrames
  <1>4. \E place \in Place : RemoveFrames(place)
    BY <1>2 DEF Removing, Place
  <1>5. {"temp", "to"} \subseteq Place
    BY DEF Place
  <1> QED BY <1>1, <1>2, <1>3, <1>4, <1>5, RemovingKept
LEMMA RemoveDirEndsFrames ==
  ASSUME MoveTypeOK, Connected, NEW place \in Place, RemoveFrames(place), frames # <<>>,
         RemoveDirEnds
  PROVE  /\ RemoveFrames(place)' /\ Connected' /\ frames' \in Seq(Frame) /\ err_info' \in BOOLEAN
         /\ disk' \in [Place -> [Node -> Status]]
         /\ \A p \in Place : p # place => disk'[p] = disk[p]
  <1> DEFINE last == Len(frames)
             dir == frames[last].node
  <1>1. last \in Nat \ {0} /\ last \in 1..Len(frames)
    BY EmptySeq DEF MoveTypeOK
  <1>2. /\ frames' \in Seq(Frame) /\ Len(frames') = last - 1
        /\ \A i \in 1..Len(frames') : frames'[i] = frames[i]
    BY PoppedFrames DEF RemoveDirEnds
  <1>3. /\ Innermost.node = dir /\ Innermost.place = place /\ dir \in Directory /\ dir \in Node
        /\ frames[1].node = Root
    BY <1>1, RootIsNode DEF RemoveFrames, Innermost
  <1>4. ASSUME err_info' \in BOOLEAN, disk' \in [Place -> [Node -> Status]], Connected',
               ~err_info' => /\ ~err_info /\ disk'[place][dir] = "absent"
                             /\ \A n \in Node : n # dir => disk'[place][n] = disk[place][n]
        PROVE  RemoveFrames(place)'
    <2>1. ASSUME NEW i \in 1..Len(frames')
          PROVE  /\ frames'[i].call = "remove_dir" /\ frames'[i].place = place
                 /\ frames'[i].node \in Directory
                 /\ ~err_info' => \A n \in Entries(frames'[i].node) :
                      disk'[place][n] # "absent" =>
                        n \in frames'[i].left \/ (i < Len(frames') /\ n = frames'[i + 1].node)
      <3>1. frames'[i] = frames[i] /\ i \in 1..last /\ i < last
        BY <1>1, <1>2
      <3>2. frames[i].call = "remove_dir" /\ frames[i].place = place /\ frames[i].node \in Directory
        BY <3>1 DEF RemoveFrames
      <3>3. ASSUME ~err_info', NEW n \in Entries(frames[i].node), disk'[place][n] # "absent"
            PROVE  n \in frames[i].left \/ (i < Len(frames') /\ n = frames'[i + 1].node)
        <4>1. n \in Node /\ n # dir /\ Present(place, n) /\ ~err_info
          BY <3>2, <3>3, <1>4, EntryIsNode DEF Present
        <4>2. n \in frames[i].left \/ n = frames[i + 1].node
          BY <4>1, <3>1 DEF RemoveFrames, BeingRemoved
        <4>3. i + 1 = last \/ i + 1 \in 1..Len(frames')
          BY <1>1, <1>2, <3>1
        <4>4. i + 1 \in 1..Len(frames') => i < Len(frames') /\ frames'[i + 1] = frames[i + 1]
          BY <1>1, <1>2, <3>1
        <4> QED BY <4>1, <4>2, <4>3, <4>4
      <3> QED BY <3>1, <3>2, <3>3
    <2>2. CASE frames' # <<>>
      <3>1. 1 \in 1..Len(frames')
        BY <2>2, <1>2, EmptySeq
      <3>2. frames'[1].node = Root
        BY <3>1, <1>2, <1>3
      <3> QED BY <2>1, <2>2, <3>2 DEF RemoveFrames, BeingRemoved, Present
    <2>3. CASE frames' = <<>>
      <3>1. last = 1
        BY <2>3, <1>1, <1>2, EmptySeq
      <3>2. ASSUME ~err_info'
            PROVE  Empty(place)'
        <4> DEFINE absent == {n \in Node : disk'[place][n] = "absent"}
        <4>1. Root \in absent
          BY <3>1, <3>2, <1>3, <1>4, RootIsNode
        <4>2. ASSUME NEW d \in Directory, d \in absent
              PROVE  Entries(d) \subseteq absent
          BY <4>2, <1>4, EntryIsNode DEF Connected, Present
        <4>3. absent = Node
          BY <4>1, <4>2, AllNodes
        <4> QED BY <4>3 DEF Empty, Present
      <3> QED BY <2>1, <2>3, <3>2 DEF RemoveFrames, BeingRemoved, Present
    <2> QED BY <2>2, <2>3
  <1>5. CASE ~err_info /\ disk' = [disk EXCEPT ![place][dir] = "absent"] /\ UNCHANGED err_info
    <2>1. /\ disk' \in [Place -> [Node -> Status]] /\ disk'[place][dir] = "absent"
          /\ \A p \in Place : p # place => disk'[p] = disk[p]
          /\ \A m \in Node : m # dir => disk'[place][m] = disk[place][m]
      <3>1. PICK status \in Status : status = "absent"
        BY DEF Status
      <3>2. PICK n \in Node : n = dir
        BY <1>3
      <3>3. disk' = [disk EXCEPT ![place][n] = status]
        BY <1>5, <3>1, <3>2
      <3>4. /\ disk' \in [Place -> [Node -> Status]] /\ disk'[place][n] = status
            /\ \A p \in Place : p # place => disk'[p] = disk[p]
            /\ \A m \in Node : m # n => disk'[place][m] = disk[place][m]
        BY <3>3, DiskUpdate, ZenonT(40)
      <3> QED BY <3>1, <3>2, <3>4
    <2>2. Innermost.left = {}
      BY <1>5 DEF RemoveDirEnds
    <2>3. \A n \in Entries(dir) : ~Present(place, n)
      BY <1>1, <1>5, <2>2 DEF RemoveFrames, BeingRemoved, Innermost
    <2>4. ASSUME NEW p \in Place, NEW d \in Directory, disk'[p][d] = "absent", NEW n \in Entries(d)
          PROVE  disk'[p][n] = "absent"
      <3>1. d \in Node /\ n \in Node
        BY EntryIsNode, RootIsNode
      <3>2. CASE p # place
        BY <3>1, <3>2, <2>1, <2>4 DEF Connected, Present
      <3>3. CASE p = place /\ d = dir
        BY <3>1, <3>3, <2>1, <2>3 DEF Present
      <3>4. CASE p = place /\ d # dir
        <4>1. disk[p][n] = "absent"
          BY <3>1, <3>4, <2>1, <2>4 DEF Connected, Present
        <4> QED BY <4>1, <3>1, <3>4, <2>1
      <3> QED BY <3>2, <3>3, <3>4
    <2>5. Connected'
      BY <2>4 DEF Connected, Present
    <2>6. err_info' \in BOOLEAN
      BY <1>5, MoveTypes
    <2>7. RemoveFrames(place)'
      BY <1>4, <1>5, <2>1, <2>5, <2>6
    <2> QED BY <1>2, <2>1, <2>5, <2>6, <2>7
  <1>6. CASE err_info' = TRUE /\ UNCHANGED disk
    <2>1. Connected' /\ disk' \in [Place -> [Node -> Status]]
      BY <1>6, MoveTypes DEF Connected, Present
    <2> QED BY <1>2, <1>4, <1>6, <2>1
  <1> QED BY <1>3, <1>5, <1>6, MoveTypes DEF RemoveDirEnds

LEMMA RemoveDirEndsKeeps ==
  ASSUME DiskInv, RemoveDirEnds
  PROVE  DiskInv'
  <1>1. InCall("remove_dir") /\ job' = job /\ frames' = Popped /\ unread' = unread
    BY DEF RemoveDirEnds
  <1>2. MoveTypeOK /\ Connected /\ frames # <<>>
    BY <1>1, InRemoveDir
  <1>3. CASE job.phase = "remove" /\ Removing
    <2>1. ASSUME NEW place \in Place, RemoveFrames(place)
          PROVE  /\ RemoveFrames(place)' /\ Connected' /\ frames' \in Seq(Frame) /\ err_info' \in BOOLEAN
                 /\ disk' \in [Place -> [Node -> Status]]
                 /\ \A p \in Place : p # place => disk'[p] = disk[p]
      BY <1>2, <2>1, RemoveDirEndsFrames
    <2>2. \E place \in Place : RemoveFrames(place)
      BY <1>3 DEF Removing, Place
    <2>3. {"temp", "to"} \subseteq Place
      BY DEF Place
    <2> QED BY <1>1, <1>2, <1>3, <2>1, <2>2, <2>3, RemovingKept
  <1>4. CASE job.phase = "copy" /\ err_info /\ SourceReady /\ CopyFrames
    <2>1. disk' = disk /\ err_info' = err_info
      BY <1>4 DEF RemoveDirEnds
    <2>2. /\ Popped \in Seq(Frame) /\ Len(frames) > 0 /\ Len(Popped) = Len(frames) - 1
          /\ \A i \in 1..Len(Popped) : Popped[i] = frames[i]
          /\ Len(frames) \in Nat
      BY <1>2, PoppedFrames, MoveTypes
    <2>3. \A i \in 1..Len(Popped) : i \in 1..Len(frames)
      BY <2>2
    <2>4. MoveTypeOK' /\ CopyFrames'
      BY <1>1, <1>2, <1>4, <2>1, <2>2, <2>3 DEF MoveTypeOK, CopyFrames, Present
    <2>5. Connected' /\ SourceReady'
      BY <1>1, <1>2, <1>4, <2>1, SourceKept DEF Connected, Present
    <2> QED BY <1>1, <1>4, <2>1, <2>4, <2>5 DEF DiskInv, PhaseInv
  <1> QED BY <1>1, <1>3, <1>4, InRemoveDir

---------------------------------------------------------------------------

LEMMA DiskInvStep ==
  ASSUME MoveInv, [MoveNext]_moveVars
  PROVE  DiskInv'
  <1>0. DiskInv /\ UnreadClosed
    BY DEF MoveInv
  <1>1. CASE cmdMove
    BY <1>0, <1>1, cmdMoveKeeps
  <1>2. CASE CopyRenamed
    BY <1>0, <1>2, CopyRenamedKeeps
  <1>3. CASE CopyReturns
    BY <1>0, <1>3, CopyReturnsKeeps
  <1>4. CASE cmdCloneFile
    BY <1>0, <1>4, cmdCloneFileKeeps
  <1>5. CASE CloneReturns
    BY <1>0, <1>5, CloneReturnsKeeps
  <1>6. CASE cmdRemoveTree
    BY <1>0, <1>6, cmdRemoveTreeKeeps
  <1>7. CASE RemoveReturns
    BY <1>0, <1>7, RemoveReturnsKeeps
  <1>8. CASE CopyFile
    BY <1>0, <1>8, CopyFileKeeps
  <1>9. CASE CopyDirEnds
    BY <1>0, <1>9, CopyDirEndsKeeps
  <1>10. CASE RemoveDirEnds
    BY <1>0, <1>10, RemoveDirEndsKeeps
  <1>11. ASSUME NEW e \in Node, CopyEntry(e) PROVE DiskInv'
    BY <1>0, <1>11, CopyEntryKeeps
  <1>12. ASSUME NEW e \in Node, RemoveEntry(e) PROVE DiskInv'
    BY <1>0, <1>12, RemoveEntryKeeps
  <1>13. CASE UNCHANGED moveVars
    <2>1. disk' = disk /\ frames' = frames /\ job' = job /\ err_info' = err_info
          /\ unread' = unread
      BY <1>13 DEF moveVars
    <2>2. MoveTypeOK' /\ Connected' /\ (SourceReady' <=> SourceReady) /\ (CopyFrames' <=> CopyFrames)
          /\ (CopiedSoFar' <=> CopiedSoFar)
      BY <1>0, <2>1 DEF DiskInv, MoveTypeOK, Connected, SourceReady, Source, Whole, Empty, Present, CopyFrames,
                  CopiedSoFar, WillBeCopied, Copying
    <2>3. (Removing' <=> Removing) /\ (IdleDisk' <=> IdleDisk) /\ (Empty("to")' <=> Empty("to"))
      BY <2>1 DEF Removing, RemoveFrames, BeingRemoved, IdleDisk, Exists, Whole, AllRead, Empty, Present
    <2>4. Present("to", job.file)' <=> Present("to", job.file)
      BY <2>1 DEF Present
    <2> QED BY <1>0, <2>1, <2>2, <2>3, <2>4 DEF DiskInv, PhaseInv
  <1> QED BY <1>1, <1>2, <1>3, <1>4, <1>5, <1>6, <1>7, <1>8, <1>9, <1>10, <1>11, <1>12, <1>13
          DEF MoveNext

\* unread is a union of files and of sets with all that is below.
LEMMA UnreadClosedStep ==
  ASSUME MoveInv, [MoveNext]_moveVars
  PROVE  UnreadClosed'
  <1>1. MoveTypeOK /\ UnreadClosed
    BY DEF MoveInv, DiskInv
  <1>2. CASE unread' = unread \/ unread' = {}
    BY <1>1, <1>2 DEF UnreadClosed
  <1>3. CASE CopyFile
    <2>1. CASE unread' = unread \cup {job.file} /\ job.phase = "open"
      <3>1. job.file \notin Directory
        BY <2>1 DEF MoveInv, DiskInv, PhaseInv
      <3> QED BY <1>1, <2>1, <3>1 DEF UnreadClosed
    <2> QED BY <1>2, <1>3, <2>1 DEF CopyFile
  <1>4. CASE CopyDirEnds
    <2>1. Innermost \in Frame
      BY <1>1, <1>4, PoppedFrames DEF CopyDirEnds, InCall
    <2>2. Innermost.left \in SUBSET Node
      BY <2>1 DEF Frame
    <2>3. CASE unread' = unread \cup Below(Innermost.left)
      BY <1>1, <2>2, <2>3, BelowClosed DEF UnreadClosed
    <2> QED BY <1>2, <1>4, <2>3 DEF CopyDirEnds
  <1>5. CASE MoveNext /\ ~CopyFile /\ ~CopyDirEnds
    BY <1>2, <1>5 DEF MoveNext, cmdMove, CopyRenamed, CopyReturns, cmdCloneFile, CloneReturns,
                      cmdRemoveTree, RemoveReturns, RemoveDirEnds, CopyEntry, RemoveEntry
  <1>6. CASE UNCHANGED moveVars
    BY <1>2, <1>6 DEF moveVars
  <1> QED BY <1>3, <1>4, <1>5, <1>6

LEMMA MoveInvInit == MoveInit => MoveInv
  BY DiskInvInit DEF MoveInit, MoveInv, UnreadClosed

LEMMA MoveInvStep == MoveInv /\ [MoveNext]_moveVars => MoveInv'
  BY DiskInvStep, UnreadClosedStep DEF MoveInv

\* Every state of the disk, of the calls of copy_dir and remove_dir and of the job is of its type.
THEOREM MoveTyped == MoveSpec => []MoveTypeOK
  <1>1. MoveInv => MoveTypeOK
    BY DEF MoveInv, DiskInv
  <1> QED BY <1>1, MoveInvInit, MoveInvStep, PTL DEF MoveSpec

\* Whatever fails, and whenever the program is killed, the whole tree but what the last copy could
\* not read (fread, readdir) is on the disk: at its old place, under the temporary name of
\* move_with_copy, or at the destination.
THEOREM TreeNeverLost == MoveSpec => []WholeSomewhere
  <1>1. MoveInv => WholeSomewhere
    <2> SUFFICES ASSUME MoveInv PROVE \E place \in Place : AllRead(place)
      BY DEF WholeSomewhere
    <2>1. "from" \in Place /\ "to" \in Place /\ "temp" \in Place /\ Source \in Place
      BY DEF Place, Source
    <2>2. \A place \in Place : Whole(place) => AllRead(place)
      BY DEF Whole, AllRead
    <2> QED BY <2>1, <2>2 DEF MoveInv, DiskInv, PhaseInv, IdleDisk, SourceReady, Removing
  <1> QED BY <1>1, MoveInvInit, MoveInvStep, PTL DEF MoveSpec

\* A move that succeeds has moved everything it could read (cmdMove); one that fails has moved
\* nothing, or could not remove the original or rename it back (move_with_copy).
THEOREM MoveTruthful == MoveSpec => []MoveTellsTruth
  <1>1. MoveInv => MoveTellsTruth
    <2> SUFFICES ASSUME MoveInv, job.op = "move", job.phase = "idle"
                 PROVE  IF ~err_info THEN AllRead("to") /\ disk["from"] = Nothing /\ disk["temp"] = Nothing
                        ELSE Whole("from") \/ AllRead("to") \/ (Whole("temp") /\ May("rename"))
      BY DEF MoveTellsTruth
    <2>1. IdleDisk /\ disk \in [Place -> [Node -> Status]]
      BY MoveTypes DEF MoveInv, DiskInv, PhaseInv
    <2>2. ASSUME NEW place \in Place, Empty(place)
          PROVE  disk[place] = Nothing
      <3>1. disk[place] \in [Node -> Status] /\ Nothing \in [Node -> Status]
        BY <2>1 DEF Nothing, Status
      <3>2. \A n \in Node : disk[place][n] = Nothing[n]
        BY <2>2 DEF Empty, Present, Nothing
      <3> QED BY <3>1, <3>2
    <2> QED BY <2>1, <2>2 DEF IdleDisk, Place
  <1> QED BY <1>1, MoveInvInit, MoveInvStep, PTL DEF MoveSpec
=============================================================================
