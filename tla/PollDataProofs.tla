-------------------------- MODULE PollDataProofs --------------------------
(* Proofs about PollData: the types of its variables, the index of every    *)
(* table, the usage counts of the files, the number of findings that an     *)
(* iteration may still deliver, and the refinement of Polling, for all sets *)
(* of sockets, files and variables.                                         *)
EXTENDS PollData, PollTableProofs

---------------------------------------------------------------------------
(* Counting of references in all variables.                                 *)

PairCount(P) == Cardinality({z \in Var \X Position : z[2] \in P[z[1]]})

LEMMA PairCountChanges ==
  ASSUME NEW P \in [Var -> SUBSET Position], NEW Q \in [Var -> SUBSET Position], NEW x \in Var,
         \A y \in Var : y # x => Q[y] = P[y]
  PROVE  /\ PairCount(P) \in Nat /\ PairCount(Q) \in Nat
         /\ Cardinality(P[x]) \in Nat /\ Cardinality(Q[x]) \in Nat
         /\ PairCount(Q) = PairCount(P) - Cardinality(P[x]) + Cardinality(Q[x])
         /\ Cardinality(P[x]) <= PairCount(P)
  <1> DEFINE Pairs(R) == {z \in Var \X Position : z[2] \in R[z[1]]}
             Rest == {z \in Var \X Position : z[1] # x /\ z[2] \in P[z[1]]}
             At(D) == {x} \X D
  <1>1. IsFiniteSet(Position) /\ IsFiniteSet(Var)
    BY CellTypes, FS_Interval, PollDataAssumption DEF Position
  <1>2. IsFiniteSet(Var \X Position)
    BY <1>1, FS_Product
  <1>3. Rest \in SUBSET (Var \X Position) /\ IsFiniteSet(Rest) /\ Cardinality(Rest) \in Nat
    BY <1>2, FS_Subset, FS_CardinalityType
  <1>4. ASSUME NEW D \in SUBSET Position
        PROVE  /\ IsFiniteSet(At(D)) /\ Cardinality(At(D)) = Cardinality(D)
               /\ Cardinality(D) \in Nat /\ Rest \cap At(D) = {}
    <2>1. IsFiniteSet(D) /\ Cardinality(D) \in Nat
      BY <1>1, FS_Subset, FS_CardinalityType
    <2>2. IsFiniteSet({x}) /\ Cardinality({x}) = 1
      BY FS_Singleton
    <2>3. IsFiniteSet(At(D)) /\ Cardinality(At(D)) = 1 * Cardinality(D)
      BY <2>1, <2>2, FS_Product
    <2>4. Rest \cap At(D) = {}
      OBVIOUS
    <2> QED BY <2>1, <2>3, <2>4
  <1>5. Pairs(P) = Rest \cup At(P[x])
    OBVIOUS
  <1>6. Pairs(Q) = Rest \cup At(Q[x])
    OBVIOUS
  <1>7. ASSUME NEW D \in SUBSET Position
        PROVE  Cardinality(Rest \cup At(D)) = Cardinality(Rest) + Cardinality(D)
    <2>1. /\ IsFiniteSet(At(D)) /\ Cardinality(At(D)) = Cardinality(D)
          /\ Cardinality(D) \in Nat /\ Rest \cap At(D) = {}
      BY <1>4
    <2> HIDE DEF Rest, At
    <2>2. Cardinality(Rest \cup At(D))
            = Cardinality(Rest) + Cardinality(At(D)) - Cardinality({})
      BY <1>3, <2>1, FS_Union
    <2> QED BY <1>3, <2>1, <2>2, FS_EmptySet
  <1>8. P[x] \in SUBSET Position /\ Q[x] \in SUBSET Position
    OBVIOUS
  <1>9. PairCount(P) = Cardinality(Pairs(P)) /\ PairCount(Q) = Cardinality(Pairs(Q))
    BY DEF PairCount
  <1> HIDE DEF Rest, At, Pairs
  <1>10. /\ PairCount(P) = Cardinality(Rest) + Cardinality(P[x])
         /\ PairCount(Q) = Cardinality(Rest) + Cardinality(Q[x])
    BY <1>5, <1>6, <1>7, <1>8, <1>9
  <1>11. Cardinality(P[x]) \in Nat /\ Cardinality(Q[x]) \in Nat
    BY <1>4, <1>8
  <1> QED BY <1>3, <1>10, <1>11

---------------------------------------------------------------------------
(* The inductive invariant.                                                 *)

\* The positions of the entries that refer to a file.
RefsAt(d, f) == IF d = Undefined THEN {} ELSE {p \in Entries(d) : d.cells[p].file = f}

Files == File \cup {NoFile}
Result == [of : {"other", "hasNext", "nextFile"}, is : File \cup {NoFile} \cup BOOLEAN]

\* After a failed addCheck the index has an entry too many, and after a removal behind the
\* table an entry is overwritten; otherwise the index and the table agree.
DataOK(x) ==
  /\ data[x] = Undefined => x \notin overwritten
  /\ data[x] # Undefined =>
       /\ data[x].size <= MaxPos /\ data[x].size < data[x].capacity
       /\ x \notin failed /\ x \notin dangling /\ x \notin overwritten => TableOK(data[x])

Counted ==
  /\ usage \in [Files -> Int]
  /\ \A f \in Files \ miscounted : usage[f] = PairCount([x \in Var |-> RefsAt(data[x], f)])

PollInv ==
  /\ data \in [Var -> PollRecord \cup {Undefined}]
  /\ failed \subseteq Var /\ dangling \subseteq Var /\ result \in Result
  /\ overwritten \subseteq Var /\ miscounted \subseteq Files
  /\ \A x \in Var : DataOK(x)
  /\ Counted

LEMMA TableDefined ==
  /\ Table \subseteq PollRecord
  /\ \A d \in PollRecord : d # Undefined
  BY RecordTypes, UndefinedAssumption

LEMMA RefsTypes ==
  ASSUME NEW d \in PollRecord \cup {Undefined}, d # Undefined => d.size <= MaxPos, NEW f
  PROVE  RefsAt(d, f) \in SUBSET Position /\ IsFiniteSet(RefsAt(d, f))
  <1>1. RefsAt(d, f) \in SUBSET Position
    <2>1. CASE d = Undefined
      BY <2>1 DEF RefsAt
    <2>2. CASE d # Undefined
      <3>1. d.size \in Nat /\ d.size <= MaxPos /\ MaxPos \in Nat
        BY <2>2, RecordTypes, CellTypes
      <3> QED BY <2>2, <3>1 DEF RefsAt, Entries, Position
    <2> QED BY <2>1, <2>2
  <1>2. IsFiniteSet(Position)
    BY CellTypes, FS_Interval DEF Position
  <1> QED BY <1>1, <1>2, FS_Subset

\* A function sets one variable, and counts the references that it adds and removes.
LEMMA DataCounted ==
  ASSUME PollInv, NEW x \in Var, NEW g \in PollRecord \cup {Undefined}, Set(x, g),
         g # Undefined => g.size <= MaxPos /\ g.size < g.capacity,
         g # Undefined /\ x \notin failed' /\ x \notin dangling' /\ x \notin overwritten' => TableOK(g),
         g = Undefined => x \notin overwritten',
         failed' \subseteq Var, dangling' \subseteq Var,
         overwritten' \in {overwritten, overwritten \cup {x}, overwritten \ {x}},
         miscounted \subseteq miscounted', miscounted' \subseteq Files,
         \A y \in Var : y # x =>
           (y \in failed \/ y \in dangling => y \in failed' \/ y \in dangling'),
         usage' \in [Files -> Int],
         \A f \in Files \ miscounted' : usage'[f] = usage[f] - Cardinality(RefsAt(data[x], f))
                                                          + Cardinality(RefsAt(g, f)),
         result' \in Result
  PROVE  PollInv'
  <1>1. /\ data' \in [Var -> PollRecord \cup {Undefined}] /\ data'[x] = g
        /\ \A y \in Var : y # x => data'[y] = data[y]
    BY DEF PollInv, Set
  <1>0. /\ overwritten' \subseteq Var
        /\ \A y \in Var : y # x => (y \in overwritten' <=> y \in overwritten)
    BY DEF PollInv
  <1>2. \A y \in Var : DataOK(y)'
    <2>1. ASSUME NEW y \in Var, y # x
          PROVE  DataOK(y)'
      <3>1. DataOK(y)
        BY DEF PollInv
      <3> QED BY <1>0, <1>1, <2>1, <3>1 DEF DataOK
    <2>2. DataOK(x)'
      BY <1>1 DEF DataOK
    <2> QED BY <2>1, <2>2
  <1>3. ASSUME NEW f \in Files \ miscounted'
        PROVE  usage'[f] = PairCount([y \in Var |-> RefsAt(data'[y], f)])
    <2> DEFINE P == [y \in Var |-> RefsAt(data[y], f)]
               Q == [y \in Var |-> RefsAt(data'[y], f)]
    <2>1. P \in [Var -> SUBSET Position]
      <3>1. ASSUME NEW y \in Var
            PROVE  RefsAt(data[y], f) \in SUBSET Position
        <4>1. DataOK(y) /\ data[y] \in PollRecord \cup {Undefined}
          BY DEF PollInv
        <4> QED BY <4>1, RefsTypes DEF DataOK
      <3> QED BY <3>1
    <2>2. Q \in [Var -> SUBSET Position]
      <3>1. ASSUME NEW y \in Var
            PROVE  RefsAt(data'[y], f) \in SUBSET Position
        <4>1. data'[y] \in PollRecord \cup {Undefined} /\ (data'[y] # Undefined => data'[y].size <= MaxPos)
          BY <1>1, <1>2 DEF DataOK
        <4> QED BY <4>1, RefsTypes
      <3> QED BY <3>1
    <2>3. \A y \in Var : y # x => Q[y] = P[y]
      BY <1>1
    <2>4. P[x] = RefsAt(data[x], f) /\ Q[x] = RefsAt(g, f)
      BY <1>1
    <2>5. usage[f] = PairCount(P)
      BY DEF PollInv, Counted
    <2> HIDE DEF P, Q
    <2>6. /\ PairCount(P) \in Nat /\ PairCount(Q) \in Nat
          /\ PairCount(Q) = PairCount(P) - Cardinality(P[x]) + Cardinality(Q[x])
      BY <2>1, <2>2, <2>3, PairCountChanges
    <2>7. usage'[f] = usage[f] - Cardinality(RefsAt(data[x], f)) + Cardinality(RefsAt(g, f))
      OBVIOUS
    <2>8. usage'[f] = PairCount(Q)
      BY <2>4, <2>5, <2>6, <2>7
    <2> QED BY <2>8 DEF Q
  <1>5. Counted'
    BY <1>3 DEF Counted
  <1> QED BY <1>0, <1>1, <1>2, <1>5 DEF PollInv

\* The same when no file is miscounted.
LEMMA DataSet ==
  ASSUME PollInv, NEW x \in Var, NEW g \in PollRecord \cup {Undefined}, Set(x, g),
         g # Undefined => g.size <= MaxPos /\ g.size < g.capacity,
         g # Undefined /\ x \notin failed' /\ x \notin dangling' /\ x \notin overwritten' => TableOK(g),
         g = Undefined => x \notin overwritten',
         failed' \subseteq Var, dangling' \subseteq Var, UNCHANGED miscounted,
         overwritten' \in {overwritten, overwritten \ {x}},
         \A y \in Var : y # x =>
           (y \in failed \/ y \in dangling => y \in failed' \/ y \in dangling'),
         usage' = [f \in Files |-> usage[f] - Cardinality(RefsAt(data[x], f))
                                            + Cardinality(RefsAt(g, f))],
         result' \in Result
  PROVE  PollInv'
  <1>1. usage \in [Files -> Int]
    BY DEF PollInv, Counted
  <1>2. ASSUME NEW f \in Files
        PROVE  /\ usage'[f] = usage[f] - Cardinality(RefsAt(data[x], f)) + Cardinality(RefsAt(g, f))
               /\ usage'[f] \in Int
    <2>1. data[x] \in PollRecord \cup {Undefined} /\ (data[x] # Undefined => data[x].size <= MaxPos)
      BY DEF PollInv, DataOK
    <2>2. Cardinality(RefsAt(data[x], f)) \in Nat /\ Cardinality(RefsAt(g, f)) \in Nat
      BY <2>1, RefsTypes, FS_CardinalityType
    <2> QED BY <1>1, <2>2
  <1>3. usage' \in [Files -> Int]
    <2>1. usage' = [f \in Files |-> usage'[f]]
      OBVIOUS
    <2> QED BY <1>2, <2>1
  <1>4. miscounted \subseteq miscounted' /\ miscounted' \subseteq Files
    BY DEF PollInv
  <1> QED BY <1>2, <1>3, <1>4, DataCounted

\* The same when no reference is added or removed.
LEMMA DataKept ==
  ASSUME PollInv, NEW x \in Var, NEW g \in Table, Set(x, g),
         g.size <= MaxPos /\ g.size < g.capacity,
         x \notin failed' /\ x \notin dangling' => TableOK(g),
         failed' \subseteq Var, dangling' \subseteq Var, UNCHANGED <<overwritten, miscounted>>,
         \A y \in Var : y # x =>
           (y \in failed \/ y \in dangling => y \in failed' \/ y \in dangling'),
         \A f \in Files : Cardinality(RefsAt(g, f)) = Cardinality(RefsAt(data[x], f)),
         UNCHANGED usage, result' \in Result
  PROVE  PollInv'
  <1> DEFINE u == [f \in Files |-> usage[f] - Cardinality(RefsAt(data[x], f))
                                            + Cardinality(RefsAt(g, f))]
  <1>1. usage \in [Files -> Int]
    BY DEF PollInv, Counted
  <1>2. ASSUME NEW f \in Files
        PROVE  u[f] = usage[f]
    <2>1. data[x] \in PollRecord \cup {Undefined} /\ (data[x] # Undefined => data[x].size <= MaxPos)
      BY DEF PollInv, DataOK
    <2>2. Cardinality(RefsAt(data[x], f)) \in Nat
      BY <2>1, RefsTypes, FS_CardinalityType
    <2> QED BY <1>1, <2>2
  <1>3. usage' = u
    BY <1>1, <1>2
  <1>4. g \in PollRecord /\ g # Undefined
    BY TableDefined
  <1> QED BY <1>3, <1>4, DataSet

---------------------------------------------------------------------------
(* What the operations do to the references.                                *)

\* The sockets whose entry refers to a file.
SocketsWith(d, f) == {s \in DOMAIN d.index : Of(d, s).file = f}

LEMMA RefsBySocket ==
  ASSUME NEW d, TableOK(d), NEW f
  PROVE  /\ Cardinality(RefsAt(d, f)) = Cardinality(SocketsWith(d, f))
         /\ IsFiniteSet(SocketsWith(d, f)) /\ Cardinality(RefsAt(d, f)) \in Nat
         /\ Refs(d, f) = Cardinality(RefsAt(d, f))
  <1>1. d # Undefined
    BY TableDefined DEF TableOK
  <1> DEFINE P == {p \in Entries(d) : d.cells[p].file = f}
             T == {s \in DOMAIN d.index : d.index[s] \in P}
  <1>2. P \in SUBSET Entries(d) /\ RefsAt(d, f) = P /\ Refs(d, f) = Cardinality(P)
    BY <1>1 DEF RefsAt, Refs
  <1>3. T = SocketsWith(d, f)
    BY DEF SocketsWith, TableOK, Of
  <1> HIDE DEF P
  <1>4. IsFiniteSet(P) /\ IsFiniteSet(T) /\ Cardinality(P) = Cardinality(T)
    BY <1>2, EntriesCounted
  <1> QED BY <1>2, <1>3, <1>4, FS_CardinalityType

LEMMA SameFiles ==
  ASSUME NEW d, TableOK(d), NEW g, TableOK(g), DOMAIN g.index = DOMAIN d.index,
         \A s \in DOMAIN d.index : Of(g, s).file = Of(d, s).file
  PROVE  \A f \in Files : Cardinality(RefsAt(g, f)) = Cardinality(RefsAt(d, f))
  <1>1. ASSUME NEW f \in Files
        PROVE  Cardinality(RefsAt(g, f)) = Cardinality(RefsAt(d, f))
    <2>1. SocketsWith(g, f) = SocketsWith(d, f)
      BY DEF SocketsWith
    <2> QED BY <2>1, RefsBySocket
  <1> QED BY <1>1

\* A copy of a table, in memory with any other contents.
LEMMA CopyOK ==
  ASSUME NEW d, TableOK(d), NEW cells \in [Position -> Cell], NEW capacity \in Nat,
         NEW g, g = CopiedInto(d, cells, capacity)
  PROVE  /\ TableOK(g) /\ g.size = d.size /\ g.capacity = capacity /\ g.index = d.index
         /\ g.mode = d.mode /\ g.iterPos = d.iterPos /\ g.iterEvents = d.iterEvents
         /\ g.numOfEvents = d.numOfEvents /\ Entries(g) = Entries(d)
         /\ \A p \in Entries(d) : g.cells[p] = d.cells[p]
         /\ \A f : RefsAt(g, f) = RefsAt(d, f)
  <1> DEFINE w == [p \in Position |->
                     IF p \in Entries(d) THEN d.cells[p]
                     ELSE IF p = d.size THEN Terminated([cells[p] EXCEPT !.file = NoFile])
                     ELSE [cells[p] EXCEPT !.file = NoFile]]
  <1>1. d \in Table /\ d.cells \in [Position -> Cell] /\ d.size \in Nat /\ d.size <= MaxPos
    BY TableTypes DEF TableOK
  <1>2. w \in [Position -> Cell]
    <2>1. ASSUME NEW p \in Position
          PROVE  /\ d.cells[p] \in Cell /\ [cells[p] EXCEPT !.file = NoFile] \in Cell
                 /\ Terminated([cells[p] EXCEPT !.file = NoFile]) \in Cell
      <3>1. [cells[p] EXCEPT !.file = NoFile] \in Cell
        BY DEF Cell
      <3> QED BY <1>1, <3>1, CellTypes
    <2> QED BY <2>1
  <1>3. \A p \in Entries(d) : p \in Position /\ w[p] = d.cells[p]
    BY <1>1, CellTypes DEF Entries, Position
  <1>4. g = [d EXCEPT !.capacity = capacity, !.cells = w]
    BY DEF CopiedInto
  <1> HIDE DEF w
  <1>5. /\ g \in Table /\ g.size = d.size /\ g.capacity = capacity /\ g.index = d.index
        /\ g.mode = d.mode /\ g.iterPos = d.iterPos /\ g.iterEvents = d.iterEvents
        /\ g.numOfEvents = d.numOfEvents /\ g.cells = w
    BY <1>1, <1>2, <1>4 DEF Table
  <1>6. Entries(g) = Entries(d)
    BY <1>5 DEF Entries
  <1>7. TableOK(g)
    BY <1>3, <1>5, <1>6 DEF TableOK
  <1>8. \A f : RefsAt(g, f) = RefsAt(d, f)
    BY <1>1, <1>3, <1>5, <1>6, TableDefined DEF RefsAt
  <1> QED BY <1>3, <1>5, <1>6, <1>7, <1>8

LEMMA ResultTypes ==
  /\ NoResult \in Result
  /\ \A d, pos : [of |-> "hasNext", is |-> HasNextAt(d, pos)] \in Result
  BY DEF NoResult, Result, HasNextAt

---------------------------------------------------------------------------
(* The steps.                                                               *)

LEMMA ValidOK ==
  ASSUME PollInv, NEW x \in Var, Valid(x)
  PROVE  /\ data[x] \in PollRecord /\ data[x] # Undefined /\ data[x].size <= MaxPos
         /\ data[x].size < data[x].capacity /\ x \notin failed /\ x \notin dangling
  BY DEF PollInv, DataOK, Valid, Defined

LEMMA UsableOK ==
  ASSUME PollInv, NEW x \in Var, Usable(x)
  PROVE  /\ TableOK(data[x]) /\ data[x] \in Table /\ data[x].size <= MaxPos
         /\ data[x].size < data[x].capacity /\ x \notin failed /\ x \notin dangling
         /\ x \notin overwritten
  <1>1. /\ DataOK(x) /\ data[x] # Undefined /\ x \notin failed /\ x \notin dangling
        /\ x \notin overwritten
    BY DEF PollInv, Usable, Valid, Defined
  <1>2. TableOK(data[x])
    BY <1>1 DEF DataOK
  <1> QED BY <1>1, <1>2 DEF DataOK, TableOK

LEMMA AddCheckStep ==
  ASSUME PollInv, NEW x \in Var, NEW s \in Socket, NEW events \in PollModes, NEW file \in File,
         PolAddCheck(x, s, events, file)
  PROVE  PollInv'
  <1> DEFINE d == data[x]
             g == AddCheck(d, s, events, file)
  <1>1. /\ TableOK(d) /\ d \in Table /\ d.size <= MaxPos /\ d.size < d.capacity
        /\ x \notin failed /\ x \notin dangling
    BY UsableOK DEF PolAddCheck
  <1>2. /\ events \in Mask /\ file \in File \cup {NoFile} /\ file \in Files /\ file # NoFile
        /\ d.size < MaxPos /\ d.size \in Nat /\ MaxPos \in Nat
    BY <1>1, PollTableAssumption, TableTypes, CellTypes DEF PolAddCheck, Files
  <1>3. /\ Set(x, g) /\ UNCHANGED <<failed, dangling, overwritten, miscounted>> /\ result' = NoResult
        /\ usage' = IF PosOf(d, s) = d.size THEN [usage EXCEPT ![file] = @ + 1] ELSE usage
    BY DEF PolAddCheck, lost
  <1> HIDE DEF g
  <1>4. /\ TableOK(g) /\ g.size < g.capacity
        /\ IF s \in DOMAIN d.index
           THEN /\ g.index = d.index
                /\ \A t \in DOMAIN d.index : t # s => Of(g, t) = Of(d, t)
                /\ Of(g, s) = [Of(d, s) EXCEPT !.events = @ \cup events]
           ELSE /\ DOMAIN g.index = DOMAIN d.index \cup {s}
                /\ Of(g, s) = [fd |-> s, events |-> events, revents |-> {}, file |-> file]
                /\ \A t \in DOMAIN d.index : Of(g, t) = Of(d, t)
    <2>1. g = AddCheck(d, s, events, file)
      BY DEF g
    <2> HIDE DEF d
    <2> QED BY <1>1, <1>2, <2>1, AddCheckOK
  <1>5. g \in Table /\ g \in PollRecord /\ g # Undefined /\ g.size <= MaxPos
    BY <1>4, TableDefined DEF TableOK
  <1>6. failed' \subseteq Var /\ dangling' \subseteq Var /\ result' \in Result
    BY <1>3, ResultTypes DEF PollInv
  <1>7. CASE s \in DOMAIN d.index
    <2>1. UNCHANGED usage
      BY <1>1, <1>3, <1>7, PosOfEntry
    <2>2. Of(g, s).file = Of(d, s).file
      BY <1>1, <1>4, <1>7, PosOfEntry DEF Entry
    <2>3. \A t \in DOMAIN d.index : Of(g, t).file = Of(d, t).file
      BY <1>4, <1>7, <2>2
    <2>4. DOMAIN g.index = DOMAIN d.index
      BY <1>4, <1>7
    <2>5. \A f \in Files : Cardinality(RefsAt(g, f)) = Cardinality(RefsAt(d, f))
      BY <1>1, <1>4, <2>3, <2>4, SameFiles
    <2> QED BY <1>3, <1>4, <1>5, <1>6, <2>1, <2>5, DataKept
  <1>8. CASE s \notin DOMAIN d.index
    <2>1. usage' = [usage EXCEPT ![file] = @ + 1]
      BY <1>1, <1>3, <1>8, PosOfEntry
    <2>2. ASSUME NEW f \in Files
          PROVE  usage'[f] = usage[f] - Cardinality(RefsAt(d, f)) + Cardinality(RefsAt(g, f))
      <3>1. /\ Cardinality(RefsAt(d, f)) = Cardinality(SocketsWith(d, f))
            /\ IsFiniteSet(SocketsWith(d, f)) /\ Cardinality(SocketsWith(d, f)) \in Nat
            /\ Cardinality(RefsAt(g, f)) = Cardinality(SocketsWith(g, f))
        BY <1>1, <1>4, RefsBySocket, FS_CardinalityType
      <3>2. s \notin SocketsWith(d, f)
        BY <1>8 DEF SocketsWith
      <3>3. usage[f] \in Int /\ usage \in [Files -> Int]
        BY DEF PollInv, Counted
      <3>4. CASE f = file
        <4>1. SocketsWith(g, f) = SocketsWith(d, f) \cup {s}
          BY <1>4, <1>8, <3>4 DEF SocketsWith
        <4>2. Cardinality(SocketsWith(g, f)) = Cardinality(SocketsWith(d, f)) + 1
          BY <3>1, <3>2, <4>1, FS_AddElement
        <4>3. usage'[f] = usage[f] + 1
          BY <1>2, <2>1, <3>3, <3>4
        <4> QED BY <3>1, <3>3, <4>2, <4>3
      <3>5. CASE f # file
        <4>1. SocketsWith(g, f) = SocketsWith(d, f)
          BY <1>4, <1>8, <3>5 DEF SocketsWith
        <4>2. usage'[f] = usage[f]
          BY <2>1, <3>3, <3>5
        <4> QED BY <3>1, <3>3, <4>1, <4>2
      <3> QED BY <3>4, <3>5
    <2>3. usage' = [f \in Files |-> usage[f] - Cardinality(RefsAt(d, f))
                                              + Cardinality(RefsAt(g, f))]
      <3>1. usage \in [Files -> Int]
        BY DEF PollInv, Counted
      <3>2. usage' = [f \in Files |-> usage'[f]]
        BY <2>1, <3>1
      <3> QED BY <2>2, <3>2
    <2> QED BY <1>3, <1>4, <1>5, <1>6, <2>3, DataSet
  <1> QED BY <1>7, <1>8

\* The index gets the socket, the table does not.
LEMMA AddCheckFailsStep ==
  ASSUME PollInv, NEW x \in Var, NEW s \in Socket, PolAddCheckFails(x, s)
  PROVE  PollInv'
  <1> DEFINE d == data[x]
             g == AddCheckFails(d, s)
             i == SetIndex(d.index, s, PosOf(d, s))
  <1>1. /\ TableOK(d) /\ d \in Table /\ d.size <= MaxPos /\ d.size < d.capacity
        /\ d.size \in Position /\ d.index \in Indexes
    <2>1. /\ TableOK(d) /\ d \in Table /\ d.size <= MaxPos /\ d.size < d.capacity
      BY UsableOK DEF PolAddCheckFails
    <2> QED BY <2>1, TableTypes, CellTypes DEF Position
  <1>2. PosOf(d, s) \in Position
    <2>1. s \in DOMAIN d.index => PosOf(d, s) \in Position
      BY <1>1, IndexTypes DEF PosOf
    <2> QED BY <1>1, <2>1 DEF PosOf
  <1>3. i \in Indexes
    BY <1>1, <1>2, IndexSet
  <1>4. g = [d EXCEPT !.index = i]
    BY <1>1 DEF AddCheckFails, Table
  <1>5. /\ Set(x, g) /\ failed' = failed \cup {x} /\ dangling' = dangling /\ UNCHANGED usage
        /\ result' = NoResult /\ UNCHANGED <<overwritten, miscounted>>
    BY DEF PolAddCheckFails, lost
  <1> HIDE DEF i, g
  <1>6. g \in Table /\ g.size = d.size /\ g.capacity = d.capacity /\ g.cells = d.cells
    BY <1>1, <1>3, <1>4 DEF Table
  <1>7. \A f \in Files : RefsAt(g, f) = RefsAt(d, f)
    BY <1>1, <1>6, TableDefined DEF RefsAt, Entries
  <1>8. failed' \subseteq Var /\ dangling' \subseteq Var /\ result' \in Result
    BY <1>5, ResultTypes DEF PollInv
  <1> QED BY <1>1, <1>5, <1>6, <1>7, <1>8, DataKept

LEMMA RemoveCheckStep ==
  ASSUME PollInv, NEW x \in Var, NEW s \in Socket, NEW events \in PollModes,
         PolRemoveCheck(x, s, events), ~Overwrites(data[x], s, events)
  PROVE  PollInv'
  <1> DEFINE d == data[x]
             g == RemoveCheck(d, s, events)
             gone == d.cells[PosOf(d, s)].file
  <1>1. /\ TableOK(d) /\ d \in Table /\ d.size <= MaxPos /\ d.size < d.capacity
        /\ x \notin failed /\ x \notin dangling
    BY UsableOK DEF PolRemoveCheck
  <1>2. /\ Set(x, g) /\ UNCHANGED <<failed, dangling>> /\ result' = NoResult
        /\ usage' = IF IsRemoved(d, s, events) THEN [usage EXCEPT ![gone] = @ - 1] ELSE usage
        /\ UNCHANGED <<overwritten, miscounted>>
    BY DEF PolRemoveCheck, lost
  <1> HIDE DEF g
  <1>3. /\ TableOK(g) /\ g.capacity = d.capacity
        /\ IF IsRemoved(d, s, events)
           THEN /\ DOMAIN g.index = DOMAIN d.index \ {s} /\ g.size = d.size - 1
                /\ \A t \in DOMAIN g.index : Of(g, t) = Of(d, t)
           ELSE /\ g.index = d.index /\ g.size = d.size
                /\ \A t \in DOMAIN d.index : t # s => Of(g, t) = Of(d, t)
                /\ s \in DOMAIN d.index =>
                     Of(g, s) = [Of(d, s) EXCEPT !.events = @ \ events]
    <2>1. g = RemoveCheck(d, s, events)
      BY DEF g
    <2>2. ~Overwrites(d, s, events)
      OBVIOUS
    <2> HIDE DEF d
    <2> QED BY <1>1, <2>1, <2>2, RemoveCheckOK
  <1>4. d.size \in Nat /\ d.capacity \in Nat /\ d.cells \in [Position -> Cell]
    BY <1>1, TableTypes
  <1>5. g \in Table /\ g \in PollRecord /\ g # Undefined /\ g.size <= MaxPos /\ g.size < g.capacity
    <2>1. g \in Table /\ g \in PollRecord /\ g # Undefined /\ g.size <= MaxPos
      BY <1>3, TableDefined DEF TableOK
    <2>2. g.size = d.size \/ g.size = d.size - 1
      BY <1>3
    <2> QED BY <1>1, <1>3, <1>4, <2>1, <2>2
  <1>6. failed' \subseteq Var /\ dangling' \subseteq Var /\ result' \in Result
    BY <1>2, ResultTypes DEF PollInv
  <1>7. CASE ~IsRemoved(d, s, events)
    <2>1. ASSUME NEW t \in DOMAIN d.index
          PROVE  Of(g, t).file = Of(d, t).file
      <3>1. CASE t # s
        BY <1>3, <1>7, <3>1
      <3>2. CASE t = s
        <4>1. Of(d, s) \in Entry /\ Of(g, s) = [Of(d, s) EXCEPT !.events = @ \ events]
          BY <1>1, <1>3, <1>7, <3>2, PosOfEntry
        <4> QED BY <3>2, <4>1 DEF Entry
      <3> QED BY <3>1, <3>2
    <2>2. DOMAIN g.index = DOMAIN d.index /\ UNCHANGED usage
      BY <1>2, <1>3, <1>7
    <2>3. \A f \in Files : Cardinality(RefsAt(g, f)) = Cardinality(RefsAt(d, f))
      BY <1>1, <1>3, <2>1, <2>2, SameFiles
    <2> QED BY <1>2, <1>3, <1>5, <1>6, <2>2, <2>3, DataKept
  <1>8. CASE IsRemoved(d, s, events)
    <2>1. s \in DOMAIN d.index /\ gone = Of(d, s).file /\ gone \in Files
      <3>1. /\ s \in DOMAIN d.index /\ d.cells[PosOf(d, s)] = Of(d, s) /\ Of(d, s) \in Entry
        BY <1>1, <1>8, PosOfEntry
      <3> QED BY <3>1 DEF Entry, Files
    <2>2. usage' = [usage EXCEPT ![gone] = @ - 1]
      BY <1>2, <1>8
    <2> HIDE DEF gone
    <2>3. ASSUME NEW f \in Files
          PROVE  usage'[f] = usage[f] - Cardinality(RefsAt(d, f)) + Cardinality(RefsAt(g, f))
      <3>1. /\ Cardinality(RefsAt(d, f)) = Cardinality(SocketsWith(d, f))
            /\ IsFiniteSet(SocketsWith(d, f)) /\ Cardinality(SocketsWith(d, f)) \in Nat
            /\ Cardinality(RefsAt(g, f)) = Cardinality(SocketsWith(g, f))
        BY <1>1, <1>3, RefsBySocket, FS_CardinalityType
      <3>2. SocketsWith(g, f) = SocketsWith(d, f) \ {s}
        BY <1>3, <1>8 DEF SocketsWith
      <3>3. usage[f] \in Int /\ usage \in [Files -> Int]
        BY DEF PollInv, Counted
      <3>4. CASE f = gone
        <4>1. s \in SocketsWith(d, f)
          BY <2>1, <3>4 DEF SocketsWith
        <4>2. Cardinality(SocketsWith(g, f)) = Cardinality(SocketsWith(d, f)) - 1
          BY <3>1, <3>2, <4>1, FS_RemoveElement
        <4>3. usage'[f] = usage[f] - 1
          BY <2>1, <2>2, <3>3, <3>4
        <4> QED BY <3>1, <3>3, <4>2, <4>3
      <3>5. CASE f # gone
        <4>1. SocketsWith(g, f) = SocketsWith(d, f)
          BY <2>1, <3>2, <3>5 DEF SocketsWith
        <4>2. usage'[f] = usage[f]
          BY <2>2, <3>3, <3>5
        <4> QED BY <3>1, <3>3, <4>1, <4>2
      <3> QED BY <3>4, <3>5
    <2>4. usage' = [f \in Files |-> usage[f] - Cardinality(RefsAt(d, f))
                                              + Cardinality(RefsAt(g, f))]
      <3>1. usage \in [Files -> Int]
        BY DEF PollInv, Counted
      <3>2. usage' = [f \in Files |-> usage'[f]]
        BY <2>2, <3>1
      <3> QED BY <2>3, <3>2
    <2> QED BY <1>2, <1>3, <1>5, <1>6, <2>4, DataSet
  <1> QED BY <1>7, <1>8

\* The entry gets the contents of the memory before the iterator, and the last one is lost:
\* only the files of these two are counted wrongly.
LEMMA OverwritingStep ==
  ASSUME PollInv, NEW x \in Var, NEW s \in Socket, NEW events \in PollModes,
         PolRemoveCheck(x, s, events), Overwrites(data[x], s, events)
  PROVE  PollInv'
  <1> DEFINE d == data[x]
             g == RemoveCheck(d, s, events)
             h == d.index[s]
             gone == d.cells[PosOf(d, s)].file
  <1>1. /\ TableOK(d) /\ d \in Table /\ d.size <= MaxPos /\ d.size < d.capacity
        /\ x \notin failed /\ x \notin dangling
    BY UsableOK DEF PolRemoveCheck
  <1>2. /\ Set(x, g) /\ UNCHANGED <<failed, dangling>> /\ result' = NoResult
        /\ usage' = [usage EXCEPT ![gone] = @ - 1]
        /\ overwritten' = overwritten \cup {x} /\ miscounted' = miscounted \cup Strays(d)
    BY DEF PolRemoveCheck, Overwrites
  <1> HIDE DEF g
  <1>3. /\ g \in PollRecord /\ g.size = d.size - 1 /\ g.size \in Nat /\ g.capacity = d.capacity
        /\ d.iterPos - 1 \in Position /\ s \in DOMAIN d.index /\ h \in Entries(d)
        /\ \A p \in Entries(g) :
             g.cells[p] = IF p = h THEN d.cells[d.iterPos - 1] ELSE d.cells[p]
    <2>1. g = RemoveCheck(d, s, events) /\ Overwrites(d, s, events)
      BY DEF g
    <2> HIDE DEF d
    <2> QED BY <1>1, <2>1, OverwritesOK
  <1>4. /\ d.size \in Nat /\ d.capacity \in Nat /\ d.cells \in [Position -> Cell]
        /\ MaxPos \in Nat
    BY <1>1, TableTypes, CellTypes
  <1>5. g # Undefined /\ g.size <= MaxPos /\ g.size < g.capacity
    BY <1>1, <1>3, <1>4, TableDefined
  <1>6. failed' \subseteq Var /\ dangling' \subseteq Var /\ result' \in Result
    BY <1>2, ResultTypes DEF PollInv
  <1>7. PosOf(d, s) = h /\ h \in Position /\ gone = d.cells[h].file /\ gone \in Files
    <2>1. PosOf(d, s) = h /\ h \in Position
      BY <1>1, <1>3, <1>4, CellTypes DEF PosOf, Entries, Position
    <2> QED BY <1>4, <2>1 DEF Cell, Files
  <1>8. d.size - 1 \in Position
    BY <1>1, <1>3, <1>4 DEF Position
  <1>9. miscounted \subseteq miscounted' /\ miscounted' \subseteq Files
    <2>1. Strays(d) \subseteq Files
      BY <1>3, <1>4, <1>8 DEF Strays, Cell, Files
    <2> QED BY <1>2, <2>1 DEF PollInv
  <1>10. usage \in [Files -> Int] /\ usage' \in [Files -> Int]
    BY <1>2, <1>7 DEF PollInv, Counted
  <1> HIDE DEF gone, h
  <1>11. ASSUME NEW f \in Files \ miscounted'
         PROVE  usage'[f] = usage[f] - Cardinality(RefsAt(d, f)) + Cardinality(RefsAt(g, f))
    <2>1. f # d.cells[d.iterPos - 1].file /\ f # d.cells[d.size - 1].file
      BY <1>2 DEF Strays
    <2>2. d # Undefined /\ d \in PollRecord
      BY <1>1, TableDefined
    <2>3. Entries(g) = Entries(d) \ {d.size - 1}
      BY <1>3, <1>4 DEF Entries
    <2>4. RefsAt(g, f) = RefsAt(d, f) \ {h}
      BY <1>3, <1>5, <2>1, <2>2, <2>3 DEF RefsAt
    <2>5. IsFiniteSet(RefsAt(d, f)) /\ Cardinality(RefsAt(d, f)) \in Nat
      BY <1>1, <2>2, RefsTypes, FS_CardinalityType
    <2>6. CASE f = gone
      <3>1. h \in RefsAt(d, f)
        BY <1>3, <1>7, <2>2, <2>6 DEF RefsAt
      <3>2. Cardinality(RefsAt(g, f)) = Cardinality(RefsAt(d, f)) - 1
        BY <2>4, <2>5, <3>1, FS_RemoveElement
      <3>3. usage'[f] = usage[f] - 1 /\ usage[f] \in Int
        BY <1>2, <1>10, <2>6
      <3> QED BY <2>5, <3>2, <3>3
    <2>7. CASE f # gone
      <3>1. h \notin RefsAt(d, f)
        BY <1>7, <2>2, <2>7 DEF RefsAt
      <3>2. RefsAt(g, f) = RefsAt(d, f)
        BY <2>4, <3>1
      <3>3. usage'[f] = usage[f] /\ usage[f] \in Int
        BY <1>2, <1>10, <2>7
      <3> QED BY <2>5, <3>2, <3>3
    <2> QED BY <2>6, <2>7
  <1>12. overwritten' \in {overwritten, overwritten \cup {x}, overwritten \ {x}} /\ x \in overwritten'
    BY <1>2
  <1>13. \A y \in Var : y # x => (y \in failed \/ y \in dangling => y \in failed' \/ y \in dangling')
    BY <1>2
  <1> QED BY <1>2, <1>3, <1>5, <1>6, <1>9, <1>10, <1>11, <1>12, <1>13, DataCounted

\* The references of a valid variable, whatever its table is like.
LEMMA ValidRefs ==
  ASSUME PollInv, NEW x \in Var, data[x] # Undefined, NEW f
  PROVE  Refs(data[x], f) = Cardinality(RefsAt(data[x], f)) /\ Refs(data[x], f) \in Nat
  <1>1. data[x] \in PollRecord \cup {Undefined} /\ (data[x] # Undefined => data[x].size <= MaxPos)
    BY DEF PollInv, DataOK
  <1>2. Refs(data[x], f) = Cardinality(RefsAt(data[x], f))
    BY DEF Refs, RefsAt
  <1> QED BY <1>1, <1>2, RefsTypes, FS_CardinalityType

LEMMA ClearStep ==
  ASSUME PollInv, NEW x \in Var, PolClear(x)
  PROVE  PollInv'
  <1> DEFINE d == data[x]
             g == Clear(d)
  <1>1. d \in PollRecord /\ d # Undefined /\ d.size < d.capacity
    BY ValidOK DEF PolClear
  <1>2. /\ Set(x, g) /\ UNCHANGED <<failed, dangling, miscounted>> /\ result' = NoResult
        /\ usage' = [f \in DOMAIN usage |-> usage[f] - Refs(d, f)]
        /\ overwritten' = overwritten \ {x}
    BY DEF PolClear
  <1>3. TableOK(g) /\ g.size = 0 /\ g.capacity = d.capacity /\ DOMAIN g.index = {}
    BY <1>1, ClearOK
  <1>4. d.size \in Nat /\ d.capacity \in Nat
    BY <1>1, RecordTypes
  <1> HIDE DEF g
  <1>5. g \in PollRecord /\ g # Undefined /\ g.size <= MaxPos /\ g.size < g.capacity
    BY <1>1, <1>3, <1>4, TableDefined DEF TableOK
  <1>6. failed' \subseteq Var /\ dangling' \subseteq Var /\ result' \in Result
    BY <1>2, ResultTypes DEF PollInv
  <1>7. usage \in [Files -> Int]
    BY DEF PollInv, Counted
  <1>8. ASSUME NEW f \in Files
        PROVE  usage'[f] = usage[f] - Cardinality(RefsAt(d, f)) + Cardinality(RefsAt(g, f))
    <2>1. SocketsWith(g, f) = {}
      BY <1>3 DEF SocketsWith
    <2>2. Cardinality(RefsAt(g, f)) = 0
      BY <1>3, <2>1, RefsBySocket, FS_EmptySet
    <2>3. Refs(d, f) = Cardinality(RefsAt(d, f)) /\ Refs(d, f) \in Nat
      BY <1>1, ValidRefs
    <2>4. usage'[f] = usage[f] - Refs(d, f) /\ usage[f] \in Int
      BY <1>2, <1>7
    <2> QED BY <2>2, <2>3, <2>4
  <1>9. usage' = [f \in Files |-> usage[f] - Cardinality(RefsAt(d, f))
                                            + Cardinality(RefsAt(g, f))]
    <2>1. usage' = [f \in Files |-> usage'[f]]
      BY <1>2, <1>7
    <2> QED BY <1>8, <2>1
  <1> QED BY <1>2, <1>3, <1>5, <1>6, <1>9, DataSet

LEMMA PollStep ==
  ASSUME PollInv, NEW x \in Var, PolPoll(x)
  PROVE  PollInv'
  <1> DEFINE d == data[x]
  <1>1. /\ TableOK(d) /\ d \in Table /\ d.size <= MaxPos /\ d.size < d.capacity
    BY UsableOK DEF PolPoll
  <1>2. UNCHANGED <<failed, dangling, usage, overwritten, miscounted>> /\ result' = NoResult
    BY DEF PolPoll, lost
  <1>3. PICK found \in [Entries(d) -> SUBSET Reported] : Set(x, Poll(d, found))
    BY DEF PolPoll
  <1> DEFINE g == Poll(d, found)
  <1>4. found \in [Entries(d) -> SUBSET Finding]
    BY PollDataAssumption
  <1>5. /\ TableOK(g) /\ g.size = d.size /\ g.capacity = d.capacity /\ g.index = d.index
        /\ \A p \in Entries(d) : g.cells[p] = WithRevents(d.cells[p], found[p])
    <2>1. g = Poll(d, found)
      OBVIOUS
    <2> HIDE DEF g, d
    <2> QED BY <1>1, <1>4, <2>1, PollOK
  <1> HIDE DEF g
  <1>6. g \in Table /\ g.size <= MaxPos /\ g.size < g.capacity
    BY <1>1, <1>5 DEF TableOK
  <1>7. ASSUME NEW s \in DOMAIN d.index
        PROVE  Of(g, s).file = Of(d, s).file
    <2>1. d.index[s] \in Entries(d) /\ Of(d, s) \in Entry
      BY <1>1, PosOfEntry
    <2>2. Of(g, s) = WithRevents(Of(d, s), found[d.index[s]])
      BY <1>5, <2>1 DEF Of
    <2> QED BY <2>1, <2>2 DEF Entry, WithRevents
  <1>8. \A f \in Files : Cardinality(RefsAt(g, f)) = Cardinality(RefsAt(d, f))
    BY <1>1, <1>5, <1>7, SameFiles
  <1>9. failed' \subseteq Var /\ dangling' \subseteq Var /\ result' \in Result
    BY <1>2, ResultTypes DEF PollInv
  <1>10. Set(x, g)
    BY <1>3 DEF g
  <1> QED BY <1>2, <1>5, <1>6, <1>8, <1>9, <1>10, DataKept

\* The iterator operations keep all entries.
LEMMA IterateStep ==
  ASSUME PollInv, NEW x \in Var, Usable(x), NEW g, Same(data[x], g), Set(x, g),
         UNCHANGED <<failed, dangling, usage, overwritten, miscounted>>, result' \in Result
  PROVE  PollInv'
  <1> DEFINE d == data[x]
  <1>1. /\ TableOK(d) /\ d \in Table /\ d.size <= MaxPos /\ d.size < d.capacity
    BY UsableOK
  <1>2. /\ TableOK(g) /\ g.size = d.size /\ g.capacity = d.capacity /\ g.index = d.index
        /\ g.cells = d.cells
    BY DEF Same
  <1>3. g \in Table /\ g.size <= MaxPos /\ g.size < g.capacity
    BY <1>1, <1>2 DEF TableOK
  <1>4. \A f \in Files : Cardinality(RefsAt(g, f)) = Cardinality(RefsAt(d, f))
    BY <1>1, <1>2, SameFiles DEF Of
  <1>5. failed' \subseteq Var /\ dangling' \subseteq Var
    BY DEF PollInv
  <1> QED BY <1>2, <1>3, <1>4, <1>5, DataKept

LEMMA IterStep ==
  ASSUME PollInv, NEW x \in Var, PolIterChecks(x) \/ PolIterFindings(x)
  PROVE  PollInv'
  <1> DEFINE d == data[x]
  <1>1. TableOK(d) /\ d.mode \in Iterator /\ Usable(x)
    BY UsableOK, TableTypes DEF PolIterChecks, PolIterFindings
  <1>2. \A over \in {"checks", "findings"} : ChosenModes(x, over) \subseteq Iterator
    BY <1>1, PollTableAssumption DEF ChosenModes, ModesFor, Iterator
  <1>3. \E mode \in Iterator : Set(x, IterChecks(d, mode)) \/ Set(x, IterFindings(d, mode))
    BY <1>2 DEF PolIterChecks, PolIterFindings
  <1>4. PICK mode \in Iterator : Set(x, IterChecks(d, mode)) \/ Set(x, IterFindings(d, mode))
    BY <1>3
  <1>5. Same(d, IterChecks(d, mode)) /\ Same(d, IterFindings(d, mode))
    BY <1>1, StartOK
  <1>6. UNCHANGED <<failed, dangling, usage, overwritten, miscounted>> /\ result' \in Result
    BY ResultTypes DEF PolIterChecks, PolIterFindings, lost
  <1> QED BY <1>1, <1>4, <1>5, <1>6, IterateStep

LEMMA NextStep ==
  ASSUME PollInv, NEW x \in Var, PolHasNext(x) \/ PolNextFile(x)
  PROVE  PollInv'
  <1> DEFINE d == data[x]
  <1>1. TableOK(d) /\ Usable(x) /\ d.cells \in [Position -> Cell]
    <2>1. TableOK(d) /\ d \in Table /\ Usable(x)
      BY UsableOK DEF PolHasNext, PolNextFile
    <2> QED BY <2>1, TableTypes
  <1>2. UNCHANGED <<failed, dangling, usage, overwritten, miscounted>>
    BY DEF PolHasNext, PolNextFile, lost
  <1>3. CASE PolHasNext(x)
    <2>1. PICK pos \in NextPositions(d) :
            /\ Set(x, AfterHasNext(d, pos))
            /\ result' = [of |-> "hasNext", is |-> HasNextAt(d, pos)]
      BY <1>3 DEF PolHasNext
    <2>2. Same(d, AfterHasNext(d, pos))
      BY <1>1, NextOK
    <2> QED BY <1>1, <1>2, <2>1, <2>2, ResultTypes, IterateStep
  <1>4. CASE PolNextFile(x)
    <2>1. PICK pos \in NextPositions(d) :
            /\ Set(x, AfterNextFile(d, pos))
            /\ result' = [of |-> "nextFile", is |-> NextFileAt(d, pos)]
      BY <1>4 DEF PolNextFile
    <2>2. Same(d, AfterNextFile(d, pos))
      BY <1>1, NextOK
    <2>3. NextFileAt(d, pos) \in File \cup {NoFile}
      <3>1. HasNextAt(d, pos) => d.cells[pos] \in Entry
        BY <1>1, NextPositionsOK DEF TableOK
      <3> QED BY <3>1 DEF NextFileAt, Entry
    <2>4. result' \in Result
      BY <2>1, <2>3 DEF Result
    <2> QED BY <1>1, <1>2, <2>1, <2>2, <2>4, IterateStep
  <1> QED BY <1>3, <1>4

\* An assignment gives up the references of the old value.
LEMMA CpyStep ==
  ASSUME PollInv, NEW x \in Var, NEW y \in Var, PolCpy(x, y)
  PROVE  PollInv'
  <1> DEFINE d == data[y]
             fits == d.size + 1 <= data[x].capacity
             cells == IF fits THEN data[x].cells ELSE Fresh
             capacity == IF fits THEN data[x].capacity ELSE d.capacity
             g == CopiedInto(d, cells, capacity)
  <1>1. /\ TableOK(d) /\ d \in Table /\ d.size <= MaxPos /\ d.size < d.capacity
        /\ data[x] \in PollRecord /\ data[x] # Undefined /\ d # Undefined
    BY UsableOK, ValidOK, TableDefined DEF PolCpy
  <1>2. /\ d.size \in Nat /\ d.capacity \in Nat /\ data[x].capacity \in Nat
        /\ data[x].cells \in [Position -> Cell]
    BY <1>1, TableTypes, RecordTypes
  <1>3. cells \in [Position -> Cell]
    <2>1. Fresh \in [Position -> Cell]
      BY CellTypes DEF Fresh
    <2> QED BY <1>2, <2>1
  <1>4. capacity \in Nat /\ d.size < capacity
    BY <1>1, <1>2
  <1>5. /\ Set(x, g) /\ UNCHANGED <<failed, dangling, miscounted>> /\ result' = NoResult
        /\ overwritten' = overwritten \ {x}
        /\ usage' = [f \in DOMAIN usage |-> usage[f] + Refs(d, f) - Refs(data[x], f)]
    BY DEF PolCpy
  <1>6. /\ TableOK(g) /\ g.size = d.size /\ g.capacity = capacity
        /\ \A f : RefsAt(g, f) = RefsAt(d, f)
    <2>1. g = CopiedInto(d, cells, capacity)
      OBVIOUS
    <2> HIDE DEF g, cells, capacity, d
    <2> QED BY <1>1, <1>3, <1>4, <2>1, CopyOK
  <1> HIDE DEF g, cells, capacity
  <1>7. g \in PollRecord /\ g # Undefined /\ g.size <= MaxPos /\ g.size < g.capacity
    BY <1>4, <1>6, TableDefined DEF TableOK
  <1>8. failed' \subseteq Var /\ dangling' \subseteq Var /\ result' \in Result
    BY <1>5, ResultTypes DEF PollInv
  <1>9. usage \in [Files -> Int]
    BY DEF PollInv, Counted
  <1>10. ASSUME NEW f \in Files
         PROVE  usage'[f] = usage[f] - Cardinality(RefsAt(data[x], f)) + Cardinality(RefsAt(g, f))
    <2>1. /\ Refs(d, f) = Cardinality(RefsAt(g, f)) /\ Refs(d, f) \in Nat
          /\ Refs(data[x], f) = Cardinality(RefsAt(data[x], f)) /\ Refs(data[x], f) \in Nat
      BY <1>1, <1>6, ValidRefs
    <2>2. usage'[f] = usage[f] + Refs(d, f) - Refs(data[x], f)
      BY <1>5, <1>9
    <2> QED BY <1>9, <2>1, <2>2
  <1>11. usage' = [f \in Files |-> usage[f] - Cardinality(RefsAt(data[x], f))
                                             + Cardinality(RefsAt(g, f))]
    <2>1. usage' = [f \in Files |-> usage'[f]]
      BY <1>5, <1>9
    <2> QED BY <1>10, <2>1
  <1> QED BY <1>5, <1>6, <1>7, <1>8, <1>11, DataSet

LEMMA CpyFailsStep ==
  ASSUME PollInv, NEW x \in Var, NEW y \in Var, PolCpyFails(x, y)
  PROVE  PollInv'
  <1>1. /\ dangling' = dangling \cup {x} /\ UNCHANGED <<data, failed, usage>>
        /\ result' = NoResult /\ UNCHANGED <<overwritten, miscounted>>
    BY DEF PolCpyFails, lost
  <1>2. \A z \in Var : DataOK(z)'
    BY <1>1 DEF PollInv, DataOK
  <1>3. Counted'
    BY <1>1 DEF PollInv, Counted
  <1> QED BY <1>1, <1>2, <1>3, ResultTypes DEF PollInv

LEMMA CreateStep ==
  ASSUME PollInv, NEW x \in Var, PolEmpty(x) \/ \E y \in Var : PolCreate(x, y)
  PROVE  PollInv'
  <1>1. /\ data[x] = Undefined /\ UNCHANGED <<failed, dangling, overwritten, miscounted>>
        /\ result' \in Result
    BY ResultTypes DEF PolEmpty, PolCreate, lost
  <1>2. failed' \subseteq Var /\ dangling' \subseteq Var /\ usage \in [Files -> Int]
    BY <1>1 DEF PollInv, Counted
  <1>3. \A f : RefsAt(data[x], f) = {}
    BY <1>1 DEF RefsAt
  <1>4. Cardinality({}) = 0
    BY FS_EmptySet
  <1>5. CASE PolEmpty(x)
    <2>1. Set(x, Empty) /\ UNCHANGED usage
      BY <1>5 DEF PolEmpty
    <2>2. Empty \in Table /\ Empty.size <= MaxPos /\ Empty.size < Empty.capacity /\ TableOK(Empty)
      BY EmptyOK DEF TableOK
    <2>3. \A f : RefsAt(Empty, f) = {}
      BY EmptyOK DEF RefsAt, Entries
    <2>4. \A f \in Files : Cardinality(RefsAt(Empty, f)) = Cardinality(RefsAt(data[x], f))
      BY <1>3, <2>3
    <2> QED BY <1>1, <1>2, <2>1, <2>2, <2>4, DataKept
  <1>6. ASSUME NEW y \in Var, PolCreate(x, y)
        PROVE  PollInv'
    <2> DEFINE d == data[y]
               g == CopiedInto(d, Fresh, d.capacity)
    <2>1. /\ TableOK(d) /\ d \in Table /\ d.size <= MaxPos /\ d.size < d.capacity
      BY <1>6, UsableOK DEF PolCreate
    <2>2. d.capacity \in Nat /\ Fresh \in [Position -> Cell]
      BY <2>1, TableTypes, CellTypes DEF Fresh
    <2>3. /\ Set(x, g) /\ usage' = [f \in DOMAIN usage |-> usage[f] + Refs(d, f)]
      BY <1>6 DEF PolCreate
    <2>4. /\ TableOK(g) /\ g.size = d.size /\ g.capacity = d.capacity
          /\ \A f : RefsAt(g, f) = RefsAt(d, f)
      <3>1. g = CopiedInto(d, Fresh, d.capacity)
        OBVIOUS
      <3> HIDE DEF g, d
      <3> QED BY <2>1, <2>2, <3>1, CopyOK
    <2> HIDE DEF g
    <2>5. g \in PollRecord /\ g # Undefined /\ g.size <= MaxPos /\ g.size < g.capacity
      BY <2>1, <2>4, TableDefined DEF TableOK
    <2>6. ASSUME NEW f \in Files
          PROVE  usage'[f] = usage[f] - Cardinality(RefsAt(data[x], f))
                                      + Cardinality(RefsAt(g, f))
      <3>1. Refs(d, f) = Cardinality(RefsAt(g, f)) /\ Refs(d, f) \in Nat
        BY <2>1, <2>4, RefsBySocket
      <3>2. usage'[f] = usage[f] + Refs(d, f)
        BY <1>2, <2>3
      <3>3. Cardinality(RefsAt(data[x], f)) = 0
        BY <1>3, <1>4
      <3>4. usage[f] \in Int
        BY <1>2
      <3> QED BY <3>1, <3>2, <3>3, <3>4
    <2>7. usage' = [f \in Files |-> usage[f] - Cardinality(RefsAt(data[x], f))
                                              + Cardinality(RefsAt(g, f))]
      <3>1. usage' = [f \in Files |-> usage'[f]]
        BY <1>2, <2>3
      <3> QED BY <2>6, <3>1
    <2> QED BY <1>1, <1>2, <2>3, <2>4, <2>5, <2>7, DataSet
  <1> QED BY <1>5, <1>6

LEMMA DestrStep ==
  ASSUME PollInv, NEW x \in Var, PolDestr(x)
  PROVE  PollInv'
  <1> DEFINE d == data[x]
  <1>1. /\ Set(x, Undefined) /\ result' = NoResult /\ failed' = failed \ {x}
        /\ UNCHANGED <<dangling, miscounted>> /\ d # Undefined /\ overwritten' = overwritten \ {x}
        /\ usage' = [f \in DOMAIN usage |-> usage[f] - Refs(d, f)]
    BY DEF PolDestr, Defined
  <1>2. usage \in [Files -> Int]
    BY DEF PollInv, Counted
  <1>3. ASSUME NEW f \in Files
        PROVE  usage'[f] = usage[f] - Cardinality(RefsAt(d, f))
                                    + Cardinality(RefsAt(Undefined, f))
    <2>1. RefsAt(Undefined, f) = {}
      BY DEF RefsAt
    <2>2. Refs(d, f) = Cardinality(RefsAt(d, f)) /\ Refs(d, f) \in Nat
      BY <1>1, ValidRefs
    <2>3. usage'[f] = usage[f] - Refs(d, f)
      BY <1>1, <1>2
    <2> QED BY <1>2, <2>1, <2>2, <2>3, FS_EmptySet
  <1>4. usage' = [f \in Files |-> usage[f] - Cardinality(RefsAt(d, f))
                                            + Cardinality(RefsAt(Undefined, f))]
    <2>1. usage' = [f \in Files |-> usage'[f]]
      BY <1>1, <1>2
    <2> QED BY <1>3, <2>1
  <1>5. failed' \subseteq Var /\ dangling' \subseteq Var /\ result' \in Result
    BY <1>1, ResultTypes DEF PollInv
  <1> QED BY <1>1, <1>4, <1>5, DataSet

LEMMA InitPollInv ==
  ASSUME Init
  PROVE  PollInv
  <1>1. /\ data \in [Var -> PollRecord \cup {Undefined}] /\ \A x \in Var : data[x] = Empty
        /\ overwritten = {} /\ miscounted = {}
    BY EmptyOK, TableDefined DEF Init, TableOK
  <1>2. \A x \in Var : DataOK(x)
    <2>1. TableOK(Empty) /\ Empty.size < Empty.capacity /\ Empty.size <= MaxPos
      BY EmptyOK DEF TableOK
    <2> QED BY <1>1, <2>1 DEF DataOK
  <1>3. ASSUME NEW f \in Files
        PROVE  PairCount([x \in Var |-> RefsAt(data[x], f)]) = 0
    <2>1. RefsAt(Empty, f) = {}
      BY EmptyOK DEF RefsAt, Entries
    <2> DEFINE P == [x \in Var |-> RefsAt(data[x], f)]
    <2>2. \A x \in Var : P[x] = {}
      BY <1>1, <2>1
    <2> HIDE DEF P
    <2>3. {z \in Var \X Position : z[2] \in P[z[1]]} = {}
      BY <2>2
    <2>4. PairCount(P) = 0
      BY <2>3, FS_EmptySet DEF PairCount
    <2> QED BY <2>4 DEF P
  <1>4. Counted
    BY <1>3 DEF Counted, Init, Files
  <1> QED BY <1>1, <1>2, <1>4, ResultTypes DEF PollInv, Init

LEMMA StepPollInv ==
  ASSUME PollInv, [Next]_vars
  PROVE  PollInv'
  <1>1. CASE UNCHANGED vars
    BY <1>1 DEF PollInv, vars, lost, DataOK, Counted
  <1>2. ASSUME NEW x \in Var,
               \/ \E s \in Socket, events \in PollModes :
                    \/ \E file \in File : PolAddCheck(x, s, events, file)
                    \/ PolRemoveCheck(x, s, events)
               \/ \E s \in Socket : PolAddCheckFails(x, s)
               \/ PolClear(x) \/ PolPoll(x) \/ PolIterChecks(x) \/ PolIterFindings(x)
               \/ PolHasNext(x) \/ PolNextFile(x)
               \/ \E y \in Var : PolCpy(x, y) \/ PolCpyFails(x, y) \/ PolCreate(x, y)
               \/ PolEmpty(x) \/ PolDestr(x)
        PROVE  PollInv'
    BY <1>2, AddCheckStep, RemoveCheckStep, OverwritingStep, AddCheckFailsStep, ClearStep, PollStep, IterStep,
       NextStep, CpyStep, CpyFailsStep, CreateStep, DestrStep
  <1> QED BY <1>1, <1>2 DEF Next

---------------------------------------------------------------------------
(* Theorems.                                                                *)

LEMMA PollInvariant == Spec => []PollInv
  <1>1. Init => PollInv
    BY InitPollInv
  <1>2. PollInv /\ [Next]_vars => PollInv'
    BY StepPollInv
  <1> QED BY <1>1, <1>2, PTL DEF Spec

\* Types of all variables of PollData: the end mark never leaves the allocated memory,
\* and no usage count of a file becomes negative, except that of a file whose reference
\* was overwritten by a removal after the end of an iteration.
THEOREM PollTyped == Spec => []TypeOK
  <1>1. ASSUME PollInv
        PROVE  TypeOK
    <2>1. ASSUME NEW x \in Var, data[x] # Undefined
          PROVE  data[x] \in PollRecord /\ data[x].size < data[x].capacity
      BY <1>1, <2>1 DEF PollInv, DataOK
    <2>2. ASSUME NEW f \in File \ miscounted
          PROVE  usage[f] >= 0
      <3> DEFINE P == [x \in Var |-> RefsAt(data[x], f)]
      <3>1. usage[f] = PairCount(P)
        BY <1>1 DEF PollInv, Counted, Files
      <3>2. P \in [Var -> SUBSET Position]
        <4>1. ASSUME NEW x \in Var
              PROVE  RefsAt(data[x], f) \in SUBSET Position
          <5>1. DataOK(x) /\ data[x] \in PollRecord \cup {Undefined}
            BY <1>1 DEF PollInv
          <5> QED BY <5>1, RefsTypes DEF DataOK
        <4> QED BY <4>1
      <3> HIDE DEF P
      <3>3. PairCount(P) \in Nat
        BY <3>2, PairCountChanges, PollDataAssumption
      <3> QED BY <3>1, <3>3
    <2> QED BY <1>1, <2>1, <2>2 DEF TypeOK, PollInv, Counted, Files, Result
  <1> QED BY <1>1, PollInvariant, PTL

\* The index refers to the entries of the table and to nothing else, so that addCheck,
\* removeCheck and the finding of a socket come to its own entry, wherever removals
\* during an iteration have moved it.  Only the removal of a check after the end of an
\* iteration breaks it, until the variable is cleared or gets another value.
THEOREM IndexAgrees == Spec => []IndexMatches
  <1>1. ASSUME PollInv
        PROVE  IndexMatches
    <2>1. ASSUME NEW x \in Var, Valid(x), x \notin overwritten
          PROVE  LET d == data[x]
                 IN  /\ \A p \in Entries(d) : d.cells[p].fd \in DOMAIN d.index
                                              /\ d.index[d.cells[p].fd] = p
                     /\ \A s \in DOMAIN d.index : d.index[s] \in Entries(d)
                                                  /\ d.cells[d.index[s]].fd = s
                     /\ \A p \in Entries(d) : d.cells[p].events # {}
      <3>1. TableOK(data[x])
        BY <1>1, <2>1, UsableOK DEF Usable
      <3>2. \A p \in Entries(data[x]) : data[x].cells[p].events # {}
        BY <3>1 DEF TableOK, Entry
      <3> QED BY <3>1, <3>2 DEF TableOK
    <2> QED BY <2>1 DEF IndexMatches
  <1> QED BY <1>1, PollInvariant, PTL

\* The usage count of every file is the number of entries that refer to it, after any
\* sequence of additions, removals, assignments and failed calls, except for the files of
\* the entries that a removal after the end of an iteration has overwritten or lost.
THEOREM ReferencesCounted == Spec => []UsageCounted
  <1>1. ASSUME PollInv
        PROVE  UsageCounted
    <2> DEFINE RefersTo(f, x, p) == data[x] # Undefined /\ p \in Entries(data[x])
                                                   /\ data[x].cells[p].file = f
    <2>1. ASSUME NEW f \in File \ miscounted
          PROVE  usage[f]
                   = Cardinality({entry \in Var \X Position : RefersTo(f, entry[1], entry[2])})
      <3> DEFINE P == [x \in Var |-> RefsAt(data[x], f)]
      <3>1. usage[f] = PairCount(P)
        BY <1>1 DEF PollInv, Counted, Files
      <3>2. \A x \in Var, p \in Position : RefersTo(f, x, p) <=> p \in P[x]
        BY DEF RefsAt
      <3> HIDE DEF P, RefersTo
      <3>3. {entry \in Var \X Position : RefersTo(f, entry[1], entry[2])}
              = {z \in Var \X Position : z[2] \in P[z[1]]}
        BY <3>2
      <3> QED BY <3>1, <3>3 DEF PairCount
    <2> QED BY <2>1 DEF UsageCounted
  <1> QED BY <1>1, PollInvariant, PTL

---------------------------------------------------------------------------
(* The number of findings.                                                  *)

\* No entry with findings is missing in the number that poll has returned, nor in the one
\* that the iterator counts down.
FindingsOK(d) ==
  /\ d.numOfEvents >= Cardinality(Found(d))
  /\ d.mode.over = "findings" => d.iterEvents >= Cardinality(Left(d))

\* The iterator of an overwritten table is behind it.
FindingsInv ==
  \A x \in Var : data[x] # Undefined =>
    IF x \in overwritten THEN Left(data[x]) = {} ELSE FindingsOK(data[x])

\* An operation that brings no findings, and no findings behind the iterator.
LEMMA FindingsKept ==
  ASSUME NEW d, TableOK(d), FindingsOK(d), NEW g, TableOK(g), g.mode = d.mode,
         g.numOfEvents = d.numOfEvents, g.iterEvents = d.iterEvents,
         \A t \in DOMAIN g.index :
           \/ Of(g, t).revents = {}
           \/ /\ t \in DOMAIN d.index /\ Of(g, t).revents = Of(d, t).revents
              /\ g.index[t] >= g.iterPos => d.index[t] >= d.iterPos
  PROVE  FindingsOK(g)
  <1>1. FoundSockets(g) \in SUBSET FoundSockets(d) /\ LeftSockets(g) \in SUBSET LeftSockets(d)
    BY DEF FoundSockets, LeftSockets
  <1>2. /\ Cardinality(FoundSockets(g)) <= Cardinality(FoundSockets(d))
        /\ Cardinality(LeftSockets(g)) <= Cardinality(LeftSockets(d))
    BY <1>1, FindingsBySocket, FS_Subset
  <1>3. /\ Cardinality(Found(g)) = Cardinality(FoundSockets(g))
        /\ Cardinality(Found(d)) = Cardinality(FoundSockets(d))
        /\ Cardinality(Left(g)) = Cardinality(LeftSockets(g))
        /\ Cardinality(Left(d)) = Cardinality(LeftSockets(d))
        /\ Cardinality(Found(g)) \in Nat /\ Cardinality(Found(d)) \in Nat
        /\ Cardinality(Left(g)) \in Nat /\ Cardinality(Left(d)) \in Nat
    BY FindingsBySocket
  <1>4. d.numOfEvents \in Nat /\ d.iterEvents \in Nat
    BY TableTypes DEF TableOK
  <1> QED BY <1>2, <1>3, <1>4 DEF FindingsOK

LEMMA FindingsSet ==
  ASSUME PollInv, FindingsInv, NEW x \in Var, NEW g, Set(x, g), overwritten' = overwritten \ {x},
         g # Undefined => FindingsOK(g)
  PROVE  FindingsInv'
  <1>1. data \in [Var -> PollRecord \cup {Undefined}]
    BY DEF PollInv
  <1>2. data'[x] = g /\ \A y \in Var : y # x => data'[y] = data[y]
    BY <1>1 DEF Set
  <1>3. ASSUME NEW y \in Var, data'[y] # Undefined
        PROVE  IF y \in overwritten' THEN Left(data'[y]) = {} ELSE FindingsOK(data'[y])
    <2>1. CASE y = x
      BY <1>2, <1>3, <2>1
    <2>2. CASE y # x
      BY <1>2, <1>3, <2>2 DEF FindingsInv
    <2> QED BY <2>1, <2>2
  <1> QED BY <1>3 DEF FindingsInv

LEMMA UsableFindings ==
  ASSUME PollInv, FindingsInv, NEW x \in Var, Usable(x)
  PROVE  /\ TableOK(data[x]) /\ FindingsOK(data[x])
         /\ UNCHANGED lost => overwritten' = overwritten \ {x}
  BY UsableOK DEF FindingsInv, Usable, Valid, Defined, lost

\* A removal that overwrites an entry leaves the iterator behind the table.
LEMMA OverwritingFindings ==
  ASSUME PollInv, FindingsInv, NEW x \in Var, NEW s \in Socket, NEW events \in PollModes,
         PolRemoveCheck(x, s, events), Overwrites(data[x], s, events)
  PROVE  FindingsInv'
  <1> DEFINE d == data[x]
             g == RemoveCheck(d, s, events)
  <1>1. Set(x, g) /\ Usable(x) /\ overwritten' = overwritten \cup {x}
    BY DEF PolRemoveCheck
  <1>2. TableOK(d)
    BY <1>1, UsableFindings
  <1>3. g = RemoveCheck(d, s, events)
    OBVIOUS
  <1> HIDE DEF g
  <1>4. g.size \in Nat /\ g.iterPos > g.size /\ g \in PollRecord
    <2>1. Overwrites(d, s, events)
      OBVIOUS
    <2> HIDE DEF d
    <2> QED BY <1>2, <1>3, <2>1, OverwritesOK
  <1>5. Left(g) = {}
    <2>1. g.iterPos \in Nat
      BY <1>4, RecordTypes, CellTypes DEF Position
    <2> QED BY <1>4, <2>1 DEF Left, Entries
  <1>6. data'[x] = g /\ \A y \in Var : y # x => data'[y] = data[y]
    BY <1>1 DEF Set, PollInv
  <1>7. ASSUME NEW y \in Var, data'[y] # Undefined
        PROVE  IF y \in overwritten' THEN Left(data'[y]) = {} ELSE FindingsOK(data'[y])
    <2>1. CASE y = x
      BY <1>1, <1>5, <1>6, <2>1
    <2>2. CASE y # x
      BY <1>1, <1>6, <1>7, <2>2 DEF FindingsInv
    <2> QED BY <2>1, <2>2
  <1> QED BY <1>7 DEF FindingsInv

LEMMA NoFindings ==
  ASSUME NEW d, TableOK(d), d.size = 0
  PROVE  FindingsOK(d)
  <1>1. Found(d) = {} /\ Left(d) = {}
    BY DEF Found, Left, Entries
  <1>2. d.numOfEvents \in Nat /\ d.iterEvents \in Nat
    BY TableTypes DEF TableOK
  <1> QED BY <1>1, <1>2, FS_EmptySet DEF FindingsOK

LEMMA IterFindingsStep ==
  ASSUME PollInv, FindingsInv, ~RangeErrors, NEW x \in Var, PolIterChecks(x) \/ PolIterFindings(x)
  PROVE  FindingsInv'
  <1> DEFINE d == data[x]
  <1>1. TableOK(d) /\ FindingsOK(d) /\ overwritten' = overwritten \ {x}
    BY UsableFindings DEF PolIterChecks, PolIterFindings
  <1>2. \A over \in {"checks", "findings"} :
          /\ ChosenModes(x, over) \subseteq Iterator
          /\ \A mode \in ChosenModes(x, over) : mode.over \in {over, "empty"}
    BY PollTableAssumption DEF ChosenModes, ModesFor, Iterator, NoIterator
  <1>3. CASE PolIterChecks(x)
    <2>1. PICK mode \in ChosenModes(x, "checks") : Set(x, IterChecks(d, mode))
      BY <1>3 DEF PolIterChecks
    <2> DEFINE g == IterChecks(d, mode)
    <2>2. mode \in Iterator /\ mode.over # "findings"
      BY <1>2, <2>1
    <2>3. Same(d, g) /\ g.mode = mode
      BY <1>1, <2>2, StartOK
    <2>4. Set(x, g)
      BY <2>1
    <2> HIDE DEF g
    <2>5. Found(g) = Found(d) /\ g.numOfEvents = d.numOfEvents
      BY <2>3 DEF Same, Found, Entries
    <2>6. FindingsOK(g)
      BY <1>1, <2>2, <2>3, <2>5 DEF FindingsOK
    <2> QED BY <1>1, <2>4, <2>6, FindingsSet
  <1>4. CASE PolIterFindings(x)
    <2>1. PICK mode \in ChosenModes(x, "findings") : Set(x, IterFindings(d, mode))
      BY <1>4 DEF PolIterFindings
    <2> DEFINE g == IterFindings(d, mode)
    <2>2. mode \in Iterator
      BY <1>2, <2>1
    <2>3. Same(d, g) /\ g.iterEvents = d.numOfEvents
      BY <1>1, <2>2, StartOK
    <2>4. Set(x, g)
      BY <2>1
    <2> HIDE DEF g
    <2>5. Found(g) = Found(d) /\ g.numOfEvents = d.numOfEvents /\ TableOK(g)
      BY <2>3 DEF Same, Found, Entries
    <2>6. Cardinality(Left(g)) <= Cardinality(Found(g))
      BY <2>5, FindingsBySocket, FS_Subset
    <2>7. d.numOfEvents \in Nat
      BY <1>1, TableTypes DEF TableOK
    <2>8. FindingsOK(g)
      <3>1. Cardinality(Left(g)) \in Nat /\ Cardinality(Found(g)) \in Nat
        BY <2>5, FindingsBySocket
      <3> QED BY <1>1, <2>3, <2>5, <2>6, <2>7, <3>1 DEF FindingsOK
    <2> QED BY <1>1, <2>4, <2>8, FindingsSet
  <1> QED BY <1>3, <1>4

\* The entry that nextFile delivers is no longer behind the iterator; it is counted when
\* it has no other findings.
LEMMA NextFindings ==
  ASSUME NEW d, TableOK(d), FindingsOK(d), NEW pos \in NextPositions(d)
  PROVE  FindingsOK(AfterHasNext(d, pos)) /\ FindingsOK(AfterNextFile(d, pos))
  <1> DEFINE h == AfterHasNext(d, pos)
             g == AfterNextFile(d, pos)
  <1>1. /\ Same(d, h) /\ h.mode = d.mode /\ h.iterPos = pos /\ h.iterEvents = d.iterEvents
        /\ Same(d, g) /\ g.mode = d.mode
        /\ g.iterPos = IF HasNextAt(d, pos) THEN pos + 1 ELSE pos
        /\ g.iterEvents = IF HasNextAt(d, pos) /\ d.mode.over = "findings"
                             /\ d.cells[pos].revents \subseteq d.mode.mask
                          THEN d.iterEvents - 1 ELSE d.iterEvents
    BY NextOK
  <1>2. /\ d.size \in Nat /\ d.iterPos \in Nat /\ pos \in Nat /\ d.iterEvents \in Nat
        /\ (pos >= d.iterPos \/ pos >= d.size)
    <2>1. d.size \in Nat /\ d.iterPos \in Position /\ d.iterEvents \in Nat /\ pos \in Position
      BY TableTypes, NextPositionsOK DEF TableOK
    <2>2. pos >= d.iterPos \/ pos >= d.size
      BY <2>1, CellTypes DEF NextPositions, Scan, Position
    <2> QED BY <2>1, <2>2, CellTypes DEF Position
  <1>3. TableOK(h) /\ TableOK(g) /\ h.index = d.index /\ h.cells = d.cells
        /\ g.index = d.index /\ g.cells = d.cells /\ h.numOfEvents = d.numOfEvents
        /\ g.numOfEvents = d.numOfEvents /\ g.size = d.size
    BY <1>1 DEF Same
  <1> HIDE DEF h, g
  <1>4. \A t \in DOMAIN d.index : d.index[t] \in Nat /\ d.index[t] < d.size
    BY <1>2 DEF TableOK, Entries
  <1>5. FindingsOK(h)
    <2>1. \A t \in DOMAIN h.index :
            /\ t \in DOMAIN d.index /\ Of(h, t).revents = Of(d, t).revents
            /\ h.index[t] >= h.iterPos => d.index[t] >= d.iterPos
      BY <1>1, <1>2, <1>3, <1>4 DEF Of
    <2> QED BY <1>1, <1>3, <2>1, FindingsKept
  <1>6. CASE g.iterEvents = d.iterEvents
    <2>1. \A t \in DOMAIN g.index :
            /\ t \in DOMAIN d.index /\ Of(g, t).revents = Of(d, t).revents
            /\ g.index[t] >= g.iterPos => d.index[t] >= d.iterPos
      BY <1>1, <1>2, <1>3, <1>4 DEF Of
    <2>2. FindingsOK(g)
      BY <1>1, <1>3, <1>6, <2>1, FindingsKept
    <2> QED BY <1>5, <2>2 DEF g, h
  <1>7. CASE g.iterEvents # d.iterEvents
    <2>1. HasNextAt(d, pos) /\ d.mode.over = "findings" /\ g.iterEvents = d.iterEvents - 1
      BY <1>1, <1>7
    <2>2. pos \in Left(d)
      <3>1. /\ pos \in Entries(d) /\ pos >= d.iterPos
            /\ EventsAt(d, pos) \cap d.mode.mask # {}
        BY <2>1, NextPositionsOK
      <3> QED BY <2>1, <3>1 DEF Left, EventsAt
    <2>3. Left(g) \in SUBSET (Left(d) \ {pos})
      <3>1. pos >= d.iterPos
        BY <2>2 DEF Left
      <3>2. \A p \in Entries(d) : p \in Nat
        BY <1>2 DEF Entries
      <3>3. Entries(g) = Entries(d) /\ g.iterPos = pos + 1
        BY <1>1, <1>3, <2>1 DEF Entries
      <3> QED BY <1>1, <1>2, <1>3, <3>1, <3>2, <3>3 DEF Left
    <2>4. /\ IsFiniteSet(Left(d)) /\ Cardinality(Left(d)) \in Nat /\ Cardinality(Left(g)) \in Nat
      BY <1>3, FindingsBySocket
    <2>5. /\ IsFiniteSet(Left(d) \ {pos})
          /\ Cardinality(Left(d) \ {pos}) = Cardinality(Left(d)) - 1
      BY <2>2, <2>4, FS_RemoveElement
    <2>6. Cardinality(Left(g)) <= Cardinality(Left(d)) - 1
      BY <2>3, <2>5, FS_Subset
    <2>7. Found(g) = Found(d)
      BY <1>3 DEF Found, Entries
    <2>8. FindingsOK(g)
      BY <1>1, <1>2, <1>3, <2>1, <2>4, <2>6, <2>7 DEF FindingsOK
    <2> QED BY <1>5, <2>8 DEF g, h
  <1> QED BY <1>6, <1>7

LEMMA StepFindings ==
  ASSUME PollInv, FindingsInv, ~RangeErrors, [Next]_vars
  PROVE  FindingsInv'
  <1>1. CASE UNCHANGED vars
    BY <1>1 DEF FindingsInv, vars, lost
  <1>2. ASSUME NEW x \in Var, NEW s \in Socket, NEW events \in PollModes, NEW file \in File,
               PolAddCheck(x, s, events, file)
        PROVE  FindingsInv'
    <2> DEFINE d == data[x]
               g == AddCheck(d, s, events, file)
    <2>1. Set(x, g) /\ Usable(x) /\ d.size + 1 < MaxPos /\ UNCHANGED lost
      BY <1>2 DEF PolAddCheck
    <2>2. TableOK(d) /\ FindingsOK(d) /\ overwritten' = overwritten \ {x}
      BY <2>1, UsableFindings
    <2>3. events \in Mask /\ file \in File \cup {NoFile} /\ d.size < MaxPos
      <3>1. d.size \in Nat /\ MaxPos \in Nat
        BY <2>2, TableTypes, CellTypes DEF TableOK
      <3> QED BY <2>1, <3>1, PollTableAssumption
    <2>4. g = AddCheck(d, s, events, file)
      OBVIOUS
    <2> HIDE DEF g
    <2>5. /\ TableOK(g) /\ g.mode = d.mode /\ g.iterPos = d.iterPos
          /\ g.iterEvents = d.iterEvents /\ g.numOfEvents = d.numOfEvents
          /\ IF s \in DOMAIN d.index
             THEN /\ g.index = d.index
                  /\ \A t \in DOMAIN d.index : t # s => Of(g, t) = Of(d, t)
                  /\ Of(g, s) = [Of(d, s) EXCEPT !.events = @ \cup events]
             ELSE /\ DOMAIN g.index = DOMAIN d.index \cup {s}
                  /\ Of(g, s) = [fd |-> s, events |-> events, revents |-> {}, file |-> file]
                  /\ \A t \in DOMAIN d.index : g.index[t] = d.index[t] /\ Of(g, t) = Of(d, t)
      <3> HIDE DEF d
      <3> QED BY <2>2, <2>3, <2>4, AddCheckOK
    <2>6. ASSUME NEW t \in DOMAIN g.index
          PROVE  \/ Of(g, t).revents = {}
                 \/ /\ t \in DOMAIN d.index /\ Of(g, t).revents = Of(d, t).revents
                    /\ g.index[t] >= g.iterPos => d.index[t] >= d.iterPos
      <3>1. CASE s \in DOMAIN d.index
        <4>1. Of(d, s) \in Entry
          BY <2>2, <3>1, PosOfEntry
        <4>2. Of(g, s).revents = Of(d, s).revents
          BY <2>5, <3>1, <4>1 DEF Entry
        <4>3. CASE t = s
          BY <2>5, <3>1, <4>2, <4>3
        <4>4. CASE t # s
          BY <2>5, <3>1, <4>4
        <4> QED BY <4>3, <4>4
      <3>2. CASE s \notin DOMAIN d.index
        <4>1. Of(g, s).revents = {}
          BY <2>5, <3>2
        <4> QED BY <2>5, <3>2, <4>1
      <3> QED BY <3>1, <3>2
    <2>7. FindingsOK(g)
      <3> HIDE DEF d
      <3> QED BY <2>2, <2>5, <2>6, FindingsKept
    <2> QED BY <2>1, <2>2, <2>7, FindingsSet
  <1>3. ASSUME NEW x \in Var, NEW s \in Socket, NEW events \in PollModes,
               PolRemoveCheck(x, s, events), ~Overwrites(data[x], s, events)
        PROVE  FindingsInv'
    <2> DEFINE d == data[x]
               g == RemoveCheck(d, s, events)
    <2>1. Set(x, g) /\ Usable(x) /\ UNCHANGED lost
      BY <1>3 DEF PolRemoveCheck
    <2>2. TableOK(d) /\ FindingsOK(d) /\ overwritten' = overwritten \ {x}
      BY <2>1, UsableFindings
    <2>3. g = RemoveCheck(d, s, events) /\ ~Overwrites(d, s, events)
      BY <1>3
    <2> HIDE DEF g
    <2>4. /\ TableOK(g) /\ g.mode = d.mode /\ g.iterEvents = d.iterEvents
          /\ g.numOfEvents = d.numOfEvents
          /\ IF IsRemoved(d, s, events)
             THEN /\ DOMAIN g.index = DOMAIN d.index \ {s}
                  /\ \A t \in DOMAIN g.index :
                       Of(g, t) = Of(d, t) /\ (g.index[t] >= g.iterPos <=> d.index[t] >= d.iterPos)
             ELSE /\ g.index = d.index /\ g.iterPos = d.iterPos
                  /\ \A t \in DOMAIN d.index : t # s => Of(g, t) = Of(d, t)
                  /\ s \in DOMAIN d.index =>
                       Of(g, s) = [Of(d, s) EXCEPT !.events = @ \ events]
      <3> HIDE DEF d
      <3> QED BY <2>2, <2>3, RemoveCheckOK
    <2>5. ASSUME NEW t \in DOMAIN g.index
          PROVE  /\ t \in DOMAIN d.index /\ Of(g, t).revents = Of(d, t).revents
                 /\ g.index[t] >= g.iterPos => d.index[t] >= d.iterPos
      <3>1. CASE IsRemoved(d, s, events)
        BY <2>4, <3>1
      <3>2. CASE ~IsRemoved(d, s, events)
        <4>1. CASE t = s
          <5>1. Of(d, s) \in Entry
            BY <2>2, <2>4, <3>2, <4>1, PosOfEntry
          <5> QED BY <2>4, <3>2, <4>1, <5>1 DEF Entry
        <4>2. CASE t # s
          BY <2>4, <3>2, <4>2
        <4> QED BY <4>1, <4>2
      <3> QED BY <3>1, <3>2
    <2>6. FindingsOK(g)
      <3> HIDE DEF d
      <3> QED BY <2>2, <2>4, <2>5, FindingsKept
    <2> QED BY <2>1, <2>2, <2>6, FindingsSet
  <1>4. ASSUME NEW x \in Var, NEW s \in Socket, PolAddCheckFails(x, s)
        PROVE  FindingsInv'
    <2> DEFINE d == data[x]
               g == AddCheckFails(d, s)
    <2>1. Set(x, g) /\ Usable(x) /\ UNCHANGED lost
      BY <1>4 DEF PolAddCheckFails
    <2>2. TableOK(d) /\ FindingsOK(d) /\ d \in Table /\ overwritten' = overwritten \ {x}
      BY <2>1, UsableFindings DEF TableOK
    <2>3. /\ g.size = d.size /\ g.cells = d.cells /\ g.mode = d.mode /\ g.iterPos = d.iterPos
          /\ g.numOfEvents = d.numOfEvents /\ g.iterEvents = d.iterEvents
      BY <2>2 DEF AddCheckFails, Table
    <2> HIDE DEF g
    <2>4. Found(g) = Found(d) /\ Left(g) = Left(d)
      BY <2>3 DEF Found, Left, Entries
    <2> QED BY <2>1, <2>2, <2>3, <2>4, FindingsSet DEF FindingsOK
  <1>5. ASSUME NEW x \in Var, PolClear(x)
        PROVE  FindingsInv'
    <2>1. Set(x, Clear(data[x])) /\ Valid(x) /\ overwritten' = overwritten \ {x}
      BY <1>5 DEF PolClear
    <2>2. TableOK(Clear(data[x])) /\ Clear(data[x]).size = 0
      BY <2>1, ValidOK, ClearOK
    <2> QED BY <2>1, <2>2, NoFindings, FindingsSet
  <1>6. ASSUME NEW x \in Var, PolPoll(x)
        PROVE  FindingsInv'
    <2> DEFINE d == data[x]
    <2>1. PICK found \in [Entries(d) -> SUBSET Reported] : Set(x, Poll(d, found))
      BY <1>6 DEF PolPoll
    <2> DEFINE g == Poll(d, found)
    <2>2. TableOK(d) /\ overwritten' = overwritten \ {x}
      BY <1>6, UsableFindings DEF PolPoll
    <2>3. found \in [Entries(d) -> SUBSET Finding]
      BY PollDataAssumption
    <2>4. g = Poll(d, found) /\ Set(x, g)
      BY <2>1
    <2> HIDE DEF g
    <2>5. /\ TableOK(g) /\ g.size = d.size /\ g.mode = NoIterator
          /\ g.numOfEvents = Cardinality(WithFinding(d, found))
          /\ \A p \in Entries(d) : g.cells[p] = WithRevents(d.cells[p], found[p])
      <3> HIDE DEF d
      <3> QED BY <2>2, <2>3, <2>4, PollOK
    <2>6. Found(g) = WithFinding(d, found)
      <3>1. \A p \in Entries(d) : g.cells[p].revents = found[p]
        <4>1. \A p \in Entries(d) : d.cells[p] \in Entry
          BY <2>2 DEF TableOK
        <4> QED BY <2>5, <4>1 DEF WithRevents, Entry
      <3>2. Entries(g) = Entries(d)
        BY <2>5 DEF Entries
      <3> QED BY <3>1, <3>2 DEF Found, WithFinding
    <2>7. g.mode.over # "findings" /\ g.numOfEvents \in Nat
      BY <2>5, TableTypes DEF NoIterator, TableOK
    <2>8. FindingsOK(g)
      BY <2>5, <2>6, <2>7 DEF FindingsOK
    <2> QED BY <2>2, <2>4, <2>8, FindingsSet
  <1>7. ASSUME NEW x \in Var, PolHasNext(x) \/ PolNextFile(x)
        PROVE  FindingsInv'
    <2> DEFINE d == data[x]
    <2>1. TableOK(d) /\ FindingsOK(d) /\ overwritten' = overwritten \ {x}
      BY <1>7, UsableFindings DEF PolHasNext, PolNextFile
    <2>2. PICK pos \in NextPositions(d) :
            Set(x, AfterHasNext(d, pos)) \/ Set(x, AfterNextFile(d, pos))
      BY <1>7 DEF PolHasNext, PolNextFile
    <2>3. FindingsOK(AfterHasNext(d, pos)) /\ FindingsOK(AfterNextFile(d, pos))
      BY <2>1, NextFindings
    <2> QED BY <2>1, <2>2, <2>3, FindingsSet
  <1>8. ASSUME NEW y \in Var, Usable(y), NEW cells \in [Position -> Cell], NEW capacity \in Nat
        PROVE  FindingsOK(CopiedInto(data[y], cells, capacity))
    <2> DEFINE d == data[y]
               g == CopiedInto(d, cells, capacity)
    <2>1. TableOK(d) /\ FindingsOK(d)
      BY <1>8, UsableFindings
    <2>2. g = CopiedInto(d, cells, capacity)
      OBVIOUS
    <2> HIDE DEF g
    <2>3. /\ TableOK(g) /\ g.size = d.size /\ g.index = d.index
          /\ g.mode = d.mode /\ g.iterPos = d.iterPos /\ g.iterEvents = d.iterEvents
          /\ g.numOfEvents = d.numOfEvents
          /\ \A p \in Entries(d) : g.cells[p] = d.cells[p]
      <3> HIDE DEF d
      <3> QED BY <1>8, <2>1, <2>2, CopyOK
    <2>4. \A t \in DOMAIN g.index :
            /\ t \in DOMAIN d.index /\ Of(g, t).revents = Of(d, t).revents
            /\ g.index[t] >= g.iterPos => d.index[t] >= d.iterPos
      BY <2>1, <2>3 DEF TableOK, Of
    <2>5. FindingsOK(g)
      <3> HIDE DEF d
      <3> QED BY <2>1, <2>3, <2>4, FindingsKept
    <2> QED BY <2>5 DEF g
  <1>9. ASSUME NEW x \in Var, NEW y \in Var, PolCpy(x, y) \/ PolCreate(x, y)
        PROVE  FindingsInv'
    <2>1. Fresh \in [Position -> Cell]
      BY CellTypes DEF Fresh
    <2>2. ASSUME NEW z \in Var, Valid(z)
          PROVE  data[z].capacity \in Nat /\ data[z].cells \in [Position -> Cell]
      BY <2>2, ValidOK, RecordTypes
    <2>3. \E cells \in [Position -> Cell], capacity \in Nat :
            Set(x, CopiedInto(data[y], cells, capacity))
      <3>1. CASE PolCreate(x, y)
        BY <2>1, <2>2, <3>1 DEF PolCreate, Usable
      <3>2. CASE PolCpy(x, y)
        <4>1. Valid(x) /\ Valid(y)
          BY <3>2 DEF PolCpy, Usable
        <4>2. CASE data[y].size + 1 <= data[x].capacity
          BY <2>2, <3>2, <4>1, <4>2 DEF PolCpy
        <4>3. CASE ~(data[y].size + 1 <= data[x].capacity)
          BY <2>1, <2>2, <3>2, <4>1, <4>3 DEF PolCpy
        <4> QED BY <4>2, <4>3
      <3> QED BY <1>9, <3>1, <3>2
    <2>4. Usable(y)
      BY <1>9 DEF PolCpy, PolCreate
    <2>5. overwritten' = overwritten \ {x}
      <3>1. PolCreate(x, y) => x \notin overwritten
        BY DEF PolCreate, PollInv, DataOK
      <3> QED BY <1>9, <3>1 DEF PolCpy, PolCreate, lost
    <2> QED BY <1>8, <2>3, <2>4, <2>5, FindingsSet
  <1>10. ASSUME NEW x \in Var, \/ \E y \in Var : PolCpyFails(x, y)
                               \/ PolEmpty(x) \/ PolDestr(x)
         PROVE  FindingsInv'
    <2>1. CASE \E y \in Var : PolCpyFails(x, y)
      BY <2>1 DEF PolCpyFails, FindingsInv, lost
    <2>2. CASE PolEmpty(x)
      <3>1. Set(x, Empty) /\ overwritten' = overwritten \ {x}
        BY <2>2 DEF PolEmpty, PollInv, DataOK, lost
      <3> QED BY <3>1, EmptyOK, NoFindings, FindingsSet
    <2>3. CASE PolDestr(x)
      BY <2>3, FindingsSet DEF PolDestr
    <2> QED BY <1>10, <2>1, <2>2, <2>3
  <1> QED BY <1>1, <1>2, <1>3, <1>4, <1>5, <1>6, <1>7, <1>9, <1>10, IterFindingsStep,
             OverwritingFindings DEF Next

\* An iteration over findings ends when the number of findings that is left is zero: it
\* never ends before an entry with such a finding, whatever is added and removed meanwhile.
THEOREM FindingsNotMissed ==
  ASSUME ~RangeErrors
  PROVE  Spec => []FindingsCounted
  <1>1. Init => PollInv /\ FindingsInv
    <2>1. ASSUME Init
          PROVE  FindingsInv
      BY <2>1, EmptyOK, NoFindings DEF Init, FindingsInv
    <2> QED BY <2>1, InitPollInv
  <1>2. PollInv /\ FindingsInv /\ [Next]_vars => (PollInv /\ FindingsInv)'
    BY StepPollInv, StepFindings
  <1>3. PollInv /\ FindingsInv => FindingsCounted
    <2> SUFFICES ASSUME PollInv, FindingsInv, NEW x \in Var, Defined(x),
                        data[x].mode.over = "findings"
                 PROVE  data[x].iterEvents >= Cardinality(Left(data[x]))
      BY DEF FindingsCounted, Left
    <2>1. data[x] # Undefined /\ data[x] \in PollRecord
      BY DEF Defined, PollInv
    <2>2. data[x].iterEvents \in Nat
      BY <2>1, RecordTypes
    <2>3. CASE x \in overwritten
      <3>1. Left(data[x]) = {}
        BY <2>1, <2>3 DEF FindingsInv
      <3> QED BY <2>2, <3>1, FS_EmptySet
    <2>4. CASE x \notin overwritten
      BY <2>1, <2>4 DEF FindingsInv, FindingsOK
    <2> QED BY <2>3, <2>4
  <1> QED BY <1>1, <1>2, <1>3, PTL DEF Spec

---------------------------------------------------------------------------
(* What Polling sees of the variable Observed.                              *)

\* The entry of a socket, wherever it is in the table.
EventsOf(d, s) == IF s \in DOMAIN d.index THEN Of(d, s).events ELSE {}
ReventsOf(d, s) == IF s \in DOMAIN d.index THEN Of(d, s).revents ELSE {}
FileOf(d, s) == IF s \in DOMAIN d.index THEN Of(d, s).file ELSE NoFile
Behind(d) == {s \in DOMAIN d.index : d.index[s] >= d.iterPos}

EntryAt(d, s) == IF PosOf(d, s) = d.size THEN Unassigned ELSE d.cells[PosOf(d, s)]
FdsBehind(d) == {d.cells[p].fd : p \in {q \in Entries(d) : q >= d.iterPos}}

checksSeen == [s \in Socket |-> GetCheck(View, s)]
findingsSeen == [s \in Socket |-> EntryOf(s).revents \ {"unknown"}]
filesSeen == [s \in Socket |-> EntryOf(s).file]
todoSeen == {View.cells[p].fd : p \in {q \in Entries(View) : q >= View.iterPos}}

\* A table whose index and entries agree is seen by sockets.
LEMMA SeenBySocket ==
  ASSUME NEW d, TableOK(d)
  PROVE  /\ \A s \in Socket : /\ GetCheck(d, s) = EventsOf(d, s)
                              /\ EntryAt(d, s).revents \ {"unknown"} = ReventsOf(d, s)
                              /\ EntryAt(d, s).file = FileOf(d, s)
         /\ FdsBehind(d) = Behind(d)
         /\ DOMAIN d.index \subseteq Socket
         /\ \A s \in DOMAIN d.index : Of(d, s) \in Entry
  <1>1. DOMAIN d.index \subseteq Socket
    BY TableTypes, IndexTypes DEF TableOK
  <1>2. \A s \in DOMAIN d.index : Of(d, s) \in Entry
    BY PosOfEntry
  <1>3. ASSUME NEW s \in Socket
        PROVE  /\ GetCheck(d, s) = EventsOf(d, s)
               /\ EntryAt(d, s).revents \ {"unknown"} = ReventsOf(d, s)
               /\ EntryAt(d, s).file = FileOf(d, s)
    <2>1. CASE s \in DOMAIN d.index
      <3>1. /\ PosOf(d, s) # d.size /\ d.cells[PosOf(d, s)] = Of(d, s)
            /\ Of(d, s) \in Entry
        BY <2>1, PosOfEntry
      <3>2. Of(d, s).events \subseteq Event /\ Of(d, s).revents \subseteq Finding
        BY <3>1 DEF Entry
      <3>3. "unknown" \notin Finding
        BY DEF Finding, Event
      <3>4. GetCheck(d, s) = EventsOf(d, s)
        BY <2>1, <3>1, <3>2 DEF GetCheck, EventsOf
      <3>5. EntryAt(d, s) = Of(d, s)
        BY <3>1 DEF EntryAt
      <3> QED BY <2>1, <3>2, <3>3, <3>4, <3>5 DEF ReventsOf, FileOf
    <2>2. CASE s \notin DOMAIN d.index
      <3>1. PosOf(d, s) = d.size
        BY <2>2, PosOfEntry
      <3> QED BY <2>2, <3>1 DEF GetCheck, EntryAt, EventsOf, ReventsOf, FileOf, Unassigned
    <2> QED BY <2>1, <2>2
  <1>4. FdsBehind(d) = Behind(d)
    BY DEF TableOK, FdsBehind, Behind
  <1> QED BY <1>1, <1>2, <1>3, <1>4

\* The variables of Polling, before and after a step.
LEMMA SeenNow ==
  ASSUME TableOK(View)
  PROVE  /\ checksSeen = [s \in Socket |-> EventsOf(View, s)]
         /\ findingsSeen = [s \in Socket |-> ReventsOf(View, s)]
         /\ filesSeen = [s \in Socket |-> FileOf(View, s)]
         /\ todoSeen = Behind(View)
  <1>1. \A s \in Socket : EntryOf(s) = EntryAt(View, s)
    BY DEF EntryOf, EntryAt
  <1>2. todoSeen = FdsBehind(View)
    BY DEF todoSeen, FdsBehind
  <1>3. /\ \A s \in Socket : /\ GetCheck(View, s) = EventsOf(View, s)
                             /\ EntryAt(View, s).revents \ {"unknown"} = ReventsOf(View, s)
                             /\ EntryAt(View, s).file = FileOf(View, s)
        /\ FdsBehind(View) = Behind(View)
    BY SeenBySocket
  <1> QED BY <1>1, <1>2, <1>3 DEF checksSeen, findingsSeen, filesSeen

LEMMA SeenNext ==
  ASSUME TableOK(View)'
  PROVE  /\ checksSeen' = [s \in Socket |-> EventsOf(View', s)]
         /\ findingsSeen' = [s \in Socket |-> ReventsOf(View', s)]
         /\ filesSeen' = [s \in Socket |-> FileOf(View', s)]
         /\ todoSeen' = Behind(View')
  <1>1. \A s \in Socket : EntryOf(s)' = EntryAt(View', s)
    BY DEF EntryOf, EntryAt
  <1>2. todoSeen' = FdsBehind(View')
    BY DEF todoSeen, FdsBehind
  <1>3. TableOK(View')
    OBVIOUS
  <1>4. /\ \A s \in Socket : /\ GetCheck(View', s) = EventsOf(View', s)
                             /\ EntryAt(View', s).revents \ {"unknown"} = ReventsOf(View', s)
                             /\ EntryAt(View', s).file = FileOf(View', s)
        /\ FdsBehind(View') = Behind(View')
    BY <1>3, SeenBySocket
  <1> QED BY <1>1, <1>2, <1>4 DEF checksSeen, findingsSeen, filesSeen

\* The steps of Polling, in these terms.
LEMMA PromisedAddCheck ==
  ASSUME NEW s \in Socket, NEW events \in Mask, NEW file \in File,
         Observed \notin overwritten, UNCHANGED overwritten,
         checksSeen' = [checksSeen EXCEPT ![s] = @ \cup events],
         IF checksSeen[s] # {} THEN UNCHANGED <<filesSeen, todoSeen>>
         ELSE /\ filesSeen' = [filesSeen EXCEPT ![s] = file]
              /\ todoSeen' \in {todoSeen, todoSeen \cup {s}},
         UNCHANGED <<findingsSeen, View.mode>>, result' = NoResult
  PROVE  Promise!Next
  <1>1. Promise!AddCheck(s, events, file)
    BY DEF Promise!AddCheck, Promise!Checked, Promise!NoResult, NoResult,
           checksSeen, findingsSeen, filesSeen, todoSeen
  <1> QED BY <1>1 DEF Promise!Next

LEMMA PromisedRemoveCheck ==
  ASSUME NEW s \in Socket, NEW events \in Mask,
         Observed \notin overwritten, UNCHANGED overwritten,
         checksSeen' = [checksSeen EXCEPT ![s] = @ \ events],
         IF checksSeen'[s] # {} THEN UNCHANGED <<findingsSeen, filesSeen, todoSeen>>
         ELSE /\ findingsSeen' = [findingsSeen EXCEPT ![s] = {}]
              /\ filesSeen' = [filesSeen EXCEPT ![s] = NoFile]
              /\ todoSeen' = todoSeen \ {s},
         UNCHANGED View.mode, result' = NoResult
  PROVE  Promise!Next
  <1>1. Promise!RemoveCheck(s, events)
    BY DEF Promise!RemoveCheck, Promise!NoResult, NoResult,
           checksSeen, findingsSeen, filesSeen, todoSeen
  <1> QED BY <1>1 DEF Promise!Next

LEMMA PromisedPoll ==
  ASSUME Observed \notin overwritten, UNCHANGED overwritten,
         findingsSeen' \in [Socket -> SUBSET Finding],
         \A s \in Socket : /\ findingsSeen'[s] \cap Event \subseteq checksSeen[s]
                           /\ checksSeen[s] = {} => findingsSeen'[s] = {},
         \E s \in Socket : findingsSeen'[s] # {},
         View'.mode = NoIterator, todoSeen' = {s \in Socket : checksSeen[s] # {}},
         UNCHANGED <<checksSeen, filesSeen>>, result' = NoResult
  PROVE  Promise!Next
  <1>1. Promise!Poll
    BY DEF Promise!Poll, Promise!Checked, Promise!NoResult, Promise!NoIterator, NoResult, NoIterator,
           checksSeen, findingsSeen, filesSeen, todoSeen
  <1> QED BY <1>1 DEF Promise!Next

LEMMA PromisedIterate ==
  ASSUME Observed \notin overwritten, UNCHANGED overwritten,
         View'.mode \in Iterator, todoSeen' = {s \in Socket : checksSeen[s] # {}},
         UNCHANGED <<checksSeen, findingsSeen, filesSeen>>, result' = NoResult
  PROVE  Promise!Next
  <1>1. Promise!Iterate
    BY DEF Promise!Iterate, Promise!Checked, Promise!Modes, Promise!NoResult, Promise!NoIterator,
           NoResult, NoIterator, Iterator, checksSeen, findingsSeen, filesSeen, todoSeen
  <1> QED BY <1>1 DEF Promise!Next

WantedSeen ==
  {s \in todoSeen : (IF View.mode.over = "checks" THEN checksSeen[s] ELSE findingsSeen[s])
                      \cap View.mode.mask # {}}

LEMMA PromisedHasNext ==
  ASSUME Observed \notin overwritten, UNCHANGED overwritten,
         result' = [of |-> "hasNext", is |-> WantedSeen # {}],
         WantedSeen \subseteq todoSeen', todoSeen' \subseteq todoSeen,
         UNCHANGED <<checksSeen, findingsSeen, filesSeen, View.mode>>
  PROVE  Promise!Next
  <1>1. Promise!HasNext
    BY DEF Promise!HasNext, Promise!Wanted, WantedSeen,
           checksSeen, findingsSeen, filesSeen, todoSeen
  <1> QED BY <1>1 DEF Promise!Next

LEMMA PromisedNextFile ==
  ASSUME Observed \notin overwritten, UNCHANGED overwritten,
         IF WantedSeen = {}
         THEN result' = [of |-> "nextFile", is |-> NoFile] /\ todoSeen' \subseteq todoSeen
         ELSE \E s \in WantedSeen :
                /\ result' = [of |-> "nextFile", is |-> filesSeen[s]]
                /\ WantedSeen \ {s} \subseteq todoSeen' /\ todoSeen' \subseteq todoSeen \ {s},
         UNCHANGED <<checksSeen, findingsSeen, filesSeen, View.mode>>
  PROVE  Promise!Next
  <1>1. Promise!NextFile
    BY DEF Promise!NextFile, Promise!Wanted, WantedSeen,
           checksSeen, findingsSeen, filesSeen, todoSeen
  <1> QED BY <1>1 DEF Promise!Next

LEMMA PromisedRemoveAfterEnd ==
  ASSUME NEW s \in Socket, NEW events \in Mask, Observed \notin overwritten,
         Observed \in overwritten', todoSeen = {}, todoSeen' = {}, checksSeen[s] # {},
         checksSeen[s] \subseteq events, checksSeen'[s] = {},
         UNCHANGED View.mode, result' = NoResult
  PROVE  Promise!Next
  <1>1. Promise!RemoveAfterEnd(s, events)
    BY DEF Promise!RemoveAfterEnd, Promise!Checked, Promise!NoResult, NoResult,
           checksSeen, todoSeen
  <1> QED BY <1>1 DEF Promise!Next

\* clear, the destruction and the creation of the variable.
LEMMA PromisedClear ==
  ASSUME TableOK(View'), View'.size = 0, View'.mode = NoIterator, result' = NoResult,
         Observed \notin overwritten'
  PROVE  Promise!Next
  <1>1. DOMAIN View'.index = {}
    BY DEF TableOK, Entries
  <1>2. /\ checksSeen' = [s \in Socket |-> {}] /\ findingsSeen' = [s \in Socket |-> {}]
        /\ filesSeen' = [s \in Socket |-> NoFile] /\ todoSeen' = {}
    BY <1>1, SeenNext DEF EventsOf, ReventsOf, FileOf, Behind
  <1>3. (Observed \in overwritten') = FALSE
    OBVIOUS
  <1>4. Promise!Clear
    BY <1>2, <1>3 DEF Promise!Clear, Promise!NoResult, Promise!NoIterator, NoResult, NoIterator,
           checksSeen, findingsSeen, filesSeen, todoSeen
  <1> QED BY <1>4 DEF Promise!Next

---------------------------------------------------------------------------
(* The steps of the variable Observed are steps of Polling.                 *)

LEMMA ViewRecord ==
  ASSUME PollInv, Valid(Observed), NEW g \in PollRecord, Set(Observed, g)
  PROVE  View = data[Observed] /\ View' = g
  <1>1. Observed \in Var /\ data \in [Var -> PollRecord \cup {Undefined}]
    BY PollDataAssumption DEF PollInv
  <1>2. data'[Observed] = g /\ g # Undefined
    BY <1>1, TableDefined DEF Set
  <1>3. data[Observed] # Undefined
    BY DEF Valid, Defined
  <1> QED BY <1>2, <1>3 DEF View

LEMMA ViewSet ==
  ASSUME PollInv, Usable(Observed), NEW g \in Table, Set(Observed, g)
  PROVE  View = data[Observed] /\ View' = g
  <1>1. g \in PollRecord /\ Valid(Observed)
    BY TableDefined DEF Usable
  <1> QED BY <1>1, ViewRecord

\* The table is seen through the entries of the sockets.
LEMMA SeenTables ==
  ASSUME NEW d, NEW g, View = d, View' = g, TableOK(d), TableOK(g)
  PROVE  /\ checksSeen = [t \in Socket |-> EventsOf(d, t)]
         /\ checksSeen' = [t \in Socket |-> EventsOf(g, t)]
         /\ findingsSeen = [t \in Socket |-> ReventsOf(d, t)]
         /\ findingsSeen' = [t \in Socket |-> ReventsOf(g, t)]
         /\ filesSeen = [t \in Socket |-> FileOf(d, t)]
         /\ filesSeen' = [t \in Socket |-> FileOf(g, t)]
         /\ todoSeen = Behind(d) /\ todoSeen' = Behind(g)
  <1>1. TableOK(View) /\ TableOK(View)'
    OBVIOUS
  <1> QED BY <1>1, SeenNow, SeenNext

\* An entry is checked for some event.
LEMMA EntryChecked ==
  ASSUME NEW d, TableOK(d)
  PROVE  /\ \A t \in Socket : t \in DOMAIN d.index <=> EventsOf(d, t) # {}
         /\ {t \in Socket : EventsOf(d, t) # {}} = DOMAIN d.index
         /\ \A t \in DOMAIN d.index : EventsOf(d, t) = Of(d, t).events /\ ReventsOf(d, t) = Of(d, t).revents
                                      /\ FileOf(d, t) = Of(d, t).file
  <1>1. /\ DOMAIN d.index \subseteq Socket
        /\ \A t \in DOMAIN d.index : Of(d, t).events # {}
    BY SeenBySocket DEF Entry
  <1> QED BY <1>1 DEF EventsOf, ReventsOf, FileOf

LEMMA AddCheckRefines ==
  ASSUME PollInv, NEW s \in Socket, NEW events \in PollModes, NEW file \in File,
         PolAddCheck(Observed, s, events, file)
  PROVE  Promise!Next
  <1> DEFINE d == data[Observed]
             g == AddCheck(d, s, events, file)
  <1>1. /\ Set(Observed, g) /\ Usable(Observed) /\ d.size + 1 < MaxPos /\ result' = NoResult
        /\ Observed \notin overwritten /\ UNCHANGED overwritten
    BY DEF PolAddCheck, Usable, lost
  <1>2. TableOK(d)
    BY <1>1, UsableOK, PollDataAssumption
  <1>3. events \in Mask /\ file \in File \cup {NoFile} /\ d.size < MaxPos /\ d.size \in Nat
        /\ d.iterPos \in Nat
    <2>1. d.size \in Nat /\ MaxPos \in Nat /\ d.iterPos \in Position
      BY <1>2, TableTypes, CellTypes DEF TableOK
    <2> QED BY <1>1, <2>1, PollTableAssumption DEF Position
  <1>4. g = AddCheck(d, s, events, file)
    OBVIOUS
  <1> HIDE DEF g
  <1>5. /\ TableOK(g) /\ g.mode = d.mode /\ g.iterPos = d.iterPos
        /\ IF s \in DOMAIN d.index
           THEN /\ g.index = d.index
                /\ \A t \in DOMAIN d.index : t # s => Of(g, t) = Of(d, t)
                /\ Of(g, s) = [Of(d, s) EXCEPT !.events = @ \cup events]
           ELSE /\ DOMAIN g.index = DOMAIN d.index \cup {s} /\ g.index[s] = d.size
                /\ Of(g, s) = [fd |-> s, events |-> events, revents |-> {}, file |-> file]
                /\ \A t \in DOMAIN d.index : g.index[t] = d.index[t] /\ Of(g, t) = Of(d, t)
    <2> HIDE DEF d
    <2> QED BY <1>2, <1>3, <1>4, AddCheckOK
  <1>6. View = d /\ View' = g
    <2>1. g \in Table
      BY <1>5 DEF TableOK
    <2> QED BY <1>1, <2>1, ViewSet
  <1> HIDE DEF d
  <1>7. CASE s \in DOMAIN d.index
    <2>1. Of(d, s) \in Entry
      BY <1>2, <1>7, PosOfEntry
    <2>2. /\ Of(g, s).events = Of(d, s).events \cup events
          /\ Of(g, s).revents = Of(d, s).revents /\ Of(g, s).file = Of(d, s).file
      BY <1>5, <1>7, <2>1 DEF Entry
    <2>3. \A t \in Socket :
            /\ EventsOf(g, t) = IF t = s THEN EventsOf(d, t) \cup events ELSE EventsOf(d, t)
            /\ ReventsOf(g, t) = ReventsOf(d, t) /\ FileOf(g, t) = FileOf(d, t)
      BY <1>5, <1>7, <2>2 DEF EventsOf, ReventsOf, FileOf
    <2>4. Behind(g) = Behind(d)
      BY <1>5, <1>7 DEF Behind
    <2>5. EventsOf(d, s) # {}
      BY <1>2, <1>7, EntryChecked
    <2>6. /\ checksSeen' = [checksSeen EXCEPT ![s] = @ \cup events] /\ checksSeen[s] # {}
          /\ UNCHANGED <<findingsSeen, filesSeen, todoSeen>>
      BY <1>2, <1>5, <1>6, <2>3, <2>4, <2>5, SeenTables
    <2>7. UNCHANGED View.mode
      BY <1>5, <1>6
    <2> QED BY <1>1, <1>3, <2>6, <2>7, PromisedAddCheck
  <1>8. CASE s \notin DOMAIN d.index
    <2>1. \A t \in Socket :
            /\ EventsOf(g, t) = IF t = s THEN EventsOf(d, t) \cup events ELSE EventsOf(d, t)
            /\ ReventsOf(g, t) = ReventsOf(d, t)
            /\ FileOf(g, t) = IF t = s THEN file ELSE FileOf(d, t)
      <3>1. /\ s \in DOMAIN g.index /\ Of(g, s).events = events /\ Of(g, s).revents = {}
            /\ Of(g, s).file = file
        BY <1>5, <1>8
      <3>2. \A t \in Socket : t # s => (t \in DOMAIN g.index <=> t \in DOMAIN d.index)
        BY <1>5, <1>8
      <3>3. \A t \in DOMAIN d.index : Of(g, t) = Of(d, t)
        BY <1>5, <1>8
      <3> QED BY <1>8, <3>1, <3>2, <3>3 DEF EventsOf, ReventsOf, FileOf
    <2>2. Behind(g) \in {Behind(d), Behind(d) \cup {s}}
      <3>1. \A t \in DOMAIN d.index : t # s /\ g.index[t] = d.index[t]
        BY <1>5, <1>8
      <3>2. CASE d.size >= d.iterPos
        <4>1. Behind(g) = Behind(d) \cup {s}
          BY <1>5, <1>8, <3>1, <3>2 DEF Behind
        <4> QED BY <4>1
      <3>3. CASE ~(d.size >= d.iterPos)
        <4>1. Behind(g) = Behind(d)
          BY <1>5, <1>8, <3>1, <3>3 DEF Behind
        <4> QED BY <4>1
      <3> QED BY <3>2, <3>3
    <2>3. EventsOf(d, s) = {}
      BY <1>8 DEF EventsOf
    <2>4. /\ checksSeen' = [checksSeen EXCEPT ![s] = @ \cup events] /\ checksSeen[s] = {}
          /\ filesSeen' = [filesSeen EXCEPT ![s] = file]
          /\ UNCHANGED findingsSeen
      BY <1>2, <1>5, <1>6, <2>1, <2>3, SeenTables
    <2>5. todoSeen' \in {todoSeen, todoSeen \cup {s}}
      BY <1>2, <1>5, <1>6, <2>2, SeenTables
    <2>6. UNCHANGED View.mode
      BY <1>5, <1>6
    <2> QED BY <1>1, <1>3, <2>4, <2>5, <2>6, PromisedAddCheck
  <1> QED BY <1>7, <1>8

LEMMA RemoveCheckRefines ==
  ASSUME PollInv, NEW s \in Socket, NEW events \in PollModes,
         PolRemoveCheck(Observed, s, events), ~Overwrites(data[Observed], s, events)
  PROVE  Promise!Next
  <1> DEFINE d == data[Observed]
             g == RemoveCheck(d, s, events)
  <1>1. /\ Set(Observed, g) /\ Usable(Observed) /\ result' = NoResult
        /\ Observed \notin overwritten /\ UNCHANGED overwritten
    BY DEF PolRemoveCheck, Usable, lost
  <1>2. TableOK(d)
    BY <1>1, UsableOK, PollDataAssumption
  <1>3. g = RemoveCheck(d, s, events) /\ ~Overwrites(d, s, events) /\ events \in Mask
    BY PollTableAssumption
  <1> HIDE DEF g
  <1>4. /\ TableOK(g) /\ g.mode = d.mode
        /\ IF IsRemoved(d, s, events)
           THEN /\ DOMAIN g.index = DOMAIN d.index \ {s}
                /\ \A t \in DOMAIN g.index :
                     Of(g, t) = Of(d, t) /\ (g.index[t] >= g.iterPos <=> d.index[t] >= d.iterPos)
           ELSE /\ g.index = d.index /\ g.iterPos = d.iterPos
                /\ \A t \in DOMAIN d.index : t # s => Of(g, t) = Of(d, t)
                /\ s \in DOMAIN d.index =>
                     Of(g, s) = [Of(d, s) EXCEPT !.events = @ \ events]
    <2> HIDE DEF d
    <2> QED BY <1>2, <1>3, RemoveCheckOK
  <1>5. View = d /\ View' = g
    <2>1. g \in Table
      BY <1>4 DEF TableOK
    <2> QED BY <1>1, <2>1, ViewSet
  <1> HIDE DEF d
  <1>6. IsRemoved(d, s, events) <=> s \in DOMAIN d.index /\ Of(d, s).events \ events = {}
    BY <1>2, PosOfEntry
  <1>7. UNCHANGED View.mode
    BY <1>4, <1>5
  <1>8. CASE s \in DOMAIN d.index /\ ~IsRemoved(d, s, events)
    <2>1. Of(d, s) \in Entry
      BY <1>2, <1>8, PosOfEntry
    <2>2. /\ Of(g, s).events = Of(d, s).events \ events
          /\ Of(g, s).revents = Of(d, s).revents /\ Of(g, s).file = Of(d, s).file
      BY <1>4, <1>8, <2>1 DEF Entry
    <2>3. \A t \in Socket :
            /\ EventsOf(g, t) = IF t = s THEN EventsOf(d, t) \ events ELSE EventsOf(d, t)
            /\ ReventsOf(g, t) = ReventsOf(d, t) /\ FileOf(g, t) = FileOf(d, t)
      BY <1>4, <1>8, <2>2 DEF EventsOf, ReventsOf, FileOf
    <2>4. Behind(g) = Behind(d)
      BY <1>4, <1>8 DEF Behind
    <2>5. EventsOf(g, s) # {}
      BY <1>4, <1>8, EntryChecked
    <2>6. /\ checksSeen' = [checksSeen EXCEPT ![s] = @ \ events] /\ checksSeen'[s] # {}
          /\ UNCHANGED <<findingsSeen, filesSeen, todoSeen>>
      BY <1>2, <1>4, <1>5, <2>3, <2>4, <2>5, SeenTables
    <2> QED BY <1>1, <1>3, <1>7, <2>6, PromisedRemoveCheck
  <1>9. CASE s \notin DOMAIN d.index \/ IsRemoved(d, s, events)
    <2>1. /\ DOMAIN g.index = DOMAIN d.index \ {s}
          /\ \A t \in DOMAIN g.index :
               Of(g, t) = Of(d, t) /\ (g.index[t] >= g.iterPos <=> d.index[t] >= d.iterPos)
      <3>1. CASE IsRemoved(d, s, events)
        BY <1>4, <3>1
      <3>2. CASE ~IsRemoved(d, s, events)
        <4>1. s \notin DOMAIN d.index
          BY <1>9, <3>2
        <4> QED BY <1>4, <3>2, <4>1
      <3> QED BY <3>1, <3>2
    <2>2. EventsOf(d, s) \ events = {}
      BY <1>6, <1>9 DEF EventsOf
    <2>3. \A t \in Socket :
            /\ EventsOf(g, t) = IF t = s THEN {} ELSE EventsOf(d, t)
            /\ ReventsOf(g, t) = IF t = s THEN {} ELSE ReventsOf(d, t)
            /\ FileOf(g, t) = IF t = s THEN NoFile ELSE FileOf(d, t)
      BY <2>1 DEF EventsOf, ReventsOf, FileOf
    <2>4. Behind(g) = Behind(d) \ {s}
      BY <2>1 DEF Behind
    <2>5. /\ checksSeen' = [checksSeen EXCEPT ![s] = @ \ events] /\ checksSeen'[s] = {}
      BY <1>2, <1>4, <1>5, <2>2, <2>3, SeenTables
    <2>6. /\ findingsSeen' = [findingsSeen EXCEPT ![s] = {}]
          /\ filesSeen' = [filesSeen EXCEPT ![s] = NoFile]
          /\ todoSeen' = todoSeen \ {s}
      BY <1>2, <1>4, <1>5, <2>3, <2>4, SeenTables
    <2> QED BY <1>1, <1>3, <1>7, <2>5, <2>6, PromisedRemoveCheck
  <1> QED BY <1>8, <1>9

\* When the iteration has come to its end, a removal may change the others.
LEMMA OverwritingRefines ==
  ASSUME PollInv, NEW s \in Socket, NEW events \in PollModes,
         PolRemoveCheck(Observed, s, events), Overwrites(data[Observed], s, events)
  PROVE  Promise!Next
  <1> DEFINE d == data[Observed]
             g == RemoveCheck(d, s, events)
  <1>1. /\ Set(Observed, g) /\ Usable(Observed) /\ Valid(Observed) /\ result' = NoResult
        /\ Observed \notin overwritten /\ Observed \in overwritten'
    BY DEF PolRemoveCheck, Usable
  <1>2. TableOK(d)
    BY <1>1, UsableOK, PollDataAssumption
  <1>3. g = RemoveCheck(d, s, events) /\ Overwrites(d, s, events) /\ events \in Mask
    BY PollTableAssumption
  <1> HIDE DEF g
  <1>4. /\ g \in PollRecord /\ g.size \in Nat /\ g.mode = d.mode /\ g.iterPos > g.size
        /\ d.iterPos > d.size /\ s \in DOMAIN d.index /\ s \notin DOMAIN g.index
        /\ Of(d, s).events \subseteq events
    <2> HIDE DEF d
    <2> QED BY <1>2, <1>3, OverwritesOK
  <1>5. View = d /\ View' = g
    BY <1>1, <1>4, ViewRecord
  <1> HIDE DEF d
  <1>6. checksSeen[s] # {} /\ checksSeen[s] \subseteq events
    <2>1. checksSeen[s] = EventsOf(d, s)
      BY <1>2, <1>5, SeenNow
    <2>2. EventsOf(d, s) # {} /\ EventsOf(d, s) = Of(d, s).events
      BY <1>2, <1>4, EntryChecked
    <2> QED BY <1>4, <2>1, <2>2
  <1>7. todoSeen = {}
    <2>1. d.size \in Nat /\ d.iterPos \in Nat
      BY <1>2, TableTypes, CellTypes DEF TableOK, Position
    <2>2. \A t \in DOMAIN d.index : ~(d.index[t] >= d.iterPos)
      BY <1>2, <1>4, <2>1 DEF TableOK, Entries
    <2>3. todoSeen = Behind(d)
      BY <1>2, <1>5, SeenNow
    <2> QED BY <2>2, <2>3 DEF Behind
  <1>8. todoSeen' = {}
    <2>1. g.iterPos \in Nat
      BY <1>4, RecordTypes, CellTypes DEF Position
    <2>2. \A q \in Entries(g) : ~(q >= g.iterPos)
      BY <1>4, <2>1 DEF Entries
    <2>3. todoSeen' = FdsBehind(g)
      BY <1>5 DEF todoSeen, FdsBehind
    <2> QED BY <2>2, <2>3 DEF FdsBehind
  <1>9. checksSeen'[s] = {}
    <2>1. checksSeen'[s] = GetCheck(g, s)
      BY <1>5 DEF checksSeen
    <2> QED BY <1>4, <2>1 DEF GetCheck, PosOf
  <1> QED BY <1>1, <1>3, <1>4, <1>5, <1>6, <1>7, <1>8, <1>9, PromisedRemoveAfterEnd

\* A failed addCheck leaves an entry in the index, which is not seen.
LEMMA AddCheckFailsRefines ==
  ASSUME PollInv, NEW s \in Socket, PolAddCheckFails(Observed, s)
  PROVE  Promise!Next
  <1> DEFINE d == data[Observed]
             g == AddCheckFails(d, s)
  <1>1. /\ Set(Observed, g) /\ Usable(Observed) /\ NeedsSpace(d, s) /\ result' = NoResult
        /\ Observed \notin overwritten /\ UNCHANGED overwritten
    BY DEF PolAddCheckFails, Usable, lost
  <1>2. TableOK(d) /\ d \in Table
    BY <1>1, UsableOK, PollDataAssumption DEF TableOK
  <1>3. s \notin DOMAIN d.index /\ PosOf(d, s) = d.size
    BY <1>1, <1>2, PosOfEntry DEF NeedsSpace
  <1>4. /\ g.size = d.size /\ g.cells = d.cells /\ g.mode = d.mode /\ g.iterPos = d.iterPos
        /\ g.index = SetIndex(d.index, s, d.size)
    BY <1>2, <1>3 DEF AddCheckFails, Table
  <1>5. View = d /\ View' = g
    <2>1. d # Undefined /\ data'[Observed] = g
      BY <1>1, <1>2, TableDefined, PollDataAssumption DEF Set, PollInv
    <2>2. g # Undefined
      <3>1. SetIndex(d.index, s, d.size) \in Index
        <4>1. d.size \in Position /\ d.index \in Indexes
          BY <1>2, TableTypes, CellTypes DEF TableOK, Position
        <4>2. SetIndex(d.index, s, d.size) \in Indexes
          BY <4>1, IndexSet
        <4> QED BY <4>2 DEF Indexes, Index
      <3>2. g \in PollRecord
        <4>1. d \in PollRecord
          BY <1>2, TableDefined
        <4> QED BY <1>3, <3>1, <4>1 DEF AddCheckFails, PollRecord
      <3> QED BY <3>2, UndefinedAssumption
    <2> QED BY <2>1, <2>2 DEF View
  <1> HIDE DEF g, d
  <1>6. \A t \in Socket : PosOf(g, t) = PosOf(d, t)
    BY <1>3, <1>4 DEF PosOf, SetIndex
  <1>7. /\ \A t \in Socket : GetCheck(g, t) = GetCheck(d, t) /\ EntryAt(g, t) = EntryAt(d, t)
        /\ FdsBehind(g) = FdsBehind(d)
    BY <1>4, <1>6 DEF GetCheck, EntryAt, FdsBehind, Entries
  <1>8. UNCHANGED <<checksSeen, findingsSeen, filesSeen, todoSeen, View.mode>>
    <2>1. \A t \in Socket : EntryOf(t) = EntryAt(d, t) /\ EntryOf(t)' = EntryAt(g, t)
      BY <1>5 DEF EntryOf, EntryAt
    <2>2. todoSeen = FdsBehind(d) /\ todoSeen' = FdsBehind(g)
      BY <1>5 DEF todoSeen, FdsBehind
    <2>3. UNCHANGED checksSeen
      BY <1>5, <1>7 DEF checksSeen
    <2>4. UNCHANGED findingsSeen /\ UNCHANGED filesSeen
      BY <1>7, <2>1 DEF findingsSeen, filesSeen
    <2> QED BY <1>4, <1>5, <1>7, <2>2, <2>3, <2>4
  <1>9. /\ checksSeen = [t \in Socket |-> EventsOf(d, t)]
        /\ findingsSeen = [t \in Socket |-> ReventsOf(d, t)]
        /\ filesSeen = [t \in Socket |-> FileOf(d, t)] /\ todoSeen = Behind(d)
    BY <1>2, <1>5, SeenNow
  <1>10. /\ EventsOf(d, s) = {} /\ ReventsOf(d, s) = {} /\ FileOf(d, s) = NoFile
         /\ s \notin Behind(d)
    BY <1>3 DEF EventsOf, ReventsOf, FileOf, Behind
  <1>11. {"in"} \in Mask
    BY DEF Mask
  <1>12. checksSeen' = [checksSeen EXCEPT ![s] = @ \ {"in"}] /\ checksSeen'[s] = {}
    BY <1>8, <1>9, <1>10
  <1>13. /\ findingsSeen' = [findingsSeen EXCEPT ![s] = {}]
         /\ filesSeen' = [filesSeen EXCEPT ![s] = NoFile] /\ todoSeen' = todoSeen \ {s}
    BY <1>8, <1>9, <1>10
  <1> QED BY <1>1, <1>8, <1>11, <1>12, <1>13, PromisedRemoveCheck

LEMMA PollRefines ==
  ASSUME PollInv, PolPoll(Observed)
  PROVE  Promise!Next
  <1> DEFINE d == data[Observed]
  <1>1. /\ Usable(Observed) /\ result' = NoResult
        /\ Observed \notin overwritten /\ UNCHANGED overwritten
    BY DEF PolPoll, Usable, lost
  <1>2. PICK found \in [Entries(d) -> SUBSET Reported] :
          /\ \A p \in Entries(d) : found[p] \cap Event \subseteq d.cells[p].events
          /\ \E p \in Entries(d) : found[p] # {}
          /\ Set(Observed, Poll(d, found))
    BY DEF PolPoll
  <1> DEFINE g == Poll(d, found)
  <1>3. TableOK(d)
    BY <1>1, UsableOK, PollDataAssumption
  <1>4. found \in [Entries(d) -> SUBSET Finding] /\ g = Poll(d, found) /\ Set(Observed, g)
    BY <1>2, PollDataAssumption
  <1> HIDE DEF g
  <1>5. /\ TableOK(g) /\ g.index = d.index /\ g.mode = NoIterator /\ g.iterPos = 0
        /\ \A p \in Entries(d) : g.cells[p] = WithRevents(d.cells[p], found[p])
    <2> HIDE DEF d
    <2> QED BY <1>3, <1>4, PollOK
  <1>6. View = d /\ View' = g
    <2>1. g \in Table
      BY <1>5 DEF TableOK
    <2> QED BY <1>1, <1>4, <2>1, ViewSet
  <1> HIDE DEF d
  <1>7. ASSUME NEW t \in DOMAIN d.index
        PROVE  /\ d.index[t] \in Entries(d) /\ Of(d, t).events = d.cells[d.index[t]].events
               /\ Of(g, t).events = Of(d, t).events
               /\ Of(g, t).file = Of(d, t).file /\ Of(g, t).revents = found[d.index[t]]
    <2>1. d.index[t] \in Entries(d) /\ Of(d, t) \in Entry /\ Of(d, t) = d.cells[d.index[t]]
      BY <1>3, PosOfEntry DEF Of
    <2>2. Of(g, t) = WithRevents(Of(d, t), found[d.index[t]])
      BY <1>5, <2>1 DEF Of
    <2> QED BY <2>1, <2>2 DEF WithRevents, Entry
  <1>8. \A t \in Socket : EventsOf(g, t) = EventsOf(d, t) /\ FileOf(g, t) = FileOf(d, t)
    BY <1>5, <1>7 DEF EventsOf, FileOf
  <1>9. UNCHANGED <<checksSeen, filesSeen>> /\ View'.mode = NoIterator
    BY <1>3, <1>5, <1>6, <1>8, SeenTables
  <1>10. \A t \in Socket : /\ checksSeen[t] = EventsOf(d, t)
                           /\ findingsSeen'[t] = ReventsOf(g, t)
    BY <1>3, <1>5, <1>6, SeenTables
  <1>11. findingsSeen' \in [Socket -> SUBSET Finding]
    <2>1. \A t \in Socket : ReventsOf(g, t) \in SUBSET Finding
      BY <1>4, <1>5, <1>7 DEF ReventsOf
    <2>2. findingsSeen' = [t \in Socket |-> ReventsOf(g, t)]
      BY <1>3, <1>5, <1>6, SeenTables
    <2> QED BY <2>1, <2>2
  <1>12. ASSUME NEW t \in Socket
         PROVE  /\ findingsSeen'[t] \cap Event \subseteq checksSeen[t]
                /\ checksSeen[t] = {} => findingsSeen'[t] = {}
    <2>1. CASE t \in DOMAIN d.index
      <3>1. ReventsOf(g, t) = found[d.index[t]] /\ EventsOf(d, t) = d.cells[d.index[t]].events
        BY <1>5, <1>7, <2>1 DEF ReventsOf, EventsOf
      <3>2. EventsOf(d, t) # {}
        BY <1>3, <2>1, EntryChecked
      <3> QED BY <1>2, <1>7, <1>10, <2>1, <3>1, <3>2
    <2>2. CASE t \notin DOMAIN d.index
      BY <1>5, <1>10, <2>2 DEF ReventsOf
    <2> QED BY <2>1, <2>2
  <1>13. \E t \in Socket : findingsSeen'[t] # {}
    <2>1. PICK p \in Entries(d) : found[p] # {}
      BY <1>2
    <2>2. d.cells[p].fd \in DOMAIN d.index /\ d.index[d.cells[p].fd] = p
      BY <1>3 DEF TableOK
    <2>3. d.cells[p].fd \in Socket
      BY <1>3, <2>2, SeenBySocket
    <2>4. ReventsOf(g, d.cells[p].fd) = found[p]
      BY <1>5, <1>7, <2>2 DEF ReventsOf
    <2> QED BY <1>10, <2>1, <2>3, <2>4
  <1>14. todoSeen' = {t \in Socket : checksSeen[t] # {}}
    <2>1. todoSeen' = Behind(g)
      BY <1>3, <1>5, <1>6, SeenTables
    <2>2. Behind(g) = DOMAIN d.index
      <3>1. \A t \in DOMAIN d.index : g.index[t] \in Entries(g)
        BY <1>5 DEF TableOK
      <3>2. \A p \in Entries(g) : p >= 0
        <4>1. g.size \in Nat
          BY <1>5, TableTypes DEF TableOK
        <4> QED BY <4>1 DEF Entries
      <3> QED BY <1>5, <3>1, <3>2 DEF Behind
    <2>3. {t \in Socket : EventsOf(d, t) # {}} = DOMAIN d.index
      BY <1>3, EntryChecked
    <2> QED BY <1>10, <2>1, <2>2, <2>3
  <1> QED BY <1>1, <1>9, <1>11, <1>12, <1>13, <1>14, PromisedPoll

\* Without an error the iterator starts in a mode of the program.
LEMMA IterateRefines ==
  ASSUME PollInv, ~RangeErrors, PolIterChecks(Observed) \/ PolIterFindings(Observed)
  PROVE  Promise!Next
  <1> DEFINE d == data[Observed]
  <1>1. /\ Usable(Observed) /\ result' = NoResult
        /\ Observed \notin overwritten /\ UNCHANGED overwritten
    BY DEF PolIterChecks, PolIterFindings, Usable, lost
  <1>2. PICK mode \in ChosenModes(Observed, "checks") \cup ChosenModes(Observed, "findings") :
          Set(Observed, IterChecks(d, mode)) \/ Set(Observed, IterFindings(d, mode))
    BY DEF PolIterChecks, PolIterFindings
  <1>3. mode \in Iterator
    BY PollTableAssumption DEF ChosenModes, ModesFor, Iterator
  <1>4. TableOK(d)
    BY <1>1, UsableOK, PollDataAssumption
  <1>5. PICK g \in {IterChecks(d, mode), IterFindings(d, mode)} : Set(Observed, g)
    BY <1>2
  <1>6. Same(d, g) /\ g.mode = mode /\ g.iterPos = 0
    <2>1. g = IterChecks(d, mode) \/ g = IterFindings(d, mode)
      BY <1>5
    <2> HIDE DEF d
    <2> QED BY <1>3, <1>4, <2>1, StartOK
  <1>7. TableOK(g) /\ g.index = d.index /\ g.cells = d.cells
    BY <1>6 DEF Same
  <1>8. View = d /\ View' = g
    <2>1. g \in Table
      BY <1>7 DEF TableOK
    <2> QED BY <1>1, <1>5, <2>1, ViewSet
  <1> HIDE DEF d
  <1>9. UNCHANGED <<checksSeen, findingsSeen, filesSeen>> /\ View'.mode \in Iterator
    <2>1. \A t \in Socket : /\ EventsOf(g, t) = EventsOf(d, t)
                            /\ ReventsOf(g, t) = ReventsOf(d, t) /\ FileOf(g, t) = FileOf(d, t)
      BY <1>7 DEF EventsOf, ReventsOf, FileOf, Of
    <2> QED BY <1>3, <1>4, <1>6, <1>7, <1>8, <2>1, SeenTables
  <1>10. todoSeen' = {t \in Socket : checksSeen[t] # {}}
    <2>1. todoSeen' = Behind(g) /\ \A t \in Socket : checksSeen[t] = EventsOf(d, t)
      BY <1>4, <1>7, <1>8, SeenTables
    <2>2. Behind(g) = DOMAIN d.index
      <3>1. \A t \in DOMAIN d.index : g.index[t] \in Entries(g)
        BY <1>7 DEF TableOK
      <3>2. \A p \in Entries(g) : p >= 0
        <4>1. g.size \in Nat
          BY <1>7, TableTypes DEF TableOK
        <4> QED BY <4>1 DEF Entries
      <3> QED BY <1>6, <1>7, <3>1, <3>2 DEF Behind
    <2>3. {t \in Socket : EventsOf(d, t) # {}} = DOMAIN d.index
      BY <1>4, EntryChecked
    <2> QED BY <2>1, <2>2, <2>3
  <1> QED BY <1>1, <1>9, <1>10, PromisedIterate

\* The entries behind the iterator that the mode asks for, by their sockets.
WantedAt(d) ==
  {s \in Behind(d) : (IF d.mode.over = "checks" THEN Of(d, s).events ELSE Of(d, s).revents)
                        \cap d.mode.mask # {}}

\* The search ends at the first entry that is wanted, or when there is none.
LEMMA SearchEnds ==
  ASSUME NEW d, TableOK(d), FindingsOK(d), NEW pos \in NextPositions(d)
  PROVE  /\ \A s \in WantedAt(d) : HasNextAt(d, pos) /\ d.index[s] >= pos
         /\ HasNextAt(d, pos) => pos \in Entries(d) /\ d.cells[pos].fd \in WantedAt(d)
         /\ pos >= d.iterPos \/ pos >= d.size
  <1>1. /\ d.size \in Nat /\ d.size <= MaxPos /\ d.iterPos \in Nat /\ pos \in Nat /\ MaxPos \in Nat
        /\ d.mode \in Iterator /\ d.iterEvents \in Nat
    BY TableTypes, NextPositionsOK, CellTypes DEF TableOK, Position
  <1>2. \A s \in DOMAIN d.index : /\ d.index[s] \in Nat /\ d.index[s] < d.size
                                  /\ Of(d, s) = d.cells[d.index[s]]
    BY <1>1 DEF TableOK, Entries, Of
  <1>3. ASSUME NEW s \in WantedAt(d)
        PROVE  HasNextAt(d, pos) /\ d.index[s] >= pos
    <2>1. /\ s \in DOMAIN d.index /\ d.index[s] >= d.iterPos /\ d.mode.over # "empty"
          /\ EventsAt(d, d.index[s]) \cap d.mode.mask # {}
      <3>1. s \in Behind(d) /\ s \in DOMAIN d.index /\ d.index[s] >= d.iterPos
        BY DEF WantedAt, Behind
      <3>2. EventsAt(d, d.index[s]) \cap d.mode.mask # {}
        BY <1>2, <3>1 DEF WantedAt, EventsAt
      <3>3. d.mode.over # "empty"
        <4>1. d.mode.mask # {}
          BY <3>2
        <4>2. d.mode # NoIterator
          BY <4>1 DEF NoIterator
        <4> QED BY <1>1, <4>2 DEF Iterator
      <3> QED BY <3>1, <3>2, <3>3
    <2>2. ~(d.mode.over = "findings" /\ d.iterEvents = 0)
      <3>1. SUFFICES ASSUME d.mode.over = "findings", d.iterEvents = 0
                     PROVE  FALSE
        OBVIOUS
      <3>2. d.index[s] \in Left(d)
        BY <1>2, <2>1, <3>1 DEF Left, EventsAt, TableOK
      <3>3. IsFiniteSet(Left(d)) /\ Cardinality(Left(d)) \in Nat
        BY FindingsBySocket
      <3>4. Cardinality(Left(d)) = 0
        BY <3>1, <3>3 DEF FindingsOK
      <3> QED BY <3>2, <3>3, <3>4, FS_EmptySet
    <2>3. pos \in Scan(d)
      BY <2>1, <2>2 DEF NextPositions
    <2>4. ~(d.index[s] \in d.iterPos .. pos - 1)
      BY <2>1, <2>3 DEF Scan
    <2>5. d.index[s] >= pos
      BY <1>1, <1>2, <2>1, <2>4
    <2> QED BY <1>1, <1>2, <2>1, <2>5 DEF HasNextAt
  <1>4. ASSUME HasNextAt(d, pos)
        PROVE  pos \in Entries(d) /\ d.cells[pos].fd \in WantedAt(d)
    <2>1. /\ pos \in Entries(d) /\ pos >= d.iterPos
          /\ EventsAt(d, pos) \cap d.mode.mask # {}
      BY <1>4, NextPositionsOK
    <2>2. d.cells[pos].fd \in DOMAIN d.index /\ d.index[d.cells[pos].fd] = pos
      BY <2>1 DEF TableOK
    <2> QED BY <1>2, <2>1, <2>2 DEF WantedAt, Behind, EventsAt
  <1>5. pos >= d.iterPos \/ pos >= d.size
    BY <1>1 DEF NextPositions, Scan
  <1> QED BY <1>3, <1>4, <1>5

LEMMA SeenWanted ==
  ASSUME NEW d, View = d, TableOK(d)
  PROVE  WantedSeen = WantedAt(d)
  <1>1. /\ checksSeen = [t \in Socket |-> EventsOf(d, t)]
        /\ findingsSeen = [t \in Socket |-> ReventsOf(d, t)]
        /\ todoSeen = Behind(d)
    BY SeenNow
  <1>2. \A t \in Behind(d) : /\ t \in Socket /\ EventsOf(d, t) = Of(d, t).events
                             /\ ReventsOf(d, t) = Of(d, t).revents
    BY SeenBySocket, EntryChecked DEF Behind
  <1>3. \A t \in Behind(d) : /\ checksSeen[t] = Of(d, t).events
                             /\ findingsSeen[t] = Of(d, t).revents
    BY <1>1, <1>2
  <1> QED BY <1>1, <1>3 DEF WantedSeen, WantedAt

\* hasNext and nextFile keep the table and move the iterator.
LEMMA IteratorSeen ==
  ASSUME NEW d, NEW g, View = d, View' = g, TableOK(d), Same(d, g), g.mode = d.mode
  PROVE  /\ UNCHANGED <<checksSeen, findingsSeen, filesSeen, View.mode>>
         /\ todoSeen = Behind(d) /\ todoSeen' = {s \in DOMAIN d.index : d.index[s] >= g.iterPos}
         /\ \A s \in DOMAIN d.index : filesSeen[s] = Of(d, s).file
  <1>1. TableOK(g) /\ g.index = d.index /\ g.cells = d.cells
    BY DEF Same
  <1>2. \A t \in Socket : /\ EventsOf(g, t) = EventsOf(d, t)
                          /\ ReventsOf(g, t) = ReventsOf(d, t) /\ FileOf(g, t) = FileOf(d, t)
    BY <1>1 DEF EventsOf, ReventsOf, FileOf, Of
  <1>3. UNCHANGED <<checksSeen, findingsSeen, filesSeen>>
    BY <1>1, <1>2, SeenTables
  <1>4. todoSeen = Behind(d) /\ todoSeen' = Behind(g) /\ filesSeen = [t \in Socket |-> FileOf(d, t)]
    BY <1>1, SeenTables
  <1>5. \A s \in DOMAIN d.index : s \in Socket /\ FileOf(d, s) = Of(d, s).file
    BY SeenBySocket, EntryChecked
  <1> QED BY <1>1, <1>3, <1>4, <1>5 DEF Behind

LEMMA HasNextRefines ==
  ASSUME PollInv, FindingsInv, PolHasNext(Observed)
  PROVE  Promise!Next
  <1> DEFINE d == data[Observed]
  <1>1. Usable(Observed) /\ Observed \notin overwritten /\ UNCHANGED overwritten
    BY DEF PolHasNext, Usable, lost
  <1>2. PICK pos \in NextPositions(d) :
          /\ Set(Observed, AfterHasNext(d, pos))
          /\ result' = [of |-> "hasNext", is |-> HasNextAt(d, pos)]
    BY DEF PolHasNext
  <1> DEFINE g == AfterHasNext(d, pos)
  <1>3. TableOK(d) /\ FindingsOK(d)
    BY <1>1, UsableFindings, PollDataAssumption
  <1>4. Same(d, g) /\ g.mode = d.mode /\ g.iterPos = pos
    <2> HIDE DEF d
    <2> QED BY <1>3, NextOK
  <1>5. g \in Table
    BY <1>4 DEF Same, TableOK
  <1>6. View = d /\ View' = g
    BY <1>1, <1>2, <1>5, ViewSet
  <1> HIDE DEF d, g
  <1>7. /\ UNCHANGED <<checksSeen, findingsSeen, filesSeen, View.mode>>
        /\ todoSeen = Behind(d) /\ todoSeen' = {s \in DOMAIN d.index : d.index[s] >= pos}
    BY <1>3, <1>4, <1>6, IteratorSeen
  <1>8. /\ \A s \in WantedAt(d) : HasNextAt(d, pos) /\ d.index[s] >= pos
        /\ HasNextAt(d, pos) => pos \in Entries(d) /\ d.cells[pos].fd \in WantedAt(d)
        /\ pos >= d.iterPos \/ pos >= d.size
    BY <1>3, SearchEnds
  <1>9. WantedSeen = WantedAt(d) /\ WantedAt(d) \subseteq Behind(d)
    BY <1>3, <1>6, SeenWanted DEF WantedAt
  <1>10. HasNextAt(d, pos) = (WantedSeen # {})
    BY <1>8, <1>9 DEF HasNextAt
  <1>11. WantedSeen \subseteq todoSeen'
    BY <1>7, <1>8, <1>9 DEF Behind
  <1>12. todoSeen' \subseteq todoSeen
    <2>1. \A s \in DOMAIN d.index : d.index[s] \in Nat /\ d.index[s] < d.size
      <3>1. d.size \in Nat
        BY <1>3, TableTypes DEF TableOK
      <3> QED BY <1>3, <3>1 DEF TableOK, Entries
    <2>2. d.size \in Nat /\ d.iterPos \in Nat /\ pos \in Nat
      BY <1>3, TableTypes, NextPositionsOK, CellTypes DEF TableOK, Position
    <2> QED BY <1>7, <1>8, <2>1, <2>2 DEF Behind
  <1> QED BY <1>1, <1>2, <1>7, <1>10, <1>11, <1>12, PromisedHasNext

LEMMA NextFileRefines ==
  ASSUME PollInv, FindingsInv, PolNextFile(Observed)
  PROVE  Promise!Next
  <1> DEFINE d == data[Observed]
  <1>1. Usable(Observed) /\ Observed \notin overwritten /\ UNCHANGED overwritten
    BY DEF PolNextFile, Usable, lost
  <1>2. PICK pos \in NextPositions(d) :
          /\ Set(Observed, AfterNextFile(d, pos))
          /\ result' = [of |-> "nextFile", is |-> NextFileAt(d, pos)]
    BY DEF PolNextFile
  <1> DEFINE g == AfterNextFile(d, pos)
  <1>3. TableOK(d) /\ FindingsOK(d)
    BY <1>1, UsableFindings, PollDataAssumption
  <1>4. Same(d, g) /\ g.mode = d.mode /\ g.iterPos = IF HasNextAt(d, pos) THEN pos + 1 ELSE pos
    <2> HIDE DEF d
    <2> QED BY <1>3, NextOK
  <1>5. g \in Table
    BY <1>4 DEF Same, TableOK
  <1>6. View = d /\ View' = g
    BY <1>1, <1>2, <1>5, ViewSet
  <1> HIDE DEF d, g
  <1>7. /\ UNCHANGED <<checksSeen, findingsSeen, filesSeen, View.mode>>
        /\ todoSeen = Behind(d) /\ todoSeen' = {s \in DOMAIN d.index : d.index[s] >= g.iterPos}
        /\ \A s \in DOMAIN d.index : filesSeen[s] = Of(d, s).file
    BY <1>3, <1>4, <1>6, IteratorSeen
  <1>8. /\ \A s \in WantedAt(d) : HasNextAt(d, pos) /\ d.index[s] >= pos
        /\ HasNextAt(d, pos) => pos \in Entries(d) /\ d.cells[pos].fd \in WantedAt(d)
        /\ pos >= d.iterPos \/ pos >= d.size
    BY <1>3, SearchEnds
  <1>9. WantedSeen = WantedAt(d) /\ WantedAt(d) \subseteq Behind(d)
    BY <1>3, <1>6, SeenWanted DEF WantedAt
  <1>10. \A s \in DOMAIN d.index : /\ d.index[s] \in Nat /\ d.index[s] < d.size
                                   /\ d.cells[d.index[s]].fd = s
    <2>1. d.size \in Nat
      BY <1>3, TableTypes DEF TableOK
    <2> QED BY <1>3, <2>1 DEF TableOK, Entries
  <1>11. d.size \in Nat /\ d.iterPos \in Nat /\ pos \in Nat
    BY <1>3, TableTypes, NextPositionsOK, CellTypes DEF TableOK, Position
  <1>12. CASE ~HasNextAt(d, pos)
    <2>1. WantedSeen = {}
      BY <1>8, <1>9, <1>12
    <2>2. result' = [of |-> "nextFile", is |-> NoFile]
      BY <1>2, <1>12 DEF NextFileAt
    <2>3. todoSeen' \subseteq todoSeen
      BY <1>4, <1>7, <1>8, <1>10, <1>11, <1>12 DEF Behind
    <2> QED BY <1>1, <1>7, <2>1, <2>2, <2>3, PromisedNextFile
  <1>13. CASE HasNextAt(d, pos)
    <2> DEFINE s == d.cells[pos].fd
    <2>1. s \in WantedAt(d) /\ s \in DOMAIN d.index /\ d.index[s] = pos /\ pos >= d.iterPos
      <3>1. pos \in Entries(d) /\ s \in WantedAt(d)
        BY <1>8, <1>13
      <3>2. s \in DOMAIN d.index /\ d.index[s] = pos
        BY <1>3, <3>1 DEF TableOK
      <3>3. d.index[s] >= d.iterPos
        BY <3>1 DEF WantedAt, Behind
      <3> QED BY <3>1, <3>2, <3>3
    <2>2. result' = [of |-> "nextFile", is |-> filesSeen[s]]
      BY <1>2, <1>7, <1>13, <2>1 DEF NextFileAt, Of
    <2> HIDE DEF s
    <2>3. \A t \in DOMAIN d.index : t # s => d.index[t] # pos
      BY <1>10, <2>1
    <2>4. WantedSeen \ {s} \subseteq todoSeen'
      <3>1. \A t \in WantedAt(d) \ {s} : t \in DOMAIN d.index /\ d.index[t] >= pos + 1
        BY <1>8, <1>10, <1>11, <2>3 DEF WantedAt, Behind
      <3> QED BY <1>4, <1>7, <1>9, <1>13, <3>1
    <2>5. todoSeen' \subseteq todoSeen \ {s}
      BY <1>4, <1>7, <1>10, <1>11, <1>13, <2>1 DEF Behind
    <2>6. s \in WantedSeen
      BY <1>9, <2>1
    <2> QED BY <1>1, <1>7, <2>2, <2>4, <2>5, <2>6, PromisedNextFile
  <1> QED BY <1>12, <1>13

LEMMA ClearRefines ==
  ASSUME PollInv, PolClear(Observed) \/ PolEmpty(Observed) \/ PolDestr(Observed)
  PROVE  Promise!Next
  <1>1. /\ result' = NoResult /\ Observed \in Var /\ data \in [Var -> PollRecord \cup {Undefined}]
        /\ Observed \notin overwritten'
    BY PollDataAssumption DEF PolClear, PolEmpty, PolDestr, PollInv, DataOK, lost
  <1>2. CASE PolClear(Observed)
    <2>1. Valid(Observed) /\ Set(Observed, Clear(data[Observed]))
      BY <1>2 DEF PolClear
    <2>2. /\ TableOK(Clear(data[Observed])) /\ Clear(data[Observed]).size = 0
          /\ Clear(data[Observed]).mode = NoIterator
      BY <1>1, <2>1, ValidOK, ClearOK
    <2>3. View' = Clear(data[Observed])
      BY <2>1, <2>2, TableDefined, ViewRecord DEF TableOK
    <2> QED BY <1>1, <2>2, <2>3, PromisedClear
  <1>3. CASE PolEmpty(Observed) \/ PolDestr(Observed)
    <2>1. Set(Observed, Empty) \/ Set(Observed, Undefined)
      BY <1>3 DEF PolEmpty, PolDestr
    <2>2. View' = Empty
      BY <1>1, <2>1 DEF View, Set
    <2> QED BY <1>1, <2>2, EmptyOK, PromisedClear
  <1> QED BY <1>2, <1>3

\* A variable that is created, filled, polled and iterated, and is not assigned to or from
\* another one, implements Polling: the checks are those that were added and not removed,
\* and an iteration delivers every file that it should, once, although entries move in the
\* table (pol_unx.c: polRemoveCheck), the number of findings may end it (iterEvents), and
\* addCheck may fail.  After a removal at the end of an iteration (RemoveAfterEnd) nothing
\* is promised until the variable is cleared.
THEOREM PollingImplemented ==
  ASSUME Var = {Observed}, ~RangeErrors
  PROVE  Spec => PollingSpec
  <1>1. Init => PollInv /\ FindingsInv
    <2>1. ASSUME Init
          PROVE  FindingsInv
      BY <2>1, EmptyOK, NoFindings DEF Init, FindingsInv
    <2> QED BY <2>1, InitPollInv
  <1>2. PollInv /\ FindingsInv /\ [Next]_vars => (PollInv /\ FindingsInv)'
    BY StepPollInv, StepFindings
  <1>3. Init => Promise!Init
    <2> SUFFICES ASSUME Init PROVE Promise!Init
      OBVIOUS
    <2>1. View = Empty /\ result = NoResult /\ Observed \notin overwritten
      BY PollDataAssumption DEF Init, View
    <2>2. TableOK(View) /\ View.mode = NoIterator /\ DOMAIN View.index = {}
      <3>1. DOMAIN Empty.index = {}
        BY EmptyOK DEF TableOK, Entries
      <3> QED BY <2>1, <3>1, EmptyOK
    <2>3. /\ checksSeen = [s \in Socket |-> {}] /\ findingsSeen = [s \in Socket |-> {}]
          /\ filesSeen = [s \in Socket |-> NoFile] /\ todoSeen = {}
      BY <2>2, SeenNow DEF EventsOf, ReventsOf, FileOf, Behind
    <2> QED BY <2>1, <2>2, <2>3 DEF Promise!Init, Promise!NoResult, Promise!NoIterator,
              NoResult, NoIterator, checksSeen, findingsSeen, filesSeen, todoSeen
  <1>4. PollInv /\ FindingsInv /\ [Next]_vars => [Promise!Next]_(Promise!vars)
    <2> SUFFICES ASSUME PollInv, FindingsInv, [Next]_vars
                 PROVE  Promise!Next \/ UNCHANGED Promise!vars
      OBVIOUS
    <2>1. CASE UNCHANGED vars
      BY <2>1 DEF vars, lost, Promise!vars, View, EntryOf
    <2>2. CASE Next
      <3>1. PICK x \in Var :
              \/ \E s \in Socket, events \in PollModes :
                   \/ \E file \in File : PolAddCheck(x, s, events, file)
                   \/ PolRemoveCheck(x, s, events)
              \/ \E s \in Socket : PolAddCheckFails(x, s)
              \/ PolClear(x) \/ PolPoll(x) \/ PolIterChecks(x) \/ PolIterFindings(x)
              \/ PolHasNext(x) \/ PolNextFile(x)
              \/ \E y \in Var : PolCpy(x, y) \/ PolCpyFails(x, y) \/ PolCreate(x, y)
              \/ PolEmpty(x) \/ PolDestr(x)
        BY <2>2 DEF Next
      <3>2. x = Observed
        OBVIOUS
      <3>3. ~ \E y \in Var : PolCpy(x, y) \/ PolCpyFails(x, y) \/ PolCreate(x, y)
        BY <3>2 DEF PolCpy, PolCpyFails, PolCreate, Usable, Valid, Defined
      <3> QED BY <3>1, <3>2, <3>3, AddCheckRefines, RemoveCheckRefines, OverwritingRefines,
                 AddCheckFailsRefines,
                 PollRefines, IterateRefines, HasNextRefines, NextFileRefines, ClearRefines
    <2> QED BY <2>1, <2>2
  <1> QED BY <1>1, <1>2, <1>3, <1>4, PTL DEF Spec, PollingSpec, Promise!Spec
=============================================================================
