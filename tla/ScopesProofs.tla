----------------------------- MODULE ScopesProofs -----------------------------
(* Proofs about Scopes for every set of names, any memory and any depth of   *)
(* functions: a name is found in the innermost level that declares it, and   *)
(* no entity is lost.  The invariant (ScopesInv) relates three structures:   *)
(* the levels with their objects, the owners of every entity, which are its  *)
(* objects from inside out, and the tree of names, whose nodes are used at   *)
(* least as often as the names of owned entities lead through them.          *)
(*                                                                           *)
(* The lemmas about numbers, recursion and folds are those of RuntimeProofs. *)
EXTENDS Scopes, RuntimeProofs

-----------------------------------------------------------------------------
(* Scopes: names are paths, and the nodes of the tree are their beginnings.  *)

WrittenType == UNION {ParameterType(w) : w \in WrittenName}
PathSymbol == {w.symbol : w \in WrittenName} \cup WrittenType \cup {ClosingSymbol}

\* A path ends with its only closing symbol, and all that it begins with is in the tree.
WholePath(path) ==
    /\ path \in Seq(PathSymbol) /\ Len(path) >= 1 /\ path[Len(path)] = ClosingSymbol
    /\ \A i \in 1..Len(path) : path[i] = ClosingSymbol => i = Len(path)
    /\ \A n \in 1..Len(path) : SubSeq(path, 1, n) \in TreeNode

LEMMA PathIs ==
  ASSUME NEW w \in WrittenName, NEW types \in SeqOf(ParameterType(w), Len(w.parameters))
  PROVE  NamePath(w, types) \in FullName /\ WholePath(NamePath(w, types)) /\ NamePath(w, types)[1] = w.symbol
  <1> DEFINE path == NamePath(w, types)
  <1>1. /\ Len(w.parameters) \in Nat
        /\ types \in Seq(PathSymbol) /\ w.symbol \in PathSymbol /\ ClosingSymbol \in PathSymbol
        /\ w.symbol # ClosingSymbol /\ \A i \in 1..Len(types) : types[i] # ClosingSymbol
    <2>1. w.parameters \in Seq(Range(w.parameters))
      BY ScopesAssumption
    <2>2. Len(w.parameters) \in Nat
      BY <2>1, LenProperties
    <2>3. PICK m \in 0..Len(w.parameters) : types \in [1..m -> ParameterType(w)]
      BY DEF SeqOf
    <2>4. m \in Nat /\ Len(types) = m /\ types \in Seq(ParameterType(w))
      BY <2>2, <2>3
    <2>5. ParameterType(w) \subseteq PathSymbol
      <3> DEFINE T(v) == ParameterType(v)
      <3> HIDE DEF T
      <3>1. T(w) \subseteq UNION {T(v) : v \in WrittenName}
        OBVIOUS
      <3>2. ParameterType(w) \subseteq WrittenType
        BY <3>1 DEF T, WrittenType
      <3> QED BY <3>2 DEF PathSymbol
    <2>6. types \in Seq(PathSymbol)
      BY <2>4, <2>5, SeqMonotonic
    <2>7. ClosingSymbol \notin ParameterType(w) \cup {w.symbol}
      BY ScopesAssumption
    <2>8. \A i \in 1..Len(types) : types[i] # ClosingSymbol
      BY <2>3, <2>4, <2>7
    <2>9. w.symbol \in PathSymbol /\ ClosingSymbol \in PathSymbol
      BY DEF PathSymbol
    <2> QED BY <2>2, <2>6, <2>7, <2>8, <2>9
  <1>2. /\ path \in Seq(PathSymbol) /\ Len(path) = Len(types) + 2 /\ Len(types) \in Nat
        /\ path[1] = w.symbol /\ path[Len(types) + 2] = ClosingSymbol
        /\ \A i \in 1..Len(types) : path[i + 1] = types[i]
    <2> DEFINE front == <<w.symbol>> \o types
               c == ClosingSymbol
    <2>1. Len(types) \in Nat /\ <<w.symbol>> \in Seq(PathSymbol) /\ Len(<<w.symbol>>) = 1 /\ <<w.symbol>>[1] = w.symbol
      BY <1>1
    <2>2. <<c>> \in Seq(PathSymbol) /\ Len(<<c>>) = 1 /\ <<c>>[1] = c
      BY <1>1
    <2>3. /\ front \in Seq(PathSymbol) /\ Len(front) = 1 + Len(types)
          /\ \A i \in 1..1 + Len(types) : front[i] = IF i <= 1 THEN <<w.symbol>>[i] ELSE types[i - 1]
      BY <1>1, <2>1, ConcatProperties
    <2>4. path = front \o <<c>>
      BY DEF NamePath
    <2> HIDE DEF front, c, path
    <2>5. /\ path \in Seq(PathSymbol) /\ Len(path) = (1 + Len(types)) + 1
          /\ \A i \in 1..(1 + Len(types)) + 1 : path[i] = IF i <= 1 + Len(types) THEN front[i] ELSE <<c>>[i - (1 + Len(types))]
      BY <2>2, <2>3, <2>4, ConcatProperties
    <2>6. path[1] = front[1] /\ front[1] = w.symbol
      BY <2>1, <2>3, <2>5
    <2>7. path[Len(types) + 2] = c
      <3>1. Len(types) + 2 \in 1..(1 + Len(types)) + 1 /\ ~(Len(types) + 2 <= 1 + Len(types))
            /\ (Len(types) + 2) - (1 + Len(types)) = 1
        BY <2>1
      <3> QED BY <2>2, <2>5, <3>1
    <2>8. \A i \in 1..Len(types) : path[i + 1] = types[i]
      <3> TAKE i \in 1..Len(types)
      <3>1. i + 1 \in 1..(1 + Len(types)) + 1 /\ i + 1 <= 1 + Len(types) /\ ~(i + 1 <= 1) /\ (i + 1) - 1 = i
            /\ i + 1 \in 1..1 + Len(types)
        BY <2>1
      <3>2. path[i + 1] = front[i + 1]
        BY <2>5, <3>1
      <3>3. front[i + 1] = types[i]
        BY <2>3, <3>1
      <3> QED BY <3>2, <3>3
    <2> QED BY <2>1, <2>5, <2>6, <2>7, <2>8 DEF c
  <1> HIDE DEF path
  <1>3. ASSUME NEW i \in 1..Len(path), path[i] = ClosingSymbol
        PROVE  i = Len(path)
    <2>1. CASE i = 1
      BY <1>1, <1>2, <1>3, <2>1
    <2>2. CASE i > 1 /\ i # Len(path)
      <3>1. i - 1 \in 1..Len(types) /\ (i - 1) + 1 = i
        BY <1>2, <2>2
      <3>2. path[(i - 1) + 1] = types[i - 1]
        BY <1>2, <3>1
      <3> QED BY <1>1, <1>3, <3>1, <3>2
    <2> QED BY <2>1, <2>2
  <1>4. \A n \in 1..Len(path) : SubSeq(path, 1, n) \in TreeNode
    <2>1. path \in PathsOf(w)
      BY DEF PathsOf, path
    <2> QED BY <2>1 DEF TreeNode
  <1>5. WholePath(path)
    BY <1>2, <1>3, <1>4 DEF WholePath
  <1>6. path \in TreeNode
    <2>1. SubSeq(path, 1, Len(path)) = path
      BY <1>2, SubSeqFull
    <2>2. Len(path) \in 1..Len(path)
      BY <1>2
    <2> QED BY <1>4, <2>1, <2>2
  <1>7. path \in FullName
    BY <1>2, <1>6 DEF FullName, Last
  <1> QED BY <1>2, <1>5, <1>7 DEF path

LEMMA NodeIs ==
  ASSUME NEW n \in TreeNode
  PROVE  \E w, types, k : /\ w \in WrittenName /\ types \in SeqOf(ParameterType(w), Len(w.parameters))
                           /\ k \in 1..Len(NamePath(w, types)) /\ n = SubSeq(NamePath(w, types), 1, k)
  <1>1. PICK w \in WrittenName : \E path \in PathsOf(w) : \E k \in 1..Len(path) : n = SubSeq(path, 1, k)
    BY DEF TreeNode
  <1> QED BY <1>1 DEF PathsOf

LEMMA NodeFacts ==
  /\ \A n \in TreeNode : n \in Seq(PathSymbol) /\ Len(n) >= 1 /\ \A k \in 1..Len(n) : SubSeq(n, 1, k) \in TreeNode
  /\ \A n \in FullName : n \in TreeNode /\ WholePath(n)
  <1>1. ASSUME NEW n \in TreeNode
        PROVE  /\ n \in Seq(PathSymbol) /\ Len(n) >= 1 /\ \A k \in 1..Len(n) : SubSeq(n, 1, k) \in TreeNode
               /\ n \in FullName => WholePath(n)
    <2>1. PICK w, types, k : /\ w \in WrittenName /\ types \in SeqOf(ParameterType(w), Len(w.parameters))
                             /\ k \in 1..Len(NamePath(w, types)) /\ n = SubSeq(NamePath(w, types), 1, k)
      BY NodeIs
    <2> DEFINE path == NamePath(w, types)
    <2>2. WholePath(path)
      BY <2>1, PathIs
    <2> HIDE DEF path
    <2>3. path \in Seq(PathSymbol) /\ Len(path) \in Nat /\ k \in 1..Len(path) /\ n = SubSeq(path, 1, k)
      BY <2>1, <2>2 DEF WholePath, path
    <2>4. n \in Seq(PathSymbol) /\ Len(n) = k /\ \A i \in 1..k : n[i] = path[i]
      <3>1. \A i \in 1..k : path[i] \in PathSymbol
        BY <2>3
      <3> QED BY <2>3, <3>1, SubSeqProperties
    <2>5. \A j \in 1..k : SubSeq(n, 1, j) = SubSeq(path, 1, j)
      <3> TAKE j \in 1..k
      <3>1. j \in 1..Len(n) /\ j \in 1..Len(path)
        BY <2>3, <2>4
      <3>2. /\ SubSeq(n, 1, j) \in Seq(PathSymbol) /\ Len(SubSeq(n, 1, j)) = j
            /\ \A i \in 1..j : SubSeq(n, 1, j)[i] = n[i]
        BY <2>4, <3>1, SubSeqProperties
      <3>3. /\ SubSeq(path, 1, j) \in Seq(PathSymbol) /\ Len(SubSeq(path, 1, j)) = j
            /\ \A i \in 1..j : SubSeq(path, 1, j)[i] = path[i]
        BY <2>3, <3>1, SubSeqProperties
      <3>4. \A i \in 1..j : SubSeq(n, 1, j)[i] = SubSeq(path, 1, j)[i]
        BY <2>4, <3>2, <3>3
      <3> QED BY <3>2, <3>3, <3>4, SeqEqual
    <2>6. \A j \in 1..Len(n) : SubSeq(n, 1, j) \in TreeNode
      <3>1. \A j \in 1..k : j \in 1..Len(path)
        BY <2>3
      <3> QED BY <2>2, <2>4, <2>5, <3>1 DEF WholePath
    <2>7. ASSUME n \in FullName
          PROVE  WholePath(n)
      <3>1. n[k] = ClosingSymbol
        BY <2>4, <2>7 DEF FullName, Last
      <3>2. k = Len(path)
        BY <2>2, <2>3, <2>4, <3>1 DEF WholePath
      <3>3. n = path
        BY <2>3, <3>2, SubSeqFull
      <3> QED BY <2>2, <3>3
    <2> QED BY <2>3, <2>4, <2>6, <2>7
  <1> QED BY <1>1 DEF FullName

LEMMA PrefixIs ==
  ASSUME NEW n \in Seq(PathSymbol), NEW path \in Seq(PathSymbol)
  PROVE  IsPrefix(n, path) <=> Len(n) <= Len(path) /\ \A i \in 1..Len(n) : n[i] = path[i]
  <1>1. Len(n) \in Nat /\ Len(path) \in Nat
    BY LenProperties
  <1>2. ASSUME Len(n) <= Len(path)
        PROVE  SubSeq(n, 1, Len(n)) = SubSeq(path, 1, Len(n)) <=> \A i \in 1..Len(n) : n[i] = path[i]
    <2>1. SubSeq(n, 1, Len(n)) = n
      BY SubSeqFull
    <2>2. \A i \in 1..Len(n) : path[i] \in PathSymbol
      BY <1>1, <1>2
    <2>3. /\ SubSeq(path, 1, Len(n)) \in Seq(PathSymbol) /\ Len(SubSeq(path, 1, Len(n))) = Len(n)
          /\ \A i \in 1..Len(n) : SubSeq(path, 1, Len(n))[i] = path[i]
      BY <1>1, <2>2, SubSeqProperties
    <2>4. (\A i \in 1..Len(n) : n[i] = path[i]) => SubSeq(path, 1, Len(n)) = n
      BY <2>3, SeqEqual
    <2> QED BY <2>1, <2>3, <2>4
  <1> QED BY <1>2 DEF IsPrefix

\* The beginnings of a path are ordered by their length, and end before the closing symbol.
LEMMA PrefixFacts ==
  ASSUME NEW path, WholePath(path)
  PROVE  /\ Len(path) \in Nat /\ IsPrefix(path, path)
         /\ \A k \in 1..Len(path) : /\ IsPrefix(SubSeq(path, 1, k), path) /\ Len(SubSeq(path, 1, k)) = k
                                    /\ SubSeq(path, 1, k) \in TreeNode
         /\ \A n \in TreeNode : IsPrefix(n, path) => Len(n) \in 1..Len(path) /\ n = SubSeq(path, 1, Len(n))
         /\ \A n \in TreeNode : \A k \in 1..Len(path) :
               IsPrefix(n, SubSeq(path, 1, k)) <=> IsPrefix(n, path) /\ Len(n) <= k
         /\ \A n \in FullName : IsPrefix(n, path) => n = path
  <1>1. path \in Seq(PathSymbol) /\ Len(path) \in Nat
    BY LenProperties DEF WholePath
  <1>2. IsPrefix(path, path)
    BY <1>1, PrefixIs
  <1>3. ASSUME NEW k \in 1..Len(path)
        PROVE  /\ SubSeq(path, 1, k) \in Seq(PathSymbol) /\ Len(SubSeq(path, 1, k)) = k
               /\ \A i \in 1..k : SubSeq(path, 1, k)[i] = path[i]
    BY <1>1, SubSeqProperties
  <1>4. \A k \in 1..Len(path) : IsPrefix(SubSeq(path, 1, k), path) /\ SubSeq(path, 1, k) \in TreeNode
    <2> TAKE k \in 1..Len(path)
    <2> DEFINE s == SubSeq(path, 1, k)
    <2>1. s \in Seq(PathSymbol) /\ Len(s) = k /\ \A i \in 1..k : s[i] = path[i]
      BY <1>3
    <2>2. s \in TreeNode
      BY DEF WholePath
    <2> HIDE DEF s
    <2>3. IsPrefix(s, path)
      BY <1>1, <2>1, PrefixIs
    <2> QED BY <2>2, <2>3 DEF s
  <1>5. ASSUME NEW n \in TreeNode, IsPrefix(n, path)
        PROVE  Len(n) \in 1..Len(path) /\ n = SubSeq(path, 1, Len(n))
    <2>1. n \in Seq(PathSymbol) /\ Len(n) >= 1 /\ Len(n) \in Nat
      BY NodeFacts
    <2>2. Len(n) <= Len(path) /\ \A i \in 1..Len(n) : n[i] = path[i]
      BY <1>1, <1>5, <2>1, PrefixIs
    <2>3. Len(n) \in 1..Len(path)
      BY <1>1, <2>1, <2>2
    <2>4. \A i \in 1..Len(n) : n[i] = SubSeq(path, 1, Len(n))[i]
      BY <1>3, <2>2, <2>3
    <2> QED BY <1>3, <2>1, <2>3, <2>4, SeqEqual
  <1>6. ASSUME NEW n \in TreeNode, NEW k \in 1..Len(path)
        PROVE  IsPrefix(n, SubSeq(path, 1, k)) <=> IsPrefix(n, path) /\ Len(n) <= k
    <2>1. n \in Seq(PathSymbol) /\ Len(n) \in Nat
      BY NodeFacts
    <2>2. IsPrefix(n, path) <=> Len(n) <= Len(path) /\ \A i \in 1..Len(n) : n[i] = path[i]
      BY <1>1, <2>1, PrefixIs
    <2> DEFINE s == SubSeq(path, 1, k)
    <2>3. s \in Seq(PathSymbol) /\ Len(s) = k /\ \A i \in 1..k : s[i] = path[i]
      BY <1>3
    <2> HIDE DEF s
    <2>4. IsPrefix(n, s) <=> Len(n) <= k /\ \A i \in 1..Len(n) : n[i] = s[i]
      BY <2>1, <2>3, PrefixIs
    <2>5. Len(n) <= k => Len(n) <= Len(path) /\ \A i \in 1..Len(n) : i \in 1..k
      BY <1>1, <2>1
    <2> QED BY <2>2, <2>3, <2>4, <2>5 DEF s
  <1>7. ASSUME NEW n \in FullName, IsPrefix(n, path)
        PROVE  n = path
    <2>1. n \in TreeNode /\ WholePath(n)
      BY NodeFacts
    <2>2. Len(n) \in 1..Len(path) /\ n = SubSeq(path, 1, Len(n)) /\ n[Len(n)] = ClosingSymbol /\ Len(n) \in Nat
      BY <1>5, <1>7, <2>1 DEF WholePath
    <2>3. path[Len(n)] = ClosingSymbol
      BY <1>3, <2>2
    <2>4. Len(n) = Len(path)
      BY <2>2, <2>3 DEF WholePath
    <2> QED BY <1>1, <2>2, <2>4, SubSeqFull
  <1> QED BY <1>1, <1>2, <1>3, <1>4, <1>5, <1>6, <1>7

LEMMA PrefixTransitive ==
  ASSUME NEW m \in TreeNode, NEW n \in TreeNode, NEW path \in FullName, IsPrefix(m, n), IsPrefix(n, path)
  PROVE  IsPrefix(m, path)
  <1>1. m \in Seq(PathSymbol) /\ n \in Seq(PathSymbol) /\ path \in Seq(PathSymbol)
    BY NodeFacts DEF FullName
  <1>2. Len(m) \in Nat /\ Len(n) \in Nat /\ Len(path) \in Nat
    BY <1>1, LenProperties
  <1>3. /\ Len(m) <= Len(n) /\ \A i \in 1..Len(m) : m[i] = n[i]
        /\ Len(n) <= Len(path) /\ \A i \in 1..Len(n) : n[i] = path[i]
    BY <1>1, PrefixIs
  <1>4. \A i \in 1..Len(m) : i \in 1..Len(n)
    BY <1>2, <1>3
  <1> QED BY <1>1, <1>2, <1>3, <1>4, PrefixIs

-----------------------------------------------------------------------------
(* The tree of names.                                                       *)

ScopeEntity == PoolEntity \cup Identifier
Owner == [level : Nat, forward : BOOLEAN]
Programs ==
    [stack : Seq(Seq(ScopeEntity \cup {NoEntity})), current : Nat,
     usage : [TreeNode -> Nat], node : [TreeNode -> PoolEntity \cup {NoEntity}],
     name : [PoolEntity -> FullName \cup {NoName}], owner : [ScopeEntity -> Seq(Owner)],
     inactive : Seq(PoolEntity), again : SUBSET PoolEntity, closed : BOOLEAN]

\* What pop_name_list leaves when it comes to the node last.
Emptied(u, last, n) == u[last] = 1 /\ IsPrefix(last, n)
UsageLess(u, last) ==
    [n \in TreeNode |-> IF Emptied(u, last, n) THEN 0
                        ELSE IF IsPrefix(n, last) /\ u[n] > 0 THEN u[n] - 1 ELSE u[n]]
NodeLess(u, d, last) == [n \in TreeNode |-> IF Emptied(u, last, n) THEN NoEntity ELSE d[n]]

\* The node that pop_name_list comes to last.
LastNode(p, path) ==
    LET ends == {n \in 1..Len(path) : p.usage[SubSeq(path, 1, n)] <= 1}
        depth == IF ends = {} THEN Len(path) ELSE CHOOSE n \in ends : \A m \in ends : n <= m
    IN SubSeq(path, 1, depth)
Less(p, last) == [p EXCEPT !.usage = UsageLess(p.usage, last), !.node = NodeLess(p.usage, p.node, last)]

LEMMA PopNameListTo ==
  ASSUME NEW p \in Programs, NEW path
  PROVE  PopNameList(p, path) = Less(p, LastNode(p, path))
  <1> DEFINE ends == {n \in 1..Len(path) : p.usage[SubSeq(path, 1, n)] <= 1}
             depth == IF ends = {} THEN Len(path) ELSE CHOOSE n \in ends : \A m \in ends : n <= m
             last == SubSeq(path, 1, depth)
             emptied(n) == p.usage[last] = 1 /\ IsPrefix(last, n)
             U == [n \in TreeNode |-> CASE emptied(n) -> 0
                                        [] ~emptied(n) /\ IsPrefix(n, last) /\ p.usage[n] > 0 -> p.usage[n] - 1
                                        [] OTHER -> p.usage[n]]
             N == [n \in TreeNode |-> IF emptied(n) THEN NoEntity ELSE p.node[n]]
  <1>1. PopNameList(p, path) = [p EXCEPT !.usage = U, !.node = N]
    BY DEF PopNameList
  <1> HIDE DEF last
  <1>2. U = UsageLess(p.usage, last)
    BY DEF UsageLess, Emptied
  <1>3. N = NodeLess(p.usage, p.node, last)
    BY DEF NodeLess, Emptied
  <1> HIDE DEF U, N
  <1>4. PopNameList(p, path) = [p EXCEPT !.usage = UsageLess(p.usage, last), !.node = NodeLess(p.usage, p.node, last)]
    BY <1>1, <1>2, <1>3
  <1>5. LastNode(p, path) = last
    BY DEF LastNode, last
  <1> QED BY <1>4, <1>5 DEF Less

LEMMA LessTypes ==
  ASSUME NEW u \in [TreeNode -> Nat], NEW d \in [TreeNode -> PoolEntity \cup {NoEntity}], NEW last
  PROVE  UsageLess(u, last) \in [TreeNode -> Nat] /\ NodeLess(u, d, last) \in [TreeNode -> PoolEntity \cup {NoEntity}]
  <1>1. \A n \in TreeNode : u[n] \in Nat /\ (u[n] > 0 => u[n] - 1 \in Nat)
    OBVIOUS
  <1>2. UsageLess(u, last) \in [TreeNode -> Nat]
    BY <1>1 DEF UsageLess
  <1> QED BY <1>2 DEF NodeLess

LEMMA PopNameListType ==
  ASSUME NEW p \in Programs, NEW path
  PROVE  LET q == PopNameList(p, path)
         IN /\ q \in Programs
            /\ q.stack = p.stack /\ q.current = p.current /\ q.name = p.name /\ q.owner = p.owner
            /\ q.inactive = p.inactive /\ q.again = p.again /\ q.closed = p.closed
  <1> DEFINE last == LastNode(p, path)
  <1>1. PopNameList(p, path) = [p EXCEPT !.usage = UsageLess(p.usage, last), !.node = NodeLess(p.usage, p.node, last)]
    BY PopNameListTo DEF Less
  <1> HIDE DEF last
  <1>2. p.usage \in [TreeNode -> Nat] /\ p.node \in [TreeNode -> PoolEntity \cup {NoEntity}]
    BY DEF Programs
  <1>3. UsageLess(p.usage, last) \in [TreeNode -> Nat] /\ NodeLess(p.usage, p.node, last) \in [TreeNode -> PoolEntity \cup {NoEntity}]
    BY <1>2, LessTypes
  <1> QED BY <1>1, <1>3 DEF Programs

\* The walk ends at the first node that is used once.
LEMMA PopNameListIs ==
  ASSUME NEW p \in Programs, NEW path \in FullName,
         \A n \in TreeNode : IsPrefix(n, path) => p.usage[n] >= 1
  PROVE  \E last \in TreeNode :
            /\ PopNameList(p, path).usage = UsageLess(p.usage, last)
            /\ PopNameList(p, path).node = NodeLess(p.usage, p.node, last)
            /\ IsPrefix(last, path) /\ (p.usage[last] = 1 \/ last = path)
            /\ \A n \in TreeNode : /\ IsPrefix(n, last) => IsPrefix(n, path)
                                   /\ IsPrefix(n, last) /\ n # last => p.usage[n] > 1
  <1> DEFINE ends == {n \in 1..Len(path) : p.usage[SubSeq(path, 1, n)] <= 1}
             depth == IF ends = {} THEN Len(path) ELSE CHOOSE n \in ends : \A m \in ends : n <= m
             last == SubSeq(path, 1, depth)
  <1>1. WholePath(path) /\ path \in TreeNode /\ path \in Seq(PathSymbol)
    BY NodeFacts
  <1>2. Len(path) \in Nat /\ Len(path) >= 1
    BY <1>1, PrefixFacts DEF WholePath
  <1>3. p.usage \in [TreeNode -> Nat]
    BY DEF Programs
  <1>4. \A k \in 1..Len(path) : p.usage[SubSeq(path, 1, k)] \in Nat /\ p.usage[SubSeq(path, 1, k)] >= 1
    <2> TAKE k \in 1..Len(path)
    <2>1. IsPrefix(SubSeq(path, 1, k), path) /\ SubSeq(path, 1, k) \in TreeNode
      BY <1>1, PrefixFacts
    <2> QED BY <1>3, <2>1
  <1>5. /\ depth \in 1..Len(path) /\ (ends = {} => depth = Len(path)) /\ (ends # {} => depth \in ends)
        /\ \A k \in 1..Len(path) : k < depth => k \notin ends
    <2>1. CASE ends = {}
      BY <1>2, <2>1
    <2>2. CASE ends # {}
      <3>1. \E n \in ends : \A m \in ends : n <= m
        <4>1. ends \in SUBSET Nat
          BY <1>2
        <4> HIDE DEF ends
        <4> QED BY <2>2, <4>1, Least
      <3>2. depth \in ends /\ \A m \in ends : depth <= m
        BY <2>2, <3>1
      <3>3. depth \in 1..Len(path)
        BY <3>2
      <3> HIDE DEF ends, depth
      <3> QED BY <2>2, <3>2, <3>3
    <2> QED BY <2>1, <2>2
  <1>6. PopNameList(p, path) = [p EXCEPT !.usage = UsageLess(p.usage, last), !.node = NodeLess(p.usage, p.node, last)]
    <2>1. LastNode(p, path) = last
      BY DEF LastNode
    <2> HIDE DEF last
    <2> QED BY <2>1, PopNameListTo DEF Less
  <1>7. depth \notin ends => p.usage[last] > 1
    <2>1. depth \in 1..Len(path) /\ ~(depth \in ends) => ~(p.usage[SubSeq(path, 1, depth)] <= 1)
      OBVIOUS
    <2> HIDE DEF depth, ends
    <2> QED BY <1>4, <1>5, <2>1
  <1>8. depth \in ends => p.usage[last] = 1
    <2>1. depth \in ends => p.usage[SubSeq(path, 1, depth)] <= 1
      OBVIOUS
    <2> HIDE DEF depth, ends
    <2> QED BY <1>4, <1>5, <2>1
  <1>9. \A k \in 1..Len(path) : k \notin ends => p.usage[SubSeq(path, 1, k)] > 1
    <2>1. \A k \in 1..Len(path) : k \notin ends => ~(p.usage[SubSeq(path, 1, k)] <= 1)
      OBVIOUS
    <2> HIDE DEF ends
    <2> QED BY <1>4, <2>1
  <1> HIDE DEF ends, depth
  <1>10. last \in TreeNode /\ IsPrefix(last, path) /\ Len(last) = depth
    BY <1>1, <1>5, PrefixFacts
  <1>11. p.usage[last] = 1 \/ last = path
    <2>1. ends = {} => last = path
      BY <1>1, <1>5, SubSeqFull
    <2> QED BY <1>5, <1>8, <2>1
  <1>12. ASSUME NEW n \in TreeNode, IsPrefix(n, last)
         PROVE  IsPrefix(n, path) /\ (n # last => p.usage[n] > 1)
    <2>1. IsPrefix(n, path) /\ Len(n) <= depth
      BY <1>1, <1>5, <1>12, PrefixFacts
    <2>2. Len(n) \in 1..Len(path) /\ n = SubSeq(path, 1, Len(n))
      BY <1>1, <2>1, PrefixFacts
    <2>3. n # last => Len(n) # depth
      BY <2>2
    <2>4. n # last => Len(n) < depth
      <3>1. Len(n) \in Int /\ depth \in Int
        BY <1>2, <1>5, <2>2
      <3> HIDE DEF last
      <3> QED BY <2>1, <2>3, <3>1
    <2>5. n # last => Len(n) \notin ends
      BY <1>5, <2>2, <2>4
    <2> QED BY <1>9, <2>1, <2>2, <2>5
  <1>13. PopNameList(p, path).usage = UsageLess(p.usage, last) /\ PopNameList(p, path).node = NodeLess(p.usage, p.node, last)
    <2> HIDE DEF last
    <2> QED BY <1>6 DEF Programs
  <1> QED BY <1>10, <1>11, <1>12, <1>13

Under(name, A, n) == {e \in A : IsPrefix(n, name[e])}
EndsAt(u, path, last) ==
    /\ last \in TreeNode /\ IsPrefix(last, path) /\ (u[last] = 1 \/ last = path)
    /\ \A n \in TreeNode : IsPrefix(n, last) => IsPrefix(n, path) /\ (n # last => u[n] > 1)

\* The node of a full name in use has the entity of that name, and the names
\* of the entities in A use the nodes they lead through.
TreeCore(u, d, name, A) ==
    /\ \A n \in TreeNode : /\ d[n] # NoEntity <=> n \in FullName /\ u[n] > 0
                           /\ d[n] # NoEntity => name[d[n]] = n
    /\ \A e \in A : name[e] \in FullName /\ d[name[e]] = e
    /\ \A n \in TreeNode : u[n] >= Cardinality(Under(name, A, n))

\* The same with one more use of a path, whose node may be new.
TreeWith(u, d, name, A, path) ==
    /\ path \in FullName
    /\ \A n \in TreeNode : /\ n # path => (d[n] # NoEntity <=> n \in FullName /\ u[n] > 0)
                           /\ d[n] # NoEntity => name[d[n]] = n
    /\ u[path] > 1 => d[path] # NoEntity
    /\ \A e \in A : name[e] \in FullName /\ d[name[e]] = e
    /\ \A n \in TreeNode : u[n] >= Cardinality(Under(name, A, n)) + (IF IsPrefix(n, path) THEN 1 ELSE 0)

LEMMA UnderIs ==
  ASSUME NEW name, NEW A \in SUBSET PoolEntity, NEW n
  PROVE  IsFiniteSet(A) /\ IsFiniteSet(Under(name, A, n)) /\ Cardinality(Under(name, A, n)) \in Nat
  <1>1. IsFiniteSet(PoolEntity)
    BY ScopesAssumption, FS_Interval DEF PoolEntity
  <1>2. Under(name, A, n) \in SUBSET PoolEntity
    BY DEF Under
  <1>3. \A X \in SUBSET PoolEntity : IsFiniteSet(X) /\ Cardinality(X) \in Nat
    BY <1>1, FS_Subset, FS_CardinalityType
  <1> QED BY <1>2, <1>3

\* Taking the use of the path back leaves the tree as it should be.
LEMMA UseTakenBack ==
  ASSUME NEW u \in [TreeNode -> Nat], NEW d \in [TreeNode -> PoolEntity \cup {NoEntity}],
         NEW name, NEW A \in SUBSET PoolEntity, NEW path, TreeWith(u, d, name, A, path),
         NEW last, EndsAt(u, path, last)
  PROVE  /\ TreeCore(UsageLess(u, last), NodeLess(u, d, last), name, A)
         /\ u[path] = 1 => NodeLess(u, d, last)[path] = NoEntity
  <1> DEFINE v == UsageLess(u, last)
             c == NodeLess(u, d, last)
             card(n) == Cardinality(Under(name, A, n))
  <1>1. path \in FullName /\ path \in TreeNode /\ WholePath(path) /\ IsPrefix(path, path)
    BY NodeFacts, PrefixFacts DEF TreeWith
  <1>2. last \in TreeNode /\ IsPrefix(last, path) /\ (u[last] = 1 \/ last = path)
    BY DEF EndsAt
  <1>3. \A n \in TreeNode : u[n] \in Nat /\ card(n) \in Nat
    BY UnderIs
  <1>4. \A n \in TreeNode : /\ v[n] = IF Emptied(u, last, n) THEN 0
                                      ELSE IF IsPrefix(n, last) /\ u[n] > 0 THEN u[n] - 1 ELSE u[n]
                            /\ c[n] = IF Emptied(u, last, n) THEN NoEntity ELSE d[n]
    BY DEF UsageLess, NodeLess
  <1> HIDE DEF v, c
  <1>5. u[last] = 1 => Under(name, A, last) = {}
    <2>1. u[last] = 1 => card(last) = 0
      <3>1. u[last] >= card(last) + 1
        BY <1>2 DEF TreeWith
      <3> HIDE DEF card
      <3> QED BY <1>2, <1>3, <3>1
    <2> QED BY <2>1, UnderIs, FS_EmptySet
  <1>6. \A e \in A : name[e] \in FullName /\ ~Emptied(u, last, name[e])
    <2> TAKE e \in A
    <2>1. name[e] \in FullName
      BY DEF TreeWith
    <2>2. Emptied(u, last, name[e]) => e \in Under(name, A, last) /\ u[last] = 1
      BY DEF Emptied, Under
    <2> QED BY <1>5, <2>1, <2>2
  <1>7. ASSUME NEW n \in TreeNode
        PROVE  v[n] >= card(n)
    <2>1. CASE Emptied(u, last, n)
      <3>1. Under(name, A, n) = {}
        <4> SUFFICES ASSUME NEW e \in Under(name, A, n) PROVE FALSE
          OBVIOUS
        <4>1. e \in A /\ IsPrefix(n, name[e]) /\ IsPrefix(last, n) /\ u[last] = 1 /\ name[e] \in FullName
          BY <1>6, <2>1 DEF Under, Emptied
        <4>2. IsPrefix(last, name[e])
          BY <1>2, <4>1, PrefixTransitive
        <4> QED BY <1>6, <4>1, <4>2 DEF Emptied
      <3>2. card(n) = 0
        BY <3>1, FS_EmptySet
      <3> HIDE DEF card
      <3> QED BY <1>4, <2>1, <3>2
    <2>2. CASE ~Emptied(u, last, n) /\ IsPrefix(n, last) /\ u[n] > 0
      <3>1. IsPrefix(n, path)
        BY <2>2 DEF EndsAt
      <3>2. u[n] >= card(n) + 1
        BY <3>1 DEF TreeWith
      <3> HIDE DEF card
      <3> QED BY <1>3, <1>4, <2>2, <3>2
    <2>3. CASE ~Emptied(u, last, n) /\ ~(IsPrefix(n, last) /\ u[n] > 0)
      <3>1. u[n] >= card(n) + (IF IsPrefix(n, path) THEN 1 ELSE 0)
        BY DEF TreeWith
      <3>2. v[n] = u[n]
        BY <1>4, <2>3
      <3> HIDE DEF card
      <3> QED BY <1>3, <3>1, <3>2
    <2> QED BY <2>1, <2>2, <2>3
  <1>8. u[path] >= 1
    <2>1. u[path] >= card(path) + 1
      BY <1>1 DEF TreeWith
    <2> HIDE DEF card
    <2> QED BY <1>1, <1>3, <2>1
  <1>9. path # last => u[last] = 1 /\ Emptied(u, last, path)
    BY <1>2 DEF Emptied
  <1>10. path = last => (Emptied(u, last, path) <=> u[path] = 1)
    BY <1>1 DEF Emptied
  <1>11. /\ c[path] # NoEntity <=> v[path] > 0
         /\ u[path] = 1 => c[path] = NoEntity
    <2>1. CASE Emptied(u, last, path)
      BY <1>1, <1>4, <2>1
    <2>2. CASE ~Emptied(u, last, path)
      <3>1. path = last /\ u[path] > 1
        BY <1>1, <1>3, <1>8, <1>9, <1>10, <2>2
      <3>2. v[path] = u[path] - 1 /\ c[path] = d[path]
        BY <1>1, <1>3, <1>4, <2>2, <3>1
      <3>3. d[path] # NoEntity
        BY <3>1 DEF TreeWith
      <3> QED BY <1>1, <1>3, <3>1, <3>2, <3>3
    <2> QED BY <2>1, <2>2
  <1>12. ASSUME NEW n \in TreeNode
         PROVE  (c[n] # NoEntity <=> n \in FullName /\ v[n] > 0) /\ (c[n] # NoEntity => name[c[n]] = n)
    <2>1. c[n] # NoEntity => name[c[n]] = n
      <3>1. d[n] # NoEntity => name[d[n]] = n
        BY DEF TreeWith
      <3> QED BY <1>4, <3>1
    <2>2. n # path => (d[n] # NoEntity <=> n \in FullName /\ u[n] > 0)
      BY DEF TreeWith
    <2>3. CASE n = path
      BY <1>1, <1>11, <2>1, <2>3
    <2>4. CASE n # path /\ Emptied(u, last, n)
      BY <1>4, <2>1, <2>4
    <2>5. CASE n # path /\ ~Emptied(u, last, n) /\ n \in FullName
      <3>1. ~IsPrefix(n, last)
        <4>1. IsPrefix(n, last) => IsPrefix(n, path)
          BY DEF EndsAt
        <4> QED BY <1>1, <2>5, <4>1, PrefixFacts
      <3> QED BY <1>4, <2>1, <2>2, <2>5, <3>1
    <2>6. CASE n # path /\ ~Emptied(u, last, n) /\ n \notin FullName
      BY <1>4, <2>1, <2>2, <2>6
    <2> QED BY <2>3, <2>4, <2>5, <2>6
  <1>13. \A e \in A : name[e] \in FullName /\ c[name[e]] = e
    <2> TAKE e \in A
    <2>1. name[e] \in FullName /\ name[e] \in TreeNode /\ d[name[e]] = e
      BY NodeFacts DEF TreeWith
    <2> QED BY <1>4, <1>6, <2>1
  <1>14. TreeCore(v, c, name, A)
    BY <1>7, <1>12, <1>13 DEF TreeCore
  <1> QED BY <1>11, <1>14 DEF v, c

\* What pop_name_list does to a program.
LEMMA PopNameListKeeps ==
  ASSUME NEW p \in Programs, NEW A \in SUBSET PoolEntity, NEW path, TreeWith(p.usage, p.node, p.name, A, path)
  PROVE  LET q == PopNameList(p, path)
         IN TreeCore(q.usage, q.node, p.name, A) /\ (p.usage[path] = 1 => q.node[path] = NoEntity)
  <1>1. path \in FullName /\ p.usage \in [TreeNode -> Nat] /\ p.node \in [TreeNode -> PoolEntity \cup {NoEntity}]
    BY DEF TreeWith, Programs
  <1>2. \A n \in TreeNode : IsPrefix(n, path) => p.usage[n] >= 1
    <2> TAKE n \in TreeNode
    <2>1. p.usage[n] >= Cardinality(Under(p.name, A, n)) + (IF IsPrefix(n, path) THEN 1 ELSE 0)
      BY DEF TreeWith
    <2>2. p.usage[n] \in Nat /\ Cardinality(Under(p.name, A, n)) \in Nat
      BY <1>1, UnderIs
    <2> QED BY <2>1, <2>2
  <1>3. PICK last \in TreeNode :
            /\ PopNameList(p, path).usage = UsageLess(p.usage, last)
            /\ PopNameList(p, path).node = NodeLess(p.usage, p.node, last)
            /\ IsPrefix(last, path) /\ (p.usage[last] = 1 \/ last = path)
            /\ \A n \in TreeNode : /\ IsPrefix(n, last) => IsPrefix(n, path)
                                   /\ IsPrefix(n, last) /\ n # last => p.usage[n] > 1
    BY <1>1, <1>2, PopNameListIs
  <1>4. EndsAt(p.usage, path, last)
    BY <1>3 DEF EndsAt
  <1> QED BY <1>1, <1>3, <1>4, UseTakenBack

UsageMore(u, path) == [n \in TreeNode |-> IF IsPrefix(n, path) THEN u[n] + 1 ELSE u[n]]

LEMMA UseMore ==
  ASSUME NEW u \in [TreeNode -> Nat], NEW d \in [TreeNode -> PoolEntity \cup {NoEntity}],
         NEW name, NEW A \in SUBSET PoolEntity, TreeCore(u, d, name, A), NEW path \in FullName
  PROVE  /\ UsageMore(u, path) \in [TreeNode -> Nat]
         /\ TreeWith(UsageMore(u, path), d, name, A, path)
         /\ d[path] # NoEntity => TreeCore(UsageMore(u, path), d, name, A)
         /\ d[path] = NoEntity => UsageMore(u, path)[path] = 1
         /\ \A n \in TreeNode : UsageMore(u, path)[n] = u[n] + (IF IsPrefix(n, path) THEN 1 ELSE 0)
  <1> DEFINE v == UsageMore(u, path)
             card(n) == Cardinality(Under(name, A, n))
  <1>1. path \in TreeNode /\ WholePath(path) /\ IsPrefix(path, path)
    BY NodeFacts, PrefixFacts
  <1>2. \A n \in TreeNode : u[n] \in Nat /\ card(n) \in Nat /\ u[n] >= card(n)
    BY UnderIs DEF TreeCore
  <1>3. v \in [TreeNode -> Nat] /\ \A n \in TreeNode : v[n] = u[n] + (IF IsPrefix(n, path) THEN 1 ELSE 0)
    BY <1>2 DEF UsageMore
  <1> HIDE DEF v, card
  <1>4. \A n \in TreeNode : (d[n] # NoEntity <=> n \in FullName /\ u[n] > 0) /\ (d[n] # NoEntity => name[d[n]] = n)
    BY DEF TreeCore
  <1>5. \A e \in A : name[e] \in FullName /\ d[name[e]] = e
    BY DEF TreeCore
  <1>6. v[path] = u[path] + 1 /\ (d[path] # NoEntity <=> u[path] > 0) /\ u[path] \in Nat
    BY <1>1, <1>2, <1>3, <1>4
  <1>7. \A n \in TreeNode : n # path => (d[n] # NoEntity <=> n \in FullName /\ v[n] > 0)
    <2> TAKE n \in TreeNode
    <2>1. n \in FullName /\ IsPrefix(n, path) => n = path
      BY <1>1, PrefixFacts
    <2>2. ~IsPrefix(n, path) => v[n] = u[n]
      BY <1>2, <1>3
    <2> QED BY <1>4, <2>1, <2>2
  <1>8. TreeWith(v, d, name, A, path)
    <2>1. \A n \in TreeNode : v[n] >= card(n) + (IF IsPrefix(n, path) THEN 1 ELSE 0)
      BY <1>2, <1>3
    <2>2. v[path] > 1 => d[path] # NoEntity
      BY <1>6
    <2> QED BY <1>4, <1>5, <1>7, <2>1, <2>2 DEF TreeWith, card
  <1>9. ASSUME d[path] # NoEntity
        PROVE  TreeCore(v, d, name, A)
    <2>1. \A n \in TreeNode : v[n] >= card(n)
      BY <1>2, <1>3
    <2>2. v[path] > 0
      BY <1>6
    <2>3. \A n \in TreeNode : d[n] # NoEntity <=> n \in FullName /\ v[n] > 0
      BY <1>7, <1>9, <2>2
    <2> QED BY <1>4, <1>5, <2>1, <2>3 DEF TreeCore, card
  <1>10. d[path] = NoEntity => v[path] = 1
    BY <1>6
  <1> QED BY <1>3, <1>8, <1>9, <1>10 DEF v

\* A new entity gets a new node, or takes the use of the path back.
LEMMA EntityIsNew ==
  ASSUME NEW u \in [TreeNode -> Nat], NEW d \in [TreeNode -> PoolEntity \cup {NoEntity}],
         NEW name \in [PoolEntity -> FullName \cup {NoName}], NEW A \in SUBSET PoolEntity,
         TreeCore(u, d, name, A), NEW path \in FullName, d[path] = NoEntity,
         NEW new \in PoolEntity, name[new] = NoName
  PROVE  /\ TreeCore(UsageMore(u, path), [d EXCEPT ![path] = new], [name EXCEPT ![new] = path], A \cup {new})
         /\ TreeWith(UsageMore(u, path), [d EXCEPT ![path] = new], [name EXCEPT ![new] = path], A, path)
  <1> DEFINE v == UsageMore(u, path)
             c == [d EXCEPT ![path] = new]
             names == [name EXCEPT ![new] = path]
             B == A \cup {new}
  <1>1. path \in TreeNode /\ WholePath(path) /\ IsPrefix(path, path) /\ NoName \notin FullName
    <2>1. Len(NoName) = 0 /\ ~(0 >= 1)
      BY DEF NoName
    <2>2. NoName \notin FullName
      BY <2>1, NodeFacts DEF FullName
    <2> QED BY <2>2, NodeFacts, PrefixFacts
  <1>2. /\ v \in [TreeNode -> Nat] /\ TreeWith(v, d, name, A, path) /\ v[path] = 1
        /\ \A n \in TreeNode : v[n] = u[n] + (IF IsPrefix(n, path) THEN 1 ELSE 0)
    BY UseMore
  <1>3. new # NoEntity
    BY DEF PoolEntity, NoEntity
  <1>4. \A e \in A : name[e] \in FullName /\ d[name[e]] = e /\ e # new /\ name[e] # path
    <2> TAKE e \in A
    <2>1. name[e] \in FullName /\ d[name[e]] = e
      BY DEF TreeCore
    <2>2. e # NoEntity
      BY DEF PoolEntity, NoEntity
    <2> QED BY <1>1, <2>1, <2>2
  <1>5. c[path] = new /\ \A n \in TreeNode : n # path => c[n] = d[n]
    BY <1>1
  <1>6. names[new] = path /\ \A e \in PoolEntity : e # new => names[e] = name[e]
    OBVIOUS
  <1> HIDE DEF c, names, v
  <1>7. \A n \in TreeNode : Under(names, A, n) = Under(name, A, n)
    <2>1. \A e \in A : names[e] = name[e]
      BY <1>4, <1>6
    <2> QED BY <2>1 DEF Under
  <1>8. \A n \in TreeNode : n # path => (d[n] # NoEntity <=> n \in FullName /\ v[n] > 0)
    BY <1>2 DEF TreeWith
  <1>9. \A n \in TreeNode : (c[n] # NoEntity <=> n \in FullName /\ v[n] > 0)
    <2>1. v[path] > 0
      BY <1>2
    <2> QED BY <1>3, <1>5, <1>8, <2>1
  <1>10. \A n \in TreeNode : c[n] # NoEntity => names[c[n]] = n
    <2> SUFFICES ASSUME NEW n \in TreeNode, c[n] # NoEntity, n # path
                 PROVE  names[c[n]] = n
      BY <1>5, <1>6
    <2>1. c[n] = d[n] /\ d[n] \in PoolEntity /\ name[d[n]] = n /\ n \in FullName
      BY <1>5 DEF TreeCore
    <2>2. d[n] # new
      BY <1>1, <2>1
    <2> QED BY <1>6, <2>1, <2>2
  <1>11. \A e \in B : names[e] \in FullName /\ c[names[e]] = e
    <2> TAKE e \in B
    <2>1. CASE e = new
      BY <1>5, <1>6, <2>1
    <2>2. CASE e \in A
      <3>1. e # new /\ name[e] \in TreeNode
        BY <1>4, <2>2, NodeFacts
      <3> QED BY <1>4, <1>5, <1>6, <2>2, <3>1
    <2> QED BY <2>1, <2>2
  <1>12. \A n \in TreeNode : /\ v[n] >= Cardinality(Under(names, B, n))
                             /\ v[n] >= Cardinality(Under(names, A, n)) + (IF IsPrefix(n, path) THEN 1 ELSE 0)
    <2> TAKE n \in TreeNode
    <2>1. u[n] \in Nat /\ u[n] >= Cardinality(Under(name, A, n)) /\ Cardinality(Under(name, A, n)) \in Nat
      BY UnderIs DEF TreeCore
    <2>2. v[n] = u[n] + (IF IsPrefix(n, path) THEN 1 ELSE 0)
      BY <1>2
    <2>3. Cardinality(Under(names, A, n)) = Cardinality(Under(name, A, n))
      BY <1>7
    <2>4. v[n] >= Cardinality(Under(names, A, n)) + (IF IsPrefix(n, path) THEN 1 ELSE 0)
      BY <2>1, <2>2, <2>3
    <2>5. CASE IsPrefix(n, path)
      <3>1. Under(names, B, n) = Under(names, A, n) \cup {new} /\ new \notin Under(names, A, n)
        BY <1>4, <1>6, <2>5 DEF Under
      <3>2. Cardinality(Under(names, B, n)) = Cardinality(Under(names, A, n)) + 1
        BY <3>1, UnderIs, FS_AddElement
      <3> QED BY <2>4, <2>5, <3>2
    <2>6. CASE ~IsPrefix(n, path)
      <3>1. Under(names, B, n) = Under(names, A, n)
        BY <1>6, <2>6 DEF Under
      <3> QED BY <2>1, <2>2, <2>3, <2>4, <2>6, <3>1
    <2> QED BY <2>4, <2>5, <2>6
  <1>13. TreeCore(v, c, names, B)
    BY <1>9, <1>10, <1>11, <1>12 DEF TreeCore
  <1>14. TreeWith(v, c, names, A, path)
    <2>1. c[path] # NoEntity /\ \A e \in A : e \in B
      BY <1>3, <1>5
    <2> QED BY <1>9, <1>10, <1>11, <1>12, <2>1 DEF TreeWith
  <1> QED BY <1>13, <1>14 DEF v, c, names

-----------------------------------------------------------------------------
(* The owners of an entity, and the objects of the levels.                  *)

\* The owners of an entity are its declarations in the levels L, from inside out.
OwnersIn(s, L) ==
    /\ s \in Seq(Owner) /\ L \in SUBSET Nat
    /\ \A i, j \in 1..Len(s) : i < j => s[i].level > s[j].level
    /\ \A l \in Nat : l \in L <=> \E i \in 1..Len(s) : s[i].level = l

LEMMA OwnersTyped ==
  ASSUME NEW s, NEW L, OwnersIn(s, L)
  PROVE  s \in Seq(Owner) /\ L \in SUBSET Nat /\ Len(s) \in Nat /\ \A i \in 1..Len(s) : s[i] \in Owner /\ s[i].level \in Nat
  <1>1. s \in Seq(Owner) /\ L \in SUBSET Nat
    BY DEF OwnersIn
  <1>2. \A i \in 1..Len(s) : s[i] \in Owner
    BY <1>1, ElementOfSeq
  <1>3. \A o \in Owner : o.level \in Nat
    BY DEF Owner
  <1> QED BY <1>1, <1>2, <1>3, LenProperties

LEMMA OwnersFacts ==
  ASSUME NEW s, NEW L, OwnersIn(s, L)
  PROVE  /\ s = <<>> <=> L = {}
         /\ s # <<>> => /\ Head(s) = s[1] /\ s[1] \in Owner /\ s[1].level \in L /\ \A l \in L : l <= s[1].level
                        /\ OwnersIn(Tail(s), L \ {s[1].level})
  <1>1. s \in Seq(Owner) /\ L \in SUBSET Nat /\ Len(s) \in Nat /\ \A i \in 1..Len(s) : s[i] \in Owner /\ s[i].level \in Nat
    BY OwnersTyped
  <1>2. /\ \A i, j \in 1..Len(s) : i < j => s[i].level > s[j].level
        /\ \A l \in Nat : l \in L <=> \E i \in 1..Len(s) : s[i].level = l
    BY DEF OwnersIn
  <1>3. s = <<>> <=> L = {}
    <2>1. s = <<>> <=> 1..Len(s) = {}
      BY <1>1, EmptySeq
    <2>2. \A l \in L : l \in Nat
      BY <1>1
    <2> QED BY <1>1, <1>2, <2>1, <2>2
  <1>4. ASSUME s # <<>>
        PROVE  /\ Head(s) = s[1] /\ s[1] \in Owner /\ s[1].level \in L /\ \A l \in L : l <= s[1].level
               /\ OwnersIn(Tail(s), L \ {s[1].level})
    <2>1. 1 \in 1..Len(s) /\ Head(s) = s[1]
      BY <1>1, <1>4, EmptySeq
    <2>2. s[1] \in Owner /\ s[1].level \in L /\ s[1].level \in Nat
      BY <1>1, <1>2, <2>1
    <2>3. \A l \in L : l <= s[1].level
      <3> TAKE l \in L
      <3>1. l \in Nat /\ \E i \in 1..Len(s) : s[i].level = l
        BY <1>1, <1>2
      <3>2. PICK i \in 1..Len(s) : s[i].level = l
        BY <3>1
      <3>3. i = 1 \/ 1 < i
        BY <1>1
      <3> QED BY <1>2, <2>1, <2>2, <3>1, <3>2, <3>3
    <2> DEFINE t == Tail(s)
    <2>4. t \in Seq(Owner) /\ Len(t) = Len(s) - 1 /\ \A i \in 1..Len(t) : t[i] = s[i + 1] /\ i + 1 \in 1..Len(s)
      BY <1>1, <1>4, HeadTailProperties
    <2> HIDE DEF t
    <2>5. \A i, j \in 1..Len(t) : i < j => t[i].level > t[j].level
      <3> TAKE i, j \in 1..Len(t)
      <3>1. i < j => i + 1 < j + 1
        BY <1>1, <2>4
      <3> QED BY <1>2, <2>4, <3>1
    <2>6. \A l \in Nat : l \in L \ {s[1].level} <=> \E i \in 1..Len(t) : t[i].level = l
      <3> TAKE l \in Nat
      <3>1. ASSUME NEW i \in 1..Len(t), t[i].level = l
            PROVE  l \in L \ {s[1].level}
        <4>1. i + 1 \in 1..Len(s) /\ t[i] = s[i + 1] /\ 1 < i + 1
          BY <1>1, <2>4
        <4>2. s[1].level > s[i + 1].level
          BY <1>2, <2>1, <4>1
        <4> QED BY <1>2, <2>2, <3>1, <4>1, <4>2
      <3>2. ASSUME l \in L, l # s[1].level
            PROVE  \E i \in 1..Len(t) : t[i].level = l
        <4>1. PICK j \in 1..Len(s) : s[j].level = l
          BY <1>2, <3>2
        <4>2. j - 1 \in 1..Len(t) /\ (j - 1) + 1 = j
          BY <1>1, <2>4, <3>2, <4>1
        <4> QED BY <2>4, <4>1, <4>2
      <3> QED BY <3>1, <3>2
    <2>7. OwnersIn(t, L \ {s[1].level})
      BY <1>1, <2>4, <2>5, <2>6 DEF OwnersIn
    <2> QED BY <2>1, <2>2, <2>3, <2>7 DEF t
  <1> QED BY <1>3, <1>4

LEMMA OwnersCons ==
  ASSUME NEW s, NEW L, OwnersIn(s, L), NEW o \in Owner, \A l \in L : l < o.level
  PROVE  OwnersIn(Cons(o, s), L \cup {o.level})
  <1>1. s \in Seq(Owner) /\ L \in SUBSET Nat /\ Len(s) \in Nat /\ \A i \in 1..Len(s) : s[i] \in Owner /\ s[i].level \in Nat
    BY OwnersTyped
  <1>2. /\ \A i, j \in 1..Len(s) : i < j => s[i].level > s[j].level
        /\ \A l \in Nat : l \in L <=> \E i \in 1..Len(s) : s[i].level = l
    BY DEF OwnersIn
  <1>3. o.level \in Nat
    BY DEF Owner
  <1> DEFINE t == Cons(o, s)
  <1>4. t \in Seq(Owner) /\ Len(t) = Len(s) + 1 /\ t[1] = o /\ \A i \in 1..Len(s) : t[i + 1] = s[i]
    <2>1. <<o>> \in Seq(Owner) /\ Len(<<o>>) = 1 /\ <<o>>[1] = o
      OBVIOUS
    <2>2. t = <<o>> \o s
      BY DEF Cons
    <2>3. /\ t \in Seq(Owner) /\ Len(t) = 1 + Len(s)
          /\ \A i \in 1..1 + Len(s) : t[i] = IF i <= 1 THEN <<o>>[i] ELSE s[i - 1]
      BY <1>1, <2>1, <2>2, ConcatProperties
    <2> HIDE DEF t
    <2>4. \A i \in 1..Len(s) : i + 1 \in 1..1 + Len(s) /\ ~(i + 1 <= 1) /\ (i + 1) - 1 = i
      BY <1>1
    <2> QED BY <1>1, <2>1, <2>3, <2>4
  <1> HIDE DEF t
  <1>5. \A i \in 1..Len(t) : i = 1 \/ (i - 1 \in 1..Len(s) /\ t[i] = s[i - 1] /\ t[i].level \in L)
    <2> TAKE i \in 1..Len(t)
    <2>1. i # 1 => i - 1 \in 1..Len(s) /\ (i - 1) + 1 = i
      BY <1>1, <1>4
    <2> QED BY <1>1, <1>2, <1>4, <2>1
  <1>6. \A i, j \in 1..Len(t) : i < j => t[i].level > t[j].level
    <2> TAKE i, j \in 1..Len(t)
    <2>1. ASSUME i < j
          PROVE  t[i].level > t[j].level
      <3>1. j # 1 /\ j - 1 \in 1..Len(s) /\ t[j] = s[j - 1] /\ t[j].level \in L
        BY <1>1, <1>4, <1>5, <2>1
      <3>2. CASE i = 1
        <4>1. t[j].level < o.level /\ t[j].level \in Nat
          BY <1>1, <3>1
        <4> QED BY <1>3, <1>4, <3>2, <4>1
      <3>3. CASE i # 1
        <4>1. i - 1 \in 1..Len(s) /\ t[i] = s[i - 1] /\ i - 1 < j - 1
          BY <1>1, <1>4, <1>5, <2>1, <3>3
        <4> QED BY <1>2, <3>1, <4>1
      <3> QED BY <3>2, <3>3
    <2> QED BY <2>1
  <1>7. \A l \in Nat : l \in L \cup {o.level} <=> \E i \in 1..Len(t) : t[i].level = l
    <2> TAKE l \in Nat
    <2>1. ASSUME l \in L
          PROVE  \E i \in 1..Len(t) : t[i].level = l
      <3>1. PICK i \in 1..Len(s) : s[i].level = l
        BY <1>2, <2>1
      <3>2. i + 1 \in 1..Len(t) /\ t[i + 1] = s[i]
        BY <1>1, <1>4
      <3> QED BY <3>1, <3>2
    <2>2. 1 \in 1..Len(t)
      BY <1>1, <1>4
    <2> QED BY <1>4, <1>5, <2>1, <2>2
  <1> QED BY <1>1, <1>3, <1>4, <1>6, <1>7 DEF OwnersIn, t

LEMMA OwnersForward ==
  ASSUME NEW s, NEW L, OwnersIn(s, L), s # <<>>, NEW f \in BOOLEAN
  PROVE  OwnersIn([s EXCEPT ![1].forward = f], L)
  <1>1. s \in Seq(Owner) /\ L \in SUBSET Nat /\ Len(s) \in Nat /\ \A i \in 1..Len(s) : s[i] \in Owner /\ s[i].level \in Nat
    BY OwnersTyped
  <1>2. 1 \in 1..Len(s) /\ s[1] \in Owner
    BY <1>1, EmptySeq
  <1> DEFINE t == [s EXCEPT ![1].forward = f]
             o == [s[1] EXCEPT !.forward = f]
  <1>3. o \in Owner /\ o.level = s[1].level
    BY <1>2 DEF Owner
  <1>4. t = [s EXCEPT ![1] = o]
    OBVIOUS
  <1> HIDE DEF o, t
  <1>5. t \in Seq(Owner) /\ Len(t) = Len(s) /\ \A i \in 1..Len(s) : t[i] = IF i = 1 THEN o ELSE s[i]
    BY <1>1, <1>2, <1>3, <1>4, ExceptSeq
  <1>6. \A i \in 1..Len(s) : t[i].level = s[i].level
    BY <1>3, <1>5
  <1> QED BY <1>1, <1>5, <1>6 DEF OwnersIn, t

Item == ScopeEntity \cup {NoEntity}
Distinct(s) == \A i, j \in 1..Len(s) : s[i] = s[j] /\ s[i] # NoEntity => i = j
Stacks(stack) == stack \in Seq(Seq(Item)) /\ \A l \in 1..Len(stack) : Distinct(stack[l])

\* The levels that have an object of the entity.
Held(stack, e) == {l \in 1..Len(stack) : e \in Range(stack[l])}

LEMMA StackTyped ==
  ASSUME NEW stack, Stacks(stack)
  PROVE  /\ Len(stack) \in Nat
         /\ \A l \in 1..Len(stack) : stack[l] \in Seq(Item) /\ Distinct(stack[l])
         /\ NoEntity \notin PoolEntity /\ NoEntity \notin ScopeEntity /\ \A e : Held(stack, e) \in SUBSET Nat
  <1>1. NoEntity \notin PoolEntity /\ NoEntity \notin Identifier
    BY ScopesAssumption DEF NoEntity, PoolEntity
  <1>2. stack \in Seq(Seq(Item)) /\ Len(stack) \in Nat
    BY LenProperties DEF Stacks
  <1>3. \A l \in 1..Len(stack) : stack[l] \in Seq(Item)
    BY <1>2, ElementOfSeq
  <1> QED BY <1>1, <1>2, <1>3 DEF Stacks, ScopeEntity, Held

LEMMA RangeIs ==
  ASSUME NEW S, NEW s \in Seq(S)
  PROVE  /\ Len(s) \in Nat /\ Range(s) \subseteq S
         /\ \A i \in 1..Len(s) : s[i] \in S /\ s[i] \in Range(s)
         /\ \A x \in Range(s) : \E i \in 1..Len(s) : s[i] = x
  BY LenProperties, ElementOfSeq DEF Range

LevelWith(stack, l, s) == [stack EXCEPT ![l] = s]
LevelIs(q, stack, l, s) ==
    /\ Stacks(q) /\ Len(q) = Len(stack) /\ q[l] = s /\ \A k \in 1..Len(stack) : k # l => q[k] = stack[k]
    /\ \A e : Held(q, e) = IF e \in Range(s) THEN Held(stack, e) \cup {l} ELSE Held(stack, e) \ {l}

\* One level gets other objects.
LEMMA LevelSet ==
  ASSUME NEW stack, Stacks(stack), NEW l \in 1..Len(stack), NEW s \in Seq(Item), Distinct(s)
  PROVE  LevelIs(LevelWith(stack, l, s), stack, l, s)
  <1> DEFINE q == LevelWith(stack, l, s)
  <1>1. stack \in Seq(Seq(Item)) /\ Len(stack) \in Nat
    BY LenProperties DEF Stacks
  <1>2. q \in Seq(Seq(Item)) /\ Len(q) = Len(stack) /\ \A k \in 1..Len(stack) : q[k] = IF k = l THEN s ELSE stack[k]
    BY <1>1, ExceptSeq DEF LevelWith
  <1> HIDE DEF q
  <1>3. Stacks(q)
    BY <1>2 DEF Stacks
  <1>4. \A e : Held(q, e) = IF e \in Range(s) THEN Held(stack, e) \cup {l} ELSE Held(stack, e) \ {l}
    BY <1>2 DEF Held
  <1> QED BY <1>2, <1>3, <1>4 DEF LevelIs, q

LEMMA LevelGrown ==
  ASSUME NEW stack, Stacks(stack)
  PROVE  LET q == Append(stack, <<>>)
         IN /\ Stacks(q) /\ Len(q) = Len(stack) + 1 /\ q[Len(q)] = <<>>
            /\ \A e : Held(q, e) = Held(stack, e)
  <1> DEFINE q == Append(stack, <<>>)
  <1>1. stack \in Seq(Seq(Item)) /\ Len(stack) \in Nat
    BY LenProperties DEF Stacks
  <1>2. <<>> \in Seq(Item) /\ Distinct(<<>>) /\ Range(<<>>) = {}
    BY DEF Distinct, Range
  <1>3. q \in Seq(Seq(Item)) /\ Len(q) = Len(stack) + 1 /\ q[Len(stack) + 1] = <<>> /\ \A k \in 1..Len(stack) : q[k] = stack[k]
    BY <1>1, <1>2, AppendProperties
  <1>4. \A k \in 1..Len(stack) + 1 : k \in 1..Len(stack) \/ k = Len(stack) + 1
    BY <1>1
  <1> HIDE DEF q
  <1>5. Stacks(q)
    BY <1>2, <1>3, <1>4 DEF Stacks
  <1>6. \A e : Held(q, e) = Held(stack, e)
    <2>1. 1..Len(stack) \subseteq 1..Len(stack) + 1
      BY <1>1
    <2> QED BY <1>2, <1>3, <1>4, <2>1 DEF Held
  <1> QED BY <1>3, <1>5, <1>6 DEF q

LEMMA LevelShrunk ==
  ASSUME NEW stack, Stacks(stack), Len(stack) >= 1
  PROVE  LET q == Front(stack)
         IN /\ Stacks(q) /\ Len(q) = Len(stack) - 1 /\ \A k \in 1..Len(q) : q[k] = stack[k]
            /\ \A e : Held(q, e) = Held(stack, e) \ {Len(stack)}
  <1> DEFINE q == Front(stack)
  <1>1. stack \in Seq(Seq(Item)) /\ Len(stack) \in Nat /\ Len(stack) - 1 \in Nat
    BY LenProperties DEF Stacks
  <1>2. \A k \in 1..Len(stack) - 1 : stack[k] \in Seq(Item)
    BY <1>1
  <1>3. q \in Seq(Seq(Item)) /\ Len(q) = Len(stack) - 1 /\ \A k \in 1..Len(stack) - 1 : q[k] = stack[k]
    <2>1. /\ SubSeq(stack, 1, Len(stack) - 1) \in Seq(Seq(Item))
          /\ Len(SubSeq(stack, 1, Len(stack) - 1)) = IF 1 <= Len(stack) - 1 THEN (Len(stack) - 1) - 1 + 1 ELSE 0
          /\ \A i \in 1..(Len(stack) - 1) - 1 + 1 : SubSeq(stack, 1, Len(stack) - 1)[i] = stack[1 + i - 1]
      BY <1>1, <1>2, SubSeqProperties
    <2>2. (Len(stack) - 1) - 1 + 1 = Len(stack) - 1 /\ \A i \in 1..Len(stack) - 1 : 1 + i - 1 = i
      BY <1>1
    <2>3. Len(SubSeq(stack, 1, Len(stack) - 1)) = Len(stack) - 1
      <3> DEFINE m == Len(SubSeq(stack, 1, Len(stack) - 1))
                 n == Len(stack)
      <3>1. n \in Nat /\ n >= 1 /\ m = IF 1 <= n - 1 THEN (n - 1) - 1 + 1 ELSE 0
        BY <1>1, <2>1
      <3> HIDE DEF m, n
      <3>2. m = n - 1
        BY <3>1
      <3> QED BY <3>2 DEF m, n
    <2> QED BY <2>1, <2>2, <2>3 DEF Front
  <1>4. \A k \in 1..Len(stack) : k \in 1..Len(stack) - 1 \/ k = Len(stack)
    BY <1>1
  <1>5. \A k \in 1..Len(stack) - 1 : k \in 1..Len(stack) /\ k # Len(stack)
    BY <1>1
  <1> HIDE DEF q
  <1>6. Stacks(q)
    BY <1>3, <1>5 DEF Stacks
  <1>7. \A e : Held(q, e) = Held(stack, e) \ {Len(stack)}
    BY <1>3, <1>4, <1>5 DEF Held
  <1> QED BY <1>3, <1>6, <1>7 DEF q

\* A new object of a level.
LEMMA ObjectAdded ==
  ASSUME NEW s \in Seq(Item), Distinct(s), NEW e \in ScopeEntity, e \notin Range(s)
  PROVE  LET t == Append(s, e)
         IN t \in Seq(Item) /\ Distinct(t) /\ Range(t) = Range(s) \cup {e}
  <1> DEFINE t == Append(s, e)
  <1>1. e \in Item /\ Len(s) \in Nat
    BY RangeIs DEF Item
  <1>2. t \in Seq(Item) /\ Len(t) = Len(s) + 1 /\ t[Len(s) + 1] = e /\ \A k \in 1..Len(s) : t[k] = s[k]
    BY <1>1, AppendProperties
  <1> HIDE DEF t
  <1>3. \A k \in 1..Len(s) + 1 : k \in 1..Len(s) \/ k = Len(s) + 1
    BY <1>1
  <1>4. \A k \in 1..Len(s) : s[k] \in Range(s) /\ k \in 1..Len(s) + 1
    BY <1>1, RangeIs
  <1>5. Distinct(t)
    BY <1>2, <1>3, <1>4 DEF Distinct
  <1>6. Range(t) = Range(s) \cup {e}
    <2>1. Len(s) + 1 \in 1..Len(t) /\ Len(t) = Len(s) + 1
      BY <1>1, <1>2
    <2>2. \A x \in Range(t) : x \in Range(s) \cup {e}
      <3> TAKE x \in Range(t)
      <3>1. PICK k \in 1..Len(t) : t[k] = x
        BY <1>2, RangeIs
      <3> QED BY <1>2, <1>3, <1>4, <3>1
    <2>3. \A x \in Range(s) : x \in Range(t)
      <3> TAKE x \in Range(s)
      <3>1. PICK k \in 1..Len(s) : s[k] = x
        BY RangeIs
      <3>2. k \in 1..Len(t) /\ t[k] = x
        BY <1>2, <1>4, <3>1
      <3> QED BY <1>2, <3>2, RangeIs
    <2>4. e \in Range(t)
      BY <1>2, <2>1, RangeIs
    <2> QED BY <2>2, <2>3, <2>4
  <1> QED BY <1>2, <1>5, <1>6 DEF t

\* The object of a forward declaration makes room for that of the declaration.
LEMMA ObjectReplaced ==
  ASSUME NEW s \in Seq(Item), Distinct(s), NEW e \in ScopeEntity, e \in Range(s), NoEntity \notin ScopeEntity
  PROVE  LET t == Append(ReplaceAll(s, e, NoEntity), e)
         IN t \in Seq(Item) /\ Distinct(t) /\ \A f \in ScopeEntity : f \in Range(t) <=> f \in Range(s)
  <1> DEFINE r == ReplaceAll(s, e, NoEntity)
             t == Append(r, e)
  <1>1. e \in Item /\ NoEntity \in Item /\ Len(s) \in Nat /\ \A i \in 1..Len(s) : s[i] \in Item
    BY RangeIs DEF Item
  <1>2. r \in Seq(Item) /\ Len(r) = Len(s) /\ \A i \in 1..Len(s) : r[i] = IF s[i] = e THEN NoEntity ELSE s[i]
    <2>1. r = [i \in 1..Len(s) |-> IF s[i] = e THEN NoEntity ELSE s[i]]
      BY DEF ReplaceAll
    <2> DEFINE n == Len(s)
    <2> HIDE DEF r, n
    <2>2. r = [i \in 1..n |-> IF s[i] = e THEN NoEntity ELSE s[i]] /\ n \in Nat
      BY <1>1, <2>1 DEF n
    <2>3. \A i \in 1..n : r[i] = (IF s[i] = e THEN NoEntity ELSE s[i]) /\ r[i] \in Item
      BY <1>1, <2>2 DEF n
    <2>4. r \in [1..n -> Item]
      BY <2>2, <2>3
    <2>5. r \in Seq(Item) /\ Len(r) = n
      BY <2>2, <2>4
    <2> QED BY <2>3, <2>5 DEF n
  <1> HIDE DEF r
  <1>3. Distinct(r)
    BY <1>2 DEF Distinct
  <1>4. e \notin Range(r)
    <2> SUFFICES ASSUME e \in Range(r) PROVE FALSE
      OBVIOUS
    <2>1. PICK i \in 1..Len(r) : r[i] = e
      BY <1>2, RangeIs
    <2> QED BY <1>2, <2>1
  <1>5. t \in Seq(Item) /\ Distinct(t) /\ Range(t) = Range(r) \cup {e}
    BY <1>2, <1>3, <1>4, ObjectAdded
  <1>6. ASSUME NEW f \in ScopeEntity
        PROVE  f \in Range(t) <=> f \in Range(s)
    <2>1. ASSUME f \in Range(s), f # e
          PROVE  f \in Range(r)
      <3>1. PICK i \in 1..Len(s) : s[i] = f
        BY <2>1, RangeIs
      <3>2. r[i] = f /\ i \in 1..Len(r)
        BY <1>2, <2>1, <3>1
      <3> QED BY <1>2, <3>2, RangeIs
    <2>2. ASSUME f \in Range(r)
          PROVE  f \in Range(s)
      <3>1. PICK i \in 1..Len(r) : r[i] = f
        BY <1>2, <2>2, RangeIs
      <3>2. s[i] = f /\ i \in 1..Len(s)
        BY <1>2, <3>1
      <3> QED BY <3>2, RangeIs
    <2> QED BY <1>5, <2>1, <2>2
  <1> HIDE DEF t
  <1> QED BY <1>5, <1>6 DEF t, r

-----------------------------------------------------------------------------
(* pop_object: objects leave their levels.                                  *)

\* An entity that is in the list more than once was declared again.
ListedOnce(s, again) == \A i, j \in 1..Len(s) : s[i] = s[j] => i = j \/ s[i] \in again

LEMMA ConsListed ==
  ASSUME NEW S, NEW s \in Seq(S), NEW again, ListedOnce(s, again), NEW e \in S, e \in Range(s) => e \in again
  PROVE  Cons(e, s) \in Seq(S) /\ ListedOnce(Cons(e, s), again) /\ Range(Cons(e, s)) = Range(s) \cup {e}
  <1> DEFINE t == Cons(e, s)
  <1>1. Len(s) \in Nat /\ DOMAIN s = 1..Len(s)
    BY LenProperties
  <1>2. t \in Seq(S) /\ Len(t) = Len(s) + 1 /\ t[1] = e /\ \A i \in 1..Len(s) : t[i + 1] = s[i]
    <2>1. <<e>> \in Seq(S) /\ Len(<<e>>) = 1 /\ <<e>>[1] = e
      OBVIOUS
    <2>2. t = <<e>> \o s
      BY DEF Cons
    <2>3. /\ t \in Seq(S) /\ Len(t) = 1 + Len(s)
          /\ \A i \in 1..1 + Len(s) : t[i] = IF i <= 1 THEN <<e>>[i] ELSE s[i - 1]
      BY <1>1, <2>1, <2>2, ConcatProperties
    <2> HIDE DEF t
    <2>4. \A i \in 1..Len(s) : i + 1 \in 1..1 + Len(s) /\ ~(i + 1 <= 1) /\ (i + 1) - 1 = i
      BY <1>1
    <2> QED BY <1>1, <2>1, <2>3, <2>4
  <1> HIDE DEF t
  <1>3. Len(s) + 1 \in Nat
    BY <1>1
  <1>4. \A i \in 1..Len(s) + 1 : i = 1 \/ (i - 1 \in 1..Len(s) /\ t[i] = s[i - 1])
    <2> TAKE i \in 1..Len(s) + 1
    <2>1. i # 1 => i - 1 \in 1..Len(s) /\ (i - 1) + 1 = i
      BY <1>1
    <2> QED BY <1>2, <2>1
  <1>5. \A i \in 1..Len(s) : s[i] \in Range(s) /\ (s[i] = e => e \in again)
    BY RangeIs
  <1>6. ListedOnce(t, again)
    <2>1. \A a, b \in 1..Len(s) : s[a] = s[b] => a = b \/ s[a] \in again
      BY DEF ListedOnce
    <2>2. ASSUME NEW a \in 1..Len(s) + 1, NEW b \in 1..Len(s) + 1, t[a] = t[b]
          PROVE  a = b \/ t[a] \in again
      <3>1. CASE a = 1 /\ b = 1
        BY <3>1
      <3>2. CASE a = 1 /\ b # 1
        BY <1>2, <1>4, <1>5, <2>2, <3>2
      <3>3. CASE a # 1 /\ b = 1
        BY <1>2, <1>4, <1>5, <2>2, <3>3
      <3>4. CASE a # 1 /\ b # 1
        <4>1. a - 1 \in 1..Len(s) /\ b - 1 \in 1..Len(s) /\ s[a - 1] = s[b - 1]
          BY <1>4, <2>2, <3>4
        <4>2. a - 1 = b - 1 \/ s[a - 1] \in again
          BY <2>1, <4>1
        <4>3. t[a] = s[a - 1]
          BY <1>4, <3>4
        <4> QED BY <1>1, <4>2, <4>3
      <3> QED BY <3>1, <3>2, <3>3, <3>4
    <2> QED BY <1>2, <2>2 DEF ListedOnce
  <1>7. Range(t) = Range(s) \cup {e}
    <2>1. \A x \in Range(t) : x \in Range(s) \cup {e}
      <3> TAKE x \in Range(t)
      <3>1. PICK i \in 1..Len(s) + 1 : t[i] = x
        BY <1>2, RangeIs
      <3> QED BY <1>2, <1>4, <1>5, <3>1
    <2>2. \A x \in Range(s) : x \in Range(t)
      <3> TAKE x \in Range(s)
      <3>1. PICK i \in 1..Len(s) : s[i] = x
        BY RangeIs
      <3>2. i + 1 \in 1..Len(t) /\ t[i + 1] = x
        BY <1>1, <1>2, <3>1
      <3> QED BY <1>2, <3>2, RangeIs
    <2>3. 1 \in 1..Len(t)
      BY <1>1, <1>2
    <2>4. e \in Range(t)
      BY <1>2, <2>3, RangeIs
    <2> QED BY <2>1, <2>2, <2>4
  <1> QED BY <1>2, <1>6, <1>7 DEF t

Owned(p) == {e \in PoolEntity : p.owner[e] # <<>>}

\* The tree leads to the entities of A, the others are inactive.
Entities(p, A) ==
    /\ A \in SUBSET PoolEntity
    /\ TreeCore(p.usage, p.node, p.name, A)
    /\ ListedOnce(p.inactive, p.again)
    /\ Range(p.inactive) \subseteq Allocated(p) /\ Allocated(p) \ A \subseteq Range(p.inactive)

\* The entities with owners are the ones of the tree, and the inactive ones
\* among them were declared again.
Settled(p) == Entities(p, Owned(p)) /\ Owned(p) \cap Range(p.inactive) \subseteq p.again

\* Every entity e has objects in the levels H[e].
Sound(p, H) ==
    /\ p \in Programs
    /\ \A e \in ScopeEntity : OwnersIn(p.owner[e], H[e])
    /\ Settled(p)

LEMMA NamesAre ==
  ASSUME NEW p, NEW A, Entities(p, A)
  PROVE  /\ NoName \notin FullName
         /\ \A e \in A : e \in PoolEntity /\ p.name[e] \in FullName /\ e \in Allocated(p)
                         /\ p.node[p.name[e]] = e
  <1>1. NoName \notin FullName
    <2>1. Len(NoName) = 0 /\ ~(0 >= 1)
      BY DEF NoName
    <2> QED BY <2>1, NodeFacts DEF FullName
  <1> QED BY <1>1 DEF Entities, TreeCore, Allocated

\* Inactive entities need not be in the tree.
LEMMA EntitiesLess ==
  ASSUME NEW p, NEW A, Entities(p, A), p.usage \in [TreeNode -> Nat], NEW B \in SUBSET A, A \ B \subseteq Range(p.inactive)
  PROVE  Entities(p, B)
  <1>1. A \in SUBSET PoolEntity /\ B \in SUBSET PoolEntity /\ TreeCore(p.usage, p.node, p.name, A)
    BY DEF Entities
  <1>2. ASSUME NEW n \in TreeNode
        PROVE  p.usage[n] >= Cardinality(Under(p.name, B, n))
    <2>1. Under(p.name, B, n) \subseteq Under(p.name, A, n)
      BY DEF Under
    <2>2. IsFiniteSet(Under(p.name, A, n)) /\ Cardinality(Under(p.name, A, n)) \in Nat /\ Cardinality(Under(p.name, B, n)) \in Nat
      BY <1>1, UnderIs
    <2>3. Cardinality(Under(p.name, B, n)) <= Cardinality(Under(p.name, A, n))
      BY <2>1, <2>2, FS_Subset
    <2>4. p.usage[n] \in Nat /\ p.usage[n] >= Cardinality(Under(p.name, A, n))
      BY <1>1 DEF TreeCore
    <2> QED BY <2>2, <2>3, <2>4
  <1>3. TreeCore(p.usage, p.node, p.name, B)
    BY <1>1, <1>2 DEF TreeCore
  <1> QED BY <1>1, <1>3 DEF Entities

LEMMA UseToTake ==
  ASSUME NEW u \in [TreeNode -> Nat], NEW d, NEW name, NEW A \in SUBSET PoolEntity,
         TreeCore(u, d, name, A), NEW e \in A
  PROVE  TreeWith(u, d, name, A \ {e}, name[e])
  <1> DEFINE B == A \ {e}
             path == name[e]
  <1>1. path \in FullName /\ path \in TreeNode /\ d[path] = e /\ e # NoEntity /\ B \in SUBSET PoolEntity
    <2>1. path \in FullName /\ d[path] = e
      BY DEF TreeCore
    <2>2. e \in PoolEntity /\ e # NoEntity
      BY DEF PoolEntity, NoEntity
    <2> HIDE DEF path
    <2> QED BY <2>1, <2>2, NodeFacts
  <1>2. ASSUME NEW n \in TreeNode
        PROVE  u[n] >= Cardinality(Under(name, B, n)) + (IF IsPrefix(n, path) THEN 1 ELSE 0)
    <2>1. u[n] \in Nat /\ u[n] >= Cardinality(Under(name, A, n)) /\ Cardinality(Under(name, A, n)) \in Nat
      BY UnderIs DEF TreeCore
    <2>2. CASE IsPrefix(n, path)
      <3>1. Under(name, A, n) = Under(name, B, n) \cup {e} /\ e \notin Under(name, B, n)
        BY <2>2 DEF Under
      <3>2. IsFiniteSet(Under(name, B, n)) /\ Cardinality(Under(name, B, n)) \in Nat
        BY <1>1, UnderIs
      <3>3. Cardinality(Under(name, A, n)) = Cardinality(Under(name, B, n)) + 1
        BY <3>1, <3>2, FS_AddElement
      <3> QED BY <2>1, <2>2, <3>2, <3>3
    <2>3. CASE ~IsPrefix(n, path)
      <3>1. Under(name, A, n) = Under(name, B, n)
        BY <2>3 DEF Under
      <3> QED BY <2>1, <2>3, <3>1
    <2> QED BY <2>2, <2>3
  <1> HIDE DEF path
  <1>3. \A n \in TreeNode : (d[n] # NoEntity <=> n \in FullName /\ u[n] > 0) /\ (d[n] # NoEntity => name[d[n]] = n)
    BY DEF TreeCore
  <1>4. \A f \in B : name[f] \in FullName /\ d[name[f]] = f
    BY DEF TreeCore
  <1>5. TreeWith(u, d, name, B, path)
    BY <1>1, <1>2, <1>3, <1>4 DEF TreeWith
  <1> QED BY <1>5 DEF path

Without(H, e, l) == [f \in ScopeEntity |-> IF f = e THEN H[f] \ {l} ELSE H[f]]
SameLevels(q, p) == q.stack = p.stack /\ q.current = p.current /\ q.closed = p.closed

LEMMA PopObjectIs ==
  ASSUME NEW p, NEW H, Sound(p, H), NEW e \in Item, NEW l \in Nat,
         e # NoEntity => l \in H[e] /\ \A k \in H[e] : k <= l
  PROVE  Sound(PopObject(p, e), Without(H, e, l)) /\ SameLevels(PopObject(p, e), p)
  <1> DEFINE G == Without(H, e, l)
             A == Owned(p)
  <1>1. /\ p \in Programs /\ \A f \in ScopeEntity : OwnersIn(p.owner[f], H[f])
        /\ Settled(p) /\ Entities(p, A) /\ A \in SUBSET PoolEntity /\ A \cap Range(p.inactive) \subseteq p.again
    BY DEF Sound, Settled, Entities
  <1>2. NoEntity \notin ScopeEntity /\ PoolEntity \subseteq ScopeEntity
    BY ScopesAssumption DEF NoEntity, PoolEntity, ScopeEntity
  <1>3. \A f \in ScopeEntity : G[f] = IF f = e THEN H[f] \ {l} ELSE H[f]
    BY DEF Without
  <1> HIDE DEF G
  <1>4. CASE e = NoEntity
    <2>1. PopObject(p, e) = p
      BY <1>4 DEF PopObject
    <2>2. \A f \in ScopeEntity : OwnersIn(p.owner[f], G[f])
      BY <1>1, <1>2, <1>3, <1>4
    <2> QED BY <1>1, <2>1, <2>2 DEF Sound, SameLevels, G
  <1>5. CASE e # NoEntity
    <2>1. e \in ScopeEntity
      BY <1>5 DEF Item
    <2> DEFINE s == p.owner[e]
               r == [p EXCEPT !.owner[e] = Tail(@)]
    <2>2. OwnersIn(s, H[e]) /\ s # <<>> /\ s[1].level = l /\ OwnersIn(Tail(s), G[e])
      <3>1. OwnersIn(s, H[e])
        BY <1>1, <2>1
      <3>2. s # <<>>
        BY <1>5, <3>1, OwnersFacts
      <3>3. s[1].level \in H[e] /\ \A k \in H[e] : k <= s[1].level
        BY <3>1, <3>2, OwnersFacts
      <3>4. H[e] \in SUBSET Nat
        BY <3>1 DEF OwnersIn
      <3>5. s[1].level = l
        <4> HIDE DEF s
        <4> QED BY <1>5, <3>3, <3>4
      <3>6. OwnersIn(Tail(s), H[e] \ {s[1].level})
        BY <3>1, <3>2, OwnersFacts
      <3> QED BY <1>3, <2>1, <3>1, <3>2, <3>5, <3>6
    <2>3. /\ r \in Programs /\ SameLevels(r, p)
          /\ r.usage = p.usage /\ r.node = p.node /\ r.name = p.name /\ r.inactive = p.inactive /\ r.again = p.again
          /\ \A f \in ScopeEntity : r.owner[f] = IF f = e THEN Tail(s) ELSE p.owner[f]
      <3>1. Tail(s) \in Seq(Owner)
        BY <2>2 DEF OwnersIn
      <3>2. r = [p EXCEPT !.owner = [p.owner EXCEPT ![e] = Tail(s)]]
        BY <1>1 DEF Programs
      <3>3. p.owner \in [ScopeEntity -> Seq(Owner)]
        BY <1>1 DEF Programs
      <3> DEFINE o == [p.owner EXCEPT ![e] = Tail(s)]
      <3>4. o \in [ScopeEntity -> Seq(Owner)] /\ \A f \in ScopeEntity : o[f] = IF f = e THEN Tail(s) ELSE p.owner[f]
        <4> HIDE DEF s
        <4> QED BY <3>1, <3>3
      <3> HIDE DEF o, r, s
      <3>5. r = [p EXCEPT !.owner = o]
        BY <3>2 DEF o
      <3>6. r \in Programs /\ r.owner = o
        BY <1>1, <3>4, <3>5 DEF Programs
      <3>7. r.stack = p.stack /\ r.current = p.current /\ r.closed = p.closed
            /\ r.usage = p.usage /\ r.node = p.node /\ r.name = p.name /\ r.inactive = p.inactive /\ r.again = p.again
        BY <1>1, <3>5 DEF Programs
      <3> QED BY <3>4, <3>6, <3>7 DEF SameLevels
    <2>4. PopObject(p, e) = IF r.owner[e] # <<>> \/ e \in Identifier \/ Linked(p, e) THEN r
                            ELSE [PopNameList(r, r.name[e]) EXCEPT !.inactive = Cons(e, @)]
      BY <1>5, <2>2 DEF PopObject
    <2> HIDE DEF r, s
    <2>5. \A f \in ScopeEntity : OwnersIn(r.owner[f], G[f])
      BY <1>1, <1>3, <2>2, <2>3
    <2>6. CASE r.owner[e] # <<>> \/ e \in Identifier
      <3>1. Owned(r) = A
        <4>1. e \notin PoolEntity \/ r.owner[e] # <<>>
          BY <2>6, ScopesAssumption DEF PoolEntity
        <4>2. \A f \in PoolEntity : r.owner[f] # <<>> <=> p.owner[f] # <<>>
          BY <1>2, <2>2, <2>3, <4>1 DEF s
        <4> QED BY <4>2 DEF Owned
      <3>2. Settled(r)
        BY <1>1, <2>3, <3>1 DEF Settled, Entities, Allocated
      <3> QED BY <2>3, <2>4, <2>5, <2>6, <3>2 DEF Sound, G
    <2>8. CASE r.owner[e] = <<>> /\ e \notin Identifier /\ Linked(p, e)
      <3> DEFINE B == A \ {e}
      <3>1. p.inactive \in Seq(PoolEntity)
        BY <1>1 DEF Programs
      <3>2. e \in Range(p.inactive)
        BY <2>8, <3>1, RangeIs DEF Linked
      <3>3. Owned(r) = B
        <4>1. \A f \in PoolEntity : f \in Owned(r) <=> f \in B
          BY <1>2, <2>3, <2>8 DEF Owned
        <4> QED BY <4>1 DEF Owned
      <3>4. Entities(r, A)
        BY <1>1, <2>3 DEF Entities, Allocated
      <3>5. r.usage \in [TreeNode -> Nat] /\ Range(r.inactive) = Range(p.inactive)
        BY <2>3 DEF Programs
      <3>6. Entities(r, B)
        BY <3>2, <3>4, <3>5, EntitiesLess
      <3>7. Settled(r)
        BY <1>1, <2>3, <3>3, <3>5, <3>6 DEF Settled
      <3> QED BY <2>3, <2>4, <2>5, <2>8, <3>7 DEF Sound, G
    <2>7. CASE r.owner[e] = <<>> /\ e \notin Identifier /\ ~Linked(p, e)
      <3> DEFINE path == p.name[e]
                 B == A \ {e}
                 w == PopNameList(r, path)
                 q == [w EXCEPT !.inactive = Cons(e, @)]
      <3>1. e \in PoolEntity /\ e \in A
        BY <2>1, <2>2, <2>7 DEF ScopeEntity, Owned, s
      <3>2. p.usage \in [TreeNode -> Nat] /\ TreeCore(p.usage, p.node, p.name, A)
        BY <1>1 DEF Entities, Programs
      <3>3. TreeWith(r.usage, r.node, r.name, B, path)
        BY <1>1, <2>3, <3>1, <3>2, UseToTake
      <3>4. /\ w \in Programs
            /\ w.stack = r.stack /\ w.current = r.current /\ w.name = r.name /\ w.owner = r.owner
            /\ w.inactive = r.inactive /\ w.again = r.again /\ w.closed = r.closed
        BY <2>3, PopNameListType
      <3>5. TreeCore(w.usage, w.node, r.name, B)
        <4>1. B \in SUBSET PoolEntity
          BY <1>1
        <4> HIDE DEF B, path
        <4> QED BY <2>3, <3>3, <4>1, PopNameListKeeps
      <3>6. PopObject(p, e) = q
        BY <2>3, <2>4, <2>7
      <3> HIDE DEF w
      <3>7. /\ w.inactive \in Seq(PoolEntity) /\ ListedOnce(w.inactive, p.again)
            /\ Range(w.inactive) \subseteq Allocated(p) /\ Allocated(p) \ A \subseteq Range(w.inactive)
            /\ (e \in Range(w.inactive) => e \in p.again) /\ e \in Allocated(p)
        <4>1. w.inactive = p.inactive
          BY <2>3, <3>4
        <4>2. /\ p.inactive \in Seq(PoolEntity) /\ ListedOnce(p.inactive, p.again)
              /\ Range(p.inactive) \subseteq Allocated(p) /\ Allocated(p) \ A \subseteq Range(p.inactive)
          BY <1>1 DEF Programs, Entities
        <4>3. e \in Allocated(p)
          BY <1>1, <3>1, NamesAre
        <4> QED BY <1>1, <3>1, <4>1, <4>2, <4>3
      <3> DEFINE c == Cons(e, w.inactive)
      <3>8. c \in Seq(PoolEntity) /\ ListedOnce(c, p.again) /\ Range(c) = Range(w.inactive) \cup {e}
        BY <3>1, <3>7, ConsListed
      <3> HIDE DEF c
      <3>9. q = [w EXCEPT !.inactive = c]
        BY DEF c
      <3> HIDE DEF q
      <3>10. /\ q \in Programs /\ q.inactive = c
             /\ q.stack = w.stack /\ q.current = w.current /\ q.name = w.name /\ q.owner = w.owner
             /\ q.usage = w.usage /\ q.node = w.node /\ q.again = w.again /\ q.closed = w.closed
        BY <3>4, <3>8, <3>9 DEF Programs
      <3>11. Owned(q) = B
        <4>1. q.owner = r.owner
          BY <3>4, <3>10
        <4>2. \A f \in PoolEntity : f \in Owned(q) <=> f \in B
          BY <1>2, <2>3, <2>7, <4>1 DEF Owned
        <4> QED BY <4>2 DEF Owned
      <3>12. Allocated(q) = Allocated(p)
        BY <2>3, <3>4, <3>10 DEF Allocated
      <3>13. Range(q.inactive) \subseteq Allocated(q) /\ Allocated(q) \ B \subseteq Range(q.inactive)
        BY <3>1, <3>7, <3>8, <3>10, <3>12
      <3>14. TreeCore(q.usage, q.node, q.name, B)
        BY <3>4, <3>5, <3>10
      <3>18. q.again = p.again
        BY <2>3, <3>4, <3>10
      <3>19. Entities(q, B)
        BY <1>1, <3>8, <3>10, <3>13, <3>14, <3>18 DEF Entities
      <3>20. B \cap Range(q.inactive) \subseteq p.again
        <4>1. Range(w.inactive) = Range(p.inactive) /\ Range(q.inactive) = Range(w.inactive) \cup {e}
          BY <2>3, <3>4, <3>8, <3>10
        <4> QED BY <1>1, <4>1
      <3>15. Settled(q)
        BY <3>11, <3>18, <3>19, <3>20 DEF Settled
      <3>16. \A f \in ScopeEntity : OwnersIn(q.owner[f], G[f])
        BY <2>5, <3>4, <3>10
      <3>17. SameLevels(q, p)
        BY <2>3, <3>4, <3>10 DEF SameLevels
      <3> QED BY <3>6, <3>10, <3>15, <3>16, <3>17 DEF Sound, G
    <2> QED BY <2>6, <2>7, <2>8
  <1> QED BY <1>4, <1>5

-----------------------------------------------------------------------------
(* Folds from the first to the last element.                                *)

LEMMA FirstNumbers ==
  ASSUME NEW i \in Nat, i > 0
  PROVE  (1..i) # {} /\ Max(1..i) = i /\ (1..i) \ {i} = 1..i - 1
  <1>1. i \in 1..i /\ \A y \in 1..i : y <= i
    OBVIOUS
  <1>2. Max(1..i) = i
    <2>1. (1..i) \in SUBSET Int
      OBVIOUS
    <2> QED BY <1>1, <2>1, MaxIs
  <1> QED BY <1>1, <1>2

LEMMA StepsExist ==
  ASSUME NEW n \in Nat, NEW E, NEW base \in E, NEW H \in [E \X (1..n) -> E]
  PROVE  \E g : /\ g \in [SUBSET (1..n) -> E]
                /\ \A T \in SUBSET (1..n) : /\ g[T] = IF T = {} THEN base ELSE H[<<g[T \ {Max(T)}], Max(T)>>]
                                            /\ T # {} => Max(T) \in 1..n /\ T \ {Max(T)} \in SUBSET (1..n)
  <1> DEFINE S == 1..n
             pick == [T \in SUBSET S |-> Max(T)]
  <1>1. \A T \in SUBSET S : T # {} => Max(T) \in T
    <2> TAKE T \in SUBSET S
    <2>1. T \in SUBSET Int /\ n \in Int /\ \A x \in T : x <= n
      OBVIOUS
    <2> HIDE DEF S
    <2> QED BY <2>1, GreatestOf
  <1>2. \A T \in SUBSET S : pick[T] = Max(T)
    OBVIOUS
  <1>3. IsFiniteSet(S)
    BY FS_Interval
  <1> HIDE DEF S, pick
  <1>4. \A T \in SUBSET S : T # {} => pick[T] \in T
    BY <1>1, <1>2
  <1>5. H \in [E \X S -> E]
    BY DEF S
  <1>6. PICK g : Folding(g, S, E, pick, base, H)
    BY <1>3, <1>4, <1>5, FoldExists
  <1>7. \A T \in SUBSET S : /\ g[T] = IF T = {} THEN base ELSE H[<<g[T \ {Max(T)}], Max(T)>>]
                            /\ T # {} => Max(T) \in S /\ T \ {Max(T)} \in SUBSET S
    BY <1>1, <1>2, <1>6 DEF Folding
  <1>8. g \in [SUBSET S -> E]
    BY <1>6 DEF Folding
  <1> QED BY <1>7, <1>8 DEF S

LEMMA StepsInOrder ==
  ASSUME NEW n \in Nat, NEW E, NEW H \in [E \X (1..n) -> E], NEW g, g[{}] \in E,
         \A i \in 1..n : g[1..i - 1] \in E => g[1..i] = H[<<g[1..i - 1], i>>]
  PROVE  \A i \in 0..n : g[1..i] \in E
  <1> DEFINE P == {i \in Nat : i <= n => g[1..i] \in E}
  <1>1. 0 \in P
    <2>1. 1..0 = {}
      OBVIOUS
    <2> QED BY <2>1
  <1>2. ASSUME NEW i \in P
        PROVE  i + 1 \in P
    <2>1. i \in Nat /\ (i <= n => g[1..i] \in E)
      OBVIOUS
    <2>2. ASSUME i + 1 <= n
          PROVE  g[1..i + 1] \in E
      <3>1. i + 1 \in 1..n /\ (i + 1) - 1 = i /\ i <= n
        BY <2>1, <2>2
      <3>2. g[1..i + 1] = H[<<g[1..i], i + 1>>]
        BY <2>1, <3>1
      <3> QED BY <2>1, <3>1, <3>2
    <2> QED BY <2>1, <2>2
  <1>3. P = Nat
    <2>1. P \in SUBSET Nat
      OBVIOUS
    <2> HIDE DEF P
    <2> QED BY <1>1, <1>2, <2>1, AllNaturals
  <1> QED BY <1>3

LEMMA PopObjectType ==
  ASSUME NEW p \in Programs, NEW e \in Item
  PROVE  PopObject(p, e) \in Programs
  <1> DEFINE r == [p EXCEPT !.owner[e] = Tail(@)]
             w == PopNameList(r, r.name[e])
  <1>1. CASE e = NoEntity
    BY <1>1 DEF PopObject
  <1>2. CASE p.owner[e] = <<>>
    BY <1>2 DEF PopObject
  <1>3. CASE e # NoEntity /\ p.owner[e] # <<>>
    <2>1. PopObject(p, e) = IF r.owner[e] # <<>> \/ e \in Identifier \/ Linked(p, e) THEN r ELSE [w EXCEPT !.inactive = Cons(e, @)]
      BY <1>3 DEF PopObject
    <2>2. e \in ScopeEntity /\ p.owner \in [ScopeEntity -> Seq(Owner)]
      BY <1>3 DEF Item, Programs
    <2>3. Tail(p.owner[e]) \in Seq(Owner)
      BY <1>3, <2>2, HeadTailProperties
    <2> DEFINE o == [p.owner EXCEPT ![e] = Tail(p.owner[e])]
    <2>4. o \in [ScopeEntity -> Seq(Owner)]
      BY <2>2, <2>3
    <2>5. r = [p EXCEPT !.owner = o]
      BY DEF Programs
    <2> HIDE DEF o, r
    <2>6. r \in Programs
      BY <2>4, <2>5 DEF Programs
    <2>7. w \in Programs
      BY <2>6, PopNameListType
    <2> HIDE DEF w
    <2>8. ASSUME e \notin Identifier
          PROVE  Cons(e, w.inactive) \in Seq(PoolEntity)
      <3>1. e \in PoolEntity /\ w.inactive \in Seq(PoolEntity)
        BY <2>2, <2>7, <2>8 DEF ScopeEntity, Programs
      <3>2. <<e>> \in Seq(PoolEntity)
        BY <3>1
      <3> QED BY <3>1, <3>2, ConcatProperties DEF Cons
    <2> DEFINE c == Cons(e, w.inactive)
    <2> HIDE DEF c
    <2>9. c \in Seq(PoolEntity) => [w EXCEPT !.inactive = c] \in Programs
      BY <2>7 DEF Programs
    <2> QED BY <2>1, <2>6, <2>8, <2>9 DEF c
  <1> QED BY <1>1, <1>2, <1>3

LEMMA PopObjectsSteps ==
  ASSUME NEW objects \in Seq(Item), NEW p \in Programs
  PROVE  \E f : /\ f[0] = p /\ f[Len(objects)] = PopObjects(p, objects)
                /\ \A i \in 1..Len(objects) : f[i] = PopObject(f[i - 1], objects[i])
  <1> DEFINE n == Len(objects)
             D == SUBSET DOMAIN objects
             H == [x \in Programs \X (1..n) |-> PopObject(x[1], objects[x[2]])]
             Steps(g) == g = [s \in D |-> IF s = {} THEN p ELSE PopObject(g[s \ {Max(s)}], objects[Max(s)])]
             iter == CHOOSE g : Steps(g)
  <1>1. n \in Nat /\ DOMAIN objects = 1..n /\ \A i \in 1..n : objects[i] \in Item
    BY LenProperties
  <1>2. H \in [Programs \X (1..n) -> Programs] /\ \A q \in Programs, i \in 1..n : H[<<q, i>>] = PopObject(q, objects[i])
    BY <1>1, PopObjectType
  <1> HIDE DEF H
  <1>3. \E g : Steps(g)
    <2>1. PICK g : /\ g \in [SUBSET (1..n) -> Programs]
                   /\ \A T \in SUBSET (1..n) : /\ g[T] = IF T = {} THEN p ELSE H[<<g[T \ {Max(T)}], Max(T)>>]
                                               /\ T # {} => Max(T) \in 1..n /\ T \ {Max(T)} \in SUBSET (1..n)
      <3> HIDE DEF n
      <3> QED BY <1>1, <1>2, StepsExist
    <2>2. g \in [D -> Programs]
      BY <1>1, <2>1
    <2>3. \A s \in D : g[s] = IF s = {} THEN p ELSE PopObject(g[s \ {Max(s)}], objects[Max(s)])
      <3> TAKE s \in D
      <3>1. s \in SUBSET (1..n)
        BY <1>1
      <3>2. s # {} => Max(s) \in 1..n /\ g[s \ {Max(s)}] \in Programs
        BY <2>1, <3>1
      <3> QED BY <1>2, <2>1, <3>1, <3>2
    <2> HIDE DEF D
    <2>4. g = [s \in D |-> g[s]]
      BY <2>2
    <2> QED BY <2>3, <2>4
  <1>4. Steps(iter)
    <2> HIDE DEF Steps
    <2> QED BY <1>3
  <1>5. PopObjects(p, objects) = iter[DOMAIN objects]
    BY DEF PopObjects, FoldLeft, MapThenFoldSet
  <1> HIDE DEF iter
  <1>6. iter[{}] = p
    BY <1>4
  <1>7. ASSUME NEW i \in 1..n
        PROVE  iter[1..i] = PopObject(iter[1..i - 1], objects[i])
    <2>1. (1..i) # {} /\ Max(1..i) = i /\ (1..i) \ {i} = 1..i - 1 /\ (1..i) \in D
      <3> HIDE DEF D, n
      <3>1. i \in Nat /\ i > 0
        BY <1>1
      <3>2. (1..i) \subseteq DOMAIN objects
        BY <1>1, <3>1
      <3>3. (1..i) \in D
        BY <3>2 DEF D
      <3> QED BY <3>1, <3>3, FirstNumbers
    <2>2. iter[1..i] = PopObject(iter[(1..i) \ {Max(1..i)}], objects[Max(1..i)])
      <3> HIDE DEF D
      <3> QED BY <1>4, <2>1
    <2> QED BY <2>1, <2>2
  <1> DEFINE f == [i \in 0..n |-> iter[1..i]]
  <1>8. f[0] = p /\ f[n] = PopObjects(p, objects) /\ \A i \in 1..n : f[i] = PopObject(f[i - 1], objects[i])
    <2>1. 0 \in 0..n /\ n \in 0..n /\ 1..0 = {} /\ \A i \in 1..n : i \in 0..n /\ i - 1 \in 0..n
      BY <1>1
    <2>2. \A i \in 0..n : f[i] = iter[1..i]
      OBVIOUS
    <2> HIDE DEF f, n
    <2> QED BY <1>1, <1>5, <1>6, <1>7, <2>1, <2>2
  <1> HIDE DEF f
  <1> QED BY <1>8

\* All these objects are popped from the level l, the innermost one that has any of them.
LEMMA PopObjectsAre ==
  ASSUME NEW p, NEW H, Sound(p, H), NEW objects \in Seq(Item), Distinct(objects), NEW l \in Nat,
         \A e \in Range(objects) : e # NoEntity => l \in H[e] /\ \A k \in H[e] : k <= l
  PROVE  /\ Sound(PopObjects(p, objects), [e \in ScopeEntity |-> IF e \in Range(objects) THEN H[e] \ {l} ELSE H[e]])
         /\ SameLevels(PopObjects(p, objects), p)
  <1> DEFINE n == Len(objects)
             Before(e, i) == \E j \in 1..i : objects[j] = e
             G(i) == [e \in ScopeEntity |-> IF Before(e, i) THEN H[e] \ {l} ELSE H[e]]
  <1>1. p \in Programs /\ n \in Nat /\ \A i \in 1..n : objects[i] \in Item /\ objects[i] \in Range(objects)
    BY RangeIs DEF Sound
  <1>2. NoEntity \notin ScopeEntity
    BY ScopesAssumption DEF NoEntity, PoolEntity, ScopeEntity
  <1>3. PICK f : /\ f[0] = p /\ f[n] = PopObjects(p, objects)
                 /\ \A i \in 1..n : f[i] = PopObject(f[i - 1], objects[i])
    BY <1>1, PopObjectsSteps
  <1> DEFINE P == {i \in Nat : i <= n => Sound(f[i], G(i)) /\ SameLevels(f[i], p)}
  <1>4. \A i \in Nat : \A e \in ScopeEntity : G(i)[e] = IF Before(e, i) THEN H[e] \ {l} ELSE H[e]
    OBVIOUS
  <1>5. \A i \in Nat : G(i) = [e \in ScopeEntity |-> G(i)[e]]
    OBVIOUS
  <1>6. 0 \in P
    <2>1. \A e : ~Before(e, 0)
      OBVIOUS
    <2>2. \A e \in ScopeEntity : G(0)[e] = H[e]
      BY <2>1
    <2> HIDE DEF G
    <2>3. Sound(f[0], G(0))
      BY <1>3, <2>2 DEF Sound
    <2> QED BY <1>3, <2>3 DEF SameLevels
  <1>7. ASSUME NEW i \in P
        PROVE  i + 1 \in P
    <2>1. i \in Nat /\ i + 1 \in Nat /\ (i <= n => Sound(f[i], G(i)) /\ SameLevels(f[i], p))
      OBVIOUS
    <2>2. ASSUME i + 1 <= n
          PROVE  Sound(f[i + 1], G(i + 1)) /\ SameLevels(f[i + 1], p)
      <3> DEFINE e == objects[i + 1]
      <3>1. i + 1 \in 1..n /\ (i + 1) - 1 = i /\ i <= n
        BY <1>1, <2>1, <2>2
      <3>2. f[i + 1] = PopObject(f[i], e) /\ e \in Item /\ e \in Range(objects)
        BY <1>1, <1>3, <3>1
      <3>3. e # NoEntity => ~Before(e, i)
        <4>1. \A j \in 1..i : j \in 1..n /\ j # i + 1
          BY <1>1, <2>1, <2>2
        <4> QED BY <3>1, <4>1 DEF Distinct
      <3>4. \A g : Before(g, i + 1) <=> Before(g, i) \/ g = e
        <4>1. \A j : j \in 1..i + 1 <=> j \in 1..i \/ j = i + 1
          BY <2>1
        <4> QED BY <4>1
      <3>5. e # NoEntity => e \in ScopeEntity /\ G(i)[e] = H[e]
        BY <1>4, <2>1, <3>2, <3>3 DEF Item
      <3>6. Sound(f[i], G(i)) /\ SameLevels(f[i], p)
        BY <2>1, <3>1
      <3> HIDE DEF Before
      <3>7. \A g \in ScopeEntity : G(i + 1)[g] = IF g = e THEN G(i)[g] \ {l} ELSE G(i)[g]
        <4> TAKE g \in ScopeEntity
        <4>1. g = e => ~Before(g, i)
          BY <1>2, <3>3
        <4> QED BY <1>4, <2>1, <3>4, <4>1
      <3>8. Without(G(i), e, l) = G(i + 1)
        <4>1. G(i + 1) = [g \in ScopeEntity |-> G(i + 1)[g]]
          BY <1>5, <2>1
        <4> HIDE DEF G
        <4> QED BY <3>7, <4>1 DEF Without
      <3> HIDE DEF G, e
      <3>9. e # NoEntity => l \in G(i)[e] /\ \A k \in G(i)[e] : k <= l
        BY <3>2, <3>5
      <3>10. Sound(PopObject(f[i], e), Without(G(i), e, l)) /\ SameLevels(PopObject(f[i], e), f[i])
        BY <3>2, <3>6, <3>9, PopObjectIs
      <3> QED BY <3>2, <3>6, <3>8, <3>10 DEF SameLevels
    <2> QED BY <2>1, <2>2
  <1>8. P = Nat
    <2>1. P \in SUBSET Nat
      OBVIOUS
    <2> HIDE DEF P
    <2> QED BY <1>6, <1>7, <2>1, AllNaturals
  <1>9. Sound(f[n], G(n)) /\ SameLevels(f[n], p)
    <2>1. n \in P
      BY <1>1, <1>8
    <2> QED BY <1>1, <2>1
  <1>10. \A e : Before(e, n) <=> e \in Range(objects)
    BY <1>1, RangeIs
  <1>11. G(n) = [e \in ScopeEntity |-> IF e \in Range(objects) THEN H[e] \ {l} ELSE H[e]]
    <2> HIDE DEF Before
    <2> QED BY <1>10
  <1> HIDE DEF G
  <1> QED BY <1>3, <1>9, <1>11

HeldBy(stack) == [e \in ScopeEntity |-> Held(stack, e)]
Whole(p) == p \in Programs /\ Stacks(p.stack) /\ Sound(p, HeldBy(p.stack))

\* No level above l has an object.
NoObjectAbove(stack, l) == \A e \in ScopeEntity : \A k \in Held(stack, e) : k <= l

SameNames(q, p) ==
    /\ q.usage = p.usage /\ q.node = p.node /\ q.name = p.name /\ q.owner = p.owner
    /\ q.inactive = p.inactive /\ q.again = p.again

LEMMA SoundSame ==
  ASSUME NEW p, NEW H, Sound(p, H), NEW q \in Programs, SameNames(q, p),
         NEW G, \A e \in ScopeEntity : G[e] = H[e]
  PROVE  Sound(q, G)
  <1>1. Owned(q) = Owned(p) /\ Allocated(q) = Allocated(p)
    BY DEF Owned, Allocated, SameNames
  <1> QED BY <1>1 DEF Sound, Settled, Entities, SameNames

LEMMA LevelPopped ==
  ASSUME NEW p, Whole(p), NEW l \in 1..Len(p.stack), NoObjectAbove(p.stack, l)
  PROVE  LET q == PopObjects(p, p.stack[l])
         IN Sound(q, [e \in ScopeEntity |-> Held(p.stack, e) \ {l}]) /\ SameLevels(q, p)
  <1> DEFINE H == HeldBy(p.stack)
             objects == p.stack[l]
             q == PopObjects(p, objects)
             G == [e \in ScopeEntity |-> IF e \in Range(objects) THEN H[e] \ {l} ELSE H[e]]
             W == [e \in ScopeEntity |-> Held(p.stack, e) \ {l}]
  <1>1. Stacks(p.stack) /\ Sound(p, H)
    BY DEF Whole
  <1>2. objects \in Seq(Item) /\ Distinct(objects) /\ l \in Nat /\ NoEntity \notin ScopeEntity
    BY <1>1, StackTyped
  <1>3. \A e \in ScopeEntity : H[e] = Held(p.stack, e) /\ (l \in H[e] <=> e \in Range(objects))
    BY DEF HeldBy, Held
  <1>4. \A e \in ScopeEntity : G[e] = W[e]
    BY <1>3
  <1>5. \A e \in Range(objects) : e # NoEntity => l \in H[e] /\ \A k \in H[e] : k <= l
    <2>1. \A e \in Range(objects) : e # NoEntity => e \in ScopeEntity
      BY <1>2, RangeIs DEF Item
    <2> QED BY <1>3, <2>1 DEF NoObjectAbove
  <1> HIDE DEF H, objects
  <1>6. Sound(q, G) /\ SameLevels(q, p)
    BY <1>1, <1>2, <1>5, PopObjectsAre
  <1> HIDE DEF q, G, W
  <1>7. Sound(q, W)
    BY <1>4, <1>6 DEF Sound
  <1> QED BY <1>6, <1>7 DEF q, objects, W

-----------------------------------------------------------------------------
(* The operations on the stack of levels.                                   *)

LEMMA WholeNow ==
  ASSUME NEW q \in Programs, Stacks(q.stack), NEW H, Sound(q, H), \A e \in ScopeEntity : Held(q.stack, e) = H[e]
  PROVE  Whole(q)
  <1>1. \A e \in ScopeEntity : HeldBy(q.stack)[e] = H[e]
    BY DEF HeldBy
  <1>2. SameNames(q, q)
    BY DEF SameNames
  <1>3. Sound(q, HeldBy(q.stack))
    BY <1>1, <1>2, SoundSame
  <1> QED BY <1>3 DEF Whole

WithStack(p, stack, current) == [p EXCEPT !.stack = stack, !.current = current]
StackIs(q, p, stack, current) ==
    q \in Programs /\ SameNames(q, p) /\ q.stack = stack /\ q.current = current /\ q.closed = p.closed

\* Only the stack and the current level of a program change.
LEMMA StackChanged ==
  ASSUME NEW p \in Programs, NEW stack, Stacks(stack), NEW current \in Nat
  PROVE  StackIs(WithStack(p, stack, current), p, stack, current)
  <1>1. stack \in Seq(Seq(ScopeEntity \cup {NoEntity}))
    BY DEF Stacks, Item
  <1> QED BY <1>1 DEF Programs, SameNames, WithStack, StackIs

LEMMA SameStack ==
  ASSUME NEW p, Whole(p), NEW current \in Nat
  PROVE  LET q == [p EXCEPT !.current = current]
         IN Whole(q) /\ SameNames(q, p) /\ q.stack = p.stack /\ q.current = current /\ q.closed = p.closed
  <1> DEFINE q == [p EXCEPT !.current = current]
             w == WithStack(p, p.stack, current)
  <1>1. p \in Programs /\ Stacks(p.stack) /\ Sound(p, HeldBy(p.stack))
    BY DEF Whole
  <1>2. q = w
    BY <1>1 DEF Programs, WithStack
  <1>3. StackIs(w, p, p.stack, current)
    BY <1>1, StackChanged
  <1> HIDE DEF q, w
  <1>4. q \in Programs /\ SameNames(q, p) /\ q.stack = p.stack /\ q.current = current /\ q.closed = p.closed
    BY <1>2, <1>3 DEF StackIs
  <1>5. Sound(q, HeldBy(p.stack))
    BY <1>1, <1>4, SoundSame
  <1>6. Whole(q)
    BY <1>1, <1>4, <1>5 DEF Whole
  <1> QED BY <1>4, <1>6 DEF q

LEMMA GrowStackIs ==
  ASSUME NEW p, Whole(p)
  PROVE  LET q == GrowStack(p)
         IN /\ Whole(q) /\ SameNames(q, p) /\ q.current = p.current /\ q.closed = p.closed
            /\ Len(q.stack) = Len(p.stack) + 1 /\ q.stack[Len(q.stack)] = <<>>
            /\ \A e : Held(q.stack, e) = Held(p.stack, e)
  <1> DEFINE stack == Append(p.stack, <<>>)
             q == WithStack(p, stack, p.current)
  <1>1. p \in Programs /\ Stacks(p.stack) /\ Sound(p, HeldBy(p.stack)) /\ p.current \in Nat
    BY DEF Whole, Programs
  <1>2. Stacks(stack) /\ Len(stack) = Len(p.stack) + 1 /\ stack[Len(stack)] = <<>> /\ \A e : Held(stack, e) = Held(p.stack, e)
    BY <1>1, LevelGrown
  <1>3. GrowStack(p) = q
    BY <1>1 DEF GrowStack, Programs, WithStack
  <1> HIDE DEF stack
  <1>4. q \in Programs /\ SameNames(q, p) /\ q.stack = stack /\ q.current = p.current /\ q.closed = p.closed
    <2>1. StackIs(q, p, stack, p.current)
      BY <1>1, <1>2, StackChanged
    <2> HIDE DEF q
    <2> QED BY <2>1 DEF StackIs
  <1> HIDE DEF q
  <1>5. \A e \in ScopeEntity : HeldBy(q.stack)[e] = HeldBy(p.stack)[e]
    BY <1>2, <1>4 DEF HeldBy
  <1>6. Whole(q)
    BY <1>1, <1>2, <1>4, <1>5, SoundSame DEF Whole
  <1> QED BY <1>2, <1>3, <1>4, <1>6

LEMMA TopIsLast ==
  ASSUME NEW stack, Stacks(stack)
  PROVE  NoObjectAbove(stack, Len(stack))
  <1>1. Len(stack) \in Nat
    BY StackTyped
  <1> QED BY <1>1 DEF NoObjectAbove, Held

LEMMA ShrinkStackIs ==
  ASSUME NEW p, Whole(p), Len(p.stack) >= 1
  PROVE  LET q == ShrinkStack(p)
         IN /\ Whole(q) /\ q.current = p.current /\ q.closed = p.closed /\ Len(q.stack) = Len(p.stack) - 1
            /\ \A k \in 1..Len(q.stack) : q.stack[k] = p.stack[k]
            /\ \A e \in ScopeEntity : Held(q.stack, e) = Held(p.stack, e) \ {Len(p.stack)}
  <1> DEFINE l == Len(p.stack)
             w == PopObjects(p, p.stack[l])
             stack == Front(p.stack)
             q == WithStack(w, stack, p.current)
             H == [e \in ScopeEntity |-> Held(p.stack, e) \ {l}]
  <1>1. p \in Programs /\ Stacks(p.stack) /\ p.current \in Nat
    BY DEF Whole, Programs
  <1>2. l \in 1..Len(p.stack)
    BY <1>1, StackTyped
  <1>3. Sound(w, H) /\ SameLevels(w, p)
    BY <1>1, <1>2, TopIsLast, LevelPopped
  <1>4. /\ Stacks(stack) /\ Len(stack) = l - 1 /\ \A k \in 1..Len(stack) : stack[k] = p.stack[k]
        /\ \A e : Held(stack, e) = Held(p.stack, e) \ {l}
    BY <1>1, LevelShrunk
  <1>5. w \in Programs /\ w.stack = p.stack /\ w.current = p.current /\ w.closed = p.closed
    BY <1>3 DEF Sound, SameLevels
  <1>6. ShrinkStack(p) = [w EXCEPT !.stack = Front(@)]
    BY DEF ShrinkStack, Last
  <1> HIDE DEF w
  <1>7. ShrinkStack(p) = q
    BY <1>5, <1>6 DEF Programs, WithStack
  <1> HIDE DEF stack
  <1>8. q \in Programs /\ SameNames(q, w) /\ q.stack = stack /\ q.current = p.current /\ q.closed = w.closed
    <2>1. StackIs(q, w, stack, p.current)
      BY <1>1, <1>4, <1>5, StackChanged
    <2> HIDE DEF q
    <2> QED BY <2>1 DEF StackIs
  <1> HIDE DEF q
  <1>9. \A e \in ScopeEntity : H[e] = Held(stack, e)
    BY <1>4
  <1> HIDE DEF H
  <1>10. Sound(q, H)
    BY <1>3, <1>8, SoundSame
  <1>11. Whole(q)
    BY <1>4, <1>8, <1>9, <1>10, WholeNow
  <1> QED BY <1>4, <1>5, <1>7, <1>8, <1>11

LEMMA PopStackIs ==
  ASSUME NEW p, Whole(p), p.current = Len(p.stack), p.current > 1
  PROVE  LET q == PopStack(p)
         IN /\ Whole(q) /\ q.current = p.current - 1 /\ q.closed = p.closed
            /\ Len(q.stack) = Len(p.stack)
            /\ \A k \in 1..Len(q.stack) : q.stack[k] = IF k = p.current THEN <<>> ELSE p.stack[k]
  <1> DEFINE l == p.current
             w == PopObjects(p, p.stack[l])
             stack == [p.stack EXCEPT ![l] = <<>>]
             q == WithStack(w, stack, l - 1)
             H == [e \in ScopeEntity |-> Held(p.stack, e) \ {l}]
  <1>1. p \in Programs /\ Stacks(p.stack) /\ p.current \in Nat
    BY DEF Whole, Programs
  <1>2. l \in 1..Len(p.stack) /\ l - 1 \in Nat /\ p.current # 1
    <2> DEFINE c == p.current
               m == Len(p.stack)
    <2>1. c \in Nat /\ c = m /\ c > 1
      BY <1>1
    <2> HIDE DEF c, m
    <2>2. c \in 1..m /\ c - 1 \in Nat /\ c # 1
      BY <2>1
    <2> QED BY <2>2 DEF c, m
  <1>3. Sound(w, H) /\ SameLevels(w, p)
    <2>1. NoObjectAbove(p.stack, l)
      BY <1>1, TopIsLast
    <2> QED BY <1>2, <2>1, LevelPopped
  <1>4. /\ Stacks(stack) /\ Len(stack) = Len(p.stack) /\ stack[l] = <<>> /\ \A k \in 1..Len(p.stack) : k # l => stack[k] = p.stack[k]
        /\ \A e : Held(stack, e) = Held(p.stack, e) \ {l}
    <2>1. <<>> \in Seq(Item) /\ Distinct(<<>>) /\ Range(<<>>) = {}
      BY DEF Distinct, Range
    <2> DEFINE s == <<>>
    <2> HIDE DEF s
    <2>2. s \in Seq(Item) /\ Distinct(s) /\ Range(s) = {}
      BY <2>1 DEF s
    <2> DEFINE t == LevelWith(p.stack, l, s)
    <2>3. LevelIs(t, p.stack, l, s)
      BY <1>1, <1>2, <2>2, LevelSet
    <2>4. t = stack
      BY DEF s, LevelWith
    <2> HIDE DEF stack, t
    <2>5. \A e : e \notin Range(s)
      BY <2>2
    <2> QED BY <2>3, <2>4, <2>5 DEF LevelIs, s
  <1>5. w \in Programs /\ w.stack = p.stack /\ w.current = p.current /\ w.closed = p.closed
    BY <1>3 DEF Sound, SameLevels
  <1>6. PopStack(p) = [w EXCEPT !.stack[l] = <<>>, !.current = @ - 1]
    <2> QED BY <1>2 DEF PopStack
  <1> HIDE DEF w
  <1>7. PopStack(p) = q
    BY <1>5, <1>6 DEF Programs, WithStack
  <1> HIDE DEF stack
  <1>8. q \in Programs /\ SameNames(q, w) /\ q.stack = stack /\ q.current = l - 1 /\ q.closed = w.closed
    <2>1. StackIs(q, w, stack, l - 1)
      BY <1>2, <1>4, <1>5, StackChanged
    <2> HIDE DEF q
    <2> QED BY <2>1 DEF StackIs
  <1> HIDE DEF q
  <1>9. \A e \in ScopeEntity : H[e] = Held(stack, e)
    BY <1>4
  <1> HIDE DEF H
  <1>10. Sound(q, H)
    BY <1>3, <1>8, SoundSame
  <1>11. Whole(q)
    BY <1>4, <1>8, <1>9, <1>10, WholeNow
  <1> QED BY <1>4, <1>5, <1>7, <1>8, <1>11

-----------------------------------------------------------------------------
(* get_object: an entity gets an object in the current level.               *)

SameTree(q, p) ==
    /\ q.usage = p.usage /\ q.node = p.node /\ q.name = p.name
    /\ q.inactive = p.inactive /\ p.again \subseteq q.again

\* The owners of every entity are its objects in the levels.
Accounted(p) ==
    p \in Programs /\ Stacks(p.stack) /\ \A e \in ScopeEntity : OwnersIn(p.owner[e], Held(p.stack, e))

LEMMA WholeIs ==
  ASSUME NEW p
  PROVE  Whole(p) <=> Accounted(p) /\ Settled(p)
  <1>1. \A e \in ScopeEntity : HeldBy(p.stack)[e] = Held(p.stack, e)
    BY DEF HeldBy
  <1> QED BY <1>1 DEF Whole, Accounted, Sound

WithOwners(p, e, s) == [p EXCEPT !.owner[e] = s]
OwnersAre(q, p, e, s) ==
    /\ q \in Programs /\ SameTree(q, p) /\ SameLevels(q, p)
    /\ \A f \in ScopeEntity : q.owner[f] = IF f = e THEN s ELSE p.owner[f]

LEMMA OwnersSet ==
  ASSUME NEW p \in Programs, NEW e \in ScopeEntity, NEW s \in Seq(Owner)
  PROVE  OwnersAre(WithOwners(p, e, s), p, e, s)
  <1> DEFINE o == [p.owner EXCEPT ![e] = s]
             q == WithOwners(p, e, s)
  <1>1. p.owner \in [ScopeEntity -> Seq(Owner)]
    BY DEF Programs
  <1>2. o \in [ScopeEntity -> Seq(Owner)] /\ \A f \in ScopeEntity : o[f] = IF f = e THEN s ELSE p.owner[f]
    BY <1>1
  <1>3. q = [p EXCEPT !.owner = o]
    BY DEF WithOwners, Programs
  <1> HIDE DEF o, q
  <1>4. q \in Programs /\ q.owner = o
    BY <1>2, <1>3 DEF Programs
  <1>5. SameTree(q, p) /\ SameLevels(q, p)
    BY <1>3 DEF Programs, SameTree, SameLevels
  <1> QED BY <1>2, <1>4, <1>5 DEF OwnersAre, q

WithLevel(p, l, s) == [p EXCEPT !.stack[l] = s]
LevelHas(q, p, l, s) ==
    /\ q \in Programs /\ SameNames(q, p) /\ q.current = p.current /\ q.closed = p.closed
    /\ LevelIs(q.stack, p.stack, l, s)

LEMMA ObjectsSet ==
  ASSUME NEW p \in Programs, Stacks(p.stack), NEW l \in 1..Len(p.stack), NEW s \in Seq(Item), Distinct(s)
  PROVE  LevelHas(WithLevel(p, l, s), p, l, s)
  <1> DEFINE stack == LevelWith(p.stack, l, s)
             q == WithStack(p, stack, p.current)
  <1>1. LevelIs(stack, p.stack, l, s)
    BY LevelSet
  <1>2. WithLevel(p, l, s) = q
    BY DEF WithLevel, WithStack, LevelWith, Programs
  <1> HIDE DEF stack
  <1>3. Stacks(stack) /\ p.current \in Nat
    BY <1>1 DEF LevelIs, Programs
  <1>4. StackIs(q, p, stack, p.current)
    BY <1>3, StackChanged
  <1> HIDE DEF q
  <1> QED BY <1>1, <1>2, <1>4 DEF LevelHas, StackIs

\* An entity of the list that gets an owner again.
WithAgain(p, again) == [p EXCEPT !.again = again]
AgainIs(q, p, again) ==
    /\ q \in Programs /\ SameLevels(q, p) /\ q.owner = p.owner /\ q.again = again
    /\ q.usage = p.usage /\ q.node = p.node /\ q.name = p.name /\ q.inactive = p.inactive

LEMMA AgainSet ==
  ASSUME NEW p \in Programs, NEW again \in SUBSET PoolEntity
  PROVE  AgainIs(WithAgain(p, again), p, again)
  BY DEF Programs, WithAgain, AgainIs, SameLevels

\* What an object for e changes.
ObjectFor(q, p, e) ==
    /\ Accounted(q) /\ SameTree(q, p) /\ q.current = p.current /\ q.closed = p.closed
    /\ Len(q.stack) = Len(p.stack) /\ \A k \in 1..Len(p.stack) : k # p.current => q.stack[k] = p.stack[k]
    /\ \A f \in ScopeEntity : f # e => Held(q.stack, f) = Held(p.stack, f) /\ q.owner[f] = p.owner[f]
Answered(result, q, p, e) ==
    /\ result \in {"declared", "redeclared", "memory error"}
    /\ result = "declared" => q.owner[e] # <<>>
    /\ result = "redeclared" => p.owner[e] # <<>>
    /\ result # "declared" => q.stack = p.stack /\ (q.owner[e] = <<>> <=> p.owner[e] = <<>>)
    /\ result = "memory error" /\ p.owner[e] = <<>> => q = p
    /\ p.owner[e] # <<>> => q.owner[e] # <<>>
    /\ q.owner[e] # <<>> /\ e \in Range(q.inactive) => p.owner[e] # <<>> \/ e \in q.again
Got(got, p, e) ==
    ObjectFor(got.program, p, e) /\ got.entity = e /\ Answered(got.result, got.program, p, e)

LEMMA GotReturned ==
  ASSUME NEW q, NEW p, NEW e, NEW result, ObjectFor(q, p, e), Answered(result, q, p, e)
  PROVE  Got(Returns(q, e, result), p, e)
  BY DEF Got, Returns

LEMMA GetObjectIs ==
  ASSUME NEW p, Accounted(p), NEW e \in ScopeEntity, NEW lacking,
         p.current \in 1..Len(p.stack), \A k \in Held(p.stack, e) : k <= p.current
  PROVE  Got(GetObject(p, e, lacking), p, e)
  <1> DEFINE c == p.current
             s == p.owner[e]
             L == Held(p.stack, e)
             objects == p.stack[c]
             here == s # <<>> /\ Head(s).level = c
             t == [s EXCEPT ![1].forward = FALSE]
             w == WithOwners(p, e, t)
             r == Append(ReplaceAll(objects, e, NoEntity), e)
             o == [level |-> c, forward |-> FALSE]
             u == WithOwners(p, e, Cons(o, s))
             a == Append(objects, e)
             again == p.again \cup ({e} \cap Range(p.inactive))
             last == [p EXCEPT !.owner[e] = Cons(o, @), !.stack[c] = Append(@, e),
                               !.again = @ \cup ({e} \cap Range(p.inactive))]
  <1>1. p \in Programs /\ Stacks(p.stack) /\ c \in Nat /\ OwnersIn(s, L) /\ \A f \in ScopeEntity : OwnersIn(p.owner[f], Held(p.stack, f))
    BY DEF Accounted, Programs
  <1>2. objects \in Seq(Item) /\ Distinct(objects) /\ NoEntity \notin ScopeEntity /\ L \in SUBSET Nat
    BY <1>1, StackTyped
  <1>3. \A f : c \in Held(p.stack, f) <=> f \in Range(objects)
    BY DEF Held
  <1>4. here <=> c \in L
    <2>1. s # <<>> => Head(s).level \in L /\ \A k \in L : k <= Head(s).level
      BY <1>1, OwnersFacts
    <2>2. c \in L => s # <<>>
      BY <1>1, OwnersFacts
    <2>3. \A k \in L : k <= c /\ k \in Nat
      BY <1>2
    <2> HIDE DEF s, c, L
    <2>4. ASSUME c \in L
          PROVE  Head(s).level = c
      <3> DEFINE h == Head(s).level
      <3>1. h \in L /\ c <= h /\ h <= c /\ h \in Nat /\ c \in Nat
        BY <2>1, <2>2, <2>3, <2>4
      <3> HIDE DEF h
      <3>2. h = c
        BY <3>1
      <3> QED BY <3>2 DEF h
    <2> QED BY <2>1, <2>2, <2>4
  <1>5. GetObject(p, e, lacking) =
            IF here THEN IF ~Head(s).forward THEN Returns(p, e, "redeclared")
                         ELSE IF lacking = "list" THEN Returns(w, e, "memory error")
                         ELSE Returns([w EXCEPT !.stack[c] = Append(ReplaceAll(@, e, NoEntity), e)], e, "declared")
            ELSE IF lacking \in {"owner", "list"} THEN Returns(p, e, "memory error")
            ELSE Returns(last, e, "declared")
    <2>1. w = [p EXCEPT !.owner[e][1].forward = FALSE]
      BY <1>1 DEF WithOwners, Programs
    <2> HIDE DEF w
    <2> QED BY <2>1 DEF GetObject
  <1>6. ObjectFor(p, p, e)
    BY <1>1 DEF ObjectFor, Accounted, SameTree
  <1>7. \A v : v \in {"redeclared", "memory error"} /\ (v = "redeclared" => s # <<>>) => Got(Returns(p, e, v), p, e)
    <2> TAKE v
    <2> SUFFICES ASSUME v \in {"redeclared", "memory error"}, v = "redeclared" => s # <<>>
                 PROVE  Got(Returns(p, e, v), p, e)
      OBVIOUS
    <2>1. v # "declared"
      OBVIOUS
    <2>2. Answered(v, p, p, e)
      BY <2>1 DEF Answered
    <2> QED BY <1>6, <2>2, GotReturned
  <1>8. CASE here
    <2>0. s # <<>> /\ c \in L
      BY <1>4, <1>8
    <2>1. OwnersIn(t, L) /\ t # <<>>
      <3>1. OwnersIn(t, L)
        BY <1>1, <2>0, OwnersForward
      <3> HIDE DEF t
      <3> QED BY <1>1, <2>0, <3>1, OwnersFacts
    <2>2. OwnersAre(w, p, e, t)
      <3>1. t \in Seq(Owner)
        BY <2>1 DEF OwnersIn
      <3> HIDE DEF t
      <3> QED BY <1>1, <3>1, OwnersSet
    <2>3. Got(Returns(w, e, "memory error"), p, e)
      <3> HIDE DEF w, t
      <3>1. Accounted(w)
        BY <1>1, <2>1, <2>2 DEF Accounted, OwnersAre, SameLevels
      <3>2. w.owner[e] = t /\ \A f \in ScopeEntity : f # e => w.owner[f] = p.owner[f]
        BY <2>2 DEF OwnersAre
      <3>3. SameTree(w, p) /\ w.stack = p.stack /\ w.current = p.current /\ w.closed = p.closed
        BY <2>2 DEF OwnersAre, SameLevels
      <3>5. \A f \in ScopeEntity : f # e => Held(w.stack, f) = Held(p.stack, f) /\ w.owner[f] = p.owner[f]
        BY <3>2, <3>3
      <3>6. ObjectFor(w, p, e)
        BY <3>1, <3>3, <3>5 DEF ObjectFor
      <3>7. Answered("memory error", w, p, e)
        BY <2>0, <2>1, <3>2, <3>3 DEF Answered
      <3> QED BY <3>6, <3>7, GotReturned
    <2>4. Got(Returns([w EXCEPT !.stack[c] = Append(ReplaceAll(@, e, NoEntity), e)], e, "declared"), p, e)
      <3> DEFINE q == WithLevel(w, c, r)
      <3>1. w \in Programs /\ w.stack = p.stack /\ w.current = p.current /\ w.closed = p.closed /\ SameTree(w, p)
        BY <2>2 DEF OwnersAre, SameLevels
      <3>2. [w EXCEPT !.stack[c] = Append(ReplaceAll(@, e, NoEntity), e)] = q
        <4> HIDE DEF w
        <4> QED BY <3>1 DEF WithLevel
      <3>3. e \in Range(objects)
        BY <1>3, <2>0
      <3>4. r \in Seq(Item) /\ Distinct(r) /\ \A f \in ScopeEntity : f \in Range(r) <=> f \in Range(objects)
        BY <1>2, <3>3, ObjectReplaced
      <3>5. LevelHas(q, w, c, r)
        <4> HIDE DEF r, w
        <4> QED BY <1>1, <3>1, <3>4, ObjectsSet
      <3> HIDE DEF q, r
      <3>6. /\ q \in Programs /\ SameTree(q, p) /\ q.current = p.current /\ q.closed = p.closed
            /\ q.owner = w.owner /\ LevelIs(q.stack, p.stack, c, r)
        BY <3>1, <3>5 DEF LevelHas, SameNames, SameTree
      <3>7. \A f \in ScopeEntity : Held(q.stack, f) = Held(p.stack, f)
        <4> TAKE f \in ScopeEntity
        <4>1. Held(q.stack, f) = IF f \in Range(r) THEN Held(p.stack, f) \cup {c} ELSE Held(p.stack, f) \ {c}
          BY <3>6 DEF LevelIs
        <4>2. f \in Range(r) <=> c \in Held(p.stack, f)
          BY <1>3, <3>4
        <4> QED BY <4>1, <4>2
      <3>8. \A f \in ScopeEntity : q.owner[f] = IF f = e THEN t ELSE p.owner[f]
        BY <2>2, <3>6 DEF OwnersAre
      <3> HIDE DEF w, t
      <3>9. Accounted(q)
        BY <1>1, <2>1, <3>6, <3>7, <3>8 DEF Accounted, LevelIs
      <3>10. Len(q.stack) = Len(p.stack) /\ \A k \in 1..Len(p.stack) : k # p.current => q.stack[k] = p.stack[k]
        BY <3>6 DEF LevelIs
      <3>11. q.owner[e] # <<>>
        BY <2>1, <3>8
      <3>12. Got(Returns(q, e, "declared"), p, e)
        <4>2. \A f \in ScopeEntity : f # e => Held(q.stack, f) = Held(p.stack, f) /\ q.owner[f] = p.owner[f]
          BY <3>7, <3>8
        <4>3. SameTree(q, p) /\ q.current = p.current /\ q.closed = p.closed
          BY <3>6
        <4> HIDE DEF s, c
        <4>4. ObjectFor(q, p, e)
          BY <3>9, <3>10, <4>2, <4>3 DEF ObjectFor
        <4>5. Answered("declared", q, p, e)
          BY <2>0, <3>11 DEF Answered, s
        <4> QED BY <4>4, <4>5, GotReturned
      <3> QED BY <3>2, <3>12
    <2> HIDE DEF w
    <2>5. ~Head(s).forward => GetObject(p, e, lacking) = Returns(p, e, "redeclared")
      BY <1>5, <1>8
    <2>6. Head(s).forward /\ lacking = "list" => GetObject(p, e, lacking) = Returns(w, e, "memory error")
      BY <1>5, <1>8
    <2>7. Head(s).forward /\ lacking # "list" =>
             GetObject(p, e, lacking) = Returns([w EXCEPT !.stack[c] = Append(ReplaceAll(@, e, NoEntity), e)], e, "declared")
      BY <1>5, <1>8
    <2>8. Got(Returns(p, e, "redeclared"), p, e)
      BY <1>7, <2>0
    <2> QED BY <2>3, <2>4, <2>5, <2>6, <2>7, <2>8
  <1>9. CASE ~here
    <2>0. c \notin L
      BY <1>4, <1>9
    <2>1. \A k \in L : k < c
      <3>1. \A k \in L : k <= c /\ k # c /\ k \in Nat
        BY <1>2, <2>0
      <3> HIDE DEF L, c
      <3> QED BY <1>1, <3>1
    <2>2. o \in Owner /\ o.level = c
      BY <1>1 DEF Owner
    <2>3. OwnersIn(Cons(o, s), L \cup {c})
      <3> HIDE DEF o, s, L
      <3> QED BY <1>1, <2>1, <2>2, OwnersCons
    <2>4. OwnersAre(u, p, e, Cons(o, s))
      <3>1. Cons(o, s) \in Seq(Owner)
        BY <2>3 DEF OwnersIn
      <3> DEFINE d == Cons(o, s)
      <3> HIDE DEF d
      <3>2. OwnersAre(WithOwners(p, e, d), p, e, d)
        BY <1>1, <3>1, OwnersSet DEF d
      <3> QED BY <3>2 DEF d
    <2>5. Got(Returns(last, e, "declared"), p, e)
      <3> DEFINE v == WithLevel(u, c, a)
                 q == WithAgain(v, again)
      <3>1. u \in Programs /\ u.stack = p.stack /\ u.current = p.current /\ u.closed = p.closed /\ SameTree(u, p)
        BY <2>4 DEF OwnersAre, SameLevels
      <3>2. last = q
        BY <1>1 DEF WithLevel, WithOwners, WithAgain, Programs
      <3>3. e \notin Range(objects)
        BY <1>3, <2>0
      <3>4. a \in Seq(Item) /\ Distinct(a) /\ Range(a) = Range(objects) \cup {e}
        BY <1>2, <3>3, ObjectAdded
      <3>5. LevelHas(v, u, c, a)
        <4> HIDE DEF a, u
        <4> QED BY <1>1, <3>1, <3>4, ObjectsSet
      <3>13. again \in SUBSET PoolEntity /\ p.again \subseteq again /\ (e \in Range(p.inactive) => e \in again)
        <4>1. p.inactive \in Seq(PoolEntity) /\ p.again \in SUBSET PoolEntity
          BY <1>1 DEF Programs
        <4> QED BY <4>1, RangeIs
      <3>14. v \in Programs
        BY <3>5 DEF LevelHas
      <3> HIDE DEF v, a, again
      <3>15. AgainIs(q, v, again)
        BY <3>13, <3>14, AgainSet
      <3> HIDE DEF q
      <3>6. /\ q \in Programs /\ SameTree(q, p) /\ q.current = p.current /\ q.closed = p.closed
            /\ q.owner = u.owner /\ LevelIs(q.stack, p.stack, c, a)
            /\ q.inactive = p.inactive /\ q.again = again
        BY <3>1, <3>5, <3>13, <3>15 DEF LevelHas, AgainIs, SameLevels, SameNames, SameTree
      <3>7. \A f \in ScopeEntity : Held(q.stack, f) = IF f = e THEN L \cup {c} ELSE Held(p.stack, f)
        <4> TAKE f \in ScopeEntity
        <4>1. Held(q.stack, f) = IF f \in Range(a) THEN Held(p.stack, f) \cup {c} ELSE Held(p.stack, f) \ {c}
          BY <3>6 DEF LevelIs
        <4>2. f \in Range(a) <=> c \in Held(p.stack, f) \/ f = e
          BY <1>3, <3>4
        <4> QED BY <4>1, <4>2
      <3>8. \A f \in ScopeEntity : q.owner[f] = IF f = e THEN Cons(o, s) ELSE p.owner[f]
        BY <2>4, <3>6 DEF OwnersAre
      <3> HIDE DEF u
      <3>9. Accounted(q)
        <4>1. \A f \in ScopeEntity : OwnersIn(q.owner[f], Held(q.stack, f))
          BY <1>1, <2>3, <3>7, <3>8
        <4> QED BY <3>6, <4>1 DEF Accounted, LevelIs
      <3>10. Len(q.stack) = Len(p.stack) /\ \A k \in 1..Len(p.stack) : k # p.current => q.stack[k] = p.stack[k]
        BY <3>6 DEF LevelIs
      <3>11. q.owner[e] # <<>>
        <4>1. L \cup {c} # {}
          OBVIOUS
        <4> DEFINE d == Cons(o, s)
                   M == L \cup {c}
        <4> HIDE DEF d, M
        <4>2. OwnersIn(d, M) /\ M # {} /\ q.owner[e] = d
          BY <2>3, <3>8, <4>1 DEF d, M
        <4> QED BY <4>2, OwnersFacts
      <3>12. Got(Returns(q, e, "declared"), p, e)
        <4>2. \A f \in ScopeEntity : f # e => Held(q.stack, f) = Held(p.stack, f) /\ q.owner[f] = p.owner[f]
          BY <3>7, <3>8
        <4>3. SameTree(q, p) /\ q.current = p.current /\ q.closed = p.closed
          BY <3>6
        <4> HIDE DEF s, c
        <4>4. ObjectFor(q, p, e)
          BY <3>9, <3>10, <4>2, <4>3 DEF ObjectFor
        <4>5. Answered("declared", q, p, e)
          BY <3>6, <3>11, <3>13 DEF Answered
        <4> QED BY <4>4, <4>5, GotReturned
      <3> QED BY <3>2, <3>12
    <2>6. lacking \in {"owner", "list"} => GetObject(p, e, lacking) = Returns(p, e, "memory error")
      BY <1>5, <1>9
    <2>7. lacking \notin {"owner", "list"} =>
             GetObject(p, e, lacking) = Returns(last, e, "declared")
      BY <1>5, <1>9
    <2>8. Got(Returns(p, e, "memory error"), p, e)
      BY <1>7
    <2> QED BY <2>5, <2>6, <2>7, <2>8
  <1> QED BY <1>8, <1>9

-----------------------------------------------------------------------------
(* get_entity and push_name: a name with parameters gets its entity.         *)

LEMMA EntitiesSame ==
  ASSUME NEW p, NEW A, Entities(p, A), NEW q, SameTree(q, p)
  PROVE  Entities(q, A) /\ Range(q.inactive) = Range(p.inactive)
  BY DEF Entities, SameTree, Allocated, ListedOnce

LEMMA SettledSame ==
  ASSUME NEW p, Settled(p), NEW q, SameTree(q, p), Owned(q) = Owned(p)
  PROVE  Settled(q)
  BY EntitiesSame DEF Settled, SameTree

WithTree(p, u, d, name) == [p EXCEPT !.usage = u, !.node = d, !.name = name]
TreeIs(q, p, u, d, name) ==
    /\ q \in Programs /\ SameLevels(q, p) /\ q.owner = p.owner
    /\ q.inactive = p.inactive /\ q.again = p.again
    /\ q.usage = u /\ q.node = d /\ q.name = name

LEMMA TreeSet ==
  ASSUME NEW p \in Programs, NEW u \in [TreeNode -> Nat], NEW d \in [TreeNode -> PoolEntity \cup {NoEntity}],
         NEW name \in [PoolEntity -> FullName \cup {NoName}]
  PROVE  TreeIs(WithTree(p, u, d, name), p, u, d, name)
  BY DEF Programs, WithTree, TreeIs, SameLevels

LEMMA AccountedSame ==
  ASSUME NEW p, Accounted(p), NEW q \in Programs, q.stack = p.stack, q.owner = p.owner
  PROVE  Accounted(q)
  BY DEF Accounted

\* What get_entity returns: a program q, and an entity x that may be new.
EntityFor(q, x, p, path) ==
    /\ Accounted(q) /\ SameLevels(q, p) /\ q.owner = p.owner
    /\ q.inactive = p.inactive /\ q.again = p.again
    /\ x = NoEntity => Entities(q, Owned(p))
    /\ x # NoEntity => x \in PoolEntity /\ Entities(q, Owned(p) \cup {x})
NewEntity(q, x, p, path) ==
    /\ x # NoEntity /\ p.owner[x] = <<>> /\ x \notin Range(q.inactive)
    /\ TreeWith(q.usage, q.node, q.name, Owned(p), path) /\ q.usage[path] = 1 /\ q.name[x] = path

\* The use of the path counts for the entity of its node.
LEMMA UseShared ==
  ASSUME NEW u, NEW d, NEW name, NEW A \in SUBSET PoolEntity, TreeCore(u, d, name, A),
         NEW path, TreeWith(u, d, name, A, path), NEW x \in PoolEntity, d[path] = x, name[x] = path
  PROVE  TreeCore(u, d, name, A \cup {x})
  <1> DEFINE B == A \cup {x}
  <1>1. ASSUME NEW n \in TreeNode
        PROVE  u[n] >= Cardinality(Under(name, B, n))
    <2>1. u[n] >= Cardinality(Under(name, A, n)) /\ IsFiniteSet(Under(name, A, n)) /\ Cardinality(Under(name, A, n)) \in Nat
      BY UnderIs DEF TreeCore
    <2>2. CASE x \in A \/ ~IsPrefix(n, path)
      <3>1. Under(name, B, n) = Under(name, A, n)
        BY <2>2 DEF Under
      <3> QED BY <2>1, <3>1
    <2>3. CASE x \notin A /\ IsPrefix(n, path)
      <3>1. Under(name, B, n) = Under(name, A, n) \cup {x} /\ x \notin Under(name, A, n)
        BY <2>3 DEF Under
      <3>2. Cardinality(Under(name, B, n)) = Cardinality(Under(name, A, n)) + 1
        BY <2>1, <3>1, FS_AddElement
      <3>3. u[n] >= Cardinality(Under(name, A, n)) + 1
        BY <2>3 DEF TreeWith
      <3> QED BY <3>2, <3>3
    <2> QED BY <2>2, <2>3
  <1>2. \A e \in B : name[e] \in FullName /\ d[name[e]] = e
    BY DEF TreeCore, TreeWith
  <1> QED BY <1>1, <1>2 DEF TreeCore

LEMMA GetEntityIs ==
  ASSUME NEW p, Whole(p), NEW path \in FullName, NEW lacking
  PROVE  LET found == GetEntity(p, path, lacking)
         IN /\ EntityFor(found.program, found.entity, p, path) /\ found.new \in BOOLEAN
            /\ found.new => NewEntity(found.program, found.entity, p, path)
            /\ found.entity # NoEntity /\ ~found.new => found.entity \in Owned(p) \cup Range(p.inactive)
  <1> DEFINE A == Owned(p)
             u == p.usage
             d == p.node
             v == UsageMore(u, path)
             q == GetEntityNode(p, path)
             free == PoolEntity \ Allocated(p)
             new == CHOOSE e \in free : \A f \in free : e <= f
             found == GetEntity(p, path, lacking)
             c == [d EXCEPT ![path] = new]
             names == [p.name EXCEPT ![new] = path]
             fails == lacking = "node" \/ (d[path] = NoEntity /\ (free = {} \/ lacking = "entity"))
             Right(f) == /\ EntityFor(f.program, f.entity, p, path) /\ f.new \in BOOLEAN
                         /\ f.new => NewEntity(f.program, f.entity, p, path)
                         /\ f.entity # NoEntity /\ ~f.new => f.entity \in Owned(p) \cup Range(p.inactive)
             At(w, x, n) == [program |-> w, entity |-> x, new |-> n]
  <1>1. Accounted(p) /\ Entities(p, A) /\ p \in Programs
    BY WholeIs DEF Accounted, Settled
  <1>2. /\ u \in [TreeNode -> Nat] /\ d \in [TreeNode -> PoolEntity \cup {NoEntity}]
        /\ p.name \in [PoolEntity -> FullName \cup {NoName}]
    BY <1>1 DEF Programs
  <1>3. A \in SUBSET PoolEntity /\ TreeCore(u, d, p.name, A) /\ path \in TreeNode
    BY <1>1, NodeFacts DEF Entities
  <1>4. /\ v \in [TreeNode -> Nat] /\ TreeWith(v, d, p.name, A, path)
        /\ d[path] # NoEntity => TreeCore(v, d, p.name, A)
        /\ d[path] = NoEntity => v[path] = 1
    BY <1>2, <1>3, UseMore
  <1>5. TreeIs(q, p, v, d, p.name)
    <2>1. q = WithTree(p, v, d, p.name)
      BY <1>1 DEF GetEntityNode, WithTree, UsageMore, Programs
    <2> HIDE DEF q, v, d, u
    <2> QED BY <1>1, <1>2, <1>4, <2>1, TreeSet DEF d, u
  <1> HIDE DEF A, v
  <1>6. /\ q \in Programs /\ SameLevels(q, p) /\ q.owner = p.owner /\ q.inactive = p.inactive /\ q.again = p.again
        /\ q.usage = v /\ q.node = d /\ q.name = p.name
    BY <1>5 DEF TreeIs
  <1>7. found = IF fails THEN At(PopNameList(q, path), NoEntity, FALSE)
                ELSE IF d[path] # NoEntity THEN At(q, d[path], FALSE)
                ELSE At([q EXCEPT !.node[path] = new, !.name[new] = path], new, TRUE)
    <2> HIDE DEF q, new, free
    <2>1. found = IF lacking = "node" \/ (q.node[path] = NoEntity /\ (free = {} \/ lacking = "entity"))
                  THEN At(PopNameList(q, path), NoEntity, FALSE)
                  ELSE IF q.node[path] # NoEntity THEN At(q, q.node[path], FALSE)
                  ELSE At([q EXCEPT !.node[path] = new, !.name[new] = path], new, TRUE)
      BY DEF GetEntity, q, new, free
    <2> QED BY <1>6, <2>1
  <1> HIDE DEF q, found, new, free
  <1>8. \A w, x, n : At(w, x, n).program = w /\ At(w, x, n).entity = x /\ At(w, x, n).new = n
    OBVIOUS
  <1> HIDE DEF At
  <1>9. CASE fails
    <2> DEFINE w == PopNameList(q, path)
    <2>1. /\ w \in Programs
          /\ w.stack = q.stack /\ w.current = q.current /\ w.name = q.name /\ w.owner = q.owner
          /\ w.inactive = q.inactive /\ w.again = q.again /\ w.closed = q.closed
      BY <1>6, PopNameListType
    <2>2. TreeCore(w.usage, w.node, q.name, A)
      BY <1>3, <1>4, <1>6, PopNameListKeeps
    <2> HIDE DEF w
    <2>3. Accounted(w)
      BY <1>1, <1>6, <2>1, AccountedSame DEF SameLevels
    <2>4. Allocated(w) = Allocated(p)
      BY <1>6, <2>1 DEF Allocated
    <2>5. Entities(w, A)
      <3>1. TreeCore(w.usage, w.node, w.name, A) /\ w.inactive = p.inactive /\ w.again = p.again
        BY <1>6, <2>1, <2>2
      <3> QED BY <1>1, <2>4, <3>1 DEF Entities
    <2>6. EntityFor(w, NoEntity, p, path)
      BY <1>6, <2>1, <2>3, <2>5 DEF EntityFor, SameLevels, A
    <2>7. found = At(w, NoEntity, FALSE)
      BY <1>7, <1>9 DEF w
    <2>8. found.program = w /\ found.entity = NoEntity /\ found.new = FALSE
      BY <2>7 DEF At
    <2>9. Right(found)
      BY <2>6, <2>8
    <2> QED BY <2>9 DEF found
  <1>10. CASE ~fails /\ d[path] # NoEntity
    <2> DEFINE x == d[path]
    <2>1. Accounted(q)
      BY <1>1, <1>6, AccountedSame DEF SameLevels
    <2>2. x \in PoolEntity /\ p.name[x] = path /\ x # NoEntity
      BY <1>2, <1>3, <1>10 DEF TreeCore
    <2>3. Allocated(q) = Allocated(p)
      BY <1>6 DEF Allocated
    <2>4. TreeCore(v, d, p.name, A \cup {x})
      <3>1. TreeCore(v, d, p.name, A)
        BY <1>4, <1>10
      <3> QED BY <1>3, <1>4, <2>2, <3>1, UseShared
    <2>5. x \in A \cup Range(p.inactive)
      <3>1. x \in Allocated(p)
        BY <1>1, <2>2, NamesAre DEF Allocated
      <3> QED BY <1>1, <3>1 DEF Entities
    <2> HIDE DEF x
    <2>6. Entities(q, A \cup {x})
      BY <1>1, <1>3, <1>6, <2>2, <2>3, <2>4 DEF Entities
    <2>7. EntityFor(q, x, p, path)
      BY <1>6, <2>1, <2>2, <2>6 DEF EntityFor, A
    <2>8. found = At(q, x, FALSE)
      BY <1>7, <1>10 DEF x
    <2>9. found.program = q /\ found.entity = x /\ found.new = FALSE
      BY <2>8 DEF At
    <2>10. x \in Owned(p) \cup Range(p.inactive)
      BY <2>5 DEF A
    <2>11. Right(found)
      BY <2>7, <2>9, <2>10
    <2> QED BY <2>11 DEF found
  <1>11. CASE ~fails /\ d[path] = NoEntity
    <2> DEFINE w == WithTree(q, v, c, names)
    <2>1. new \in free
      <3>1. free \in SUBSET Nat /\ free # {}
        BY <1>11 DEF free, PoolEntity
      <3>2. \E e \in free : \A f \in free : e <= f
        BY <3>1, Least
      <3> QED BY <3>2 DEF new
    <2>2. new \in PoolEntity /\ p.name[new] = NoName /\ new # NoEntity
      BY <2>1 DEF free, Allocated, PoolEntity, NoEntity
    <2>18. new \notin Range(p.inactive)
      BY <1>1, <2>1 DEF Entities, free
    <2>3. new \notin A /\ p.owner[new] = <<>>
      <3>1. new \notin A
        BY <1>1, <2>2, NamesAre
      <3> QED BY <2>2, <3>1 DEF A, Owned
    <2>4. TreeCore(v, c, names, A \cup {new}) /\ TreeWith(v, c, names, A, path)
      BY <1>2, <1>3, <1>11, <2>2, EntityIsNew DEF v
    <2>5. c \in [TreeNode -> PoolEntity \cup {NoEntity}] /\ names \in [PoolEntity -> FullName \cup {NoName}]
      BY <1>2, <2>2
    <2>6. names[new] = path /\ \A e \in PoolEntity : e # new => names[e] = p.name[e]
      BY <1>2, <2>2
    <2>7. [q EXCEPT !.node[path] = new, !.name[new] = path] = w
      BY <1>6 DEF WithTree, Programs
    <2> HIDE DEF c, names, d, u
    <2>8. TreeIs(w, q, v, c, names)
      BY <1>4, <1>6, <2>5, TreeSet
    <2> HIDE DEF w
    <2>9. /\ w \in Programs /\ SameLevels(w, p) /\ w.owner = p.owner /\ w.inactive = p.inactive /\ w.again = p.again
          /\ w.usage = v /\ w.node = c /\ w.name = names
      BY <1>6, <2>8 DEF TreeIs, SameLevels
    <2>10. Accounted(w)
      BY <1>1, <2>9, AccountedSame DEF SameLevels
    <2>11. Allocated(w) = Allocated(p) \cup {new}
      <3>1. NoName \notin FullName
        BY <1>1, NamesAre
      <3>2. \A e \in PoolEntity : w.name[e] # NoName <=> p.name[e] # NoName \/ e = new
        BY <2>6, <2>9, <3>1
      <3> QED BY <2>2, <3>2 DEF Allocated
    <2>12. Entities(w, A \cup {new})
      <3>1. Range(w.inactive) \subseteq Allocated(w) /\ Allocated(w) \ (A \cup {new}) \subseteq Range(w.inactive)
        BY <1>1, <2>9, <2>11 DEF Entities
      <3>2. ListedOnce(w.inactive, w.again) /\ A \cup {new} \in SUBSET PoolEntity
        BY <1>1, <1>3, <2>2, <2>9 DEF Entities
      <3>3. TreeCore(w.usage, w.node, w.name, A \cup {new})
        BY <2>4, <2>9
      <3> QED BY <3>1, <3>2, <3>3 DEF Entities
    <2>13. EntityFor(w, new, p, path)
      BY <2>2, <2>9, <2>10, <2>12 DEF EntityFor, A
    <2>14. NewEntity(w, new, p, path)
      BY <1>4, <1>11, <2>2, <2>3, <2>4, <2>6, <2>9, <2>18 DEF NewEntity, A
    <2>15. found = At(w, new, TRUE)
      BY <1>7, <1>11, <2>7
    <2>16. found.program = w /\ found.entity = new /\ found.new = TRUE
      BY <2>15 DEF At
    <2>17. Right(found)
      BY <2>13, <2>14, <2>16
    <2> QED BY <2>17 DEF found
  <1> QED BY <1>9, <1>10, <1>11

\* The new entity x is given back.
LEMMA GivenBack ==
  ASSUME NEW f, Accounted(f), NEW x \in PoolEntity, f.owner[x] = <<>>, Entities(f, Owned(f) \cup {x}),
         x \notin Range(f.inactive), Owned(f) \cap Range(f.inactive) \subseteq f.again,
         NEW path, TreeWith(f.usage, f.node, f.name, Owned(f), path), f.usage[path] = 1, f.name[x] = path
  PROVE  LET q == [PopNameList(f, path) EXCEPT !.name[x] = NoName]
         IN Whole(q) /\ SameLevels(q, f)
  <1> DEFINE A == Owned(f)
             w == PopNameList(f, path)
             names == [w.name EXCEPT ![x] = NoName]
             q == [w EXCEPT !.name[x] = NoName]
             r == WithTree(w, w.usage, w.node, names)
  <1>1. f \in Programs /\ A \in SUBSET PoolEntity /\ path \in FullName /\ x \notin A
    BY DEF Accounted, Owned, TreeWith
  <1>2. /\ w \in Programs
        /\ w.stack = f.stack /\ w.current = f.current /\ w.name = f.name /\ w.owner = f.owner
        /\ w.inactive = f.inactive /\ w.again = f.again /\ w.closed = f.closed
    BY <1>1, PopNameListType
  <1>3. TreeCore(w.usage, w.node, f.name, A) /\ w.node[path] = NoEntity
    BY <1>1, PopNameListKeeps
  <1> HIDE DEF w, A
  <1>4. /\ w.usage \in [TreeNode -> Nat] /\ w.node \in [TreeNode -> PoolEntity \cup {NoEntity}]
        /\ w.name \in [PoolEntity -> FullName \cup {NoName}]
    BY <1>2 DEF Programs
  <1>5. /\ names \in [PoolEntity -> FullName \cup {NoName}] /\ names[x] = NoName
        /\ \A e \in PoolEntity : e # x => names[e] = f.name[e]
    BY <1>2, <1>4
  <1>6. q = r
    BY <1>2 DEF WithTree, Programs
  <1> HIDE DEF names, q
  <1>7. TreeIs(r, w, w.usage, w.node, names)
    BY <1>2, <1>4, <1>5, TreeSet
  <1> HIDE DEF r
  <1>8. /\ q \in Programs /\ SameLevels(q, f) /\ q.owner = f.owner /\ q.inactive = f.inactive /\ q.again = f.again
        /\ q.usage = w.usage /\ q.node = w.node /\ q.name = names
    BY <1>2, <1>6, <1>7 DEF TreeIs, SameLevels
  <1>9. Accounted(q)
    BY <1>8, AccountedSame DEF SameLevels
  <1>10. \A e \in A : names[e] = f.name[e]
    BY <1>1, <1>5
  <1>11. TreeCore(q.usage, q.node, q.name, A)
    <2>1. /\ \A n \in TreeNode : /\ w.node[n] # NoEntity <=> n \in FullName /\ w.usage[n] > 0
                                 /\ w.node[n] # NoEntity => f.name[w.node[n]] = n
          /\ \A e \in A : f.name[e] \in FullName /\ w.node[f.name[e]] = e
          /\ \A n \in TreeNode : w.usage[n] >= Cardinality(Under(f.name, A, n))
      BY <1>3 DEF TreeCore
    <2>2. \A n \in TreeNode : w.node[n] # NoEntity => names[w.node[n]] = n
      <3> SUFFICES ASSUME NEW n \in TreeNode, w.node[n] # NoEntity
                   PROVE  names[w.node[n]] = n
        OBVIOUS
      <3>1. w.node[n] \in PoolEntity /\ f.name[w.node[n]] = n
        BY <1>4, <2>1
      <3>2. w.node[n] # x
        BY <1>3, <3>1
      <3> QED BY <1>5, <3>1, <3>2
    <2>3. \A n \in TreeNode : Under(names, A, n) = Under(f.name, A, n)
      BY <1>10 DEF Under
    <2> QED BY <1>8, <1>10, <2>1, <2>2, <2>3 DEF TreeCore
  <1>12. Allocated(q) = Allocated(f) \ {x}
    <2>1. \A e \in PoolEntity : q.name[e] # NoName <=> f.name[e] # NoName /\ e # x
      BY <1>5, <1>8
    <2> QED BY <2>1 DEF Allocated
  <1>13. Entities(q, A)
    <2>1. /\ Range(f.inactive) \subseteq Allocated(f) /\ Allocated(f) \ (A \cup {x}) \subseteq Range(f.inactive)
          /\ ListedOnce(f.inactive, f.again)
      BY DEF Entities, A
    <2>2. Range(q.inactive) \subseteq Allocated(q) /\ Allocated(q) \ A \subseteq Range(q.inactive)
      BY <1>8, <1>12, <2>1
    <2> QED BY <1>1, <1>8, <1>11, <2>1, <2>2 DEF Entities
  <1>14. Owned(q) = A
    BY <1>8 DEF Owned, A
  <1>15. Whole(q)
    <2>1. Settled(q)
      BY <1>8, <1>13, <1>14 DEF Settled, A
    <2> QED BY <1>9, <2>1, WholeIs
  <1> QED BY <1>8, <1>15 DEF q, w

\* What comes of entering a name.
Entered(r, p) ==
    LET q == r.program
    IN /\ Whole(q) /\ q.current = p.current /\ q.closed = p.closed /\ Len(q.stack) = Len(p.stack)
       /\ r.result = "declared" => r.entity \in ScopeEntity /\ q.owner[r.entity] # <<>>

EnteredAs(q, e, result, p) ==
    /\ Whole(q) /\ q.current = p.current /\ q.closed = p.closed /\ Len(q.stack) = Len(p.stack)
    /\ result = "declared" => e \in ScopeEntity /\ q.owner[e] # <<>>

LEMMA EnteredReturned ==
  ASSUME NEW q, NEW e, NEW result, NEW p, EnteredAs(q, e, result, p)
  PROVE  Entered(Returns(q, e, result), p)
  BY DEF Entered, Returns, EnteredAs

\* The upper level has no object with parameters.
LEMMA PushNameIs ==
  ASSUME NEW p, Whole(p), NEW path \in FullName, NEW lacking,
         p.current \in 1..Len(p.stack), Len(p.stack) = p.current + 1,
         \A e \in PoolEntity : \A k \in Held(p.stack, e) : k <= p.current
  PROVE  Entered(PushName(p, path, lacking), p)
  <1> DEFINE A == Owned(p)
             found == GetEntity(p, path, lacking)
             f == found.program
             x == found.entity
             got == GetObject(f, x, lacking)
             g == got.program
             last == [PopNameList(g, path) EXCEPT !.name[x] = NoName]
             after == PopStack(PushStack(g))
             new == found.new
  <1>1. PushName(p, path, lacking) =
            IF x = NoEntity THEN Returns(f, NoEntity, "memory error")
            ELSE IF got.result = "memory error" /\ new THEN Returns(last, NoEntity, "memory error")
            ELSE IF got.result = "redeclared" THEN Returns(after, x, "redeclared")
            ELSE got
    BY DEF PushName
  <1>2. /\ EntityFor(f, x, p, path)
        /\ new => NewEntity(f, x, p, path)
        /\ x # NoEntity /\ ~new => x \in A \cup Range(p.inactive)
    BY GetEntityIs
  <1> HIDE DEF found, f, x, new
  <1>3. /\ Accounted(f) /\ f.stack = p.stack /\ f.current = p.current /\ f.closed = p.closed /\ f.owner = p.owner
        /\ f.inactive = p.inactive /\ f.again = p.again
    BY <1>2 DEF EntityFor, SameLevels
  <1>6. A \cap Range(p.inactive) \subseteq p.again /\ Owned(f) = A
    <2>1. Settled(p)
      BY WholeIs
    <2> QED BY <1>3, <2>1 DEF Settled, Owned, A
  <1>4. CASE x = NoEntity
    <2>1. Owned(f) = A /\ Entities(f, A)
      BY <1>2, <1>3, <1>4 DEF EntityFor, Owned
    <2>2. Whole(f)
      <3>1. Settled(f)
        BY <1>3, <1>6, <2>1 DEF Settled
      <3> QED BY <1>3, <3>1, WholeIs
    <2>3. EnteredAs(f, NoEntity, "memory error", p)
      BY <1>3, <2>2 DEF EnteredAs
    <2> HIDE DEF got, g, last, after
    <2>4. PushName(p, path, lacking) = Returns(f, NoEntity, "memory error")
      BY <1>1, <1>4
    <2> QED BY <2>3, <2>4, EnteredReturned
  <1>5. CASE x # NoEntity
    <2>1. x \in PoolEntity /\ x \in ScopeEntity /\ Entities(f, A \cup {x})
      BY <1>2, <1>5 DEF EntityFor, ScopeEntity
    <2>2. Got(got, f, x)
      <3>1. f.current \in 1..Len(f.stack) /\ \A k \in Held(f.stack, x) : k <= f.current
        BY <1>3, <2>1
      <3> QED BY <1>3, <2>1, <3>1, GetObjectIs
    <2> HIDE DEF got
    <2>3. ObjectFor(g, f, x) /\ got.entity = x /\ Answered(got.result, g, f, x)
      BY <2>2 DEF Got
    <2> HIDE DEF g
    <2>4. /\ Accounted(g) /\ SameTree(g, f) /\ g.current = p.current /\ g.closed = p.closed
          /\ Len(g.stack) = Len(p.stack)
      BY <1>3, <2>3 DEF ObjectFor
    <2>5. /\ Entities(g, A \cup {x}) /\ Range(g.inactive) = Range(p.inactive) /\ p.again \subseteq g.again
          /\ g.inactive = p.inactive
      BY <1>3, <2>1, <2>4, EntitiesSame DEF SameTree
    <2>6. \A e \in PoolEntity : e # x => (e \in Owned(g) <=> e \in A)
      <3>1. \A e \in PoolEntity : e # x => g.owner[e] = p.owner[e]
        BY <1>3, <2>3 DEF ObjectFor, ScopeEntity
      <3> QED BY <3>1 DEF Owned, A
    <2>7. g.owner[x] # <<>> => Whole(g)
      <3>1. g.owner[x] # <<>> => Owned(g) = A \cup {x}
        BY <2>1, <2>6 DEF Owned, A
      <3>2. g.owner[x] # <<>> /\ x \in Range(p.inactive) => x \in g.again
        <4>1. g.owner[x] # <<>> /\ x \in Range(g.inactive) => f.owner[x] # <<>> \/ x \in g.again
          BY <2>3 DEF Answered
        <4>2. f.owner[x] # <<>> => x \in A
          BY <1>3, <2>1 DEF A, Owned
        <4> QED BY <1>6, <2>5, <4>1, <4>2
      <3>3. g.owner[x] # <<>> => Settled(g)
        BY <1>6, <2>5, <3>1, <3>2 DEF Settled
      <3> QED BY <2>4, <3>3, WholeIs
    <2>8. CASE got.result = "declared"
      <3>1. g.owner[x] # <<>> /\ got.result # "memory error" /\ got.result # "redeclared"
        BY <2>3, <2>8 DEF Answered
      <3> HIDE DEF last, after
      <3>2. PushName(p, path, lacking) = got
        BY <1>1, <1>5, <3>1
      <3>3. Entered(got, p)
        BY <2>1, <2>3, <2>4, <2>7, <3>1 DEF Entered, g
      <3> QED BY <3>2, <3>3
    <2>9. CASE got.result = "redeclared"
      <3>1. g.owner[x] # <<>> /\ got.result # "memory error"
        BY <1>3, <2>3, <2>9 DEF Answered
      <3> DEFINE up == PushStack(g)
      <3>2. /\ Whole(up) /\ up.stack = g.stack /\ up.current = g.current + 1 /\ up.closed = g.closed
        <4>1. p.current \in Nat /\ g.current < Len(g.stack)
          BY <2>4
        <4>2. up = [g EXCEPT !.current = g.current + 1]
          BY <4>1 DEF PushStack
        <4> DEFINE w == [g EXCEPT !.current = g.current + 1]
        <4>3. g.current + 1 \in Nat
          BY <2>4, <4>1
        <4>4. Whole(w) /\ w.stack = g.stack /\ w.current = g.current + 1 /\ w.closed = g.closed
          BY <2>7, <3>1, <4>3, SameStack
        <4> HIDE DEF w, up
        <4> QED BY <4>2, <4>4 DEF w
      <3> HIDE DEF up
      <3>3. up.current = Len(up.stack) /\ up.current > 1 /\ up.current - 1 = p.current
        <4> DEFINE m == p.current
        <4>1. m \in Nat /\ m >= 1 /\ up.current = m + 1 /\ Len(up.stack) = m + 1
          BY <2>4, <3>2
        <4> HIDE DEF m
        <4>2. m + 1 > 1 /\ (m + 1) - 1 = m
          BY <4>1
        <4> QED BY <4>1, <4>2 DEF m
      <3>4. /\ Whole(PopStack(up)) /\ PopStack(up).current = up.current - 1 /\ PopStack(up).closed = up.closed
            /\ Len(PopStack(up).stack) = Len(up.stack)
        BY <3>2, <3>3, PopStackIs
      <3>5. after = PopStack(up)
        BY DEF up
      <3> HIDE DEF after, last
      <3>6. EnteredAs(after, x, "redeclared", p)
        <4>1. "redeclared" # "declared"
          OBVIOUS
        <4> QED BY <2>4, <3>2, <3>3, <3>4, <3>5, <4>1 DEF EnteredAs
      <3>7. PushName(p, path, lacking) = Returns(after, x, "redeclared")
        BY <1>1, <1>5, <2>9, <3>1
      <3> QED BY <3>6, <3>7, EnteredReturned
    <2>10. CASE got.result = "memory error" /\ ~new
      <3>1. Whole(g)
        <4>1. CASE f.owner[x] # <<>>
          <5>1. g.owner[x] # <<>>
            BY <2>3, <4>1 DEF Answered
          <5> QED BY <2>7, <5>1
        <4>2. CASE f.owner[x] = <<>>
          <5>1. g = f
            BY <2>3, <2>10, <4>2 DEF Answered
          <5>2. x \notin A /\ x \in Range(f.inactive)
            BY <1>2, <1>3, <1>5, <2>10, <4>2 DEF A, Owned
          <5>3. f.usage \in [TreeNode -> Nat]
            BY <1>3 DEF Accounted, Programs
          <5>4. Entities(f, A)
            <6>1. (A \cup {x}) \ A \subseteq Range(f.inactive) /\ A \in SUBSET (A \cup {x})
              BY <5>2
            <6> DEFINE C == A \cup {x}
            <6> HIDE DEF C, A
            <6>2. Entities(f, C) /\ A \in SUBSET C /\ C \ A \subseteq Range(f.inactive)
              BY <2>1, <6>1 DEF C
            <6> QED BY <5>3, <6>2, EntitiesLess
          <5>5. Settled(f)
            BY <1>3, <1>6, <5>4 DEF Settled
          <5> QED BY <1>3, <5>1, <5>5, WholeIs
        <4> QED BY <4>1, <4>2
      <3> HIDE DEF last, after
      <3>2. PushName(p, path, lacking) = got
        BY <1>1, <1>5, <2>10
      <3>3. Entered(got, p)
        BY <2>4, <2>10, <3>1 DEF Entered, g
      <3> QED BY <3>2, <3>3
    <2>11. CASE got.result = "memory error" /\ new
      <3>1. NewEntity(f, x, p, path)
        BY <1>2, <2>11
      <3>2. f.owner[x] = <<>> /\ Owned(f) = A /\ x \notin Range(f.inactive)
        BY <1>3, <1>6, <3>1 DEF NewEntity
      <3>3. g = f
        BY <2>3, <2>11, <3>2 DEF Answered
      <3>4. TreeWith(f.usage, f.node, f.name, Owned(f), path) /\ f.usage[path] = 1 /\ f.name[x] = path
        BY <3>1, <3>2 DEF NewEntity, A
      <3>5. Entities(f, Owned(f) \cup {x})
        BY <2>1, <3>2
      <3>6. Whole(last) /\ SameLevels(last, f)
        <4> DEFINE w == [PopNameList(f, path) EXCEPT !.name[x] = NoName]
        <4>3. Owned(f) \cap Range(f.inactive) \subseteq f.again
          BY <1>3, <1>6
        <4>1. Whole(w) /\ SameLevels(w, f)
          BY <1>3, <2>1, <3>2, <3>4, <3>5, <4>3, GivenBack
        <4>2. last = w
          BY <3>3
        <4> HIDE DEF last, w
        <4> QED BY <4>1, <4>2
      <3> HIDE DEF last, after
      <3>7. EnteredAs(last, NoEntity, "memory error", p)
        <4>1. "memory error" # "declared"
          OBVIOUS
        <4> QED BY <1>3, <3>6, <4>1 DEF EnteredAs, SameLevels
      <3>8. PushName(p, path, lacking) = Returns(last, NoEntity, "memory error")
        BY <1>1, <1>5, <2>11
      <3> QED BY <3>7, <3>8, EnteredReturned
    <2>12. got.result \in {"declared", "redeclared", "memory error"}
      BY <2>3 DEF Answered
    <2> QED BY <2>8, <2>9, <2>10, <2>11, <2>12
  <1> QED BY <1>4, <1>5

-----------------------------------------------------------------------------
(* inst_list and entername: the parameters, then the name.                  *)

LEMMA ShrinkEmpty ==
  ASSUME NEW p, Whole(p), Len(p.stack) >= 1, p.stack[Len(p.stack)] = <<>>
  PROVE  SameNames(ShrinkStack(p), p)
  <1>1. p \in Programs
    BY DEF Whole
  <1>2. PopObjects(p, <<>>) = p
    <2> DEFINE objects == <<>>
    <2>1. objects \in Seq(Item) /\ Len(objects) = 0
      OBVIOUS
    <2> HIDE DEF objects
    <2>2. PICK f : f[0] = p /\ f[Len(objects)] = PopObjects(p, objects)
      BY <1>1, <2>1, PopObjectsSteps
    <2> QED BY <2>1, <2>2 DEF objects
  <1>3. ShrinkStack(p) = [p EXCEPT !.stack = Front(@)]
    BY <1>2 DEF ShrinkStack, Last
  <1> QED BY <1>1, <1>3 DEF SameNames, Programs

\* The parameters change nothing about the names with parameters.
OnlyParameters(q, p) ==
    /\ Whole(q) /\ q.current = p.current /\ q.closed = p.closed /\ Len(q.stack) = Len(p.stack) /\ SameTree(q, p)
    /\ \A e \in PoolEntity : Held(q.stack, e) = Held(p.stack, e) /\ q.owner[e] = p.owner[e]
Known(p, w) ==
    {known \in [program : Programs, result : {"declared", "redeclared", "memory error"}, types : Seq(ParameterType(w))] :
        OnlyParameters(known.program, p)}

LEMMA EnterParameterIs ==
  ASSUME NEW p, Whole(p), p.current >= 1, Len(p.stack) = p.current, NEW w \in WrittenName,
         NEW known \in Known(p, w), NEW parameter \in Range(w.parameters), NEW lacking
  PROVE  /\ EnterParameter(known, parameter, lacking) \in Known(p, w)
         /\ EnterParameter(known, parameter, lacking).types \in {known.types, Append(known.types, parameter.type)}
  <1> DEFINE q == known.program
             g == GrowStack(q)
             x == parameter.name
             lack == IF lacking = "parameter" THEN "owner" ELSE "nothing"
             got == GetObject(g, x, lack)
             h == got.program
             r == ShrinkStack(h)
             m == p.current
             types == IF got.result = "declared" THEN Append(known.types, parameter.type) ELSE known.types
             next == [program |-> r, result |-> got.result, types |-> types]
  <1>1. EnterParameter(known, parameter, lacking) = IF known.result = "memory error" THEN known ELSE next
    BY DEF EnterParameter
  <1>2. /\ OnlyParameters(q, p) /\ known.types \in Seq(ParameterType(w))
    BY DEF Known
  <1>3. x \in Identifier /\ x \in ScopeEntity /\ x \notin PoolEntity /\ parameter.type \in ParameterType(w)
    BY ScopesAssumption DEF ScopeEntity, ParameterType
  <1>4. Whole(q) /\ q.current = m /\ q.closed = p.closed /\ Len(q.stack) = m /\ SameTree(q, p) /\ m \in Nat
    <2>1. p.current \in Nat
      BY DEF Whole, Programs
    <2> QED BY <1>2, <2>1 DEF OnlyParameters
  <1> HIDE DEF q
  <1>5. /\ Whole(g) /\ SameNames(g, q) /\ g.current = m /\ g.closed = q.closed
        /\ Len(g.stack) = m + 1 /\ g.stack[m + 1] = <<>>
        /\ \A e : Held(g.stack, e) = Held(q.stack, e)
    BY <1>4, GrowStackIs
  <1> HIDE DEF g
  <1>6. \A e : \A k \in Held(q.stack, e) : k \in 1..m
    BY <1>4 DEF Held
  <1>7. Got(got, g, x)
    <2>1. g.current \in 1..Len(g.stack)
      <3> HIDE DEF m
      <3>1. m >= 1
        BY DEF m
      <3> QED BY <1>4, <1>5, <3>1
    <2>2. \A k \in Held(g.stack, x) : k <= g.current
      <3>1. \A k \in 1..m : k <= m
        BY <1>4
      <3> QED BY <1>5, <1>6, <3>1
    <2>3. Accounted(g)
      BY <1>5, WholeIs
    <2> QED BY <1>3, <2>1, <2>2, <2>3, GetObjectIs
  <1> HIDE DEF got
  <1>8. ObjectFor(h, g, x) /\ Answered(got.result, h, g, x)
    BY <1>7 DEF Got
  <1> HIDE DEF h
  <1>9. /\ Accounted(h) /\ SameTree(h, g) /\ h.current = m /\ h.closed = g.closed
        /\ Len(h.stack) = m + 1 /\ h.stack[m + 1] = <<>>
        /\ \A e \in PoolEntity : Held(h.stack, e) = Held(g.stack, e) /\ h.owner[e] = g.owner[e]
    <2>1. m + 1 \in 1..Len(g.stack) /\ m + 1 # g.current
      BY <1>4, <1>5
    <2>2. \A e \in PoolEntity : e \in ScopeEntity /\ e # x
      BY <1>3 DEF ScopeEntity
    <2> QED BY <1>5, <1>8, <2>1, <2>2 DEF ObjectFor
  <1>10. Whole(h)
    <2>1. Owned(h) = Owned(g)
      BY <1>9 DEF Owned
    <2>2. Settled(g)
      BY <1>5, WholeIs
    <2>3. Settled(h)
      BY <1>9, <2>1, <2>2, SettledSame
    <2> QED BY <1>9, <2>3, WholeIs
  <1>11. Len(h.stack) >= 1
    BY <1>4, <1>9
  <1>12. /\ Whole(r) /\ r.current = m /\ r.closed = h.closed /\ Len(r.stack) = m
         /\ \A e \in ScopeEntity : Held(r.stack, e) = Held(h.stack, e) \ {m + 1}
    <2>1. /\ Whole(r) /\ r.current = h.current /\ r.closed = h.closed /\ Len(r.stack) = Len(h.stack) - 1
          /\ \A e \in ScopeEntity : Held(r.stack, e) = Held(h.stack, e) \ {Len(h.stack)}
      BY <1>10, <1>11, ShrinkStackIs
    <2>2. (m + 1) - 1 = m
      BY <1>4
    <2> HIDE DEF r
    <2> QED BY <1>9, <2>1, <2>2
  <1>13. SameNames(r, h)
    BY <1>9, <1>10, <1>11, ShrinkEmpty
  <1> HIDE DEF r
  <1>14. OnlyParameters(r, p)
    <2>1. SameTree(r, p)
      BY <1>4, <1>5, <1>9, <1>13 DEF SameTree, SameNames
    <2>2. \A e \in PoolEntity : Held(r.stack, e) = Held(p.stack, e) /\ r.owner[e] = p.owner[e]
      <3> TAKE e \in PoolEntity
      <3>1. e \in ScopeEntity
        BY DEF ScopeEntity
      <3>2. Held(r.stack, e) = Held(q.stack, e) \ {m + 1}
        BY <1>5, <1>9, <1>12, <3>1
      <3>3. m + 1 \notin Held(q.stack, e)
        <4>1. m + 1 \notin 1..m
          BY <1>4
        <4> QED BY <1>6, <4>1
      <3>4. Held(q.stack, e) = Held(p.stack, e) /\ q.owner[e] = p.owner[e]
        BY <1>2 DEF OnlyParameters, q
      <3>5. r.owner[e] = q.owner[e]
        BY <1>5, <1>9, <1>13 DEF SameNames
      <3> QED BY <3>2, <3>3, <3>4, <3>5
    <2> QED BY <1>4, <1>5, <1>9, <1>12, <2>1, <2>2 DEF OnlyParameters
  <1>15. types \in Seq(ParameterType(w)) /\ types \in {known.types, Append(known.types, parameter.type)}
    BY <1>2, <1>3
  <1>16. got.result \in {"declared", "redeclared", "memory error"} /\ r \in Programs
    BY <1>8, <1>12 DEF Answered, Whole
  <1> HIDE DEF types
  <1>17. next.program = r /\ next.types = types
         /\ next \in [program : Programs, result : {"declared", "redeclared", "memory error"}, types : Seq(ParameterType(w))]
    BY <1>15, <1>16
  <1> HIDE DEF next
  <1>18. next \in Known(p, w)
    BY <1>14, <1>17 DEF Known
  <1> QED BY <1>1, <1>15, <1>17, <1>18

LEMMA EvalNameListIs ==
  ASSUME NEW p, Whole(p), p.current >= 1, Len(p.stack) = p.current, NEW w \in WrittenName, NEW lacking
  PROVE  /\ EvalNameList(p, w, lacking) \in Known(p, w)
         /\ Len(EvalNameList(p, w, lacking).types) <= Len(w.parameters)
  <1> DEFINE objects == w.parameters
             n == Len(objects)
             E == Known(p, w)
             base == [program |-> p, result |-> "declared", types |-> <<>>]
             enter(known, parameter) == EnterParameter(known, parameter, lacking)
             D == SUBSET DOMAIN objects
             H == [x \in E \X (1..n) |-> enter(x[1], objects[x[2]])]
             Steps(g) == g = [s \in D |-> IF s = {} THEN base ELSE enter(g[s \ {Max(s)}], objects[Max(s)])]
             iter == CHOOSE g : Steps(g)
  <1>1. n \in Nat /\ DOMAIN objects = 1..n /\ \A i \in 1..n : objects[i] \in Range(objects)
    <2>1. objects \in Seq(Range(objects))
      BY ScopesAssumption
    <2> QED BY <2>1, LenProperties, RangeIs
  <1>2. H \in [E \X (1..n) -> E] /\ \A q \in E, i \in 1..n : H[<<q, i>>] = enter(q, objects[i])
    <2>1. \A q \in E, i \in 1..n : enter(q, objects[i]) \in E
      BY <1>1, EnterParameterIs
    <2> HIDE DEF E, enter, objects, n
    <2> QED BY <2>1
  <1>3. base \in E
    <2>1. base.program = p /\ OnlyParameters(p, p)
      BY DEF OnlyParameters, SameTree
    <2>2. base \in [program : Programs, result : {"declared", "redeclared", "memory error"}, types : Seq(ParameterType(w))]
      BY DEF Whole
    <2> HIDE DEF base
    <2> QED BY <2>1, <2>2 DEF Known
  <1>4. base.types = <<>>
    OBVIOUS
  <1> HIDE DEF H, E, base
  <1>5. \E g : Steps(g)
    <2>1. PICK g : /\ g \in [SUBSET (1..n) -> E]
                   /\ \A T \in SUBSET (1..n) : /\ g[T] = IF T = {} THEN base ELSE H[<<g[T \ {Max(T)}], Max(T)>>]
                                               /\ T # {} => Max(T) \in 1..n /\ T \ {Max(T)} \in SUBSET (1..n)
      <3> HIDE DEF n
      <3> QED BY <1>1, <1>2, <1>3, StepsExist
    <2>2. g \in [D -> E]
      BY <1>1, <2>1
    <2> HIDE DEF enter
    <2>3. \A s \in D : g[s] = IF s = {} THEN base ELSE enter(g[s \ {Max(s)}], objects[Max(s)])
      <3> TAKE s \in D
      <3>1. s \in SUBSET (1..n)
        BY <1>1
      <3>2. s # {} => Max(s) \in 1..n /\ g[s \ {Max(s)}] \in E
        BY <2>1, <3>1
      <3> QED BY <1>2, <2>1, <3>1, <3>2
    <2> HIDE DEF D
    <2>4. g = [s \in D |-> g[s]]
      BY <2>2
    <2> QED BY <2>3, <2>4
  <1>6. Steps(iter)
    <2> HIDE DEF Steps
    <2> QED BY <1>5
  <1>7. EvalNameList(p, w, lacking) = iter[DOMAIN objects]
    BY DEF EvalNameList, FoldLeft, MapThenFoldSet, base
  <1> HIDE DEF iter, enter
  <1>8. iter[{}] = base
    BY <1>6
  <1>9. ASSUME NEW i \in 1..n
        PROVE  iter[1..i] = enter(iter[1..i - 1], objects[i])
    <2>1. (1..i) # {} /\ Max(1..i) = i /\ (1..i) \ {i} = 1..i - 1 /\ (1..i) \in D
      <3> HIDE DEF D, n
      <3>1. i \in Nat /\ i > 0
        BY <1>1
      <3>2. (1..i) \subseteq DOMAIN objects
        BY <1>1, <3>1
      <3>3. (1..i) \in D
        BY <3>2 DEF D
      <3> HIDE DEF objects
      <3> QED BY <3>1, <3>3, FirstNumbers
    <2>2. iter[1..i] = enter(iter[(1..i) \ {Max(1..i)}], objects[Max(1..i)])
      <3> HIDE DEF D
      <3> QED BY <1>6, <2>1
    <2> QED BY <2>1, <2>2
  <1> HIDE DEF n
  <1>10. \A i \in 0..n : iter[1..i] \in E
    <2>1. \A i \in 1..n : iter[1..i - 1] \in E => iter[1..i] = H[<<iter[1..i - 1], i>>]
      BY <1>2, <1>9
    <2> QED BY <1>1, <1>2, <1>3, <1>8, <2>1, StepsInOrder
  <1> DEFINE few(i) == Len(iter[1..i].types) <= i
             P == {i \in Nat : i <= n => few(i)}
  <1>11. 0 \in P
    <2>1. 1..0 = {} /\ Len(<<>>) = 0
      OBVIOUS
    <2>2. few(0)
      BY <1>4, <1>8, <2>1
    <2> QED BY <2>2
  <1>12. ASSUME NEW i \in P
         PROVE  i + 1 \in P
    <2>1. i \in Nat /\ i + 1 \in Nat /\ (i <= n => few(i))
      OBVIOUS
    <2>2. ASSUME i + 1 <= n
          PROVE  few(i + 1)
      <3>1. i + 1 \in 1..n /\ (i + 1) - 1 = i /\ i <= n /\ i \in 0..n
        BY <1>1, <2>1, <2>2
      <3> DEFINE a == iter[1..i]
                 b == iter[1..i + 1]
                 t == objects[i + 1].type
      <3>2. b = enter(a, objects[i + 1]) /\ a \in E
        BY <1>9, <1>10, <3>1
      <3>3. objects[i + 1] \in Range(w.parameters)
        BY <1>1, <3>1
      <3> HIDE DEF a, b, objects
      <3>4. b.types \in {a.types, Append(a.types, t)}
        BY <3>2, <3>3, EnterParameterIs DEF E, enter
      <3>5. a.types \in Seq(ParameterType(w)) /\ t \in ParameterType(w)
        BY <3>2, <3>3 DEF E, Known, ParameterType
      <3> HIDE DEF t
      <3>6. Len(Append(a.types, t)) = Len(a.types) + 1 /\ Len(a.types) \in Nat
        BY <3>5, AppendProperties, LenProperties
      <3>7. Len(a.types) <= i
        BY <2>1, <3>1 DEF a
      <3>8. Len(b.types) <= i + 1
        BY <2>1, <3>4, <3>6, <3>7
      <3> QED BY <3>8 DEF b
    <2> HIDE DEF few
    <2> QED BY <2>1, <2>2
  <1>13. P = Nat
    <2>1. P \in SUBSET Nat
      OBVIOUS
    <2> HIDE DEF P
    <2> QED BY <1>11, <1>12, <2>1, AllNaturals
  <1>14. few(n)
    <2>1. n \in P /\ n <= n
      BY <1>1, <1>13
    <2> HIDE DEF few
    <2> QED BY <2>1
  <1>15. iter[1..n] \in E /\ EvalNameList(p, w, lacking) = iter[1..n]
    BY <1>1, <1>7, <1>10
  <1> QED BY <1>14, <1>15 DEF E, n

LEMMA InstListIs ==
  ASSUME NEW p, Whole(p), p.current >= 1, Len(p.stack) = p.current + 1, p.stack[Len(p.stack)] = <<>>,
         NEW w \in WrittenName, NEW lacking
  PROVE  Entered(InstList(p, w, lacking), p)
  <1> DEFINE c == p.current
             u == PushStack(p)
             names == EvalNameList(u, w, lacking)
             q == names.program
             back == PopStack(q)
             d == DownStack(q)
             path == NamePath(w, names.types)
             pushed == PushName(d, path, lacking)
  <1>1. InstList(p, w, lacking) = IF names.result = "memory error" THEN Returns(back, NoEntity, "memory error") ELSE pushed
    BY DEF InstList
  <1>2. p \in Programs /\ c \in Nat /\ Len(p.stack) = c + 1 /\ c >= 1
    BY DEF Whole, Programs
  <1>3. /\ Whole(u) /\ SameNames(u, p) /\ u.stack = p.stack /\ u.current = c + 1 /\ u.closed = p.closed
    <2> HIDE DEF c
    <2>1. c + 1 \in Nat /\ c < c + 1
      BY <1>2
    <2>2. u = [p EXCEPT !.current = c + 1]
      <3>1. p.current = c
        BY DEF c
      <3>2. p.current < Len(p.stack) /\ [p EXCEPT !.current = @ + 1] = [p EXCEPT !.current = c + 1]
        BY <1>2, <2>1, <3>1
      <3> QED BY <3>2 DEF PushStack
    <2> QED BY <2>1, <2>2, SameStack
  <1> HIDE DEF c, u
  <1>4. names \in Known(u, w) /\ Len(names.types) <= Len(w.parameters)
    <2>1. u.current >= 1 /\ Len(u.stack) = u.current
      BY <1>2, <1>3
    <2> QED BY <1>3, <2>1, EvalNameListIs
  <1> HIDE DEF names
  <1>5. OnlyParameters(q, u) /\ names.types \in Seq(ParameterType(w))
    BY <1>4 DEF Known
  <1> HIDE DEF q
  <1>6. /\ Whole(q) /\ q.current = c + 1 /\ q.closed = p.closed /\ Len(q.stack) = c + 1 /\ SameTree(q, p)
        /\ \A e \in PoolEntity : Held(q.stack, e) = Held(p.stack, e) /\ q.owner[e] = p.owner[e]
    BY <1>2, <1>3, <1>5 DEF OnlyParameters, SameTree, SameNames
  <1>7. Entered(Returns(back, NoEntity, "memory error"), p)
    <2>1. q.current = Len(q.stack) /\ q.current > 1 /\ q.current - 1 = c
      BY <1>2, <1>6
    <2>2. Whole(back) /\ back.current = c /\ back.closed = p.closed /\ Len(back.stack) = Len(p.stack)
      BY <1>2, <1>6, <2>1, PopStackIs
    <2> HIDE DEF back
    <2>3. EnteredAs(back, NoEntity, "memory error", p)
      <3>1. "memory error" # "declared" /\ p.current = c
        BY DEF c
      <3> QED BY <2>2, <3>1 DEF EnteredAs
    <2> QED BY <2>3, EnteredReturned
  <1>8. /\ Whole(d) /\ SameNames(d, q) /\ d.stack = q.stack /\ d.current = c /\ d.closed = p.closed
    <2>1. d = [q EXCEPT !.current = c]
      <3>1. q.current > 1 /\ q.current - 1 = c
        BY <1>2, <1>6
      <3> QED BY <3>1 DEF DownStack
    <2> QED BY <1>2, <1>6, <2>1, SameStack
  <1> HIDE DEF d
  <1>9. path \in FullName
    <2>1. w.parameters \in Seq(Range(w.parameters))
      BY ScopesAssumption
    <2>2. Len(w.parameters) \in Nat /\ Len(names.types) \in Nat
      BY <1>5, <2>1, LenProperties
    <2>3. names.types \in [1..Len(names.types) -> ParameterType(w)] /\ Len(names.types) \in 0..Len(w.parameters)
      BY <1>4, <1>5, <2>2, LenProperties
    <2>4. names.types \in SeqOf(ParameterType(w), Len(w.parameters))
      BY <2>3 DEF SeqOf
    <2> QED BY <2>4, PathIs
  <1> HIDE DEF path
  <1>11. \A e \in PoolEntity : \A k \in Held(d.stack, e) : k <= d.current
    <2> TAKE e \in PoolEntity
    <2>1. Held(d.stack, e) = Held(p.stack, e)
      BY <1>6, <1>8
    <2>2. \A k \in Held(p.stack, e) : k \in 1..(c + 1) /\ k # c + 1
      <3>1. Range(<<>>) = {}
        BY DEF Range
      <3> QED BY <1>2, <3>1 DEF Held
    <2>3. \A k \in 1..(c + 1) : k # c + 1 => k <= c
      BY <1>2
    <2> QED BY <1>8, <2>1, <2>2, <2>3
  <1>12. Entered(pushed, d)
    <2>1. d.current \in 1..Len(d.stack) /\ Len(d.stack) = d.current + 1
      BY <1>2, <1>6, <1>8
    <2> QED BY <1>8, <1>9, <1>11, <2>1, PushNameIs
  <1> HIDE DEF pushed
  <1>13. Entered(pushed, p)
    <2>1. d.current = p.current /\ d.closed = p.closed /\ Len(d.stack) = Len(p.stack)
      BY <1>2, <1>6, <1>8 DEF c
    <2> QED BY <1>12, <2>1 DEF Entered
  <1> QED BY <1>1, <1>7, <1>13

LEMMA EnterNameIs ==
  ASSUME NEW p, Whole(p), p.current >= 1, Len(p.stack) = p.current + 1, p.stack[Len(p.stack)] = <<>>,
         NEW name \in Identifier \cup WrittenName, NEW lacking
  PROVE  Entered(EnterName(p, name, lacking), p)
  <1>1. CASE name \notin Identifier
    <2>1. name \in WrittenName /\ EnterName(p, name, lacking) = InstList(p, name, lacking)
      BY <1>1 DEF EnterName
    <2> QED BY <1>1, <2>1, InstListIs
  <1>2. CASE name \in Identifier
    <2> DEFINE c == p.current
               got == GetObject(p, name, lacking)
               q == got.program
    <2>1. EnterName(p, name, lacking) = got
      BY <1>2 DEF EnterName
    <2>2. p \in Programs /\ c \in Nat /\ Len(p.stack) = c + 1 /\ c >= 1 /\ name \in ScopeEntity
          /\ name \notin PoolEntity
      BY <1>2, ScopesAssumption DEF Whole, Programs, ScopeEntity
    <2>3. \A k \in Held(p.stack, name) : k <= p.current
      <3>1. \A k \in Held(p.stack, name) : k \in 1..(c + 1) /\ k # c + 1
        <4>1. Range(<<>>) = {}
          BY DEF Range
        <4> HIDE DEF c
        <4> QED BY <2>2, <4>1 DEF Held
      <3> HIDE DEF c
      <3>2. \A k \in 1..(c + 1) : k # c + 1 => k <= c
        BY <2>2
      <3> QED BY <3>1, <3>2 DEF c
    <2>4. Got(got, p, name)
      <3>1. p.current \in 1..Len(p.stack)
        <4> HIDE DEF c
        <4>1. c \in 1..(c + 1)
          BY <2>2
        <4> QED BY <2>2, <4>1 DEF c
      <3>2. Accounted(p)
        BY WholeIs
      <3> QED BY <2>2, <2>3, <3>1, <3>2, GetObjectIs
    <2> HIDE DEF got
    <2>5. ObjectFor(q, p, name) /\ got.entity = name /\ Answered(got.result, q, p, name)
      BY <2>4 DEF Got
    <2> HIDE DEF q
    <2>6. Owned(q) = Owned(p)
      <3>1. \A e \in PoolEntity : e \in ScopeEntity /\ e # name
        BY <2>2 DEF ScopeEntity
      <3> QED BY <2>5, <3>1 DEF ObjectFor, Owned
    <2>7. Whole(q)
      <3>1. Settled(p)
        BY WholeIs
      <3>2. Settled(q)
        BY <2>5, <2>6, <3>1, SettledSame DEF ObjectFor
      <3> QED BY <2>5, <3>2, WholeIs DEF ObjectFor
    <2>8. Entered(got, p)
      <3>1. q.current = p.current /\ q.closed = p.closed /\ Len(q.stack) = Len(p.stack)
        BY <2>5 DEF ObjectFor
      <3>2. got.result = "declared" => q.owner[name] # <<>>
        BY <2>5 DEF Answered
      <3> QED BY <2>2, <2>5, <2>7, <3>1, <3>2 DEF Entered, q
    <2> QED BY <2>1, <2>8
  <1> QED BY <1>1, <1>2

-----------------------------------------------------------------------------
(* The inductive invariant: between declarations every level belongs to the *)
(* body of a function, and after prgDestr nothing is left.                   *)

ClosedProgram(again) == [EmptyProgram EXCEPT !.again = again, !.closed = TRUE]
ScopesIInv(p) ==
    /\ Whole(p) /\ p.current >= 1 /\ Len(p.stack) = p.current
    /\ p.closed => p = ClosedProgram(p.again)
ScopesInv == ScopesIInv(program)

LEMMA ReverseIs ==
  ASSUME NEW s \in Seq(Item), Distinct(s)
  PROVE  Reverse(s) \in Seq(Item) /\ Distinct(Reverse(s)) /\ Range(Reverse(s)) = Range(s)
  <1> DEFINE n == Len(s)
             t == Reverse(s)
  <1>1. n \in Nat /\ \A i \in 1..n : s[i] \in Item
    BY RangeIs
  <1>2. \A i \in 1..n : (n - i) + 1 \in 1..n /\ (n - ((n - i) + 1)) + 1 = i
    BY <1>1
  <1>3. t = [i \in 1..n |-> s[(n - i) + 1]]
    BY DEF Reverse
  <1> HIDE DEF t, n
  <1>4. t \in [1..n -> Item]
    BY <1>1, <1>2, <1>3
  <1>5. t \in Seq(Item) /\ Len(t) = n
    BY <1>1, <1>4, LenProperties
  <1>6. \A i \in 1..n : t[i] = s[(n - i) + 1] /\ s[i] = t[(n - i) + 1]
    BY <1>2, <1>3
  <1>7. Distinct(t)
    <2> SUFFICES ASSUME NEW i \in 1..n, NEW j \in 1..n, t[i] = t[j], t[i] # NoEntity
                 PROVE  i = j
      BY <1>5 DEF Distinct
    <2>1. (n - i) + 1 = (n - j) + 1
      BY <1>2, <1>6 DEF Distinct, n
    <2> QED BY <1>1, <2>1
  <1>8. Range(t) = Range(s)
    <2>1. \A x \in Range(t) : x \in Range(s)
      <3> TAKE x \in Range(t)
      <3>1. PICK i \in 1..n : t[i] = x
        BY <1>5, RangeIs
      <3>2. (n - i) + 1 \in 1..Len(s) /\ s[(n - i) + 1] = x
        BY <1>2, <1>6, <3>1 DEF n
      <3> QED BY <3>2, RangeIs
    <2>2. \A x \in Range(s) : x \in Range(t)
      <3> TAKE x \in Range(s)
      <3>1. PICK i \in 1..n : s[i] = x
        BY RangeIs DEF n
      <3>2. (n - i) + 1 \in 1..Len(t) /\ t[(n - i) + 1] = x
        BY <1>2, <1>5, <1>6, <3>1
      <3> QED BY <1>5, <3>2, RangeIs
    <2> QED BY <2>1, <2>2
  <1> QED BY <1>5, <1>7, <1>8 DEF t

\* The fields of a program.
Fields(stack, current, usage, node, name, owner, inactive, again, closed) ==
    [stack |-> stack, current |-> current, usage |-> usage, node |-> node, name |-> name,
     owner |-> owner, inactive |-> inactive, again |-> again, closed |-> closed]

Changed(p, stack, usage, node, name, inactive, closed) ==
    [p EXCEPT !.stack = stack, !.usage = usage, !.node = node, !.name = name, !.inactive = inactive, !.closed = closed]
Closed(p, again, closed) == [p EXCEPT !.again = again, !.closed = closed]

LEMMA FieldsClosed ==
  ASSUME NEW a, NEW b, NEW c, NEW d, NEW e, NEW f, NEW g, NEW x, NEW h, NEW x2, NEW h2
  PROVE  Closed(Fields(a, b, c, d, e, f, g, x, h), x2, h2) = Fields(a, b, c, d, e, f, g, x2, h2)
  <1> DEFINE p == Fields(a, b, c, d, e, f, g, x, h)
  <1>1. Closed(p, x2, h2) \in [stack : {a}, current : {b}, usage : {c}, node : {d}, name : {e}, owner : {f},
                               inactive : {g}, again : {x2}, closed : {h2}]
    BY DEF Fields, Closed
  <1> HIDE DEF p
  <1>2. Closed(p, x2, h2) = Fields(a, b, c, d, e, f, g, x2, h2)
    BY <1>1 DEF Fields
  <1> QED BY <1>2 DEF p

LEMMA FieldsChanged ==
  ASSUME NEW a, NEW b, NEW c, NEW d, NEW e, NEW f, NEW g, NEW x, NEW h,
         NEW a2, NEW c2, NEW d2, NEW e2, NEW g2, NEW h2
  PROVE  Changed(Fields(a, b, c, d, e, f, g, x, h), a2, c2, d2, e2, g2, h2) = Fields(a2, b, c2, d2, e2, f, g2, x, h2)
  <1> DEFINE p == Fields(a, b, c, d, e, f, g, x, h)
  <1>1. Changed(p, a2, c2, d2, e2, g2, h2)
            \in [stack : {a2}, current : {b}, usage : {c2}, node : {d2}, name : {e2}, owner : {f},
                 inactive : {g2}, again : {x}, closed : {h2}]
    BY DEF Fields, Changed
  <1> HIDE DEF p
  <1>2. Changed(p, a2, c2, d2, e2, g2, h2) = Fields(a2, b, c2, d2, e2, f, g2, x, h2)
    BY <1>1 DEF Fields
  <1> QED BY <1>2 DEF p

\* A program without names, at its beginning and after its end.
EmptyFields(again, closed) ==
    Fields(<< <<>> >>, 1, [n \in TreeNode |-> 0], [n \in TreeNode |-> NoEntity], [e \in PoolEntity |-> NoName],
           [e \in PoolEntity \cup Identifier |-> <<>>], <<>>, again, closed)

LEMMA EmptyAre ==
  EmptyProgram = EmptyFields({}, FALSE) /\ \A again : ClosedProgram(again) = EmptyFields(again, TRUE)
  <1>1. EmptyProgram = EmptyFields({}, FALSE)
    BY DEF EmptyProgram, EmptyFields, Fields
  <1>2. ASSUME NEW again
        PROVE  ClosedProgram(again) = EmptyFields(again, TRUE)
    <2> DEFINE stack == << <<>> >>
               usage == [n \in TreeNode |-> 0]
               node == [n \in TreeNode |-> NoEntity]
               name == [e \in PoolEntity |-> NoName]
               owner == [e \in PoolEntity \cup Identifier |-> <<>>]
               inactive == <<>>
               none == {}
               open == FALSE
               done == TRUE
               current == 1
    <2>1. ClosedProgram(again) = Closed(EmptyProgram, again, done)
      BY DEF ClosedProgram, Closed
    <2>2. /\ EmptyFields(none, open) = Fields(stack, current, usage, node, name, owner, inactive, none, open)
          /\ EmptyFields(again, done) = Fields(stack, current, usage, node, name, owner, inactive, again, done)
      BY DEF EmptyFields
    <2>3. EmptyProgram = EmptyFields(none, open)
      BY <1>1
    <2> HIDE DEF stack, current, usage, node, name, owner, inactive, none, open, done
    <2>4. ClosedProgram(again) = EmptyFields(again, done)
      BY <2>1, <2>2, <2>3, FieldsClosed
    <2> QED BY <2>4 DEF done
  <1> QED BY <1>1, <1>2

LEMMA EmptyIs ==
  ASSUME NEW again \in SUBSET PoolEntity, NEW closed \in BOOLEAN
  PROVE  LET p == EmptyFields(again, closed)
         IN Whole(p) /\ p.current = 1 /\ Len(p.stack) = 1 /\ p.closed = closed
  <1> DEFINE p == EmptyFields(again, closed)
             stack == << <<>> >>
  <1>1. /\ p.stack = << <<>> >> /\ p.current = 1 /\ p.closed = closed
        /\ p.usage = [n \in TreeNode |-> 0] /\ p.node = [n \in TreeNode |-> NoEntity]
        /\ p.name = [e \in PoolEntity |-> NoName] /\ p.owner = [e \in PoolEntity \cup Identifier |-> <<>>]
        /\ p.inactive = <<>> /\ p.again = again
    BY DEF EmptyFields, Fields
  <1>2. p \in Programs
    <2>1. p.stack \in Seq(Seq(ScopeEntity \cup {NoEntity})) /\ p.current \in Nat /\ p.inactive \in Seq(PoolEntity)
      <3> DEFINE none == <<>>
      <3>1. p.stack = <<none>> /\ p.current = 1 /\ p.inactive = <<>>
        BY <1>1
      <3>2. none \in Seq(ScopeEntity \cup {NoEntity})
        OBVIOUS
      <3> HIDE DEF none, p
      <3>3. <<none>> \in Seq(Seq(ScopeEntity \cup {NoEntity}))
        BY <3>2
      <3> QED BY <3>1, <3>3
    <2>2. p.usage \in [TreeNode -> Nat] /\ p.node \in [TreeNode -> PoolEntity \cup {NoEntity}]
      BY <1>1
    <2>3. p.name \in [PoolEntity -> FullName \cup {NoName}] /\ p.owner \in [ScopeEntity -> Seq(Owner)]
      <3>1. <<>> \in Seq(Owner)
        OBVIOUS
      <3> HIDE DEF p
      <3> QED BY <1>1, <3>1 DEF ScopeEntity
    <2>4. p = [stack |-> p.stack, current |-> p.current, usage |-> p.usage, node |-> p.node, name |-> p.name,
               owner |-> p.owner, inactive |-> p.inactive, again |-> p.again, closed |-> p.closed]
      BY DEF EmptyFields, Fields
    <2>5. p.closed \in BOOLEAN /\ p.again \in SUBSET PoolEntity
      BY <1>1
    <2> HIDE DEF p
    <2> QED BY <2>1, <2>2, <2>3, <2>4, <2>5 DEF Programs
  <1> HIDE DEF p
  <1>3. Len(p.stack) = 1 /\ p.stack[1] = <<>> /\ p.stack \in Seq(Seq(Item))
    BY <1>1
  <1>4. Stacks(p.stack) /\ \A e : Held(p.stack, e) = {}
    <2>1. \A l \in 1..Len(p.stack) : p.stack[l] = <<>>
      BY <1>3
    <2>2. Distinct(<<>>) /\ Range(<<>>) = {}
      BY DEF Distinct, Range
    <2> QED BY <1>3, <2>1, <2>2 DEF Stacks, Held
  <1>5. \A e \in ScopeEntity : p.owner[e] = <<>>
    BY <1>1 DEF ScopeEntity
  <1>6. Accounted(p)
    <2>1. OwnersIn(<<>>, {})
      BY DEF OwnersIn
    <2> QED BY <1>2, <1>4, <1>5, <2>1 DEF Accounted
  <1>7. Owned(p) = {} /\ Allocated(p) = {}
    BY <1>1, <1>5 DEF Owned, Allocated, ScopeEntity
  <1>8. Settled(p)
    <2>1. \A n \in TreeNode : p.usage[n] = 0 /\ p.node[n] = NoEntity
      BY <1>1
    <2>2. \A n : Under(p.name, {}, n) = {}
      BY DEF Under
    <2>3. Cardinality({}) = 0
      BY FS_EmptySet
    <2>4. TreeCore(p.usage, p.node, p.name, {})
      <3>1. \A n \in TreeNode : p.usage[n] >= Cardinality(Under(p.name, {}, n))
        BY <2>1, <2>2, <2>3
      <3> QED BY <2>1, <3>1 DEF TreeCore
    <2>5. p.inactive = <<>> /\ Len(<<>>) = 0 /\ Range(<<>>) = {}
      BY <1>1 DEF Range
    <2>6. ListedOnce(p.inactive, p.again) /\ Range(p.inactive) = {}
      BY <2>5 DEF ListedOnce
    <2>7. Entities(p, {})
      BY <1>7, <2>4, <2>6 DEF Entities
    <2> QED BY <1>7, <2>7 DEF Settled
  <1> QED BY <1>1, <1>3, <1>6, <1>7, <1>8, WholeIs DEF p

LEMMA EmptyIInv ==
  /\ ScopesIInv(EmptyProgram) /\ ~EmptyProgram.closed
  /\ \A again \in SUBSET PoolEntity : ScopesIInv(ClosedProgram(again)) /\ ClosedProgram(again).current = 1
  <1> DEFINE p == EmptyFields({}, FALSE)
  <1>1. Whole(p) /\ p.current = 1 /\ Len(p.stack) = 1 /\ p.closed = FALSE
    BY EmptyIs
  <1>2. p = EmptyProgram
    BY EmptyAre
  <1> HIDE DEF p
  <1>3. ScopesIInv(p)
    <2>1. p.current >= 1 /\ Len(p.stack) = p.current /\ ~p.closed
      BY <1>1
    <2> QED BY <1>1, <2>1 DEF ScopesIInv
  <1>4. ASSUME NEW again \in SUBSET PoolEntity
        PROVE  ScopesIInv(ClosedProgram(again)) /\ ClosedProgram(again).current = 1
    <2> DEFINE q == EmptyFields(again, TRUE)
    <2>1. Whole(q) /\ q.current = 1 /\ Len(q.stack) = 1 /\ q.closed = TRUE
      BY EmptyIs
    <2>2. q = ClosedProgram(again) /\ q.again = again
      <3>1. q = ClosedProgram(again)
        BY EmptyAre
      <3> QED BY <3>1 DEF EmptyFields, Fields
    <2> HIDE DEF q
    <2>3. q.current >= 1 /\ Len(q.stack) = q.current
      BY <2>1
    <2>4. ScopesIInv(q)
      BY <2>1, <2>2, <2>3 DEF ScopesIInv
    <2> QED BY <2>1, <2>2, <2>4
  <1> QED BY <1>1, <1>2, <1>3, <1>4

\* A program that names are declared in.
Open(p) == Whole(p) /\ p.current >= 1 /\ Len(p.stack) = p.current /\ p.closed = FALSE

\* The same with the new level for the parameters.
Upper(q, p) == Whole(q) /\ q.current = p.current /\ Len(q.stack) = p.current + 1 /\ q.closed = FALSE

LEMMA EnterGrown ==
  ASSUME NEW p, Open(p), NEW name \in Identifier \cup WrittenName, NEW lacking
  PROVE  LET r == EnterName(GrowStack(p), name, lacking)
         IN /\ Upper(r.program, p)
            /\ r.result = "declared" => r.entity \in ScopeEntity /\ r.program.owner[r.entity] # <<>>
  <1> DEFINE g == GrowStack(p)
             r == EnterName(g, name, lacking)
  <1>1. /\ Whole(g) /\ SameNames(g, p) /\ g.current = p.current /\ g.closed = FALSE
        /\ Len(g.stack) = p.current + 1 /\ g.stack[Len(g.stack)] = <<>>
    BY GrowStackIs DEF Open
  <1> HIDE DEF g
  <1>2. g.current >= 1 /\ Len(g.stack) = g.current + 1
    BY <1>1 DEF Open
  <1>3. Entered(r, g)
    BY <1>1, <1>2, EnterNameIs
  <1> HIDE DEF r
  <1> QED BY <1>1, <1>2, <1>3 DEF Entered, Upper, r, g

LEMMA UpperLeft ==
  ASSUME NEW p, Open(p), NEW q, Upper(q, p)
  PROVE  Open(ShrinkStack(q))
  <1> DEFINE c == p.current
             r == ShrinkStack(q)
  <1>1. c \in Nat /\ c >= 1 /\ Whole(q) /\ q.current = c /\ Len(q.stack) = c + 1 /\ q.closed = FALSE
    BY DEF Open, Upper, Whole, Programs
  <1> HIDE DEF c
  <1>2. Len(q.stack) >= 1 /\ Len(q.stack) - 1 = c
    BY <1>1
  <1>3. Whole(r) /\ r.current = q.current /\ r.closed = q.closed /\ Len(r.stack) = Len(q.stack) - 1
    BY <1>1, <1>2, ShrinkStackIs
  <1> HIDE DEF r
  <1>4. Open(r)
    BY <1>1, <1>2, <1>3 DEF Open
  <1> QED BY <1>4 DEF r

LEMMA OpenIsIInv ==
  ASSUME NEW p
  PROVE  /\ Open(p) => ScopesIInv(p)
         /\ ScopesIInv(p) /\ ~p.closed => Open(p)
  <1>1. Whole(p) => p.closed \in BOOLEAN
    BY DEF Whole, Programs
  <1> QED BY <1>1 DEF Open, ScopesIInv

LEMMA DeclaredForward ==
  ASSUME NEW p, NEW q, Upper(q, p), NEW e \in ScopeEntity, q.owner[e] # <<>>
  PROVE  Upper([q EXCEPT !.owner[e][1].forward = TRUE], p)
  <1> DEFINE s == q.owner[e]
             L == Held(q.stack, e)
             t == [s EXCEPT ![1].forward = TRUE]
             r == WithOwners(q, e, t)
  <1>1. [q EXCEPT !.owner[e][1].forward = TRUE] = r
    BY DEF WithOwners
  <1>2. q \in Programs /\ Accounted(q) /\ Settled(q)
    BY WholeIs DEF Upper, Accounted
  <1>3. OwnersIn(s, L) /\ s # <<>>
    BY <1>2 DEF Accounted
  <1> HIDE DEF s, L
  <1>4. OwnersIn(t, L)
    BY <1>3, OwnersForward
  <1> HIDE DEF t
  <1>5. t \in Seq(Owner) /\ t # <<>>
    BY <1>3, <1>4, OwnersFacts, OwnersTyped
  <1>6. OwnersAre(r, q, e, t)
    BY <1>2, <1>5, OwnersSet
  <1> HIDE DEF r
  <1>7. /\ r \in Programs /\ SameTree(r, q) /\ SameLevels(r, q)
        /\ \A f \in ScopeEntity : r.owner[f] = IF f = e THEN t ELSE q.owner[f]
    BY <1>6 DEF OwnersAre
  <1>8. Accounted(r)
    <2>1. \A f \in ScopeEntity : OwnersIn(r.owner[f], Held(q.stack, f))
      BY <1>2, <1>4, <1>7 DEF Accounted, L
    <2> QED BY <1>2, <1>7, <2>1 DEF Accounted, SameLevels
  <1>9. Owned(r) = Owned(q)
    <2>1. \A f \in PoolEntity : f \in ScopeEntity
      BY DEF ScopeEntity
    <2>2. \A f \in PoolEntity : r.owner[f] # <<>> <=> q.owner[f] # <<>>
      BY <1>5, <1>7, <2>1
    <2> QED BY <2>2 DEF Owned
  <1>10. Whole(r)
    BY <1>2, <1>7, <1>8, <1>9, SettledSame, WholeIs
  <1>11. Upper(r, p)
    BY <1>7, <1>10 DEF Upper, SameLevels
  <1> QED BY <1>1, <1>11

LEMMA EndOfBody ==
  ASSUME NEW p, Open(p), p.current > 1
  PROVE  Open(ShrinkStack(PopStack(p)))
  <1> DEFINE c == p.current
             w == PopStack(p)
             q == ShrinkStack(w)
  <1>1. c \in Nat /\ c > 1 /\ Whole(p) /\ c = Len(p.stack) /\ p.closed = FALSE
    BY DEF Open, Whole, Programs
  <1>2. Whole(w) /\ w.current = c - 1 /\ w.closed = FALSE /\ Len(w.stack) = c
    BY <1>1, PopStackIs
  <1> HIDE DEF c, w
  <1>3. Len(w.stack) >= 1 /\ c - 1 >= 1
    BY <1>1, <1>2
  <1>4. Whole(q) /\ q.current = w.current /\ q.closed = w.closed /\ Len(q.stack) = Len(w.stack) - 1
    BY <1>2, <1>3, ShrinkStackIs
  <1> HIDE DEF q
  <1>5. Open(q)
    BY <1>2, <1>3, <1>4 DEF Open
  <1> QED BY <1>5 DEF q, w

\* The program without its names, as CloseProgram leaves it.
Freed(p) ==
    [p EXCEPT !.stack = << <<>> >>,
              !.usage = [n \in TreeNode |-> 0],
              !.node = [n \in TreeNode |-> NoEntity],
              !.name = [e \in PoolEntity |-> IF e \in Range(p.inactive) THEN NoName ELSE @[e]],
              !.inactive = <<>>, !.closed = TRUE]

LEMMA EndOfProgram ==
  ASSUME NEW p, Open(p), p.current = 1
  PROVE  LET q == PopObjects(p, Reverse(p.stack[1]))
         IN q.again \in SUBSET PoolEntity /\ Freed(q) = ClosedProgram(q.again)
  <1> DEFINE s == p.stack[1]
             objects == Reverse(s)
             q == PopObjects(p, objects)
             H == HeldBy(p.stack)
             G == [e \in ScopeEntity |-> IF e \in Range(objects) THEN H[e] \ {1} ELSE H[e]]
  <1>1. Whole(p) /\ Stacks(p.stack) /\ Sound(p, H) /\ Len(p.stack) = 1 /\ 1 \in 1..Len(p.stack)
    BY DEF Open, Whole
  <1>2. objects \in Seq(Item) /\ Distinct(objects) /\ Range(objects) = Range(s)
    BY <1>1, StackTyped, ReverseIs
  <1>3. \A e \in ScopeEntity : H[e] = IF e \in Range(objects) THEN {1} ELSE {}
    BY <1>1, <1>2 DEF HeldBy, Held
  <1> HIDE DEF objects, H
  <1>4. \A e \in Range(objects) : e # NoEntity => 1 \in H[e] /\ \A k \in H[e] : k <= 1
    <2> TAKE e \in Range(objects)
    <2>1. e \in Item
      BY <1>2, RangeIs
    <2>2. e # NoEntity => H[e] = {1}
      BY <1>3, <2>1 DEF Item
    <2> QED BY <2>2
  <1>5. Sound(q, G) /\ SameLevels(q, p)
    BY <1>1, <1>2, <1>4, PopObjectsAre
  <1> HIDE DEF q
  <1>6. \A e \in ScopeEntity : G[e] = {}
    BY <1>3
  <1> HIDE DEF G
  <1>7. q \in Programs /\ \A e \in ScopeEntity : q.owner[e] = <<>>
    <2>1. \A e \in ScopeEntity : OwnersIn(q.owner[e], {})
      BY <1>5, <1>6 DEF Sound
    <2> QED BY <1>5, <2>1, OwnersFacts DEF Sound
  <1>8. Range(q.inactive) = Allocated(q)
    <2>1. Owned(q) = {}
      BY <1>7 DEF Owned, ScopeEntity
    <2>2. Range(q.inactive) \subseteq Allocated(q) /\ Allocated(q) \ Owned(q) \subseteq Range(q.inactive)
      BY <1>5 DEF Sound, Settled, Entities
    <2> QED BY <2>1, <2>2
  <1> DEFINE none == [e \in PoolEntity |-> NoName]
             names == [e \in PoolEntity |-> IF e \in Range(q.inactive) THEN NoName ELSE q.name[e]]
             owners == [e \in PoolEntity \cup Identifier |-> <<>>]
             closed == Freed(q)
  <1>9. names = none
    BY <1>8 DEF Allocated
  <1>10. q.owner = owners
    <2>1. q.owner \in [ScopeEntity -> Seq(Owner)]
      BY <1>7 DEF Programs
    <2> HIDE DEF owners
    <2>2. \A e \in ScopeEntity : q.owner[e] = owners[e]
      BY <1>7 DEF owners, ScopeEntity
    <2> QED BY <2>1, <2>2 DEF owners, ScopeEntity
  <1>11. q.current = 1
    BY <1>5 DEF SameLevels
  <1> DEFINE usage == [n \in TreeNode |-> 0]
             node == [n \in TreeNode |-> NoEntity]
             level == << <<>> >>
  <1> DEFINE done == TRUE
             nothing == <<>>
             again == q.again
  <1>12. ClosedProgram(again) = Fields(level, 1, usage, node, none, owners, nothing, again, done)
    <2>1. EmptyFields(again, done) = Fields(level, 1, usage, node, none, owners, nothing, again, done)
      BY DEF EmptyFields
    <2> QED BY <2>1, EmptyAre
  <1>13. closed = Changed(q, level, usage, node, names, nothing, done)
    BY DEF Freed, Changed
  <1> HIDE DEF usage, node, level, names, none, owners, closed, done, nothing, again
  <1>15. closed = ClosedProgram(again)
    <2>1. q = Fields(q.stack, 1, q.usage, q.node, q.name, owners, q.inactive, again, q.closed)
      BY <1>7, <1>10, <1>11 DEF Programs, Fields, again
    <2> DEFINE r == Fields(q.stack, 1, q.usage, q.node, q.name, owners, q.inactive, again, q.closed)
    <2>3. Changed(r, level, usage, node, names, nothing, done) = Fields(level, 1, usage, node, names, owners, nothing, again, done)
      BY FieldsChanged
    <2>4. q = r
      BY <2>1
    <2> HIDE DEF r
    <2>2. closed = Fields(level, 1, usage, node, names, owners, nothing, again, done)
      BY <1>13, <2>3, <2>4
    <2> QED BY <1>9, <1>12, <2>2
  <1>16. again \in SUBSET PoolEntity
    BY <1>7 DEF Programs, again
  <1> QED BY <1>15, <1>16 DEF closed, q, objects, s, again

LEMMA DeclarableName ==
  ASSUME NEW name \in Identifier \cup WrittenName, ScopesIInv(program), Declarable(name)
  PROVE  Open(program)
  BY OpenIsIInv DEF Declarable

\* Every step of a program keeps the invariant.
LEMMA ScopesStep ==
  ASSUME ScopesIInv(program), ScopesNext
  PROVE  ScopesIInv(program')
  <1>1. ASSUME NEW name \in Identifier \cup WrittenName, NEW lacking, Declare(name, lacking)
        PROVE  Open(program')
    <2> DEFINE r == EnterName(GrowStack(program), name, lacking)
    <2>1. Declarable(name) /\ program' = ShrinkStack(r.program)
      BY <1>1 DEF Declare
    <2>2. Open(program)
      BY <2>1, DeclarableName
    <2>3. Upper(r.program, program)
      BY <2>2, EnterGrown
    <2> HIDE DEF r
    <2> QED BY <2>1, <2>2, <2>3, UpperLeft
  <1>2. ASSUME NEW name \in Identifier \cup WrittenName, NEW lacking, DeclareForward(name, lacking)
        PROVE  Open(program')
    <2> DEFINE r == EnterName(GrowStack(program), name, lacking)
               q == r.program
               e == r.entity
               f == [q EXCEPT !.owner[e][1].forward = TRUE]
    <2>1. Declarable(name) /\ program' = ShrinkStack(IF r.result = "declared" THEN f ELSE q)
      BY <1>2 DEF DeclareForward
    <2>2. Open(program)
      BY <2>1, DeclarableName
    <2>3. Upper(q, program) /\ (r.result = "declared" => e \in ScopeEntity /\ q.owner[e] # <<>>)
      BY <2>2, EnterGrown
    <2> HIDE DEF r
    <2>4. r.result = "declared" => Upper(f, program)
      <3> HIDE DEF q, e
      <3> QED BY <2>3, DeclaredForward
    <2> HIDE DEF f, q
    <2>5. CASE r.result = "declared"
      BY <2>1, <2>2, <2>4, <2>5, UpperLeft
    <2>6. CASE r.result # "declared"
      BY <2>1, <2>2, <2>3, <2>6, UpperLeft
    <2> QED BY <2>5, <2>6
  <1>3. ASSUME NEW name \in Identifier \cup WrittenName, OpenBody(name)
        PROVE  Open(program')
    <2> DEFINE r == EnterName(GrowStack(program), name, "nothing")
               q == r.program
               c == program.current
    <2>1. Declarable(name) /\ program' = PushStack(q)
      BY <1>3 DEF OpenBody
    <2>2. Open(program)
      BY <2>1, DeclarableName
    <2>3. Upper(q, program)
      BY <2>2, EnterGrown
    <2> HIDE DEF r, q
    <2>4. Whole(q) /\ q.current = c /\ Len(q.stack) = c + 1 /\ q.closed = FALSE /\ c \in Nat
      BY <2>2, <2>3 DEF Upper, Open, Whole, Programs
    <2> HIDE DEF c
    <2>5. PushStack(q) = [q EXCEPT !.current = c + 1]
      <3>1. q.current < Len(q.stack)
        BY <2>4
      <3> QED BY <2>4, <3>1 DEF PushStack
    <2> DEFINE s == [q EXCEPT !.current = c + 1]
    <2>6. Whole(s) /\ s.stack = q.stack /\ s.current = c + 1 /\ s.closed = q.closed
      <3>1. c + 1 \in Nat
        BY <2>4
      <3> QED BY <2>4, <3>1, SameStack
    <2> HIDE DEF s
    <2>7. c + 1 >= 1
      BY <2>4
    <2>8. Open(s)
      BY <2>4, <2>6, <2>7 DEF Open
    <2> QED BY <2>1, <2>5, <2>8 DEF s
  <1>4. ASSUME CloseBody
        PROVE  Open(program')
    <2>1. program.current > 1 /\ program' = ShrinkStack(PopStack(program))
      BY <1>4 DEF CloseBody
    <2>2. ~program.closed
      <3>1. program.again \in SUBSET PoolEntity
        BY DEF ScopesIInv, Whole, Programs
      <3>2. program.closed => program.current = 1
        BY <3>1, EmptyIInv DEF ScopesIInv
      <3>3. ~(1 > 1)
        OBVIOUS
      <3> QED BY <2>1, <3>2, <3>3
    <2> QED BY <2>1, <2>2, OpenIsIInv, EndOfBody
  <1>5. ASSUME CloseProgram
        PROVE  \E again \in SUBSET PoolEntity : program' = ClosedProgram(again)
    <2>1. program.current = 1 /\ ~program.closed
          /\ program' = Freed(PopObjects(program, Reverse(program.stack[1])))
      BY <1>5 DEF CloseProgram, Freed
    <2> QED BY <2>1, OpenIsIInv, EndOfProgram
  <1>6. \/ \E name \in Identifier \cup WrittenName, lacking \in Lacking :
              Declare(name, lacking) \/ DeclareForward(name, lacking)
        \/ \E name \in Identifier \cup WrittenName : OpenBody(name)
        \/ CloseBody
        \/ CloseProgram
    BY DEF ScopesNext
  <1>7. Open(program') \/ \E again \in SUBSET PoolEntity : program' = ClosedProgram(again)
    BY <1>1, <1>2, <1>3, <1>4, <1>5, <1>6
  <1> QED BY <1>7, OpenIsIInv, EmptyIInv

\* The invariant is inductive.
LEMMA ScopesInvariant ==
  ScopesSpec => []ScopesInv
  <1>1. ScopesInit => ScopesInv
    BY EmptyIInv DEF ScopesInit, ScopesInv
  <1>2. ScopesInv /\ [ScopesNext]_program => ScopesInv'
    <2>1. ASSUME ScopesIInv(program), ScopesNext
          PROVE  ScopesIInv(program')
      BY <2>1, ScopesStep
    <2>2. ASSUME ScopesIInv(program), UNCHANGED program
          PROVE  ScopesIInv(program')
      BY <2>2
    <2> QED BY <2>1, <2>2 DEF ScopesInv
  <1> QED BY <1>1, <1>2, PTL DEF ScopesSpec

-----------------------------------------------------------------------------
(* The properties.                                                          *)

\* The entity has the name.
Names(p, e, name) == IF e \in Identifier THEN e = name ELSE e \in PoolEntity /\ p.name[e] = name
NamedLevels(p, name) == {l \in 1..Len(p.stack) : \E i \in DOMAIN p.stack[l] : Names(p, p.stack[l][i], name)}

LEMMA NamedIs ==
  ASSUME NEW p, NEW name
  PROVE  InnermostLevel(p, name) = IF NamedLevels(p, name) = {} THEN 0
                                   ELSE CHOOSE l \in NamedLevels(p, name) : \A k \in NamedLevels(p, name) : k <= l
  BY DEF InnermostLevel, NamedLevels, Names

\* When E has the entities of that name with objects, their levels are found.
LEMMA NamedAre ==
  ASSUME NEW p, Whole(p), NEW name, NEW E \in SUBSET ScopeEntity,
         \A e \in ScopeEntity : Held(p.stack, e) # {} => (Names(p, e, name) <=> e \in E)
  PROVE  NamedLevels(p, name) = UNION {Held(p.stack, e) : e \in E}
  <1>1. Stacks(p.stack) /\ NoEntity \notin ScopeEntity
    BY StackTyped DEF Whole
  <1>2. \A l \in 1..Len(p.stack) : p.stack[l] \in Seq(Item)
    BY <1>1, StackTyped
  <1>3. ASSUME NEW l \in NamedLevels(p, name)
        PROVE  \E e \in E : l \in Held(p.stack, e)
    <2>1. l \in 1..Len(p.stack) /\ \E i \in DOMAIN p.stack[l] : Names(p, p.stack[l][i], name)
      BY DEF NamedLevels
    <2>2. PICK i \in DOMAIN p.stack[l] : Names(p, p.stack[l][i], name)
      BY <2>1
    <2> DEFINE e == p.stack[l][i]
    <2>3. e \in Range(p.stack[l])
      BY DEF Range
    <2>4. e \in ScopeEntity
      BY <2>2 DEF Names, ScopeEntity
    <2> HIDE DEF e
    <2>5. l \in Held(p.stack, e)
      BY <2>1, <2>3 DEF Held
    <2> QED BY <2>2, <2>4, <2>5 DEF e
  <1>4. ASSUME NEW e \in E, NEW l \in Held(p.stack, e)
        PROVE  l \in NamedLevels(p, name)
    <2>1. l \in 1..Len(p.stack) /\ e \in Range(p.stack[l]) /\ Names(p, e, name)
      BY DEF Held
    <2>2. PICK i \in DOMAIN p.stack[l] : p.stack[l][i] = e
      BY <2>1 DEF Range
    <2> QED BY <2>1, <2>2 DEF NamedLevels
  <1> QED BY <1>3, <1>4

\* The level of the innermost declaration of an entity.
LEMMA LevelFound ==
  ASSUME NEW p, Whole(p), NEW name, NEW e \in ScopeEntity, NamedLevels(p, name) = Held(p.stack, e),
         p.owner[e] # <<>> \/ ~Linked(p, e)
  PROVE  LevelOf(p, e) = InnermostLevel(p, name)
  <1> DEFINE L == Held(p.stack, e)
             s == p.owner[e]
  <1>1. OwnersIn(s, L) /\ e # NoEntity
    BY WholeIs, StackTyped DEF Accounted, Whole
  <1>2. LevelOf(p, e) = IF s = <<>> THEN 0 ELSE Head(s).level
    BY <1>1 DEF LevelOf
  <1>3. InnermostLevel(p, name) = IF L = {} THEN 0 ELSE CHOOSE l \in L : \A k \in L : k <= l
    BY NamedIs
  <1> HIDE DEF s, L
  <1>4. CASE s = <<>>
    BY <1>1, <1>2, <1>3, <1>4, OwnersFacts
  <1>5. CASE s # <<>>
    <2> DEFINE m == s[1].level
    <2>1. L # {} /\ Head(s) = s[1] /\ m \in L /\ (\A l \in L : l <= m) /\ L \in SUBSET Nat
      <3>1. L # {} /\ Head(s) = s[1] /\ m \in L /\ \A l \in L : l <= m
        <4>1. /\ s = <<>> <=> L = {}
              /\ s # <<>> => /\ Head(s) = s[1] /\ s[1] \in Owner /\ s[1].level \in L /\ \A l \in L : l <= s[1].level
                             /\ OwnersIn(Tail(s), L \ {s[1].level})
          BY <1>1, OwnersFacts
        <4> QED BY <1>5, <4>1
      <3>2. L \in SUBSET Nat
        BY <1>1, OwnersTyped
      <3> QED BY <3>1, <3>2
    <2>2. LevelOf(p, e) = m
      BY <1>2, <1>5, <2>1
    <2> HIDE DEF m
    <2>3. \A l \in L : (\A k \in L : k <= l) => l = m
      BY <2>1
    <2>4. (CHOOSE l \in L : \A k \in L : k <= l) = m
      BY <2>1, <2>3
    <2> QED BY <1>3, <2>1, <2>2, <2>4
  <1> QED BY <1>4, <1>5

LEMMA NameFound ==
  ASSUME NEW p, Whole(p), NEW name \in Identifier \cup FullName, name \in FullName => ~Misread(p, name)
  PROVE  FindName(p, name) = InnermostLevel(p, name)
  <1>1. p \in Programs /\ Accounted(p) /\ Entities(p, Owned(p)) /\ NoEntity \notin ScopeEntity
    BY WholeIs, StackTyped DEF Accounted, Whole, Settled
  <1>2. \A e \in PoolEntity : e \notin Identifier /\ e \in ScopeEntity
    BY ScopesAssumption DEF ScopeEntity
  \* An entity with an object has a full name, whose node leads to it.
  <1>3. ASSUME NEW e \in PoolEntity, Held(p.stack, e) # {}
        PROVE  p.name[e] \in FullName /\ p.node[p.name[e]] = e
    <2>1. OwnersIn(p.owner[e], Held(p.stack, e))
      BY <1>1, <1>2 DEF Accounted
    <2>2. p.owner[e] # <<>>
      BY <1>3, <2>1, OwnersFacts
    <2>3. e \in Owned(p)
      BY <2>2 DEF Owned
    <2> QED BY <1>1, <2>3, NamesAre
  <1>4. CASE name \in Identifier
    <2>1. name \in ScopeEntity /\ name \notin FullName
      BY <1>4, ScopesAssumption DEF ScopeEntity
    <2>2. \A e \in ScopeEntity : Held(p.stack, e) # {} => (Names(p, e, name) <=> e \in {name})
      BY <1>2, <1>3, <1>4, <2>1 DEF Names, ScopeEntity
    <2>3. NamedLevels(p, name) = UNION {Held(p.stack, e) : e \in {name}}
      <3>1. {name} \in SUBSET ScopeEntity
        BY <2>1
      <3> QED BY <2>2, <3>1, NamedAre
    <2>4. NamedLevels(p, name) = Held(p.stack, name)
      BY <2>3
    <2>6. ~Linked(p, name)
      <3>1. p.inactive \in Seq(PoolEntity) /\ Len(p.inactive) \in Nat
        BY <1>1, LenProperties DEF Programs
      <3>2. \A i \in 1..Len(p.inactive) - 1 : i \in 1..Len(p.inactive)
        BY <3>1
      <3>3. \A i \in 1..Len(p.inactive) : p.inactive[i] \in PoolEntity
        BY <3>1, RangeIs
      <3> QED BY <1>2, <1>4, <3>2, <3>3 DEF Linked
    <2>5. LevelOf(p, name) = InnermostLevel(p, name)
      BY <2>1, <2>4, <2>6, LevelFound
    <2> QED BY <1>4, <2>5 DEF FindName
  <1>5. CASE name \in FullName
    <2> DEFINE e == p.node[name]
    <2>1. name \in TreeNode /\ name \notin Identifier /\ name \in Seq(PathSymbol) /\ Len(name) \in Nat
      BY <1>5, NodeFacts, ScopesAssumption, LenProperties
    <2>2. e \in PoolEntity \cup {NoEntity}
      BY <1>1, <2>1 DEF Programs
    <2>3. FindName(p, name) = IF \A n \in 1..Len(name) : p.usage[SubSeq(name, 1, n)] > 0 THEN LevelOf(p, e) ELSE 0
      BY <2>1 DEF FindName
    <2>4. \A f \in ScopeEntity : Held(p.stack, f) # {} => (Names(p, f, name) => f = e)
      <3> TAKE f \in ScopeEntity
      <3> HAVE Held(p.stack, f) # {}
      <3> HAVE Names(p, f, name)
      <3>1. f \in PoolEntity /\ p.name[f] = name
        BY <2>1 DEF Names
      <3> QED BY <1>3, <3>1
    <2>5. CASE e = NoEntity
      <3>1. FindName(p, name) = 0
        BY <2>3, <2>5 DEF LevelOf
      <3>2. \A f \in ScopeEntity : Held(p.stack, f) # {} => (Names(p, f, name) <=> f \in {})
        BY <1>1, <2>4, <2>5
      <3>3. NamedLevels(p, name) = UNION {Held(p.stack, f) : f \in {}}
        <4>1. {} \in SUBSET ScopeEntity
          OBVIOUS
        <4> QED BY <3>2, <4>1, NamedAre
      <3>4. NamedLevels(p, name) = {}
        BY <3>3
      <3> QED BY <3>1, <3>4, NamedIs
    <2>7. CASE e # NoEntity /\ p.owner[e] = <<>>
      <3>1. ~Linked(p, e)
        BY <1>5, <2>7 DEF Misread
      <3>2. LevelOf(p, e) = 0
        BY <2>7, <3>1 DEF LevelOf
      <3>3. FindName(p, name) = 0
        BY <2>3, <3>2
      <3>4. \A f \in ScopeEntity : Held(p.stack, f) # {} => (Names(p, f, name) <=> f \in {})
        <4>1. Held(p.stack, e) = {}
          <5>1. OwnersIn(p.owner[e], Held(p.stack, e))
            BY <1>1, <1>2, <2>2, <2>7 DEF Accounted
          <5> QED BY <2>7, <5>1, OwnersFacts
        <4> QED BY <2>4, <4>1
      <3>5. NamedLevels(p, name) = UNION {Held(p.stack, f) : f \in {}}
        <4>1. {} \in SUBSET ScopeEntity
          OBVIOUS
        <4> QED BY <3>4, <4>1, NamedAre
      <3>6. NamedLevels(p, name) = {}
        BY <3>5
      <3> QED BY <3>3, <3>6, NamedIs
    <2>6. CASE e # NoEntity /\ p.owner[e] # <<>>
      <3>1. e \in Owned(p) /\ p.name[e] = name /\ e \in PoolEntity /\ e \in ScopeEntity /\ e \notin Identifier
        <4>1. e \in Owned(p)
          BY <2>2, <2>6 DEF Owned
        <4>2. p.name[e] = name
          BY <1>1, <2>1, <2>6 DEF Entities, TreeCore
        <4> QED BY <1>2, <2>2, <2>6, <4>1, <4>2
      <3> HIDE DEF e
      <3>2. ASSUME NEW n \in 1..Len(name)
            PROVE  p.usage[SubSeq(name, 1, n)] > 0
        <4> DEFINE m == SubSeq(name, 1, n)
                   U == Under(p.name, Owned(p), m)
        <4>1. m \in TreeNode
          BY <2>1, NodeFacts
        <4>2. IsPrefix(m, name)
          <5>1. WholePath(name)
            BY <1>5, NodeFacts
          <5> QED BY <5>1, PrefixFacts
        <4>3. e \in U
          BY <3>1, <4>2 DEF Under
        <4>4. Owned(p) \in SUBSET PoolEntity
          BY DEF Owned
        <4>5. IsFiniteSet(U) /\ Cardinality(U) \in Nat
          BY <4>4, UnderIs
        <4>6. Cardinality(U) # 0
          BY <4>3, <4>5, FS_EmptySet
        <4>7. p.usage[m] \in Nat /\ p.usage[m] >= Cardinality(U)
          BY <1>1, <4>1 DEF Entities, TreeCore, Programs
        <4> HIDE DEF U, m
        <4>8. p.usage[m] > 0
          BY <4>5, <4>6, <4>7
        <4> QED BY <4>8 DEF m
      <3>3. FindName(p, name) = LevelOf(p, e)
        BY <2>3, <3>2 DEF e
      <3>4. \A f \in ScopeEntity : Held(p.stack, f) # {} => (Names(p, f, name) <=> f \in {e})
        BY <2>4, <3>1 DEF Names, e
      <3>5. NamedLevels(p, name) = UNION {Held(p.stack, f) : f \in {e}}
        <4>1. {e} \in SUBSET ScopeEntity
          BY <3>1
        <4> QED BY <3>4, <4>1, NamedAre
      <3>6. NamedLevels(p, name) = Held(p.stack, e)
        BY <3>5
      <3>7. p.owner[e] # <<>>
        BY <2>6
      <3> QED BY <3>1, <3>3, <3>6, <3>7, LevelFound
    <2> QED BY <2>5, <2>6, <2>7
  <1> QED BY <1>4, <1>5

(* Scopes: the levels, the tree of names and the owners of the entities      *)
(* keep their types: push_stack, pop_stack and the declarations of dcllib.c  *)
(* never leave the levels that are on the stack.                             *)
THEOREM ScopesTyped == ScopesSpec => []ScopesTypeOK
  <1>1. ScopesInv => ScopesTypeOK
    <2> SUFFICES ASSUME ScopesInv
                 PROVE  ScopesTypeOK
      OBVIOUS
    <2> DEFINE c == program.current
               m == Len(program.stack)
    <2>1. program \in Programs /\ c >= 1 /\ m = c
      BY DEF ScopesInv, ScopesIInv, Whole
    <2>2. c \in Nat
      BY <2>1 DEF Programs
    <2> HIDE DEF c, m
    <2>3. c \in 1..m
      BY <2>1, <2>2
    <2>4. program.current \in 1..Len(program.stack)
      BY <2>3 DEF c, m
    <2> QED BY <2>1, <2>4 DEF Programs, ScopesTypeOK, ScopeEntity, Owner
  <1> QED BY <1>1, ScopesInvariant, PTL

(* Scopes: find_name and find_entity return the declaration in the innermost *)
(* level that has one, whatever was declared forward, redeclared, shadowed   *)
(* or left before; a name without declarations is found only when its node   *)
(* is still in use and the link of its inactive entity is taken for an owner *)
(* (Misread, name.c:422-429).                                                *)
THEOREM InnermostAlwaysFound == ScopesSpec => []InnermostFound
  <1>1. ScopesInv => InnermostFound
    <2>1. ASSUME ScopesInv, NEW name \in Identifier \cup FullName, ~(name \in FullName /\ Misread(program, name))
          PROVE  FindName(program, name) = InnermostLevel(program, name)
      BY <2>1, NameFound DEF ScopesInv, ScopesIInv
    <2> QED BY <2>1 DEF InnermostFound
  <1> QED BY <1>1, ScopesInvariant, PTL

(* Scopes: pop_object and the error paths of get_entity and push_name lose   *)
(* no entity, and prgDestr leaves no name at all; an entity is twice in the  *)
(* list of inactive entities, and freed twice, only when it was declared     *)
(* again while it was in this list (name.c:426-429, entutl.c:784).           *)
THEOREM NoEntityLost == ScopesSpec => []EntitiesReleased
  <1>1. ScopesInv => EntitiesReleased
    <2> SUFFICES ASSUME ScopesInv
                 PROVE  EntitiesReleased
      OBVIOUS
    <2> DEFINE A == Owned(program)
    <2>1. Settled(program) /\ Len(program.stack) = program.current
          /\ (program.closed => program = [EmptyProgram EXCEPT !.again = program.again, !.closed = TRUE])
      BY WholeIs DEF ScopesInv, ScopesIInv, ClosedProgram
    <2>2. /\ ListedOnce(program.inactive, program.again) /\ Entities(program, A)
          /\ Range(program.inactive) \subseteq Allocated(program) /\ Allocated(program) \ A \subseteq Range(program.inactive)
          /\ A \cap Range(program.inactive) \subseteq program.again
      BY <2>1 DEF Settled, Entities
    <2>3. ASSUME NEW e \in Allocated(program)
          PROVE  IF program.owner[e] = <<>> THEN e \in Range(program.inactive)
                 ELSE /\ e \in Range(program.inactive) => e \in program.again
                      /\ program.node[program.name[e]] = e
      <3>1. e \in PoolEntity
        BY DEF Allocated
      <3>2. e \in A <=> program.owner[e] # <<>>
        BY <3>1 DEF Owned
      <3> HIDE DEF A
      <3>3. e \in A => program.node[program.name[e]] = e
        BY <2>2, NamesAre
      <3> QED BY <2>2, <3>2, <3>3
    <2> QED BY <2>1, <2>2, <2>3 DEF EntitiesReleased, ListedOnce
  <1> QED BY <1>1, ScopesInvariant, PTL
=============================================================================
