----------------------------- MODULE SqlProofs -----------------------------
(* Proofs about Sql for all numbers of databases, statements and variables: *)
(* usage counts are exact, connections outlive their statements, columns    *)
(* are read only from the current row, and prepared statements implement    *)
(* Cursor.  Proofs about Drivers for all numbers of statements and rows:    *)
(* commits are permanent, and all five drivers implement Cursor too.        *)
EXTENDS Sql, Drivers, FiniteSetTheorems, TLAPS

---------------------------------------------------------------------------
(* The inductive invariant, for a state h of the heap in which the databases *)
(* d and the statements s are referred to by nd[d] and ns[s] variables.      *)

DatabaseRecord == [usage : Nat, isOpen : BOOLEAN]
Connection == [open : BOOLEAN, abandoned : BOOLEAN, autocommit : BOOLEAN, uncommitted : BOOLEAN]
StmtRecord == [usage : Nat, db : Database \cup {NULL}, bound : SUBSET Param,
               executed : BOOLEAN, useStored : BOOLEAN, stored : BOOLEAN,
               fetchOkay : BOOLEAN, finished : BOOLEAN]
LiteStmt == [state : {"none", "ready", "row", "done", "failed"}, row : 0 .. MaxRow, rows : 0 .. MaxRow]
Heap == [database : [Database -> DatabaseRecord], connection : [Database -> Connection],
         stmt : [Stmt -> StmtRecord], lite : [Stmt -> LiteStmt]]

\* The statements of a database.
Refs(h, d) == {s \in Stmt : h.stmt[s].db = d}

Counted(h, nd, ns) ==
    /\ nd \in [Database -> Nat] /\ ns \in [Stmt -> Nat]
    /\ \A d \in Database : h.database[d].usage = nd[d] + Cardinality(Refs(h, d))
    /\ \A s \in Stmt : h.stmt[s].usage = ns[s]

\* A statement that was freed has no result, and another one has an open connection.
StmtsAlive(h) == \A s \in Stmt :
    IF h.stmt[s].usage = 0 THEN h.stmt[s] = NoStmt /\ h.lite[s] = NoLiteStmt
    ELSE h.stmt[s].db \in Database /\ h.lite[s].state # "none" /\ h.connection[h.stmt[s].db].open

DatabasesAlive(h) == \A d \in Database :
    /\ h.database[d].isOpen <=> (h.connection[d].open /\ ~h.connection[d].abandoned)
    /\ h.database[d].isOpen => h.database[d].usage > 0

\* What the flags of the driver say about the state of the statement in SQLite.
ResultKnown(t, l) ==
    /\ IF l.state = "row" THEN 1 <= l.row /\ l.row <= l.rows ELSE l.row = 0 /\ l.rows = 0
    /\ ~t.executed => l.state \in {"none", "ready", "failed"}
    /\ t.executed /\ t.useStored => /\ ~t.fetchOkay /\ ~t.finished
                                    /\ l.state \in {"row", "done"} /\ l.row \in {0, 1}
                                    /\ t.stored <=> l.state = "row"
    /\ t.executed /\ ~t.useStored => /\ t.fetchOkay <=> l.state = "row"
                                     /\ t.finished => l.state # "row"
                                     /\ ~t.finished => l.state \in {"row", "done"}
    /\ ~BindErrors /\ t.fetchOkay => t.executed

ResultsKnown(h) == \A s \in Stmt : ResultKnown(h.stmt[s], h.lite[s])

HeapInv(h, nd, ns) ==
    /\ h \in Heap /\ Counted(h, nd, ns)
    /\ StmtsAlive(h) /\ DatabasesAlive(h) /\ ResultsKnown(h)

\* The number of the variables V with the value x, for every x in X; one more
\* and one less for x.
Count(V, f, x) == Cardinality({v \in V : f[v] = x})
RefCount(V, X, f) == [x \in X |-> Count(V, f, x)]
Bump(X, n, x) == [y \in X |-> IF y = x THEN n[y] + 1 ELSE n[y]]
Drop(X, n, x) == [y \in X |-> IF y = x THEN n[y] - 1 ELSE n[y]]

SqlInv ==
    /\ databaseVariable \in [DatabaseVariable -> Database \cup {NULL}]
    /\ stmtVariable \in [StmtVariable -> Stmt \cup {NULL}]
    /\ HeapInv(heap, RefCount(DatabaseVariable, Database, databaseVariable),
                     RefCount(StmtVariable, Stmt, stmtVariable))

---------------------------------------------------------------------------
(* Counting, and the operators on the heap.                                 *)

\* When one variable changes, the number of variables that refer to x changes with it.
LEMMA CountChange ==
  ASSUME NEW V, IsFiniteSet(V), NEW f, NEW g, NEW v \in V, NEW x,
         \A w \in V : w # v => g[w] = f[w]
  PROVE  /\ Count(V, f, x) \in Nat /\ Count(V, g, x) \in Nat
         /\ f[v] = x => Count(V, f, x) > 0
         /\ (f[v] = x) <=> (g[v] = x) => Count(V, g, x) = Count(V, f, x)
         /\ f[v] = x /\ g[v] # x => Count(V, g, x) = Count(V, f, x) - 1
         /\ f[v] # x /\ g[v] = x => Count(V, g, x) = Count(V, f, x) + 1
  <1> DEFINE F == {w \in V : f[w] = x}
             G == {w \in V : g[w] = x}
             R == {w \in V : w # v /\ f[w] = x}
  <1>1. IsFiniteSet(R) /\ Cardinality(R) \in Nat /\ v \notin R
    BY FS_Subset, FS_CardinalityType
  <1>2. IsFiniteSet(R \cup {v}) /\ Cardinality(R \cup {v}) = Cardinality(R) + 1
    BY <1>1, FS_AddElement
  <1>3. F = IF f[v] = x THEN R \cup {v} ELSE R
    OBVIOUS
  <1>4. G = IF g[v] = x THEN R \cup {v} ELSE R
    OBVIOUS
  <1> HIDE DEF F, G, R
  <1>5. /\ Cardinality(F) = IF f[v] = x THEN Cardinality(R) + 1 ELSE Cardinality(R)
        /\ Cardinality(G) = IF g[v] = x THEN Cardinality(R) + 1 ELSE Cardinality(R)
    BY <1>2, <1>3, <1>4
  <1>6. /\ Cardinality(F) \in Nat /\ Cardinality(G) \in Nat
        /\ f[v] = x => Cardinality(F) > 0
        /\ (f[v] = x) <=> (g[v] = x) => Cardinality(G) = Cardinality(F)
        /\ f[v] = x /\ g[v] # x => Cardinality(G) = Cardinality(F) - 1
        /\ f[v] # x /\ g[v] = x => Cardinality(G) = Cardinality(F) + 1
    BY <1>1, <1>5
  <1> QED BY <1>6 DEF F, G, Count

LEMMA HeapTypes ==
  ASSUME NEW h \in Heap
  PROVE  /\ h.database \in [Database -> DatabaseRecord] /\ h.connection \in [Database -> Connection]
         /\ h.stmt \in [Stmt -> StmtRecord] /\ h.lite \in [Stmt -> LiteStmt]
         /\ \A d \in Database : /\ h.database[d] \in DatabaseRecord /\ h.connection[d] \in Connection
                                /\ h.database[d].usage \in Nat /\ h.database[d].isOpen \in BOOLEAN
         /\ \A s \in Stmt : /\ h.stmt[s] \in StmtRecord /\ h.lite[s] \in LiteStmt
                            /\ h.stmt[s].usage \in Nat /\ h.stmt[s].db \in Database \cup {NULL}
         /\ DOMAIN h = {"database", "connection", "stmt", "lite"}
  BY DEF Heap, DatabaseRecord, StmtRecord

\* The empty records have their types.
LEMMA EmptyRecords ==
  NoDatabase \in DatabaseRecord /\ NoConnection \in Connection /\ NoStmt \in StmtRecord
  /\ NoLiteStmt \in LiteStmt
  BY SqlAssumption DEF NoDatabase, DatabaseRecord, NoConnection, Connection, NoStmt, StmtRecord,
                       NoLiteStmt, LiteStmt

LEMMA MoreUsed ==
  ASSUME NEW r \in DatabaseRecord
  PROVE  LET q == [r EXCEPT !.usage = @ + 1]
         IN  q \in DatabaseRecord /\ q.usage = r.usage + 1 /\ (q.isOpen <=> r.isOpen)
  BY DEF DatabaseRecord

\* Setting one record of the heap.
WithDatabase(h, d, r) == [h EXCEPT !.database[d] = r]
WithConnection(h, d, r) == [h EXCEPT !.connection[d] = r]
WithStmt(h, s, r) == [h EXCEPT !.stmt[s] = r]
WithLite(h, s, r) == [h EXCEPT !.lite[s] = r]

LEMMA SetDatabase ==
  ASSUME NEW h \in Heap, NEW d \in Database, NEW r \in DatabaseRecord
  PROVE  LET g == WithDatabase(h, d, r)
         IN  /\ g \in Heap /\ g.database[d] = r
             /\ \A e \in Database : e # d => g.database[e] = h.database[e]
             /\ g.connection = h.connection /\ g.stmt = h.stmt /\ g.lite = h.lite
  BY DEF WithDatabase, Heap

LEMMA SetConnection ==
  ASSUME NEW h \in Heap, NEW d \in Database, NEW r \in Connection
  PROVE  LET g == WithConnection(h, d, r)
         IN  /\ g \in Heap /\ g.connection[d] = r
             /\ \A e \in Database : e # d => g.connection[e] = h.connection[e]
             /\ g.database = h.database /\ g.stmt = h.stmt /\ g.lite = h.lite
  BY DEF WithConnection, Heap

LEMMA SetStmt ==
  ASSUME NEW h \in Heap, NEW s \in Stmt, NEW r \in StmtRecord
  PROVE  LET g == WithStmt(h, s, r)
         IN  /\ g \in Heap /\ g.stmt[s] = r
             /\ \A t \in Stmt : t # s => g.stmt[t] = h.stmt[t]
             /\ g.database = h.database /\ g.connection = h.connection /\ g.lite = h.lite
  BY DEF WithStmt, Heap

LEMMA SetLite ==
  ASSUME NEW h \in Heap, NEW s \in Stmt, NEW r \in LiteStmt
  PROVE  LET g == WithLite(h, s, r)
         IN  /\ g \in Heap /\ g.lite[s] = r
             /\ \A t \in Stmt : t # s => g.lite[t] = h.lite[t]
             /\ g.database = h.database /\ g.connection = h.connection /\ g.stmt = h.stmt
  BY DEF WithLite, Heap

\* A usage of a database is given up: the last one closes the connection and frees it.
LEMMA Decrement ==
  ASSUME NEW h \in Heap, NEW d \in Database, h.database[d].usage > 0,
         h.database[d].usage = 1 => ~Busy(h, d)
  PROVE  LET g == DecrementDatabase(h, d)
             last == h.database[d].usage = 1
         IN  /\ g \in Heap /\ g.stmt = h.stmt /\ g.lite = h.lite
             /\ \A e \in Database : e # d => /\ g.database[e] = h.database[e]
                                             /\ g.connection[e] = h.connection[e]
             /\ g.database[d].usage = h.database[d].usage - 1
             /\ g.database[d].isOpen <=> (h.database[d].isOpen /\ ~last)
             /\ ~last => g.connection[d] = h.connection[d]
             /\ last => g.connection[d] = IF h.database[d].isOpen THEN NoConnection
                                          ELSE h.connection[d]
  <1> DEFINE g == DecrementDatabase(h, d)
  <1>1. h.database[d] \in DatabaseRecord /\ h.database[d].usage \in Nat /\ h.connection[d] \in Connection
    BY HeapTypes
  <1>2. CASE h.database[d].usage # 1
    <2> DEFINE r == [h.database[d] EXCEPT !.usage = @ - 1]
    <2>1. r \in DatabaseRecord /\ r.usage = h.database[d].usage - 1 /\ r.isOpen = h.database[d].isOpen
      BY <1>1 DEF DatabaseRecord
    <2>2. g = WithDatabase(h, d, r)
      BY <1>2 DEF DecrementDatabase, WithDatabase
    <2> HIDE DEF r, g
    <2>3. /\ g \in Heap /\ g.database[d] = r
          /\ \A e \in Database : e # d => g.database[e] = h.database[e]
          /\ g.connection = h.connection /\ g.stmt = h.stmt /\ g.lite = h.lite
      BY <2>1, <2>2, SetDatabase
    <2> QED BY <1>2, <2>1, <2>3 DEF g
  <1>3. CASE h.database[d].usage = 1 /\ h.database[d].isOpen
    <2> DEFINE closed == WithConnection(h, d, NoConnection)
    <2>1. g = WithDatabase(closed, d, NoDatabase)
      BY <1>3, HeapTypes, ZenonT(40) DEF DecrementDatabase, freeDatabase, CloseConnection, WithDatabase, WithConnection
    <2> HIDE DEF closed, g
    <2>2. /\ closed \in Heap /\ closed.connection[d] = NoConnection
          /\ \A e \in Database : e # d => closed.connection[e] = h.connection[e]
          /\ closed.database = h.database /\ closed.stmt = h.stmt /\ closed.lite = h.lite
      BY EmptyRecords, SetConnection DEF closed
    <2>3. /\ g \in Heap /\ g.database[d] = NoDatabase
          /\ \A e \in Database : e # d => g.database[e] = closed.database[e]
          /\ g.connection = closed.connection /\ g.stmt = closed.stmt /\ g.lite = closed.lite
      BY <2>1, <2>2, EmptyRecords, SetDatabase
    <2> QED BY <1>3, <2>2, <2>3 DEF g, NoDatabase
  <1>4. CASE h.database[d].usage = 1 /\ ~h.database[d].isOpen
    <2>1. g = WithDatabase(h, d, NoDatabase)
      BY <1>4 DEF DecrementDatabase, freeDatabase, WithDatabase
    <2> HIDE DEF g
    <2>2. /\ g \in Heap /\ g.database[d] = NoDatabase
          /\ \A e \in Database : e # d => g.database[e] = h.database[e]
          /\ g.connection = h.connection /\ g.stmt = h.stmt /\ g.lite = h.lite
      BY <2>1, EmptyRecords, SetDatabase
    <2> QED BY <1>4, <2>2 DEF g, NoDatabase
  <1> QED BY <1>2, <1>3, <1>4

\* What an assignment to a variable does to the counts.
LEMMA Assigned ==
  ASSUME NEW V, IsFiniteSet(V), NEW X, NULL \notin X, NEW f \in [V -> X \cup {NULL}],
         NEW v \in V, NEW x \in X \cup {NULL}, NEW g, g[v] = x,
         \A w \in V : w # v => g[w] = f[w]
  PROVE  LET n == RefCount(V, X, f)
         IN  /\ n \in [X -> Nat]
             /\ f[v] # NULL => f[v] \in X /\ n[f[v]] > 0
             /\ RefCount(V, X, g) = Drop(X, Bump(X, n, x), f[v])
  <1> DEFINE n == RefCount(V, X, f)
             m == RefCount(V, X, g)
  <1>1. g[v] = x /\ \A w \in V : w # v => g[w] = f[w]
    OBVIOUS
  <1>2. \A y \in X : n[y] = Count(V, f, y) /\ m[y] = Count(V, g, y)
    BY DEF RefCount
  <1>3. ASSUME NEW y \in X
        PROVE  /\ n[y] \in Nat /\ m[y] \in Nat
               /\ f[v] = y => n[y] > 0
               /\ m[y] = Drop(X, Bump(X, n, x), f[v])[y]
    <2>1. /\ n[y] \in Nat /\ m[y] \in Nat
          /\ f[v] = y => n[y] > 0
          /\ (f[v] = y) <=> (g[v] = y) => m[y] = n[y]
          /\ f[v] = y /\ g[v] # y => m[y] = n[y] - 1
          /\ f[v] # y /\ g[v] = y => m[y] = n[y] + 1
      <3>1. /\ Count(V, f, y) \in Nat /\ Count(V, g, y) \in Nat
            /\ f[v] = y => Count(V, f, y) > 0
            /\ (f[v] = y) <=> (g[v] = y) => Count(V, g, y) = Count(V, f, y)
            /\ f[v] = y /\ g[v] # y => Count(V, g, y) = Count(V, f, y) - 1
            /\ f[v] # y /\ g[v] = y => Count(V, g, y) = Count(V, f, y) + 1
        BY <1>1, CountChange
      <3> HIDE DEF n, m
      <3> QED BY <3>1, <1>2
    <2>2. Drop(X, Bump(X, n, x), f[v])[y] =
            IF y = f[v] THEN (IF y = x THEN n[y] + 1 ELSE n[y]) - 1
            ELSE IF y = x THEN n[y] + 1 ELSE n[y]
      BY DEF Drop, Bump
    <2> HIDE DEF n, m
    <2> QED BY <1>1, <2>1, <2>2
  <1>4. n \in [X -> Nat] /\ m = Drop(X, Bump(X, n, x), f[v])
    <2> DEFINE D == Drop(X, Bump(X, n, x), f[v])
    <2>1. n = [y \in X |-> n[y]] /\ m = [y \in X |-> m[y]]
      BY DEF RefCount
    <2>2. D = [y \in X |-> D[y]]
      BY DEF Drop
    <2>3. \A y \in X : n[y] \in Nat /\ m[y] = D[y]
      <3> HIDE DEF n, m
      <3> QED BY <1>3
    <2> HIDE DEF n, m, D
    <2>4. m = D
      BY <2>1, <2>2, <2>3
    <2>5. n \in [X -> Nat]
      BY <2>1, <2>3
    <2> QED BY <2>4, <2>5 DEF D
  <1>5. f[v] # NULL => f[v] \in X /\ n[f[v]] > 0
    <2> HIDE DEF n, m
    <2>1. f[v] \in X \cup {NULL}
      OBVIOUS
    <2>2. \A y \in X : f[v] = y => n[y] > 0
      BY <1>3
    <2> QED BY <2>1, <2>2
  <1> QED BY <1>1, <1>4, <1>5

\* One more and one less.
LEMMA Bumped ==
  ASSUME NEW X, NULL \notin X, NEW n \in [X -> Nat], NEW x
  PROVE  /\ Bump(X, n, x) \in [X -> Nat]
         /\ x \in X => Bump(X, n, x)[x] = n[x] + 1
         /\ \A y \in X : y # x => Bump(X, n, x)[y] = n[y]
         /\ x \notin X => Bump(X, n, x) = n
  BY DEF Bump

LEMMA Dropped ==
  ASSUME NEW X, NULL \notin X, NEW n \in [X -> Nat], NEW x, x \in X => n[x] > 0
  PROVE  /\ Drop(X, n, x) \in [X -> Nat]
         /\ x \in X => Drop(X, n, x)[x] = n[x] - 1
         /\ \A y \in X : y # x => Drop(X, n, x)[y] = n[y]
         /\ x \notin X => Drop(X, n, x) = n
  <1>1. x \in X => n[x] - 1 \in Nat
    OBVIOUS
  <1> QED BY <1>1 DEF Drop

\* The statements of a database are finitely many; an unused database has none.
LEMMA RefsCounted ==
  ASSUME NEW h, NEW nd, NEW ns, HeapInv(h, nd, ns), NEW d \in Database
  PROVE  /\ IsFiniteSet(Refs(h, d)) /\ Cardinality(Refs(h, d)) \in Nat
         /\ Cardinality(Refs(h, d)) = 0 => Refs(h, d) = {}
         /\ h.database[d].usage = nd[d] + Cardinality(Refs(h, d)) /\ nd[d] \in Nat
  <1>1. IsFiniteSet(Refs(h, d))
    BY SqlAssumption, FS_Subset DEF Refs
  <1>2. Cardinality(Refs(h, d)) \in Nat /\ (Cardinality(Refs(h, d)) = 0 => Refs(h, d) = {})
    BY <1>1, FS_CardinalityType, FS_EmptySet
  <1>3. h.database[d].usage = nd[d] + Cardinality(Refs(h, d)) /\ nd[d] \in Nat
    BY DEF HeapInv, Counted
  <1> QED BY <1>1, <1>2, <1>3

---------------------------------------------------------------------------
(* The operators on the heap keep its invariant.                            *)

\* A database is referred to once more.
LEMMA CreateDb ==
  ASSUME NEW h, NEW nd, NEW ns, HeapInv(h, nd, ns), NEW d \in Database \cup {NULL}
  PROVE  HeapInv(sqlCreateDb(h, d), Bump(Database, nd, d), ns)
  <1> DEFINE md == Bump(Database, nd, d)
  <1>0. NULL \notin Database /\ nd \in [Database -> Nat]
    BY SqlAssumption DEF HeapInv, Counted
  <1>1. CASE d = NULL
    BY <1>0, <1>1, Bumped DEF sqlCreateDb
  <1>2. CASE d # NULL
    <2> DEFINE r == [h.database[d] EXCEPT !.usage = @ + 1]
               g == WithDatabase(h, d, r)
    <2>1. d \in Database /\ h \in Heap /\ sqlCreateDb(h, d) = g
      BY <1>2 DEF HeapInv, sqlCreateDb, WithDatabase
    <2>2. h.database[d] \in DatabaseRecord /\ h.database[d].usage \in Nat
      BY <2>1, HeapTypes
    <2>3. r \in DatabaseRecord /\ r.usage = h.database[d].usage + 1 /\ r.isOpen = h.database[d].isOpen
      BY <2>2 DEF DatabaseRecord
    <2>4. md \in [Database -> Nat] /\ md[d] = nd[d] + 1 /\ \A e \in Database : e # d => md[e] = nd[e]
      BY <1>0, <2>1, Bumped
    <2> HIDE DEF r, g, md
    <2>5. /\ g \in Heap /\ g.database[d] = r
          /\ \A e \in Database : e # d => g.database[e] = h.database[e]
          /\ g.connection = h.connection /\ g.stmt = h.stmt /\ g.lite = h.lite
      BY <2>1, <2>3, SetDatabase DEF g
    <2>6. Counted(g, md, ns)
      <3>1. ASSUME NEW e \in Database PROVE g.database[e].usage = md[e] + Cardinality(Refs(g, e))
        <4>1. Refs(g, e) = Refs(h, e)
          BY <2>5 DEF Refs
        <4>2. h.database[e].usage = nd[e] + Cardinality(Refs(h, e)) /\ nd[e] \in Nat /\ Cardinality(Refs(h, e)) \in Nat
          BY RefsCounted
        <4> QED BY <2>3, <2>4, <2>5, <4>1, <4>2
      <3>2. \A s \in Stmt : g.stmt[s].usage = ns[s]
        BY <2>5 DEF HeapInv, Counted
      <3>3. ns \in [Stmt -> Nat]
        BY DEF HeapInv, Counted
      <3> QED BY <2>4, <3>1, <3>2, <3>3 DEF Counted
    <2>7. StmtsAlive(g) /\ ResultsKnown(g)
      BY <2>5 DEF HeapInv, StmtsAlive, ResultsKnown
    <2>8. DatabasesAlive(g)
      BY <2>2, <2>3, <2>5 DEF HeapInv, DatabasesAlive
    <2>9. HeapInv(g, md, ns)
      BY <2>5, <2>6, <2>7, <2>8 DEF HeapInv
    <2> QED BY <2>1, <2>9 DEF md
  <1> QED BY <1>1, <1>2

\* A variable no longer refers to a database.
LEMMA DestrDb ==
  ASSUME NEW h, NEW nd, NEW ns, HeapInv(h, nd, ns), NEW d \in Database \cup {NULL},
         d # NULL => nd[d] > 0
  PROVE  HeapInv(sqlDestrDb(h, d), Drop(Database, nd, d), ns)
  <1> DEFINE md == Drop(Database, nd, d)
  <1>0. NULL \notin Database /\ nd \in [Database -> Nat]
    BY SqlAssumption DEF HeapInv, Counted
  <1>1. CASE d = NULL
    BY <1>0, <1>1, Dropped DEF sqlDestrDb
  <1>2. CASE d # NULL
    <2> DEFINE g == DecrementDatabase(h, d)
               last == h.database[d].usage = 1
    <2>1. d \in Database /\ h \in Heap /\ sqlDestrDb(h, d) = g /\ nd[d] > 0
      BY <1>2 DEF HeapInv, sqlDestrDb
    <2>2. /\ Cardinality(Refs(h, d)) \in Nat /\ nd[d] \in Nat
          /\ Cardinality(Refs(h, d)) = 0 => Refs(h, d) = {}
          /\ h.database[d].usage = nd[d] + Cardinality(Refs(h, d))
      BY <2>1, RefsCounted
    <2>3. h.database[d].usage > 0 /\ (last => Refs(h, d) = {})
      BY <2>1, <2>2
    <2>4. last => ~Busy(h, d) /\ \A s \in Stmt : h.stmt[s].db # d
      BY <2>3 DEF Refs, Busy
    <2>5. md \in [Database -> Nat] /\ md[d] = nd[d] - 1 /\ \A e \in Database : e # d => md[e] = nd[e]
      BY <1>0, <2>1, Dropped
    <2> HIDE DEF md, g, last
    <2>6. /\ g \in Heap /\ g.stmt = h.stmt /\ g.lite = h.lite
          /\ \A e \in Database : e # d => /\ g.database[e] = h.database[e]
                                          /\ g.connection[e] = h.connection[e]
          /\ g.database[d].usage = h.database[d].usage - 1
          /\ g.database[d].isOpen <=> (h.database[d].isOpen /\ ~last)
          /\ ~last => g.connection[d] = h.connection[d]
          /\ last => g.connection[d] = IF h.database[d].isOpen THEN NoConnection
                                       ELSE h.connection[d]
      BY <2>1, <2>3, <2>4, Decrement DEF g, last
    <2>7. Counted(g, md, ns)
      <3>1. ASSUME NEW e \in Database PROVE g.database[e].usage = md[e] + Cardinality(Refs(g, e))
        <4>1. Refs(g, e) = Refs(h, e)
          BY <2>6 DEF Refs
        <4>2. h.database[e].usage = nd[e] + Cardinality(Refs(h, e)) /\ nd[e] \in Nat /\ Cardinality(Refs(h, e)) \in Nat
          BY RefsCounted
        <4> QED BY <2>5, <2>6, <4>1, <4>2
      <3>2. \A s \in Stmt : g.stmt[s].usage = ns[s]
        BY <2>6 DEF HeapInv, Counted
      <3>3. ns \in [Stmt -> Nat]
        BY DEF HeapInv, Counted
      <3> QED BY <2>5, <3>1, <3>2, <3>3 DEF Counted
    <2>8. StmtsAlive(g)
      <3>1. ASSUME NEW s \in Stmt, h.stmt[s].usage # 0
            PROVE  g.connection[h.stmt[s].db].open
        <4>1. h.stmt[s].db \in Database /\ h.connection[h.stmt[s].db].open
          BY <3>1 DEF HeapInv, StmtsAlive
        <4> QED BY <2>4, <2>6, <4>1
      <3> QED BY <2>6, <3>1 DEF HeapInv, StmtsAlive
    <2>9. DatabasesAlive(g)
      <3>1. /\ h.database[d].isOpen <=> (h.connection[d].open /\ ~h.connection[d].abandoned)
            /\ h.database[d].usage \in Nat
        BY <2>1, HeapTypes DEF HeapInv, DatabasesAlive
      <3>2. last => ~(g.connection[d].open /\ ~g.connection[d].abandoned) /\ ~g.database[d].isOpen
        BY <2>6, <3>1 DEF NoConnection
      <3>3. ~last => g.database[d].usage > 0
        BY <2>3, <2>6, <3>1 DEF last
      <3>4. /\ g.database[d].isOpen <=> (g.connection[d].open /\ ~g.connection[d].abandoned)
            /\ g.database[d].isOpen => g.database[d].usage > 0
        BY <2>6, <3>1, <3>2, <3>3
      <3>5. \A e \in Database : e # d =>
              /\ g.database[e].isOpen <=> (g.connection[e].open /\ ~g.connection[e].abandoned)
              /\ g.database[e].isOpen => g.database[e].usage > 0
        BY <2>6 DEF HeapInv, DatabasesAlive
      <3> QED BY <3>4, <3>5 DEF DatabasesAlive
    <2>10. ResultsKnown(g)
      BY <2>6 DEF HeapInv, ResultsKnown
    <2>11. HeapInv(g, md, ns)
      BY <2>6, <2>7, <2>8, <2>9, <2>10 DEF HeapInv
    <2> QED BY <2>1, <2>11 DEF md
  <1> QED BY <1>1, <1>2

\* One statement changes and keeps its database, and connections stay open.
LEMMA ChangeStmt ==
  ASSUME NEW h, NEW nd, NEW ns, HeapInv(h, nd, ns),
         NEW s \in Stmt, NEW g \in Heap, NEW ms \in [Stmt -> Nat],
         g.database = h.database,
         \A d \in Database : /\ g.connection[d].open <=> h.connection[d].open
                             /\ g.connection[d].abandoned <=> h.connection[d].abandoned,
         \A t \in Stmt : t # s => /\ g.stmt[t] = h.stmt[t] /\ g.lite[t] = h.lite[t]
                                  /\ ms[t] = ns[t],
         g.stmt[s].usage = ms[s], ms[s] > 0, h.stmt[s].usage > 0,
         g.stmt[s].db = h.stmt[s].db, g.lite[s].state # "none",
         ResultKnown(g.stmt[s], g.lite[s])
  PROVE  HeapInv(g, nd, ms)
  <1>0. h \in Heap
    BY DEF HeapInv
  <1>1. Counted(g, nd, ms)
    <2>1. ASSUME NEW d \in Database PROVE g.database[d].usage = nd[d] + Cardinality(Refs(g, d))
      <3>1. Refs(g, d) = Refs(h, d)
        BY DEF Refs
      <3> QED BY <3>1, RefsCounted
    <2>2. \A t \in Stmt : g.stmt[t].usage = ms[t]
      BY DEF HeapInv, Counted
    <2> QED BY <2>1, <2>2 DEF HeapInv, Counted
  <1>2. StmtsAlive(g)
    <2>1. ASSUME NEW t \in Stmt, h.stmt[t].usage # 0
          PROVE  h.stmt[t].db \in Database /\ h.lite[t].state # "none" /\ g.connection[h.stmt[t].db].open
      <3>1. h.stmt[t].db \in Database /\ h.lite[t].state # "none" /\ h.connection[h.stmt[t].db].open
        BY <2>1 DEF HeapInv, StmtsAlive
      <3> QED BY <3>1
    <2>2. h.stmt[s].usage # 0 /\ g.stmt[s].usage # 0
      <3>1. h.stmt[s].usage \in Nat /\ g.stmt[s].usage \in Nat
        BY <1>0, HeapTypes
      <3> QED BY <3>1
    <2>3. ASSUME NEW t \in Stmt, t # s
          PROVE  IF g.stmt[t].usage = 0 THEN g.stmt[t] = NoStmt /\ g.lite[t] = NoLiteStmt
                 ELSE g.stmt[t].db \in Database /\ g.lite[t].state # "none" /\ g.connection[g.stmt[t].db].open
      BY <2>1, <2>3 DEF HeapInv, StmtsAlive
    <2>4. g.stmt[s].db \in Database /\ g.connection[g.stmt[s].db].open
      BY <2>1, <2>2
    <2> QED BY <2>2, <2>3, <2>4 DEF StmtsAlive
  <1>3. DatabasesAlive(g)
    BY DEF HeapInv, DatabasesAlive
  <1>4. ResultsKnown(g)
    BY DEF HeapInv, ResultsKnown
  <1> QED BY <1>1, <1>2, <1>3, <1>4 DEF HeapInv

\* A statement is referred to once more.
LEMMA CreateStmt ==
  ASSUME NEW h, NEW nd, NEW ns, HeapInv(h, nd, ns), NEW s \in Stmt \cup {NULL},
         s # NULL => ns[s] > 0
  PROVE  HeapInv(sqlCreateStmt(h, s), nd, Bump(Stmt, ns, s))
  <1> DEFINE ms == Bump(Stmt, ns, s)
  <1>0. NULL \notin Stmt /\ ns \in [Stmt -> Nat] /\ h \in Heap
    BY SqlAssumption DEF HeapInv, Counted
  <1>1. CASE s = NULL
    BY <1>0, <1>1, Bumped DEF sqlCreateStmt
  <1>2. CASE s # NULL
    <2> DEFINE r == [h.stmt[s] EXCEPT !.usage = @ + 1]
               g == WithStmt(h, s, r)
    <2>1. s \in Stmt /\ sqlCreateStmt(h, s) = g
      BY <1>2 DEF sqlCreateStmt, WithStmt
    <2>2. h.stmt[s] \in StmtRecord /\ h.stmt[s].usage \in Nat
      BY <1>0, <2>1, HeapTypes
    <2>3. /\ r \in StmtRecord /\ r.usage = h.stmt[s].usage + 1 /\ r.db = h.stmt[s].db
          /\ r.executed = h.stmt[s].executed /\ r.useStored = h.stmt[s].useStored
          /\ r.stored = h.stmt[s].stored /\ r.fetchOkay = h.stmt[s].fetchOkay
          /\ r.finished = h.stmt[s].finished
      BY <2>2 DEF StmtRecord
    <2>4. ms \in [Stmt -> Nat] /\ ms[s] = ns[s] + 1 /\ \A t \in Stmt : t # s => ms[t] = ns[t]
      BY <1>0, <2>1, Bumped
    <2> HIDE DEF r, g, ms
    <2>5. /\ g \in Heap /\ g.stmt[s] = r
          /\ \A t \in Stmt : t # s => g.stmt[t] = h.stmt[t]
          /\ g.database = h.database /\ g.connection = h.connection /\ g.lite = h.lite
      BY <1>0, <2>1, <2>3, SetStmt DEF g
    <2>6. h.stmt[s].usage = ns[s] /\ ns[s] > 0
      BY <1>2, <2>1 DEF HeapInv, Counted
    <2>7. g.lite[s].state # "none"
      BY <2>1, <2>5, <2>6 DEF HeapInv, StmtsAlive
    <2>8. ResultKnown(g.stmt[s], g.lite[s])
      <3>1. ResultKnown(h.stmt[s], h.lite[s])
        BY <2>1 DEF HeapInv, ResultsKnown
      <3> QED BY <2>3, <2>5, <3>1 DEF ResultKnown
    <2>9. HeapInv(g, nd, ms)
      <3>1. g.stmt[s].usage = ms[s] /\ ms[s] > 0 /\ h.stmt[s].usage > 0 /\ g.stmt[s].db = h.stmt[s].db
        BY <2>2, <2>3, <2>4, <2>5, <2>6
      <3> QED BY <2>1, <2>4, <2>5, <2>7, <2>8, <3>1, ChangeStmt
    <2> QED BY <2>1, <2>9 DEF ms
  <1> QED BY <1>1, <1>2

\* The last reference to a statement is given up: it is finalized, then its
\* database is given up.
LEMMA FreeStmtKeeps ==
  ASSUME NEW h, NEW nd, NEW ns, HeapInv(h, nd, ns), NEW s \in Stmt, ns[s] = 1
  PROVE  HeapInv(freePreparedStmt(h, s), nd, Drop(Stmt, ns, s))
  <1> DEFINE ms == Drop(Stmt, ns, s)
             d == h.stmt[s].db
             f == WithLite(h, s, NoLiteStmt)
             k == DecrementDatabase(f, d)
             g == WithStmt(k, s, NoStmt)
             last == f.database[d].usage = 1
  <1>0. NULL \notin Stmt /\ NULL \notin Database /\ ns \in [Stmt -> Nat] /\ h \in Heap
    BY SqlAssumption DEF HeapInv, Counted
  <1>1. freePreparedStmt(h, s) = g
    BY DEF freePreparedStmt, WithLite, WithStmt
  <1>2. h.stmt[s].usage = 1 /\ d \in Database /\ s \in Refs(h, d)
    BY DEF HeapInv, Counted, StmtsAlive, Refs
  <1>3. ms \in [Stmt -> Nat] /\ ms[s] = 0 /\ \A t \in Stmt : t # s => ms[t] = ns[t]
    BY <1>0, Dropped
  <1> HIDE DEF ms, d, f, k, g, last
  <1>4. /\ f \in Heap /\ f.lite[s] = NoLiteStmt
        /\ \A t \in Stmt : t # s => f.lite[t] = h.lite[t]
        /\ f.database = h.database /\ f.connection = h.connection /\ f.stmt = h.stmt
    BY <1>0, EmptyRecords, SetLite DEF f
  <1>5. /\ IsFiniteSet(Refs(h, d)) /\ Cardinality(Refs(h, d)) \in Nat /\ nd[d] \in Nat
        /\ h.database[d].usage = nd[d] + Cardinality(Refs(h, d))
    BY <1>2, RefsCounted
  <1>6. /\ Cardinality(Refs(h, d) \ {s}) = Cardinality(Refs(h, d)) - 1
        /\ IsFiniteSet(Refs(h, d) \ {s}) /\ Cardinality(Refs(h, d) \ {s}) \in Nat
    BY <1>2, <1>5, FS_RemoveElement, FS_CardinalityType
  <1>7. f.database[d].usage > 0 /\ (last => Refs(h, d) \ {s} = {})
    <2>1. last => Cardinality(Refs(h, d) \ {s}) = 0
      BY <1>4, <1>5, <1>6 DEF last
    <2>2. Cardinality(Refs(h, d) \ {s}) = 0 => Refs(h, d) \ {s} = {}
      BY <1>6, FS_EmptySet
    <2> QED BY <1>4, <1>5, <1>6, <2>1, <2>2
  <1>8. last => ~Busy(f, d)
    BY <1>4, <1>7 DEF Busy, Refs, NoLiteStmt
  <1>9. /\ k \in Heap /\ k.stmt = h.stmt /\ k.lite = f.lite
        /\ \A e \in Database : e # d => /\ k.database[e] = h.database[e]
                                        /\ k.connection[e] = h.connection[e]
        /\ k.database[d].usage = h.database[d].usage - 1
        /\ k.database[d].isOpen <=> (h.database[d].isOpen /\ ~last)
        /\ ~last => k.connection[d] = h.connection[d]
        /\ last => k.connection[d] = IF h.database[d].isOpen THEN NoConnection ELSE h.connection[d]
    <2>1. /\ k \in Heap /\ k.stmt = f.stmt /\ k.lite = f.lite
          /\ \A e \in Database : e # d => /\ k.database[e] = f.database[e]
                                          /\ k.connection[e] = f.connection[e]
          /\ k.database[d].usage = f.database[d].usage - 1
          /\ k.database[d].isOpen <=> (f.database[d].isOpen /\ ~last)
          /\ ~last => k.connection[d] = f.connection[d]
          /\ last => k.connection[d] = IF f.database[d].isOpen THEN NoConnection ELSE f.connection[d]
      BY <1>2, <1>4, <1>7, <1>8, Decrement DEF k, last
    <2> QED BY <1>4, <2>1
  <1>10. /\ g \in Heap /\ g.stmt[s] = NoStmt
         /\ \A t \in Stmt : t # s => g.stmt[t] = h.stmt[t] /\ g.lite[t] = h.lite[t]
         /\ g.database = k.database /\ g.connection = k.connection /\ g.lite[s] = NoLiteStmt
    <2>1. /\ g \in Heap /\ g.stmt[s] = NoStmt
          /\ \A t \in Stmt : t # s => g.stmt[t] = k.stmt[t]
          /\ g.database = k.database /\ g.connection = k.connection /\ g.lite = k.lite
      BY <1>9, EmptyRecords, SetStmt DEF g
    <2> QED BY <1>4, <1>9, <2>1
  <1>11. Counted(g, nd, ms)
    <2>1. Refs(g, d) = Refs(h, d) \ {s}
      BY <1>0, <1>2, <1>10 DEF Refs, NoStmt
    <2>2. g.database[d].usage = nd[d] + Cardinality(Refs(g, d))
      BY <1>5, <1>6, <1>9, <1>10, <2>1
    <2>3. ASSUME NEW e \in Database, e # d
          PROVE  g.database[e].usage = nd[e] + Cardinality(Refs(g, e))
      <3>1. Refs(g, e) = Refs(h, e)
        BY <1>0, <1>2, <1>10, <2>3 DEF Refs, NoStmt, d
      <3> QED BY <1>9, <1>10, <2>3, <3>1, RefsCounted
    <2>4. \A t \in Stmt : g.stmt[t].usage = ms[t]
      BY <1>3, <1>10 DEF HeapInv, Counted, NoStmt
    <2>5. nd \in [Database -> Nat]
      BY DEF HeapInv, Counted
    <2> QED BY <1>3, <2>2, <2>3, <2>4, <2>5 DEF Counted
  <1>12. StmtsAlive(g)
    <2>1. ASSUME NEW t \in Stmt, t # s
          PROVE  IF g.stmt[t].usage = 0 THEN g.stmt[t] = NoStmt /\ g.lite[t] = NoLiteStmt
                 ELSE g.stmt[t].db \in Database /\ g.lite[t].state # "none" /\ g.connection[g.stmt[t].db].open
      <3>1. IF h.stmt[t].usage = 0 THEN h.stmt[t] = NoStmt /\ h.lite[t] = NoLiteStmt
            ELSE h.stmt[t].db \in Database /\ h.lite[t].state # "none" /\ h.connection[h.stmt[t].db].open
        BY DEF HeapInv, StmtsAlive
      <3>2. last => h.stmt[t].db # d
        BY <1>7, <2>1 DEF Refs
      <3>3. h.stmt[t].usage # 0 => g.connection[h.stmt[t].db].open
        BY <1>9, <1>10, <3>1, <3>2
      <3> QED BY <1>10, <2>1, <3>1, <3>3
    <2>2. g.stmt[s].usage = 0
      BY <1>10 DEF NoStmt
    <2> QED BY <1>10, <2>1, <2>2 DEF StmtsAlive
  <1>13. DatabasesAlive(g)
    <2>1. /\ h.database[d].isOpen <=> (h.connection[d].open /\ ~h.connection[d].abandoned)
          /\ h.database[d].usage \in Nat /\ h.database[d].usage > 0
      BY <1>0, <1>2, <1>4, <1>7, HeapTypes DEF HeapInv, DatabasesAlive
    <2>2. last => ~(g.connection[d].open /\ ~g.connection[d].abandoned) /\ ~g.database[d].isOpen
      BY <1>9, <1>10, <2>1 DEF NoConnection
    <2>3. ~last => g.database[d].usage > 0
      BY <1>4, <1>9, <1>10, <2>1 DEF last
    <2>4. /\ g.database[d].isOpen <=> (g.connection[d].open /\ ~g.connection[d].abandoned)
          /\ g.database[d].isOpen => g.database[d].usage > 0
      BY <1>9, <1>10, <2>1, <2>2, <2>3
    <2>5. \A e \in Database : e # d =>
            /\ g.database[e].isOpen <=> (g.connection[e].open /\ ~g.connection[e].abandoned)
            /\ g.database[e].isOpen => g.database[e].usage > 0
      BY <1>9, <1>10 DEF HeapInv, DatabasesAlive
    <2> QED BY <2>4, <2>5 DEF DatabasesAlive
  <1>14. ResultsKnown(g)
    <2>1. ResultKnown(NoStmt, NoLiteStmt)
      BY SqlAssumption DEF ResultKnown, NoStmt, NoLiteStmt
    <2> QED BY <1>10, <2>1 DEF HeapInv, ResultsKnown
  <1>15. HeapInv(g, nd, ms)
    BY <1>10, <1>11, <1>12, <1>13, <1>14 DEF HeapInv
  <1> QED BY <1>1, <1>15 DEF ms

\* A variable no longer refers to a statement.
LEMMA DestrStmt ==
  ASSUME NEW h, NEW nd, NEW ns, HeapInv(h, nd, ns), NEW s \in Stmt \cup {NULL},
         s # NULL => ns[s] > 0
  PROVE  HeapInv(sqlDestrStmt(h, s), nd, Drop(Stmt, ns, s))
  <1> DEFINE ms == Drop(Stmt, ns, s)
  <1>0. NULL \notin Stmt /\ ns \in [Stmt -> Nat] /\ h \in Heap
    BY SqlAssumption DEF HeapInv, Counted
  <1>1. CASE s = NULL
    BY <1>0, <1>1, Dropped DEF sqlDestrStmt
  <1>2. CASE s # NULL /\ ns[s] = 1
    <2>1. s \in Stmt /\ h.stmt[s].usage = 1
      BY <1>2 DEF HeapInv, Counted
    <2>2. sqlDestrStmt(h, s) = freePreparedStmt(h, s)
      BY <1>2, <2>1 DEF sqlDestrStmt
    <2> QED BY <1>2, <2>1, <2>2, FreeStmtKeeps
  <1>3. CASE s # NULL /\ ns[s] # 1
    <2> DEFINE r == [h.stmt[s] EXCEPT !.usage = @ - 1]
               g == WithStmt(h, s, r)
    <2>1. s \in Stmt /\ h.stmt[s].usage = ns[s] /\ ns[s] > 1
      BY <1>0, <1>3 DEF HeapInv, Counted
    <2>2. sqlDestrStmt(h, s) = g
      BY <1>3, <2>1 DEF sqlDestrStmt, WithStmt
    <2>3. h.stmt[s] \in StmtRecord /\ h.stmt[s].usage \in Nat
      BY <1>0, <2>1, HeapTypes
    <2>4. /\ r \in StmtRecord /\ r.usage = h.stmt[s].usage - 1 /\ r.db = h.stmt[s].db
          /\ r.executed = h.stmt[s].executed /\ r.useStored = h.stmt[s].useStored
          /\ r.stored = h.stmt[s].stored /\ r.fetchOkay = h.stmt[s].fetchOkay
          /\ r.finished = h.stmt[s].finished
      BY <2>1, <2>3 DEF StmtRecord
    <2>5. ms \in [Stmt -> Nat] /\ ms[s] = ns[s] - 1 /\ \A t \in Stmt : t # s => ms[t] = ns[t]
      BY <1>0, <1>3, <2>1, Dropped
    <2> HIDE DEF r, g, ms
    <2>6. /\ g \in Heap /\ g.stmt[s] = r
          /\ \A t \in Stmt : t # s => g.stmt[t] = h.stmt[t]
          /\ g.database = h.database /\ g.connection = h.connection /\ g.lite = h.lite
      BY <1>0, <2>1, <2>4, SetStmt DEF g
    <2>7. g.lite[s].state # "none"
      BY <2>1, <2>6 DEF HeapInv, StmtsAlive
    <2>8. ResultKnown(g.stmt[s], g.lite[s])
      <3>1. ResultKnown(h.stmt[s], h.lite[s])
        BY <2>1 DEF HeapInv, ResultsKnown
      <3> QED BY <2>4, <2>6, <3>1 DEF ResultKnown
    <2>9. HeapInv(g, nd, ms)
      <3>1. g.stmt[s].usage = ms[s] /\ ms[s] > 0 /\ h.stmt[s].usage > 0 /\ g.stmt[s].db = h.stmt[s].db
        BY <2>1, <2>3, <2>4, <2>5, <2>6
      <3> QED BY <2>1, <2>5, <2>6, <2>7, <2>8, <3>1, ChangeStmt
    <2> QED BY <2>2, <2>9 DEF ms
  <1> QED BY <1>1, <1>2, <1>3

\* A result of a statement changes, and the statement stays in use.
LEMMA SetBoth ==
  ASSUME NEW h, NEW nd, NEW ns, HeapInv(h, nd, ns), NEW s \in Stmt, h.stmt[s].usage > 0,
         NEW t \in StmtRecord, NEW l \in LiteStmt,
         t.usage = h.stmt[s].usage, t.db = h.stmt[s].db, l.state # "none", ResultKnown(t, l)
  PROVE  HeapInv(WithLite(WithStmt(h, s, t), s, l), nd, ns)
  <1> DEFINE f == WithStmt(h, s, t)
             g == WithLite(f, s, l)
  <1>0. h \in Heap /\ ns \in [Stmt -> Nat] /\ h.stmt[s].usage = ns[s]
    BY DEF HeapInv, Counted
  <1>1. /\ f \in Heap /\ f.stmt[s] = t
        /\ \A u \in Stmt : u # s => f.stmt[u] = h.stmt[u]
        /\ f.database = h.database /\ f.connection = h.connection /\ f.lite = h.lite
    BY <1>0, SetStmt
  <1> HIDE DEF f
  <1>2. /\ g \in Heap /\ g.lite[s] = l
        /\ \A u \in Stmt : u # s => g.lite[u] = f.lite[u]
        /\ g.database = f.database /\ g.connection = f.connection /\ g.stmt = f.stmt
    BY <1>1, SetLite
  <1> HIDE DEF g
  <1>3. HeapInv(g, nd, ns)
    <2>1. /\ \A d \in Database : /\ g.connection[d].open <=> h.connection[d].open
                                 /\ g.connection[d].abandoned <=> h.connection[d].abandoned
          /\ \A u \in Stmt : u # s => g.stmt[u] = h.stmt[u] /\ g.lite[u] = h.lite[u]
          /\ g.stmt[s] = t /\ g.lite[s] = l /\ g.database = h.database
      BY <1>1, <1>2
    <2> QED BY <1>0, <1>2, <2>1, ChangeStmt
  <1> QED BY <1>3 DEF f, g

\* A connection changes and is still open, or closed, as before.
LEMMA ConnectionKeeps ==
  ASSUME NEW h, NEW nd, NEW ns, HeapInv(h, nd, ns), NEW d \in Database, NEW c \in Connection,
         c.open <=> h.connection[d].open, c.abandoned <=> h.connection[d].abandoned
  PROVE  HeapInv(WithConnection(h, d, c), nd, ns)
  <1> DEFINE g == WithConnection(h, d, c)
  <1>1. /\ g \in Heap /\ g.connection[d] = c
        /\ \A e \in Database : e # d => g.connection[e] = h.connection[e]
        /\ g.database = h.database /\ g.stmt = h.stmt /\ g.lite = h.lite
    BY SetConnection DEF HeapInv
  <1> HIDE DEF g
  <1>2. Counted(g, nd, ns)
    <2>1. \A e \in Database : Refs(g, e) = Refs(h, e)
      BY <1>1 DEF Refs
    <2> QED BY <1>1, <2>1 DEF HeapInv, Counted
  <1>3. StmtsAlive(g)
    BY <1>1 DEF HeapInv, StmtsAlive
  <1>4. DatabasesAlive(g)
    BY <1>1 DEF HeapInv, DatabasesAlive
  <1>5. ResultsKnown(g)
    BY <1>1 DEF HeapInv, ResultsKnown
  <1>6. HeapInv(g, nd, ns)
    BY <1>1, <1>2, <1>3, <1>4, <1>5 DEF HeapInv
  <1> QED BY <1>6 DEF g

\* A database that was opened has one reference and no statement.
LEMMA OpenKeeps ==
  ASSUME NEW nd, NEW ns, HeapInv(heap, nd, ns), NEW d \in FreeDatabase
  PROVE  HeapInv([heap EXCEPT !.database[d] = [usage |-> 1, isOpen |-> TRUE],
                              !.connection[d] = [NoConnection EXCEPT !.open = TRUE]],
                 Bump(Database, nd, d), ns)
  <1> DEFINE r == [usage |-> 1, isOpen |-> TRUE]
             c == [NoConnection EXCEPT !.open = TRUE]
             f == WithDatabase(heap, d, r)
             g == WithConnection(f, d, c)
             md == Bump(Database, nd, d)
  <1>0. /\ d \in Database /\ heap \in Heap /\ nd \in [Database -> Nat] /\ NULL \notin Database
        /\ heap.database[d].usage = 0 /\ ~heap.connection[d].open
    BY SqlAssumption DEF FreeDatabase, HeapInv, Counted
  <1>1. r \in DatabaseRecord /\ c \in Connection
    BY DEF DatabaseRecord, Connection, NoConnection
  <1>2. /\ Cardinality(Refs(heap, d)) \in Nat /\ nd[d] \in Nat
        /\ Cardinality(Refs(heap, d)) = 0 => Refs(heap, d) = {}
        /\ heap.database[d].usage = nd[d] + Cardinality(Refs(heap, d))
    BY <1>0, RefsCounted
  <1>3. nd[d] = 0 /\ Cardinality(Refs(heap, d)) = 0
    BY <1>0, <1>2
  <1>4. md \in [Database -> Nat] /\ md[d] = nd[d] + 1 /\ \A e \in Database : e # d => md[e] = nd[e]
    BY <1>0, Bumped
  <1>5. r.usage = 1 /\ r.isOpen /\ c.open /\ ~c.abandoned
    BY DEF NoConnection
  <1>6. [heap EXCEPT !.database[d] = [usage |-> 1, isOpen |-> TRUE],
                     !.connection[d] = [NoConnection EXCEPT !.open = TRUE]] = g
    BY DEF WithDatabase, WithConnection
  <1> HIDE DEF r, c, f, g, md
  <1>7. /\ f \in Heap /\ f.database[d] = r
        /\ \A e \in Database : e # d => f.database[e] = heap.database[e]
        /\ f.connection = heap.connection /\ f.stmt = heap.stmt /\ f.lite = heap.lite
    BY <1>0, <1>1, SetDatabase DEF f
  <1>8. /\ g \in Heap /\ g.connection[d] = c
        /\ \A e \in Database : e # d => g.connection[e] = heap.connection[e]
        /\ g.database = f.database /\ g.stmt = heap.stmt /\ g.lite = heap.lite
    <2>1. /\ g \in Heap /\ g.connection[d] = c
          /\ \A e \in Database : e # d => g.connection[e] = f.connection[e]
          /\ g.database = f.database /\ g.stmt = f.stmt /\ g.lite = f.lite
      BY <1>0, <1>1, <1>7, SetConnection DEF g
    <2> QED BY <1>7, <2>1
  <1>9. Counted(g, md, ns)
    <2>1. \A e \in Database : Refs(g, e) = Refs(heap, e)
      BY <1>8 DEF Refs
    <2>2. g.database[d].usage = md[d] + Cardinality(Refs(g, d))
      BY <1>0, <1>3, <1>4, <1>5, <1>7, <1>8, <2>1
    <2>3. ASSUME NEW e \in Database, e # d
          PROVE  g.database[e].usage = md[e] + Cardinality(Refs(g, e))
      BY <1>4, <1>7, <1>8, <2>1, <2>3, RefsCounted
    <2>4. ns \in [Stmt -> Nat] /\ \A s \in Stmt : g.stmt[s].usage = ns[s]
      BY <1>8 DEF HeapInv, Counted
    <2> QED BY <1>4, <2>2, <2>3, <2>4 DEF Counted
  <1>10. StmtsAlive(g)
    <2>1. ASSUME NEW s \in Stmt, heap.stmt[s].usage # 0
          PROVE  g.connection[heap.stmt[s].db].open
      <3>1. heap.stmt[s].db \in Database /\ heap.connection[heap.stmt[s].db].open
        BY <2>1 DEF HeapInv, StmtsAlive
      <3> QED BY <1>0, <1>8, <3>1
    <2> QED BY <1>8, <2>1 DEF HeapInv, StmtsAlive
  <1>11. DatabasesAlive(g)
    <2>1. g.database[d].isOpen /\ g.connection[d].open /\ ~g.connection[d].abandoned
          /\ g.database[d].usage > 0
      BY <1>5, <1>7, <1>8
    <2>2. \A e \in Database : e # d =>
            /\ g.database[e].isOpen <=> (g.connection[e].open /\ ~g.connection[e].abandoned)
            /\ g.database[e].isOpen => g.database[e].usage > 0
      BY <1>7, <1>8 DEF HeapInv, DatabasesAlive
    <2> QED BY <2>1, <2>2 DEF DatabasesAlive
  <1>12. ResultsKnown(g)
    BY <1>8 DEF HeapInv, ResultsKnown
  <1>13. HeapInv(g, md, ns)
    BY <1>8, <1>9, <1>10, <1>11, <1>12 DEF HeapInv
  <1> QED BY <1>6, <1>13 DEF md

\* A statement that was prepared has one reference and refers to its database.
LEMMA PreparedKeeps ==
  ASSUME NEW nd, NEW ns, HeapInv(heap, nd, ns), NEW s \in FreeStmt,
         NEW d \in Database, heap.database[d].isOpen
  PROVE  HeapInv(Prepared(s, d), nd, Bump(Stmt, ns, s)) /\ ns[s] = 0
  <1> DEFINE r == [NoStmt EXCEPT !.usage = 1, !.db = d]
             q == [heap.database[d] EXCEPT !.usage = @ + 1]
             f == WithStmt(heap, s, r)
             k == WithDatabase(f, d, q)
             g == WithLite(k, s, Ready)
             ms == Bump(Stmt, ns, s)
  <1>0. /\ s \in Stmt /\ heap \in Heap /\ ns \in [Stmt -> Nat] /\ NULL \notin Database /\ NULL \notin Stmt
        /\ heap.stmt[s].usage = 0 /\ ns[s] = 0 /\ nd \in [Database -> Nat]
    BY SqlAssumption DEF FreeStmt, HeapInv, Counted
  <1>1. /\ r \in StmtRecord /\ r.usage = 1 /\ r.db = d /\ ~r.executed /\ ~r.fetchOkay
    BY DEF StmtRecord, NoStmt
  <1>2. heap.database[d] \in DatabaseRecord /\ heap.database[d].usage \in Nat
    BY <1>0, HeapTypes
  <1>3. q \in DatabaseRecord /\ q.usage = heap.database[d].usage + 1 /\ q.isOpen
    <2>1. /\ q \in DatabaseRecord /\ q.usage = heap.database[d].usage + 1
          /\ q.isOpen <=> heap.database[d].isOpen
      BY <1>2, MoreUsed
    <2> QED BY <2>1
  <1>4. Ready \in LiteStmt /\ Ready.state = "ready" /\ Ready.row = 0 /\ Ready.rows = 0
    BY SqlAssumption DEF Ready, LiteStmt
  <1>5. ms \in [Stmt -> Nat] /\ ms[s] = 1 /\ \A t \in Stmt : t # s => ms[t] = ns[t]
    BY <1>0, Bumped
  <1>6. Prepared(s, d) = g
    BY <1>0 DEF Prepared, WithStmt, WithDatabase, WithLite, Heap
  <1> HIDE DEF r, q, f, k, g, ms
  <1>7. /\ f \in Heap /\ f.stmt[s] = r
        /\ \A t \in Stmt : t # s => f.stmt[t] = heap.stmt[t]
        /\ f.database = heap.database /\ f.connection = heap.connection /\ f.lite = heap.lite
    BY <1>0, <1>1, SetStmt DEF f
  <1>8. /\ k \in Heap /\ k.database[d] = q
        /\ \A e \in Database : e # d => k.database[e] = f.database[e]
        /\ k.connection = f.connection /\ k.stmt = f.stmt /\ k.lite = f.lite
    BY <1>3, <1>7, SetDatabase DEF k
  <1>9. /\ g \in Heap /\ g.lite[s] = Ready
        /\ \A t \in Stmt : t # s => g.lite[t] = k.lite[t]
        /\ g.database = k.database /\ g.connection = k.connection /\ g.stmt = k.stmt
    BY <1>0, <1>4, <1>8, SetLite DEF g
  <1>10. /\ g.stmt[s] = r /\ g.lite[s] = Ready
         /\ \A t \in Stmt : t # s => g.stmt[t] = heap.stmt[t] /\ g.lite[t] = heap.lite[t]
         /\ g.database[d] = q /\ \A e \in Database : e # d => g.database[e] = heap.database[e]
         /\ g.connection = heap.connection
    BY <1>7, <1>8, <1>9
  <1>11. heap.stmt[s] = NoStmt
    BY <1>0 DEF HeapInv, StmtsAlive
  <1>12. Counted(g, nd, ms)
    <2>1. Refs(g, d) = Refs(heap, d) \cup {s} /\ s \notin Refs(heap, d)
      BY <1>0, <1>1, <1>10, <1>11 DEF Refs, NoStmt
    <2>2. Cardinality(Refs(g, d)) = Cardinality(Refs(heap, d)) + 1
      <3>1. IsFiniteSet(Refs(heap, d))
        BY RefsCounted
      <3>2. Cardinality(Refs(heap, d) \cup {s}) = Cardinality(Refs(heap, d)) + 1
        BY <2>1, <3>1, FS_AddElement
      <3> QED BY <2>1, <3>2
    <2>3. g.database[d].usage = nd[d] + Cardinality(Refs(g, d))
      <3>1. /\ Cardinality(Refs(heap, d)) \in Nat /\ nd[d] \in Nat
            /\ heap.database[d].usage = nd[d] + Cardinality(Refs(heap, d))
        BY RefsCounted
      <3> QED BY <1>3, <1>10, <2>2, <3>1
    <2>4. ASSUME NEW e \in Database, e # d
          PROVE  g.database[e].usage = nd[e] + Cardinality(Refs(g, e))
      <3>1. Refs(g, e) = Refs(heap, e)
        BY <1>0, <1>1, <1>10, <1>11, <2>4 DEF Refs, NoStmt
      <3> QED BY <1>10, <2>4, <3>1, RefsCounted
    <2>5. \A t \in Stmt : g.stmt[t].usage = ms[t]
      BY <1>1, <1>5, <1>10 DEF HeapInv, Counted
    <2> QED BY <1>0, <1>5, <2>3, <2>4, <2>5 DEF Counted
  <1>13. /\ heap.connection[d].open /\ ~heap.connection[d].abandoned /\ heap.database[d].usage > 0
    BY DEF HeapInv, DatabasesAlive
  <1>14. StmtsAlive(g)
    <2>1. ASSUME NEW t \in Stmt, t # s
          PROVE  IF g.stmt[t].usage = 0 THEN g.stmt[t] = NoStmt /\ g.lite[t] = NoLiteStmt
                 ELSE g.stmt[t].db \in Database /\ g.lite[t].state # "none" /\ g.connection[g.stmt[t].db].open
      BY <1>10, <2>1 DEF HeapInv, StmtsAlive
    <2>2. g.stmt[s].usage # 0 /\ g.stmt[s].db \in Database /\ g.lite[s].state # "none"
          /\ g.connection[g.stmt[s].db].open
      BY <1>1, <1>4, <1>10, <1>13
    <2> QED BY <2>1, <2>2 DEF StmtsAlive
  <1>15. DatabasesAlive(g)
    <2>1. g.database[d].usage > 0 /\ g.database[d].isOpen
      BY <1>2, <1>3, <1>10
    <2>2. \A e \in Database : e # d =>
            /\ g.database[e].isOpen <=> (g.connection[e].open /\ ~g.connection[e].abandoned)
            /\ g.database[e].isOpen => g.database[e].usage > 0
      BY <1>10 DEF HeapInv, DatabasesAlive
    <2> QED BY <1>10, <1>13, <2>1, <2>2 DEF DatabasesAlive
  <1>16. ResultsKnown(g)
    <2>1. ResultKnown(r, Ready)
      BY <1>1, <1>4 DEF ResultKnown
    <2> QED BY <1>10, <2>1 DEF HeapInv, ResultsKnown
  <1>17. HeapInv(g, nd, ms)
    BY <1>9, <1>12, <1>14, <1>15, <1>16 DEF HeapInv
  <1> QED BY <1>0, <1>6, <1>17 DEF ms

---------------------------------------------------------------------------
(* The operations of the program keep the invariant.                        *)

DatabaseCount == RefCount(DatabaseVariable, Database, databaseVariable)
StmtCount == RefCount(StmtVariable, Stmt, stmtVariable)

\* A statement or a database that a variable refers to is in use.
LEMMA StmtReferred ==
  ASSUME SqlInv, NEW p \in StmtVariable, stmtVariable[p] # NULL
  PROVE  LET s == stmtVariable[p]
         IN  /\ s \in Stmt /\ StmtCount[s] > 0 /\ heap.stmt[s].usage > 0
             /\ heap.stmt[s].db \in Database /\ heap.lite[s].state # "none"
             /\ heap.stmt[s] \in StmtRecord /\ heap.lite[s] \in LiteStmt
             /\ ResultKnown(heap.stmt[s], heap.lite[s])
  <1> DEFINE s == stmtVariable[p]
  <1>1. /\ stmtVariable \in [StmtVariable -> Stmt \cup {NULL}] /\ IsFiniteSet(StmtVariable)
        /\ NULL \notin Stmt
    BY SqlAssumption DEF SqlInv
  <1>2. s \in Stmt /\ RefCount(StmtVariable, Stmt, stmtVariable)[s] > 0
    BY <1>1, Assigned
  <1>3. heap \in Heap /\ heap.stmt[s].usage = RefCount(StmtVariable, Stmt, stmtVariable)[s]
    BY <1>2 DEF SqlInv, HeapInv, Counted
  <1>4. heap.stmt[s].db \in Database /\ heap.lite[s].state # "none"
    BY <1>2, <1>3 DEF SqlInv, HeapInv, StmtsAlive
  <1>5. ResultKnown(heap.stmt[s], heap.lite[s])
    BY <1>2 DEF SqlInv, HeapInv, ResultsKnown
  <1>6. heap.stmt[s] \in StmtRecord /\ heap.lite[s] \in LiteStmt
    BY <1>2, <1>3, HeapTypes
  <1> QED BY <1>2, <1>3, <1>4, <1>5, <1>6 DEF StmtCount

LEMMA DatabaseReferred ==
  ASSUME SqlInv, NEW v \in DatabaseVariable, databaseVariable[v] # NULL
  PROVE  LET d == databaseVariable[v]
         IN  d \in Database /\ DatabaseCount[d] > 0
  <1>1. /\ databaseVariable \in [DatabaseVariable -> Database \cup {NULL}]
        /\ IsFiniteSet(DatabaseVariable) /\ NULL \notin Database
    BY SqlAssumption DEF SqlInv
  <1> QED BY <1>1, Assigned DEF DatabaseCount

\* A step that changes no variable, and the assignments to variables.
LEMMA VariablesKept ==
  ASSUME SqlInv, UNCHANGED <<databaseVariable, stmtVariable>>,
         HeapInv(heap', DatabaseCount, StmtCount)
  PROVE  SqlInv'
  BY DEF SqlInv, DatabaseCount, StmtCount

LEMMA DatabaseAssigned ==
  ASSUME SqlInv, NEW v \in DatabaseVariable, NEW d \in Database \cup {NULL}, NEW h,
         HeapInv(h, Bump(Database, DatabaseCount, d), StmtCount),
         heap' = sqlDestrDb(h, databaseVariable[v]),
         databaseVariable' = [databaseVariable EXCEPT ![v] = d], UNCHANGED stmtVariable
  PROVE  SqlInv'
  <1> DEFINE n == Bump(Database, DatabaseCount, d)
             old == databaseVariable[v]
  <1>1. /\ databaseVariable \in [DatabaseVariable -> Database \cup {NULL}]
        /\ IsFiniteSet(DatabaseVariable) /\ NULL \notin Database /\ old \in Database \cup {NULL}
    BY SqlAssumption DEF SqlInv
  <1>2. /\ databaseVariable' \in [DatabaseVariable -> Database \cup {NULL}]
        /\ DatabaseCount \in [Database -> Nat]
        /\ old # NULL => DatabaseCount[old] > 0
        /\ RefCount(DatabaseVariable, Database, databaseVariable') = Drop(Database, n, old)
    <2> DEFINE f == [databaseVariable EXCEPT ![v] = d]
               m == RefCount(DatabaseVariable, Database, databaseVariable)
    <2>1. /\ f \in [DatabaseVariable -> Database \cup {NULL}] /\ m \in [Database -> Nat]
          /\ old # NULL => old \in Database /\ m[old] > 0
          /\ RefCount(DatabaseVariable, Database, f) = Drop(Database, Bump(Database, m, d), old)
      <3>1. RefCount(DatabaseVariable, Database, f) = Drop(Database, Bump(Database, m, d), old)
        <4>1. f[v] = d /\ \A w \in DatabaseVariable : w # v => f[w] = databaseVariable[w]
          BY <1>1
        <4> HIDE DEF f
        <4> QED BY <1>1, <4>1, Assigned
      <3>2. m \in [Database -> Nat] /\ (old # NULL => old \in Database /\ m[old] > 0)
        BY <1>1, Assigned
      <3> QED BY <1>1, <3>1, <3>2
    <2> HIDE DEF old
    <2> QED BY <2>1 DEF DatabaseCount
  <1>3. old # NULL => n[old] > 0
    <2> HIDE DEF old
    <2>1. /\ d \in Database => n[d] = DatabaseCount[d] + 1
          /\ \A y \in Database : y # d => n[y] = DatabaseCount[y]
      BY <1>1, <1>2, Bumped
    <2> HIDE DEF n
    <2>2. old # NULL => old \in Database /\ DatabaseCount[old] \in Nat
      BY <1>1, <1>2
    <2> QED BY <1>2, <2>1, <2>2
  <1> HIDE DEF n, old
  <1>4. HeapInv(sqlDestrDb(h, old), Drop(Database, n, old), StmtCount)
    BY <1>1, <1>3, DestrDb DEF n
  <1> QED BY <1>2, <1>4 DEF SqlInv, StmtCount, old

LEMMA StmtAssigned ==
  ASSUME SqlInv, NEW p \in StmtVariable, NEW s \in Stmt \cup {NULL}, NEW h,
         HeapInv(h, DatabaseCount, Bump(Stmt, StmtCount, s)),
         heap' = sqlDestrStmt(h, stmtVariable[p]),
         stmtVariable' = [stmtVariable EXCEPT ![p] = s], UNCHANGED databaseVariable
  PROVE  SqlInv'
  <1> DEFINE n == Bump(Stmt, StmtCount, s)
             old == stmtVariable[p]
  <1>1. /\ stmtVariable \in [StmtVariable -> Stmt \cup {NULL}]
        /\ IsFiniteSet(StmtVariable) /\ NULL \notin Stmt /\ old \in Stmt \cup {NULL}
    BY SqlAssumption DEF SqlInv
  <1>2. /\ stmtVariable' \in [StmtVariable -> Stmt \cup {NULL}]
        /\ StmtCount \in [Stmt -> Nat]
        /\ old # NULL => StmtCount[old] > 0
        /\ RefCount(StmtVariable, Stmt, stmtVariable') = Drop(Stmt, n, old)
    <2> DEFINE f == [stmtVariable EXCEPT ![p] = s]
               m == RefCount(StmtVariable, Stmt, stmtVariable)
    <2>1. /\ f \in [StmtVariable -> Stmt \cup {NULL}] /\ m \in [Stmt -> Nat]
          /\ old # NULL => old \in Stmt /\ m[old] > 0
          /\ RefCount(StmtVariable, Stmt, f) = Drop(Stmt, Bump(Stmt, m, s), old)
      <3>1. RefCount(StmtVariable, Stmt, f) = Drop(Stmt, Bump(Stmt, m, s), old)
        <4>1. f[p] = s /\ \A w \in StmtVariable : w # p => f[w] = stmtVariable[w]
          BY <1>1
        <4> HIDE DEF f
        <4> QED BY <1>1, <4>1, Assigned
      <3>2. m \in [Stmt -> Nat] /\ (old # NULL => old \in Stmt /\ m[old] > 0)
        BY <1>1, Assigned
      <3> QED BY <1>1, <3>1, <3>2
    <2> HIDE DEF old
    <2> QED BY <2>1 DEF StmtCount
  <1>3. old # NULL => n[old] > 0
    <2> HIDE DEF old
    <2>1. /\ s \in Stmt => n[s] = StmtCount[s] + 1
          /\ \A y \in Stmt : y # s => n[y] = StmtCount[y]
      BY <1>1, <1>2, Bumped
    <2> HIDE DEF n
    <2>2. old # NULL => old \in Stmt /\ StmtCount[old] \in Nat
      BY <1>1, <1>2
    <2> QED BY <1>2, <2>1, <2>2
  <1> HIDE DEF n, old
  <1>4. HeapInv(sqlDestrStmt(h, old), DatabaseCount, Drop(Stmt, n, old))
    BY <1>1, <1>3, DestrStmt DEF n
  <1> QED BY <1>2, <1>4 DEF SqlInv, DatabaseCount, old

LEMMA HeapOf ==
  ASSUME SqlInv
  PROVE  /\ heap \in Heap /\ HeapInv(heap, DatabaseCount, StmtCount)
         /\ DatabaseCount \in [Database -> Nat] /\ StmtCount \in [Stmt -> Nat]
         /\ Bump(Database, DatabaseCount, NULL) = DatabaseCount
         /\ Bump(Stmt, StmtCount, NULL) = StmtCount
  <1>1. HeapInv(heap, DatabaseCount, StmtCount)
    BY DEF SqlInv, DatabaseCount, StmtCount
  <1>2. heap \in Heap /\ DatabaseCount \in [Database -> Nat] /\ StmtCount \in [Stmt -> Nat]
    BY <1>1 DEF HeapInv, Counted
  <1>3. NULL \notin Database /\ NULL \notin Stmt
    BY SqlAssumption
  <1> QED BY <1>1, <1>2, <1>3, Bumped

LEMMA OpenStep ==
  ASSUME SqlInv, NEW v \in DatabaseVariable, sqlOpenLite(v)
  PROVE  SqlInv'
  <1> DEFINE d == AnyOf(FreeDatabase)
             h == [heap EXCEPT !.database[d] = [usage |-> 1, isOpen |-> TRUE],
                               !.connection[d] = [NoConnection EXCEPT !.open = TRUE]]
  <1>1. /\ d \in FreeDatabase /\ heap' = sqlDestrDb(h, databaseVariable[v])
        /\ databaseVariable' = [databaseVariable EXCEPT ![v] = d] /\ UNCHANGED stmtVariable
    BY DEF sqlOpenLite, AnyOf
  <1> HIDE DEF d
  <1>2. d \in Database
    BY <1>1 DEF FreeDatabase
  <1>3. HeapInv(h, Bump(Database, DatabaseCount, d), StmtCount)
    BY <1>1, HeapOf, OpenKeeps
  <1> HIDE DEF h
  <1> QED BY <1>1, <1>2, <1>3, DatabaseAssigned

LEMMA CpyDbStep ==
  ASSUME SqlInv, NEW v \in DatabaseVariable, NEW w \in DatabaseVariable, sqlCpyDb(v, w)
  PROVE  SqlInv'
  <1>1. databaseVariable[w] \in Database \cup {NULL}
    BY DEF SqlInv
  <1>2. HeapInv(sqlCreateDb(heap, databaseVariable[w]),
                Bump(Database, DatabaseCount, databaseVariable[w]), StmtCount)
    BY <1>1, HeapOf, CreateDb
  <1>3. /\ heap' = sqlDestrDb(sqlCreateDb(heap, databaseVariable[w]), databaseVariable[v])
        /\ databaseVariable' = [databaseVariable EXCEPT ![v] = databaseVariable[w]]
        /\ UNCHANGED stmtVariable
    BY DEF sqlCpyDb
  <1> QED BY <1>1, <1>2, <1>3, DatabaseAssigned

LEMMA CpyStmtStep ==
  ASSUME SqlInv, NEW p \in StmtVariable, NEW q \in StmtVariable, sqlCpyStmt(p, q)
  PROVE  SqlInv'
  <1>1. /\ stmtVariable[q] \in Stmt \cup {NULL}
        /\ stmtVariable[q] # NULL => StmtCount[stmtVariable[q]] > 0
    BY StmtReferred DEF SqlInv
  <1>2. HeapInv(sqlCreateStmt(heap, stmtVariable[q]),
                DatabaseCount, Bump(Stmt, StmtCount, stmtVariable[q]))
    BY <1>1, HeapOf, CreateStmt
  <1>3. /\ heap' = sqlDestrStmt(sqlCreateStmt(heap, stmtVariable[q]), stmtVariable[p])
        /\ stmtVariable' = [stmtVariable EXCEPT ![p] = stmtVariable[q]]
        /\ UNCHANGED databaseVariable
    BY DEF sqlCpyStmt
  <1> QED BY <1>1, <1>2, <1>3, StmtAssigned

LEMMA VariableEndsStep ==
  ASSUME SqlInv, \/ \E v \in DatabaseVariable : DatabaseVariableEnds(v)
                 \/ \E p \in StmtVariable : StmtVariableEnds(p)
  PROVE  SqlInv'
  <1>1. ASSUME NEW v \in DatabaseVariable, DatabaseVariableEnds(v) PROVE SqlInv'
    <2>1. /\ heap' = sqlDestrDb(heap, databaseVariable[v]) /\ UNCHANGED stmtVariable
          /\ databaseVariable' = [databaseVariable EXCEPT ![v] = NULL]
      BY <1>1 DEF DatabaseVariableEnds
    <2>2. HeapInv(heap, Bump(Database, DatabaseCount, NULL), StmtCount)
      BY HeapOf
    <2> QED BY <2>1, <2>2, DatabaseAssigned
  <1>2. ASSUME NEW p \in StmtVariable, StmtVariableEnds(p) PROVE SqlInv'
    <2>1. /\ heap' = sqlDestrStmt(heap, stmtVariable[p]) /\ UNCHANGED databaseVariable
          /\ stmtVariable' = [stmtVariable EXCEPT ![p] = NULL]
      BY <1>2 DEF StmtVariableEnds
    <2>2. HeapInv(heap, DatabaseCount, Bump(Stmt, StmtCount, NULL))
      BY HeapOf
    <2> QED BY <2>1, <2>2, StmtAssigned
  <1> QED BY <1>1, <1>2

LEMMA PrepareStep ==
  ASSUME SqlInv, NEW p \in StmtVariable, NEW v \in DatabaseVariable, sqlPrepare(p, v)
  PROVE  SqlInv'
  <1> DEFINE d == databaseVariable[v]
             s == AnyOf(FreeStmt)
             n == Bump(Stmt, StmtCount, s)
  <1>1. /\ d # NULL /\ heap.database[d].isOpen /\ s \in FreeStmt /\ UNCHANGED databaseVariable
        /\ \/ heap' = sqlDestrStmt(Prepared(s, d), stmtVariable[p])
              /\ stmtVariable' = [stmtVariable EXCEPT ![p] = s]
           \/ heap' = freePreparedStmt(Prepared(s, d), s) /\ UNCHANGED stmtVariable
    BY DEF sqlPrepare, IsOpen, AnyOf
  <1>2. d \in Database
    BY <1>1, DatabaseReferred
  <1> HIDE DEF d, s
  <1>3. s \in Stmt
    BY <1>1 DEF FreeStmt
  <1>4. HeapInv(Prepared(s, d), DatabaseCount, n) /\ StmtCount[s] = 0
    BY <1>1, <1>2, HeapOf, PreparedKeeps
  <1>5. CASE /\ heap' = sqlDestrStmt(Prepared(s, d), stmtVariable[p])
             /\ stmtVariable' = [stmtVariable EXCEPT ![p] = s]
    BY <1>1, <1>3, <1>4, <1>5, StmtAssigned
  <1>6. CASE heap' = freePreparedStmt(Prepared(s, d), s) /\ UNCHANGED stmtVariable
    <2>1. n \in [Stmt -> Nat] /\ n[s] = 1 /\ NULL \notin Stmt
          /\ \A t \in Stmt : t # s => n[t] = StmtCount[t]
      BY <1>3, <1>4, HeapOf, SqlAssumption, Bumped
    <2>2. Drop(Stmt, n, s) = StmtCount
      <3>1. Drop(Stmt, n, s) \in [Stmt -> Nat] /\ Drop(Stmt, n, s)[s] = 0
            /\ \A t \in Stmt : t # s => Drop(Stmt, n, s)[t] = n[t]
        BY <1>3, <2>1, Dropped
      <3>2. \A t \in Stmt : Drop(Stmt, n, s)[t] = StmtCount[t]
        BY <1>4, <2>1, <3>1
      <3> HIDE DEF n
      <3> QED BY <3>1, <3>2, HeapOf
    <2>3. HeapInv(freePreparedStmt(Prepared(s, d), s), DatabaseCount, Drop(Stmt, n, s))
      BY <1>3, <1>4, <2>1, FreeStmtKeeps
    <2> QED BY <1>1, <1>6, <2>2, <2>3, VariablesKept
  <1> QED BY <1>1, <1>5, <1>6

\* The connection is closed, or abandoned while it has statements.
LEMMA CloseStep ==
  ASSUME SqlInv, NEW v \in DatabaseVariable, sqlClose(v)
  PROVE  SqlInv'
  <1> DEFINE d == databaseVariable[v]
             c == IF Busy(heap, d) THEN [heap.connection[d] EXCEPT !.abandoned = TRUE]
                  ELSE NoConnection
             r == [heap.database[d] EXCEPT !.isOpen = FALSE]
             f == WithDatabase(heap, d, r)
             g == WithConnection(f, d, c)
  <1>0. heap \in Heap /\ HeapInv(heap, DatabaseCount, StmtCount)
    BY HeapOf
  <1>1. d # NULL /\ heap.database[d].isOpen /\ UNCHANGED <<databaseVariable, stmtVariable>>
    BY DEF sqlClose, IsOpen
  <1>2. d \in Database
    BY <1>1, DatabaseReferred
  <1>3. heap.database[d] \in DatabaseRecord /\ heap.connection[d] \in Connection
    BY <1>0, <1>2, HeapTypes
  <1>4. heap' = g
    <2>1. heap' = [CloseConnection(heap, d) EXCEPT !.connection[d].abandoned = Busy(heap, d)]
      BY DEF sqlClose
    <2>2. CloseConnection(heap, d) = [heap EXCEPT !.database[d] = r,
                                                  !.connection[d] = IF Busy(heap, d) THEN @ ELSE NoConnection]
      BY DEF CloseConnection
    <2>3. CASE Busy(heap, d)
      <3>1. Busy(heap, d) = TRUE
        BY <2>3 DEF Busy
      <3>2. heap' = [[heap EXCEPT !.database[d] = r, !.connection[d] = @] EXCEPT !.connection[d].abandoned = TRUE]
        BY <2>1, <2>2, <2>3, <3>1
      <3>3. c = [heap.connection[d] EXCEPT !.abandoned = TRUE]
        BY <2>3
      <3> HIDE DEF c, r
      <3> QED BY <1>0, <1>2, <3>2, <3>3 DEF WithDatabase, WithConnection, Heap
    <2>4. CASE ~Busy(heap, d)
      <3>1. Busy(heap, d) = FALSE
        BY <2>4 DEF Busy
      <3>2. heap' = [[heap EXCEPT !.database[d] = r, !.connection[d] = NoConnection]
                     EXCEPT !.connection[d].abandoned = FALSE]
        BY <2>1, <2>2, <2>4, <3>1
      <3>3. c = NoConnection
        BY <2>4
      <3>4. NoConnection = [NoConnection EXCEPT !.abandoned = FALSE]
        <4>1. \A o \in Connection : o.abandoned = FALSE => o = [o EXCEPT !.abandoned = FALSE]
          BY DEF Connection
        <4>2. NoConnection \in Connection /\ NoConnection.abandoned = FALSE
          BY EmptyRecords DEF NoConnection
        <4> QED BY <4>1, <4>2
      <3> HIDE DEF c, r
      <3> QED BY <1>0, <1>2, <3>2, <3>3, <3>4 DEF WithDatabase, WithConnection, Heap
    <2> QED BY <2>3, <2>4
  <1>5. r \in DatabaseRecord /\ r.usage = heap.database[d].usage /\ ~r.isOpen
    BY <1>3 DEF DatabaseRecord
  <1>6. /\ c \in Connection
        /\ Busy(heap, d) => c.abandoned /\ (c.open <=> heap.connection[d].open)
        /\ ~Busy(heap, d) => ~c.open /\ ~c.abandoned
    BY <1>3 DEF Connection, NoConnection
  <1> HIDE DEF d, c, r, f, g
  <1>7. /\ f \in Heap /\ f.database[d] = r
        /\ \A e \in Database : e # d => f.database[e] = heap.database[e]
        /\ f.connection = heap.connection /\ f.stmt = heap.stmt /\ f.lite = heap.lite
    BY <1>0, <1>2, <1>5, SetDatabase DEF f
  <1>8. /\ g \in Heap /\ g.connection[d] = c
        /\ \A e \in Database : e # d => g.connection[e] = f.connection[e]
        /\ g.database = f.database /\ g.stmt = f.stmt /\ g.lite = f.lite
    BY <1>2, <1>6, <1>7, SetConnection DEF g
  <1>9. Counted(g, DatabaseCount, StmtCount)
    <2>1. \A e \in Database : Refs(g, e) = Refs(heap, e)
      BY <1>7, <1>8 DEF Refs
    <2>2. \A e \in Database : g.database[e].usage = heap.database[e].usage
      BY <1>5, <1>7, <1>8
    <2> QED BY <1>0, <1>7, <1>8, <2>1, <2>2 DEF HeapInv, Counted
  <1>10. StmtsAlive(g)
    <2>1. ASSUME NEW s \in Stmt, heap.stmt[s].usage # 0
          PROVE  g.connection[heap.stmt[s].db].open
      <3>1. /\ heap.stmt[s].db \in Database /\ heap.connection[heap.stmt[s].db].open
            /\ heap.lite[s].state # "none"
        BY <1>0, <2>1 DEF HeapInv, StmtsAlive
      <3>2. heap.stmt[s].db = d => Busy(heap, d)
        BY <3>1 DEF Busy
      <3> QED BY <1>6, <1>7, <1>8, <3>1, <3>2
    <2> QED BY <1>0, <1>7, <1>8, <2>1 DEF HeapInv, StmtsAlive
  <1>11. DatabasesAlive(g)
    <2>1. \A e \in Database : e # d =>
            /\ g.database[e].isOpen <=> (g.connection[e].open /\ ~g.connection[e].abandoned)
            /\ g.database[e].isOpen => g.database[e].usage > 0
      BY <1>0, <1>7, <1>8 DEF HeapInv, DatabasesAlive
    <2>2. ~g.database[d].isOpen /\ ~(g.connection[d].open /\ ~g.connection[d].abandoned)
      BY <1>5, <1>6, <1>7, <1>8
    <2> QED BY <2>1, <2>2 DEF DatabasesAlive
  <1>12. ResultsKnown(g)
    BY <1>0, <1>7, <1>8 DEF HeapInv, ResultsKnown
  <1>13. HeapInv(g, DatabaseCount, StmtCount)
    BY <1>8, <1>9, <1>10, <1>11, <1>12 DEF HeapInv
  <1> QED BY <1>1, <1>4, <1>13, VariablesKept

\* Transactions change neither whether a connection is open nor who refers to it.
LEMMA TransactionStep ==
  ASSUME SqlInv, NEW v \in DatabaseVariable,
         sqlCommit(v) \/ sqlRollback(v) \/ \E on \in BOOLEAN : sqlSetAutoCommit(v, on)
  PROVE  SqlInv'
  <1> DEFINE d == databaseVariable[v]
             old == heap.connection[d]
  <1>1. /\ d # NULL /\ UNCHANGED <<databaseVariable, stmtVariable>>
        /\ \E c \in {old, Begin(EndTransaction(old)), EndTransaction(old), Begin(old)} :
             heap' = [heap EXCEPT !.connection[d] = c]
    <2>1. CASE sqlCommit(v)
      BY <2>1, HeapOf, DatabaseReferred, HeapTypes DEF sqlCommit, OnConnection, IsOpen
    <2>2. CASE sqlRollback(v)
      BY <2>2, HeapOf, DatabaseReferred, HeapTypes DEF sqlRollback, OnConnection, IsOpen
    <2>3. CASE \E on \in BOOLEAN : sqlSetAutoCommit(v, on)
      BY <2>3, HeapOf, DatabaseReferred, HeapTypes DEF sqlSetAutoCommit, OnConnection, IsOpen
    <2> QED BY <2>1, <2>2, <2>3
  <1>2. PICK c \in {old, Begin(EndTransaction(old)), EndTransaction(old), Begin(old)} :
             heap' = [heap EXCEPT !.connection[d] = c]
    BY <1>1
  <1>3. heap \in Heap /\ d \in Database /\ HeapInv(heap, DatabaseCount, StmtCount)
    BY <1>1, HeapOf, DatabaseReferred
  <1>4. old \in Connection
    BY <1>3, HeapTypes
  <1> HIDE DEF old
  <1>5. c \in Connection /\ (c.open <=> old.open) /\ (c.abandoned <=> old.abandoned)
    BY <1>2, <1>4 DEF Connection, Begin, EndTransaction
  <1>6. heap' = WithConnection(heap, d, c)
    BY <1>2 DEF WithConnection
  <1> HIDE DEF d
  <1>7. HeapInv(WithConnection(heap, d, c), DatabaseCount, StmtCount)
    BY <1>3, <1>5, ConnectionKeeps DEF old
  <1> QED BY <1>1, <1>6, <1>7, VariablesKept

\* The states of a statement that the library can report.
LEMMA ReadyKnown ==
  /\ Ready \in LiteStmt /\ Ready.state = "ready" /\ Ready.row = 0 /\ Ready.rows = 0
  /\ Failed \in LiteStmt /\ Failed.state = "failed" /\ Failed.row = 0 /\ Failed.rows = 0
  /\ Done \in LiteStmt /\ Done.state = "done" /\ Done.row = 0 /\ Done.rows = 0
  BY SqlAssumption DEF Ready, Failed, Done, LiteStmt

LEMMA RowKnown ==
  ASSUME NEW n \in 1 .. MaxRow, NEW k \in 1 .. n
  PROVE  LET m == Row(n, k)
         IN  m \in LiteStmt /\ m.state = "row" /\ m.row = k /\ m.rows = n
  BY SqlAssumption DEF Row, LiteStmt

LEMMA StartedKnown ==
  ASSUME NEW m \in Started
  PROVE  /\ m \in LiteStmt /\ m.state \in {"row", "done", "failed"} /\ m.row \in {0, 1}
         /\ IF m.state = "row" THEN m.row = 1 /\ m.rows \in 1 .. MaxRow ELSE m.row = 0 /\ m.rows = 0
         /\ m.state = "failed" => m = Failed
         /\ m.state = "done" => m = Done
  <1>1. CASE m \in {Done, Failed}
    BY <1>1, ReadyKnown
  <1>2. ASSUME NEW n \in 1 .. MaxRow, m = Row(n, 1)
        PROVE  m \in LiteStmt /\ m.state = "row" /\ m.row = 1 /\ m.rows = n
    <2>1. n \in Nat /\ 1 \in 1 .. n
      BY SqlAssumption
    <2> QED BY <1>2, <2>1, RowKnown
  <1> QED BY <1>1, <1>2 DEF Started

\* A step makes the next row the current one, or ends the result, or fails.
LEMMA StepKnown ==
  ASSUME NEW l \in LiteStmt, l.state \in {"row", "done"}, NEW m \in sqlite3_step(l),
         IF l.state = "row" THEN 1 <= l.row /\ l.row <= l.rows ELSE l.row = 0 /\ l.rows = 0
  PROVE  /\ m \in LiteStmt /\ m.state \in {"row", "done", "failed"}
         /\ IF m.state = "row" THEN 1 <= m.row /\ m.row <= m.rows ELSE m.row = 0 /\ m.rows = 0
         /\ m.state = "failed" => m = Failed
         /\ l.state = "row" /\ m.state = "row" =>
              l.row < l.rows /\ m.row = l.row + 1 /\ m.rows = l.rows
         /\ l.state = "row" /\ m.state = "done" => l.row = l.rows
         /\ l.state = "done" /\ m # Failed => m.row \in {0, 1}
  <1>0. l.row \in 0 .. MaxRow /\ l.rows \in 0 .. MaxRow /\ MaxRow \in Nat
    BY SqlAssumption DEF LiteStmt
  <1>1. CASE l.state = "row" /\ m = Row(l.rows, l.row + 1) /\ l.row < l.rows
    <2>1. l.rows \in 1 .. MaxRow /\ l.row + 1 \in 1 .. l.rows
      BY <1>0, <1>1
    <2> QED BY <1>0, <1>1, <2>1, RowKnown
  <1>2. CASE l.state = "row" /\ m = Done /\ ~(l.row < l.rows)
    BY <1>0, <1>2, ReadyKnown
  <1>3. CASE m = Failed
    BY <1>3, ReadyKnown
  <1>4. CASE l.state = "done" /\ AutoReset /\ m \in Started
    <2>1. m \in LiteStmt /\ m.state \in {"row", "done", "failed"}
          /\ IF m.state = "row" THEN m.row = 1 /\ m.rows \in 1 .. MaxRow ELSE m.row = 0 /\ m.rows = 0
      BY <1>4, StartedKnown
    <2>2. m.state = "failed" => m = Failed
      BY <1>4, StartedKnown
    <2> QED BY <1>0, <1>4, <2>1, <2>2
  <1> QED BY <1>1, <1>2, <1>3, <1>4 DEF sqlite3_step

\* A step of a statement that a variable refers to: its result and its flags change.
LEMMA StatementStep ==
  ASSUME SqlInv, NEW p \in StmtVariable, stmtVariable[p] # NULL,
         UNCHANGED <<databaseVariable, stmtVariable>>,
         NEW t \in StmtRecord, NEW l \in LiteStmt,
         t.usage = heap.stmt[stmtVariable[p]].usage, t.db = heap.stmt[stmtVariable[p]].db,
         l.state # "none", ResultKnown(t, l),
         heap' = [heap EXCEPT !.lite[stmtVariable[p]] = l, !.stmt[stmtVariable[p]] = t]
  PROVE  SqlInv'
  <1> DEFINE s == stmtVariable[p]
  <1>1. s \in Stmt /\ heap.stmt[s].usage > 0
    BY StmtReferred
  <1>2. heap \in Heap /\ HeapInv(heap, DatabaseCount, StmtCount)
    BY HeapOf
  <1>3. heap' = WithLite(WithStmt(heap, s, t), s, l)
    BY <1>2 DEF WithLite, WithStmt, Heap
  <1>4. t.usage = heap.stmt[s].usage /\ t.db = heap.stmt[s].db
    OBVIOUS
  <1> HIDE DEF s
  <1>5. HeapInv(WithLite(WithStmt(heap, s, t), s, l), DatabaseCount, StmtCount)
    BY <1>1, <1>2, <1>4, SetBoth
  <1> QED BY <1>3, <1>5, VariablesKept

\* Binding a parameter resets a statement; a statement that could not be reset
\* stays as it was.
LEMMA BindStep ==
  ASSUME SqlInv, NEW p \in StmtVariable, NEW i \in Param, sqlBindStri(p, i)
  PROVE  SqlInv'
  <1> DEFINE s == stmtVariable[p]
             t == heap.stmt[s]
             l == heap.lite[s]
  <1>1. s # NULL /\ UNCHANGED <<databaseVariable, stmtVariable>>
    BY DEF sqlBindStri
  <1>2. /\ s \in Stmt /\ heap \in Heap /\ t \in StmtRecord /\ l \in LiteStmt
        /\ l.state # "none" /\ ResultKnown(t, l)
    BY <1>1, HeapOf, StmtReferred
  <1>3. CASE ResetFails(s) /\ heap' = [heap EXCEPT !.lite[s] = Ready]
    <2>1. t.executed /\ l.state = "failed"
      BY <1>3 DEF ResetFails
    <2>2. ResultKnown(t, Ready)
      BY <1>2, <2>1, ReadyKnown DEF ResultKnown
    <2>3. heap' = [heap EXCEPT !.lite[s] = Ready, !.stmt[s] = t]
      BY <1>2, <1>3 DEF Heap
    <2> HIDE DEF t, l
    <2>4. t.usage = heap.stmt[s].usage /\ t.db = heap.stmt[s].db
      BY DEF t
    <2> QED BY <1>1, <1>2, <2>2, <2>3, <2>4, ReadyKnown, StatementStep
  <1>4. CASE heap' = [heap EXCEPT !.lite[s] = Ready, !.stmt[s] = Bound(@, i)]
    <2> DEFINE u == Bound(t, i)
    <2>1. /\ u \in StmtRecord /\ u.usage = t.usage /\ u.db = t.db
          /\ u.executed = FALSE /\ u.fetchOkay = FALSE
      BY <1>2 DEF StmtRecord, Bound
    <2>2. heap' = [heap EXCEPT !.lite[s] = Ready, !.stmt[s] = u]
      BY <1>2, <1>4 DEF Heap
    <2> HIDE DEF u
    <2>3. ResultKnown(u, Ready)
      BY <2>1, ReadyKnown DEF ResultKnown
    <2> QED BY <1>1, <2>1, <2>2, <2>3, ReadyKnown, StatementStep
  <1>5. CASE /\ ~ResetFails(s) /\ (BindErrors \/ Reset(s) # Ready)
             /\ heap' = [heap EXCEPT !.lite[s] = Reset(s), !.stmt[s].executed = FALSE]
    <2> DEFINE u == [t EXCEPT !.executed = FALSE]
               m == Reset(s)
    <2>1. /\ u \in StmtRecord /\ u.usage = t.usage /\ u.db = t.db
          /\ u.executed = FALSE /\ u.fetchOkay = t.fetchOkay
      BY <1>2 DEF StmtRecord
    <2>2. heap' = [heap EXCEPT !.lite[s] = m, !.stmt[s] = u]
      BY <1>2, <1>5 DEF Heap
    <2>3. m = (IF t.executed THEN Ready ELSE l) /\ (BindErrors \/ m # Ready)
      BY <1>5 DEF Reset
    <2>4. ~t.executed => l.state \in {"ready", "failed"} /\ l.row = 0 /\ l.rows = 0
      BY <1>2 DEF ResultKnown
    <2>5. m \in LiteStmt /\ m.state \in {"ready", "failed"} /\ m.row = 0 /\ m.rows = 0
      BY <1>2, <2>3, <2>4, ReadyKnown
    <2>6. ~BindErrors => ~t.executed /\ ~t.fetchOkay
      BY <1>2, <2>3 DEF ResultKnown
    <2> HIDE DEF u, m
    <2>7. ResultKnown(u, m)
      BY <2>1, <2>5, <2>6 DEF ResultKnown
    <2> QED BY <1>1, <2>1, <2>2, <2>5, <2>7, StatementStep
  <1> QED BY <1>3, <1>4, <1>5 DEF sqlBindStri

\* Execution resets a statement and does the first step.
LEMMA ExecuteStep ==
  ASSUME SqlInv, NEW p \in StmtVariable, sqlExecute(p)
  PROVE  SqlInv'
  <1> DEFINE s == stmtVariable[p]
             t == heap.stmt[s]
             l == heap.lite[s]
             d == t.db
  <1>1. s # NULL /\ UNCHANGED <<databaseVariable, stmtVariable>>
    BY DEF sqlExecute
  <1>2. /\ s \in Stmt /\ heap \in Heap /\ t \in StmtRecord /\ l \in LiteStmt
        /\ l.state # "none" /\ ResultKnown(t, l) /\ heap.stmt[s].usage > 0
        /\ d \in Database /\ HeapInv(heap, DatabaseCount, StmtCount)
    BY <1>1, HeapOf, StmtReferred
  <1>3. CASE ResetFails(s) /\ heap' = [heap EXCEPT !.lite[s] = Ready]
    <2>1. t.executed /\ l.state = "failed"
      BY <1>3 DEF ResetFails
    <2>2. ResultKnown(t, Ready)
      BY <1>2, <2>1, ReadyKnown DEF ResultKnown
    <2>3. heap' = [heap EXCEPT !.lite[s] = Ready, !.stmt[s] = t]
      BY <1>2, <1>3 DEF Heap
    <2> HIDE DEF t, l
    <2>4. t.usage = heap.stmt[s].usage /\ t.db = heap.stmt[s].db
      BY DEF t
    <2> QED BY <1>1, <1>2, <2>2, <2>3, <2>4, ReadyKnown, StatementStep
  <1>4. CASE ~ResetFails(s)
    <2> DEFINE Next(m) == IF m = Failed THEN [t EXCEPT !.executed = FALSE, !.fetchOkay = FALSE]
                          ELSE [t EXCEPT !.executed = TRUE, !.fetchOkay = FALSE, !.finished = FALSE,
                                         !.useStored = TRUE, !.stored = m.state = "row"]
               More(m) == heap.connection[d].uncommitted
                          \/ (m # Failed /\ ~heap.connection[d].autocommit)
    <2>1. PICK m \in sqlite3_step(Reset(s)) :
            heap' = [heap EXCEPT !.lite[s] = m, !.stmt[s] = Next(m),
                                 !.connection[d].uncommitted = More(m)]
      BY <1>2, <1>4 DEF sqlExecute, Heap
    <2>2. Reset(s).state \in {"ready", "failed"}
      BY <1>2, ReadyKnown DEF Reset, ResultKnown
    <2>3. m \in Started
      BY <2>1, <2>2 DEF sqlite3_step, Started
    <2> DEFINE u == Next(m)
               c == [heap.connection[d] EXCEPT !.uncommitted = More(m)]
               f == WithStmt(heap, s, u)
               k == WithLite(f, s, m)
               g == WithConnection(k, d, c)
    <2>4. /\ m \in LiteStmt /\ m.state \in {"row", "done", "failed"} /\ m.row \in {0, 1}
          /\ IF m.state = "row" THEN m.row = 1 /\ m.rows \in 1 .. MaxRow ELSE m.row = 0 /\ m.rows = 0
          /\ m.state = "failed" <=> m = Failed
      BY <2>3, StartedKnown, ReadyKnown
    <2>5. /\ u \in StmtRecord /\ u.usage = t.usage /\ u.db = t.db
          /\ m = Failed => u.executed = FALSE /\ u.fetchOkay = FALSE
          /\ m # Failed => /\ u.executed = TRUE /\ u.fetchOkay = FALSE /\ u.finished = FALSE
                           /\ u.useStored = TRUE /\ u.stored = (m.state = "row")
      BY <1>2 DEF StmtRecord
    <2>6. heap.connection[d] \in Connection
      BY <1>2, HeapTypes
    <2>7. c \in Connection /\ (c.open <=> heap.connection[d].open)
                           /\ (c.abandoned <=> heap.connection[d].abandoned)
      BY <2>6 DEF Connection
    <2>8. heap' = g
      <3> HIDE DEF Next, More
      <3> QED BY <1>2, <2>1 DEF WithStmt, WithLite, WithConnection, Heap
    <2> HIDE DEF u, c, f, k, g, Next, More
    <2>9. ResultKnown(u, m)
      <3>1. IF m.state = "row" THEN 1 <= m.row /\ m.row <= m.rows ELSE m.row = 0 /\ m.rows = 0
        BY <2>4, SqlAssumption
      <3> QED BY <2>4, <2>5, <3>1 DEF ResultKnown
    <2> HIDE DEF s, t
    <2>10. HeapInv(k, DatabaseCount, StmtCount)
      <3>1. u.usage = heap.stmt[s].usage /\ u.db = heap.stmt[s].db /\ m.state # "none"
        BY <2>4, <2>5 DEF t
      <3> QED BY <1>2, <2>4, <2>5, <2>9, <3>1, SetBoth DEF k, f
    <2>11. k.connection = heap.connection
      BY DEF k, f, WithLite, WithStmt
    <2> HIDE DEF d
    <2>12. HeapInv(g, DatabaseCount, StmtCount)
      BY <1>2, <2>7, <2>10, <2>11, ConnectionKeeps DEF g
    <2> QED BY <1>1, <2>8, <2>12, VariablesKept
  <1> QED BY <1>3, <1>4 DEF sqlExecute

\* A fetch uses the stored result first, and then steps.
LEMMA FetchKeeps ==
  ASSUME SqlInv, NEW p \in StmtVariable, sqlFetch(p)
  PROVE  SqlInv'
  <1> DEFINE s == stmtVariable[p]
             t == heap.stmt[s]
             l == heap.lite[s]
  <1>1. s # NULL /\ UNCHANGED <<databaseVariable, stmtVariable>>
        /\ (FetchNotExecuted(s) \/ FetchStored(s) \/ FetchStep(s) \/ FetchFinished(s))
    BY DEF sqlFetch
  <1>2. /\ s \in Stmt /\ heap \in Heap /\ t \in StmtRecord /\ l \in LiteStmt
        /\ l.state # "none" /\ ResultKnown(t, l) /\ HeapInv(heap, DatabaseCount, StmtCount)
        /\ t.db \in Database /\ t.usage > 0
    BY <1>1, HeapOf, StmtReferred
  <1>3. CASE FetchNotExecuted(s)
    <2> DEFINE u == [t EXCEPT !.fetchOkay = FALSE]
    <2>1. heap' = [heap EXCEPT !.lite[s] = l, !.stmt[s] = u] /\ ~t.executed
      BY <1>2, <1>3 DEF FetchNotExecuted, Heap
    <2>2. /\ u \in StmtRecord /\ u.usage = t.usage /\ u.db = t.db
          /\ u.executed = t.executed /\ u.fetchOkay = FALSE
      BY <1>2 DEF StmtRecord
    <2> HIDE DEF u
    <2>3. ResultKnown(u, l)
      BY <1>2, <2>1, <2>2 DEF ResultKnown
    <2> HIDE DEF l
    <2> QED BY <1>1, <1>2, <2>1, <2>2, <2>3, StatementStep
  <1>4. CASE FetchStored(s)
    <2> DEFINE u == [t EXCEPT !.useStored = FALSE, !.fetchOkay = t.stored]
    <2>1. heap' = [heap EXCEPT !.lite[s] = l, !.stmt[s] = u] /\ t.executed /\ t.useStored
      BY <1>2, <1>4 DEF FetchStored, Heap
    <2>2. /\ u \in StmtRecord /\ u.usage = t.usage /\ u.db = t.db
          /\ u.executed = t.executed /\ u.fetchOkay = t.stored /\ u.useStored = FALSE
          /\ u.finished = t.finished
      BY <1>2 DEF StmtRecord
    <2> HIDE DEF u
    <2>3. ResultKnown(u, l)
      BY <1>2, <2>1, <2>2 DEF ResultKnown
    <2> HIDE DEF l
    <2> QED BY <1>1, <1>2, <2>1, <2>2, <2>3, StatementStep
  <1>5. CASE FetchStep(s)
    <2>1. t.executed /\ ~t.useStored /\ ~t.finished
      BY <1>5 DEF FetchStep
    <2>2. l.state \in {"row", "done"}
      BY <1>2, <2>1 DEF ResultKnown
    <2> DEFINE d == t.db
               More(m) == heap.connection[d].uncommitted
                          \/ (EmptyFetched(s) /\ m # Failed /\ ~heap.connection[d].autocommit)
    <2>3. PICK m \in sqlite3_step(l) :
            heap' = [heap EXCEPT !.lite[s] = m, !.stmt[s].fetchOkay = m.state = "row",
                                 !.stmt[s].finished = m.state # "row",
                                 !.connection[d].uncommitted = More(m)]
      BY <1>2, <1>5 DEF FetchStep, Heap
    <2> DEFINE u == [t EXCEPT !.fetchOkay = m.state = "row", !.finished = m.state # "row"]
               c == [heap.connection[d] EXCEPT !.uncommitted = More(m)]
               k == WithLite(WithStmt(heap, s, u), s, m)
               g == WithConnection(k, d, c)
    <2>4. /\ m \in LiteStmt /\ m.state \in {"row", "done", "failed"}
          /\ IF m.state = "row" THEN 1 <= m.row /\ m.row <= m.rows ELSE m.row = 0 /\ m.rows = 0
      BY <1>2, <2>2, <2>3, StepKnown DEF ResultKnown
    <2>5. heap' = g
      <3> HIDE DEF More
      <3> QED BY <1>2, <2>3, ZenonT(40) DEF Heap, WithStmt, WithLite, WithConnection
    <2>6. /\ u \in StmtRecord /\ u.usage = t.usage /\ u.db = t.db
          /\ u.executed = t.executed /\ u.useStored = t.useStored
          /\ u.fetchOkay = (m.state = "row") /\ u.finished = (m.state # "row")
      BY <1>2 DEF StmtRecord
    <2>7. heap.connection[d] \in Connection
      BY <1>2, HeapTypes
    <2>8. c \in Connection /\ (c.open <=> heap.connection[d].open)
                           /\ (c.abandoned <=> heap.connection[d].abandoned)
      <3> HIDE DEF d
      <3> QED BY <2>7 DEF Connection, EmptyFetched
    <2> HIDE DEF u, c, k, g, More
    <2>9. ResultKnown(u, m)
      BY <2>1, <2>4, <2>6 DEF ResultKnown
    <2> HIDE DEF s, t
    <2>10. HeapInv(k, DatabaseCount, StmtCount)
      <3>1. u.usage = heap.stmt[s].usage /\ u.db = heap.stmt[s].db /\ m.state # "none"
        BY <2>4, <2>6 DEF t
      <3> QED BY <1>2, <2>4, <2>6, <2>9, <3>1, SetBoth DEF k
    <2>11. k.connection = heap.connection
      BY DEF k, WithLite, WithStmt
    <2> HIDE DEF d
    <2>12. HeapInv(g, DatabaseCount, StmtCount)
      <3>1. d \in Database
        BY <1>2 DEF d, t
      <3>2. c.open <=> k.connection[d].open
        BY <2>8, <2>11
      <3>3. c.abandoned <=> k.connection[d].abandoned
        BY <2>8, <2>11
      <3> QED BY <2>8, <2>10, <3>1, <3>2, <3>3, ConnectionKeeps DEF g
    <2> QED BY <1>1, <2>5, <2>12, VariablesKept
  <1>6. CASE FetchFinished(s)
    BY <1>1, <1>2, <1>6, VariablesKept DEF FetchFinished
  <1> QED BY <1>1, <1>3, <1>4, <1>5, <1>6

---------------------------------------------------------------------------
(* The invariant holds, and what it says about usage counts and columns.    *)

LEMMA SqlInvInit == SqlInit => SqlInv
  <1> SUFFICES ASSUME SqlInit PROVE SqlInv
    OBVIOUS
  <1> DEFINE D == RefCount(DatabaseVariable, Database, databaseVariable)
             S == RefCount(StmtVariable, Stmt, stmtVariable)
  <1>1. /\ databaseVariable \in [DatabaseVariable -> Database \cup {NULL}]
        /\ stmtVariable \in [StmtVariable -> Stmt \cup {NULL}]
    BY DEF SqlInit
  <1>2. /\ heap \in Heap
        /\ \A d \in Database : heap.database[d] = NoDatabase /\ heap.connection[d] = NoConnection
        /\ \A s \in Stmt : heap.stmt[s] = NoStmt /\ heap.lite[s] = NoLiteStmt
    BY EmptyRecords DEF SqlInit, Heap
  <1>3. \A d \in Database : D[d] = 0
    <2>1. ASSUME NEW d \in Database PROVE {v \in DatabaseVariable : databaseVariable[v] = d} = {}
      BY SqlAssumption DEF SqlInit
    <2> QED BY <2>1, FS_EmptySet DEF RefCount, Count
  <1>4. \A s \in Stmt : S[s] = 0
    <2>1. ASSUME NEW s \in Stmt PROVE {p \in StmtVariable : stmtVariable[p] = s} = {}
      BY SqlAssumption DEF SqlInit
    <2> QED BY <2>1, FS_EmptySet DEF RefCount, Count
  <1>5. D \in [Database -> Nat] /\ S \in [Stmt -> Nat]
    <2>1. D = [d \in Database |-> D[d]] /\ S = [s \in Stmt |-> S[s]]
      BY DEF RefCount
    <2> HIDE DEF D, S
    <2> QED BY <1>3, <1>4, <2>1
  <1> HIDE DEF D, S
  <1>6. Counted(heap, D, S)
    <2>1. ASSUME NEW d \in Database PROVE Cardinality(Refs(heap, d)) = 0
      <3>1. Refs(heap, d) = {}
        BY <1>2, SqlAssumption DEF Refs, NoStmt
      <3> QED BY <3>1, FS_EmptySet
    <2> QED BY <1>2, <1>3, <1>4, <1>5, <2>1 DEF Counted, NoDatabase, NoStmt
  <1>7. StmtsAlive(heap) /\ DatabasesAlive(heap)
    <2>1. NoStmt.usage = 0 /\ NoDatabase.isOpen = FALSE /\ NoConnection.open = FALSE
      BY DEF NoStmt, NoDatabase, NoConnection
    <2> QED BY <1>2, <2>1 DEF StmtsAlive, DatabasesAlive
  <1>8. ResultsKnown(heap)
    BY <1>2 DEF ResultsKnown, ResultKnown, NoStmt, NoLiteStmt
  <1> QED BY <1>1, <1>2, <1>6, <1>7, <1>8 DEF SqlInv, HeapInv, D, S

LEMMA SqlInvNext == SqlInv /\ [SqlNext]_sqlVars => SqlInv'
  <1> SUFFICES ASSUME SqlInv, [SqlNext]_sqlVars PROVE SqlInv'
    OBVIOUS
  <1>1. ASSUME NEW v \in DatabaseVariable,
               \/ sqlOpenLite(v) \/ sqlClose(v) \/ sqlCommit(v) \/ sqlRollback(v)
               \/ \E on \in BOOLEAN : sqlSetAutoCommit(v, on)
               \/ \E w \in DatabaseVariable : sqlCpyDb(v, w)
               \/ DatabaseVariableEnds(v)
        PROVE  SqlInv'
    BY <1>1, OpenStep, CloseStep, TransactionStep, CpyDbStep, VariableEndsStep
  <1>2. ASSUME NEW p \in StmtVariable,
               \/ \E v \in DatabaseVariable : sqlPrepare(p, v)
               \/ \E i \in Param : sqlBindStri(p, i)
               \/ sqlExecute(p) \/ sqlFetch(p)
               \/ \E q \in StmtVariable : sqlCpyStmt(p, q)
               \/ StmtVariableEnds(p)
        PROVE  SqlInv'
    BY <1>2, PrepareStep, BindStep, ExecuteStep, FetchKeeps, CpyStmtStep, VariableEndsStep
  <1>3. CASE UNCHANGED sqlVars
    BY <1>3, HeapOf, VariablesKept DEF sqlVars
  <1> QED BY <1>1, <1>2, <1>3 DEF SqlNext

(* Theorem: the types of the heap and of the variables hold, for every      *)
(* number of databases, statements and variables and for each behaviour of  *)
(* the library that the constants BindErrors and AutoReset describe.        *)
THEOREM SqlTyped == SqlSpec => []SqlTypeOK
  <1>1. SqlInv => SqlTypeOK
    BY HeapTypes DEF SqlInv, HeapInv, SqlTypeOK, DatabaseRecord, Connection, StmtRecord, LiteStmt
  <1> QED BY SqlInvInit, SqlInvNext, <1>1, PTL DEF SqlSpec

(* Theorem: usage counts are exact, so nothing that is referred to is freed *)
(* (sql_rtl.c: sqlCpyDb, sqlDestrDb, sqlCpyStmt, sqlDestrStmt), and a       *)
(* statement that was prepared has an open connection until it is finalized *)
(* (sql_lite.c: freePreparedStmt, freeDatabase, sqlClose).                  *)
THEOREM UsageExact == SqlSpec => []SqlUsageCounted
  <1>1. ASSUME SqlInv PROVE SqlUsageCounted
    <2>1. /\ heap \in Heap /\ Counted(heap, DatabaseCount, StmtCount)
          /\ StmtsAlive(heap) /\ DatabasesAlive(heap)
      BY <1>1, HeapOf DEF HeapInv
    <2>2. ASSUME NEW d \in Database
          PROVE  heap.database[d].usage =
                    Cardinality({v \in DatabaseVariable : databaseVariable[v] = d})
                    + Cardinality({s \in Stmt : heap.stmt[s].db = d})
      BY <2>1 DEF Counted, Refs, DatabaseCount, RefCount, Count
    <2>3. ASSUME NEW s \in Stmt
          PROVE  heap.stmt[s].usage = Cardinality({p \in StmtVariable : stmtVariable[p] = s})
      BY <2>1 DEF Counted, StmtCount, RefCount, Count
    <2>4. ConnectionsReleased
      BY <2>1 DEF StmtsAlive, DatabasesAlive, ConnectionsReleased, NoLiteStmt
    <2> QED BY <2>2, <2>3, <2>4 DEF SqlUsageCounted
  <1> QED BY SqlInvInit, SqlInvNext, <1>1, PTL DEF SqlSpec

(* Theorem: when binding a parameter of a statement that was reset does not *)
(* fail, columns are read only at the row that the last fetch announced     *)
(* (sql_lite.c: sqlFetch, sqlExecute, sqlBindStri).  With BindErrors it is  *)
(* false: a failing sqlBindStri leaves fetchOkay set.                       *)
THEOREM ColumnsCurrent == ASSUME ~BindErrors PROVE SqlSpec => []ColumnsOfRow
  <1>1. ASSUME SqlInv PROVE ColumnsOfRow
    <2>1. ASSUME NEW s \in Stmt, heap.stmt[s].fetchOkay
          PROVE  heap.lite[s].state = "row" /\ ~heap.stmt[s].useStored
      <3>1. ResultKnown(heap.stmt[s], heap.lite[s])
        BY <1>1, HeapOf DEF HeapInv, ResultsKnown
      <3> QED BY <2>1, <3>1 DEF ResultKnown
    <2> QED BY <2>1 DEF ColumnsOfRow
  <1> QED BY SqlInvInit, SqlInvNext, <1>1, PTL DEF SqlSpec

---------------------------------------------------------------------------
(* Prepared statements implement Cursor.                                    *)

\* The result that a statement has for the program, and its current row.
RowsOf(t, l) == IF t.executed /\ (t.useStored \/ t.fetchOkay) THEN l.rows ELSE 0
RowOf(t, l) == IF t.executed /\ (t.useStored \/ t.fetchOkay) /\ ~t.useStored THEN l.row ELSE 0

ResultRows(h) == [s \in Stmt |-> RowsOf(h.stmt[s], h.lite[s])]
ResultRow(h) == [s \in Stmt |-> RowOf(h.stmt[s], h.lite[s])]

SameResult(g, h, s) == /\ RowsOf(g.stmt[s], g.lite[s]) = RowsOf(h.stmt[s], h.lite[s])
                       /\ RowOf(g.stmt[s], g.lite[s]) = RowOf(h.stmt[s], h.lite[s])
NoResult(g, s) == RowsOf(g.stmt[s], g.lite[s]) = 0 /\ RowOf(g.stmt[s], g.lite[s]) = 0

\* The refinement mapping of Promised.
LEMMA Mapping ==
  /\ [s \in Stmt |-> IF HasResult(s) THEN heap.lite[s].rows ELSE 0] = ResultRows(heap)
  /\ [s \in Stmt |-> IF HasResult(s) /\ ~heap.stmt[s].useStored THEN heap.lite[s].row ELSE 0]
       = ResultRow(heap)
  BY DEF HasResult, ResultRows, ResultRow, RowsOf, RowOf

\* The steps of Cursor, in terms of the heap.
LEMMA DiscardResults ==
  ASSUME answer' = <<>>, NEW S \in SUBSET Stmt,
         \A s \in Stmt : IF s \in S THEN NoResult(heap', s) ELSE SameResult(heap', heap, s)
  PROVE  Promised!CursorNext
  <1>1. /\ ResultRows(heap)' = [s \in Stmt |-> IF s \in S THEN 0 ELSE ResultRows(heap)[s]]
        /\ ResultRow(heap)' = [s \in Stmt |-> IF s \in S THEN 0 ELSE ResultRow(heap)[s]]
    BY DEF ResultRows, ResultRow, NoResult, SameResult
  <1>2. Promised!Discard(S)
    BY <1>1 DEF Promised!Discard, Promised!NoAnswer, HasResult, ResultRows, ResultRow, RowsOf, RowOf
  <1> QED BY <1>2 DEF Promised!CursorNext

LEMMA NothingDiscarded ==
  ASSUME answer' = <<>>, \A s \in Stmt : SameResult(heap', heap, s)
  PROVE  Promised!CursorNext
  <1>1. {} \in SUBSET Stmt
    OBVIOUS
  <1> QED BY <1>1, DiscardResults

LEMMA ExecuteResult ==
  ASSUME answer' = <<>>, NEW s \in Stmt,
         RowsOf(heap'.stmt[s], heap'.lite[s]) \in 0 .. MaxRow,
         RowOf(heap'.stmt[s], heap'.lite[s]) = 0,
         \A t \in Stmt : t # s => SameResult(heap', heap, t)
  PROVE  Promised!CursorNext
  <1> DEFINE n == RowsOf(heap'.stmt[s], heap'.lite[s])
  <1>1. /\ ResultRows(heap)' = [ResultRows(heap) EXCEPT ![s] = n]
        /\ ResultRow(heap)' = [ResultRow(heap) EXCEPT ![s] = 0]
    BY DEF ResultRows, ResultRow, SameResult
  <1>2. n \in 0 .. MaxRow
    OBVIOUS
  <1> HIDE DEF n
  <1>3. Promised!Execute(s)
    BY <1>1, <1>2 DEF Promised!Execute, Promised!NoAnswer, HasResult, ResultRows, ResultRow, RowsOf, RowOf
  <1> QED BY <1>3 DEF Promised!CursorNext

LEMMA NextResult ==
  ASSUME NEW s \in Stmt, answer' = <<s, "row">>,
         RowOf(heap.stmt[s], heap.lite[s]) < RowsOf(heap.stmt[s], heap.lite[s]),
         RowOf(heap'.stmt[s], heap'.lite[s]) = RowOf(heap.stmt[s], heap.lite[s]) + 1,
         RowsOf(heap'.stmt[s], heap'.lite[s]) = RowsOf(heap.stmt[s], heap.lite[s]),
         \A t \in Stmt : t # s => SameResult(heap', heap, t)
  PROVE  Promised!CursorNext
  <1>1. /\ ResultRows(heap)' = ResultRows(heap)
        /\ ResultRow(heap)' = [ResultRow(heap) EXCEPT ![s] = @ + 1]
        /\ ResultRow(heap)[s] < ResultRows(heap)[s]
    BY DEF ResultRows, ResultRow, SameResult
  <1>2. Promised!NextRow(s)
    BY <1>1 DEF Promised!NextRow, HasResult, ResultRows, ResultRow, RowsOf, RowOf
  <1> QED BY <1>2 DEF Promised!CursorNext

LEMMA EndResult ==
  ASSUME NEW s \in Stmt, answer' = <<s, "end">>,
         RowOf(heap.stmt[s], heap.lite[s]) = RowsOf(heap.stmt[s], heap.lite[s]),
         NoResult(heap', s), \A t \in Stmt : t # s => SameResult(heap', heap, t)
  PROVE  Promised!CursorNext
  <1>1. /\ ResultRows(heap)' = [ResultRows(heap) EXCEPT ![s] = 0]
        /\ ResultRow(heap)' = [ResultRow(heap) EXCEPT ![s] = 0]
        /\ ResultRow(heap)[s] = ResultRows(heap)[s]
    BY DEF ResultRows, ResultRow, SameResult, NoResult
  <1>2. Promised!EndOfRows(s)
    BY <1>1 DEF Promised!EndOfRows, HasResult, ResultRows, ResultRow, RowsOf, RowOf
  <1> QED BY <1>2 DEF Promised!CursorNext

\* A fetch after the end of a result without rows.
LEMMA AnewResult ==
  ASSUME NEW s \in Stmt, answer' = <<s, "row">>, EmptyFetched(s), NEW n \in 0 .. MaxRow, n # 0,
         RowsOf(heap'.stmt[s], heap'.lite[s]) = n,
         RowOf(heap'.stmt[s], heap'.lite[s]) = 1,
         \A t \in Stmt : t # s => SameResult(heap', heap, t)
  PROVE  SqlCursorNext
  <1>1. /\ ResultRows(heap)' = [ResultRows(heap) EXCEPT ![s] = n]
        /\ ResultRow(heap)' = [ResultRow(heap) EXCEPT ![s] = 1]
    BY DEF ResultRows, ResultRow, SameResult
  <1>2. Promised!FetchAnew(s)
    BY <1>1 DEF Promised!FetchAnew, HasResult, ResultRows, ResultRow, RowsOf, RowOf
  <1> QED BY <1>2 DEF SqlCursorNext

\* What the operators on the heap leave of the results of statements.
LEMMA DecrementResults ==
  ASSUME NEW h \in Heap, NEW d \in Database
  PROVE  /\ DecrementDatabase(h, d).stmt = h.stmt
         /\ DecrementDatabase(h, d).lite = h.lite
  BY DEF DecrementDatabase, freeDatabase, CloseConnection, Heap

LEMMA DestrDbResults ==
  ASSUME NEW h \in Heap, NEW d \in Database \cup {NULL}
  PROVE  sqlDestrDb(h, d).stmt = h.stmt /\ sqlDestrDb(h, d).lite = h.lite
  BY DecrementResults DEF sqlDestrDb

LEMMA FreedResults ==
  ASSUME NEW h \in Heap, NEW s \in Stmt, h.stmt[s].db \in Database
  PROVE  LET g == freePreparedStmt(h, s)
         IN  /\ NoResult(g, s)
             /\ \A t \in Stmt : t # s => g.stmt[t] = h.stmt[t] /\ g.lite[t] = h.lite[t]
  <1> DEFINE d == h.stmt[s].db
             f == WithLite(h, s, NoLiteStmt)
             k == DecrementDatabase(f, d)
             g == freePreparedStmt(h, s)
  <1>1. g = [k EXCEPT !.stmt[s] = NoStmt]
    BY DEF freePreparedStmt, WithLite
  <1> HIDE DEF d, f, k, g
  <1>2. /\ f \in Heap /\ \A t \in Stmt : t # s => f.lite[t] = h.lite[t]
        /\ f.stmt = h.stmt
    BY EmptyRecords, SetLite DEF f
  <1>3. k.stmt = f.stmt /\ k.lite = f.lite
    BY <1>2, DecrementResults DEF k, d
  <1>4. h.stmt \in [Stmt -> StmtRecord]
    BY HeapTypes
  <1>5. k.stmt \in [Stmt -> StmtRecord]
    BY <1>2, <1>3, <1>4
  <1>6. DOMAIN k = {"database", "connection", "stmt", "lite"}
    BY <1>2 DEF k, DecrementDatabase, freeDatabase, CloseConnection, Heap
  <1>7. /\ g.stmt[s] = NoStmt /\ \A t \in Stmt : t # s => g.stmt[t] = k.stmt[t]
        /\ g.lite = k.lite
    BY <1>1, <1>5, <1>6
  <1>8. NoResult(g, s)
    BY <1>7 DEF NoResult, RowsOf, RowOf, NoStmt
  <1>9. \A t \in Stmt : t # s => g.stmt[t] = h.stmt[t] /\ g.lite[t] = h.lite[t]
    BY <1>2, <1>3, <1>7
  <1> QED BY <1>8, <1>9 DEF g

LEMMA DestrStmtResults ==
  ASSUME NEW h \in Heap, NEW s \in Stmt \cup {NULL}, s # NULL => h.stmt[s].db \in Database
  PROVE  LET g == sqlDestrStmt(h, s)
         IN  \A t \in Stmt : IF t = s /\ h.stmt[t].usage = 1 THEN NoResult(g, t)
                             ELSE SameResult(g, h, t)
  <1>0. NULL \notin Stmt
    BY SqlAssumption
  <1>1. CASE s = NULL
    BY <1>0, <1>1 DEF sqlDestrStmt, SameResult
  <1>2. CASE s # NULL /\ h.stmt[s].usage = 1
    <2>1. sqlDestrStmt(h, s) = freePreparedStmt(h, s)
      BY <1>2 DEF sqlDestrStmt
    <2>2. /\ NoResult(sqlDestrStmt(h, s), s)
          /\ \A t \in Stmt : t # s => /\ sqlDestrStmt(h, s).stmt[t] = h.stmt[t]
                                      /\ sqlDestrStmt(h, s).lite[t] = h.lite[t]
      BY <1>2, <2>1, FreedResults
    <2> QED BY <1>2, <2>2 DEF SameResult
  <1>3. CASE s # NULL /\ h.stmt[s].usage # 1
    <2> DEFINE r == [h.stmt[s] EXCEPT !.usage = @ - 1]
               g == sqlDestrStmt(h, s)
    <2>1. s \in Stmt /\ h.stmt[s] \in StmtRecord /\ h.stmt[s].usage \in Nat
      BY <1>3, HeapTypes
    <2>2. g = [h EXCEPT !.stmt[s] = r]
      BY <1>3 DEF sqlDestrStmt
    <2>3. /\ r.executed = h.stmt[s].executed /\ r.useStored = h.stmt[s].useStored
          /\ r.fetchOkay = h.stmt[s].fetchOkay
      BY <2>1 DEF StmtRecord
    <2> HIDE DEF r, g
    <2>4. g.stmt[s] = r /\ g.lite = h.lite /\ \A t \in Stmt : t # s => g.stmt[t] = h.stmt[t]
      BY <2>1, <2>2 DEF Heap
    <2>5. \A t \in Stmt : SameResult(g, h, t)
      BY <2>3, <2>4 DEF SameResult, RowsOf, RowOf
    <2> QED BY <1>3, <2>5 DEF g
  <1> QED BY <1>1, <1>2, <1>3

LEMMA CreateStmtResults ==
  ASSUME NEW h \in Heap, NEW s \in Stmt \cup {NULL}
  PROVE  \A t \in Stmt : /\ SameResult(sqlCreateStmt(h, s), h, t)
                         /\ sqlCreateStmt(h, s).stmt[t].db = h.stmt[t].db
  <1>1. CASE s = NULL
    BY <1>1 DEF sqlCreateStmt, SameResult
  <1>2. CASE s # NULL
    <2> DEFINE r == [h.stmt[s] EXCEPT !.usage = @ + 1]
               g == sqlCreateStmt(h, s)
    <2>1. s \in Stmt /\ h.stmt[s] \in StmtRecord
      BY <1>2, HeapTypes
    <2>2. g = [h EXCEPT !.stmt[s] = r]
      BY <1>2 DEF sqlCreateStmt
    <2>3. /\ r.executed = h.stmt[s].executed /\ r.useStored = h.stmt[s].useStored
          /\ r.fetchOkay = h.stmt[s].fetchOkay /\ r.db = h.stmt[s].db
      BY <2>1 DEF StmtRecord
    <2> HIDE DEF r, g
    <2>4. g.stmt[s] = r /\ g.lite = h.lite /\ \A t \in Stmt : t # s => g.stmt[t] = h.stmt[t]
      BY <2>1, <2>2 DEF Heap
    <2>5. \A t \in Stmt : SameResult(g, h, t) /\ g.stmt[t].db = h.stmt[t].db
      BY <2>3, <2>4 DEF SameResult, RowsOf, RowOf
    <2> QED BY <2>5 DEF g
  <1> QED BY <1>1, <1>2

LEMMA KeptOrDiscarded ==
  ASSUME answer' = <<>>, \A s \in Stmt : NoResult(heap', s) \/ SameResult(heap', heap, s)
  PROVE  Promised!CursorNext
  <1> DEFINE S == {s \in Stmt : NoResult(heap', s)}
  <1>1. \A s \in Stmt : IF s \in S THEN NoResult(heap', s) ELSE SameResult(heap', heap, s)
    OBVIOUS
  <1>2. S \in SUBSET Stmt
    OBVIOUS
  <1> HIDE DEF S
  <1> QED BY <1>1, <1>2, DiscardResults

\* What a program does with databases is no matter to the results of statements.
LEMMA DatabaseStepRefines ==
  ASSUME SqlInv, NEW v \in DatabaseVariable,
         \/ sqlOpenLite(v) \/ sqlClose(v) \/ sqlCommit(v) \/ sqlRollback(v)
         \/ \E on \in BOOLEAN : sqlSetAutoCommit(v, on)
         \/ \E w \in DatabaseVariable : sqlCpyDb(v, w)
         \/ DatabaseVariableEnds(v)
  PROVE  Promised!CursorNext
  <1>0. heap \in Heap /\ databaseVariable \in [DatabaseVariable -> Database \cup {NULL}]
    BY HeapOf DEF SqlInv
  <1>1. ASSUME sqlOpenLite(v) PROVE heap'.stmt = heap.stmt /\ heap'.lite = heap.lite /\ answer' = <<>>
    <2> DEFINE d == AnyOf(FreeDatabase)
               h == [heap EXCEPT !.database[d] = [usage |-> 1, isOpen |-> TRUE],
                                 !.connection[d] = [NoConnection EXCEPT !.open = TRUE]]
    <2>1. heap' = sqlDestrDb(h, databaseVariable[v]) /\ answer' = <<>> /\ d \in Database
      BY <1>1 DEF sqlOpenLite, AnyOf, FreeDatabase
    <2>2. [usage |-> 1, isOpen |-> TRUE] \in DatabaseRecord /\ [NoConnection EXCEPT !.open = TRUE] \in Connection
      BY DEF DatabaseRecord, Connection, NoConnection
    <2> HIDE DEF d
    <2>3. h \in Heap /\ h.stmt = heap.stmt /\ h.lite = heap.lite
      BY <1>0, <2>1, <2>2 DEF Heap
    <2> HIDE DEF h
    <2> QED BY <1>0, <2>1, <2>3, DestrDbResults
  <1>2. ASSUME sqlClose(v) PROVE heap'.stmt = heap.stmt /\ heap'.lite = heap.lite /\ answer' = <<>>
    BY <1>0, <1>2 DEF sqlClose, CloseConnection, Heap
  <1>3. ASSUME sqlCommit(v) \/ sqlRollback(v) \/ \E on \in BOOLEAN : sqlSetAutoCommit(v, on)
        PROVE  heap'.stmt = heap.stmt /\ heap'.lite = heap.lite /\ answer' = <<>>
    BY <1>0, <1>3 DEF sqlCommit, sqlRollback, sqlSetAutoCommit, OnConnection, Heap
  <1>4. ASSUME NEW w \in DatabaseVariable, sqlCpyDb(v, w)
        PROVE  heap'.stmt = heap.stmt /\ heap'.lite = heap.lite /\ answer' = <<>>
    <2> DEFINE h == sqlCreateDb(heap, databaseVariable[w])
    <2>1. HeapInv(h, Bump(Database, DatabaseCount, databaseVariable[w]), StmtCount)
      BY <1>0, HeapOf, CreateDb
    <2>2. h.stmt = heap.stmt /\ h.lite = heap.lite
      BY <1>0 DEF sqlCreateDb, Heap
    <2>3. heap' = sqlDestrDb(h, databaseVariable[v]) /\ answer' = <<>>
      BY <1>4 DEF sqlCpyDb
    <2> HIDE DEF h
    <2>4. h \in Heap
      BY <2>1 DEF HeapInv
    <2> QED BY <1>0, <2>2, <2>3, <2>4, DestrDbResults
  <1>5. ASSUME DatabaseVariableEnds(v)
        PROVE  heap'.stmt = heap.stmt /\ heap'.lite = heap.lite /\ answer' = <<>>
    BY <1>0, <1>5, DestrDbResults DEF DatabaseVariableEnds
  <1>6. heap'.stmt = heap.stmt /\ heap'.lite = heap.lite /\ answer' = <<>>
    BY <1>1, <1>2, <1>3, <1>4, <1>5
  <1>7. \A s \in Stmt : SameResult(heap', heap, s)
    BY <1>6 DEF SameResult
  <1> QED BY <1>6, <1>7, NothingDiscarded

\* The result of a statement lasts until its last variable ends or is assigned.
LEMMA VariableStepRefines ==
  ASSUME SqlInv, NEW p \in StmtVariable,
         StmtVariableEnds(p) \/ \E q \in StmtVariable : sqlCpyStmt(p, q)
  PROVE  Promised!CursorNext
  <1>0. /\ heap \in Heap /\ stmtVariable \in [StmtVariable -> Stmt \cup {NULL}]
        /\ stmtVariable[p] # NULL => heap.stmt[stmtVariable[p]].db \in Database
    BY HeapOf, StmtReferred DEF SqlInv
  <1>1. PICK h \in Heap : /\ heap' = sqlDestrStmt(h, stmtVariable[p]) /\ answer' = <<>>
                          /\ \A t \in Stmt : SameResult(h, heap, t) /\ h.stmt[t].db = heap.stmt[t].db
    <2>1. CASE StmtVariableEnds(p)
      BY <1>0, <2>1 DEF StmtVariableEnds, SameResult
    <2>2. ASSUME NEW q \in StmtVariable, sqlCpyStmt(p, q)
          PROVE  \E h \in Heap : /\ heap' = sqlDestrStmt(h, stmtVariable[p]) /\ answer' = <<>>
                                 /\ \A t \in Stmt : SameResult(h, heap, t) /\ h.stmt[t].db = heap.stmt[t].db
      <3> DEFINE h == sqlCreateStmt(heap, stmtVariable[q])
      <3>1. heap' = sqlDestrStmt(h, stmtVariable[p]) /\ answer' = <<>>
        BY <2>2 DEF sqlCpyStmt
      <3>2. \A t \in Stmt : SameResult(h, heap, t) /\ h.stmt[t].db = heap.stmt[t].db
        BY <1>0, CreateStmtResults
      <3>3. stmtVariable[q] # NULL => StmtCount[stmtVariable[q]] > 0
        BY StmtReferred
      <3>4. HeapInv(h, DatabaseCount, Bump(Stmt, StmtCount, stmtVariable[q]))
        BY <1>0, <3>3, HeapOf, CreateStmt
      <3>5. h \in Heap
        BY <3>4 DEF HeapInv
      <3> HIDE DEF h
      <3> QED BY <3>1, <3>2, <3>5
    <2> QED BY <2>1, <2>2
  <1>2. stmtVariable[p] \in Stmt \cup {NULL} /\ NULL \notin Stmt
        /\ (stmtVariable[p] # NULL => h.stmt[stmtVariable[p]].db \in Database)
    BY <1>0, <1>1, SqlAssumption
  <1>3. \A t \in Stmt : NoResult(heap', t) \/ SameResult(heap', h, t)
    BY <1>1, <1>2, DestrStmtResults
  <1>4. \A t \in Stmt : NoResult(heap', t) \/ SameResult(heap', heap, t)
    BY <1>1, <1>3 DEF SameResult
  <1> QED BY <1>1, <1>4, KeptOrDiscarded

\* A statement that was prepared has no result yet.
LEMMA PrepareRefines ==
  ASSUME SqlInv, NEW p \in StmtVariable, NEW v \in DatabaseVariable, sqlPrepare(p, v)
  PROVE  Promised!CursorNext
  <1> DEFINE d == databaseVariable[v]
             s == AnyOf(FreeStmt)
             h == Prepared(s, d)
  <1>0. /\ heap \in Heap /\ stmtVariable \in [StmtVariable -> Stmt \cup {NULL}]
        /\ stmtVariable[p] # NULL => heap.stmt[stmtVariable[p]].db \in Database
    BY HeapOf, StmtReferred DEF SqlInv
  <1>1. /\ d # NULL /\ heap.database[d].isOpen /\ s \in FreeStmt /\ answer' = <<>>
        /\ heap' = sqlDestrStmt(h, stmtVariable[p]) \/ heap' = freePreparedStmt(h, s)
    BY DEF sqlPrepare, IsOpen, AnyOf
  <1>2. d \in Database
    BY <1>1, DatabaseReferred
  <1> HIDE DEF d, s
  <1>3. s \in Stmt
    BY <1>1 DEF FreeStmt
  <1>4. h \in Heap
    <2>1. HeapInv(h, DatabaseCount, Bump(Stmt, StmtCount, s))
      BY <1>1, <1>2, HeapOf, PreparedKeeps
    <2> QED BY <2>1 DEF HeapInv
  <1>5. /\ h.stmt[s] = [NoStmt EXCEPT !.usage = 1, !.db = d]
        /\ \A t \in Stmt : t # s => h.stmt[t] = heap.stmt[t] /\ h.lite[t] = heap.lite[t]
    BY <1>0, <1>3 DEF Prepared, Heap
  <1> HIDE DEF h
  <1>6. NoResult(h, s) /\ h.stmt[s].db = d
    BY <1>5 DEF NoStmt, NoResult, RowsOf, RowOf
  <1>7. CASE heap' = sqlDestrStmt(h, stmtVariable[p])
    <2>1. stmtVariable[p] # NULL => h.stmt[stmtVariable[p]].db \in Database
      BY <1>0, <1>2, <1>5, <1>6
    <2>2. \A t \in Stmt : NoResult(heap', t) \/ SameResult(heap', h, t)
      BY <1>0, <1>4, <1>7, <2>1, DestrStmtResults
    <2>3. ASSUME NEW t \in Stmt PROVE NoResult(heap', t) \/ SameResult(heap', heap, t)
      <3>1. CASE t = s
        BY <1>6, <2>2, <3>1 DEF SameResult, NoResult
      <3>2. CASE t # s
        BY <1>5, <2>2, <3>2 DEF SameResult
      <3> QED BY <3>1, <3>2
    <2> QED BY <1>1, <2>3, KeptOrDiscarded
  <1>8. CASE heap' = freePreparedStmt(h, s)
    <2>1. NoResult(heap', s) /\ \A t \in Stmt : t # s => heap'.stmt[t] = h.stmt[t] /\ heap'.lite[t] = h.lite[t]
      BY <1>2, <1>3, <1>4, <1>6, <1>8, FreedResults
    <2>2. \A t \in Stmt : NoResult(heap', t) \/ SameResult(heap', heap, t)
      BY <1>5, <2>1 DEF SameResult
    <2> QED BY <1>1, <2>2, KeptOrDiscarded
  <1> QED BY <1>1, <1>7, <1>8

\* A change of one statement.
LEMMA OneChanged ==
  ASSUME heap \in Heap, NEW s \in Stmt, NEW t, NEW l,
         \/ heap' = [heap EXCEPT !.lite[s] = l, !.stmt[s] = t]
         \/ \E d \in Database : \E c :
               heap' = [heap EXCEPT !.lite[s] = l, !.stmt[s] = t, !.connection[d] = c]
  PROVE  /\ heap'.stmt[s] = t /\ heap'.lite[s] = l
         /\ \A u \in Stmt : u # s => SameResult(heap', heap, u)
  <1>1. /\ heap'.stmt[s] = t /\ heap'.lite[s] = l
        /\ \A u \in Stmt : u # s => heap'.stmt[u] = heap.stmt[u] /\ heap'.lite[u] = heap.lite[u]
    BY ZenonT(40) DEF Heap
  <1> QED BY <1>1 DEF SameResult

\* Binding a parameter ends the result of the statement.
LEMMA BindRefines ==
  ASSUME SqlInv, NEW p \in StmtVariable, NEW i \in Param, sqlBindStri(p, i)
  PROVE  Promised!CursorNext
  <1> DEFINE s == stmtVariable[p]
             t == heap.stmt[s]
             l == heap.lite[s]
  <1>1. s # NULL /\ answer' = <<>>
    BY DEF sqlBindStri
  <1>2. s \in Stmt /\ heap \in Heap /\ t \in StmtRecord /\ l \in LiteStmt /\ ResultKnown(t, l)
    BY <1>1, HeapOf, StmtReferred
  <1>3. CASE ResetFails(s) /\ heap' = [heap EXCEPT !.lite[s] = Ready]
    <2>1. t.executed /\ l.state = "failed" /\ ~t.useStored /\ ~t.fetchOkay
      BY <1>2, <1>3 DEF ResetFails, ResultKnown
    <2>2. heap' = [heap EXCEPT !.lite[s] = Ready, !.stmt[s] = t]
      BY <1>2, <1>3 DEF Heap
    <2> HIDE DEF t
    <2>3. heap'.stmt[s] = t /\ \A u \in Stmt : u # s => SameResult(heap', heap, u)
      BY <1>2, <2>2, OneChanged
    <2>4. NoResult(heap', s)
      BY <2>1, <2>3 DEF NoResult, RowsOf, RowOf
    <2> QED BY <1>1, <2>3, <2>4, KeptOrDiscarded
  <1>4. CASE \E m, u : /\ heap' = [heap EXCEPT !.lite[s] = m, !.stmt[s] = u]
                       /\ u.executed = FALSE
    <2>1. PICK m, u : heap' = [heap EXCEPT !.lite[s] = m, !.stmt[s] = u] /\ u.executed = FALSE
      BY <1>4
    <2>2. heap'.stmt[s] = u /\ \A w \in Stmt : w # s => SameResult(heap', heap, w)
      BY <1>2, <2>1, OneChanged
    <2>3. NoResult(heap', s)
      BY <2>1, <2>2 DEF NoResult, RowsOf, RowOf
    <2> QED BY <1>1, <2>2, <2>3, KeptOrDiscarded
  <1>5. ASSUME heap' = [heap EXCEPT !.lite[s] = Ready, !.stmt[s] = Bound(@, i)]
        PROVE  \E m, u : /\ heap' = [heap EXCEPT !.lite[s] = m, !.stmt[s] = u]
                         /\ u.executed = FALSE
    <2> DEFINE u == Bound(t, i)
    <2>1. heap' = [heap EXCEPT !.lite[s] = Ready, !.stmt[s] = u]
      BY <1>2, <1>5 DEF Heap
    <2>2. u.executed = FALSE
      BY <1>2 DEF Bound, StmtRecord
    <2> HIDE DEF u
    <2> QED BY <2>1, <2>2
  <1>6. ASSUME heap' = [heap EXCEPT !.lite[s] = Reset(s), !.stmt[s].executed = FALSE]
        PROVE  \E m, u : /\ heap' = [heap EXCEPT !.lite[s] = m, !.stmt[s] = u]
                         /\ u.executed = FALSE
    <2> DEFINE u == [t EXCEPT !.executed = FALSE]
    <2>1. heap' = [heap EXCEPT !.lite[s] = Reset(s), !.stmt[s] = u]
      BY <1>2, <1>6 DEF Heap
    <2>2. u.executed = FALSE
      BY <1>2 DEF StmtRecord
    <2> HIDE DEF u
    <2> QED BY <2>1, <2>2
  <1> QED BY <1>3, <1>4, <1>5, <1>6 DEF sqlBindStri

\* Execution gives the statement a result or fails.
LEMMA ExecuteRefines ==
  ASSUME SqlInv, NEW p \in StmtVariable, sqlExecute(p)
  PROVE  Promised!CursorNext
  <1> DEFINE s == stmtVariable[p]
             t == heap.stmt[s]
             l == heap.lite[s]
             d == t.db
  <1>1. s # NULL /\ answer' = <<>>
    BY DEF sqlExecute
  <1>2. /\ s \in Stmt /\ heap \in Heap /\ t \in StmtRecord /\ l \in LiteStmt
        /\ l.state # "none" /\ ResultKnown(t, l) /\ d \in Database
    BY <1>1, HeapOf, StmtReferred
  <1>3. CASE ResetFails(s) /\ heap' = [heap EXCEPT !.lite[s] = Ready]
    <2>1. t.executed /\ l.state = "failed" /\ ~t.useStored /\ ~t.fetchOkay
      BY <1>2, <1>3 DEF ResetFails, ResultKnown
    <2>2. heap' = [heap EXCEPT !.lite[s] = Ready, !.stmt[s] = t]
      BY <1>2, <1>3 DEF Heap
    <2> HIDE DEF t
    <2>3. heap'.stmt[s] = t /\ \A u \in Stmt : u # s => SameResult(heap', heap, u)
      BY <1>2, <2>2, OneChanged
    <2>4. NoResult(heap', s)
      BY <2>1, <2>3 DEF NoResult, RowsOf, RowOf
    <2> QED BY <1>1, <2>3, <2>4, KeptOrDiscarded
  <1>4. CASE ~ResetFails(s)
    <2> DEFINE Next(m) == IF m = Failed THEN [t EXCEPT !.executed = FALSE, !.fetchOkay = FALSE]
                          ELSE [t EXCEPT !.executed = TRUE, !.fetchOkay = FALSE, !.finished = FALSE,
                                         !.useStored = TRUE, !.stored = m.state = "row"]
               More(m) == heap.connection[d].uncommitted
                          \/ (m # Failed /\ ~heap.connection[d].autocommit)
    <2>1. PICK m \in sqlite3_step(Reset(s)) :
            heap' = [heap EXCEPT !.lite[s] = m, !.stmt[s] = Next(m),
                                 !.connection[d].uncommitted = More(m)]
      BY <1>2, <1>4 DEF sqlExecute, Heap
    <2>2. Reset(s).state \in {"ready", "failed"}
      BY <1>2, ReadyKnown DEF Reset, ResultKnown
    <2>3. m \in Started
      BY <2>1, <2>2 DEF sqlite3_step, Started
    <2>4. m \in LiteStmt /\ m.rows \in 0 .. MaxRow
      BY <2>3, StartedKnown DEF LiteStmt
    <2> DEFINE u == Next(m)
               c == [heap.connection[d] EXCEPT !.uncommitted = More(m)]
    <2>5. /\ m = Failed => u.executed = FALSE
          /\ m # Failed => u.executed = TRUE /\ u.useStored = TRUE
      BY <1>2 DEF StmtRecord
    <2>6. heap' = [heap EXCEPT !.lite[s] = m, !.stmt[s] = u, !.connection[d] = c]
      <3> HIDE DEF Next, More
      <3> QED BY <1>2, <2>1 DEF Heap
    <2> HIDE DEF u, c
    <2>7. /\ heap'.stmt[s] = u /\ heap'.lite[s] = m
          /\ \A w \in Stmt : w # s => SameResult(heap', heap, w)
      <3> HIDE DEF d
      <3> QED BY <1>2, <2>6, OneChanged
    <2>8. CASE m = Failed
      <3>1. NoResult(heap', s)
        BY <2>5, <2>7, <2>8 DEF NoResult, RowsOf, RowOf
      <3> QED BY <1>1, <2>7, <3>1, KeptOrDiscarded
    <2>9. CASE m # Failed
      <3>1. /\ RowsOf(heap'.stmt[s], heap'.lite[s]) \in 0 .. MaxRow
            /\ RowOf(heap'.stmt[s], heap'.lite[s]) = 0
        BY <2>4, <2>5, <2>7, <2>9 DEF RowsOf, RowOf
      <3> QED BY <1>1, <1>2, <2>7, <3>1, ExecuteResult
    <2> QED BY <2>8, <2>9
  <1> QED BY <1>3, <1>4 DEF sqlExecute

\* A fetch announces the next row or the end of the result, or fails.
LEMMA FetchRefines ==
  ASSUME SqlInv, NEW p \in StmtVariable, sqlFetch(p)
  PROVE  SqlCursorNext
  <1> DEFINE s == stmtVariable[p]
             t == heap.stmt[s]
             l == heap.lite[s]
  <1>1. s # NULL /\ (FetchNotExecuted(s) \/ FetchStored(s) \/ FetchStep(s) \/ FetchFinished(s))
    BY DEF sqlFetch
  <1>2. /\ s \in Stmt /\ heap \in Heap /\ t \in StmtRecord /\ l \in LiteStmt
        /\ l.state # "none" /\ ResultKnown(t, l) /\ t.db \in Database
    BY <1>1, HeapOf, StmtReferred
  <1>3. CASE FetchNotExecuted(s)
    <2> DEFINE u == [t EXCEPT !.fetchOkay = FALSE]
    <2>1. heap' = [heap EXCEPT !.lite[s] = l, !.stmt[s] = u] /\ ~t.executed /\ answer' = <<>>
      BY <1>2, <1>3 DEF FetchNotExecuted, Heap
    <2>2. u.executed = t.executed
      BY <1>2 DEF StmtRecord
    <2> HIDE DEF u, l
    <2>3. heap'.stmt[s] = u /\ \A w \in Stmt : w # s => SameResult(heap', heap, w)
      BY <1>2, <2>1, OneChanged
    <2>4. NoResult(heap', s)
      BY <2>1, <2>2, <2>3 DEF NoResult, RowsOf, RowOf
    <2> QED BY <2>1, <2>3, <2>4, KeptOrDiscarded DEF SqlCursorNext
  <1>4. CASE FetchStored(s)
    <2> DEFINE u == [t EXCEPT !.useStored = FALSE, !.fetchOkay = t.stored]
    <2>1. heap' = [heap EXCEPT !.lite[s] = l, !.stmt[s] = u] /\ t.executed /\ t.useStored
      BY <1>2, <1>4 DEF FetchStored, Heap
    <2>2. u.executed = t.executed /\ u.fetchOkay = t.stored /\ u.useStored = FALSE
      BY <1>2 DEF StmtRecord
    <2>3. answer' = <<s, IF t.stored THEN "row" ELSE "end">>
      BY <1>4 DEF FetchStored, Answer
    <2> HIDE DEF u
    <2>4. /\ heap'.stmt[s] = u /\ heap'.lite[s] = l
          /\ \A w \in Stmt : w # s => SameResult(heap', heap, w)
      <3> HIDE DEF l
      <3> QED BY <1>2, <2>1, OneChanged
    <2>5. RowsOf(t, l) = l.rows /\ RowOf(t, l) = 0
      BY <2>1 DEF RowsOf, RowOf
    <2>6. CASE t.stored
      <3>1. l.row = 1 /\ l.row <= l.rows
        BY <1>2, <2>1, <2>6 DEF ResultKnown
      <3>2. RowsOf(u, l) = l.rows /\ RowOf(u, l) = 1
        BY <2>1, <2>2, <2>6, <3>1 DEF RowsOf, RowOf
      <3>3. 0 < l.rows /\ 1 = 0 + 1
        BY <1>2, <3>1 DEF LiteStmt
      <3>4. answer' = <<s, "row">>
        BY <2>3, <2>6
      <3> QED BY <1>2, <2>4, <2>5, <3>2, <3>3, <3>4, NextResult DEF SqlCursorNext
    <2>7. CASE ~t.stored
      <3>1. l.row = 0 /\ l.rows = 0
        BY <1>2, <2>1, <2>7 DEF ResultKnown
      <3>2. NoResult(heap', s)
        BY <2>2, <2>4, <2>7, <3>1 DEF NoResult, RowsOf, RowOf
      <3>3. answer' = <<s, "end">>
        BY <2>3, <2>7
      <3> QED BY <1>2, <2>4, <2>5, <3>1, <3>2, <3>3, EndResult DEF SqlCursorNext
    <2> QED BY <2>6, <2>7
  <1>5. CASE FetchStep(s)
    <2>1. t.executed /\ ~t.useStored /\ ~t.finished
      BY <1>5 DEF FetchStep
    <2>2. l.state \in {"row", "done"} /\ (t.fetchOkay <=> l.state = "row")
      BY <1>2, <2>1 DEF ResultKnown
    <2> DEFINE d == t.db
               More(m) == heap.connection[d].uncommitted
                          \/ (EmptyFetched(s) /\ m # Failed /\ ~heap.connection[d].autocommit)
    <2>3. PICK m \in sqlite3_step(l) :
            /\ heap' = [heap EXCEPT !.lite[s] = m, !.stmt[s].fetchOkay = m.state = "row",
                                    !.stmt[s].finished = m.state # "row",
                                    !.connection[d].uncommitted = More(m)]
            /\ IF m = Failed THEN answer' = <<>>
               ELSE answer' = <<s, IF m.state = "row" THEN "row" ELSE "end">>
      BY <1>2, <1>5 DEF FetchStep, Answer, Heap
    <2> DEFINE u == [t EXCEPT !.fetchOkay = m.state = "row", !.finished = m.state # "row"]
               c == [heap.connection[d] EXCEPT !.uncommitted = More(m)]
    <2>4. /\ m \in LiteStmt /\ m.state \in {"row", "done", "failed"}
          /\ IF m.state = "row" THEN 1 <= m.row /\ m.row <= m.rows ELSE m.row = 0 /\ m.rows = 0
          /\ m.state = "failed" => m = Failed
          /\ l.state = "row" /\ m.state = "row" =>
               l.row < l.rows /\ m.row = l.row + 1 /\ m.rows = l.rows
          /\ l.state = "row" /\ m.state = "done" => l.row = l.rows
          /\ l.state = "done" /\ m # Failed => m.row \in {0, 1}
      BY <1>2, <2>2, <2>3, StepKnown DEF ResultKnown
    <2>5. heap' = [heap EXCEPT !.lite[s] = m, !.stmt[s] = u, !.connection[d] = c]
      <3> HIDE DEF More
      <3> QED BY <1>2, <2>3 DEF Heap
    <2>6. u.executed = t.executed /\ u.useStored = t.useStored /\ u.fetchOkay = (m.state = "row")
      BY <1>2 DEF StmtRecord
    <2> HIDE DEF u, c, More
    <2>7. /\ heap'.stmt[s] = u /\ heap'.lite[s] = m
          /\ \A w \in Stmt : w # s => SameResult(heap', heap, w)
      <3>1. d \in Database
        BY <1>2
      <3> HIDE DEF d
      <3> QED BY <1>2, <2>5, <3>1, OneChanged
    <2>8. m.state # "row" => NoResult(heap', s)
      BY <2>1, <2>6, <2>7 DEF NoResult, RowsOf, RowOf
    <2>9. CASE m = Failed
      <3>1. m.state = "failed"
        BY <2>9, ReadyKnown
      <3> QED BY <2>3, <2>7, <2>8, <2>9, <3>1, KeptOrDiscarded DEF SqlCursorNext
    <2>10. CASE l.state = "row" /\ m # Failed /\ m.state = "row"
      <3>1. l.row < l.rows /\ m.row = l.row + 1 /\ m.rows = l.rows
        BY <2>4, <2>10
      <3>2. RowsOf(t, l) = l.rows /\ RowOf(t, l) = l.row
        BY <2>1, <2>2, <2>10 DEF RowsOf, RowOf
      <3>3. RowsOf(u, m) = m.rows /\ RowOf(u, m) = m.row
        BY <2>1, <2>6, <2>10 DEF RowsOf, RowOf
      <3>4. answer' = <<s, "row">>
        BY <2>3, <2>10
      <3> QED BY <1>2, <2>7, <3>1, <3>2, <3>3, <3>4, NextResult DEF SqlCursorNext
    <2>11. CASE l.state = "row" /\ m # Failed /\ m.state = "done"
      <3>1. l.row = l.rows
        BY <2>4, <2>11
      <3>2. RowsOf(t, l) = l.rows /\ RowOf(t, l) = l.row
        BY <2>1, <2>2, <2>11 DEF RowsOf, RowOf
      <3>3. answer' = <<s, "end">>
        BY <2>3, <2>11
      <3> QED BY <1>2, <2>7, <2>8, <2>11, <3>1, <3>2, <3>3, EndResult DEF SqlCursorNext
    <2>12. CASE l.state = "done" /\ m # Failed
      <3>1. EmptyFetched(s)
        BY <2>1, <2>12 DEF EmptyFetched
      <3>2. m.rows \in 0 .. MaxRow /\ m.row \in {0, 1} /\ (m.state = "row" \/ m.state = "done")
        BY <2>4, <2>12, ReadyKnown DEF LiteStmt
      <3>3. CASE m.state = "row"
        <4>1. m.row = 1 /\ m.rows # 0
          BY <2>4, <3>2, <3>3
        <4>2. RowsOf(u, m) = m.rows /\ RowOf(u, m) = 1
          BY <2>1, <2>6, <3>3, <4>1 DEF RowsOf, RowOf
        <4>3. answer' = <<s, "row">>
          BY <2>3, <2>12, <3>3
        <4> QED BY <1>2, <2>7, <3>1, <3>2, <4>1, <4>2, <4>3, AnewResult
      <3>4. CASE m.state = "done"
        <4>1. answer' = <<s, "end">>
          BY <2>3, <2>12, <3>4
        <4>2. RowsOf(t, l) = 0 /\ RowOf(t, l) = 0
          BY <2>1, <2>2, <2>12 DEF RowsOf, RowOf
        <4> QED BY <1>2, <2>7, <2>8, <3>4, <4>1, <4>2, EndResult DEF SqlCursorNext
      <3> QED BY <3>2, <3>3, <3>4
    <2> QED BY <2>2, <2>4, <2>9, <2>10, <2>11, <2>12
  <1>6. CASE FetchFinished(s)
    <2>1. /\ t.executed /\ ~t.useStored /\ t.finished /\ heap' = heap
          /\ answer' = <<s, IF t.fetchOkay THEN "row" ELSE "end">>
      BY <1>6 DEF FetchFinished, Answer
    <2>2. ~t.fetchOkay
      BY <1>2, <2>1 DEF ResultKnown
    <2>3. NoResult(heap, s) /\ RowsOf(t, l) = 0 /\ RowOf(t, l) = 0
      BY <2>1, <2>2 DEF NoResult, RowsOf, RowOf
    <2>4. /\ NoResult(heap', s) /\ answer' = <<s, "end">>
          /\ \A w \in Stmt : w # s => SameResult(heap', heap, w)
      BY <2>1, <2>2, <2>3 DEF SameResult
    <2> QED BY <1>2, <2>3, <2>4, EndResult DEF SqlCursorNext
  <1> QED BY <1>1, <1>3, <1>4, <1>5, <1>6

(* Theorem: prepared statements implement Cursor, also when the library     *)
(* resets a statement that is at its end: after sqlExecute each sqlFetch    *)
(* announces the next row, once, and then the end (sql_lite.c: sqlExecute   *)
(* has done the first step already and sqlFetch uses its result first).     *)
(* The one step that is not a step of Cursor is a further fetch of a result *)
(* without rows: it executes the statement again.                           *)
THEOREM CursorImplemented == SqlSpec => CursorPromised
  <1>1. SqlInit => Promised!CursorInit
    <2> SUFFICES ASSUME SqlInit PROVE Promised!CursorInit
      OBVIOUS
    <2>1. \A s \in Stmt : ~HasResult(s)
      BY DEF SqlInit, NoStmt, HasResult
    <2> QED BY <2>1 DEF SqlInit, Promised!CursorInit, Promised!NoAnswer
  <1>2. SqlInv /\ [SqlNext]_sqlVars => [SqlCursorNext]_(Promised!cursorVars)
    <2> SUFFICES ASSUME SqlInv, [SqlNext]_sqlVars
                 PROVE  SqlCursorNext \/ UNCHANGED Promised!cursorVars
      OBVIOUS
    <2>1. ASSUME NEW v \in DatabaseVariable,
                 \/ sqlOpenLite(v) \/ sqlClose(v) \/ sqlCommit(v) \/ sqlRollback(v)
                 \/ \E on \in BOOLEAN : sqlSetAutoCommit(v, on)
                 \/ \E w \in DatabaseVariable : sqlCpyDb(v, w)
                 \/ DatabaseVariableEnds(v)
          PROVE  SqlCursorNext
      BY <2>1, DatabaseStepRefines DEF SqlCursorNext
    <2>2. ASSUME NEW p \in StmtVariable,
                 \/ \E v \in DatabaseVariable : sqlPrepare(p, v)
                 \/ \E i \in Param : sqlBindStri(p, i)
                 \/ sqlExecute(p) \/ sqlFetch(p)
                 \/ \E q \in StmtVariable : sqlCpyStmt(p, q)
                 \/ StmtVariableEnds(p)
          PROVE  SqlCursorNext
      BY <2>2, PrepareRefines, BindRefines, ExecuteRefines, FetchRefines, VariableStepRefines DEF SqlCursorNext
    <2>3. CASE UNCHANGED sqlVars
      BY <2>3 DEF sqlVars, Promised!cursorVars, HasResult
    <2> QED BY <2>1, <2>2, <2>3 DEF SqlNext
  <1> QED BY SqlInvInit, SqlInvNext, <1>1, <1>2, PTL DEF SqlSpec, CursorPromised

---------------------------------------------------------------------------
(* The other drivers.  The inductive invariant says what the flags of a      *)
(* statement t and the cursor c that the library has for it mean together,  *)
(* for a database with the driver v and l for limited.                       *)

DriverDatabase == [open : BOOLEAN, limited : BOOLEAN, autoCommit : BOOLEAN,
                   transaction : {"none", "open", "failed"}, uncommitted : BOOLEAN]
DriverStatement == [kind : {"none", "select", "change", "definition"}, bound : BOOLEAN,
                    executed : BOOLEAN, fetchOkay : BOOLEAN, finished : BOOLEAN,
                    data : 0 .. MaxRows, index : 0 .. MaxRows + 1, started : BOOLEAN,
                    prefetched : Seq(0 .. MaxRows)]
DriverCursor == [open : BOOLEAN, row : 0 .. MaxRows, rows : 0 .. MaxRows]

\* The list holds the rows after the current one, in their order, and the end.
RestOfRows(list, n) ==
    /\ Len(list) \in 1 .. n + 1
    /\ \A k \in 1 .. Len(list) :
          list[k] = IF k = Len(list) THEN 0 ELSE n + 1 - Len(list) + k

FlagsKnown(v, l, t, c) ==
    /\ c.row <= c.rows
    /\ Len(t.prefetched) <= MaxRows + 1
    /\ ~l => t.prefetched = <<>>
    /\ v = "post" /\ ~t.started => t.index = 0
    /\ v # "post" /\ t.kind = "select" /\ t.executed /\ ~t.finished =>
          IF l THEN /\ RestOfRows(t.prefetched, c.rows)
                    /\ t.fetchOkay => t.data = c.rows + 1 - Len(t.prefetched)
          ELSE t.fetchOkay => t.data = c.row

DriverInv ==
    /\ driver \in Drivers
    /\ database \in DriverDatabase
    /\ database.limited => driver = "cli"
    /\ statement \in [Statement -> DriverStatement]
    /\ cursor \in [Statement -> DriverCursor]
    /\ \A s \in Statement : FlagsKnown(driver, database.limited, statement[s], cursor[s])

LEMMA DriverInvTyped == DriverInv => DriverTypeOK
  BY DriversAssumption DEF DriverInv, DriverTypeOK, DriverDatabase, DriverStatement, DriverCursor, FlagsKnown

LEMMA NoStatementKnown ==
  ASSUME NEW v, NEW l, NEW kind \in {"none", "select", "change", "definition"}
  PROVE  /\ NoStatement \in DriverStatement /\ NoCursor \in DriverCursor
         /\ [NoStatement EXCEPT !.kind = kind] \in DriverStatement
         /\ \A c \in DriverCursor : c.row <= c.rows =>
               /\ FlagsKnown(v, l, NoStatement, c)
               /\ FlagsKnown(v, l, [NoStatement EXCEPT !.kind = kind], c)
  <1>1. <<>> \in Seq(0 .. MaxRows) /\ Len(<<>>) = 0
    OBVIOUS
  <1>2. 0 \in 0 .. MaxRows /\ 0 \in 0 .. MaxRows + 1 /\ 0 <= MaxRows + 1
    BY DriversAssumption
  <1> QED BY <1>1, <1>2 DEF NoStatement, NoCursor, DriverStatement, DriverCursor, FlagsKnown

LEMMA DriverInvInit == DriverInit => DriverInv
  <1> SUFFICES ASSUME DriverInit PROVE DriverInv
    OBVIOUS
  <1>1. database \in DriverDatabase /\ (database.limited => driver = "cli")
    BY DEF DriverInit, NewDatabase, DriverDatabase
  <1>2. NoCursor.row <= NoCursor.rows
    BY DEF NoCursor
  <1>3. /\ NoStatement \in DriverStatement /\ NoCursor \in DriverCursor
        /\ FlagsKnown(driver, database.limited, NoStatement, NoCursor)
    BY NoStatementKnown, <1>2
  <1> QED BY <1>1, <1>3 DEF DriverInit, DriverInv

\* A cursor may be closed at any time.
LEMMA ClosedKnown ==
  ASSUME NEW c \in DriverCursor
  PROVE  /\ ClosedCursor(c) \in DriverCursor
         /\ ClosedCursor(c).row = c.row /\ ClosedCursor(c).rows = c.rows
         /\ \A v, l, t : FlagsKnown(v, l, t, c) => FlagsKnown(v, l, t, ClosedCursor(c))
  <1>1. /\ ClosedCursor(c) \in DriverCursor
        /\ ClosedCursor(c).row = c.row /\ ClosedCursor(c).rows = c.rows
    BY DEF ClosedCursor, DriverCursor
  <1> QED BY <1>1 DEF FlagsKnown

\* The cursors of the other statements stay or are closed.
Spared(s, d) == \A r \in Statement \ {s} : d[r] = cursor[r] \/ d[r] = ClosedCursor(cursor[r])

LEMMA StatementChanged ==
  ASSUME DriverInv, NEW s \in Statement, NEW t \in DriverStatement,
         statement' = [statement EXCEPT ![s] = t],
         DOMAIN cursor' = Statement, cursor' = [r \in Statement |-> cursor'[r]],
         cursor'[s] \in DriverCursor, Spared(s, cursor'),
         FlagsKnown(driver, database.limited, t, cursor'[s]),
         driver' = driver, database' \in DriverDatabase, database'.limited = database.limited
  PROVE  DriverInv'
  <1>1. ASSUME NEW r \in Statement
        PROVE  /\ cursor'[r] \in DriverCursor
               /\ statement'[r] \in DriverStatement
               /\ FlagsKnown(driver, database.limited, statement'[r], cursor'[r])
    <2>1. CASE r = s
      BY <2>1 DEF DriverInv
    <2>2. CASE r # s
      <3>1. statement'[r] = statement[r]
        BY <2>2 DEF DriverInv
      <3>2. cursor'[r] = cursor[r] \/ cursor'[r] = ClosedCursor(cursor[r])
        BY <2>2 DEF Spared
      <3> QED BY <3>1, <3>2, ClosedKnown DEF DriverInv
    <2> QED BY <2>1, <2>2
  <1>2. statement' \in [Statement -> DriverStatement]
    BY DEF DriverInv
  <1>3. cursor' \in [Statement -> DriverCursor]
    BY <1>1
  <1> QED BY <1>1, <1>2, <1>3 DEF DriverInv

\* What the transactions and modes are.
LEMMA DatabaseChanged ==
  ASSUME NEW d, database \in DriverDatabase,
         \/ d \in {database, Begun, NotBegun, [NotBegun EXCEPT !.open = FALSE]}
         \/ \E x \in BOOLEAN : \/ d = Uncommitted(x)
                              \/ d = [Uncommitted(x) EXCEPT !.transaction = "failed"]
  PROVE  d \in DriverDatabase /\ d.limited = database.limited
  BY DEF DriverDatabase, Begun, NotBegun, Uncommitted

LEMMA EndOfTransaction ==
  ASSUME DriverInv, EndSucceeds \/ EndFails
  PROVE  /\ database' \in {database, Begun, NotBegun, Uncommitted(FALSE)}
         /\ cursor' = cursor \/ cursor' = AllClosed
  BY DEF EndSucceeds, EndFails, AfterRefusal, CursorsAfterEnd

LEMMA ChangesKeep ==
  ASSUME DriverInv, NEW kind,
         NEW d, d \in Changes(kind) \/ d \in AfterFailedChange
  PROVE  d \in DriverDatabase /\ d.limited = database.limited
  <1>1. database \in DriverDatabase
    BY DEF DriverInv
  <1>2. CASE d \in Changes(kind)
    <2>1. d \in {Begun, NotBegun} \/ \E x \in BOOLEAN : d = Uncommitted(x)
      <3>1. /\ (database.uncommitted /\ ~(driver = "oci" /\ database.autoCommit)) \in BOOLEAN
            /\ (database.transaction = "open") \in BOOLEAN
            /\ (~database.autoCommit) \in BOOLEAN
            /\ (~database.autoCommit /\ kind = "change") \in BOOLEAN
        OBVIOUS
      <3> QED BY <1>2, <3>1 DEF Changes, DriverInv, Drivers
    <2> QED BY <1>1, <2>1, DatabaseChanged
  <1>3. CASE d \in AfterFailedChange
    BY <1>1, <1>3, DatabaseChanged DEF AfterFailedChange
  <1> QED BY <1>2, <1>3

LEMMA ModeKeeps ==
  ASSUME DriverInv, NEW on \in BOOLEAN, NEW d \in ModesAfter(on)
  PROVE  d \in DriverDatabase /\ d.limited = database.limited
  <1>1. database \in DriverDatabase /\ driver \in Drivers
    BY DEF DriverInv
  <1>2. CASE d = database \/ d = NotBegun
    BY <1>1, <1>2, DatabaseChanged
  <1>3. CASE d = WithMode(on)
    BY <1>1, <1>3 DEF WithMode, DriverDatabase
  <1>4. CASE d = [WithMode(on) EXCEPT !.uncommitted = @ /\ ~on]
    BY <1>1, <1>4 DEF WithMode, DriverDatabase
  <1>5. CASE d = [WithMode(on) EXCEPT !.uncommitted = FALSE,
                      !.transaction = IF on THEN "none" ELSE "open"]
    BY <1>1, <1>5 DEF WithMode, DriverDatabase
  <1> QED BY <1>1, <1>2, <1>3, <1>4, <1>5 DEF ModesAfter, Drivers

\* A step that changes only the transaction or closes cursors.
LEMMA TransactionChanged ==
  ASSUME DriverInv, UNCHANGED <<driver, statement>>,
         cursor' = cursor \/ cursor' = AllClosed,
         database' \in DriverDatabase, database'.limited = database.limited
  PROVE  DriverInv'
  <1>1. ASSUME NEW r \in Statement
        PROVE  /\ cursor'[r] \in DriverCursor
               /\ FlagsKnown(driver, database.limited, statement[r], cursor'[r])
    <2>1. cursor'[r] = cursor[r] \/ cursor'[r] = ClosedCursor(cursor[r])
      BY DEF AllClosed
    <2> QED BY <2>1, ClosedKnown DEF DriverInv
  <1>2. cursor' \in [Statement -> DriverCursor]
    BY <1>1 DEF AllClosed, DriverInv
  <1> QED BY <1>1, <1>2 DEF DriverInv

LEMMA EndKeeps ==
  ASSUME DriverInv, NEW done, NEW unnoticed, EndDriverTransaction(done, unnoticed)
  PROVE  DriverInv'
  <1>1. EndSucceeds \/ EndFails
    BY DEF EndDriverTransaction
  <1>2. database \in DriverDatabase
    BY DEF DriverInv
  <1>3. database' \in DriverDatabase /\ database'.limited = database.limited
    BY <1>1, <1>2, EndOfTransaction, DatabaseChanged
  <1> QED BY <1>1, <1>3, EndOfTransaction, TransactionChanged DEF EndDriverTransaction

LEMMA SetModeKeeps ==
  ASSUME DriverInv, NEW on \in BOOLEAN, driverSetAutoCommit(on)
  PROVE  DriverInv'
  BY ModeKeeps, TransactionChanged DEF driverSetAutoCommit

LEMMA DriverCloseKeeps ==
  ASSUME DriverInv, driverClose
  PROVE  DriverInv'
  <1>1. database \in DriverDatabase
    BY DEF DriverInv
  <1>2. database' \in DriverDatabase /\ database'.limited = database.limited
    BY <1>1, DatabaseChanged DEF driverClose
  <1> QED BY <1>2, TransactionChanged DEF driverClose

---------------------------------------------------------------------------
(* Preparing, binding and executing.                                        *)

LEMMA DriverPrepareKeeps ==
  ASSUME DriverInv, NEW s \in Statement, NEW kind \in {"select", "change", "definition"},
         driverPrepare(s, kind)
  PROVE  DriverInv'
  <1> DEFINE t == [NoStatement EXCEPT !.kind = kind]
  <1>1. cursor[s] \in DriverCursor /\ cursor[s].row <= cursor[s].rows
    BY DEF DriverInv, FlagsKnown
  <1>2. t \in DriverStatement /\ FlagsKnown(driver, database.limited, t, cursor[s])
    BY <1>1, NoStatementKnown
  <1>3. statement' = [statement EXCEPT ![s] = t]
    BY DEF driverPrepare
  <1> HIDE DEF t
  <1> QED BY <1>1, <1>2, <1>3, StatementChanged DEF driverPrepare, DriverInv, Spared

LEMMA DriverFreeKeeps ==
  ASSUME DriverInv, NEW s \in Statement, driverFreeStmt(s)
  PROVE  DriverInv'
  <1>1. /\ NoStatement \in DriverStatement /\ NoCursor \in DriverCursor
        /\ FlagsKnown(driver, database.limited, NoStatement, NoCursor)
    BY NoStatementKnown DEF NoCursor
  <1>2. /\ cursor'[s] = NoCursor /\ Spared(s, cursor')
        /\ DOMAIN cursor' = Statement /\ cursor' = [r \in Statement |-> cursor'[r]]
    BY DEF driverFreeStmt, Spared, DriverInv
  <1> QED BY <1>1, <1>2, StatementChanged DEF driverFreeStmt, DriverInv

LEMMA BindKnown ==
  ASSUME DriverInv, NEW s \in Statement, NEW t \in AfterBind(s)
  PROVE  /\ t \in DriverStatement
         /\ FlagsKnown(driver, database.limited, t, cursor[s])
         /\ driver = "cli" /\ statement[s].executed => FlagsKnown(driver, database.limited, t, NoCursor)
  <1>1. /\ statement[s] \in DriverStatement /\ cursor[s] \in DriverCursor
        /\ FlagsKnown(driver, database.limited, statement[s], cursor[s])
        /\ driver \in Drivers
    BY DEF DriverInv
  <1>2. <<>> \in Seq(0 .. MaxRows) /\ Len(<<>>) = 0 /\ 0 <= MaxRows + 1
    BY DriversAssumption
  <1>3. t \in DriverStatement
    <2> DEFINE u == statement[s]
               dropped == IF u.executed THEN <<>> ELSE u.prefetched
    <2>1. \/ t = [u EXCEPT !.bound = TRUE, !.executed = FALSE, !.fetchOkay = FALSE]
          \/ t = [u EXCEPT !.bound = TRUE, !.fetchOkay = FALSE]
          \/ t = [u EXCEPT !.bound = TRUE, !.executed = FALSE, !.fetchOkay = FALSE, !.prefetched = dropped]
          \/ t = [u EXCEPT !.executed = FALSE, !.prefetched = dropped]
      BY <1>1 DEF AfterBind, Drivers
    <2>2. u \in DriverStatement /\ dropped \in Seq(0 .. MaxRows)
      BY <1>1, <1>2 DEF DriverStatement
    <2> HIDE DEF u, dropped
    <2> QED BY <2>1, <2>2 DEF DriverStatement
  <1>4. /\ t.kind = statement[s].kind /\ t.finished = statement[s].finished
        /\ t.index = statement[s].index /\ t.started = statement[s].started /\ t.data = statement[s].data
        /\ t.prefetched = statement[s].prefetched \/ t.prefetched = <<>>
        /\ driver = "fire" => t.prefetched = statement[s].prefetched
        /\ driver # "fire" => ~t.executed
        /\ driver = "fire" => t.executed = statement[s].executed /\ ~t.fetchOkay
    BY <1>1 DEF AfterBind, DriverStatement, Drivers
  <1>5. FlagsKnown(driver, database.limited, t, cursor[s])
    BY <1>1, <1>2, <1>4 DEF FlagsKnown
  <1>6. ASSUME driver = "cli"
        PROVE  FlagsKnown(driver, database.limited, t, NoCursor)
    BY <1>1, <1>2, <1>4, <1>6 DEF FlagsKnown, NoCursor
  <1> QED BY <1>3, <1>5, <1>6

LEMMA DriverBindKeeps ==
  ASSUME DriverInv, NEW s \in Statement, driverBind(s)
  PROVE  DriverInv'
  <1>1. PICK t \in AfterBind(s) : statement' = [statement EXCEPT ![s] = t]
    BY DEF driverBind
  <1>2. NoCursor \in DriverCursor /\ cursor[s] \in DriverCursor
    BY NoStatementKnown DEF DriverInv
  <1>3. /\ IF driver = "cli" /\ statement[s].executed THEN cursor'[s] = NoCursor ELSE cursor'[s] = cursor[s]
        /\ Spared(s, cursor')
        /\ DOMAIN cursor' = Statement /\ cursor' = [r \in Statement |-> cursor'[r]]
    BY DEF driverBind, Spared, DriverInv
  <1>4. cursor'[s] \in DriverCursor /\ t \in DriverStatement /\ FlagsKnown(driver, database.limited, t, cursor'[s])
    BY <1>2, <1>3, BindKnown
  <1>5. driver' = driver /\ database' \in DriverDatabase /\ database'.limited = database.limited
    BY DEF driverBind, DriverInv
  <1> QED BY <1>1, <1>3, <1>4, <1>5, StatementChanged

\* What an execution makes of a statement.  done is the statement before it.
LEMMA ExecutionKnown ==
  ASSUME NEW v, NEW l, NEW t \in DriverStatement, NEW c \in DriverCursor, c.row <= c.rows,
         Len(t.prefetched) <= MaxRows + 1, ~l => t.prefetched = <<>>,
         v = "post" /\ ~t.started => t.index = 0
  PROVE  /\ AfterFailure(t) \in DriverStatement /\ AfterExecution(t) \in DriverStatement
         /\ FlagsKnown(v, l, AfterFailure(t), c)
         /\ (t.kind = "select" /\ v # "post" /\ l => RestOfRows(t.prefetched, c.rows))
            => FlagsKnown(v, l, AfterExecution(t), c)
  <1>1. AfterFailure(t) \in DriverStatement /\ AfterExecution(t) \in DriverStatement
    BY DEF AfterFailure, AfterExecution, DriverStatement
  <1>2. FlagsKnown(v, l, AfterFailure(t), c)
    BY DEF AfterFailure, FlagsKnown, DriverStatement
  <1>3. ASSUME t.kind = "select" /\ v # "post" /\ l => RestOfRows(t.prefetched, c.rows)
        PROVE  FlagsKnown(v, l, AfterExecution(t), c)
    <2>1. /\ AfterExecution(t).fetchOkay = FALSE
          /\ AfterExecution(t).kind = t.kind
          /\ AfterExecution(t).prefetched = t.prefetched
          /\ AfterExecution(t).started = t.started
          /\ AfterExecution(t).index = t.index
      BY DEF AfterExecution, DriverStatement
    <2> QED BY <1>3, <2>1 DEF FlagsKnown
  <1> QED BY <1>1, <1>2, <1>3

LEMMA OpenedKnown ==
  ASSUME NEW c \in Opened
  PROVE  c \in DriverCursor /\ c.row = 0 /\ c.row <= c.rows /\ c.open
  <1>1. PICK n \in RowCounts : c = [open |-> TRUE, row |-> 0, rows |-> n]
    BY DEF Opened
  <1>2. n \in 0 .. MaxRows /\ 0 \in 0 .. MaxRows /\ 0 <= n
    BY DriversAssumption
  <1> QED BY <1>1, <1>2 DEF DriverCursor

\* The statement before an execution has the list that it had, or none.
Executable(s, done) ==
    /\ done \in DriverStatement
    /\ done.kind = statement[s].kind
    /\ done.prefetched = statement[s].prefetched \/ done.prefetched = <<>>
    /\ driver = "post" => done.index = 0

LEMMA ExecutedCursors ==
  ASSUME DriverInv, NEW s \in Statement, NEW done, Executes(s, done)
  PROVE  \/ \E c \in Opened : IsSelect(s) /\ cursor' = [cursor EXCEPT ![s] = c]
         \/ cursor' = [cursor EXCEPT ![s] = NoCursor]
         \/ ~IsSelect(s) /\ cursor' = [AllClosed EXCEPT ![s] = NoCursor]
  <1>1. \A kind : CursorsOfOthers(kind) \subseteq {cursor, AllClosed}
    BY DEF CursorsOfOthers, CursorsAfterEnd
  <1> QED BY <1>1 DEF Executes

LEMMA ExecutesKeeps ==
  ASSUME DriverInv, NEW s \in Statement, NEW done, Executable(s, done), Executes(s, done),
         ~(database.limited /\ IsSelect(s)), driver' = driver
  PROVE  DriverInv'
  <1> DEFINE d == cursor'[s]
  <1>1. statement[s] \in DriverStatement /\ FlagsKnown(driver, database.limited, statement[s], cursor[s])
    BY DEF DriverInv
  <1>2. /\ done \in DriverStatement
        /\ Len(done.prefetched) <= MaxRows + 1 /\ (~database.limited => done.prefetched = <<>>)
        /\ driver = "post" /\ ~done.started => done.index = 0
    BY <1>1, DriversAssumption DEF Executable, FlagsKnown
  <1>3. database' \in DriverDatabase /\ database'.limited = database.limited
    BY ChangesKeep DEF Executes, DriverInv
  <1>4. Spared(s, cursor') /\ DOMAIN cursor' = Statement /\ cursor' = [r \in Statement |-> cursor'[r]]
    BY ExecutedCursors DEF Spared, DriverInv, AllClosed
  <1>5. d \in Opened \/ d = NoCursor
    BY ExecutedCursors DEF DriverInv, AllClosed
  <1>6. d \in DriverCursor /\ d.row <= d.rows
    <2>1. NoCursor \in DriverCursor /\ NoCursor.row <= NoCursor.rows
      BY NoStatementKnown DEF NoCursor
    <2> QED BY <1>5, <2>1, OpenedKnown
  <1>7. /\ AfterFailure(done) \in DriverStatement /\ AfterExecution(done) \in DriverStatement
        /\ FlagsKnown(driver, database.limited, AfterFailure(done), d)
    BY <1>2, <1>6, ExecutionKnown
  <1>8. FlagsKnown(driver, database.limited, AfterExecution(done), d)
    BY <1>2, <1>6, ExecutionKnown DEF Executable, IsSelect
  <1>9. \/ statement' = [statement EXCEPT ![s] = AfterFailure(done)]
        \/ statement' = [statement EXCEPT ![s] = AfterExecution(done)]
    BY DEF Executes
  <1> HIDE DEF d
  <1>10. \E t \in DriverStatement : /\ statement' = [statement EXCEPT ![s] = t]
                                    /\ FlagsKnown(driver, database.limited, t, d)
    BY <1>7, <1>8, <1>9
  <1>11. PICK t \in DriverStatement : /\ statement' = [statement EXCEPT ![s] = t]
                                      /\ FlagsKnown(driver, database.limited, t, d)
    BY <1>10
  <1> QED BY <1>3, <1>4, <1>6, <1>11, StatementChanged DEF d

LEMMA ReadyForExecution ==
  ASSUME DriverInv, NEW s \in Statement
  PROVE  /\ driver # "post" => Executable(s, statement[s])
         /\ Executable(s, [statement[s] EXCEPT !.index = 0, !.started = FALSE])
         /\ driver # "post" => Executable(s, [statement[s] EXCEPT !.prefetched = <<>>])
  <1>1. statement[s] \in DriverStatement
    BY DEF DriverInv
  <1>2. <<>> \in Seq(0 .. MaxRows) /\ 0 \in 0 .. MaxRows + 1
    BY DriversAssumption
  <1> QED BY <1>1, <1>2 DEF Executable, DriverStatement

\* The list of a result that was fetched in advance.
LEMMA PrefetchedKnown ==
  ASSUME NEW n \in 0 .. MaxRows
  PROVE  /\ Prefetched(n) \in Seq(0 .. MaxRows) /\ Len(Prefetched(n)) = n + 1
         /\ RestOfRows(Prefetched(n), n)
         /\ \A k \in 0 .. n : /\ [j \in 1 .. k |-> j] \in Seq(0 .. MaxRows)
                              /\ Len([j \in 1 .. k |-> j]) = k
  <1>1. ASSUME NEW k \in 0 .. n
        PROVE  [j \in 1 .. k |-> j] \in Seq(0 .. MaxRows) /\ Len([j \in 1 .. k |-> j]) = k
    BY DriversAssumption
  <1>2. /\ [k \in 1 .. n |-> k] \in Seq(0 .. MaxRows) /\ Len([k \in 1 .. n |-> k]) = n
        /\ \A k \in 1 .. n : [j \in 1 .. n |-> j][k] = k
    BY <1>1, DriversAssumption
  <1> DEFINE q == [k \in 1 .. n |-> k]
  <1> HIDE DEF q
  <1>3. q \in Seq(0 .. MaxRows) /\ Len(q) = n /\ \A k \in 1 .. n : q[k] = k
    BY <1>2 DEF q
  <1>4. /\ Append(q, 0) \in Seq(0 .. MaxRows) /\ Len(Append(q, 0)) = n + 1
        /\ Append(q, 0)[n + 1] = 0 /\ \A k \in 1 .. n : Append(q, 0)[k] = k
    BY <1>3, DriversAssumption
  <1>5. RestOfRows(Append(q, 0), n)
    BY <1>4, DriversAssumption DEF RestOfRows
  <1> QED BY <1>1, <1>4, <1>5 DEF Prefetched, q

LEMMA CliExecuteKeeps ==
  ASSUME DriverInv, NEW s \in Statement, CliExecute(s), driver' = driver
  PROVE  DriverInv'
  <1> DEFINE done == IF statement[s].executed THEN [statement[s] EXCEPT !.prefetched = <<>>]
                     ELSE statement[s]
  <1>1. Executable(s, done) /\ driver = "cli"
    BY ReadyForExecution DEF CliExecute
  <1>2. /\ statement[s] \in DriverStatement /\ cursor[s] \in DriverCursor
        /\ FlagsKnown(driver, database.limited, statement[s], cursor[s])
        /\ database \in DriverDatabase
    BY DEF DriverInv
  <1>3. /\ done \in DriverStatement
        /\ Len(done.prefetched) <= MaxRows + 1 /\ (~database.limited => done.prefetched = <<>>)
    BY <1>1, <1>2, DriversAssumption DEF Executable, FlagsKnown
  <1>4. CASE /\ statement' = [statement EXCEPT ![s] = AfterFailure(done)]
             /\ UNCHANGED <<database, cursor>>
    <2> HIDE DEF done
    <2>3. cursor[s].row <= cursor[s].rows /\ driver # "post"
      BY <1>1, <1>2 DEF FlagsKnown
    <2>1. AfterFailure(done) \in DriverStatement /\ FlagsKnown(driver, database.limited, AfterFailure(done), cursor[s])
      BY <1>2, <1>3, <2>3, ExecutionKnown
    <2>2. /\ Spared(s, cursor') /\ DOMAIN cursor' = Statement /\ cursor' = [r \in Statement |-> cursor'[r]]
          /\ cursor'[s] = cursor[s]
      BY <1>4 DEF Spared, DriverInv
    <2> QED BY <1>2, <1>4, <2>1, <2>2, StatementChanged
  <1>5. CASE ~(database.limited /\ IsSelect(s)) /\ Executes(s, done)
    BY <1>1, <1>5, ExecutesKeeps
  <1>6. ASSUME database.limited, NEW c \in Opened, cursor' = [cursor EXCEPT ![s] = c], UNCHANGED database,
               \/ statement' = [statement EXCEPT
                      ![s] = [AfterExecution(done) EXCEPT !.prefetched = Prefetched(c.rows)]]
               \/ \E k \in 0 .. c.rows : statement' = [statement EXCEPT
                      ![s] = [AfterFailure(done) EXCEPT !.prefetched = [j \in 1 .. k |-> j]]]
        PROVE  DriverInv'
    <2> HIDE DEF done
    <2>1. c \in DriverCursor /\ c.row = 0 /\ c.rows \in 0 .. MaxRows
      BY OpenedKnown DEF DriverCursor
    <2>2. /\ Spared(s, cursor') /\ DOMAIN cursor' = Statement /\ cursor' = [r \in Statement |-> cursor'[r]]
          /\ cursor'[s] = c
      BY <1>6 DEF Spared, DriverInv
    <2>3. ASSUME NEW list \in Seq(0 .. MaxRows), Len(list) <= MaxRows + 1, NEW u \in DriverStatement,
                 \/ u = [AfterExecution(done) EXCEPT !.prefetched = list] /\ RestOfRows(list, c.rows)
                 \/ u = [AfterFailure(done) EXCEPT !.prefetched = list]
          PROVE  FlagsKnown(driver, database.limited, u, c)
      <3>1. /\ u.prefetched = list /\ ~u.fetchOkay
            /\ u.executed => RestOfRows(list, c.rows)
        BY <1>3, <2>3 DEF AfterExecution, AfterFailure, DriverStatement
      <3>2. c.row <= c.rows /\ driver # "post"
        BY <1>1, <2>1 DEF DriverCursor
      <3> QED BY <1>6, <2>3, <3>1, <3>2 DEF FlagsKnown
    <2>4. \A list \in Seq(0 .. MaxRows) :
             /\ [AfterExecution(done) EXCEPT !.prefetched = list] \in DriverStatement
             /\ [AfterFailure(done) EXCEPT !.prefetched = list] \in DriverStatement
      BY <1>3 DEF AfterExecution, AfterFailure, DriverStatement
    <2>5. PICK u \in DriverStatement : /\ statement' = [statement EXCEPT ![s] = u]
                                       /\ FlagsKnown(driver, database.limited, u, c)
      <3>1. CASE statement' = [statement EXCEPT
                      ![s] = [AfterExecution(done) EXCEPT !.prefetched = Prefetched(c.rows)]]
        <4>1. /\ Prefetched(c.rows) \in Seq(0 .. MaxRows) /\ Len(Prefetched(c.rows)) <= MaxRows + 1
              /\ RestOfRows(Prefetched(c.rows), c.rows)
          <5>1. /\ Prefetched(c.rows) \in Seq(0 .. MaxRows) /\ Len(Prefetched(c.rows)) = c.rows + 1
                /\ RestOfRows(Prefetched(c.rows), c.rows)
            BY <2>1, PrefetchedKnown
          <5> QED BY <5>1, <2>1, DriversAssumption
        <4> QED BY <3>1, <4>1, <2>3, <2>4
      <3>2. ASSUME NEW k \in 0 .. c.rows,
                   statement' = [statement EXCEPT
                      ![s] = [AfterFailure(done) EXCEPT !.prefetched = [j \in 1 .. k |-> j]]]
            PROVE  \E u \in DriverStatement : /\ statement' = [statement EXCEPT ![s] = u]
                                              /\ FlagsKnown(driver, database.limited, u, c)
        <4> DEFINE list == [j \in 1 .. k |-> j]
        <4>1. list \in Seq(0 .. MaxRows) /\ Len(list) <= MaxRows + 1
          <5>1. list \in Seq(0 .. MaxRows) /\ Len(list) = k
            BY <2>1, PrefetchedKnown
          <5> QED BY <5>1, <2>1, DriversAssumption
        <4>2. statement' = [statement EXCEPT ![s] = [AfterFailure(done) EXCEPT !.prefetched = list]]
          BY <3>2
        <4> HIDE DEF list
        <4> QED BY <4>1, <4>2, <2>3, <2>4
      <3> QED BY <1>6, <3>1, <3>2
    <2>6. database' \in DriverDatabase /\ database'.limited = database.limited
      BY <1>2, <1>6
    <2> QED BY <2>1, <2>2, <2>5, <2>6, StatementChanged
  <1> QED BY <1>4, <1>5, <1>6 DEF CliExecute

LEMMA DriverExecuteKeeps ==
  ASSUME DriverInv, NEW s \in Statement, driverExecute(s)
  PROVE  DriverInv'
  <1>1. database.limited => driver = "cli"
    BY DEF DriverInv
  <1>2. CASE MyOciExecute(s)
    BY <1>1, <1>2, ReadyForExecution, ExecutesKeeps DEF MyOciExecute, driverExecute
  <1>3. CASE PostExecute(s)
    BY <1>1, <1>3, ReadyForExecution, ExecutesKeeps DEF PostExecute, driverExecute
  <1>4. CASE FireExecute(s)
    <2>1. CASE UNCHANGED <<database, statement, cursor>>
      BY <2>1 DEF DriverInv, driverExecute
    <2>2. CASE Executes(s, statement[s])
      BY <1>1, <1>4, <2>2, ReadyForExecution, ExecutesKeeps DEF FireExecute, driverExecute
    <2> QED BY <1>4, <2>1, <2>2 DEF FireExecute
  <1>5. CASE CliExecute(s)
    BY <1>5, CliExecuteKeeps DEF driverExecute
  <1> QED BY <1>2, <1>3, <1>4, <1>5 DEF driverExecute

---------------------------------------------------------------------------
(* Fetching.                                                                *)

LEMMA FetchedKeeps ==
  ASSUME DriverInv, NEW s \in Statement, NEW t \in DriverStatement, NEW c \in DriverCursor,
         statement' = [statement EXCEPT ![s] = t], cursor' = [cursor EXCEPT ![s] = c],
         FlagsKnown(driver, database.limited, t, c), UNCHANGED <<driver, database>>
  PROVE  DriverInv'
  <1>1. /\ cursor'[s] = c /\ Spared(s, cursor')
        /\ DOMAIN cursor' = Statement /\ cursor' = [r \in Statement |-> cursor'[r]]
    BY DEF Spared, DriverInv
  <1> QED BY <1>1, StatementChanged DEF DriverInv

\* The list without its head.
LEMMA RestOfTail ==
  ASSUME NEW n \in 0 .. MaxRows, NEW list \in Seq(0 .. MaxRows), RestOfRows(list, n)
  PROVE  /\ Head(list) \in 0 .. n
         /\ Head(list) # 0 => /\ Len(list) > 1 /\ Head(list) = n + 2 - Len(list)
                              /\ RestOfRows(Tail(list), n)
         /\ Head(list) = 0 => Len(list) = 1
         /\ Tail(list) \in Seq(0 .. MaxRows) /\ Len(Tail(list)) = Len(list) - 1
         /\ list # <<>>
  <1>1. n \in Nat /\ Len(list) \in 1 .. n + 1
    BY DriversAssumption DEF RestOfRows
  <1>2. /\ list # <<>> /\ Tail(list) \in Seq(0 .. MaxRows) /\ Len(Tail(list)) = Len(list) - 1
        /\ \A k \in 1 .. Len(list) - 1 : Tail(list)[k] = list[k + 1]
        /\ Head(list) = list[1]
    BY <1>1
  <1>3. Head(list) = IF 1 = Len(list) THEN 0 ELSE n + 1 - Len(list) + 1
    <2>1. 1 \in 1 .. Len(list)
      BY <1>1
    <2> QED BY <1>2, <2>1 DEF RestOfRows
  <1>4. ASSUME Len(list) > 1
        PROVE  RestOfRows(Tail(list), n)
    <2>1. Len(Tail(list)) \in 1 .. n + 1
      BY <1>1, <1>2, <1>4
    <2>2. ASSUME NEW k \in 1 .. Len(Tail(list))
          PROVE  Tail(list)[k] = IF k = Len(Tail(list)) THEN 0 ELSE n + 1 - Len(Tail(list)) + k
      <3>1. k \in 1 .. Len(list) - 1 /\ k + 1 \in 1 .. Len(list)
        BY <1>1, <1>2, <2>2
      <3>2. Tail(list)[k] = list[k + 1]
        BY <1>2, <3>1
      <3>3. list[k + 1] = IF k + 1 = Len(list) THEN 0 ELSE n + 1 - Len(list) + (k + 1)
        BY <3>1 DEF RestOfRows
      <3> DEFINE m == Len(Tail(list))
      <3>4. m = Len(list) - 1 /\ m \in Nat /\ Len(list) = m + 1 /\ k \in Nat
        BY <1>1, <1>2, <3>1
      <3>5. Tail(list)[k] = IF k + 1 = m + 1 THEN 0 ELSE n + 1 - (m + 1) + (k + 1)
        BY <3>2, <3>3, <3>4
      <3> HIDE DEF m
      <3>6. Tail(list)[k] = IF k = m THEN 0 ELSE n + 1 - m + k
        BY <1>1, <3>4, <3>5
      <3> QED BY <3>6 DEF m
    <2> QED BY <2>1, <2>2 DEF RestOfRows
  <1> QED BY <1>1, <1>2, <1>3, <1>4

LEMMA FlagsKeep ==
  ASSUME DriverInv, NEW s \in Statement, FetchNoResult(s), UNCHANGED <<driver, database>>
  PROVE  DriverInv'
  <1> DEFINE t == [statement[s] EXCEPT !.fetchOkay = FALSE]
  <1>1. /\ statement[s] \in DriverStatement /\ cursor[s] \in DriverCursor
        /\ FlagsKnown(driver, database.limited, statement[s], cursor[s])
    BY DEF DriverInv
  <1>2. t \in DriverStatement /\ FlagsKnown(driver, database.limited, t, cursor[s])
    BY <1>1 DEF DriverStatement, FlagsKnown
  <1>3. statement' = [statement EXCEPT ![s] = t] /\ cursor' = [cursor EXCEPT ![s] = cursor[s]]
    BY DEF FetchNoResult, DriverInv
  <1> HIDE DEF t
  <1> QED BY <1>1, <1>2, <1>3, FetchedKeeps

LEMMA NextKeeps ==
  ASSUME DriverInv, NEW s \in Statement, FetchNext(s), driver # "post",
         statement[s].executed, IsSelect(s), ~statement[s].finished, statement[s].prefetched = <<>>,
         UNCHANGED <<driver, database>>
  PROVE  DriverInv'
  <1>1. /\ statement[s] \in DriverStatement /\ cursor[s] \in DriverCursor
        /\ FlagsKnown(driver, database.limited, statement[s], cursor[s])
    BY DEF DriverInv
  <1>2. ~database.limited
    BY <1>1 DEF FlagsKnown, RestOfRows, IsSelect
  <1>3. AtEnd(s) \in DriverStatement /\ FlagsKnown(driver, database.limited, AtEnd(s), cursor[s])
    BY <1>1 DEF AtEnd, DriverStatement, FlagsKnown
  <1>4. CASE statement' = [statement EXCEPT ![s] = AtEnd(s)] /\ UNCHANGED cursor
    <2>1. cursor' = [cursor EXCEPT ![s] = cursor[s]]
      BY <1>4 DEF DriverInv
    <2> QED BY <1>1, <1>3, <1>4, <2>1, FetchedKeeps
  <1>5. CASE /\ cursor[s].row < cursor[s].rows
             /\ cursor' = [cursor EXCEPT ![s].row = @ + 1]
             /\ statement' = [statement EXCEPT ![s] = AtRow(s, cursor[s].row + 1)]
    <2> DEFINE row == cursor[s].row + 1
               c == [cursor[s] EXCEPT !.row = row]
    <2>1. row \in 0 .. MaxRows /\ row <= cursor[s].rows
      BY <1>1, <1>5, DriversAssumption DEF DriverCursor
    <2>2. cursor' = [cursor EXCEPT ![s] = c]
      BY <1>5 DEF DriverInv
    <2> HIDE DEF row
    <2>3. c \in DriverCursor /\ c.row = row /\ c.rows = cursor[s].rows
      BY <1>1, <2>1 DEF DriverCursor
    <2>4. AtRow(s, row) \in DriverStatement
      BY <1>1, <2>1 DEF AtRow, DriverStatement
    <2> HIDE DEF c
    <2>5. FlagsKnown(driver, database.limited, AtRow(s, row), c)
      BY <1>1, <1>2, <2>1, <2>3 DEF AtRow, DriverStatement, FlagsKnown
    <2>6. statement' = [statement EXCEPT ![s] = AtRow(s, row)]
      BY <1>5 DEF row
    <2> QED BY <2>2, <2>3, <2>4, <2>5, <2>6, FetchedKeeps
  <1> QED BY <1>4, <1>5 DEF FetchNext

\* What becomes of a statement whose next row is in its list.
TakenFromList(s) ==
    LET row == Head(statement[s].prefetched)
    IN  [(IF row = 0 THEN AtEnd(s) ELSE AtRow(s, row)) EXCEPT !.prefetched = Tail(@)]

LEMMA TakenKnown ==
  ASSUME DriverInv, NEW s \in Statement, driver # "post",
         statement[s].executed, IsSelect(s), ~statement[s].finished, statement[s].prefetched # <<>>
  PROVE  LET t == TakenFromList(s)
             n == cursor[s].rows
             list == statement[s].prefetched
         IN  /\ database.limited /\ n \in 0 .. MaxRows
             /\ list \in Seq(0 .. MaxRows) /\ RestOfRows(list, n)
             /\ t \in DriverStatement /\ t.prefetched = Tail(list)
             /\ t.kind = "select" /\ t.executed
             /\ Head(list) = 0 => t.finished /\ ~t.fetchOkay
             /\ Head(list) # 0 => ~t.finished /\ t.fetchOkay /\ t.data = Head(list)
             /\ FlagsKnown(driver, database.limited, t, cursor[s])
  <1> DEFINE u == statement[s]
             list == u.prefetched
             t == TakenFromList(s)
             n == cursor[s].rows
             c == cursor[s]
  <1>1. /\ u \in DriverStatement /\ c \in DriverCursor
        /\ FlagsKnown(driver, database.limited, u, c)
    BY DEF DriverInv
  <1>2. database.limited
    BY <1>1 DEF FlagsKnown
  <1>3. n \in 0 .. MaxRows /\ list \in Seq(0 .. MaxRows) /\ RestOfRows(list, n)
    BY <1>1, <1>2 DEF FlagsKnown, DriverStatement, DriverCursor, IsSelect
  <1>4. /\ Tail(list) \in Seq(0 .. MaxRows) /\ Len(Tail(list)) = Len(list) - 1
        /\ Head(list) \in 0 .. MaxRows /\ Len(list) \in 1 .. n + 1
        /\ Head(list) # 0 => /\ Len(list) > 1 /\ Head(list) = n + 2 - Len(list)
                             /\ RestOfRows(Tail(list), n)
    <2> HIDE DEF list, n
    <2>1. n \in Nat /\ Len(list) \in 1 .. n + 1
      BY <1>3, DriversAssumption DEF RestOfRows
    <2>2. Head(list) \in 0 .. n /\ Tail(list) \in Seq(0 .. MaxRows) /\ Len(Tail(list)) = Len(list) - 1
      BY <1>3, RestOfTail
    <2>3. Head(list) # 0 => /\ Len(list) > 1 /\ Head(list) = n + 2 - Len(list)
                            /\ RestOfRows(Tail(list), n)
      BY <1>3, RestOfTail
    <2> QED BY <1>3, <2>1, <2>2, <2>3, DriversAssumption
  <1>5. /\ Head(list) = 0 => t = [u EXCEPT !.fetchOkay = FALSE, !.finished = TRUE, !.prefetched = Tail(list)]
        /\ Head(list) # 0 => t = [u EXCEPT !.fetchOkay = TRUE, !.data = Head(list), !.prefetched = Tail(list)]
    BY <1>1 DEF TakenFromList, AtEnd, AtRow, DriverStatement
  <1> HIDE DEF list, t, n, c
  <1>6. /\ t \in DriverStatement /\ t.prefetched = Tail(list)
        /\ t.kind = "select" /\ t.executed
        /\ Head(list) = 0 => t.finished /\ ~t.fetchOkay
        /\ Head(list) # 0 => ~t.finished /\ t.fetchOkay /\ t.data = Head(list)
    BY <1>1, <1>4, <1>5 DEF DriverStatement, IsSelect
  <1>7. FlagsKnown(driver, database.limited, t, c)
    <2>1. c.row <= c.rows
      BY <1>1 DEF FlagsKnown
    <2>2. Len(t.prefetched) <= MaxRows + 1
      BY <1>3, <1>4, <1>6, DriversAssumption
    <2>3. Head(list) # 0 => RestOfRows(t.prefetched, n) /\ t.data = n + 1 - Len(t.prefetched)
      BY <1>3, <1>4, <1>6, DriversAssumption
    <2> QED BY <1>2, <1>6, <2>1, <2>2, <2>3 DEF FlagsKnown, n, c
  <1> QED BY <1>2, <1>3, <1>6, <1>7 DEF t, n, list, c

LEMMA PrefetchedKeeps ==
  ASSUME DriverInv, NEW s \in Statement, FetchPrefetched(s), driver # "post",
         statement[s].executed, IsSelect(s), ~statement[s].finished, statement[s].prefetched # <<>>,
         UNCHANGED <<driver, database>>
  PROVE  DriverInv'
  <1> DEFINE t == TakenFromList(s)
  <1>1. t \in DriverStatement /\ FlagsKnown(driver, database.limited, t, cursor[s])
    BY TakenKnown
  <1>2. statement' = [statement EXCEPT ![s] = t]
    BY DEF FetchPrefetched, TakenFromList
  <1> HIDE DEF t
  <1>3. cursor[s] \in DriverCursor /\ cursor' = [cursor EXCEPT ![s] = cursor[s]]
    BY DEF FetchPrefetched, DriverInv
  <1> QED BY <1>1, <1>2, <1>3, FetchedKeeps

LEMMA IndexKeeps ==
  ASSUME DriverInv, NEW s \in Statement, FetchIndex(s), UNCHANGED <<driver, database>>
  PROVE  DriverInv'
  <1> DEFINE u == statement[s]
             next == u.index + IF u.started THEN 1 ELSE 0
             okay == next < cursor[s].rows
             t == [u EXCEPT !.index = next, !.started = TRUE, !.fetchOkay = okay]
  <1>1. /\ u \in DriverStatement /\ cursor[s] \in DriverCursor
        /\ FlagsKnown(driver, database.limited, u, cursor[s])
    BY DEF DriverInv
  <1>2. next \in 0 .. MaxRows + 1 /\ driver = "post"
    BY <1>1, DriversAssumption DEF FetchIndex, DriverStatement
  <1>3. okay \in BOOLEAN
    OBVIOUS
  <1>4. statement' = [statement EXCEPT ![s] = t] /\ cursor' = [cursor EXCEPT ![s] = cursor[s]]
    BY DEF FetchIndex, DriverInv
  <1> HIDE DEF next, okay, u
  <1>5. t \in DriverStatement
    BY <1>1, <1>2, <1>3 DEF DriverStatement
  <1>6. t.prefetched = u.prefetched /\ t.started
    BY <1>1 DEF DriverStatement
  <1> HIDE DEF t
  <1>7. FlagsKnown(driver, database.limited, t, cursor[s])
    BY <1>1, <1>2, <1>6 DEF FlagsKnown
  <1> QED BY <1>1, <1>4, <1>5, <1>7, FetchedKeeps

LEMMA DriverFetchKeeps ==
  ASSUME DriverInv, NEW s \in Statement, driverFetch(s)
  PROVE  DriverInv'
  <1>1. UNCHANGED <<driver, database>>
    BY DEF driverFetch
  <1>2. CASE FetchNoResult(s)
    BY <1>1, <1>2, FlagsKeep
  <1>3. CASE FetchResult(s)
    <2>1. CASE UNCHANGED <<statement, cursor>>
      BY <1>1, <2>1 DEF DriverInv
    <2>2. CASE ~statement[s].finished /\ statement[s].prefetched = <<>> /\ FetchNext(s)
      BY <1>1, <1>3, <2>2, NextKeeps DEF FetchResult
    <2>3. CASE ~statement[s].finished /\ statement[s].prefetched # <<>> /\ FetchPrefetched(s)
      BY <1>1, <1>3, <2>3, PrefetchedKeeps DEF FetchResult
    <2> QED BY <1>3, <2>1, <2>2, <2>3 DEF FetchResult
  <1>4. CASE FetchIndex(s)
    BY <1>1, <1>4, IndexKeeps
  <1> QED BY <1>2, <1>3, <1>4 DEF driverFetch

LEMMA DriverInvNext == DriverInv /\ [DriverNext]_driverVars => DriverInv'
  <1> SUFFICES ASSUME DriverInv, [DriverNext]_driverVars PROVE DriverInv'
    OBVIOUS
  <1>1. CASE driverClose
    BY <1>1, DriverCloseKeeps
  <1>2. CASE driverCommit \/ driverRollback
    BY <1>2, EndKeeps DEF driverCommit, driverRollback
  <1>3. ASSUME NEW on \in BOOLEAN, driverSetAutoCommit(on)
        PROVE  DriverInv'
    BY <1>3, SetModeKeeps
  <1>4. ASSUME NEW s \in Statement, NEW kind \in {"select", "change", "definition"}, driverPrepare(s, kind)
        PROVE  DriverInv'
    BY <1>4, DriverPrepareKeeps
  <1>5. ASSUME NEW s \in Statement, driverBind(s) \/ driverExecute(s) \/ driverFetch(s) \/ driverFreeStmt(s)
        PROVE  DriverInv'
    BY <1>5, DriverBindKeeps, DriverExecuteKeeps, DriverFetchKeeps, DriverFreeKeeps
  <1>6. CASE UNCHANGED driverVars
    BY <1>6 DEF driverVars, DriverInv
  <1> QED BY <1>1, <1>2, <1>3, <1>4, <1>5, <1>6 DEF DriverNext

(* Theorem: the rows and indexes that the drivers of the other databases    *)
(* keep stay within a result, and a list of rows fetched in advance has at  *)
(* most one entry more than the result has rows.                            *)
THEOREM DriversTyped == DriverSpec => []DriverTypeOK
  BY DriverInvInit, DriverInvNext, DriverInvTyped, PTL DEF DriverSpec

---------------------------------------------------------------------------
(* Commits.  In auto-commit mode sql_post has no transaction in the server, *)
(* so nothing can stay uncommitted there.                                   *)

CommitInv ==
    /\ CommitsArePermanent
    /\ driver = "post" /\ database.autoCommit => database.transaction = "none"

\* A step after which nothing is uncommitted, and no commit was refused.
LEMMA AllCommitted ==
  ASSUME ~database'.uncommitted, outcome' # Unnoticed,
         driver' = "post" /\ database'.autoCommit => database'.transaction = "none"
  PROVE  CommitInv'
  BY DEF CommitInv, CommitsArePermanent

\* A step that is no commit and keeps the mode.
LEMMA ModeKept ==
  ASSUME CommitInv, driver' = driver, outcome' \notin {Committed, Unnoticed},
         database'.autoCommit = database.autoCommit,
         driver = "post" /\ database.autoCommit => database'.transaction = database.transaction,
         database.autoCommit /\ driver \notin {"oci", "fire"} /\ ~database.uncommitted => ~database'.uncommitted
  PROVE  CommitInv'
  BY DEF CommitInv, CommitsArePermanent

LEMMA NotCommitted ==
  /\ NoOutcome \notin {Committed, Unnoticed} /\ Committed # Unnoticed
  /\ \A s, a : <<s, a>> \notin {Committed, Unnoticed}
  <1>1. /\ Len(NoOutcome) = 0 /\ Len(Committed) = 1 /\ Len(Unnoticed) = 1
        /\ \A s, a : Len(<<s, a>>) = 2
        /\ Committed[1] = "committed" /\ Unnoticed[1] = "unnoticed"
    BY DEF NoOutcome, Committed, Unnoticed
  <1> QED BY <1>1

\* The fields after the steps of a transaction.
LEMMA TransactionFields ==
  ASSUME DriverInv
  PROVE  /\ ~Begun.uncommitted /\ Begun.autoCommit = database.autoCommit /\ Begun.transaction = "open"
         /\ ~NotBegun.uncommitted /\ NotBegun.autoCommit = database.autoCommit
         /\ NotBegun.transaction = "none"
         /\ \A x : /\ Uncommitted(x).uncommitted = x /\ Uncommitted(x).autoCommit = database.autoCommit
                   /\ Uncommitted(x).transaction = database.transaction
  BY DEF DriverInv, DriverDatabase, Begun, NotBegun, Uncommitted

\* A step of a transaction that drops or commits changes, if it does anything.
LEMMA ChangesDropped ==
  ASSUME DriverInv, CommitInv, driver' = driver, outcome' \notin {Committed, Unnoticed},
         \/ database' \in {database, NotBegun, Uncommitted(FALSE)}
         \/ database' = Begun /\ ~(driver = "post" /\ database.autoCommit)
  PROVE  CommitInv'
  <1>1. CASE database' = database
    BY <1>1, ModeKept
  <1>2. CASE database' = NotBegun
    BY <1>2, TransactionFields, AllCommitted
  <1>3. CASE database' = Uncommitted(FALSE)
    BY <1>3, TransactionFields, AllCommitted DEF CommitInv
  <1>4. CASE database' = Begun /\ ~(driver = "post" /\ database.autoCommit)
    BY <1>4, TransactionFields, AllCommitted
  <1> QED BY <1>1, <1>2, <1>3, <1>4

LEMMA EndCommits ==
  ASSUME DriverInv, CommitInv, driverCommit \/ driverRollback
  PROVE  CommitInv'
  <1>1. driver' = driver /\ driver \in Drivers
    BY DEF DriverInv, driverCommit, driverRollback, EndDriverTransaction
  <1>2. CASE EndSucceeds /\ outcome' \in {Committed, NoOutcome}
    <2>1. CASE driver = "post" /\ database.autoCommit
      <3>1. database' = database
        BY <1>2, <2>1 DEF EndSucceeds
      <3>2. ~database.uncommitted /\ database.transaction = "none"
        BY <2>1 DEF CommitInv, CommitsArePermanent
      <3> QED BY <1>2, <3>1, <3>2, AllCommitted, NotCommitted
    <2>2. CASE ~(driver = "post" /\ database.autoCommit)
      <3>1. database' \in {Begun, NotBegun}
        BY <1>1, <1>2, <2>2 DEF EndSucceeds, Drivers
      <3> QED BY <1>1, <1>2, <2>2, <3>1, TransactionFields, AllCommitted, NotCommitted
    <2> QED BY <2>1, <2>2
  <1>3. CASE EndFails /\ outcome' = NoOutcome
    <2>1. database' \in {database, Uncommitted(FALSE), NotBegun}
      BY <1>3 DEF EndFails, AfterRefusal
    <2> QED BY <1>1, <1>3, <2>1, ChangesDropped, NotCommitted
  <1>4. CASE EndFails /\ driver = "oci" /\ outcome' = Unnoticed
    BY <1>1, <1>4, NotCommitted DEF CommitInv, CommitsArePermanent
  <1> QED BY <1>2, <1>3, <1>4 DEF driverCommit, driverRollback, EndDriverTransaction

LEMMA ModeCommits ==
  ASSUME DriverInv, CommitInv, NEW on \in BOOLEAN, driverSetAutoCommit(on)
  PROVE  CommitInv'
  <1>1. /\ database \in DriverDatabase /\ driver' = driver /\ database' \in ModesAfter(on)
        /\ outcome' \notin {Committed, Unnoticed} /\ driver \in Drivers
    BY NotCommitted DEF DriverInv, driverSetAutoCommit
  <1>2. CASE database' \in {database, NotBegun}
    BY <1>1, <1>2, ChangesDropped
  <1>3. CASE driver \in {"oci", "fire"}
    BY <1>1, <1>3 DEF CommitInv, CommitsArePermanent
  <1>4. CASE /\ driver \in {"my", "cli"}
             /\ database' = [WithMode(on) EXCEPT !.uncommitted = @ /\ ~on]
    <2>1. (on => ~database'.uncommitted) /\ database'.autoCommit = on
      BY <1>1, <1>4 DEF WithMode, DriverDatabase
    <2> QED BY <1>1, <1>4, <2>1 DEF CommitInv, CommitsArePermanent
  <1>5. CASE /\ driver = "post"
             /\ database' = [WithMode(on) EXCEPT !.uncommitted = FALSE,
                                !.transaction = IF on THEN "none" ELSE "open"]
    <2>1. /\ ~database'.uncommitted /\ database'.autoCommit = on
          /\ on => database'.transaction = "none"
      BY <1>1, <1>5 DEF WithMode, DriverDatabase
    <2> QED BY <1>1, <2>1, AllCommitted
  <1> QED BY <1>1, <1>2, <1>3, <1>4, <1>5 DEF Drivers, ModesAfter

LEMMA ChangesCommit ==
  ASSUME DriverInv, CommitInv, NEW kind, database' \in Changes(kind), driver' = driver,
         outcome' \notin {Committed, Unnoticed}
  PROVE  CommitInv'
  <1>1. database \in DriverDatabase /\ driver \in Drivers
    BY DEF DriverInv
  <1>2. ASSUME NEW x \in BOOLEAN, database' = Uncommitted(x),
               driver \notin {"oci", "fire"} /\ database.autoCommit /\ ~database.uncommitted => ~x
        PROVE  CommitInv'
    <2>1. /\ database'.autoCommit = database.autoCommit
          /\ database'.transaction = database.transaction
          /\ database'.uncommitted = x
      BY <1>2, TransactionFields
    <2> QED BY <1>2, <2>1, ModeKept
  <1>3. CASE kind = "select"
    <2> DEFINE x == database.uncommitted /\ ~(driver = "oci" /\ database.autoCommit)
    <2>1. database' = Uncommitted(x)
      BY <1>3 DEF Changes
    <2>2. x \in BOOLEAN /\ (~database.uncommitted => ~x)
      OBVIOUS
    <2> HIDE DEF x
    <2> QED BY <1>2, <2>1, <2>2
  <1>4. CASE kind # "select" /\ driver = "post"
    <2>1. CASE database' \in {Begun, NotBegun} /\ ~database.autoCommit
      BY <2>1, ChangesDropped
    <2>2. CASE database' = Uncommitted(database.transaction = "open")
      <3> DEFINE x == (database.transaction = "open")
      <3>1. x \in BOOLEAN /\ (database.autoCommit => ~x) /\ database' = Uncommitted(x)
        BY <1>4, <2>2 DEF CommitInv
      <3> HIDE DEF x
      <3> QED BY <1>2, <3>1
    <2> QED BY <1>4, <2>1, <2>2 DEF Changes
  <1>5. CASE kind # "select" /\ driver = "fire"
    <2>1. CASE database' \in {Begun, NotBegun}
      BY <1>5, <2>1, ChangesDropped
    <2>2. CASE database' = Uncommitted(TRUE)
      BY <1>2, <1>5, <2>2
    <2> QED BY <1>5, <2>1, <2>2 DEF Changes
  <1>6. CASE kind # "select" /\ driver \in {"my", "oci", "cli"}
    <2>1. PICK x \in BOOLEAN : database' = Uncommitted(x) /\ (database.autoCommit => ~x)
      <3>1. (~database.autoCommit) \in BOOLEAN /\ (~database.autoCommit /\ kind = "change") \in BOOLEAN
        OBVIOUS
      <3> QED BY <1>6, <3>1 DEF Changes
    <2> QED BY <1>2, <2>1
  <1> QED BY <1>1, <1>3, <1>4, <1>5, <1>6 DEF Drivers

LEMMA FailureCommits ==
  ASSUME DriverInv, CommitInv, database' \in AfterFailedChange, driver' = driver,
         outcome' \notin {Committed, Unnoticed}
  PROVE  CommitInv'
  <1>1. CASE database' \in {database, Uncommitted(FALSE)}
    BY <1>1, ChangesDropped
  <1>2. CASE /\ driver = "post" /\ database.transaction # "none"
             /\ database' = [Uncommitted(FALSE) EXCEPT !.transaction = "failed"]
    <2>1. ~database'.uncommitted /\ database'.autoCommit = database.autoCommit
      BY <1>2 DEF DriverInv, DriverDatabase, Uncommitted
    <2> QED BY <1>2, <2>1, AllCommitted DEF CommitInv
  <1> QED BY <1>1, <1>2 DEF AfterFailedChange

LEMMA ExecuteCommits ==
  ASSUME DriverInv, CommitInv, NEW s \in Statement, driverExecute(s)
  PROVE  CommitInv'
  <1>1. driver' = driver /\ outcome' \notin {Committed, Unnoticed}
    BY NotCommitted DEF driverExecute
  <1>2. \/ database' = database
        \/ database' \in AfterFailedChange
        \/ database' \in Changes(statement[s].kind)
    BY DEF driverExecute, MyOciExecute, PostExecute, FireExecute, CliExecute, Executes
  <1>3. CASE database' = database
    BY <1>1, <1>3, ModeKept
  <1>4. CASE database' \in Changes(statement[s].kind)
    BY <1>1, <1>4, ChangesCommit
  <1>5. CASE database' \in AfterFailedChange
    BY <1>1, <1>5, FailureCommits
  <1> QED BY <1>2, <1>3, <1>4, <1>5

LEMMA CommitInvNext == DriverInv /\ CommitInv /\ [DriverNext]_driverVars => CommitInv'
  <1> SUFFICES ASSUME DriverInv, CommitInv, [DriverNext]_driverVars PROVE CommitInv'
    OBVIOUS
  <1>1. CASE driverClose
    <2>1. ~database'.uncommitted /\ database'.transaction = "none"
      BY <1>1 DEF driverClose, NotBegun, DriverInv, DriverDatabase
    <2> QED BY <1>1, <2>1, AllCommitted, NotCommitted DEF driverClose
  <1>2. CASE driverCommit \/ driverRollback
    BY <1>2, EndCommits
  <1>3. ASSUME NEW on \in BOOLEAN, driverSetAutoCommit(on)
        PROVE  CommitInv'
    BY <1>3, ModeCommits
  <1>4. ASSUME NEW s \in Statement,
               \/ \E kind \in {"select", "change", "definition"} : driverPrepare(s, kind)
               \/ driverBind(s) \/ driverFetch(s) \/ driverFreeStmt(s)
        PROVE  CommitInv'
    <2>1. UNCHANGED <<driver, database>>
      BY <1>4 DEF driverPrepare, driverBind, driverFetch, driverFreeStmt
    <2>2. outcome' = NoOutcome \/ \E a : outcome' = <<s, a>>
      BY <1>4 DEF driverPrepare, driverBind, driverFetch, driverFreeStmt, FetchNoResult, FetchResult,
                  FetchNext, FetchPrefetched, FetchIndex
    <2>3. outcome' \notin {Committed, Unnoticed}
      BY <2>2, NotCommitted
    <2> QED BY <2>1, <2>3, ModeKept
  <1>5. ASSUME NEW s \in Statement, driverExecute(s)
        PROVE  CommitInv'
    BY <1>5, ExecuteCommits
  <1>6. CASE UNCHANGED driverVars
    BY <1>6 DEF driverVars, CommitInv, CommitsArePermanent
  <1> QED BY <1>1, <1>2, <1>3, <1>4, <1>5, <1>6 DEF DriverNext

(* Theorem: nothing is uncommitted after a commit that raises no exception, *)
(* unless Oracle has refused it unnoticed, and in the auto-commit mode of   *)
(* MySQL, PostgreSQL and ODBC, whatever was executed, which ends of         *)
(* transactions failed and however often the mode was changed before.       *)
THEOREM CommitsPermanent == DriverSpec => []CommitsArePermanent
  <1>1. DriverInit => CommitInv
    BY NotCommitted DEF DriverInit, NewDatabase, CommitInv, CommitsArePermanent
  <1>2. CommitInv => CommitsArePermanent
    BY DEF CommitInv
  <1> QED BY DriverInvInit, DriverInvNext, CommitInvNext, <1>1, <1>2, PTL DEF DriverSpec

---------------------------------------------------------------------------
(* The other drivers implement Cursor.                                      *)

\* The result that a statement has for the program, and its current row.
DeliveredRows(s) == IF HasRows(s) THEN cursor[s].rows ELSE 0
DeliveredRow(s) == IF HasRows(s) THEN Position(s) ELSE 0
AllRows == [s \in Statement |-> DeliveredRows(s)]
AllRow == [s \in Statement |-> DeliveredRow(s)]
FetchAnswer == IF outcome \in {Committed, Unnoticed} THEN NoOutcome ELSE outcome

SameRows(s) == DeliveredRows(s)' = DeliveredRows(s) /\ DeliveredRow(s)' = DeliveredRow(s)

\* The steps of Cursor, in terms of the statements.
LEMMA DroppedRows ==
  ASSUME FetchAnswer' = NoOutcome, NEW S \in SUBSET Statement,
         \A s \in Statement : IF s \in S THEN DeliveredRows(s)' = 0 /\ DeliveredRow(s)' = 0 ELSE SameRows(s)
  PROVE  Delivered!CursorNext
  <1>1. /\ AllRows' = [s \in Statement |-> IF s \in S THEN 0 ELSE AllRows[s]]
        /\ AllRow' = [s \in Statement |-> IF s \in S THEN 0 ELSE AllRow[s]]
    BY DEF AllRows, AllRow, SameRows
  <1>2. Delivered!Discard(S)
    BY <1>1 DEF Delivered!Discard, Delivered!NoAnswer, AllRows, AllRow, DeliveredRows, DeliveredRow,
                FetchAnswer, NoOutcome
  <1> QED BY <1>2 DEF Delivered!CursorNext

LEMMA KeptOrDropped ==
  ASSUME FetchAnswer' = NoOutcome, \A s \in Statement : SameRows(s) \/ ~HasRows(s)'
  PROVE  Delivered!CursorNext
  <1> DEFINE S == {s \in Statement : ~HasRows(s)'}
  <1>1. \A s \in Statement : IF s \in S THEN DeliveredRows(s)' = 0 /\ DeliveredRow(s)' = 0 ELSE SameRows(s)
    BY DEF DeliveredRows, DeliveredRow
  <1>2. S \in SUBSET Statement
    OBVIOUS
  <1> HIDE DEF S
  <1> QED BY <1>1, <1>2, DroppedRows

LEMMA ExecutedResult ==
  ASSUME NEW s \in Statement, FetchAnswer' = NoOutcome,
         DeliveredRows(s)' \in 0 .. MaxRows, DeliveredRow(s)' = 0,
         \A r \in Statement : r # s => SameRows(r)
  PROVE  Delivered!CursorNext
  <1> DEFINE n == DeliveredRows(s)'
  <1>1. /\ AllRows' = [AllRows EXCEPT ![s] = n]
        /\ AllRow' = [AllRow EXCEPT ![s] = 0]
    BY DEF AllRows, AllRow, SameRows
  <1>2. n \in 0 .. MaxRows
    OBVIOUS
  <1> HIDE DEF n
  <1>3. Delivered!Execute(s)
    BY <1>1, <1>2 DEF Delivered!Execute, Delivered!NoAnswer, AllRows, AllRow, DeliveredRows, DeliveredRow,
                FetchAnswer, NoOutcome
  <1> QED BY <1>3 DEF Delivered!CursorNext

LEMMA NextDelivered ==
  ASSUME NEW s \in Statement, FetchAnswer' = <<s, "row">>, DeliveredRow(s) < DeliveredRows(s),
         DeliveredRow(s)' = DeliveredRow(s) + 1, DeliveredRows(s)' = DeliveredRows(s),
         \A r \in Statement : r # s => SameRows(r)
  PROVE  Delivered!CursorNext
  <1>1. /\ AllRows' = AllRows
        /\ AllRow' = [AllRow EXCEPT ![s] = @ + 1]
        /\ AllRow[s] < AllRows[s]
    BY DEF AllRows, AllRow, SameRows
  <1>2. Delivered!NextRow(s)
    BY <1>1 DEF Delivered!NextRow, AllRows, AllRow, DeliveredRows, DeliveredRow, FetchAnswer
  <1> QED BY <1>2 DEF Delivered!CursorNext

LEMMA EndDelivered ==
  ASSUME NEW s \in Statement, FetchAnswer' = <<s, "end">>, DeliveredRow(s) = DeliveredRows(s),
         ~HasRows(s)', \A r \in Statement : r # s => SameRows(r)
  PROVE  Delivered!CursorNext
  <1>1. /\ AllRows' = [AllRows EXCEPT ![s] = 0]
        /\ AllRow' = [AllRow EXCEPT ![s] = 0]
        /\ AllRow[s] = AllRows[s]
    BY DEF AllRows, AllRow, SameRows, DeliveredRows, DeliveredRow
  <1>2. Delivered!EndOfRows(s)
    BY <1>1 DEF Delivered!EndOfRows, AllRows, AllRow, DeliveredRows, DeliveredRow, FetchAnswer
  <1> QED BY <1>2 DEF Delivered!CursorNext

\* Statements that a step leaves alone.
LEMMA LeftAlone ==
  ASSUME NEW s, statement'[s] = statement[s], cursor'[s] = cursor[s], driver' = driver,
         database'.limited = database.limited
  PROVE  SameRows(s) /\ (HasRows(s)' <=> HasRows(s))
  BY DEF SameRows, DeliveredRows, DeliveredRow, HasRows, Position, InMemory, IsSelect

LEMMA ClosedOrLeft ==
  ASSUME DriverInv, NEW s \in Statement, statement'[s] = statement[s],
         cursor'[s] = cursor[s] \/ cursor'[s] = ClosedCursor(cursor[s]), driver' = driver,
         database'.limited = database.limited
  PROVE  SameRows(s) \/ ~HasRows(s)'
  <1>1. CASE cursor'[s] = cursor[s]
    BY <1>1, LeftAlone
  <1>2. CASE cursor'[s] = ClosedCursor(cursor[s])
    <2>1. /\ cursor'[s].rows = cursor[s].rows /\ cursor'[s].row = cursor[s].row
          /\ ~cursor'[s].open
      BY <1>2, ClosedKnown DEF DriverInv, ClosedCursor, DriverCursor
    <2>2. ASSUME HasRows(s)'
          PROVE  HasRows(s) /\ Position(s)' = Position(s)
      BY <2>1, <2>2 DEF HasRows, Position, InMemory, IsSelect
    <2> QED BY <2>1, <2>2 DEF SameRows, DeliveredRows, DeliveredRow
  <1> QED BY <1>1, <1>2

\* A statement that is not executed or has no result has no rows.
LEMMA NoRows ==
  ASSUME NEW s, ~statement'[s].executed \/ statement'[s].kind # "select"
  PROVE  ~HasRows(s)'
  BY DEF HasRows, IsSelect

LEMMA NoAnswers ==
  /\ outcome' \in {NoOutcome, Committed, Unnoticed} => FetchAnswer' = NoOutcome
  /\ \A s, a : outcome' = <<s, a>> => FetchAnswer' = <<s, a>>
  BY NotCommitted DEF FetchAnswer

LEMMA DatabaseStepDelivers ==
  ASSUME DriverInv, DriverInv',
         driverClose \/ driverCommit \/ driverRollback \/ \E on \in BOOLEAN : driverSetAutoCommit(on)
  PROVE  Delivered!CursorNext
  <1>1. UNCHANGED <<driver, statement>> /\ outcome' \in {NoOutcome, Committed, Unnoticed}
    BY DEF driverClose, driverCommit, driverRollback, driverSetAutoCommit, EndDriverTransaction
  <1>2. cursor' = cursor \/ cursor' = AllClosed
    BY EndOfTransaction DEF driverClose, driverCommit, driverRollback, driverSetAutoCommit, EndDriverTransaction
  <1>3. database'.limited = database.limited
    <2>1. database \in DriverDatabase
      BY DEF DriverInv
    <2>2. CASE driverClose
      BY <2>1, <2>2, DatabaseChanged DEF driverClose
    <2>3. CASE driverCommit \/ driverRollback
      <3>1. EndSucceeds \/ EndFails
        BY <2>3 DEF driverCommit, driverRollback, EndDriverTransaction
      <3>2. FALSE \in BOOLEAN /\ database' \in {database, Begun, NotBegun, Uncommitted(FALSE)}
        BY <3>1, EndOfTransaction
      <3> DEFINE d == database'
      <3>3. d \in {database, Begun, NotBegun} \/ \E x \in BOOLEAN : d = Uncommitted(x)
        BY <3>2
      <3> HIDE DEF d
      <3>4. d.limited = database.limited
        BY <2>1, <3>3, DatabaseChanged
      <3> QED BY <3>4 DEF d
    <2>4. CASE \E on \in BOOLEAN : driverSetAutoCommit(on)
      BY <2>4, ModeKeeps DEF driverSetAutoCommit
    <2> QED BY <2>2, <2>3, <2>4
  <1>4. ASSUME NEW s \in Statement
        PROVE  SameRows(s) \/ ~HasRows(s)'
    <2>1. cursor'[s] = cursor[s] \/ cursor'[s] = ClosedCursor(cursor[s])
      BY <1>2 DEF AllClosed
    <2> QED BY <1>1, <1>3, <2>1, ClosedOrLeft
  <1> QED BY <1>1, <1>4, NoAnswers, KeptOrDropped

LEMMA PrepareDelivers ==
  ASSUME DriverInv, NEW s \in Statement,
         (\E kind \in {"select", "change", "definition"} : driverPrepare(s, kind)) \/ driverFreeStmt(s)
  PROVE  Delivered!CursorNext
  <1>1. /\ UNCHANGED <<driver, database>> /\ outcome' = NoOutcome
        /\ \A r \in Statement : r # s => statement'[r] = statement[r] /\ cursor'[r] = cursor[r]
    BY DEF driverPrepare, driverFreeStmt, DriverInv
  <1>2. ~statement'[s].executed
    BY DEF driverPrepare, driverFreeStmt, DriverInv, NoStatement
  <1>3. ASSUME NEW r \in Statement
        PROVE  SameRows(r) \/ ~HasRows(r)'
    BY <1>1, <1>2, NoRows, LeftAlone
  <1> QED BY <1>1, <1>3, NoAnswers, KeptOrDropped

\* A bind of sql_fire keeps the result, and the current row stays the current one.
LEMMA BindDelivers ==
  ASSUME DriverInv, NEW s \in Statement, driverBind(s)
  PROVE  Delivered!CursorNext
  <1>1. PICK t \in AfterBind(s) : statement' = [statement EXCEPT ![s] = t]
    BY DEF driverBind
  <1>2. /\ statement[s] \in DriverStatement /\ driver \in Drivers
        /\ database.limited => driver = "cli"
        /\ FlagsKnown(driver, database.limited, statement[s], cursor[s])
    BY DEF DriverInv
  <1>3. /\ UNCHANGED <<driver, database>> /\ outcome' = NoOutcome
        /\ statement'[s] = t
        /\ \A r \in Statement : r # s => statement'[r] = statement[r] /\ cursor'[r] = cursor[r]
    BY <1>1 DEF driverBind, DriverInv
  <1>4. SameRows(s) \/ ~HasRows(s)'
    <2>1. CASE driver = "fire"
      <3>1. t = [statement[s] EXCEPT !.bound = TRUE, !.fetchOkay = FALSE]
        BY <2>1 DEF AfterBind
      <3>2. /\ t.executed = statement[s].executed /\ t.kind = statement[s].kind
            /\ t.finished = statement[s].finished /\ ~t.fetchOkay
        BY <1>2, <3>1 DEF DriverStatement
      <3>3. cursor' = cursor
        BY <2>1 DEF driverBind
      <3>4. HasRows(s)' = HasRows(s)
        BY <1>3, <2>1, <3>2, <3>3 DEF HasRows, IsSelect, InMemory
      <3>5. HasRows(s) => Position(s) = cursor[s].row
        BY <1>2, <2>1 DEF HasRows, IsSelect, Position, FlagsKnown
      <3>6. Position(s)' = cursor[s].row
        BY <1>2, <1>3, <2>1, <3>2, <3>3 DEF Position
      <3> QED BY <3>3, <3>4, <3>5, <3>6 DEF SameRows, DeliveredRows, DeliveredRow
    <2>2. CASE driver # "fire"
      <3>1. ~t.executed
        BY <1>2, <2>2 DEF AfterBind, Drivers, DriverStatement
      <3> QED BY <1>3, <3>1, NoRows
    <2> QED BY <2>1, <2>2
  <1>5. ASSUME NEW r \in Statement
        PROVE  SameRows(r) \/ ~HasRows(r)'
    BY <1>3, <1>4, LeftAlone
  <1> QED BY <1>3, <1>5, NoAnswers, KeptOrDropped

LEMMA ExecutesDelivers ==
  ASSUME DriverInv, NEW s \in Statement, NEW done, Executable(s, done), Executes(s, done),
         ~(database.limited /\ IsSelect(s)), driver' = driver, outcome' = NoOutcome,
         driver = "post" => ~done.started
  PROVE  Delivered!CursorNext
  <1>1. /\ statement[s] \in DriverStatement /\ done \in DriverStatement
        /\ done.kind = statement[s].kind
    BY DEF DriverInv, Executable
  <1>2. ASSUME NEW r \in Statement, r # s
        PROVE  /\ statement'[r] = statement[r]
               /\ cursor'[r] = cursor[r] \/ cursor'[r] = ClosedCursor(cursor[r])
               /\ IsSelect(s) => cursor'[r] = cursor[r]
    BY <1>2, ExecutedCursors DEF Executes, DriverInv, AllClosed
  <1>3. database'.limited = database.limited
    BY ChangesKeep DEF Executes, DriverInv
  <1>4. \A r \in Statement : r # s => SameRows(r) \/ ~HasRows(r)'
    BY <1>2, <1>3, ClosedOrLeft
  <1>5. CASE statement' = [statement EXCEPT ![s] = AfterFailure(done)]
    <2>1. ~statement'[s].executed
      BY <1>1, <1>5 DEF DriverInv, AfterFailure, DriverStatement
    <2> QED BY <1>4, <2>1, NoRows, NoAnswers, KeptOrDropped
  <1>6. CASE statement' = [statement EXCEPT ![s] = AfterExecution(done)] /\ ~IsSelect(s)
    <2>1. statement'[s].kind # "select"
      BY <1>1, <1>6 DEF DriverInv, AfterExecution, DriverStatement, IsSelect
    <2> QED BY <1>4, <2>1, NoRows, NoAnswers, KeptOrDropped
  <1>7. ASSUME statement' = [statement EXCEPT ![s] = AfterExecution(done)], IsSelect(s),
               NEW c \in Opened, cursor' = [cursor EXCEPT ![s] = c]
        PROVE  Delivered!CursorNext
    <2>1. /\ cursor'[s] = c /\ c.row = 0 /\ c.rows \in 0 .. MaxRows
      BY <1>7, OpenedKnown DEF DriverInv, DriverCursor
    <2>2. statement'[s] = AfterExecution(done)
      BY <1>7 DEF DriverInv
    <2>3. /\ ~statement'[s].fetchOkay /\ statement'[s].started = done.started
          /\ statement'[s].executed
      BY <1>1, <2>2 DEF AfterExecution, DriverStatement
    <2>4. DeliveredRows(s)' \in 0 .. MaxRows
      BY <2>1, DriversAssumption DEF DeliveredRows
    <2>5. ~database.limited
      BY <1>7
    <2>6. Position(s)' = 0
      BY <1>1, <1>3, <2>1, <2>3, <2>5 DEF Position
    <2>7. \A r \in Statement : r # s => SameRows(r)
      BY <1>2, <1>3, <1>7, LeftAlone
    <2> QED BY <2>4, <2>6, <2>7, NoAnswers, ExecutedResult DEF DeliveredRow
  <1> QED BY <1>5, <1>6, <1>7 DEF Executes

\* sql_cli executes a query in advance, or the statement is not executed.
LEMMA CliExecuteDelivers ==
  ASSUME DriverInv, NEW s \in Statement, CliExecute(s), driver' = driver, outcome' = NoOutcome
  PROVE  Delivered!CursorNext
  <1> DEFINE done == IF statement[s].executed THEN [statement[s] EXCEPT !.prefetched = <<>>]
                     ELSE statement[s]
  <1>1. Executable(s, done) /\ driver = "cli"
    BY ReadyForExecution DEF CliExecute
  <1>2. CASE ~(database.limited /\ IsSelect(s)) /\ Executes(s, done)
    BY <1>1, <1>2, ExecutesDelivers
  <1>3. CASE /\ statement' = [statement EXCEPT ![s] = AfterFailure(done)]
             /\ UNCHANGED <<database, cursor>>
    <2> HIDE DEF done
    <2>1. ~statement'[s].executed /\ \A r \in Statement : r # s => statement'[r] = statement[r]
      BY <1>1, <1>3 DEF Executable, DriverInv, AfterFailure, DriverStatement
    <2> QED BY <1>3, <2>1, NoRows, LeftAlone, NoAnswers, KeptOrDropped
  <1>4. ASSUME database.limited, NEW c \in Opened, cursor' = [cursor EXCEPT ![s] = c], UNCHANGED database,
               statement' = [statement EXCEPT
                      ![s] = [AfterExecution(done) EXCEPT !.prefetched = Prefetched(c.rows)]]
        PROVE  Delivered!CursorNext
    <2> DEFINE u == [AfterExecution(done) EXCEPT !.prefetched = Prefetched(c.rows)]
    <2>1. /\ cursor'[s] = c /\ c.row = 0 /\ c.rows \in 0 .. MaxRows
          /\ \A r \in Statement : r # s => statement'[r] = statement[r] /\ cursor'[r] = cursor[r]
      BY <1>4, OpenedKnown DEF DriverInv, DriverCursor
    <2>2. statement'[s] = u
      BY <1>4 DEF DriverInv
    <2>3. done \in DriverStatement
      BY <1>1 DEF Executable
    <2> HIDE DEF done
    <2>4. ~u.fetchOkay /\ u.prefetched = Prefetched(c.rows)
      BY <2>3 DEF AfterExecution, DriverStatement
    <2> HIDE DEF u
    <2>5. DeliveredRows(s)' \in 0 .. MaxRows
      BY <2>1, DriversAssumption DEF DeliveredRows
    <2>6. Len(Prefetched(c.rows)) = c.rows + 1
      BY <2>1, PrefetchedKnown
    <2>7. Position(s)' = c.rows + 1 - Len(Prefetched(c.rows))
      BY <1>1, <1>4, <2>1, <2>2, <2>4 DEF Position
    <2>8. Position(s)' = 0
      BY <2>1, <2>6, <2>7, DriversAssumption
    <2>9. \A r \in Statement : r # s => SameRows(r)
      BY <1>4, <2>1, LeftAlone
    <2> QED BY <2>5, <2>8, <2>9, NoAnswers, ExecutedResult DEF DeliveredRow
  <1>5. ASSUME database.limited, NEW c \in Opened, cursor' = [cursor EXCEPT ![s] = c], UNCHANGED database,
               NEW list,
               statement' = [statement EXCEPT ![s] = [AfterFailure(done) EXCEPT !.prefetched = list]]
        PROVE  Delivered!CursorNext
    <2>1. done \in DriverStatement
      BY <1>1 DEF Executable
    <2> HIDE DEF done
    <2>2. statement'[s] = [AfterFailure(done) EXCEPT !.prefetched = list]
      BY <1>5 DEF DriverInv
    <2>3. ~statement'[s].executed
      BY <2>1, <2>2 DEF AfterFailure, DriverStatement
    <2>4. \A r \in Statement : r # s => statement'[r] = statement[r] /\ cursor'[r] = cursor[r]
      BY <1>5 DEF DriverInv
    <2> QED BY <1>5, <2>3, <2>4, NoRows, LeftAlone, NoAnswers, KeptOrDropped
  <1> QED BY <1>2, <1>3, <1>4, <1>5 DEF CliExecute

LEMMA ExecuteDelivers ==
  ASSUME DriverInv, NEW s \in Statement, driverExecute(s)
  PROVE  Delivered!CursorNext
  <1>1. driver' = driver /\ outcome' = NoOutcome /\ (database.limited => driver = "cli")
    BY DEF driverExecute, DriverInv
  <1>2. CASE MyOciExecute(s)
    BY <1>1, <1>2, ReadyForExecution, ExecutesDelivers DEF MyOciExecute
  <1>3. CASE PostExecute(s)
    <2> DEFINE done == [statement[s] EXCEPT !.index = 0, !.started = FALSE]
    <2>1. ~done.started
      BY DEF DriverInv, DriverStatement
    <2>2. Executable(s, done) /\ Executes(s, done) /\ driver = "post"
      BY <1>3, ReadyForExecution DEF PostExecute
    <2> HIDE DEF done
    <2> QED BY <1>1, <2>1, <2>2, ExecutesDelivers
  <1>4. CASE FireExecute(s)
    <2>1. CASE UNCHANGED <<database, statement, cursor>>
      BY <1>1, <2>1, LeftAlone, NoAnswers, KeptOrDropped
    <2>2. CASE Executes(s, statement[s])
      BY <1>1, <1>4, <2>2, ReadyForExecution, ExecutesDelivers DEF FireExecute
    <2> QED BY <1>4, <2>1, <2>2 DEF FireExecute
  <1>5. CASE CliExecute(s)
    BY <1>1, <1>5, CliExecuteDelivers
  <1> QED BY <1>2, <1>3, <1>4, <1>5 DEF driverExecute

\* A statement without a result answers "end", or the fetch fails.
LEMMA FlagsDeliver ==
  ASSUME DriverInv, NEW s \in Statement, FetchNoResult(s), UNCHANGED <<driver, database>>
  PROVE  Delivered!CursorNext
  <1>1. /\ cursor' = cursor
        /\ statement' = [statement EXCEPT ![s] = [statement[s] EXCEPT !.fetchOkay = FALSE]]
    BY DEF FetchNoResult
  <1>2. /\ statement'[s] = [statement[s] EXCEPT !.fetchOkay = FALSE]
        /\ \A r \in Statement : r # s => statement'[r] = statement[r]
    BY <1>1 DEF DriverInv
  <1>3. ~statement[s].executed \/ statement[s].kind # "select"
    BY DEF FetchNoResult, IsSelect
  <1>4. ~HasRows(s)
    BY <1>3 DEF HasRows, IsSelect
  <1>5. statement'[s].executed = statement[s].executed /\ statement'[s].kind = statement[s].kind
    BY <1>2 DEF DriverInv, DriverStatement
  <1>6. ~HasRows(s)'
    BY <1>3, <1>5, NoRows
  <1>7. \A r \in Statement : r # s => SameRows(r)
    BY <1>1, <1>2, LeftAlone
  <1>8. CASE outcome' = NoOutcome
    BY <1>6, <1>7, <1>8, NoAnswers, KeptOrDropped
  <1>9. CASE outcome' = <<s, "end">>
    <2>1. DeliveredRow(s) = DeliveredRows(s)
      BY <1>4 DEF DeliveredRow, DeliveredRows
    <2>2. FetchAnswer' = <<s, "end">>
      BY <1>9, NoAnswers
    <2> QED BY <1>6, <1>7, <2>1, <2>2, EndDelivered
  <1> QED BY <1>8, <1>9 DEF FetchNoResult

LEMMA NextDelivers ==
  ASSUME DriverInv, NEW s \in Statement, FetchNext(s), driver # "post",
         statement[s].executed, IsSelect(s), ~statement[s].finished, statement[s].prefetched = <<>>,
         UNCHANGED <<driver, database>>
  PROVE  Delivered!CursorNext
  <1>1. /\ statement[s] \in DriverStatement /\ cursor[s] \in DriverCursor
        /\ FlagsKnown(driver, database.limited, statement[s], cursor[s])
    BY DEF DriverInv
  <1>2. ~database.limited
    BY <1>1 DEF FlagsKnown, RestOfRows, IsSelect
  <1>3. /\ Position(s) = cursor[s].row
        /\ (cursor[s].open \/ driver = "my") => HasRows(s)
    BY <1>1, <1>2 DEF Position, FlagsKnown, HasRows, InMemory, IsSelect
  <1>4. ASSUME statement' = [statement EXCEPT ![s] = AtEnd(s)], UNCHANGED cursor
        PROVE  ~HasRows(s)' /\ \A r \in Statement : r # s => SameRows(r)
    <2>1. statement'[s].finished /\ \A r \in Statement : r # s => statement'[r] = statement[r]
      BY <1>1, <1>4 DEF AtEnd, DriverInv, DriverStatement
    <2>2. ~HasRows(s)'
      BY <2>1 DEF HasRows
    <2> QED BY <1>4, <2>1, <2>2, LeftAlone
  <1>5. CASE /\ cursor[s].open \/ driver = "my"
             /\ cursor[s].row < cursor[s].rows
             /\ cursor' = [cursor EXCEPT ![s].row = @ + 1]
             /\ statement' = [statement EXCEPT ![s] = AtRow(s, cursor[s].row + 1)]
             /\ outcome' = <<s, "row">>
    <2>1. /\ cursor'[s].rows = cursor[s].rows /\ cursor'[s].open = cursor[s].open
          /\ statement'[s] = AtRow(s, cursor[s].row + 1)
          /\ \A r \in Statement : r # s => statement'[r] = statement[r] /\ cursor'[r] = cursor[r]
      BY <1>1, <1>5 DEF DriverInv, DriverCursor
    <2>2. /\ statement'[s].executed /\ statement'[s].kind = "select" /\ ~statement'[s].finished
          /\ statement'[s].fetchOkay /\ statement'[s].data = cursor[s].row + 1
      BY <1>1, <2>1 DEF AtRow, DriverStatement, IsSelect
    <2>3. HasRows(s)' /\ Position(s)' = cursor[s].row + 1
      BY <1>5, <2>1, <2>2 DEF HasRows, InMemory, IsSelect, Position
    <2>4. \A r \in Statement : r # s => SameRows(r)
      BY <2>1, LeftAlone
    <2>5. /\ DeliveredRow(s) < DeliveredRows(s) /\ DeliveredRow(s)' = DeliveredRow(s) + 1
          /\ DeliveredRows(s)' = DeliveredRows(s)
      BY <1>3, <1>5, <2>1, <2>3 DEF DeliveredRow, DeliveredRows
    <2>6. FetchAnswer' = <<s, "row">>
      BY <1>5, NoAnswers
    <2> QED BY <2>4, <2>5, <2>6, NextDelivered
  <1>6. CASE /\ cursor[s].open \/ driver = "my"
             /\ cursor[s].row = cursor[s].rows
             /\ statement' = [statement EXCEPT ![s] = AtEnd(s)]
             /\ outcome' = <<s, "end">>
             /\ UNCHANGED cursor
    <2>1. DeliveredRow(s) = DeliveredRows(s)
      BY <1>3, <1>6 DEF DeliveredRow, DeliveredRows
    <2>2. FetchAnswer' = <<s, "end">>
      BY <1>6, NoAnswers
    <2> QED BY <1>4, <1>6, <2>1, <2>2, EndDelivered
  <1>7. CASE statement' = [statement EXCEPT ![s] = AtEnd(s)] /\ outcome' = NoOutcome /\ UNCHANGED cursor
    BY <1>4, <1>7, NoAnswers, KeptOrDropped
  <1> QED BY <1>5, <1>6, <1>7 DEF FetchNext

LEMMA PrefetchedDelivers ==
  ASSUME DriverInv, NEW s \in Statement, FetchPrefetched(s), driver # "post",
         statement[s].executed, IsSelect(s), ~statement[s].finished, statement[s].prefetched # <<>>,
         UNCHANGED <<driver, database>>
  PROVE  Delivered!CursorNext
  <1> DEFINE t == TakenFromList(s)
             n == cursor[s].rows
             list == statement[s].prefetched
             head == Head(list)
  <1>1. /\ database.limited /\ n \in 0 .. MaxRows
        /\ list \in Seq(0 .. MaxRows) /\ RestOfRows(list, n)
        /\ t \in DriverStatement /\ t.prefetched = Tail(list)
        /\ t.kind = "select" /\ t.executed
        /\ head = 0 => t.finished /\ ~t.fetchOkay
        /\ head # 0 => ~t.finished /\ t.fetchOkay /\ t.data = head
    BY TakenKnown
  <1>2. /\ cursor' = cursor /\ statement' = [statement EXCEPT ![s] = t]
        /\ outcome' = <<s, IF head = 0 THEN "end" ELSE "row">>
    BY DEF FetchPrefetched, TakenFromList
  <1>3. /\ HasRows(s) /\ Position(s) = n + 1 - Len(list)
    <2>1. FlagsKnown(driver, database.limited, statement[s], cursor[s])
      BY DEF DriverInv
    <2> QED BY <1>1, <2>1 DEF HasRows, InMemory, IsSelect, Position, FlagsKnown
  <1>4. /\ n \in Nat /\ Len(list) \in 1 .. n + 1
        /\ head = 0 => Len(list) = 1
        /\ head # 0 => Len(list) > 1 /\ head = n + 2 - Len(list)
    <2> HIDE DEF n, list
    <2>1. n \in Nat
      BY <1>1, DriversAssumption
    <2>2. Len(list) \in 1 .. n + 1
      BY <1>1 DEF RestOfRows
    <2>3. /\ head = 0 => Len(list) = 1
          /\ head # 0 => Len(list) > 1 /\ head = n + 2 - Len(list)
      BY <1>1, RestOfTail
    <2> QED BY <2>1, <2>2, <2>3
  <1>5. statement'[s] = t /\ \A r \in Statement : r # s => statement'[r] = statement[r] /\ cursor'[r] = cursor[r]
    BY <1>2 DEF DriverInv
  <1>6. \A r \in Statement : r # s => SameRows(r)
    BY <1>5, LeftAlone
  <1>7. DeliveredRows(s) = n /\ DeliveredRow(s) = n + 1 - Len(list)
    BY <1>3 DEF DeliveredRows, DeliveredRow
  <1> HIDE DEF t, list, head
  <1>8. CASE head = 0
    <2>1. ~HasRows(s)'
      BY <1>1, <1>5, <1>8 DEF HasRows
    <2>2. DeliveredRow(s) = DeliveredRows(s)
      <3> HIDE DEF n
      <3>1. Len(list) = 1 /\ n \in Nat
        BY <1>4, <1>8
      <3> QED BY <1>7, <3>1
    <2>3. FetchAnswer' = <<s, "end">>
      BY <1>2, <1>8, NoAnswers
    <2> QED BY <1>6, <2>1, <2>2, <2>3, EndDelivered
  <1>9. CASE head # 0
    <2>1. HasRows(s)' /\ Position(s)' = head
      BY <1>1, <1>5, <1>9 DEF HasRows, InMemory, IsSelect, Position
    <2>2. DeliveredRows(s)' = n /\ DeliveredRow(s)' = head
      BY <1>2, <2>1 DEF DeliveredRows, DeliveredRow
    <2> HIDE DEF n
    <2>3. /\ DeliveredRow(s) < DeliveredRows(s) /\ DeliveredRow(s)' = DeliveredRow(s) + 1
          /\ DeliveredRows(s)' = DeliveredRows(s)
      BY <1>4, <1>7, <1>9, <2>2
    <2>4. FetchAnswer' = <<s, "row">>
      BY <1>2, <1>9, NoAnswers
    <2> QED BY <1>6, <2>3, <2>4, NextDelivered
  <1> QED BY <1>8, <1>9

\* fetch_index of sql_post is one less than the number of the current row.
LEMMA IndexDelivers ==
  ASSUME DriverInv, NEW s \in Statement, FetchIndex(s), UNCHANGED <<driver, database>>
  PROVE  Delivered!CursorNext
  <1> DEFINE u == statement[s]
             next == u.index + IF u.started THEN 1 ELSE 0
             n == cursor[s].rows
  <1>1. /\ u \in DriverStatement /\ cursor[s] \in DriverCursor
        /\ FlagsKnown(driver, database.limited, u, cursor[s]) /\ driver = "post"
        /\ u.executed /\ u.kind = "select"
    BY DEF DriverInv, FetchIndex, IsSelect
  <1>2. /\ cursor' = cursor
        /\ outcome' = <<s, IF next < n THEN "row" ELSE "end">>
        /\ statement'[s] = [u EXCEPT !.index = next, !.started = TRUE, !.fetchOkay = next < n]
        /\ \A r \in Statement : r # s => statement'[r] = statement[r]
    BY DEF FetchIndex, DriverInv
  <1>3. n \in Nat /\ u.index \in Nat /\ (~u.started => u.index = 0)
    BY <1>1, DriversAssumption DEF DriverStatement, DriverCursor, FlagsKnown
  <1>4. /\ HasRows(s) <=> u.index < n \/ ~u.started
        /\ Position(s) = next
    BY <1>1, <1>3 DEF HasRows, InMemory, IsSelect, Position
  <1>5. next \in Nat
    BY <1>3
  <1> HIDE DEF next
  <1>6. /\ statement'[s].index = next /\ statement'[s].started
        /\ statement'[s].executed /\ statement'[s].kind = "select"
    BY <1>1, <1>2 DEF DriverStatement
  <1>7. /\ HasRows(s)' <=> next < n
        /\ Position(s)' = next + 1
    BY <1>1, <1>2, <1>6 DEF HasRows, InMemory, IsSelect, Position
  <1>8. \A r \in Statement : r # s => SameRows(r)
    BY <1>2, LeftAlone
  <1>9. CASE next < n
    <2>1. HasRows(s)
      BY <1>3, <1>4, <1>9 DEF next
    <2>2. /\ DeliveredRow(s) = next /\ DeliveredRows(s) = n
          /\ DeliveredRow(s)' = next + 1 /\ DeliveredRows(s)' = n
      BY <1>2, <1>4, <1>7, <1>9, <2>1 DEF DeliveredRow, DeliveredRows
    <2>3. FetchAnswer' = <<s, "row">>
      BY <1>2, <1>9, NoAnswers
    <2> QED BY <1>8, <1>9, <2>2, <2>3, NextDelivered
  <1>10. CASE ~(next < n)
    <2>1. ~HasRows(s)'
      BY <1>7, <1>10
    <2>2. HasRows(s) => next = n
      BY <1>3, <1>4, <1>10 DEF next
    <2>3. DeliveredRow(s) = DeliveredRows(s)
      BY <1>4, <2>2 DEF DeliveredRow, DeliveredRows
    <2>4. FetchAnswer' = <<s, "end">>
      BY <1>2, <1>10, NoAnswers
    <2> QED BY <1>8, <2>1, <2>3, <2>4, EndDelivered
  <1> QED BY <1>9, <1>10

LEMMA FetchDelivers ==
  ASSUME DriverInv, NEW s \in Statement, driverFetch(s)
  PROVE  Delivered!CursorNext
  <1>1. UNCHANGED <<driver, database>>
    BY DEF driverFetch
  <1>2. CASE FetchNoResult(s)
    BY <1>1, <1>2, FlagsDeliver
  <1>3. CASE FetchResult(s)
    <2>1. CASE statement[s].finished /\ outcome' = <<s, "end">> /\ UNCHANGED <<statement, cursor>>
      <3>1. ~HasRows(s) /\ ~HasRows(s)'
        BY <1>1, <1>3, <2>1 DEF HasRows, FetchResult
      <3>2. DeliveredRow(s) = DeliveredRows(s)
        BY <3>1 DEF DeliveredRow, DeliveredRows
      <3>3. \A r \in Statement : r # s => SameRows(r)
        BY <1>1, <2>1, LeftAlone
      <3>4. FetchAnswer' = <<s, "end">>
        BY <2>1, NoAnswers
      <3> QED BY <3>1, <3>2, <3>3, <3>4, EndDelivered
    <2>2. CASE ~statement[s].finished /\ statement[s].prefetched = <<>> /\ FetchNext(s)
      BY <1>1, <1>3, <2>2, NextDelivers DEF FetchResult
    <2>3. CASE ~statement[s].finished /\ statement[s].prefetched # <<>> /\ FetchPrefetched(s)
      BY <1>1, <1>3, <2>3, PrefetchedDelivers DEF FetchResult
    <2> QED BY <1>3, <2>1, <2>2, <2>3 DEF FetchResult
  <1>4. CASE FetchIndex(s)
    BY <1>1, <1>4, IndexDelivers
  <1> QED BY <1>2, <1>3, <1>4 DEF driverFetch

(* Theorem: the prepared statements of all five drivers implement Cursor.   *)
(* Whether the rows are counted by an index, taken from a list or fetched   *)
(* one after the other, every row of a result is the current one exactly    *)
(* once, in its turn, and then the answer is "end".                         *)
THEOREM DriversImplementCursor == DriverSpec => DriversPromised
  <1>1. DriverInit => Delivered!CursorInit
    <2> SUFFICES ASSUME DriverInit PROVE Delivered!CursorInit
      OBVIOUS
    <2>1. \A s \in Statement : ~HasRows(s)
      BY DEF DriverInit, NoStatement, HasRows
    <2>2. (IF outcome \in {Committed, Unnoticed} THEN NoOutcome ELSE outcome) = <<>>
      BY DEF DriverInit, NoOutcome
    <2> QED BY <2>1, <2>2 DEF Delivered!CursorInit, Delivered!NoAnswer
  <1>2. DriverInv /\ DriverInv' /\ [DriverNext]_driverVars => [Delivered!CursorNext]_(Delivered!cursorVars)
    <2> SUFFICES ASSUME DriverInv, DriverInv', [DriverNext]_driverVars
                 PROVE  Delivered!CursorNext \/ UNCHANGED Delivered!cursorVars
      OBVIOUS
    <2>1. CASE driverClose \/ driverCommit \/ driverRollback \/ \E on \in BOOLEAN : driverSetAutoCommit(on)
      BY <2>1, DatabaseStepDelivers
    <2>2. ASSUME NEW s \in Statement,
                 \/ \E kind \in {"select", "change", "definition"} : driverPrepare(s, kind)
                 \/ driverBind(s) \/ driverExecute(s) \/ driverFetch(s) \/ driverFreeStmt(s)
          PROVE  Delivered!CursorNext
      BY <2>2, PrepareDelivers, BindDelivers, ExecuteDelivers, FetchDelivers
    <2>3. CASE UNCHANGED driverVars
      <3>1. \A s \in Statement : SameRows(s)
        BY <2>3, LeftAlone DEF driverVars
      <3>2. FetchAnswer' = FetchAnswer /\ AllRows' = AllRows /\ AllRow' = AllRow
        BY <2>3, <3>1 DEF driverVars, FetchAnswer, AllRows, AllRow, SameRows
      <3> QED BY <3>2 DEF Delivered!cursorVars, FetchAnswer, AllRows, AllRow, DeliveredRows, DeliveredRow
    <2> QED BY <2>1, <2>2, <2>3 DEF DriverNext
  <1> QED BY DriverInvInit, DriverInvNext, <1>1, <1>2, PTL DEF DriverSpec, DriversPromised, Delivered!CursorSpec
=============================================================================
