-------------------------------- MODULE Sql --------------------------------
(* Databases and prepared statements: the functions of sql_rtl.c, which     *)
(* check their arguments and count the usages of databases and statements,  *)
(* and the driver for SQLite in sql_lite.c.  A database or a statement with *)
(* a usage count of zero has been freed.  The functions of the SQLite       *)
(* library are external.                                                    *)
EXTENDS Naturals, FiniteSets

CONSTANTS Database,          \* memory for database records
          Stmt,              \* memory for prepared statements
          DatabaseVariable,  \* variables of the program of type database
          StmtVariable,      \* variables of the program of type sqlStatement
          NULL,
          Param,             \* the parameters (?) of a statement
          MaxRow,            \* bound: the most rows of a result
          BindErrors,        \* binding fails also in a statement that was reset
          AutoReset          \* sqlite3_step resets a statement that was done

ASSUME SqlAssumption ==
    /\ NULL \notin Database \cup Stmt
    /\ IsFiniteSet(DatabaseVariable) /\ IsFiniteSet(StmtVariable) /\ IsFiniteSet(Stmt)
    /\ MaxRow \in Nat /\ BindErrors \in BOOLEAN /\ AutoReset \in BOOLEAN

VARIABLES heap,              \* databases, their connections, statements
          databaseVariable, stmtVariable,
          answer             \* statement and result of a call of sqlFetch just done

sqlVars == <<heap, databaseVariable, stmtVariable, answer>>

\* The field connection of a database is NULL exactly when it is not open.
NoDatabase == [usage |-> 0, isOpen |-> FALSE]
NoConnection == [open |-> FALSE, abandoned |-> FALSE, autocommit |-> TRUE, uncommitted |-> FALSE]
NoLiteStmt == [state |-> "none", row |-> 0, rows |-> 0]
NoStmt == [usage |-> 0, db |-> NULL, bound |-> {}, executed |-> FALSE,
           useStored |-> FALSE, stored |-> FALSE, fetchOkay |-> FALSE, finished |-> TRUE]

SqlTypeOK ==
    /\ heap.database \in [Database -> [usage : Nat, isOpen : BOOLEAN]]
    /\ heap.connection \in [Database -> [open : BOOLEAN, abandoned : BOOLEAN,
                                         autocommit : BOOLEAN, uncommitted : BOOLEAN]]
    /\ heap.stmt \in [Stmt -> [usage : Nat, db : Database \cup {NULL}, bound : SUBSET Param,
                               executed : BOOLEAN, useStored : BOOLEAN, stored : BOOLEAN,
                               fetchOkay : BOOLEAN, finished : BOOLEAN]]
    /\ heap.lite \in [Stmt -> [state : {"none", "ready", "row", "done", "failed"},
                               row : 0 .. MaxRow, rows : 0 .. MaxRow]]
    /\ databaseVariable \in [DatabaseVariable -> Database \cup {NULL}]
    /\ stmtVariable \in [StmtVariable -> Stmt \cup {NULL}]

SqlInit ==
    /\ heap = [database |-> [d \in Database |-> NoDatabase],
               connection |-> [d \in Database |-> NoConnection],
               stmt |-> [s \in Stmt |-> NoStmt],
               lite |-> [s \in Stmt |-> NoLiteStmt]]
    /\ databaseVariable = [v \in DatabaseVariable |-> NULL]
    /\ stmtVariable = [p \in StmtVariable |-> NULL]
    /\ answer = <<>>

---------------------------------------------------------------------------
(* The SQLite library, as the driver uses it.                               *)

\* sqlite3_close refuses to close a connection with statements that have
\* not been finalized.
Busy(h, d) == \E s \in Stmt : h.stmt[s].db = d /\ h.lite[s].state # "none"

Row(n, k) == [state |-> "row", row |-> k, rows |-> n]
Done == [state |-> "done", row |-> 0, rows |-> 0]
Failed == [state |-> "failed", row |-> 0, rows |-> 0]
Ready == [state |-> "ready", row |-> 0, rows |-> 0]

\* The states in which a statement can be after its execution was started.
Started == {Row(n, 1) : n \in 1 .. MaxRow} \cup {Done, Failed}

\* A statement at the end or with an error must be reset first, unless
\* SQLite does it (since version 3.6.23.1): then it is executed again.
sqlite3_step(l) ==
    CASE l.state = "ready" -> Started
      [] l.state = "row" -> {IF l.row < l.rows THEN Row(l.rows, l.row + 1) ELSE Done, Failed}
      [] OTHER -> IF AutoReset THEN Started ELSE {Failed}

---------------------------------------------------------------------------
(* Freeing of databases and statements.                                     *)

\* The driver forgets the connection, also when SQLite refused to close it.
CloseConnection(h, d) ==
    [h EXCEPT !.database[d].isOpen = FALSE,
              !.connection[d] = IF Busy(h, d) THEN @ ELSE NoConnection]

freeDatabase(h, d) ==
    LET closed == IF h.database[d].isOpen THEN CloseConnection(h, d) ELSE h
    IN  [closed EXCEPT !.database[d] = NoDatabase]

DecrementDatabase(h, d) ==
    IF h.database[d].usage = 1 THEN freeDatabase(h, d)
    ELSE [h EXCEPT !.database[d].usage = @ - 1]

\* Mutant: the statement is finalized last.
FreeBeforeFinalize(h, s) ==
    LET less == DecrementDatabase(h, h.stmt[s].db)
    IN  [less EXCEPT !.lite[s] = NoLiteStmt, !.stmt[s] = NoStmt]

freePreparedStmt(h, s) ==
    LET finalized == [h EXCEPT !.lite[s] = NoLiteStmt]
        less == DecrementDatabase(finalized, h.stmt[s].db)
    IN  [less EXCEPT !.stmt[s] = NoStmt]

sqlDestrDb(h, d) == IF d = NULL THEN h ELSE DecrementDatabase(h, d)

sqlDestrStmt(h, s) ==
    IF s = NULL THEN h
    ELSE IF h.stmt[s].usage = 1 THEN freePreparedStmt(h, s)
    ELSE [h EXCEPT !.stmt[s].usage = @ - 1]

sqlCreateDb(h, d) == IF d = NULL THEN h ELSE [h EXCEPT !.database[d].usage = @ + 1]

sqlCreateStmt(h, s) == IF s = NULL THEN h ELSE [h EXCEPT !.stmt[s].usage = @ + 1]

---------------------------------------------------------------------------
(* Operations of the program.                                               *)

\* Which free memory is used makes no difference; the memory of a database
\* also names its connection, which may live longer.
FreeDatabase == {d \in Database : heap.database[d].usage = 0 /\ ~heap.connection[d].open}
FreeStmt == {s \in Stmt : heap.stmt[s].usage = 0}
AnyOf(free) == CHOOSE x \in free : TRUE

\* The result of a function that opens a database is assigned to a variable.
sqlOpenLite(v) ==
    LET d == AnyOf(FreeDatabase)
    IN  /\ FreeDatabase # {}
        /\ heap' = sqlDestrDb([heap EXCEPT
                     !.database[d] = [usage |-> 1, isOpen |-> TRUE],
                     !.connection[d] = [NoConnection EXCEPT !.open = TRUE]],
                     databaseVariable[v])
        /\ databaseVariable' = [databaseVariable EXCEPT ![v] = d]
        /\ answer' = <<>>
        /\ UNCHANGED stmtVariable

sqlCpyDb(v, w) ==
    /\ heap' = sqlDestrDb(sqlCreateDb(heap, databaseVariable[w]), databaseVariable[v])
    /\ databaseVariable' = [databaseVariable EXCEPT ![v] = databaseVariable[w]]
    /\ answer' = <<>>
    /\ UNCHANGED stmtVariable

sqlCpyStmt(p, q) ==
    /\ heap' = sqlDestrStmt(sqlCreateStmt(heap, stmtVariable[q]), stmtVariable[p])
    /\ stmtVariable' = [stmtVariable EXCEPT ![p] = stmtVariable[q]]
    /\ answer' = <<>>
    /\ UNCHANGED databaseVariable

\* The lifetime of a variable ends; the next one in its place is empty.
DatabaseVariableEnds(v) ==
    /\ heap' = sqlDestrDb(heap, databaseVariable[v])
    /\ databaseVariable' = [databaseVariable EXCEPT ![v] = NULL]
    /\ answer' = <<>>
    /\ UNCHANGED stmtVariable

StmtVariableEnds(p) ==
    /\ heap' = sqlDestrStmt(heap, stmtVariable[p])
    /\ stmtVariable' = [stmtVariable EXCEPT ![p] = NULL]
    /\ answer' = <<>>
    /\ UNCHANGED databaseVariable

IsOpen(d) == d # NULL /\ heap.database[d].isOpen

sqlClose(v) ==
    /\ IsOpen(databaseVariable[v])
    /\ LET d == databaseVariable[v]
       IN  heap' = [CloseConnection(heap, d) EXCEPT !.connection[d].abandoned = Busy(heap, d)]
    /\ answer' = <<>>
    /\ UNCHANGED <<databaseVariable, stmtVariable>>

Prepared(s, d) ==
    [heap EXCEPT !.stmt[s] = [NoStmt EXCEPT !.usage = 1, !.db = d],
                 !.database[d].usage = @ + 1,
                 !.lite[s] = Ready]

\* When the table of the parameters cannot be allocated the statement is freed.
sqlPrepare(p, v) ==
    LET d == databaseVariable[v]
        s == AnyOf(FreeStmt)
    IN  /\ IsOpen(d) /\ FreeStmt # {}
        /\ \/ /\ heap' = sqlDestrStmt(Prepared(s, d), stmtVariable[p])
              /\ stmtVariable' = [stmtVariable EXCEPT ![p] = s]
           \/ /\ heap' = freePreparedStmt(Prepared(s, d), s)
              /\ UNCHANGED stmtVariable
        /\ answer' = <<>>
        /\ UNCHANGED databaseVariable

\* The outcomes of sqlite3_reset: it reports the error of the last step again.
ResetFails(s) == heap.stmt[s].executed /\ heap.lite[s].state = "failed"
Reset(s) == IF heap.stmt[s].executed THEN Ready ELSE heap.lite[s]

\* Mutant: the row that was fetched stays the current one.
BoundKeepsRow(stmt, i) == [stmt EXCEPT !.executed = FALSE, !.bound = @ \cup {i}]
Bound(stmt, i) == [stmt EXCEPT !.executed = FALSE, !.fetchOkay = FALSE, !.bound = @ \cup {i}]

sqlBindStri(p, i) ==
    LET s == stmtVariable[p]
    IN  /\ s # NULL /\ IsOpen(heap.stmt[s].db)
        /\ IF ResetFails(s)
           THEN heap' = [heap EXCEPT !.lite[s] = Ready]
           ELSE \/ /\ Reset(s) = Ready
                   /\ heap' = [heap EXCEPT !.lite[s] = Ready,
                                           !.stmt[s] = Bound(@, i)]
                \/ /\ BindErrors \/ Reset(s) # Ready
                   /\ heap' = [heap EXCEPT !.lite[s] = Reset(s),
                                           !.stmt[s].executed = FALSE]
        /\ answer' = <<>>
        /\ UNCHANGED <<databaseVariable, stmtVariable>>

\* Execution does the first step already; its result waits for sqlFetch.
sqlExecute(p) ==
    LET s == stmtVariable[p]
    IN  /\ s # NULL
        /\ heap.stmt[s].bound = Param
        /\ IF ResetFails(s)
           THEN heap' = [heap EXCEPT !.lite[s] = Ready]
           ELSE \E l \in sqlite3_step(Reset(s)) :
                  heap' = [heap EXCEPT
                    !.lite[s] = l,
                    !.stmt[s] = IF l = Failed
                                THEN [@ EXCEPT !.executed = FALSE, !.fetchOkay = FALSE]
                                ELSE [@ EXCEPT !.executed = TRUE, !.fetchOkay = FALSE,
                                               !.finished = FALSE, !.useStored = TRUE,
                                               !.stored = l.state = "row"],
                    !.connection[heap.stmt[s].db].uncommitted =
                        @ \/ (l # Failed /\ ~heap.connection[heap.stmt[s].db].autocommit)]
        /\ answer' = <<>>
        /\ UNCHANGED <<databaseVariable, stmtVariable>>

Answer(s, fetchOkay) == answer' = <<s, IF fetchOkay THEN "row" ELSE "end">>

FetchNotExecuted(s) ==
    /\ ~heap.stmt[s].executed
    /\ heap' = [heap EXCEPT !.stmt[s].fetchOkay = FALSE]
    /\ answer' = <<>>

\* Mutant: the stored result is not used up.
FetchKeepsStored(s) ==
    /\ heap.stmt[s].executed /\ heap.stmt[s].useStored
    /\ heap' = [heap EXCEPT !.stmt[s].fetchOkay = heap.stmt[s].stored]
    /\ Answer(s, heap.stmt[s].stored)

FetchStored(s) ==
    /\ heap.stmt[s].executed /\ heap.stmt[s].useStored
    /\ heap' = [heap EXCEPT !.stmt[s].useStored = FALSE,
                            !.stmt[s].fetchOkay = heap.stmt[s].stored]
    /\ Answer(s, heap.stmt[s].stored)

\* The result has no rows, and a fetch has answered so; sqlExecute has stored
\* this answer, and only an answer of sqlite3_step sets the mark finished.
EmptyFetched(s) ==
    /\ heap.stmt[s].executed /\ ~heap.stmt[s].useStored /\ ~heap.stmt[s].finished
    /\ heap.lite[s].state = "done"

\* After EmptyFetched the step may execute the statement again.
FetchStep(s) ==
    /\ heap.stmt[s].executed /\ ~heap.stmt[s].useStored /\ ~heap.stmt[s].finished
    /\ \E l \in sqlite3_step(heap.lite[s]) :
         /\ heap' = [heap EXCEPT
              !.lite[s] = l,
              !.stmt[s].fetchOkay = l.state = "row",
              !.stmt[s].finished = l.state # "row",
              !.connection[heap.stmt[s].db].uncommitted =
                  @ \/ (EmptyFetched(s) /\ l # Failed /\ ~heap.connection[heap.stmt[s].db].autocommit)]
         /\ IF l = Failed THEN answer' = <<>> ELSE Answer(s, l.state = "row")

FetchFinished(s) ==
    /\ heap.stmt[s].executed /\ ~heap.stmt[s].useStored /\ heap.stmt[s].finished
    /\ Answer(s, heap.stmt[s].fetchOkay)
    /\ UNCHANGED heap

sqlFetch(p) ==
    LET s == stmtVariable[p]
    IN  /\ s # NULL
        /\ FetchNotExecuted(s) \/ FetchStored(s) \/ FetchStep(s) \/ FetchFinished(s)
        /\ UNCHANGED <<databaseVariable, stmtVariable>>

\* BEGIN ends the autocommit mode, COMMIT and ROLLBACK end the transaction.
Begin(c) == [c EXCEPT !.autocommit = FALSE]
EndTransaction(c) == [c EXCEPT !.autocommit = TRUE, !.uncommitted = FALSE]

OnConnection(v, Op(_)) ==
    LET d == databaseVariable[v]
    IN  /\ IsOpen(d)
        /\ heap' = [heap EXCEPT !.connection[d] = Op(@)]
        /\ answer' = <<>>
        /\ UNCHANGED <<databaseVariable, stmtVariable>>

\* sqlite3_get_autocommit is true when no transaction was begun.
sqlCommit(v) ==
    OnConnection(v, LAMBDA c : IF c.autocommit THEN Begin(EndTransaction(c)) ELSE c)

sqlRollback(v) ==
    OnConnection(v, LAMBDA c : IF c.autocommit THEN Begin(EndTransaction(c)) ELSE c)

sqlSetAutoCommit(v, autoCommit) ==
    OnConnection(v, LAMBDA c : IF c.autocommit = autoCommit THEN c
                               ELSE IF autoCommit THEN EndTransaction(c) ELSE Begin(c))

SqlNext ==
    \/ \E v \in DatabaseVariable : \/ sqlOpenLite(v) \/ sqlClose(v)
                                   \/ sqlCommit(v) \/ sqlRollback(v)
                                   \/ \E on \in BOOLEAN : sqlSetAutoCommit(v, on)
                                   \/ \E w \in DatabaseVariable : sqlCpyDb(v, w)
                                   \/ DatabaseVariableEnds(v)
    \/ \E p \in StmtVariable : \/ \E v \in DatabaseVariable : sqlPrepare(p, v)
                               \/ \E i \in Param : sqlBindStri(p, i)
                               \/ sqlExecute(p) \/ sqlFetch(p)
                               \/ \E q \in StmtVariable : sqlCpyStmt(p, q)
                               \/ StmtVariableEnds(p)

SqlSpec == SqlInit /\ [][SqlNext]_sqlVars

---------------------------------------------------------------------------
(* Properties.                                                              *)

ConnectionsReleased ==
    /\ \A s \in Stmt : heap.lite[s].state # "none" => heap.connection[heap.stmt[s].db].open
    /\ \A d \in Database : heap.connection[d].open /\ ~heap.connection[d].abandoned
                           => heap.database[d].usage > 0

(* The usage count of a database is the number of variables and statements  *)
(* that refer to it, and that of a statement the number of variables, so    *)
(* nothing that is referred to is freed and nothing is freed twice: sqlCpyDb,*)
(* sqlCpyStmt, sqlPrepare and freePreparedStmt keep the counts together.    *)
(* A statement that was prepared has an open connection below it until it   *)
(* is finalized, and when a database is freed its connection is closed      *)
(* unless the program closed it while it had statements (abandoned) and     *)
(* SQLite refused: freePreparedStmt finalizes the statement before it gives *)
(* up the database.                                                         *)
SqlUsageCounted ==
    /\ \A d \in Database :
          heap.database[d].usage =
             Cardinality({v \in DatabaseVariable : databaseVariable[v] = d})
             + Cardinality({s \in Stmt : heap.stmt[s].db = d})
    /\ \A s \in Stmt :
          heap.stmt[s].usage = Cardinality({p \in StmtVariable : stmtVariable[p] = s})
    /\ ConnectionsReleased

(* Columns are read (fetchOkay) only while SQLite is at a row of the result *)
(* and this row is not one that the next fetch has yet to announce.         *)
ColumnsOfRow ==
    \A s \in Stmt : heap.stmt[s].fetchOkay =>
        heap.lite[s].state = "row" /\ ~heap.stmt[s].useStored

(* Statements keep the promise of Cursor, with one exception: sqlExecute has *)
(* already done the first step, so the stored result, the steps of sqlFetch *)
(* and the mark fetchFinished together must give every row exactly once and *)
(* then "end".  The exception contradicts what sql_rtl.c:1588 says of       *)
(* sqlFetch ("FALSE if no more result data is available"): the first fetch  *)
(* of a result without rows does not set fetchFinished (sql_lite.c:1989), so *)
(* with AutoReset a second one executes the statement once more, an INSERT, *)
(* too, and may even deliver rows.  Only then may a fetch execute.          *)
HasResult(s) == heap.stmt[s].executed /\ (heap.stmt[s].useStored \/ heap.stmt[s].fetchOkay)
Promised == INSTANCE Cursor WITH
    rows <- [s \in Stmt |-> IF HasResult(s) THEN heap.lite[s].rows ELSE 0],
    current <- [s \in Stmt |-> IF HasResult(s) /\ ~heap.stmt[s].useStored
                               THEN heap.lite[s].row ELSE 0]
SqlCursorNext == \/ Promised!CursorNext
                 \/ \E s \in Stmt : EmptyFetched(s) /\ Promised!FetchAnew(s)
CursorPromised == Promised!CursorInit /\ [][SqlCursorNext]_(Promised!cursorVars)

(* After commit returns there is no uncommitted change ("Execute a commit   *)
(* statement for the specified database", sql_rtl.c:1129).                  *)
CommitCommits ==
    [][\A v \in DatabaseVariable :
          sqlCommit(v) => ~heap'.connection[databaseVariable[v]].uncommitted]_sqlVars
=============================================================================
