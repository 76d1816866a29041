------------------------------- MODULE Drivers -------------------------------
(* Prepared statements and transactions in the drivers for MySQL (sql_my.c, *)
(* "my"), Oracle (sql_oci.c, "oci"), PostgreSQL (sql_post.c, "post"),       *)
(* Firebird (sql_fire.c, "fire") and ODBC or DB2 (sql_cli.c, "cli").  Each   *)
(* driver keeps flags about a statement beside what its client library knows*)
(* about the cursor of the statement.  The client libraries are external.   *)
EXTENDS Naturals, Sequences

CONSTANTS Statement,        \* the prepared statements of one database
          MaxRows,          \* bound: the most rows of a result
          RowCounts         \* bound: the numbers of rows of results, at most MaxRows

ASSUME DriversAssumption == MaxRows \in Nat /\ RowCounts \subseteq 0 .. MaxRows

VARIABLES driver,           \* the driver of the database
          database,         \* its connection and the transaction in the server
          statement,        \* the fields of the prepared statements
          cursor,           \* what the client library has for each of them
          outcome           \* of a call of sqlFetch or sqlCommit just done

driverVars == <<driver, database, statement, cursor, outcome>>

Drivers == {"my", "oci", "post", "fire", "cli"}

NoOutcome == <<>>
Committed == <<"committed">>

\* sqlCommit returns without an exception although the library has refused it.
Unnoticed == <<"unnoticed">>

NoCursor == [open |-> FALSE, row |-> 0, rows |-> 0]
Opened == {[open |-> TRUE, row |-> 0, rows |-> n] : n \in RowCounts}

\* data is the number of the row whose values are in the buffers of the
\* columns.  index and started are fetch_index and increment_index of sql_post,
\* prefetched is the list of sql_cli with 0 for the record of SQL_NO_DATA.
NoStatement == [kind |-> "none", bound |-> FALSE, executed |-> FALSE, fetchOkay |-> FALSE,
                finished |-> TRUE, data |-> 0, index |-> 0, started |-> FALSE,
                prefetched |-> <<>>]

\* limited: a connection of sql_cli has maxConcurrentActivities.  transaction:
\* the one that sql_post and sql_fire have begun themselves; it is "failed" when
\* PostgreSQL has aborted it since one of its statements failed.
NewDatabase(limited) == [open |-> TRUE, limited |-> limited, autoCommit |-> TRUE,
                         transaction |-> IF driver = "fire" THEN "open" ELSE "none",
                         uncommitted |-> FALSE]

DriverTypeOK ==
    /\ driver \in Drivers
    /\ database \in [open : BOOLEAN, limited : BOOLEAN, autoCommit : BOOLEAN,
                     transaction : {"none", "open", "failed"}, uncommitted : BOOLEAN]
    /\ cursor \in [Statement -> [open : BOOLEAN, row : 0 .. MaxRows, rows : 0 .. MaxRows]]
    /\ \A s \in Statement :
          /\ statement[s].kind \in {"none", "select", "change", "definition"}
          /\ statement[s].data \in 0 .. MaxRows
          /\ statement[s].index \in 0 .. MaxRows + 1
          /\ Len(statement[s].prefetched) <= MaxRows + 1

DriverInit ==
    /\ driver \in Drivers
    /\ \E limited \in BOOLEAN : /\ limited => driver = "cli"
                                /\ database = NewDatabase(limited)
    /\ statement = [s \in Statement |-> NoStatement]
    /\ cursor = [s \in Statement |-> NoCursor]
    /\ outcome = NoOutcome

IsSelect(s) == statement[s].kind = "select"

---------------------------------------------------------------------------
(* Transactions.                                                            *)

\* The end of a transaction closes the cursors of Firebird, and those of
\* ODBC when the database does so (SQL_CURSOR_COMMIT_BEHAVIOR).
ClosedCursor(c) == [c EXCEPT !.open = FALSE]
AllClosed == [s \in Statement |-> ClosedCursor(cursor[s])]
CursorsAfterEnd == CASE driver = "fire" -> {AllClosed}
                     [] driver = "cli" -> {cursor, AllClosed}
                     [] OTHER -> {cursor}

Uncommitted(changes) == [database EXCEPT !.uncommitted = changes]
Begun == [database EXCEPT !.uncommitted = FALSE, !.transaction = "open"]
NotBegun == [database EXCEPT !.uncommitted = FALSE, !.transaction = "none"]

\* The library ends the transaction, and sql_post and sql_fire begin the next
\* one.  In auto-commit mode sql_post has nothing to end.
EndSucceeds ==
    /\ cursor' \in CursorsAfterEnd
    /\ CASE driver = "post" -> database' = IF database.autoCommit THEN database ELSE Begun
         [] driver = "fire" -> database.transaction = "open" /\ database' = Begun
         [] OTHER -> database' = NotBegun

\* The library refuses, and the changes stay uncommitted or the server has
\* rolled them back; or the next transaction cannot begin (then sql_post and
\* sql_fire have none).  When COMMIT fails, sql_post does not send BEGIN.
AfterRefusal == {database, Uncommitted(FALSE), NotBegun}
EndFails ==
    /\ driver = "post" => ~database.autoCommit
    /\ cursor' \in CursorsAfterEnd \cup {cursor}
    /\ database' \in AfterRefusal

\* Each driver raises an exception when an end fails, but sql_oci ignores the
\* results of OCITransCommit and OCITransRollback.
EndDriverTransaction(done, unnoticed) ==
    /\ database.open
    /\ \/ EndSucceeds /\ outcome' = done
       \/ EndFails /\ outcome' = IF driver = "oci" THEN unnoticed ELSE NoOutcome
    /\ UNCHANGED <<driver, statement>>

\* Mutant: sql_my ignores the result of mysql_commit, like sql_oci.
CommitUnchecked ==
    /\ database.open
    /\ \/ EndSucceeds /\ outcome' = Committed
       \/ EndFails /\ outcome' = IF driver \in {"oci", "my"} THEN Unnoticed ELSE NoOutcome
    /\ UNCHANGED <<driver, statement>>

driverCommit == EndDriverTransaction(Committed, Unnoticed)
driverRollback == EndDriverTransaction(NoOutcome, NoOutcome)

WithMode(autoCommit) == [database EXCEPT !.autoCommit = autoCommit]

\* MySQL and ODBC commit when the mode is switched on, sql_post does it
\* itself; when this fails there is an exception and the mode stays.
\* sql_oci and sql_fire only store the mode.
ModesAfter(autoCommit) ==
    CASE driver \in {"oci", "fire"} -> {WithMode(autoCommit)}
      [] driver \in {"my", "cli"} ->
           {[WithMode(autoCommit) EXCEPT !.uncommitted = @ /\ ~autoCommit], database, NotBegun}
      [] driver = "post" ->
           IF database.autoCommit = autoCommit THEN {database}
           ELSE {[WithMode(autoCommit) EXCEPT !.uncommitted = FALSE,
                      !.transaction = IF autoCommit THEN "none" ELSE "open"],
                 database, NotBegun}

driverSetAutoCommit(autoCommit) ==
    /\ database.open
    /\ database' \in ModesAfter(autoCommit)
    /\ outcome' = NoOutcome
    /\ UNCHANGED <<driver, statement, cursor>>

---------------------------------------------------------------------------
(* Preparing and binding.                                                   *)

driverPrepare(s, kind) ==
    /\ database.open /\ (driver = "fire" => database.transaction = "open")
    /\ statement[s].kind = "none"
    /\ statement' = [statement EXCEPT ![s] = [NoStatement EXCEPT !.kind = kind]]
    /\ outcome' = NoOutcome
    /\ UNCHANGED <<driver, database, cursor>>

driverFreeStmt(s) ==
    /\ statement[s].kind # "none"
    /\ statement' = [statement EXCEPT ![s] = NoStatement]
    /\ cursor' = [cursor EXCEPT ![s] = NoCursor]
    /\ outcome' = NoOutcome
    /\ UNCHANGED <<driver, database>>

\* Mutant: the rows that were fetched in advance survive.
BindKeepsPrefetched(s) ==
    CASE driver \in {"my", "oci", "post"} ->
           {[statement[s] EXCEPT !.bound = TRUE, !.executed = FALSE, !.fetchOkay = FALSE]}
      [] driver = "fire" -> {[statement[s] EXCEPT !.bound = TRUE, !.fetchOkay = FALSE]}
      [] driver = "cli" ->
           {[statement[s] EXCEPT !.bound = TRUE, !.executed = FALSE, !.fetchOkay = FALSE],
            [statement[s] EXCEPT !.executed = FALSE]}

\* sql_fire lets a bind keep the execution; sql_cli closes the cursor before
\* it converts the value, which may fail.
AfterBind(s) ==
    CASE driver \in {"my", "oci", "post"} ->
           {[statement[s] EXCEPT !.bound = TRUE, !.executed = FALSE, !.fetchOkay = FALSE]}
      [] driver = "fire" -> {[statement[s] EXCEPT !.bound = TRUE, !.fetchOkay = FALSE]}
      [] driver = "cli" ->
           LET dropped == IF statement[s].executed THEN <<>> ELSE statement[s].prefetched
           IN  {[statement[s] EXCEPT !.bound = TRUE, !.executed = FALSE, !.fetchOkay = FALSE,
                                     !.prefetched = dropped],
                [statement[s] EXCEPT !.executed = FALSE, !.prefetched = dropped]}

driverBind(s) ==
    /\ statement[s].kind # "none"
    /\ \E after \in AfterBind(s) : statement' = [statement EXCEPT ![s] = after]
    /\ cursor' = IF driver = "cli" /\ statement[s].executed
                 THEN [cursor EXCEPT ![s] = NoCursor] ELSE cursor
    /\ outcome' = NoOutcome
    /\ UNCHANGED <<driver, database>>

---------------------------------------------------------------------------
(* Execution.                                                               *)

\* What the execution of a statement means for the transaction.  Definitions
\* commit: in MySQL, Oracle and some databases of ODBC the server does it;
\* sql_post and sql_fire do it, and when they cannot there is an exception.
Changes(kind) ==
    IF kind = "select"
    THEN {Uncommitted(database.uncommitted /\ ~(driver = "oci" /\ database.autoCommit))}
    ELSE CASE driver = "post" ->
                {Uncommitted(database.transaction = "open")} \cup
                IF kind = "definition" /\ ~database.autoCommit THEN {Begun, NotBegun} ELSE {}
           [] driver = "fire" ->
                {Uncommitted(TRUE)} \cup IF kind = "definition" THEN {Begun, NotBegun} ELSE {}
           [] driver \in {"my", "oci"} -> {Uncommitted(~database.autoCommit /\ kind = "change")}
           [] driver = "cli" ->
                {Uncommitted(~database.autoCommit)} \cup
                IF kind = "definition" THEN {Uncommitted(FALSE)} ELSE {}

\* A failing statement aborts the transaction of PostgreSQL; other servers may
\* roll a transaction back when one of its statements fails.
AfterFailedChange == {database, Uncommitted(FALSE)} \cup
    IF driver = "post" /\ database.transaction # "none"
    THEN {[Uncommitted(FALSE) EXCEPT !.transaction = "failed"]} ELSE {}

CanExecute == /\ database.open /\ database.transaction # "failed"
              /\ driver = "fire" => database.transaction = "open"

\* Definitions may commit, and a commit may close cursors.
CursorsOfOthers(kind) == {cursor} \cup IF kind = "definition" THEN CursorsAfterEnd ELSE {}

AfterFailure(st) == [st EXCEPT !.executed = FALSE, !.fetchOkay = FALSE]
AfterExecution(st) == [st EXCEPT !.executed = TRUE, !.fetchOkay = FALSE, !.finished = FALSE]

\* The library executes the statement, or fails and has no cursor.
Executes(s, done) ==
    \/ /\ statement' = [statement EXCEPT ![s] = AfterFailure(done)]
       /\ cursor' = [cursor EXCEPT ![s] = NoCursor]
       /\ database' \in AfterFailedChange
    \/ /\ CanExecute
       /\ database' \in Changes(statement[s].kind)
       /\ statement' = [statement EXCEPT ![s] = AfterExecution(done)]
       /\ IF IsSelect(s) THEN \E c \in Opened : cursor' = [cursor EXCEPT ![s] = c]
          ELSE \E c \in CursorsOfOthers(statement[s].kind) :
                  cursor' = [c EXCEPT ![s] = NoCursor]

MyOciExecute(s) == driver \in {"my", "oci"} /\ Executes(s, statement[s])

\* Mutant: the next fetch skips a row of the new result.
PostKeepsStarted(s) ==
    /\ driver = "post"
    /\ Executes(s, [statement[s] EXCEPT !.index = 0])

\* The library has the whole result in memory.
PostExecute(s) ==
    /\ driver = "post"
    /\ Executes(s, [statement[s] EXCEPT !.index = 0, !.started = FALSE])

\* An open cursor must be closed first.  A cursor that a commit has closed
\* cannot be closed again, and this statement can never be executed again.
FireExecute(s) ==
    /\ driver = "fire"
    /\ IF statement[s].executed /\ IsSelect(s) /\ ~cursor[s].open
       THEN UNCHANGED <<database, statement, cursor>>
       ELSE Executes(s, statement[s])

\* The rows of the whole result and the end, or some rows and an error.
Prefetched(n) == Append([k \in 1 .. n |-> k], 0)

CliExecute(s) ==
    LET done == IF statement[s].executed THEN [statement[s] EXCEPT !.prefetched = <<>>]
                ELSE statement[s]
    IN  /\ driver = "cli"
        /\ \/ \* the cursor of an execution that failed while rows were prefetched
              /\ ~statement[s].executed /\ cursor[s].open
              /\ statement' = [statement EXCEPT ![s] = AfterFailure(done)]
              /\ UNCHANGED <<database, cursor>>
           \/ /\ statement[s].executed \/ ~cursor[s].open
              /\ ~(database.limited /\ IsSelect(s))
              /\ Executes(s, done)
           \/ /\ statement[s].executed \/ ~cursor[s].open
              /\ database.limited /\ IsSelect(s) /\ database.open
              /\ \E c \in Opened :
                   /\ cursor' = [cursor EXCEPT ![s] = c]
                   /\ \/ statement' = [statement EXCEPT
                            ![s] = [AfterExecution(done) EXCEPT !.prefetched = Prefetched(c.rows)]]
                      \/ \E k \in 0 .. c.rows : statement' = [statement EXCEPT
                            ![s] = [AfterFailure(done) EXCEPT !.prefetched = [j \in 1 .. k |-> j]]]
              /\ UNCHANGED database

driverExecute(s) ==
    /\ statement[s].bound
    /\ MyOciExecute(s) \/ PostExecute(s) \/ FireExecute(s) \/ CliExecute(s)
    /\ outcome' = NoOutcome
    /\ UNCHANGED driver

---------------------------------------------------------------------------
(* Fetching.                                                                *)

AtRow(s, row) == [statement[s] EXCEPT !.fetchOkay = TRUE, !.data = row]
AtEnd(s) == [statement[s] EXCEPT !.fetchOkay = FALSE, !.finished = TRUE]

FetchNoResult(s) ==
    /\ ~statement[s].executed \/ ~IsSelect(s)
    /\ statement' = [statement EXCEPT ![s].fetchOkay = FALSE]
    /\ outcome' = IF statement[s].executed THEN <<s, "end">> ELSE NoOutcome
    /\ UNCHANGED cursor

\* The library of a driver that fetches row by row moves its cursor.
FetchNext(s) ==
    \/ /\ cursor[s].open \/ driver = "my"
       /\ cursor[s].row < cursor[s].rows
       /\ cursor' = [cursor EXCEPT ![s].row = @ + 1]
       /\ statement' = [statement EXCEPT ![s] = AtRow(s, cursor[s].row + 1)]
       /\ outcome' = <<s, "row">>
    \/ /\ cursor[s].open \/ driver = "my"
       /\ cursor[s].row = cursor[s].rows
       /\ statement' = [statement EXCEPT ![s] = AtEnd(s)]
       /\ outcome' = <<s, "end">>
       /\ UNCHANGED cursor
    \/ /\ statement' = [statement EXCEPT ![s] = AtEnd(s)]
       /\ outcome' = NoOutcome
       /\ UNCHANGED cursor

\* The row at the head of the list becomes the current one.
FetchPrefetched(s) ==
    LET row == Head(statement[s].prefetched)
    IN  /\ statement' = [statement EXCEPT
              ![s] = [(IF row = 0 THEN AtEnd(s) ELSE AtRow(s, row))
                      EXCEPT !.prefetched = Tail(@)]]
        /\ outcome' = <<s, IF row = 0 THEN "end" ELSE "row">>
        /\ UNCHANGED cursor

FetchResult(s) ==
    /\ driver # "post"
    /\ statement[s].executed /\ IsSelect(s)
    /\ \/ /\ statement[s].finished
          /\ outcome' = <<s, "end">>
          /\ UNCHANGED <<statement, cursor>>
       \/ /\ ~statement[s].finished /\ statement[s].prefetched = <<>>
          /\ FetchNext(s)
       \/ /\ ~statement[s].finished /\ statement[s].prefetched # <<>>
          /\ FetchPrefetched(s)

\* Calls after the end go on to increment fetch_index (here up to a bound).
FetchIndex(s) ==
    LET next == statement[s].index + IF statement[s].started THEN 1 ELSE 0
    IN  /\ driver = "post"
        /\ statement[s].executed /\ IsSelect(s) /\ next <= MaxRows + 1
        /\ statement' = [statement EXCEPT ![s].index = next, ![s].started = TRUE,
                                          ![s].fetchOkay = next < cursor[s].rows]
        /\ outcome' = <<s, IF next < cursor[s].rows THEN "row" ELSE "end">>
        /\ UNCHANGED cursor

driverFetch(s) ==
    /\ statement[s].kind # "none"
    /\ FetchNoResult(s) \/ FetchResult(s) \/ FetchIndex(s)
    /\ UNCHANGED <<driver, database>>

---------------------------------------------------------------------------

\* The connection is closed while there are statements.  MySQL detaches
\* them, PostgreSQL leaves the results; other libraries lose the cursors.
driverClose ==
    /\ database.open
    /\ database' = [NotBegun EXCEPT !.open = FALSE]
    /\ cursor' = IF driver \in {"my", "post"} THEN cursor ELSE AllClosed
    /\ outcome' = NoOutcome
    /\ UNCHANGED <<driver, statement>>

DriverNext ==
    \/ driverClose \/ driverCommit \/ driverRollback
    \/ \E on \in BOOLEAN : driverSetAutoCommit(on)
    \/ \E s \in Statement :
         \/ \E kind \in {"select", "change", "definition"} : driverPrepare(s, kind)
         \/ driverBind(s) \/ driverExecute(s) \/ driverFetch(s) \/ driverFreeStmt(s)

DriverSpec == DriverInit /\ [][DriverNext]_driverVars

---------------------------------------------------------------------------
(* Properties.                                                              *)

\* The rows of a result that can still be fetched.
InMemory == driver \in {"my", "post"} \/ database.limited
HasRows(s) ==
    /\ statement[s].executed /\ IsSelect(s)
    /\ InMemory \/ cursor[s].open
    /\ IF driver = "post" THEN statement[s].index < cursor[s].rows \/ ~statement[s].started
       ELSE ~statement[s].finished

\* The number of the row whose columns are read, or of the position before
\* the next fetch.
Position(s) ==
    IF driver = "post" THEN IF statement[s].started THEN statement[s].index + 1 ELSE 0
    ELSE IF statement[s].fetchOkay THEN statement[s].data
    ELSE IF database.limited THEN cursor[s].rows + 1 - Len(statement[s].prefetched)
    ELSE cursor[s].row

(* Every driver keeps the promise of Cursor, with the flags, indexes and    *)
(* lists of its own: sqlFetch gives every row of the last execution exactly *)
(* once and then the end, and the columns that are read after it are those  *)
(* of this row, whatever is bound, committed, closed or fails in between.   *)
Delivered == INSTANCE Cursor WITH
    Stmt <- Statement, MaxRow <- MaxRows,
    rows <- [s \in Statement |-> IF HasRows(s) THEN cursor[s].rows ELSE 0],
    current <- [s \in Statement |-> IF HasRows(s) THEN Position(s) ELSE 0],
    answer <- IF outcome \in {Committed, Unnoticed} THEN NoOutcome ELSE outcome
DriversPromised == Delivered!CursorSpec

(* A commit that returns without an exception has been done: nothing is     *)
(* uncommitted, and the library has not refused it.  The exception is       *)
(* sql_oci, which does not notice that OCITransCommit fails                 *)
(* (sql_oci.c:4190).  In auto-commit mode nothing is uncommitted either,    *)
(* however the mode was changed before and whichever of COMMIT and BEGIN    *)
(* failed (sql_oci and sql_fire keep the changes of the transaction in      *)
(* which the mode was switched on).                                         *)
CommitsArePermanent ==
    /\ outcome \in {Committed, Unnoticed} /\ driver # "oci" => outcome = Committed
    /\ outcome = Committed => ~database.uncommitted
    /\ database.autoCommit /\ driver \notin {"oci", "fire"} => ~database.uncommitted
=============================================================================
