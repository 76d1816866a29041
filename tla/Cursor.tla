------------------------------- MODULE Cursor -------------------------------
(* What prepared statements promise to the program that uses them: a        *)
(* successful execution has a result of some number of rows; every fetch    *)
(* makes the next row the current one and answers "row", until all rows     *)
(* have been the current one; then it answers "end".                        *)
EXTENDS Naturals

CONSTANTS Stmt,       \* the statements
          MaxRow      \* bound: the most rows of a result

VARIABLES rows,       \* [Stmt -> the number of rows of its result]
          current,    \* [Stmt -> the number of its current row, 0 before the first]
          answer      \* the statement and the answer of a call of fetch just done

cursorVars == <<rows, current, answer>>

NoAnswer == <<>>

CursorInit == /\ rows = [s \in Stmt |-> 0]
              /\ current = [s \in Stmt |-> 0]
              /\ answer = NoAnswer

\* Statements are freed or get new parameters, or fail, or their results end
\* with a transaction or with the connection.
Discard(S) == /\ rows' = [s \in Stmt |-> IF s \in S THEN 0 ELSE rows[s]]
              /\ current' = [s \in Stmt |-> IF s \in S THEN 0 ELSE current[s]]
              /\ answer' = NoAnswer

Execute(s) == /\ \E n \in 0 .. MaxRow : rows' = [rows EXCEPT ![s] = n]
              /\ current' = [current EXCEPT ![s] = 0]
              /\ answer' = NoAnswer

NextRow(s) == /\ current[s] < rows[s]
              /\ current' = [current EXCEPT ![s] = @ + 1]
              /\ answer' = <<s, "row">>
              /\ UNCHANGED rows

\* The last row has been passed and there is no current row any more.
EndOfRows(s) == /\ current[s] = rows[s]
                /\ rows' = [rows EXCEPT ![s] = 0]
                /\ current' = [current EXCEPT ![s] = 0]
                /\ answer' = <<s, "end">>

\* A fetch that executes the statement again; no step of CursorNext, which a
\* driver may add.
FetchAnew(s) == \E n \in 0 .. MaxRow :
                   /\ rows' = [rows EXCEPT ![s] = n]
                   /\ current' = [current EXCEPT ![s] = IF n = 0 THEN 0 ELSE 1]
                   /\ answer' = <<s, IF n = 0 THEN "end" ELSE "row">>

Other == answer' = NoAnswer /\ UNCHANGED <<rows, current>>

CursorNext == \/ Other
              \/ \E S \in SUBSET Stmt : Discard(S)
              \/ \E s \in Stmt : Execute(s) \/ NextRow(s) \/ EndOfRows(s)

CursorSpec == CursorInit /\ [][CursorNext]_cursorVars
=============================================================================
