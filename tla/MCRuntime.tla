------------------------------ MODULE MCRuntime ------------------------------
(* The parts of the run-time library that work on data of their own, checked *)
(* beside each other.  They share no state, so one part takes all the steps  *)
(* of a behaviour and the others stay in their initial states: the states of *)
(* this specification are the sum and not the product of those of the parts. *)
EXTENDS MCCatchStack, Sql, Drivers, Process, Hash, Sets, MCMoveFile, MCBigNumbers,
        MCParsing

LOCAL INSTANCE TLC

CONSTANT Parts                \* the parts that are checked

VARIABLE part                 \* the part that takes the steps

runtimeVars == <<vars, sqlVars, driverVars, processVars, hashVars, setVars, moveVars, bigVars, program,
                 syntaxVars, matchVars, part>>

\* The numbers of no variables: nothing is computed beside the other parts.
NoNumbers == big = <<>> /\ num = <<>>

\* The sets of no variables.
NoSets == set = <<>> /\ element = <<>>

\* The database of no driver.
NoDriver == /\ driver = "none" /\ database = NewDatabase(FALSE) /\ outcome = NoOutcome
            /\ statement = [s \in Statement |-> NoStatement]
            /\ cursor = [s \in Statement |-> NoCursor]

\* No syntax is declared.
NoGrammar == /\ grammar = <<>> /\ read = 0 /\ syntax = NoSyntax
             /\ text = <<>> /\ parsed = NotParsed

RuntimeInit ==
    /\ part \in Parts
    /\ Init /\ SqlInit /\ ProcessInit /\ HashInit /\ MoveInit /\ ScopesInit /\ MatchInit
    /\ IF part = "syntax" THEN SyntaxInit ELSE NoGrammar
    /\ IF part = "drivers" THEN DriverInit ELSE NoDriver
    /\ IF part = "sets" THEN SetsInit ELSE NoSets
    /\ IF part = "numbers" THEN BigInit ELSE NoNumbers

RuntimeNext ==
    /\ UNCHANGED part
    /\ \/ /\ part = "catch stack" /\ Next
          /\ UNCHANGED <<sqlVars, driverVars, processVars, hashVars, setVars, moveVars, bigVars,
                         program, syntaxVars, matchVars>>
       \/ /\ part = "databases" /\ SqlNext
          /\ UNCHANGED <<vars, driverVars, processVars, hashVars, setVars, moveVars, bigVars,
                         program, syntaxVars, matchVars>>
       \/ /\ part = "drivers" /\ DriverNext
          /\ UNCHANGED <<vars, sqlVars, processVars, hashVars, setVars, moveVars, bigVars,
                         program, syntaxVars, matchVars>>
       \/ /\ part = "processes" /\ ProcessNext
          /\ UNCHANGED <<vars, sqlVars, driverVars, hashVars, setVars, moveVars, bigVars,
                         program, syntaxVars, matchVars>>
       \/ /\ part = "hash maps" /\ HashNext
          /\ UNCHANGED <<vars, sqlVars, driverVars, processVars, setVars, moveVars, bigVars,
                         program, syntaxVars, matchVars>>
       \/ /\ part = "sets" /\ SetsNext
          /\ UNCHANGED <<vars, sqlVars, driverVars, processVars, hashVars, moveVars, bigVars,
                         program, syntaxVars, matchVars>>
       \/ /\ part = "files" /\ MoveNext
          /\ UNCHANGED <<vars, sqlVars, driverVars, processVars, hashVars, setVars, bigVars,
                         program, syntaxVars, matchVars>>
       \/ /\ part = "numbers" /\ BigNext
          /\ UNCHANGED <<vars, sqlVars, driverVars, processVars, hashVars, setVars, moveVars,
                         program, syntaxVars, matchVars>>
       \/ /\ part = "scopes" /\ ScopesNext
          /\ UNCHANGED <<vars, sqlVars, driverVars, processVars, hashVars, setVars, moveVars,
                         bigVars, syntaxVars, matchVars>>
       \/ /\ part = "syntax" /\ SyntaxNext
          /\ UNCHANGED <<vars, sqlVars, driverVars, processVars, hashVars, setVars, moveVars,
                         bigVars, program, matchVars>>
       \/ /\ part = "matching" /\ MatchNext
          /\ UNCHANGED <<vars, sqlVars, driverVars, processVars, hashVars, setVars, moveVars,
                         bigVars, program, syntaxVars>>

RuntimeSpec == RuntimeInit /\ [][RuntimeNext]_runtimeVars

(* The variables of all parts have their types: the position in the catch   *)
(* stack is not negative, usage counts neither, and calls, statements,      *)
(* children and elements of maps are in states that the code distinguishes. *)
RuntimeTypeOK ==
    CASE part = "catch stack" -> TypeOK
      [] part = "databases" -> SqlTypeOK
      [] part = "drivers" -> DriverTypeOK
      [] part = "processes" -> ProcessTypeOK
      [] part = "hash maps" -> HashTypeOK
      [] part = "sets" -> SetTypeOK
      [] part = "files" -> MoveTypeOK
      [] part = "scopes" -> ScopesTypeOK
      [] OTHER -> TRUE

---------------------------------------------------------------------------

AllParts == {"catch stack", "databases", "drivers", "processes", "hash maps", "sets", "files",
             "numbers", "scopes", "syntax", "matching"}

OneBucket(k) == 1

\* The first and the last integer and both sides of the other ends of bitsets.
SetNumbers == {-8, -1, 3, 7}

\* Variables of the same type are interchangeable, and so are the statements of
\* Drivers and the memory for records, since which free record is taken makes no
\* difference.  As only one part takes steps, the same values serve for all.
Interchangeable == Permutations(Statement) \cup Permutations(StmtVariable) \cup Permutations(Stmt)
=============================================================================
