---------------------------- MODULE Lambda ----------------------------
(***************************************************************************)
(* The call mechanism of the Seed7 interpreter (src/src/exec.c): functions *)
(* written in Seed7 (exec_lambda), primitive actions (exec_action), blocks *)
(* with exception handlers (prc_block), local objects with shallow binding *)
(* (one formal object per parameter, local variable or result, whose       *)
(* objValue is saved and replaced by every activation), the ownership of   *)
(* temporary values (TEMP and TEMP2 flags), exceptions (fail_flag) and     *)
(* suspended signals (interrupt_flag).                                     *)
(*                                                                         *)
(* The C recursion exec_call -> exec_lambda -> par_init -> exec_object ... *)
(* is the variable stack; one action is what a C function does between two *)
(* evaluations of an expression.  The program is arbitrary: whenever the   *)
(* code evaluates an expression, the model picks any expression of the     *)
(* right sort ("value", or "proc" for a statement).                        *)
(***************************************************************************)
EXTENDS Integers, Sequences, FiniteSets

CONSTANTS
  Oid,             \* heap objects (objectType)
  Globals,         \* objects that are never freed: literals, init values, Empty, Exc
  Empty, Exc,      \* SYS_EMPTY_OBJECT, and the exception object in fail_value
  Null,            \* NULL
  Fun,             \* functions (blockType)
  Params, Locals,  \* block->params, block->local_vars: formal objects of a function
  ResultOf,        \* block->result.object, or Null
  InitValue,       \* value.objValue of a formal after parsing: the init value of a local
                   \* variable (process_local_decl), otherwise Null
  Procs,           \* functions without a result and without result.create_call_obj
  RefParams,       \* formals that are REFPARAMOBJECTs; the others are VALUEPARAMOBJECTs
  CreateOutcomes,  \* what a create call may do: "ok", "raised" (an exception in it, or
                   \* raised by the dialog for a suspended signal), "no_object"
  DestroyRaises,   \* may a destroy call raise an exception?
  AsyncRaise,      \* may the -ts dialog raise an exception inside a signal handler?
  Decisions,       \* answers to show_signal: "continue", "raise", "trace"
  MaxArity,        \* bound: arguments of a primitive action or a data object
  MaxDepth,        \* bound: nested calls
  MaxLeaks         \* bound: leaked values after which no data object is called

VARIABLES
  stack,           \* activations, innermost last
  objValue,        \* formal object -> value.objValue
  heap,            \* object -> "free", or its TEMP/TEMP2 flag ("plain" when neither is set);
                   \* "leaked": TEMP is set, and the last reference to the object is gone
  fail,            \* fail_flag
  interrupt,       \* interrupt_flag
  catchable        \* catch_exceptions

vars == <<stack, objValue, heap, fail, interrupt, catchable>>

RangeOf(sq) == {sq[i] : i \in DOMAIN sq}
Formals(f) == RangeOf(Params[f]) \cup RangeOf(Locals[f]) \cup ({ResultOf[f]} \ {Null})
Slot == UNION {Formals(f) : f \in Fun}
Ref == Oid \cup {Null}

ASSUME ConstantsAssumption ==
  /\ Empty \in Globals /\ Exc \in Globals /\ Globals \subseteq Oid
  /\ Null \notin Oid /\ Null \notin Fun
  /\ Procs \subseteq Fun
  /\ Params \in [Fun -> Seq(Slot)] /\ Locals \in [Fun -> Seq(Slot)]
  /\ ResultOf \in [Fun -> Slot \cup {Null}]
  /\ InitValue \in [Slot -> Globals \cup {Null}]
  /\ CreateOutcomes \subseteq {"ok", "raised", "no_object"}
  /\ Decisions \subseteq {"continue", "raise", "trace"}
  /\ DestroyRaises \in BOOLEAN /\ AsyncRaise \in BOOLEAN
  /\ MaxArity \in Nat /\ MaxDepth \in Nat /\ MaxLeaks \in Nat

\* A formal object belongs to one function and has one role in it; only parameters are
\* references.
ASSUME FormalsAssumption ==
  /\ RefParams \subseteq UNION {RangeOf(Params[f]) : f \in Fun}
  /\ \A f, g \in Fun : f # g => Formals(f) \cap Formals(g) = {}
  /\ \A f \in Fun :
       /\ Null \notin RangeOf(Params[f]) \cup RangeOf(Locals[f])
       /\ RangeOf(Params[f]) \cap RangeOf(Locals[f]) = {}
       /\ ResultOf[f] \notin RangeOf(Params[f]) \cup RangeOf(Locals[f])
       /\ \A i, j \in DOMAIN Params[f] : Params[f][i] = Params[f][j] => i = j
       /\ \A i, j \in DOMAIN Locals[f] : Locals[f][i] = Locals[f][j] => i = j
       /\ f \in Procs => ResultOf[f] = Null

-----------------------------------------------------------------------------
(* Activations *)

Sort == {"value", "proc"}
SortOf(f) == IF f \in Procs THEN "proc" ELSE "value"
Phase == {"args", "init", "body", "res_restore", "loc_restore", "par_restore",
          "run", "catch", "handler", "done", "cond", "test", "again"}

\* The C variables of exec_lambda, exec_action, exec_all_parameters, prc_block or prc_while,
\* and what they still have to do.  entry is a history variable: objValue when the call began.
Frame == [kind : {"lambda", "action", "data", "block", "loop"}, fn : Fun \cup {Null}, sort : Sort,
          arity : Nat, phase : Phase, k : Nat, evald : Seq(Ref), bits : SUBSET Nat,
          backup : [Slot -> Ref], result : Ref, entry : [Slot -> Ref]]

Activation(kind, f, sort, arity) ==
  [kind |-> kind, fn |-> f, sort |-> sort, arity |-> arity, phase |-> "args", k |-> 1,
   evald |-> <<>>, bits |-> {}, backup |-> [s \in Slot |-> Null], result |-> Null,
   entry |-> objValue]

Top == stack[Len(stack)]
Caller == stack[Len(stack) - 1]
Below == SubSeq(stack, 1, Len(stack) - 1)
SetTop(fr) == [stack EXCEPT ![Len(stack)] = fr]
NPar(fr) == Len(Params[fr.fn])
NLoc(fr) == Len(Locals[fr.fn])

\* What the waiting activation does with the value of the expression it evaluates.
Receive(fr, o, isTemp) ==
  CASE fr.phase = "args" ->
         [fr EXCEPT !.evald = Append(@, o),
                    !.bits = IF isTemp THEN @ \cup {Len(fr.evald) + 1} ELSE @]
    [] fr.phase = "body" /\ fr.kind = "lambda" ->
         [fr EXCEPT !.result = o, !.phase = "res_restore"]
    [] fr.phase = "body" /\ fr.kind = "block" -> [fr EXCEPT !.phase = "catch"]
    [] fr.phase = "handler" -> [fr EXCEPT !.phase = "done"]
    [] fr.phase = "cond" -> [fr EXCEPT !.result = o, !.phase = "test"]
    [] OTHER -> [fr EXCEPT !.phase = "again"]

\* The innermost call returns o, with or without the TEMP flag, to its caller.
Return(o, isTemp) ==
  stack' = IF Len(stack) = 1 THEN <<>>
           ELSE [Below EXCEPT ![Len(stack) - 1] = Receive(Caller, o, isTemp)]

-----------------------------------------------------------------------------
(* Heap *)

FreeOids == {o \in Oid : heap[o] = "free"}
NewObj == CHOOSE o \in FreeOids : TRUE
Freed(h, S) == [o \in Oid |-> IF o \in S THEN "free" ELSE h[o]]
Leaked(h, S) == [o \in Oid |-> IF o \in S THEN "leaked" ELSE h[o]]
ClearTemp2(o) == [heap EXCEPT ![o] = IF @ = "temp2" THEN "plain" ELSE @]

\* The create call runs through exec_action: with fail_flag set it does nothing
\* and returns fail_value, otherwise a suspended signal is shown (and continued).
PossibleOutcomes == IF fail THEN {"raised"} ELSE CreateOutcomes

CreateLocalObject(slot, outcome, h) ==
  /\ outcome # "no_object" => FreeOids # {}
  /\ IF outcome = "no_object"
     THEN objValue' = objValue /\ heap' = h
     ELSE /\ objValue' = [objValue EXCEPT ![slot] = NewObj]
          /\ heap' = [h EXCEPT ![NewObj] = "plain"]
  /\ IF outcome = "no_object" THEN UNCHANGED <<fail, interrupt>>
                              ELSE fail' = FALSE /\ interrupt' = FALSE
  /\ UNCHANGED catchable

-----------------------------------------------------------------------------
(* Evaluation of an expression *)

\* The object values that the expression of a variable or literal may have: the
\* formals of the function whose body is executed, and literals.
Scopes == {i \in DOMAIN stack : stack[i].kind = "lambda" /\ stack[i].phase = "body"}
InScope == UNION {Formals(stack[i].fn) : i \in {n \in Scopes : \A m \in Scopes : m <= n}}
Leaves == Globals \cup ({objValue[s] : s \in InScope} \ {Null})

\* Mutant: the value of the formal is not saved.
BeginUnsaved(fr) == fr

\* par_init saves the value of a formal before it evaluates the actual parameter.
Begin(fr) ==
  IF fr.kind = "lambda" /\ fr.phase = "args"
  THEN LET p == Params[fr.fn][Len(fr.evald) + 1]
       IN  [fr EXCEPT !.backup[p] = objValue[p]]
  ELSE fr

\* The innermost activation needs the value of an expression of this sort.
Evaluating(sort) ==
  /\ stack # <<>>
  /\ \/ Top.phase = "args" /\ Len(Top.evald) < Top.arity /\ ~fail /\ sort = "value"
     \/ Top.phase = "body" /\ Top.kind = "lambda"
        /\ sort = IF Top.fn \in Procs \/ ResultOf[Top.fn] # Null THEN "proc" ELSE "value"
     \/ Top.phase \in {"body", "handler"} /\ Top.kind # "lambda" /\ sort = "proc"
     \/ Top.phase = "cond" /\ Top.kind # "lambda" /\ sort = "value"

EvalLeaf ==
  /\ Evaluating("value")
  /\ \E o \in Leaves : stack' = SetTop(Receive(Begin(Top), o, heap[o] = "temp"))
  /\ UNCHANGED <<objValue, heap, fail, interrupt, catchable>>

MayLeak == Cardinality({o \in Oid : heap[o] = "leaked"}) < MaxLeaks

\* What is called: an action, an object of another type that was declared with parameters
\* ("data"), a function (at most MaxDepth activations), a block or a loop.  A formal that is
\* called has a closure as value: its expression is evaluated without evaluating arguments.
Callees(depth, sort) ==
  {Activation("action", Null, sort, n) : n \in 0..MaxArity}
  \cup (IF MayLeak THEN {Activation("data", Null, sort, n) : n \in 1..MaxArity} ELSE {})
  \cup (IF depth > MaxDepth THEN {}
        ELSE {Activation("lambda", f, sort, Len(Params[f])) : f \in {g \in Fun : SortOf(g) = sort}}
             \cup (IF sort = "value" THEN {}
                   ELSE {Activation(kind, Null, sort, 0) : kind \in {"block", "loop"}}))

Call ==
  /\ Len(stack) <= MaxDepth
  /\ \E sort \in Sort :
       /\ Evaluating(sort)
       /\ \E fr \in Callees(Len(stack) + 1, sort) : stack' = Append(SetTop(Begin(Top)), fr)
  /\ UNCHANGED <<objValue, heap, fail, interrupt, catchable>>

-----------------------------------------------------------------------------
(* exec_lambda *)

InLambda(phase) == stack # <<>> /\ Top.kind = "lambda" /\ Top.phase = phase

Temps(fr) == {fr.evald[i] : i \in {j \in DOMAIN fr.evald : fr.evald[j] # Null
                                                        /\ heap[fr.evald[j]] = "temp"}}

\* par_init, when the evaluation of the actual parameters raised an exception.
ParInitFails ==
  /\ InLambda("args") /\ fail
  /\ heap' = Freed(heap, Temps(Top))
  /\ Return(Exc, FALSE)
  /\ UNCHANGED <<objValue, fail, interrupt, catchable>>

ParInitEvaluated ==
  /\ InLambda("args") /\ ~fail /\ Len(Top.evald) = Top.arity
  /\ stack' = SetTop([Top EXCEPT !.phase = "init"])
  /\ UNCHANGED <<objValue, heap, fail, interrupt, catchable>>

\* Mutant: TEMP2 is set and TEMP is not cleared.
BothFlags(p) == IF p \in RefParams THEN "temp and temp2" ELSE "plain"

BoundFlag(p) == IF p \in RefParams THEN "temp2" ELSE "plain"

\* A temporary value becomes the value of a value parameter; it is kept in the
\* list of evaluated parameters (as TEMP2) when the parameter is a reference.
BindTemp ==
  /\ InLambda("init") /\ Top.k <= NPar(Top)
  /\ LET p == Params[Top.fn][Top.k]
         v == Top.evald[Top.k]
     IN  /\ heap[v] = "temp"
         /\ objValue' = [objValue EXCEPT ![p] = v]
         /\ heap' = [heap EXCEPT ![v] = BoundFlag(p)]
         /\ stack' = SetTop([Top EXCEPT !.k = @ + 1,
                                        !.evald[Top.k] = IF p \in RefParams THEN v ELSE Null])
  /\ UNCHANGED <<fail, interrupt, catchable>>

BindRef ==
  /\ InLambda("init") /\ Top.k <= NPar(Top)
  /\ LET p == Params[Top.fn][Top.k]
         v == Top.evald[Top.k]
     IN  /\ p \in RefParams /\ heap[v] # "temp"
         /\ objValue' = [objValue EXCEPT ![p] = v]
         /\ heap' = ClearTemp2(v)
  /\ stack' = SetTop([Top EXCEPT !.k = @ + 1, !.evald[Top.k] = Null])
  /\ UNCHANGED <<fail, interrupt, catchable>>

\* A value parameter gets a copy.  The loop ends at the first error.
BindValue ==
  /\ InLambda("init") /\ Top.k <= NPar(Top)
  /\ LET p == Params[Top.fn][Top.k]
         v == Top.evald[Top.k]
     IN  /\ p \notin RefParams /\ heap[v] # "temp"
         /\ \E outcome \in PossibleOutcomes :
              /\ CreateLocalObject(p, outcome, ClearTemp2(v))
              /\ stack' = SetTop([Top EXCEPT
                            !.k = IF outcome = "ok" THEN @ + 1 ELSE NPar(Top) + 1])

\* exec_lambda after par_init: an exception raised by a signal handler while the
\* parameters were bound; the bindings are kept.
ParInitInterrupted ==
  /\ InLambda("init") /\ Top.k = NPar(Top) + 1 /\ fail
  /\ Return(Exc, FALSE)
  /\ UNCHANGED <<objValue, heap, fail, interrupt, catchable>>

LocInit ==
  /\ InLambda("init") /\ NPar(Top) < Top.k /\ Top.k <= NPar(Top) + NLoc(Top) /\ ~fail
  /\ LET l == Locals[Top.fn][Top.k - NPar(Top)]
     IN  \E outcome \in PossibleOutcomes :
           /\ CreateLocalObject(l, outcome, heap)
           /\ stack' = SetTop([Top EXCEPT !.k = @ + 1, !.backup[l] = objValue[l]])

\* exec_lambda after loc_init: likewise; the locals are not restored.
LocInitInterrupted ==
  /\ InLambda("init") /\ Top.k > NPar(Top) + 1 /\ fail
  /\ stack' = SetTop([Top EXCEPT !.phase = "par_restore", !.result = Exc])
  /\ UNCHANGED <<objValue, heap, fail, interrupt, catchable>>

LocalsReady == InLambda("init") /\ Top.k = NPar(Top) + NLoc(Top) + 1 /\ ~fail

ResInit ==
  /\ LocalsReady
  /\ LET r == ResultOf[Top.fn]
     IN  \/ /\ r = Null
            /\ stack' = SetTop([Top EXCEPT !.phase = "body"])
            /\ UNCHANGED <<objValue, heap, fail, interrupt, catchable>>
         \/ /\ r # Null
            /\ CreateLocalObject(r, "ok", heap) /\ "ok" \in CreateOutcomes
            /\ stack' = SetTop([Top EXCEPT !.phase = "body", !.backup[r] = objValue[r]])

\* res_init returns FALSE: MEMORY_ERROR is raised, the locals and parameters are
\* restored, the result is not.
ResInitFails ==
  /\ LocalsReady
  /\ LET r == ResultOf[Top.fn]
     IN  /\ r # Null
         /\ \E outcome \in CreateOutcomes \ {"ok"} :
              IF outcome = "no_object" THEN UNCHANGED <<objValue, heap>>
              ELSE /\ FreeOids # {}
                   /\ objValue' = [objValue EXCEPT ![r] = NewObj]
                   /\ heap' = [heap EXCEPT ![NewObj] = "plain"]
         /\ stack' = SetTop([Top EXCEPT !.phase = "loc_restore", !.result = Exc,
                                        !.backup[r] = objValue[r]])
  /\ fail' = TRUE /\ interrupt' = TRUE
  /\ UNCHANGED catchable

\* res_restore of a function with a result variable: its value becomes the
\* temporary result, or is dumped when the body raised an exception.
ResRestoreVar ==
  /\ InLambda("res_restore")
  /\ LET r == ResultOf[Top.fn]
     IN  /\ r # Null
         /\ heap' = [heap EXCEPT ![objValue[r]] = IF fail THEN "free" ELSE "temp"]
         /\ stack' = SetTop([Top EXCEPT !.phase = "loc_restore",
                                        !.result = IF fail THEN @ ELSE objValue[r]])
         /\ objValue' = [objValue EXCEPT ![r] = Top.backup[r]]
  /\ UNCHANGED <<fail, interrupt, catchable>>

\* Mutant: the value of an expression is returned as it is.
NeverCopied(fr) == FALSE

\* Empty and Exc are enumeration literals, which are never copied.
NeedsCopy(fr) ==
  fr.fn \notin Procs /\ heap[fr.result] # "temp" /\ fr.result \notin {Empty, Exc}

\* res_restore of other functions: a result that is not temporary is copied.
ResRestoreCopy ==
  /\ InLambda("res_restore") /\ ResultOf[Top.fn] = Null /\ NeedsCopy(Top)
  /\ FreeOids # {} /\ PossibleOutcomes \ {"no_object"} # {}
  /\ fail' = FALSE /\ interrupt' = FALSE
  /\ heap' = [heap EXCEPT ![NewObj] = "temp"]
  /\ stack' = SetTop([Top EXCEPT !.phase = "loc_restore", !.result = NewObj])
  /\ UNCHANGED <<objValue, catchable>>

ResRestoreKeep ==
  /\ InLambda("res_restore") /\ ResultOf[Top.fn] = Null /\ ~NeedsCopy(Top)
  /\ stack' = SetTop([Top EXCEPT !.phase = "loc_restore"])
  /\ UNCHANGED <<objValue, heap, fail, interrupt, catchable>>

\* The positions that a restore loop over 1..n cleans up: all of them, unless
\* destroy calls raise.  Then, when an exception is being propagated (fail state
\* saved, errors ignored), any subset; otherwise those before the first failure.
CleanedUp(n) ==
  IF ~DestroyRaises THEN {1..n}
  ELSE IF fail THEN SUBSET (1..n) ELSE {1..d : d \in 0..n}

\* Mutants: the saved exception is forgotten, or restoreFailState does not set
\* interrupt_flag.
FailStateLost(failed) == fail' = failed /\ interrupt' = failed
InterruptFlagLost(failed) == fail' = (fail \/ failed) /\ interrupt' = failed

\* saveFailState/restoreFailState or the failed destroy call; a suspended signal
\* may have been shown by the action of a destroy call.
AfterDestroy(failed) ==
  /\ fail' = (fail \/ failed)
  /\ interrupt' \in IF fail \/ failed THEN {TRUE} ELSE {interrupt, FALSE}

LocRestore ==
  /\ InLambda("loc_restore")
  /\ LET locals == Locals[Top.fn]
     IN  /\ \E D \in CleanedUp(NLoc(Top)) :
              /\ heap' = Freed(heap, {objValue[locals[j]] : j \in D})
              /\ AfterDestroy(D # 1..NLoc(Top))
         /\ objValue' = [s \in Slot |-> IF s \in RangeOf(locals) THEN Top.backup[s]
                                                               ELSE objValue[s]]
  /\ stack' = SetTop([Top EXCEPT !.phase = "par_restore"])
  /\ UNCHANGED catchable

\* par_restore destroys value parameters and dumps temporaries bound to reference
\* parameters.  It is the last step of exec_lambda.
ParRestore ==
  /\ InLambda("par_restore")
  /\ LET params == Params[Top.fn]
         Garbage(j) == IF params[j] \in RefParams THEN Top.evald[j] ELSE objValue[params[j]]
     IN  /\ \E D \in CleanedUp(NPar(Top)) :
              /\ heap' = Freed(heap, {Garbage(j) : j \in D})
              /\ AfterDestroy(D # 1..NPar(Top))
         /\ objValue' = [s \in Slot |-> IF s \in RangeOf(params) THEN Top.backup[s]
                                                               ELSE objValue[s]]
  /\ Return(Top.result, heap[Top.result] = "temp")
  /\ UNCHANGED catchable

-----------------------------------------------------------------------------
(* exec_action, prc_block, prc_while and prc_repeat *)

\* Mutant: dump_arg_list is not called.
NotDumped(fr) == {}

ActionTemps(fr) == {fr.evald[i] : i \in {j \in DOMAIN fr.evald \cap fr.bits :
                                            heap[fr.evald[j]] = "temp"}}

Evaluated == stack # <<>> /\ Top.phase = "args" /\ (fail \/ Len(Top.evald) = Top.arity)
AtAction == Evaluated /\ Top.kind \notin {"lambda", "data"}

\* exec_action looks at interrupt_flag only, which is set by exceptions, too.
ActionStarts ==
  /\ AtAction /\ ~interrupt
  /\ stack' = SetTop([Top EXCEPT !.phase = "run"])
  /\ UNCHANGED <<objValue, heap, fail, interrupt, catchable>>

\* show_signal: the program continues, or the dialog raises an exception; the
\* decision "#" (trace) raises one that cannot be caught.
ShowSignal ==
  /\ AtAction /\ interrupt /\ ~fail
  /\ \E decision \in Decisions :
       /\ interrupt' = (decision # "continue") /\ fail' = (decision # "continue")
       /\ catchable' = (catchable /\ decision # "trace")
       /\ stack' = IF decision = "continue" THEN SetTop([Top EXCEPT !.phase = "run"]) ELSE stack
  /\ UNCHANGED <<objValue, heap>>

ActionFails ==
  /\ AtAction /\ interrupt /\ fail
  /\ heap' = Freed(heap, ActionTemps(Top))
  /\ Return(Exc, FALSE)
  /\ UNCHANGED <<objValue, fail, interrupt, catchable>>

Running(kind) == stack # <<>> /\ Top.kind = kind /\ Top.phase = "run"

\* A primitive action delivers a new temporary object, ...
ActionReturnsTemp ==
  /\ Running("action") /\ Top.sort = "value" /\ FreeOids # {}
  /\ heap' = [Freed(heap, ActionTemps(Top)) EXCEPT ![NewObj] = "temp"]
  /\ Return(NewObj, TRUE)
  /\ UNCHANGED <<objValue, fail, interrupt, catchable>>

\* ... or (part of) an argument that is not temporary, such as a struct element, ...
ActionReturnsArgument ==
  /\ Running("action") /\ Top.sort = "value"
  /\ \E i \in DOMAIN Top.evald \ Top.bits : Return(Top.evald[i], FALSE)
  /\ heap' = Freed(heap, ActionTemps(Top))
  /\ UNCHANGED <<objValue, fail, interrupt, catchable>>

\* ... or SYS_EMPTY_OBJECT when it is a statement, ...
ActionReturnsEmpty ==
  /\ Running("action") /\ Top.sort = "proc"
  /\ heap' = Freed(heap, ActionTemps(Top))
  /\ Return(Empty, FALSE)
  /\ UNCHANGED <<objValue, fail, interrupt, catchable>>

\* ... or raises an exception.
ActionRaises ==
  /\ Running("action")
  /\ heap' = Freed(heap, ActionTemps(Top))
  /\ fail' = TRUE /\ interrupt' = TRUE
  /\ Return(Exc, FALSE)
  /\ UNCHANGED <<objValue, catchable>>

\* exec_all_parameters: what is called is not a function.  The values of the arguments are
\* not used, and the temporary ones are not dumped.  The object is delivered instead of
\* fail_value also when an exception has ended the evaluation of the arguments.
DataReturned ==
  /\ Evaluated /\ Top.kind = "data"
  /\ heap' = Leaked(heap, ActionTemps(Top))
  /\ \E o \in IF Top.sort = "value" THEN Globals ELSE {Empty} : Return(o, FALSE)
  /\ UNCHANGED <<objValue, fail, interrupt, catchable>>

BlockBody ==
  /\ Running("block")
  /\ stack' = SetTop([Top EXCEPT !.phase = "body"])
  /\ UNCHANGED <<objValue, heap, fail, interrupt, catchable>>

InBlock(phase) == stack # <<>> /\ Top.kind = "block" /\ Top.phase = phase

\* The exception is that of a handler, or there is an otherwise part.
Catch ==
  /\ InBlock("catch") /\ fail /\ catchable
  /\ stack' = SetTop([Top EXCEPT !.phase = "handler"])
  /\ fail' = FALSE /\ interrupt' = FALSE      \* leaveExceptionHandling
  /\ UNCHANGED <<objValue, heap, catchable>>

\* No exception, or no handler for it, or the handler was executed.
BlockReturns ==
  /\ InBlock("catch") \/ InBlock("done")
  /\ Return(Empty, FALSE)
  /\ UNCHANGED <<objValue, heap, fail, interrupt, catchable>>

\* prc_while begins with the condition, prc_repeat with the statement.
LoopStarts ==
  /\ Running("loop")
  /\ \E phase \in {"cond", "body"} : stack' = SetTop([Top EXCEPT !.phase = phase])
  /\ UNCHANGED <<objValue, heap, fail, interrupt, catchable>>

\* Mutant: the loops do not look at fail_flag.
GoesOnAnyway == TRUE

GoesOn == ~fail

InLoop(phase) == stack # <<>> /\ Top.kind = "loop" /\ Top.phase = phase

\* The value of the condition, often a temporary, decides whether the statement is
\* executed (again).
LoopTest ==
  /\ InLoop("test") /\ GoesOn
  /\ heap' = IF heap[Top.result] = "temp" THEN Freed(heap, {Top.result}) ELSE heap
  /\ \/ stack' = SetTop([Top EXCEPT !.phase = "body", !.result = Null])
     \/ Return(Empty, FALSE)
  /\ UNCHANGED <<objValue, fail, interrupt, catchable>>

LoopAgain ==
  /\ InLoop("again") /\ GoesOn
  /\ stack' = SetTop([Top EXCEPT !.phase = "cond"])
  /\ UNCHANGED <<objValue, heap, fail, interrupt, catchable>>

LoopFails ==
  /\ InLoop("test") \/ InLoop("again")
  /\ ~GoesOn
  /\ Return(Empty, FALSE)
  /\ UNCHANGED <<objValue, heap, fail, interrupt, catchable>>

-----------------------------------------------------------------------------
(* Signals with option -ts *)

\* doSuspendInterpreter
Signal ==
  /\ stack # <<>> /\ ~interrupt
  /\ interrupt' = TRUE
  /\ UNCHANGED <<stack, objValue, heap, fail, catchable>>

\* The dialog in the signal handler raises an exception.
SignalRaises ==
  /\ AsyncRaise /\ stack # <<>> /\ ~fail
  /\ fail' = TRUE /\ interrupt' = TRUE
  /\ UNCHANGED <<stack, objValue, heap, catchable>>

-----------------------------------------------------------------------------

\* interpret clears fail_flag and evaluates main_object.
Init ==
  /\ objValue = InitValue
  /\ heap = [o \in Oid |-> IF o \in Globals THEN "plain" ELSE "free"]
  /\ \E main \in Callees(1, "proc") : stack = <<main>>
  /\ fail = FALSE /\ interrupt = FALSE /\ catchable = TRUE

Lambda ==
  \/ ParInitFails \/ ParInitEvaluated \/ BindTemp \/ BindRef \/ BindValue
  \/ ParInitInterrupted \/ LocInit \/ LocInitInterrupted \/ ResInit \/ ResInitFails
  \/ ResRestoreVar \/ ResRestoreCopy \/ ResRestoreKeep \/ LocRestore \/ ParRestore

Action ==
  \/ ActionStarts \/ ShowSignal \/ ActionFails
  \/ ActionReturnsTemp \/ ActionReturnsArgument \/ ActionReturnsEmpty \/ ActionRaises
  \/ DataReturned \/ BlockBody \/ Catch \/ BlockReturns
  \/ LoopStarts \/ LoopTest \/ LoopAgain \/ LoopFails

Interpreter == EvalLeaf \/ Call \/ Lambda \/ Action

\* The program has ended; s7.c reports an exception that is still raised.
Terminated == stack = <<>> /\ UNCHANGED vars

Next == Interpreter \/ Signal \/ SignalRaises \/ Terminated

Spec == Init /\ [][Next]_vars

\* The interpreter is a sequential program that never waits: it always goes on.
FairSpec == Spec /\ WF_vars(Interpreter)

-----------------------------------------------------------------------------
(* Properties *)

\* The formals whose objValue belongs to this activation; it has saved the value
\* that belongs to the activations below it.
Bound(fr) ==
  IF fr.kind # "lambda" \/ fr.phase = "args" THEN {}
  ELSE LET params == Params[fr.fn]
           locals == Locals[fr.fn]
       IN  CASE fr.phase = "init" ->
                  {params[i] : i \in {j \in DOMAIN params : j < fr.k}}
                  \cup {locals[i] : i \in {j \in DOMAIN locals : Len(params) + j < fr.k}}
             [] fr.phase = "loc_restore" -> RangeOf(params) \cup RangeOf(locals)
             [] fr.phase = "par_restore" -> RangeOf(params)
             [] OTHER -> Formals(fr.fn)

TypeOK ==
  /\ stack \in Seq(Frame)
  /\ objValue \in [Slot -> Ref]
  /\ heap \in [Oid -> {"free", "plain", "temp", "temp2", "leaked"}]
  /\ fail \in BOOLEAN /\ interrupt \in BOOLEAN /\ catchable \in BOOLEAN

\* The evaluated arguments that are still needed: those of an action, those not yet
\* bound, and those that par_restore dumps.
Held(fr) == {j \in DOMAIN fr.evald : fr.kind # "lambda" \/ j >= fr.k
                                     \/ Params[fr.fn][j] \in RefParams}

\* Whatever the interpreter still refers to - the values of formals, the values
\* saved by the activations, evaluated arguments and results - is not freed (nor counted
\* as leaked).
NoDangling ==
  LET Live(o) == o = Null \/ heap[o] \notin {"free", "leaked"}
  IN  /\ \A s \in Slot : Live(objValue[s])
      /\ \A i \in DOMAIN stack :
           LET fr == stack[i]
           IN  /\ \A j \in Held(fr) : Live(fr.evald[j])
               /\ \A s \in Bound(fr) : Live(fr.backup[s])
               /\ Live(fr.result)

\* The value of formal s in the activation i: in objValue, unless an activation
\* above it has saved it.
ValueIn(i, s) ==
  LET above == {j \in i+1..Len(stack) : s \in Bound(stack[j])}
  IN  IF above = {} THEN objValue[s]
      ELSE stack[CHOOSE j \in above : \A n \in above : j <= n].backup[s]

\* The places that are responsible for freeing the object o: a value parameter,
\* local variable or result of an activation, an entry of a list of evaluated
\* parameters that is temporary, or a temporary result.
Owners(o) ==
  LET Pending(fr) == IF fr.kind = "lambda"
                     THEN {j \in Held(fr) : j < fr.k \/ heap[o] = "temp"}
                     ELSE fr.bits
  IN  UNION {{<<i, s>> : s \in {t \in Bound(stack[i]) \ RefParams : ValueIn(i, t) = o}}
             \cup {<<i, j>> : j \in {n \in Pending(stack[i]) : stack[i].evald[n] = o}}
             \cup (IF stack[i].result = o /\ heap[o] = "temp" THEN {<<i, 0>>} ELSE {})
             : i \in DOMAIN stack}

\* Every object in use that is not global is freed by exactly one place, so nothing is
\* freed twice and, as no place is left at the end, only the objects marked "leaked" are
\* leaked: temporary arguments of a call of something that is not a function.  Those have no
\* owner: exec_all_parameters was the only one, and drops them.
OneOwner ==
  \A o \in Oid : Cardinality(Owners(o)) =
                    IF o \in Globals \/ heap[o] \in {"free", "leaked"} THEN 0 ELSE 1

\* An action is executed, and parameters are bound, with all arguments evaluated,
\* although exec_action decides by interrupt_flag whether an exception ended the
\* evaluation early.
CompleteArguments ==
  \A i \in DOMAIN stack : stack[i].phase # "args" => Len(stack[i].evald) = stack[i].arity

\* objValue when the activation above i began; for the innermost activation, now.
Now(i) == IF i = Len(stack) THEN objValue ELSE stack[i + 1].entry

\* An activation has either bound a formal, and saved the value it had when the call
\* began, or the formal still has that value.
Shallow(fr, now) ==
  \A s \in Slot : IF s \in Bound(fr) THEN fr.backup[s] = fr.entry[s] ELSE now[s] = fr.entry[s]

\* Shallow binding is a stack discipline: what par_init, loc_init and res_init saved is
\* what the activation needs to restore, in every activation at every time.
ShallowBinding == \A i \in DOMAIN stack : Shallow(stack[i], Now(i))

\* A call leaves every formal object as it was when the call began: recursive
\* activations and exceptions never disturb the variables of the caller.
RestoredOnReturn ==
  [][Len(stack') < Len(stack) => objValue' = Top.entry]_vars

\* The function delivers an object that was called like a function.
ReturnsData == InLambda("res_restore") /\ Top.result \in Globals \ {Empty, Exc}

\* An exception ends only in a handler: the destructions and copies that are done while
\* it is propagated do not discard it, with one exception.  When it was raised by an argument
\* of something that is not a function, and the function that is left delivers this object,
\* the create call of create_return_object fails and its error is cleared.
ExceptionKept ==
  [][fail /\ ~fail' => InBlock("catch") \/ ReturnsData]_vars

\* An exception is propagated until a handler is found or the program ends.
Unwinds == fail ~> (~fail \/ stack = <<>>)

-----------------------------------------------------------------------------
(* Refinement of DeepBinding *)

Environment ==
  [i \in DOMAIN stack |-> [s \in Bound(stack[i]) |-> ValueIn(i, s)]]

Deep == INSTANCE DeepBinding WITH Name <- Slot, Val <- Oid, Outside <- InitValue,
                                  env <- Environment, view <- objValue

\* Shallow binding behaves as if every activation had its own variables.
DeepSpec == Deep!Spec
=============================================================================
