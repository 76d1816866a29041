--------------------------- MODULE CatchStack ---------------------------
(***************************************************************************)
(* The targets of the longjmp that reports a stack overflow or an          *)
(* unrecoverable lack of memory in the interpreter (no_memory in           *)
(* heaputl.c).  A C function that can receive it pushes a jmp_buf on       *)
(* catch_stack and removes it when the protected evaluation has ended:     *)
(* main (s7.c), analyzeProg, interpret and the prc_block actions.  Such    *)
(* functions nest: a program may parse and execute other programs.         *)
(*                                                                         *)
(* A jmp_buf is modelled by the depth of the C function that filled it; it *)
(* becomes Stale when that function returns.                               *)
(***************************************************************************)
EXTENDS Integers, Sequences

CONSTANTS
  ResizeFailsIn,   \* kinds of functions in which the resizing of catch_stack may fail
  InitialSize,     \* INITIAL_CATCH_STACK_SIZE
  MaxCalls,        \* bound: nested protected functions
  MaxSize          \* bound: max_catch_stack (more memory cannot be allocated)

VARIABLES
  calls,           \* C functions that can receive a longjmp, innermost last
  catch_stack,     \* [0 .. max_catch_stack - 1 -> depth of a call, or Stale]
  catch_stack_pos,
  max_catch_stack

vars == <<calls, catch_stack, catch_stack_pos, max_catch_stack>>

Kind == {"analyze", "interpret", "block"}
Stale == 0

ASSUME BoundsAssumption ==
  /\ ResizeFailsIn \subseteq Kind
  /\ InitialSize \in Nat \ {0} /\ MaxCalls \in Nat \ {0} /\ MaxSize \in Nat
  /\ InitialSize <= MaxSize

\* A function executes its protected part, or (a block) a handler.
Call == [kind : Kind \cup {"main"}, protected : BOOLEAN]

TypeOK ==
  /\ calls \in Seq(Call)
  /\ max_catch_stack \in Nat \ {0}
  /\ catch_stack \in [0..max_catch_stack - 1 -> 0..MaxCalls]
  /\ catch_stack_pos \in Nat

Init ==
  /\ calls = <<[kind |-> "main", protected |-> TRUE]>>
  /\ max_catch_stack = InitialSize
  /\ catch_stack_pos = 0
  /\ catch_stack = [p \in 0..InitialSize - 1 |-> IF p = 0 THEN 1 ELSE Stale]

Depth == Len(calls)
Top == calls[Depth]

\* The frames of the calls at this depth and above are gone.
Forget(depth) == [p \in DOMAIN catch_stack |->
                    IF catch_stack[p] >= depth THEN Stale ELSE catch_stack[p]]

\* The jmp_buf at this position is filled by setjmp in the new innermost function.
Enter(kind, pos, stack) ==
  /\ catch_stack_pos' = pos
  /\ catch_stack' = [stack EXCEPT ![pos] = Depth + 1]
  /\ calls' = Append(calls, [kind |-> kind, protected |-> TRUE])

EnterInSpace(kind) ==
  /\ Depth < MaxCalls
  /\ catch_stack_pos + 1 < max_catch_stack
  /\ Enter(kind, catch_stack_pos + 1, catch_stack)
  /\ UNCHANGED max_catch_stack

\* resizeCatchStackOkay doubles the catch stack.
EnterAfterResize(kind) ==
  /\ Depth < MaxCalls
  /\ catch_stack_pos + 1 >= max_catch_stack
  /\ 2 * max_catch_stack <= MaxSize
  /\ max_catch_stack' = 2 * max_catch_stack
  /\ Enter(kind, catch_stack_pos + 1,
           [p \in 0..2 * max_catch_stack - 1 |->
              IF p < max_catch_stack THEN catch_stack[p] ELSE Stale])

\* Mutant: the increment is not undone.
PosIncremented == catch_stack_pos + 1

\* When realloc fails, resizeCatchStackOkay undoes the increment of the position.
PosAfterFailedResize == (catch_stack_pos + 1) - 1

\* Mutant: a block decrements the position again, as analyzeProg does.
PosDecrementedAgain(kind) == PosAfterFailedResize - 1

\* A block and interpret raise MEMORY_ERROR and return; analyzeProg goes on to its
\* error handling and to the removal of the jmp_buf.
PosAfterFailedEnter(kind) ==
  IF kind = "analyze" THEN PosAfterFailedResize - 1 ELSE PosAfterFailedResize

EnterFails(kind) ==
  /\ kind \in ResizeFailsIn
  /\ catch_stack_pos + 1 >= max_catch_stack
  /\ catch_stack_pos' = PosAfterFailedEnter(kind)
  /\ UNCHANGED <<calls, catch_stack, max_catch_stack>>

PosAfterEvaluation == catch_stack_pos - 1

\* The evaluation in the protected part has ended; a block goes on with a handler
\* when there is an exception.
EndProtected ==
  /\ Depth > 1 /\ Top.protected
  /\ catch_stack_pos' = PosAfterEvaluation
  /\ \/ /\ calls' = SubSeq(calls, 1, Depth - 1)
        /\ catch_stack' = Forget(Depth)
     \/ /\ Top.kind = "block"
        /\ calls' = [calls EXCEPT ![Depth].protected = FALSE]
        /\ UNCHANGED catch_stack
  /\ UNCHANGED max_catch_stack

HandlerEnds ==
  /\ Depth > 1 /\ ~Top.protected
  /\ calls' = SubSeq(calls, 1, Depth - 1)
  /\ catch_stack' = Forget(Depth)
  /\ UNCHANGED <<catch_stack_pos, max_catch_stack>>

Target == catch_stack[catch_stack_pos]

\* no_memory: everything above the function that receives the longjmp is left; it
\* removes its jmp_buf and returns, or executes a handler for MEMORY_ERROR.
NoMemory ==
  /\ catch_stack_pos \in DOMAIN catch_stack
  /\ Target # Stale /\ Target <= Depth
  /\ calls[Target].kind # "main"
  /\ catch_stack_pos' = PosAfterEvaluation
  /\ \/ /\ calls' = SubSeq(calls, 1, Target - 1)
        /\ catch_stack' = Forget(Target)
     \/ /\ calls[Target].kind = "block"
        /\ calls' = [SubSeq(calls, 1, Target) EXCEPT ![Target].protected = FALSE]
        /\ catch_stack' = Forget(Target + 1)
  /\ UNCHANGED max_catch_stack

Next ==
  \/ \E kind \in Kind : EnterInSpace(kind) \/ EnterAfterResize(kind) \/ EnterFails(kind)
  \/ EndProtected \/ HandlerEnds \/ NoMemory

Spec == Init /\ [][Next]_vars

-----------------------------------------------------------------------------

\* A longjmp continues in the innermost function that is executing its protected
\* part: never in a function that has returned, in a handler, or further out.
TargetIsInnermost ==
  LET protected == {d \in 1..Depth : calls[d].protected}
  IN  /\ catch_stack_pos \in DOMAIN catch_stack
      /\ Target \in protected
      /\ \A d \in protected : d <= Target

\* What chlog.txt says of catch_stack: it maintains the targets of the longjmp.  The
\* innermost call is, if protected, the target.
TargetsMaintained ==
  Top.protected => catch_stack_pos \in DOMAIN catch_stack /\ Target = Depth

\* A longjmp leaves only calls above its target and handlers: the longjmp for a
\* block that was protected does not skip it.
InnermostReceives ==
  [][Len(calls') < Depth - 1 =>
       \A d \in Len(calls') + 2..Depth : ~calls[d].protected]_vars
=============================================================================
