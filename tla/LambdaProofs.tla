-------------------------- MODULE LambdaProofs --------------------------
(***************************************************************************)
(* Proofs about Lambda for every program and every value of the constants: *)
(* type correctness, that nothing is executed with missing arguments, that *)
(* calls restore the formal objects of their caller, that every object has *)
(* one owner and nothing freed is referred to, that exceptions are kept,   *)
(* and that shallow binding implements DeepBinding.                        *)
(***************************************************************************)
EXTENDS Lambda, FiniteSetTheorems, TLAPS

-----------------------------------------------------------------------------
(* The inductive invariants *)

FrameOK(fr) ==
  /\ Len(fr.evald) <= fr.arity
  /\ fr.phase # "args" => Len(fr.evald) = fr.arity
  /\ fr.k >= 1 /\ (fr.phase = "args" => fr.k = 1)
  /\ fr.kind = "lambda" =>
       /\ fr.fn \in Fun
       /\ fr.arity = NPar(fr)
       /\ fr.phase = "init" => fr.k <= NPar(fr) + NLoc(fr) + 1

\* An activation below another one waits for the value of an expression.
Waiting(fr) ==
  /\ fr.phase = "args" => Len(fr.evald) < fr.arity
  /\ fr.kind = "lambda" => fr.phase \in {"args", "body"}

WellFormed ==
  \A i \in 1..Len(stack) : FrameOK(stack[i]) /\ (i < Len(stack) => Waiting(stack[i]))

\* exec_action tests interrupt_flag only: an exception must have set it, too.
InterruptSet == fail => interrupt

TypeInv == TypeOK /\ WellFormed /\ InterruptSet

-----------------------------------------------------------------------------
(* Activations *)

\* The call mechanism uses the parameters and locals of a function by position.
LEMMA FormalsTyped ==
  ASSUME NEW f \in Fun
  PROVE  /\ Params[f] \in Seq(Slot) /\ Locals[f] \in Seq(Slot)
         /\ Len(Params[f]) \in Nat /\ Len(Locals[f]) \in Nat
         /\ \A j \in 1..Len(Params[f]) : Params[f][j] \in Slot
         /\ \A j \in 1..Len(Locals[f]) : Locals[f][j] \in Slot
         /\ ResultOf[f] # Null => ResultOf[f] \in Slot
  BY ConstantsAssumption

\* The result of an evaluation is recorded in an activation by exec_lambda,
\* exec_action and the prc_ functions without disturbing its shape.
LEMMA ReceiveTyped ==
  ASSUME NEW fr \in Frame, FrameOK(fr), Waiting(fr), NEW o \in Ref, NEW t \in BOOLEAN
  PROVE  Receive(fr, o, t) \in Frame /\ FrameOK(Receive(fr, o, t))
  <1> DEFINE new == Receive(fr, o, t)
  <1>0. /\ fr.evald \in Seq(Ref) /\ Len(fr.evald) \in Nat /\ fr.bits \in SUBSET Nat
        /\ fr.arity \in Nat /\ fr.k \in Nat
    BY DEF Frame
  <1>1. CASE fr.phase = "args"
    <2>1. new = [fr EXCEPT !.evald = Append(@, o),
                           !.bits = IF t THEN @ \cup {Len(fr.evald) + 1} ELSE @]
      BY <1>1 DEF Receive
    <2>2. Append(fr.evald, o) \in Seq(Ref) /\ Len(Append(fr.evald, o)) = Len(fr.evald) + 1
      BY <1>0
    <2>3. (IF t THEN fr.bits \cup {Len(fr.evald) + 1} ELSE fr.bits) \in SUBSET Nat
      BY <1>0
    <2>4. new \in Frame
      BY <2>1, <2>2, <2>3 DEF Frame
    <2>5. /\ new.evald = Append(fr.evald, o) /\ new.phase = "args" /\ new.k = fr.k
          /\ new.kind = fr.kind /\ new.fn = fr.fn /\ new.arity = fr.arity
      BY <2>1, <1>1 DEF Frame
    <2>6. FrameOK(new)
      BY <2>5, <2>2, <1>0, <1>1 DEF FrameOK, Waiting, NPar, NLoc
    <2> QED BY <2>4, <2>6
  <1>2. CASE fr.phase # "args"
    <2>1. /\ new \in Frame
          /\ new.evald = fr.evald /\ new.phase \notin {"args", "init"} /\ new.k = fr.k
          /\ new.kind = fr.kind /\ new.fn = fr.fn /\ new.arity = fr.arity
      BY <1>2, ZenonT(60) DEF Receive, Frame, Phase
    <2> QED BY <2>1, <1>2 DEF FrameOK, NPar, NLoc
  <1> QED BY <1>1, <1>2

\* A step that changes the innermost activation only.
LEMMA SetTopTyped ==
  ASSUME TypeOK, WellFormed, stack # <<>>, NEW fr \in Frame, FrameOK(fr), stack' = SetTop(fr)
  PROVE  stack' \in Seq(Frame) /\ WellFormed'
  <1>1. stack \in Seq(Frame) /\ Len(stack) \in Nat /\ Len(stack) >= 1
    BY DEF TypeOK
  <1>2. /\ stack' \in Seq(Frame) /\ Len(stack') = Len(stack)
        /\ \A i \in 1..Len(stack) : stack'[i] = IF i = Len(stack) THEN fr ELSE stack[i]
    BY <1>1 DEF SetTop
  <1> QED BY <1>1, <1>2 DEF WellFormed

\* exec_call: the innermost activation waits for a new one.
LEMMA AppendTyped ==
  ASSUME TypeOK, WellFormed, stack # <<>>,
         NEW fr \in Frame, FrameOK(fr), Waiting(fr), NEW callee \in Frame, FrameOK(callee),
         stack' = Append(SetTop(fr), callee)
  PROVE  stack' \in Seq(Frame) /\ WellFormed'
  <1>1. stack \in Seq(Frame) /\ Len(stack) \in Nat /\ Len(stack) >= 1
    BY DEF TypeOK
  <1>2. /\ SetTop(fr) \in Seq(Frame) /\ Len(SetTop(fr)) = Len(stack)
        /\ \A i \in 1..Len(stack) : SetTop(fr)[i] = IF i = Len(stack) THEN fr ELSE stack[i]
    BY <1>1 DEF SetTop
  <1>3. /\ stack' \in Seq(Frame) /\ Len(stack') = Len(stack) + 1
        /\ stack'[Len(stack) + 1] = callee
        /\ \A i \in 1..Len(stack) : stack'[i] = IF i = Len(stack) THEN fr ELSE stack[i]
    BY <1>1, <1>2
  <1> QED BY <1>1, <1>3 DEF WellFormed

LEMMA OneOrMore == \A n \in Nat : n >= 1 => n = 1 \/ n >= 2
  OBVIOUS

LEMMA TwoIsNotOne == \A n \in Nat : n >= 2 => ~(n = 1)
  OBVIOUS

\* The innermost activation ends and its caller receives the result.
LEMMA ReturnShape ==
  ASSUME TypeOK, stack # <<>>, NEW o, NEW t, Return(o, t)
  PROVE  \/ Len(stack) = 1 /\ stack' = <<>>
         \/ /\ Len(stack) >= 2 /\ Len(stack') = Len(stack) - 1
            /\ stack' = [Below EXCEPT ![Len(stack) - 1] = Receive(Caller, o, t)]
            /\ stack'[Len(stack) - 1] = Receive(Caller, o, t)
            /\ \A i \in 1..Len(stack) - 2 : stack'[i] = stack[i]
  <1>1. stack \in Seq(Frame) /\ Len(stack) \in Nat /\ Len(stack) >= 1
    BY DEF TypeOK
  <1>2. CASE Len(stack) = 1
    BY <1>2 DEF Return
  <1>3. CASE Len(stack) >= 2
    <2>1. /\ Below \in Seq(Frame) /\ Len(Below) = Len(stack) - 1
          /\ \A i \in 1..Len(stack) - 1 : Below[i] = stack[i]
      BY <1>1, <1>3 DEF Below
    <2>2. stack' = [Below EXCEPT ![Len(stack) - 1] = Receive(Caller, o, t)]
      BY <1>3, <1>1, TwoIsNotOne DEF Return
    <2> QED BY <1>1, <1>3, <2>1, <2>2
  <1> QED BY <1>1, <1>2, <1>3, OneOrMore

LEMMA ReturnTyped ==
  ASSUME TypeOK, WellFormed, stack # <<>>, NEW o \in Ref, NEW t \in BOOLEAN, Return(o, t)
  PROVE  stack' \in Seq(Frame) /\ WellFormed'
  <1>1. stack \in Seq(Frame) /\ Len(stack) \in Nat /\ Len(stack) >= 1
    BY DEF TypeOK
  <1>2. CASE Len(stack) = 1 /\ stack' = <<>>
    BY <1>2 DEF WellFormed
  <1>3. CASE Len(stack) >= 2
    <2>1. /\ Len(stack') = Len(stack) - 1
          /\ stack' = [Below EXCEPT ![Len(stack) - 1] = Receive(Caller, o, t)]
          /\ stack'[Len(stack) - 1] = Receive(Caller, o, t)
          /\ \A i \in 1..Len(stack) - 2 : stack'[i] = stack[i]
      BY <1>1, <1>3, TwoIsNotOne, ReturnShape
    <2>2. Caller \in Frame /\ FrameOK(Caller) /\ Waiting(Caller)
      BY <1>1, <1>3 DEF Caller, WellFormed
    <2>3. Receive(Caller, o, t) \in Frame /\ FrameOK(Receive(Caller, o, t))
      BY <2>2, ReceiveTyped
    <2>4. Below \in Seq(Frame) /\ Len(Below) = Len(stack) - 1
      BY <1>1, <1>3 DEF Below
    <2>5. stack' \in Seq(Frame)
      BY <1>1, <1>3, <2>1, <2>3, <2>4
    <2> QED BY <1>1, <1>3, <2>1, <2>3, <2>5, SMTT(30) DEF WellFormed
  <1> QED BY <1>1, <1>2, <1>3, ReturnShape

-----------------------------------------------------------------------------
(* Type correctness *)

Flags == {"free", "plain", "temp", "temp2", "leaked"}

LEMMA TopTyped ==
  ASSUME TypeInv, stack # <<>>
  PROVE  /\ Top \in Frame /\ FrameOK(Top) /\ Len(stack) \in Nat /\ Len(stack) >= 1
         /\ Top.evald \in Seq(Ref) /\ Len(Top.evald) \in Nat /\ Top.bits \in SUBSET Nat
         /\ Top.k \in Nat /\ Top.arity \in Nat /\ Top.result \in Ref /\ Top.phase \in Phase
         /\ Top.backup \in [Slot -> Ref] /\ Top.entry \in [Slot -> Ref]
  <1>1. stack \in Seq(Frame) /\ Len(stack) \in Nat /\ Len(stack) >= 1
    BY DEF TypeInv, TypeOK
  <1>2. Top \in Frame /\ FrameOK(Top)
    BY <1>1 DEF TypeInv, WellFormed, Top
  <1>3. /\ Top.evald \in Seq(Ref) /\ Top.bits \in SUBSET Nat
        /\ Top.k \in Nat /\ Top.arity \in Nat /\ Top.result \in Ref /\ Top.phase \in Phase
        /\ Top.backup \in [Slot -> Ref] /\ Top.entry \in [Slot -> Ref]
    BY <1>2 DEF Frame
  <1> QED BY <1>1, <1>2, <1>3

LEMMA NewObjTyped == FreeOids # {} => NewObj \in Oid
  BY DEF FreeOids, NewObj

LEMMA FreedTyped ==
  ASSUME NEW h \in [Oid -> Flags], NEW S
  PROVE  Freed(h, S) \in [Oid -> Flags] /\ Leaked(h, S) \in [Oid -> Flags]
  BY DEF Freed, Leaked, Flags

LEMMA GlobalsTyped == Empty \in Ref /\ Exc \in Ref /\ Null \in Ref /\ Globals \subseteq Ref
  BY ConstantsAssumption DEF Ref

\* exec_lambda and the other functions that execute a step of their own: a new
\* phase, counter or result keeps the shape of the activation.
LEMMA StepTyped ==
  ASSUME NEW fr \in Frame, FrameOK(fr), NEW p \in Phase \ {"init", "args"}, NEW r \in Ref,
         fr.phase = "args" => Len(fr.evald) = fr.arity
  PROVE  /\ [fr EXCEPT !.phase = p] \in Frame /\ FrameOK([fr EXCEPT !.phase = p])
         /\ [fr EXCEPT !.phase = p, !.result = r] \in Frame
         /\ FrameOK([fr EXCEPT !.phase = p, !.result = r])
  <1> DEFINE a == [fr EXCEPT !.phase = p]
             b == [fr EXCEPT !.phase = p, !.result = r]
  <1>1. a \in Frame /\ b \in Frame
    BY DEF Frame
  <1>2. /\ a.evald = fr.evald /\ a.phase = p /\ a.k = fr.k /\ a.kind = fr.kind
        /\ a.fn = fr.fn /\ a.arity = fr.arity
        /\ b.evald = fr.evald /\ b.phase = p /\ b.k = fr.k /\ b.kind = fr.kind
        /\ b.fn = fr.fn /\ b.arity = fr.arity
    BY DEF Frame
  <1>3. FrameOK(a)
    BY <1>2 DEF FrameOK, NPar, NLoc
  <1>4. FrameOK(b)
    BY <1>2 DEF FrameOK, NPar, NLoc
  <1> QED BY <1>1, <1>3, <1>4

\* create_local_object binds a formal to a new object, or to none.
LEMMA CreateTyped ==
  ASSUME TypeOK, InterruptSet, NEW slot \in Slot, NEW outcome \in {"ok", "raised", "no_object"},
         NEW h \in [Oid -> Flags], CreateLocalObject(slot, outcome, h)
  PROVE  /\ objValue' \in [Slot -> Ref] /\ heap' \in [Oid -> Flags]
         /\ fail' \in BOOLEAN /\ interrupt' \in BOOLEAN /\ catchable' \in BOOLEAN
         /\ InterruptSet'
  <1>1. CASE outcome = "no_object"
    BY <1>1 DEF CreateLocalObject, TypeOK, InterruptSet
  <1>2. CASE outcome # "no_object"
    <2>1. NewObj \in Oid /\ NewObj \in Ref
      BY <1>2, NewObjTyped DEF CreateLocalObject, Ref
    <2>2. objValue' = [objValue EXCEPT ![slot] = NewObj] /\ heap' = [h EXCEPT ![NewObj] = "plain"]
          /\ fail' = FALSE /\ interrupt' = FALSE /\ catchable' = catchable
      BY <1>2 DEF CreateLocalObject
    <2>3. objValue \in [Slot -> Ref] /\ catchable \in BOOLEAN
      BY DEF TypeOK
    <2> QED BY <2>1, <2>2, <2>3 DEF Flags, InterruptSet
  <1> QED BY <1>1, <1>2

LEMMA AfterDestroyTyped ==
  ASSUME TypeOK, NEW failed \in BOOLEAN, AfterDestroy(failed)
  PROVE  fail' \in BOOLEAN /\ interrupt' \in BOOLEAN /\ InterruptSet'
  BY DEF TypeOK, AfterDestroy, InterruptSet

\* The counter of an activation that binds its formals.
LEMMA CounterTyped ==
  ASSUME NEW fr \in Frame, FrameOK(fr), fr.kind = "lambda", fr.phase = "init",
         NEW n \in Nat, n >= 1, n <= NPar(fr) + NLoc(fr) + 1
  PROVE  [fr EXCEPT !.k = n] \in Frame /\ FrameOK([fr EXCEPT !.k = n])
  <1> DEFINE new == [fr EXCEPT !.k = n]
  <1>1. new \in Frame
    BY DEF Frame
  <1>2. /\ new.evald = fr.evald /\ new.phase = "init" /\ new.k = n /\ new.kind = "lambda"
        /\ new.fn = fr.fn /\ new.arity = fr.arity
    BY DEF Frame
  <1> QED BY <1>1, <1>2 DEF FrameOK, NPar, NLoc

LEMMA ArgumentTyped ==
  ASSUME NEW fr \in Frame, FrameOK(fr), fr.kind = "lambda", fr.phase = "init", NEW w \in Ref,
         fr.k <= NPar(fr)
  PROVE  /\ [fr EXCEPT !.k = @ + 1, !.evald[fr.k] = w] \in Frame
         /\ FrameOK([fr EXCEPT !.k = @ + 1, !.evald[fr.k] = w])
         /\ fr.k \in 1..NPar(fr) /\ fr.evald[fr.k] \in Ref
         /\ Params[fr.fn][fr.k] \in Slot
         /\ fr.k + 1 \in Nat /\ fr.k + 1 <= NPar(fr) + NLoc(fr) + 1
  <1> DEFINE ev == [fr.evald EXCEPT ![fr.k] = w]
             new == [fr EXCEPT !.k = @ + 1, !.evald[fr.k] = w]
  <1>1. /\ fr.evald \in Seq(Ref) /\ fr.k \in Nat /\ fr.arity \in Nat
        /\ Len(fr.evald) = fr.arity /\ fr.arity = NPar(fr) /\ fr.k >= 1 /\ fr.fn \in Fun
    BY DEF Frame, FrameOK
  <1>2. NPar(fr) \in Nat /\ NLoc(fr) \in Nat /\ \A j \in 1..NPar(fr) : Params[fr.fn][j] \in Slot
    BY <1>1, FormalsTyped DEF NPar, NLoc
  <1>3. fr.k \in 1..NPar(fr) /\ fr.k + 1 \in Nat /\ fr.k + 1 <= NPar(fr) + NLoc(fr) + 1
        /\ fr.k + 1 >= 1
    BY <1>1, <1>2
  <1>4. ev \in Seq(Ref) /\ Len(ev) = Len(fr.evald)
    BY <1>1, <1>3
  <1>5. new = [fr EXCEPT !.k = fr.k + 1, !.evald = ev]
    BY DEF Frame
  <1>6. new \in Frame
    BY <1>3, <1>4, <1>5 DEF Frame
  <1>7. /\ new.evald = ev /\ new.phase = "init" /\ new.k = fr.k + 1 /\ new.kind = "lambda"
        /\ new.fn = fr.fn /\ new.arity = fr.arity
    BY <1>5 DEF Frame
  <1>8. FrameOK(new)
    BY <1>1, <1>3, <1>4, <1>7 DEF FrameOK, NPar, NLoc
  <1> QED BY <1>1, <1>2, <1>3, <1>6, <1>8

\* loc_init and res_init save the value of a formal before they bind it.
LEMMA BackupTyped ==
  ASSUME NEW fr \in Frame, FrameOK(fr), NEW s \in Slot, NEW v \in Ref
  PROVE  [fr EXCEPT !.backup[s] = v] \in Frame /\ FrameOK([fr EXCEPT !.backup[s] = v])
  <1> DEFINE new == [fr EXCEPT !.backup[s] = v]
  <1>1. new \in Frame
    BY DEF Frame
  <1>2. /\ new.evald = fr.evald /\ new.phase = fr.phase /\ new.k = fr.k /\ new.kind = fr.kind
        /\ new.fn = fr.fn /\ new.arity = fr.arity
    BY DEF Frame
  <1> QED BY <1>1, <1>2 DEF FrameOK, NPar, NLoc

\* par_init preserves the types.
LEMMA ParInitTyped ==
  ASSUME TypeInv,
         ParInitFails \/ ParInitEvaluated \/ BindTemp \/ BindRef \/ BindValue \/ ParInitInterrupted
  PROVE  TypeInv'
  <1>0. stack # <<>> /\ Top.kind = "lambda" /\ TypeOK /\ WellFormed /\ InterruptSet
    BY DEF TypeInv, ParInitFails, ParInitEvaluated, BindTemp, BindRef, BindValue,
           ParInitInterrupted, InLambda
  <1>1. /\ Top \in Frame /\ FrameOK(Top)
        /\ Top.evald \in Seq(Ref) /\ Len(Top.evald) \in Nat /\ Top.k \in Nat /\ Top.arity \in Nat
    BY <1>0, TopTyped
  <1>2. /\ objValue \in [Slot -> Ref] /\ heap \in [Oid -> Flags]
        /\ fail \in BOOLEAN /\ interrupt \in BOOLEAN /\ catchable \in BOOLEAN /\ InterruptSet
    BY <1>0 DEF TypeOK, Flags
  <1>3. Exc \in Ref /\ Null \in Ref
    BY GlobalsTyped
  <1>4. CASE ParInitFails
    <2>1. heap' \in [Oid -> Flags]
      BY <1>2, <1>4, FreedTyped DEF ParInitFails
    <2>2. stack' \in Seq(Frame) /\ WellFormed'
      BY <1>0, <1>3, <1>4, ReturnTyped DEF ParInitFails
    <2> QED BY <1>2, <1>4, <2>1, <2>2 DEF ParInitFails, TypeInv, TypeOK, Flags, InterruptSet
  <1>5. CASE ParInitEvaluated
    <2> DEFINE fr == [Top EXCEPT !.phase = "init"]
    <2>1. Top.kind = "lambda" /\ Top.phase = "args" /\ Len(Top.evald) = Top.arity
      BY <1>5 DEF ParInitEvaluated, InLambda
    <2>2. fr \in Frame
      BY <1>1 DEF Frame, Phase
    <2>3. /\ fr.evald = Top.evald /\ fr.phase = "init" /\ fr.k = Top.k /\ fr.kind = "lambda"
          /\ fr.fn = Top.fn /\ fr.arity = Top.arity
      BY <1>1, <2>1 DEF Frame
    <2>4. FrameOK(fr)
      <3>1. Top.fn \in Fun /\ Top.k = 1 /\ Top.arity = NPar(Top)
        BY <1>1, <2>1 DEF FrameOK
      <3>2. NPar(fr) = NPar(Top) /\ NPar(fr) \in Nat /\ NLoc(fr) \in Nat
        BY <2>3, <3>1, FormalsTyped DEF NPar, NLoc
      <3>3. fr.k <= NPar(fr) + NLoc(fr) + 1
        BY <2>3, <3>1, <3>2
      <3> QED BY <1>1, <2>1, <2>3, <3>1, <3>2, <3>3 DEF FrameOK
    <2>5. stack' \in Seq(Frame) /\ WellFormed'
      BY <1>0, <1>5, <2>2, <2>4, SetTopTyped DEF ParInitEvaluated
    <2> QED BY <1>2, <1>5, <2>5 DEF ParInitEvaluated, TypeInv, TypeOK, Flags, InterruptSet
  <1>6. ASSUME Top.phase = "init", Top.k <= NPar(Top)
        PROVE  /\ Top.evald[Top.k] \in Ref /\ Params[Top.fn][Top.k] \in Slot
               /\ Top.k + 1 \in Nat /\ Top.k + 1 <= NPar(Top) + NLoc(Top) + 1
               /\ \A w \in Ref : LET fr == [Top EXCEPT !.k = @ + 1, !.evald[Top.k] = w]
                                 IN  fr \in Frame /\ FrameOK(fr)
    BY <1>0, <1>1, <1>6, <1>3, ArgumentTyped
  <1>7. CASE BindTemp
    <2> DEFINE p == Params[Top.fn][Top.k]
               v == Top.evald[Top.k]
               w == IF p \in RefParams THEN v ELSE Null
               fr == [Top EXCEPT !.k = @ + 1, !.evald[Top.k] = w]
    <2>1. Top.phase = "init" /\ Top.k <= NPar(Top)
      BY <1>7 DEF BindTemp, InLambda
    <2>2. v \in Ref /\ w \in Ref /\ p \in Slot /\ fr \in Frame /\ FrameOK(fr)
      BY <1>3, <1>6, <2>1
    <2>3. stack' = SetTop(fr)
      BY <1>7 DEF BindTemp
    <2>4. stack' \in Seq(Frame) /\ WellFormed'
      BY <1>0, <2>2, <2>3, SetTopTyped
    <2>5. objValue' = [objValue EXCEPT ![p] = v] /\ heap' = [heap EXCEPT ![v] = BoundFlag(p)]
          /\ fail' = fail /\ interrupt' = interrupt /\ catchable' = catchable
      BY <1>7 DEF BindTemp
    <2>6. objValue' \in [Slot -> Ref] /\ heap' \in [Oid -> Flags]
      BY <1>2, <2>2, <2>5 DEF BoundFlag, Flags
    <2> QED BY <1>2, <2>4, <2>5, <2>6 DEF TypeInv, TypeOK, Flags, InterruptSet
  <1>8. CASE BindRef
    <2> DEFINE p == Params[Top.fn][Top.k]
               v == Top.evald[Top.k]
               fr == [Top EXCEPT !.k = @ + 1, !.evald[Top.k] = Null]
    <2>1. Top.phase = "init" /\ Top.k <= NPar(Top)
      BY <1>8 DEF BindRef, InLambda
    <2>2. v \in Ref /\ p \in Slot /\ fr \in Frame /\ FrameOK(fr)
      BY <1>3, <1>6, <2>1
    <2>3. stack' = SetTop(fr)
      BY <1>8 DEF BindRef
    <2>4. stack' \in Seq(Frame) /\ WellFormed'
      BY <1>0, <2>2, <2>3, SetTopTyped
    <2>5. objValue' = [objValue EXCEPT ![p] = v] /\ heap' = ClearTemp2(v)
          /\ fail' = fail /\ interrupt' = interrupt /\ catchable' = catchable
      BY <1>8 DEF BindRef
    <2>6. objValue' \in [Slot -> Ref] /\ heap' \in [Oid -> Flags]
      BY <1>2, <2>2, <2>5 DEF ClearTemp2, Flags
    <2> QED BY <1>2, <2>4, <2>5, <2>6 DEF TypeInv, TypeOK, Flags, InterruptSet
  <1>9. CASE BindValue
    <2> DEFINE p == Params[Top.fn][Top.k]
               v == Top.evald[Top.k]
    <2>1. Top.phase = "init" /\ Top.k <= NPar(Top)
      BY <1>9 DEF BindValue, InLambda
    <2>2. p \in Slot /\ NPar(Top) \in Nat /\ NLoc(Top) \in Nat
      BY <1>0, <1>1, <1>6, <2>1, FormalsTyped DEF FrameOK, NPar, NLoc
    <2>3. PICK outcome \in PossibleOutcomes :
              /\ CreateLocalObject(p, outcome, ClearTemp2(v))
              /\ stack' = SetTop([Top EXCEPT !.k = IF outcome = "ok" THEN @ + 1 ELSE NPar(Top) + 1])
      BY <1>9 DEF BindValue
    <2>4. outcome \in {"ok", "raised", "no_object"}
      BY ConstantsAssumption DEF PossibleOutcomes
    <2>5. ClearTemp2(v) \in [Oid -> Flags]
      BY <1>2 DEF ClearTemp2, Flags
    <2>6. /\ objValue' \in [Slot -> Ref] /\ heap' \in [Oid -> Flags]
          /\ fail' \in BOOLEAN /\ interrupt' \in BOOLEAN /\ catchable' \in BOOLEAN
          /\ InterruptSet'
      BY <1>0, <2>2, <2>3, <2>4, <2>5, CreateTyped
    <2> DEFINE n == IF outcome = "ok" THEN Top.k + 1 ELSE NPar(Top) + 1
               fr == [Top EXCEPT !.k = n]
    <2>7. n \in Nat /\ n >= 1 /\ n <= NPar(Top) + NLoc(Top) + 1
      <3>1. /\ Top.k \in Nat /\ Top.k + 1 \in Nat /\ Top.k + 1 >= 1
            /\ Top.k + 1 <= NPar(Top) + NLoc(Top) + 1
        <4>1. Top.k + 1 \in Nat /\ Top.k + 1 <= NPar(Top) + NLoc(Top) + 1
          BY <1>6, <2>1
        <4>2. Top.k \in Nat /\ Top.k + 1 >= 1
          BY <1>1
        <4> QED BY <4>1, <4>2
      <3>2. /\ NPar(Top) + 1 \in Nat /\ NPar(Top) + 1 >= 1
            /\ NPar(Top) + 1 <= NPar(Top) + NLoc(Top) + 1
        BY <2>2
      <3> QED BY <3>1, <3>2
    <2>8. fr \in Frame /\ FrameOK(fr)
      BY <1>0, <1>1, <2>1, <2>7, CounterTyped
    <2>9. stack' = SetTop(fr)
      BY <2>3
    <2>10. stack' \in Seq(Frame) /\ WellFormed'
      BY <1>0, <2>8, <2>9, SetTopTyped
    <2> QED BY <2>6, <2>10 DEF TypeInv, TypeOK, Flags, InterruptSet
  <1>10. CASE ParInitInterrupted
    <2>1. stack' \in Seq(Frame) /\ WellFormed'
      BY <1>0, <1>3, <1>10, ReturnTyped DEF ParInitInterrupted
    <2> QED BY <1>2, <1>10, <2>1 DEF ParInitInterrupted, TypeInv, TypeOK, Flags, InterruptSet
  <1> QED BY <1>4, <1>5, <1>7, <1>8, <1>9, <1>10

\* loc_init and res_init preserve the types.
LEMMA LocalsInitTyped ==
  ASSUME TypeInv, LocInit \/ LocInitInterrupted \/ ResInit \/ ResInitFails
  PROVE  TypeInv'
  <1>0. stack # <<>> /\ Top.kind = "lambda" /\ Top.phase = "init" /\ TypeOK /\ WellFormed /\ InterruptSet
    BY DEF TypeInv, LocInit, LocInitInterrupted, ResInit, ResInitFails, LocalsReady, InLambda
  <1>1. /\ Top \in Frame /\ FrameOK(Top) /\ Top.k \in Nat /\ Top.fn \in Fun
    BY <1>0, TopTyped DEF FrameOK
  <1>2. /\ objValue \in [Slot -> Ref] /\ heap \in [Oid -> Flags]
        /\ fail \in BOOLEAN /\ interrupt \in BOOLEAN /\ catchable \in BOOLEAN /\ InterruptSet
    BY <1>0 DEF TypeOK, Flags
  <1>3. Exc \in Ref
    BY GlobalsTyped
  <1>4. NPar(Top) \in Nat /\ NLoc(Top) \in Nat
    BY <1>1, FormalsTyped DEF NPar, NLoc
  <1>5. \A p \in Phase \ {"init", "args"}, r \in Ref :
          /\ [Top EXCEPT !.phase = p] \in Frame /\ FrameOK([Top EXCEPT !.phase = p])
          /\ [Top EXCEPT !.phase = p, !.result = r] \in Frame
          /\ FrameOK([Top EXCEPT !.phase = p, !.result = r])
    BY <1>0, <1>1, StepTyped
  <1>6. {"body", "loc_restore", "par_restore"} \subseteq Phase \ {"init", "args"}
    BY DEF Phase
  <1>7. CASE LocInit
    <2> DEFINE l == Locals[Top.fn][Top.k - NPar(Top)]
               c == [Top EXCEPT !.k = Top.k + 1]
               fr == [Top EXCEPT !.k = @ + 1, !.backup[l] = objValue[l]]
    <2>1. NPar(Top) < Top.k /\ Top.k <= NPar(Top) + NLoc(Top)
      BY <1>7 DEF LocInit
    <2>2. Top.k - NPar(Top) \in 1..NLoc(Top) /\ Top.k + 1 \in Nat /\ Top.k + 1 >= 1
          /\ Top.k + 1 <= NPar(Top) + NLoc(Top) + 1
      BY <1>1, <1>4, <2>1
    <2>3. l \in Slot /\ objValue[l] \in Ref
      BY <1>1, <1>2, <2>2, FormalsTyped DEF NLoc
    <2>4. c \in Frame /\ FrameOK(c)
      BY <1>0, <1>1, <2>2, CounterTyped
    <2>5. fr = [c EXCEPT !.backup[l] = objValue[l]]
      BY <1>1 DEF Frame
    <2>6. fr \in Frame /\ FrameOK(fr)
      BY <2>3, <2>4, <2>5, BackupTyped
    <2>7. PICK outcome \in PossibleOutcomes :
            CreateLocalObject(l, outcome, heap) /\ stack' = SetTop(fr)
      BY <1>7 DEF LocInit
    <2>8. outcome \in {"ok", "raised", "no_object"}
      BY ConstantsAssumption DEF PossibleOutcomes
    <2>9. /\ objValue' \in [Slot -> Ref] /\ heap' \in [Oid -> Flags]
          /\ fail' \in BOOLEAN /\ interrupt' \in BOOLEAN /\ catchable' \in BOOLEAN
          /\ InterruptSet'
      BY <1>0, <1>2, <2>3, <2>7, <2>8, CreateTyped
    <2>10. stack' \in Seq(Frame) /\ WellFormed'
      BY <1>0, <2>6, <2>7, SetTopTyped
    <2> QED BY <2>9, <2>10 DEF TypeInv, TypeOK, Flags, InterruptSet
  <1>8. CASE LocInitInterrupted
    <2>1. stack' = SetTop([Top EXCEPT !.phase = "par_restore", !.result = Exc])
      BY <1>8 DEF LocInitInterrupted
    <2>2. stack' \in Seq(Frame) /\ WellFormed'
      BY <1>0, <1>3, <1>5, <1>6, <2>1, SetTopTyped
    <2> QED BY <1>2, <1>8, <2>2 DEF LocInitInterrupted, TypeInv, TypeOK, Flags, InterruptSet
  <1>9. CASE ResInit
    <2> DEFINE r == ResultOf[Top.fn]
               b == [Top EXCEPT !.phase = "body"]
    <2>1. b \in Frame /\ FrameOK(b)
      BY <1>3, <1>5, <1>6
    <2>2. CASE r = Null
      <3>1. stack' = SetTop(b)
        BY <1>9, <2>2 DEF ResInit
      <3>2. stack' \in Seq(Frame) /\ WellFormed'
        BY <1>0, <2>1, <3>1, SetTopTyped
      <3>3. UNCHANGED <<objValue, heap, fail, interrupt, catchable>>
        BY <1>9, <2>2 DEF ResInit
      <3> QED BY <1>2, <3>2, <3>3 DEF TypeInv, TypeOK, Flags, InterruptSet
    <2>3. CASE r # Null
      <3> DEFINE fr == [Top EXCEPT !.phase = "body", !.backup[r] = objValue[r]]
      <3>1. r \in Slot /\ objValue[r] \in Ref
        BY <1>1, <1>2, <2>3, FormalsTyped
      <3>2. fr = [b EXCEPT !.backup[r] = objValue[r]]
        BY <1>1 DEF Frame
      <3>3. fr \in Frame /\ FrameOK(fr)
        BY <2>1, <3>1, <3>2, BackupTyped
      <3>4. CreateLocalObject(r, "ok", heap) /\ stack' = SetTop(fr)
        BY <1>9, <2>3 DEF ResInit
      <3>5. /\ objValue' \in [Slot -> Ref] /\ heap' \in [Oid -> Flags]
            /\ fail' \in BOOLEAN /\ interrupt' \in BOOLEAN /\ catchable' \in BOOLEAN
            /\ InterruptSet'
        BY <1>0, <1>2, <3>1, <3>4, CreateTyped
      <3>6. stack' \in Seq(Frame) /\ WellFormed'
        BY <1>0, <3>3, <3>4, SetTopTyped
      <3> QED BY <3>5, <3>6 DEF TypeInv, TypeOK, Flags, InterruptSet
    <2> QED BY <2>2, <2>3
  <1>10. CASE ResInitFails
    <2> DEFINE r == ResultOf[Top.fn]
               b == [Top EXCEPT !.phase = "loc_restore", !.result = Exc]
               fr == [Top EXCEPT !.phase = "loc_restore", !.result = Exc,
                                 !.backup[r] = objValue[r]]
    <2>1. b \in Frame /\ FrameOK(b)
      BY <1>3, <1>5, <1>6
    <2>2. r # Null /\ stack' = SetTop(fr) /\ fail' = TRUE /\ interrupt' = TRUE
          /\ catchable' = catchable
      BY <1>10 DEF ResInitFails
    <2>3. r \in Slot /\ objValue[r] \in Ref
      BY <1>1, <1>2, <2>2, FormalsTyped
    <2>4. fr = [b EXCEPT !.backup[r] = objValue[r]]
      BY <1>1 DEF Frame
    <2>5. fr \in Frame /\ FrameOK(fr)
      BY <2>1, <2>3, <2>4, BackupTyped
    <2>6. stack' \in Seq(Frame) /\ WellFormed'
      BY <1>0, <2>2, <2>5, SetTopTyped
    <2>7. \/ UNCHANGED <<objValue, heap>>
          \/ /\ FreeOids # {}
             /\ objValue' = [objValue EXCEPT ![r] = NewObj]
             /\ heap' = [heap EXCEPT ![NewObj] = "plain"]
      BY <1>10 DEF ResInitFails
    <2>8. objValue' \in [Slot -> Ref] /\ heap' \in [Oid -> Flags]
      <3>1. CASE UNCHANGED <<objValue, heap>>
        BY <1>2, <3>1
      <3>2. CASE /\ FreeOids # {}
                 /\ objValue' = [objValue EXCEPT ![r] = NewObj]
                 /\ heap' = [heap EXCEPT ![NewObj] = "plain"]
        <4>1. NewObj \in Ref
          BY <3>2, NewObjTyped DEF Ref
        <4> QED BY <1>2, <3>2, <4>1 DEF Flags
      <3> QED BY <2>7, <3>1, <3>2
    <2> QED BY <1>2, <2>2, <2>6, <2>8 DEF TypeInv, TypeOK, Flags, InterruptSet
  <1> QED BY <1>7, <1>8, <1>9, <1>10

\* res_restore, loc_restore and par_restore preserve the types.
LEMMA RestoreTyped ==
  ASSUME TypeInv, ResRestoreVar \/ ResRestoreCopy \/ ResRestoreKeep \/ LocRestore \/ ParRestore
  PROVE  TypeInv'
  <1>0. stack # <<>> /\ Top.kind = "lambda" /\ TypeOK /\ WellFormed /\ InterruptSet
        /\ Top.phase \in {"res_restore", "loc_restore", "par_restore"}
    BY DEF TypeInv, ResRestoreVar, ResRestoreCopy, ResRestoreKeep, LocRestore, ParRestore, InLambda
  <1>1. /\ Top \in Frame /\ FrameOK(Top) /\ Top.fn \in Fun /\ Top.result \in Ref
        /\ Top.backup \in [Slot -> Ref]
    BY <1>0, TopTyped DEF FrameOK
  <1>2. /\ objValue \in [Slot -> Ref] /\ heap \in [Oid -> Flags]
        /\ fail \in BOOLEAN /\ interrupt \in BOOLEAN /\ catchable \in BOOLEAN /\ InterruptSet
    BY <1>0 DEF TypeOK, Flags
  <1>3. \A p \in Phase \ {"init", "args"}, r \in Ref :
          /\ [Top EXCEPT !.phase = p] \in Frame /\ FrameOK([Top EXCEPT !.phase = p])
          /\ [Top EXCEPT !.phase = p, !.result = r] \in Frame
          /\ FrameOK([Top EXCEPT !.phase = p, !.result = r])
    BY <1>0, <1>1, StepTyped
  <1>4. {"loc_restore", "par_restore"} \subseteq Phase \ {"init", "args"}
    BY DEF Phase
  <1>5. CASE ResRestoreVar
    <2> DEFINE r == ResultOf[Top.fn]
               result == IF fail THEN Top.result ELSE objValue[r]
    <2>1. /\ r # Null
          /\ heap' = [heap EXCEPT ![objValue[r]] = IF fail THEN "free" ELSE "temp"]
          /\ stack' = SetTop([Top EXCEPT !.phase = "loc_restore", !.result = result])
          /\ objValue' = [objValue EXCEPT ![r] = Top.backup[r]]
          /\ fail' = fail /\ interrupt' = interrupt /\ catchable' = catchable
      BY <1>5 DEF ResRestoreVar
    <2>2. r \in Slot
      BY <1>1, <2>1, FormalsTyped
    <2>3. result \in Ref /\ Top.backup[r] \in Ref
      BY <1>1, <1>2, <2>2
    <2>4. stack' \in Seq(Frame) /\ WellFormed'
      BY <1>0, <1>3, <1>4, <2>1, <2>3, SetTopTyped
    <2>5. heap' \in [Oid -> Flags] /\ objValue' \in [Slot -> Ref]
      BY <1>2, <2>1, <2>2, <2>3 DEF Flags
    <2> QED BY <1>2, <2>1, <2>4, <2>5 DEF TypeInv, TypeOK, Flags, InterruptSet
  <1>6. CASE ResRestoreCopy
    <2>1. /\ FreeOids # {} /\ fail' = FALSE /\ interrupt' = FALSE
          /\ heap' = [heap EXCEPT ![NewObj] = "temp"]
          /\ stack' = SetTop([Top EXCEPT !.phase = "loc_restore", !.result = NewObj])
          /\ objValue' = objValue /\ catchable' = catchable
      BY <1>6 DEF ResRestoreCopy
    <2>2. NewObj \in Ref
      BY <2>1, NewObjTyped DEF Ref
    <2>3. stack' \in Seq(Frame) /\ WellFormed'
      BY <1>0, <1>3, <1>4, <2>1, <2>2, SetTopTyped
    <2> QED BY <1>2, <2>1, <2>3 DEF TypeInv, TypeOK, Flags, InterruptSet
  <1>7. CASE ResRestoreKeep
    <2>1. /\ stack' = SetTop([Top EXCEPT !.phase = "loc_restore"])
          /\ UNCHANGED <<objValue, heap, fail, interrupt, catchable>>
      BY <1>7 DEF ResRestoreKeep
    <2>2. stack' \in Seq(Frame) /\ WellFormed'
      BY <1>0, <1>1, <1>3, <1>4, <2>1, SetTopTyped
    <2> QED BY <1>2, <2>1, <2>2 DEF TypeInv, TypeOK, Flags, InterruptSet
  <1>8. CASE LocRestore
    <2>1. /\ stack' = SetTop([Top EXCEPT !.phase = "par_restore"])
          /\ objValue' = [s \in Slot |-> IF s \in RangeOf(Locals[Top.fn]) THEN Top.backup[s]
                                                                       ELSE objValue[s]]
          /\ catchable' = catchable
      BY <1>8 DEF LocRestore
    <2>2. \E D \in CleanedUp(NLoc(Top)) :
             /\ heap' = Freed(heap, {objValue[Locals[Top.fn][j]] : j \in D})
             /\ AfterDestroy(D # 1..NLoc(Top))
      BY <1>8 DEF LocRestore
    <2>3. heap' \in [Oid -> Flags] /\ fail' \in BOOLEAN /\ interrupt' \in BOOLEAN /\ InterruptSet'
      BY <1>0, <1>2, <2>2, FreedTyped, AfterDestroyTyped
    <2>4. objValue' \in [Slot -> Ref]
      BY <1>1, <1>2, <2>1
    <2>5. stack' \in Seq(Frame) /\ WellFormed'
      BY <1>0, <1>1, <1>3, <1>4, <2>1, SetTopTyped
    <2> QED BY <1>2, <2>1, <2>3, <2>4, <2>5 DEF TypeInv, TypeOK, Flags, InterruptSet
  <1>9. CASE ParRestore
    <2> DEFINE Garbage(j) == IF Params[Top.fn][j] \in RefParams THEN Top.evald[j]
                             ELSE objValue[Params[Top.fn][j]]
    <2>1. /\ Return(Top.result, heap[Top.result] = "temp")
          /\ objValue' = [s \in Slot |-> IF s \in RangeOf(Params[Top.fn]) THEN Top.backup[s]
                                                                       ELSE objValue[s]]
          /\ catchable' = catchable
      BY <1>9 DEF ParRestore
    <2>2. \E D \in CleanedUp(NPar(Top)) :
             heap' = Freed(heap, {Garbage(j) : j \in D}) /\ AfterDestroy(D # 1..NPar(Top))
      BY <1>9 DEF ParRestore
    <2>3. heap' \in [Oid -> Flags] /\ fail' \in BOOLEAN /\ interrupt' \in BOOLEAN /\ InterruptSet'
      BY <1>0, <1>2, <2>2, FreedTyped, AfterDestroyTyped
    <2>4. objValue' \in [Slot -> Ref]
      BY <1>1, <1>2, <2>1
    <2>5. (heap[Top.result] = "temp") \in BOOLEAN
      OBVIOUS
    <2>6. stack' \in Seq(Frame) /\ WellFormed'
      BY <1>0, <1>1, <2>1, <2>5, ReturnTyped
    <2> QED BY <1>2, <2>1, <2>3, <2>4, <2>6 DEF TypeInv, TypeOK, Flags, InterruptSet
  <1> QED BY <1>5, <1>6, <1>7, <1>8, <1>9

\* The evaluation of an expression.
LEMMA BeginTyped ==
  ASSUME NEW fr \in Frame, FrameOK(fr), Waiting(fr), objValue \in [Slot -> Ref]
  PROVE  Begin(fr) \in Frame /\ FrameOK(Begin(fr)) /\ Waiting(Begin(fr))
  <1>1. CASE fr.kind = "lambda" /\ fr.phase = "args"
    <2> DEFINE p == Params[fr.fn][Len(fr.evald) + 1]
               new == [fr EXCEPT !.backup[p] = objValue[p]]
    <2>1. fr.fn \in Fun /\ fr.arity = Len(Params[fr.fn]) /\ Len(fr.evald) < fr.arity
      BY <1>1 DEF FrameOK, Waiting, NPar
    <2>2. fr.evald \in Seq(Ref) /\ Len(fr.evald) \in Nat
      BY DEF Frame
    <2>3. p \in Slot
      BY <2>1, <2>2, FormalsTyped
    <2>4. new \in Frame /\ FrameOK(new)
      BY <2>3, BackupTyped
    <2>5. new.evald = fr.evald /\ new.phase = fr.phase /\ new.kind = fr.kind /\ new.arity = fr.arity
      BY DEF Frame
    <2>6. Begin(fr) = new
      BY <1>1 DEF Begin
    <2> QED BY <2>4, <2>5, <2>6 DEF Waiting
  <1>2. CASE ~(fr.kind = "lambda" /\ fr.phase = "args")
    BY <1>2 DEF Begin
  <1> QED BY <1>1, <1>2

LEMMA EvaluatingWaits ==
  ASSUME TypeInv, NEW sort, Evaluating(sort)
  PROVE  stack # <<>> /\ TypeOK /\ WellFormed /\ Top \in Frame /\ FrameOK(Top) /\ Waiting(Top)
  <1>1. stack # <<>> /\ TypeOK /\ WellFormed /\ InterruptSet
    BY DEF TypeInv, Evaluating
  <1>2. Top \in Frame /\ FrameOK(Top)
    BY <1>1, TopTyped
  <1>3. Waiting(Top)
    BY DEF Evaluating, Waiting
  <1> QED BY <1>1, <1>2, <1>3

LEMMA ActivationTyped ==
  ASSUME objValue \in [Slot -> Ref],
         NEW kind \in {"lambda", "action", "data", "block", "loop"}, NEW f \in Fun \cup {Null},
         NEW sort \in Sort, NEW arity \in Nat,
         kind = "lambda" => f \in Fun /\ arity = Len(Params[f])
  PROVE  /\ Activation(kind, f, sort, arity) \in Frame
         /\ FrameOK(Activation(kind, f, sort, arity))
  <1> DEFINE new == Activation(kind, f, sort, arity)
  <1>1. [s \in Slot |-> Null] \in [Slot -> Ref] /\ Null \in Ref /\ "args" \in Phase
    BY GlobalsTyped DEF Phase
  <1>2. <<>> \in Seq(Ref) /\ Len(<<>>) = 0
    OBVIOUS
  <1>3. new \in Frame
    BY <1>1, <1>2 DEF Activation, Frame
  <1>4. new.evald = <<>> /\ new.phase = "args" /\ new.k = 1 /\ new.kind = kind /\ new.fn = f
        /\ new.arity = arity
    BY DEF Activation
  <1>5. FrameOK(new)
    BY <1>2, <1>4 DEF FrameOK, NPar, NLoc
  <1> QED BY <1>3, <1>5

\* The kinds of what is called, with the bounds of Callees left out.
LEMMA CalleesCases ==
  ASSUME NEW depth, NEW sort, NEW fr \in Callees(depth, sort)
  PROVE  \/ \E kind \in {"action", "data"}, n \in 0..MaxArity : fr = Activation(kind, Null, sort, n)
         \/ \E f \in Fun : SortOf(f) = sort /\ fr = Activation("lambda", f, sort, Len(Params[f]))
         \/ \E kind \in {"block", "loop"} : fr = Activation(kind, Null, sort, 0)
  <1> DEFINE Blocks == {Activation(kind, Null, sort, 0) : kind \in {"block", "loop"}}
             Funs == {Activation("lambda", f, sort, Len(Params[f])) : f \in {g \in Fun : SortOf(g) = sort}}
             Actions == {Activation("action", Null, sort, n) : n \in 0..MaxArity}
             Datas == {Activation("data", Null, sort, n) : n \in 1..MaxArity}
  <1>1. fr \in Actions \/ fr \in Datas \/ fr \in Funs \/ fr \in Blocks
    BY DEF Callees
  <1>2. \A n \in 1..MaxArity : n \in 0..MaxArity
    BY ConstantsAssumption
  <1>3. CASE fr \in Datas
    BY <1>2, <1>3
  <1>4. CASE fr \in Actions
    BY <1>4
  <1>5. CASE fr \in Funs
    BY <1>5
  <1>6. CASE fr \in Blocks
    BY <1>6
  <1> QED BY <1>1, <1>3, <1>4, <1>5, <1>6

LEMMA CalleesTyped ==
  ASSUME objValue \in [Slot -> Ref], NEW depth, NEW sort \in Sort, NEW fr \in Callees(depth, sort)
  PROVE  fr \in Frame /\ FrameOK(fr)
  <1>1. CASE \E kind \in {"action", "data"}, n \in 0..MaxArity : fr = Activation(kind, Null, sort, n)
    BY <1>1, ConstantsAssumption, ActivationTyped
  <1>2. CASE \E f \in Fun : fr = Activation("lambda", f, sort, Len(Params[f]))
    BY <1>2, FormalsTyped, ActivationTyped
  <1>3. CASE \E kind \in {"block", "loop"} : fr = Activation(kind, Null, sort, 0)
    BY <1>3, ActivationTyped
  <1>4. \/ \E kind \in {"action", "data"}, n \in 0..MaxArity : fr = Activation(kind, Null, sort, n)
        \/ \E f \in Fun : fr = Activation("lambda", f, sort, Len(Params[f]))
        \/ \E kind \in {"block", "loop"} : fr = Activation(kind, Null, sort, 0)
    BY CalleesCases
  <1> QED BY <1>1, <1>2, <1>3, <1>4

LEMMA EvaluationTyped ==
  ASSUME TypeInv, EvalLeaf \/ Call
  PROVE  TypeInv'
  <1>1. /\ objValue \in [Slot -> Ref] /\ heap \in [Oid -> Flags]
        /\ fail \in BOOLEAN /\ interrupt \in BOOLEAN /\ catchable \in BOOLEAN /\ InterruptSet
    BY DEF TypeInv, TypeOK, Flags
  <1>2. CASE EvalLeaf
    <2>1. Evaluating("value") /\ UNCHANGED <<objValue, heap, fail, interrupt, catchable>>
      BY <1>2 DEF EvalLeaf
    <2>2. PICK o \in Leaves : stack' = SetTop(Receive(Begin(Top), o, heap[o] = "temp"))
      BY <1>2 DEF EvalLeaf
    <2>3. o \in Ref
      <3>1. Globals \subseteq Ref
        BY GlobalsTyped
      <3>2. \A i \in Scopes : stack[i].fn \in Fun
        BY DEF Scopes, TypeInv, TypeOK, WellFormed, FrameOK
      <3>3. InScope \subseteq Slot
        BY <3>2 DEF InScope, Slot
      <3> QED BY <1>1, <3>1, <3>3 DEF Leaves
    <2>4. Begin(Top) \in Frame /\ FrameOK(Begin(Top)) /\ Waiting(Begin(Top))
      BY <1>1, <2>1, EvaluatingWaits, BeginTyped
    <2>5. (heap[o] = "temp") \in BOOLEAN
      OBVIOUS
    <2> DEFINE fr == Receive(Begin(Top), o, heap[o] = "temp")
    <2>6. fr \in Frame /\ FrameOK(fr)
      BY <2>3, <2>4, <2>5, ReceiveTyped
    <2>7. stack' \in Seq(Frame) /\ WellFormed'
      BY <2>1, <2>2, <2>6, EvaluatingWaits, SetTopTyped
    <2> QED BY <1>1, <2>1, <2>7 DEF TypeInv, TypeOK, Flags, InterruptSet
  <1>3. CASE Call
    <2>1. PICK sort \in Sort : /\ Evaluating(sort)
                               /\ \E fr \in Callees(Len(stack) + 1, sort) :
                                     stack' = Append(SetTop(Begin(Top)), fr)
      BY <1>3 DEF Call
    <2>2. PICK fr \in Callees(Len(stack) + 1, sort) : stack' = Append(SetTop(Begin(Top)), fr)
      BY <2>1
    <2>3. fr \in Frame /\ FrameOK(fr)
      BY <1>1, CalleesTyped
    <2>4. Begin(Top) \in Frame /\ FrameOK(Begin(Top)) /\ Waiting(Begin(Top))
      BY <1>1, <2>1, EvaluatingWaits, BeginTyped
    <2>5. stack' \in Seq(Frame) /\ WellFormed'
      BY <2>1, <2>2, <2>3, <2>4, EvaluatingWaits, AppendTyped
    <2>6. UNCHANGED <<objValue, heap, fail, interrupt, catchable>>
      BY <1>3 DEF Call
    <2> QED BY <1>1, <2>5, <2>6 DEF TypeInv, TypeOK, Flags, InterruptSet
  <1> QED BY <1>2, <1>3

\* exec_action, prc_block and the loops preserve the types.
LEMMA ActionTyped ==
  ASSUME TypeInv, Action
  PROVE  TypeInv'
  <1>0. stack # <<>> /\ TypeOK /\ WellFormed /\ InterruptSet
    BY DEF TypeInv, Action, ActionStarts, ShowSignal, ActionFails, ActionReturnsTemp,
           ActionReturnsArgument, ActionReturnsEmpty, ActionRaises, DataReturned, BlockBody,
           Catch, BlockReturns, LoopStarts, LoopTest, LoopAgain, LoopFails, AtAction, Evaluated, Running,
           InBlock, InLoop
  <1>1. /\ Top \in Frame /\ FrameOK(Top) /\ Top.evald \in Seq(Ref) /\ Top.result \in Ref
    BY <1>0, TopTyped
  <1>2. /\ objValue \in [Slot -> Ref] /\ heap \in [Oid -> Flags]
        /\ fail \in BOOLEAN /\ interrupt \in BOOLEAN /\ catchable \in BOOLEAN /\ InterruptSet
    BY <1>0 DEF TypeOK, Flags
  <1>3. Exc \in Ref /\ Empty \in Ref /\ Null \in Ref
    BY GlobalsTyped
  <1>4. ASSUME Top.phase = "args" => Len(Top.evald) = Top.arity,
               NEW p \in {"run", "body", "handler", "cond"}, NEW r \in Ref,
               \/ stack' = SetTop([Top EXCEPT !.phase = p])
               \/ stack' = SetTop([Top EXCEPT !.phase = p, !.result = r])
        PROVE  stack' \in Seq(Frame) /\ WellFormed'
    <2>1. p \in Phase \ {"init", "args"}
      BY DEF Phase
    <2>2. /\ [Top EXCEPT !.phase = p] \in Frame /\ FrameOK([Top EXCEPT !.phase = p])
          /\ [Top EXCEPT !.phase = p, !.result = r] \in Frame
          /\ FrameOK([Top EXCEPT !.phase = p, !.result = r])
      BY <1>1, <1>4, <2>1, StepTyped
    <2> QED BY <1>0, <1>4, <2>2, SetTopTyped
  <1>5. Freed(heap, ActionTemps(Top)) \in [Oid -> Flags]
    BY <1>2, FreedTyped
  <1>6. ASSUME NEW o \in Ref, NEW t \in BOOLEAN, Return(o, t)
        PROVE  stack' \in Seq(Frame) /\ WellFormed'
    BY <1>0, <1>6, ReturnTyped
  <1>7. CASE ActionStarts
    <2>1. /\ Top.phase = "args" => Len(Top.evald) = Top.arity
          /\ stack' = SetTop([Top EXCEPT !.phase = "run"])
          /\ UNCHANGED <<objValue, heap, fail, interrupt, catchable>>
      BY <1>2, <1>7 DEF ActionStarts, AtAction, Evaluated, InterruptSet
    <2>2. stack' \in Seq(Frame) /\ WellFormed'
      BY <1>3, <1>4, <2>1
    <2> QED BY <1>2, <2>1, <2>2 DEF TypeInv, TypeOK, Flags, InterruptSet
  <1>8. CASE ShowSignal
    <2>1. PICK decision \in Decisions :
            /\ interrupt' = (decision # "continue") /\ fail' = (decision # "continue")
            /\ catchable' = (catchable /\ decision # "trace")
            /\ stack' = IF decision = "continue" THEN SetTop([Top EXCEPT !.phase = "run"])
                                                 ELSE stack
      BY <1>8 DEF ShowSignal
    <2>2. objValue' = objValue /\ heap' = heap
      BY <1>8 DEF ShowSignal
    <2>3. fail' \in BOOLEAN /\ interrupt' \in BOOLEAN /\ catchable' \in BOOLEAN /\ InterruptSet'
      BY <1>2, <2>1 DEF InterruptSet
    <2>4. stack' \in Seq(Frame) /\ WellFormed'
      <3>1. CASE decision = "continue"
        <4>1. Top.phase = "args" => Len(Top.evald) = Top.arity
          BY <1>8 DEF ShowSignal, AtAction, Evaluated
        <4> QED BY <1>3, <1>4, <2>1, <3>1, <4>1
      <3>2. CASE decision # "continue"
        <4>1. stack' = stack
          BY <2>1, <3>2
        <4> QED BY <1>0, <4>1 DEF TypeOK, WellFormed
      <3> QED BY <3>1, <3>2
    <2> QED BY <1>2, <2>2, <2>3, <2>4 DEF TypeInv, TypeOK, Flags, InterruptSet
  <1>9. CASE ActionFails
    <2>1. stack' \in Seq(Frame) /\ WellFormed'
      BY <1>3, <1>6, <1>9 DEF ActionFails
    <2> QED BY <1>2, <1>5, <1>9, <2>1 DEF ActionFails, TypeInv, TypeOK, Flags, InterruptSet
  <1>10. CASE ActionReturnsTemp
    <2>1. NewObj \in Ref
      BY <1>10, NewObjTyped DEF ActionReturnsTemp, Ref
    <2>2. stack' \in Seq(Frame) /\ WellFormed'
      BY <1>6, <1>10, <2>1 DEF ActionReturnsTemp
    <2>3. heap' = [Freed(heap, ActionTemps(Top)) EXCEPT ![NewObj] = "temp"]
          /\ UNCHANGED <<objValue, fail, interrupt, catchable>>
      BY <1>10 DEF ActionReturnsTemp
    <2>4. heap' \in [Oid -> Flags]
      BY <1>5, <2>3 DEF Flags
    <2> QED BY <1>2, <2>2, <2>3, <2>4 DEF TypeInv, TypeOK, Flags, InterruptSet
  <1>11. CASE ActionReturnsArgument
    <2>1. PICK i \in DOMAIN Top.evald \ Top.bits : Return(Top.evald[i], FALSE)
      BY <1>11 DEF ActionReturnsArgument
    <2>2. Top.evald[i] \in Ref
      BY <1>1
    <2>3. stack' \in Seq(Frame) /\ WellFormed'
      BY <1>6, <2>1, <2>2
    <2> QED BY <1>2, <1>5, <1>11, <2>3
            DEF ActionReturnsArgument, TypeInv, TypeOK, Flags, InterruptSet
  <1>12. CASE ActionReturnsEmpty
    <2>1. stack' \in Seq(Frame) /\ WellFormed'
      BY <1>3, <1>6, <1>12 DEF ActionReturnsEmpty
    <2> QED BY <1>2, <1>5, <1>12, <2>1
            DEF ActionReturnsEmpty, TypeInv, TypeOK, Flags, InterruptSet
  <1>13. CASE ActionRaises
    <2>1. stack' \in Seq(Frame) /\ WellFormed'
      BY <1>3, <1>6, <1>13 DEF ActionRaises
    <2> QED BY <1>2, <1>5, <1>13, <2>1 DEF ActionRaises, TypeInv, TypeOK, Flags, InterruptSet
  <1>14. CASE BlockBody
    <2>1. Top.phase = "run" /\ stack' = SetTop([Top EXCEPT !.phase = "body"])
          /\ UNCHANGED <<objValue, heap, fail, interrupt, catchable>>
      BY <1>14 DEF BlockBody, Running
    <2>2. stack' \in Seq(Frame) /\ WellFormed'
      BY <1>3, <1>4, <2>1
    <2> QED BY <1>2, <2>1, <2>2 DEF TypeInv, TypeOK, Flags, InterruptSet
  <1>15. CASE Catch
    <2>1. Top.phase = "catch" /\ stack' = SetTop([Top EXCEPT !.phase = "handler"])
          /\ fail' = FALSE /\ interrupt' = FALSE /\ UNCHANGED <<objValue, heap, catchable>>
      BY <1>15 DEF Catch, InBlock
    <2>2. stack' \in Seq(Frame) /\ WellFormed'
      BY <1>3, <1>4, <2>1
    <2> QED BY <1>2, <2>1, <2>2 DEF TypeInv, TypeOK, Flags, InterruptSet
  <1>16. CASE BlockReturns
    <2>1. stack' \in Seq(Frame) /\ WellFormed'
      BY <1>3, <1>6, <1>16 DEF BlockReturns
    <2> QED BY <1>2, <1>16, <2>1 DEF BlockReturns, TypeInv, TypeOK, Flags, InterruptSet
  <1>17. CASE LoopStarts
    <2>1. Top.phase = "run" /\ UNCHANGED <<objValue, heap, fail, interrupt, catchable>>
      BY <1>17 DEF LoopStarts, Running
    <2>2. PICK phase \in {"cond", "body"} : stack' = SetTop([Top EXCEPT !.phase = phase])
      BY <1>17 DEF LoopStarts
    <2>3. stack' \in Seq(Frame) /\ WellFormed'
      BY <1>3, <1>4, <2>1, <2>2
    <2> QED BY <1>2, <2>1, <2>3 DEF TypeInv, TypeOK, Flags, InterruptSet
  <1>18. CASE LoopTest
    <2>1. Top.phase = "test" /\ UNCHANGED <<objValue, fail, interrupt, catchable>>
          /\ heap' = IF heap[Top.result] = "temp" THEN Freed(heap, {Top.result}) ELSE heap
      BY <1>18 DEF LoopTest, InLoop
    <2>2. heap' \in [Oid -> Flags]
      BY <1>2, <2>1, FreedTyped
    <2>3. \/ stack' = SetTop([Top EXCEPT !.phase = "body", !.result = Null])
          \/ Return(Empty, FALSE)
      BY <1>18 DEF LoopTest
    <2>4. stack' \in Seq(Frame) /\ WellFormed'
      BY <1>3, <1>4, <1>6, <2>1, <2>3
    <2> QED BY <1>2, <2>1, <2>2, <2>4 DEF TypeInv, TypeOK, Flags, InterruptSet
  <1>19. CASE LoopAgain
    <2>1. Top.phase = "again" /\ stack' = SetTop([Top EXCEPT !.phase = "cond"])
          /\ UNCHANGED <<objValue, heap, fail, interrupt, catchable>>
      BY <1>19 DEF LoopAgain, InLoop
    <2>2. stack' \in Seq(Frame) /\ WellFormed'
      BY <1>3, <1>4, <2>1
    <2> QED BY <1>2, <2>1, <2>2 DEF TypeInv, TypeOK, Flags, InterruptSet
  <1>20. CASE LoopFails
    <2>1. stack' \in Seq(Frame) /\ WellFormed'
      BY <1>3, <1>6, <1>20 DEF LoopFails
    <2> QED BY <1>2, <1>20, <2>1 DEF LoopFails, TypeInv, TypeOK, Flags, InterruptSet
  <1>21. CASE DataReturned
    <2>1. PICK o \in Globals : Return(o, FALSE)
      BY <1>21, ConstantsAssumption DEF DataReturned
    <2>2. stack' \in Seq(Frame) /\ WellFormed'
      BY <1>6, <2>1, GlobalsTyped
    <2>3. heap' \in [Oid -> Flags] /\ UNCHANGED <<objValue, fail, interrupt, catchable>>
      BY <1>2, <1>21, FreedTyped DEF DataReturned
    <2> QED BY <1>2, <2>2, <2>3 DEF TypeInv, TypeOK, Flags, InterruptSet
  <1> QED BY <1>7, <1>8, <1>9, <1>10, <1>11, <1>12, <1>13, <1>14, <1>15, <1>16, <1>17, <1>18,
             <1>19, <1>20, <1>21 DEF Action

LEMMA TypeInvInit == Init => TypeInv
  <1> SUFFICES ASSUME Init PROVE TypeInv
    OBVIOUS
  <1>1. objValue \in [Slot -> Ref]
    BY ConstantsAssumption DEF Init, Ref
  <1>2. PICK main \in Callees(1, "proc") : stack = <<main>>
    BY DEF Init
  <1>3. main \in Frame /\ FrameOK(main)
    BY <1>1, CalleesTyped DEF Sort
  <1>4. stack \in Seq(Frame) /\ Len(stack) = 1 /\ stack[1] = main
    BY <1>2, <1>3
  <1>5. WellFormed
    BY <1>3, <1>4 DEF WellFormed
  <1> QED BY <1>1, <1>4, <1>5 DEF Init, TypeInv, TypeOK, InterruptSet

LEMMA TypeInvStep == TypeInv /\ [Next]_vars => TypeInv'
  <1> SUFFICES ASSUME TypeInv, [Next]_vars PROVE TypeInv'
    OBVIOUS
  <1>1. CASE EvalLeaf \/ Call
    BY <1>1, EvaluationTyped
  <1>2. CASE ParInitFails \/ ParInitEvaluated \/ BindTemp \/ BindRef \/ BindValue
             \/ ParInitInterrupted
    BY <1>2, ParInitTyped
  <1>3. CASE LocInit \/ LocInitInterrupted \/ ResInit \/ ResInitFails
    BY <1>3, LocalsInitTyped
  <1>4. CASE ResRestoreVar \/ ResRestoreCopy \/ ResRestoreKeep \/ LocRestore \/ ParRestore
    BY <1>4, RestoreTyped
  <1>5. CASE Action
    BY <1>5, ActionTyped
  <1>6. CASE Signal
    BY <1>6 DEF Signal, TypeInv, TypeOK, WellFormed, InterruptSet
  <1>7. CASE SignalRaises
    BY <1>7 DEF SignalRaises, TypeInv, TypeOK, WellFormed, InterruptSet
  <1>8. CASE UNCHANGED vars
    BY <1>8 DEF vars, TypeInv, TypeOK, WellFormed, InterruptSet
  <1> QED BY <1>1, <1>2, <1>3, <1>4, <1>5, <1>6, <1>7, <1>8 DEF Next, Interpreter, Lambda, Terminated

\* The interpreter never leaves the states described by the types of its variables, whatever
\* the program, the create and destroy calls and the signals do.
THEOREM TypeCorrect == Spec => []TypeOK
  <1>1. TypeInv => TypeOK
    BY DEF TypeInv
  <1> QED BY TypeInvInit, TypeInvStep, <1>1, PTL DEF Spec

\* No action is executed, and no parameter is bound, with missing arguments, although
\* exec_action looks at interrupt_flag instead of fail_flag.
THEOREM ArgumentsComplete == Spec => []CompleteArguments
  <1>1. TypeInv => CompleteArguments
    BY DEF TypeInv, TypeOK, WellFormed, FrameOK, CompleteArguments
  <1> QED BY TypeInvInit, TypeInvStep, <1>1, PTL DEF Spec

-----------------------------------------------------------------------------
(* Shallow binding restores the formal objects: when create calls succeed  *)
(* and no exception is raised from a signal handler, a call leaves every   *)
(* formal object as it was when the call began, whatever recursion,        *)
(* exceptions, failing destroy calls and signals happen in it.             *)

\* The value saved for a parameter whose evaluation has begun is the one it had
\* when the call began.
Saved(fr, waiting) ==
  fr.kind = "lambda" =>
    \A j \in 1..NPar(fr) :
      (fr.phase # "args" \/ j <= Len(fr.evald) \/ (waiting /\ j = Len(fr.evald) + 1)) =>
        fr.backup[Params[fr.fn][j]] = fr.entry[Params[fr.fn][j]]

SavedParams == \A i \in 1..Len(stack) : Saved(stack[i], i < Len(stack))

\* Without asynchronous exceptions formals are bound while none is raised.
BindsWithoutFailure ==
  \A i \in 1..Len(stack) : stack[i].kind = "lambda" /\ stack[i].phase = "init" => ~fail

Binding ==
  /\ \A i \in 1..Len(stack) : Shallow(stack[i], Now(i))
  /\ SavedParams
  /\ BindsWithoutFailure

BindingInv == TypeInv /\ Binding

\* What a step of an activation that becomes fr does with its variables: it keeps or drops
\* bindings, or it binds one more formal.
Rebinds(fr, after) ==
  \/ \A s \in Slot : s \in Bound(fr) => s \in Bound(Top) /\ after[s] = objValue[s]
  \/ \E n \in Slot : /\ n \notin Bound(Top)
                     /\ \A s \in Slot : s \in Bound(fr) <=> s \in Bound(Top) \/ s = n
                     /\ \A s \in Slot : s # n => after[s] = objValue[s]

\* The steps of a stack of variables.
VariableStep ==
  \/ stack' = stack /\ objValue' = objValue
  \/ /\ stack # <<>>
     /\ \E fr : stack' = SetTop(fr) /\ fr.entry = Top.entry /\ Rebinds(fr, objValue')
  \/ /\ stack # <<>> /\ objValue' = objValue
     /\ \E fr, callee : /\ stack' = Append(SetTop(fr), callee)
                        /\ fr.entry = Top.entry /\ callee.entry = objValue
                        /\ Bound(fr) = Bound(Top) /\ Bound(callee) = {}
  \/ /\ stack # <<>> /\ objValue' = Top.entry
     /\ \E o \in Ref, t \in BOOLEAN : Return(o, t)

Disciplined == (Len(stack') < Len(stack) => objValue' = Top.entry) /\ VariableStep

-----------------------------------------------------------------------------
(* The three kinds of steps *)

LEMMA SetTopShape ==
  ASSUME TypeInv, stack # <<>>, NEW fr
  PROVE  /\ Len(stack) \in Nat /\ Len(stack) >= 1 /\ Top = stack[Len(stack)]
         /\ Len(SetTop(fr)) = Len(stack)
         /\ SetTop(fr)[Len(stack)] = fr
         /\ \A i \in 1..Len(stack) : i # Len(stack) => SetTop(fr)[i] = stack[i]
  <1>1. stack \in Seq(Frame) /\ Len(stack) \in Nat /\ Len(stack) >= 1
    BY DEF TypeInv, TypeOK
  <1> QED BY <1>1 DEF SetTop, Top

LEMMA SetTopBinding ==
  ASSUME BindingInv, stack # <<>>, NEW fr, stack' = SetTop(fr), fr.entry = Top.entry,
         Shallow(fr, objValue'), Saved(fr, FALSE), Rebinds(fr, objValue'),
         fr.kind = "lambda" /\ fr.phase = "init" => ~fail'
  PROVE  Binding' /\ Disciplined
  <1> USE DEF BindingInv
  <1>1. /\ Len(stack) \in Nat /\ Len(stack) >= 1 /\ Top = stack[Len(stack)]
        /\ Len(stack') = Len(stack) /\ stack'[Len(stack)] = fr
        /\ \A i \in 1..Len(stack) : i # Len(stack) => stack'[i] = stack[i]
    BY SetTopShape
  <1>2. ASSUME NEW i \in 1..Len(stack')
        PROVE  Shallow(stack'[i], Now(i)') /\ Saved(stack'[i], i < Len(stack'))
               /\ (stack'[i].kind = "lambda" /\ stack'[i].phase = "init" => ~fail')
    <2>1. CASE i = Len(stack)
      <3>1. stack'[i] = fr /\ Now(i)' = objValue'
        BY <1>1, <2>1 DEF Now
      <3>2. (i < Len(stack')) = FALSE
        BY <1>1, <2>1
      <3>3. Saved(stack'[i], i < Len(stack'))
        BY <3>1, <3>2
      <3> QED BY <3>1, <3>3
    <2>2. CASE i # Len(stack)
      <3>1. i \in 1..Len(stack) /\ i + 1 \in 1..Len(stack) /\ i < Len(stack)
        BY <1>1, <2>2
      <3>2. stack'[i] = stack[i] /\ stack'[i + 1].entry = stack[i + 1].entry
        BY <1>1, <2>2, <3>1
      <3>3. Now(i)' = Now(i)
        BY <1>1, <2>2, <3>2 DEF Now
      <3>4. ~(stack[i].kind = "lambda" /\ stack[i].phase = "init")
        BY <3>1 DEF TypeInv, WellFormed, Waiting
      <3> QED BY <1>1, <3>1, <3>2, <3>3, <3>4 DEF Binding, SavedParams
    <2> QED BY <2>1, <2>2
  <1>3. Disciplined
    BY <1>1 DEF Disciplined, VariableStep
  <1> QED BY <1>2, <1>3 DEF Binding, SavedParams, BindsWithoutFailure

LEMMA AppendShape ==
  ASSUME TypeInv, stack # <<>>, NEW fr, NEW callee, stack' = Append(SetTop(fr), callee)
  PROVE  /\ Len(stack) \in Nat /\ Len(stack) >= 1 /\ Top = stack[Len(stack)]
         /\ Len(stack') = Len(stack) + 1 /\ stack'[Len(stack) + 1] = callee
         /\ stack'[Len(stack)] = fr
         /\ \A i \in 1..Len(stack) : i # Len(stack) => stack'[i] = stack[i]
  <1>1. stack \in Seq(Frame) /\ Len(stack) \in Nat /\ Len(stack) >= 1
    BY DEF TypeInv, TypeOK
  <1> DEFINE waiting == SetTop(fr)
  <1>2. waiting \in Seq(Frame \cup {fr})
    BY <1>1 DEF SetTop
  <1>3. /\ Len(waiting) = Len(stack) /\ waiting[Len(stack)] = fr /\ Top = stack[Len(stack)]
        /\ \A i \in 1..Len(stack) : i # Len(stack) => waiting[i] = stack[i]
    BY SetTopShape
  <1> HIDE DEF waiting
  <1>4. waiting \in Seq(Frame \cup {fr, callee}) /\ callee \in Frame \cup {fr, callee}
    BY <1>2
  <1>5. /\ Len(Append(waiting, callee)) = Len(waiting) + 1
        /\ Append(waiting, callee)[Len(waiting) + 1] = callee
        /\ \A i \in 1..Len(waiting) : Append(waiting, callee)[i] = waiting[i]
    BY <1>4
  <1>6. Len(stack) \in 1..Len(stack)
    BY <1>1
  <1> QED BY <1>1, <1>3, <1>5, <1>6 DEF waiting

LEMMA AppendBinding ==
  ASSUME BindingInv, stack # <<>>, NEW fr, NEW callee, stack' = Append(SetTop(fr), callee),
         fr.entry = Top.entry, objValue' = objValue, fail' = fail,
         fr.kind = "lambda" => fr.phase # "init",
         Shallow(fr, objValue), Saved(fr, TRUE), Bound(fr) = Bound(Top),
         callee.entry = objValue, callee.phase # "init", Bound(callee) = {},
         Shallow(callee, objValue), Saved(callee, FALSE)
  PROVE  Binding' /\ Disciplined
  <1> USE DEF BindingInv
  <1>1. /\ Len(stack) \in Nat /\ Len(stack) >= 1 /\ Top = stack[Len(stack)]
        /\ Len(stack') = Len(stack) + 1 /\ stack'[Len(stack) + 1] = callee
        /\ stack'[Len(stack)] = fr
        /\ \A i \in 1..Len(stack) : i # Len(stack) => stack'[i] = stack[i]
    BY AppendShape
  <1>2. ASSUME NEW i \in 1..Len(stack')
        PROVE  Shallow(stack'[i], Now(i)') /\ Saved(stack'[i], i < Len(stack'))
               /\ ~(stack'[i].kind = "lambda" /\ stack'[i].phase = "init")
    <2>1. CASE i = Len(stack) + 1
      <3>1. stack'[i] = callee /\ Now(i)' = objValue
        BY <1>1, <2>1 DEF Now
      <3>2. (i < Len(stack')) = FALSE
        BY <1>1, <2>1
      <3>3. Saved(stack'[i], i < Len(stack'))
        BY <3>1, <3>2
      <3> QED BY <3>1, <3>3
    <2>2. CASE i = Len(stack)
      <3>1. stack'[i] = fr /\ Now(i)' = objValue
        BY <1>1, <2>2 DEF Now
      <3>2. (i < Len(stack')) = TRUE
        BY <1>1, <2>2
      <3>3. Saved(stack'[i], i < Len(stack'))
        BY <3>1, <3>2
      <3> QED BY <3>1, <3>3
    <2>3. CASE i # Len(stack) /\ i # Len(stack) + 1
      <3>1. i \in 1..Len(stack) /\ i + 1 \in 1..Len(stack) /\ i < Len(stack) /\ i < Len(stack')
        BY <1>1, <2>3
      <3>2. stack'[i] = stack[i] /\ stack'[i + 1].entry = stack[i + 1].entry
        BY <1>1, <2>3, <3>1
      <3>3. Now(i)' = Now(i)
        BY <1>1, <2>3, <3>2 DEF Now
      <3>4. ~(stack[i].kind = "lambda" /\ stack[i].phase = "init")
        BY <3>1 DEF TypeInv, WellFormed, Waiting
      <3>5. (i < Len(stack')) = (i < Len(stack))
        BY <3>1
      <3> QED BY <3>1, <3>2, <3>3, <3>4, <3>5 DEF Binding, SavedParams
    <2> QED BY <2>1, <2>2, <2>3
  <1>3. Disciplined
    <2>1. VariableStep
      BY DEF VariableStep
    <2> QED BY <1>1, <2>1 DEF Disciplined
  <1> QED BY <1>2, <1>3 DEF Binding, SavedParams, BindsWithoutFailure

\* The value of an evaluated expression is received without disturbing what was saved.
LEMMA ReceiveBinding ==
  ASSUME NEW fr \in Frame, FrameOK(fr), Waiting(fr), NEW o \in Ref, NEW t \in BOOLEAN, NEW now,
         Shallow(fr, now), Saved(fr, TRUE)
  PROVE  LET new == Receive(fr, o, t)
         IN  /\ new.entry = fr.entry /\ Shallow(new, now) /\ Saved(new, FALSE)
             /\ (new.kind = "lambda" => new.phase # "init") /\ Bound(new) = Bound(fr)
  <1> DEFINE new == Receive(fr, o, t)
  <1>1. /\ new.entry = fr.entry /\ new.backup = fr.backup /\ new.kind = fr.kind /\ new.fn = fr.fn
        /\ new.phase # "init"
        /\ IF fr.phase = "args" THEN new.phase = "args" /\ new.evald = Append(fr.evald, o)
                                ELSE new.phase # "args" /\ new.evald = fr.evald
        /\ fr.kind = "lambda" /\ fr.phase = "body" => new.phase = "res_restore"
    <2>1. CASE fr.phase = "args"
      BY <2>1 DEF Receive, Frame
    <2>2. CASE fr.phase # "args"
      BY <2>2 DEF Receive, Frame, Phase
    <2> QED BY <2>1, <2>2
  <1>2. Bound(new) = Bound(fr)
    BY <1>1 DEF Bound, Waiting
  <1>3. Shallow(new, now)
    BY <1>1, <1>2 DEF Shallow
  <1>4. Saved(new, FALSE)
    <2>1. fr.evald \in Seq(Ref) /\ Len(fr.evald) \in Nat
      BY DEF Frame
    <2>2. fr.phase = "args" => Len(new.evald) = Len(fr.evald) + 1
      BY <1>1, <2>1
    <2>3. \A j \in 1..NPar(new) : j <= Len(fr.evald) + 1 => j <= Len(fr.evald) \/ j = Len(fr.evald) + 1
      BY <2>1
    <2> QED BY <1>1, <2>2, <2>3 DEF Saved, NPar
  <1> QED BY <1>1, <1>2, <1>3, <1>4

LEMMA ReturnBinding ==
  ASSUME BindingInv, stack # <<>>, NEW o \in Ref, NEW t \in BOOLEAN, Return(o, t),
         objValue' = Top.entry
  PROVE  Binding' /\ Disciplined
  <1> USE DEF BindingInv
  <1>0. /\ TypeOK /\ stack \in Seq(Frame) /\ Len(stack) \in Nat /\ Len(stack) >= 1
        /\ Top = stack[Len(stack)]
    BY DEF TypeInv, TypeOK, Top
  <1>d. Disciplined
    <2>1. VariableStep
      BY DEF VariableStep
    <2> QED BY <2>1 DEF Disciplined
  <1>1. CASE Len(stack) = 1 /\ stack' = <<>>
    <2>1. Len(stack') = 0
      BY <1>1
    <2> QED BY <1>d, <2>1 DEF Binding, SavedParams, BindsWithoutFailure
  <1>2. CASE Len(stack) >= 2
    <2>1. /\ Len(stack') = Len(stack) - 1
          /\ stack'[Len(stack) - 1] = Receive(Caller, o, t)
          /\ \A i \in 1..Len(stack) - 2 : stack'[i] = stack[i]
      BY <1>0, <1>2, TwoIsNotOne, ReturnShape
    <2>2. /\ Caller \in Frame /\ FrameOK(Caller) /\ Waiting(Caller)
          /\ Len(stack) - 1 \in 1..Len(stack) /\ Caller = stack[Len(stack) - 1]
      BY <1>0, <1>2 DEF Caller, TypeInv, WellFormed
    <2>3. Now(Len(stack) - 1) = Top.entry
      BY <1>0, <1>2 DEF Now
    <2>4. Shallow(Caller, Top.entry) /\ Saved(Caller, TRUE)
      <3>1. (Len(stack) - 1 < Len(stack)) = TRUE
        BY <1>0
      <3>2. Saved(Caller, Len(stack) - 1 < Len(stack))
        BY <2>2 DEF Binding, SavedParams
      <3> QED BY <2>2, <2>3, <3>1, <3>2 DEF Binding
    <2> DEFINE new == Receive(Caller, o, t)
    <2>5. /\ new.entry = Caller.entry /\ Shallow(new, Top.entry) /\ Saved(new, FALSE)
          /\ new.kind = "lambda" => new.phase # "init"
      BY <2>2, <2>4, ReceiveBinding
    <2> HIDE DEF new
    <2>6. ASSUME NEW i \in 1..Len(stack')
          PROVE  Shallow(stack'[i], Now(i)') /\ Saved(stack'[i], i < Len(stack'))
                 /\ ~(stack'[i].kind = "lambda" /\ stack'[i].phase = "init")
      <3>1. CASE i = Len(stack) - 1
        <4>1. stack'[i] = new /\ Now(i)' = Top.entry
          BY <1>0, <2>1, <3>1 DEF Now, new
        <4>2. (i < Len(stack')) = FALSE
          BY <1>0, <2>1, <3>1
        <4>3. Saved(stack'[i], i < Len(stack'))
          BY <2>5, <4>1, <4>2
        <4> QED BY <2>5, <4>1, <4>3
      <3>2. CASE i # Len(stack) - 1
        <4>1. i \in 1..Len(stack) - 2 /\ i \in 1..Len(stack) /\ i + 1 \in 1..Len(stack)
              /\ i + 1 <= Len(stack) - 1 /\ i < Len(stack) /\ i < Len(stack')
          BY <1>0, <2>1, <3>2
        <4>2. stack'[i] = stack[i]
          BY <2>1, <4>1
        <4>3. stack'[i + 1].entry = stack[i + 1].entry
          <5>1. CASE i + 1 = Len(stack) - 1
            BY <1>0, <2>1, <2>2, <2>5, <5>1 DEF new
          <5>2. CASE i + 1 # Len(stack) - 1
            <6>1. i + 1 \in 1..Len(stack) - 2
              BY <1>0, <4>1, <5>2
            <6> QED BY <2>1, <6>1
          <5> QED BY <5>1, <5>2
        <4>4. Now(i)' = Now(i)
          BY <1>0, <2>1, <3>2, <4>1, <4>3 DEF Now
        <4>5. ~(stack[i].kind = "lambda" /\ stack[i].phase = "init")
          BY <4>1 DEF TypeInv, WellFormed, Waiting
        <4>6. (i < Len(stack')) = (i < Len(stack))
          BY <4>1
        <4> QED BY <4>1, <4>2, <4>4, <4>5, <4>6 DEF Binding, SavedParams
      <3> QED BY <3>1, <3>2
    <2> QED BY <1>d, <2>6 DEF Binding, SavedParams, BindsWithoutFailure
  <1> QED BY <1>0, <1>1, <1>2, ReturnShape

-----------------------------------------------------------------------------
(* Steps that bind nothing *)

LEMMA TopBinding ==
  ASSUME BindingInv, stack # <<>>
  PROVE  /\ Shallow(Top, objValue) /\ Saved(Top, FALSE) /\ Top \in Frame /\ FrameOK(Top)
         /\ objValue \in [Slot -> Ref]
         /\ Top.entry \in [Slot -> Ref] /\ Top.backup \in [Slot -> Ref]
  <1>1. /\ Len(stack) \in Nat /\ Len(stack) >= 1 /\ Top = stack[Len(stack)]
        /\ objValue \in [Slot -> Ref]
    BY DEF BindingInv, TypeInv, TypeOK, Top
  <1>2. /\ Top \in Frame /\ FrameOK(Top)
        /\ Top.entry \in [Slot -> Ref] /\ Top.backup \in [Slot -> Ref]
    BY TopTyped DEF BindingInv
  <1>3. Shallow(Top, objValue)
    BY <1>1 DEF BindingInv, Binding, Now
  <1>4. (Len(stack) < Len(stack)) = FALSE
    BY <1>1
  <1>5. Saved(Top, Len(stack) < Len(stack))
    BY <1>1 DEF BindingInv, Binding, SavedParams
  <1> QED BY <1>1, <1>2, <1>3, <1>4, <1>5

\* An activation that has bound nothing has not changed anything.
LEMMA UnboundBinding ==
  ASSUME BindingInv, stack # <<>>, Bound(Top) = {}
  PROVE  objValue = Top.entry
  <1>1. /\ \A s \in Slot : objValue[s] = Top.entry[s]
        /\ objValue \in [Slot -> Ref] /\ Top.entry \in [Slot -> Ref]
    BY TopBinding DEF Shallow
  <1> QED BY <1>1

LEMMA StillBinding ==
  ASSUME BindingInv, stack' = stack, objValue' = objValue, fail' = fail
  PROVE  Binding' /\ Disciplined
  <1>1. Len(stack) \in Nat
    BY DEF BindingInv, TypeInv, TypeOK
  <1>2. Disciplined
    BY <1>1 DEF Disciplined, VariableStep
  <1> QED BY <1>1, <1>2 DEF BindingInv, Binding, SavedParams, BindsWithoutFailure, Now

\* exec_action, prc_block and the loops do not touch formal objects.
LEMMA PhaseBinding ==
  ASSUME BindingInv, stack # <<>>, Top.kind # "lambda", objValue' = objValue,
         NEW fr, fr.kind # "lambda", fr.entry = Top.entry, stack' = SetTop(fr)
  PROVE  Binding' /\ Disciplined
  <1>1. Bound(fr) = {} /\ Bound(Top) = {}
    BY DEF Bound
  <1>2. Shallow(fr, objValue') /\ Saved(fr, FALSE) /\ Rebinds(fr, objValue')
    BY <1>1, TopBinding DEF Shallow, Saved, Rebinds
  <1> QED BY <1>2, SetTopBinding

LEMMA FinishedBinding ==
  ASSUME BindingInv, stack # <<>>, Bound(Top) = {}, objValue' = objValue,
         NEW o \in Ref, NEW t \in BOOLEAN, Return(o, t)
  PROVE  Binding' /\ Disciplined
  BY UnboundBinding, ReturnBinding

LEMMA ActionBinding ==
  ASSUME BindingInv, Action
  PROVE  Binding' /\ Disciplined
  <1> USE DEF BindingInv
  <1>0. stack # <<>> /\ Top.kind # "lambda" /\ objValue' = objValue
    BY DEF Action, ActionStarts, ShowSignal, ActionFails, ActionReturnsTemp,
           ActionReturnsArgument, ActionReturnsEmpty, ActionRaises, DataReturned, BlockBody,
           Catch, BlockReturns, LoopStarts, LoopTest, LoopAgain, LoopFails, AtAction, Evaluated, Running,
           InBlock, InLoop
  <1>1. Top \in Frame /\ Top.evald \in Seq(Ref) /\ Bound(Top) = {}
    BY <1>0, TopTyped DEF Bound
  <1>2. Exc \in Ref /\ Empty \in Ref /\ Null \in Ref
    BY GlobalsTyped
  <1>3. ASSUME NEW p, NEW r, \/ stack' = SetTop([Top EXCEPT !.phase = p])
                            \/ stack' = SetTop([Top EXCEPT !.phase = p, !.result = r])
        PROVE  Binding' /\ Disciplined
    <2>1. /\ [Top EXCEPT !.phase = p].kind = Top.kind
          /\ [Top EXCEPT !.phase = p].entry = Top.entry
          /\ [Top EXCEPT !.phase = p, !.result = r].kind = Top.kind
          /\ [Top EXCEPT !.phase = p, !.result = r].entry = Top.entry
      BY <1>1 DEF Frame
    <2> QED BY <1>0, <1>3, <2>1, PhaseBinding
  <1>4. ASSUME NEW o \in Ref, NEW t \in BOOLEAN, Return(o, t)
        PROVE  Binding' /\ Disciplined
    BY <1>0, <1>1, <1>4, FinishedBinding
  <1>5. CASE ActionStarts \/ BlockBody \/ Catch \/ LoopStarts \/ LoopAgain
    <2>1. \E p : stack' = SetTop([Top EXCEPT !.phase = p])
      BY <1>5 DEF ActionStarts, BlockBody, Catch, LoopStarts, LoopAgain
    <2> QED BY <1>3, <2>1
  <1>6. CASE ShowSignal
    <2>1. CASE stack' = SetTop([Top EXCEPT !.phase = "run"])
      BY <1>3, <2>1
    <2>2. CASE stack' = stack
      <3>1. stack' = SetTop(Top)
        BY <1>0, <2>2 DEF SetTop, Top, TypeInv, TypeOK
      <3> QED BY <1>0, <3>1, PhaseBinding
    <2> QED BY <1>6, <2>1, <2>2 DEF ShowSignal
  <1>7. CASE ActionReturnsTemp
    <2>1. NewObj \in Ref /\ Return(NewObj, TRUE)
      BY <1>7, NewObjTyped DEF ActionReturnsTemp, Ref
    <2> QED BY <1>4, <2>1
  <1>8. CASE ActionReturnsArgument
    <2>1. PICK i \in DOMAIN Top.evald \ Top.bits : Return(Top.evald[i], FALSE)
      BY <1>8 DEF ActionReturnsArgument
    <2>2. Top.evald[i] \in Ref
      BY <1>1
    <2> QED BY <1>4, <2>1, <2>2
  <1>9. CASE ActionFails \/ ActionReturnsEmpty \/ ActionRaises \/ BlockReturns \/ LoopFails
    <2>1. Return(Exc, FALSE) \/ Return(Empty, FALSE)
      BY <1>9 DEF ActionFails, ActionReturnsEmpty, ActionRaises, BlockReturns, LoopFails
    <2> QED BY <1>2, <1>4, <2>1
  <1>10. CASE LoopTest
    <2>1. \/ stack' = SetTop([Top EXCEPT !.phase = "body", !.result = Null])
          \/ Return(Empty, FALSE)
      BY <1>10 DEF LoopTest
    <2> QED BY <1>2, <1>3, <1>4, <2>1
  <1>11. CASE DataReturned
    <2>1. PICK o \in Globals : Return(o, FALSE)
      BY <1>11, ConstantsAssumption DEF DataReturned
    <2> QED BY <1>4, <2>1, GlobalsTyped
  <1> QED BY <1>5, <1>6, <1>7, <1>8, <1>9, <1>10, <1>11 DEF Action

-----------------------------------------------------------------------------
(* Evaluation of expressions *)

\* par_init saves the value that a parameter had when the call began: nothing is
\* bound before all actual parameters have been evaluated.
LEMMA BeginBinding ==
  ASSUME BindingInv, stack # <<>>, Waiting(Top)
  PROVE  /\ Begin(Top).entry = Top.entry /\ Shallow(Begin(Top), objValue)
         /\ Saved(Begin(Top), TRUE)
         /\ Begin(Top).kind = "lambda" => Begin(Top).phase # "init"
         /\ Bound(Begin(Top)) = Bound(Top)
  <1>0. /\ Shallow(Top, objValue) /\ Saved(Top, FALSE) /\ Top \in Frame /\ FrameOK(Top)
        /\ Top.backup \in [Slot -> Ref]
    BY TopBinding
  <1>1. CASE Top.kind = "lambda" /\ Top.phase = "args"
    <2> DEFINE p == Params[Top.fn][Len(Top.evald) + 1]
               new == [Top EXCEPT !.backup[p] = objValue[p]]
    <2>1. /\ Top.fn \in Fun /\ Top.evald \in Seq(Ref) /\ Len(Top.evald) \in Nat
          /\ Len(Top.evald) < NPar(Top)
      BY <1>0, <1>1 DEF Frame, FrameOK, Waiting
    <2>2. NPar(Top) \in Nat /\ \A j \in 1..NPar(Top) : Params[Top.fn][j] \in Slot
      BY <2>1, FormalsTyped DEF NPar
    <2>3. p \in Slot
      BY <2>1, <2>2
    <2>4. /\ new.kind = "lambda" /\ new.phase = "args" /\ new.fn = Top.fn
          /\ new.entry = Top.entry /\ new.evald = Top.evald
          /\ new.backup = [Top.backup EXCEPT ![p] = objValue[p]]
      BY <1>0, <1>1 DEF Frame
    <2>5. Bound(new) = {} /\ Bound(Top) = {}
      BY <1>1, <2>4 DEF Bound
    <2>6. \A s \in Slot : objValue[s] = Top.entry[s]
      BY <1>0, <2>5 DEF Shallow
    <2>7. \A s \in Slot : new.backup[s] = IF s = p THEN new.entry[p] ELSE Top.backup[s]
      BY <1>0, <2>3, <2>4, <2>6
    <2>8. ASSUME NEW j \in 1..NPar(new), j <= Len(new.evald) \/ j = Len(new.evald) + 1
          PROVE  new.backup[Params[new.fn][j]] = new.entry[Params[new.fn][j]]
      <3>1. j \in 1..NPar(Top) /\ Params[Top.fn][j] \in Slot
        BY <2>2, <2>4 DEF NPar
      <3>2. CASE j = Len(Top.evald) + 1
        BY <2>4, <2>7, <3>1, <3>2
      <3>3. CASE j <= Len(Top.evald)
        <4>1. Top.backup[Params[Top.fn][j]] = Top.entry[Params[Top.fn][j]]
          BY <1>0, <1>1, <3>1, <3>3 DEF Saved
        <4> QED BY <2>4, <2>7, <3>1, <4>1
      <3> QED BY <2>4, <2>8, <3>2, <3>3
    <2>9. Saved(new, TRUE)
      BY <2>4, <2>8 DEF Saved
    <2>10. Shallow(new, objValue)
      BY <2>4, <2>5, <2>6 DEF Shallow
    <2>11. Begin(Top) = new
      BY <1>1 DEF Begin
    <2> QED BY <2>4, <2>5, <2>9, <2>10, <2>11
  <1>2. CASE ~(Top.kind = "lambda" /\ Top.phase = "args")
    <2>1. Begin(Top) = Top
      BY <1>2 DEF Begin
    <2>2. Saved(Top, TRUE)
      BY <1>0, <1>2 DEF Saved
    <2> QED BY <1>0, <1>2, <2>1, <2>2 DEF Waiting
  <1> QED BY <1>1, <1>2

\* A new activation has saved and bound nothing.
LEMMA CalleeBinding ==
  ASSUME NEW depth, NEW sort, NEW fr \in Callees(depth, sort)
  PROVE  /\ fr.entry = objValue /\ fr.phase = "args" /\ Shallow(fr, objValue) /\ Saved(fr, FALSE)
         /\ Bound(fr) = {}
  <1>1. PICK kind, f, arity : fr = Activation(kind, f, sort, arity)
    BY DEF Callees
  <1>2. fr.entry = objValue /\ fr.phase = "args" /\ fr.evald = <<>>
    BY <1>1 DEF Activation
  <1>3. Bound(fr) = {}
    BY <1>2 DEF Bound
  <1>4. Len(fr.evald) = 0
    BY <1>2
  <1>5. Saved(fr, FALSE)
    BY <1>2, <1>4 DEF Saved
  <1>6. Shallow(fr, objValue)
    BY <1>2, <1>3 DEF Shallow
  <1> QED BY <1>2, <1>3, <1>5, <1>6

\* The value of a variable or literal.
LEMMA LeafTyped ==
  ASSUME TypeInv
  PROVE  Leaves \subseteq Ref
  <1>1. objValue \in [Slot -> Ref] /\ Globals \subseteq Ref
    BY GlobalsTyped DEF TypeInv, TypeOK
  <1>2. \A i \in Scopes : stack[i].fn \in Fun
    BY DEF Scopes, TypeInv, TypeOK, WellFormed, FrameOK
  <1>3. InScope \subseteq Slot
    BY <1>2 DEF InScope, Slot
  <1> QED BY <1>1, <1>3 DEF Leaves

LEMMA EvaluationBinding ==
  ASSUME BindingInv, EvalLeaf \/ Call
  PROVE  Binding' /\ Disciplined
  <1> USE DEF BindingInv
  <1>0. objValue \in [Slot -> Ref]
    BY DEF TypeInv, TypeOK
  <1>1. CASE EvalLeaf
    <2>1. Evaluating("value") /\ objValue' = objValue
      BY <1>1 DEF EvalLeaf
    <2>2. PICK o \in Leaves : stack' = SetTop(Receive(Begin(Top), o, heap[o] = "temp"))
      BY <1>1 DEF EvalLeaf
    <2>3. stack # <<>> /\ Top \in Frame /\ FrameOK(Top) /\ Waiting(Top)
      BY <2>1, EvaluatingWaits
    <2>4. Begin(Top) \in Frame /\ FrameOK(Begin(Top)) /\ Waiting(Begin(Top))
      BY <1>0, <2>3, BeginTyped
    <2>5. o \in Ref
      BY LeafTyped
    <2>6. (heap[o] = "temp") \in BOOLEAN
      OBVIOUS
    <2>7. /\ Begin(Top).entry = Top.entry /\ Shallow(Begin(Top), objValue)
          /\ Saved(Begin(Top), TRUE) /\ Bound(Begin(Top)) = Bound(Top)
      BY <2>3, BeginBinding
    <2> DEFINE new == Receive(Begin(Top), o, heap[o] = "temp")
    <2>8. /\ new.entry = Begin(Top).entry /\ Shallow(new, objValue) /\ Saved(new, FALSE)
          /\ (new.kind = "lambda" => new.phase # "init") /\ Bound(new) = Bound(Begin(Top))
      BY <2>4, <2>5, <2>6, <2>7, ReceiveBinding
    <2> HIDE DEF new
    <2>9. stack' = SetTop(new)
      BY <2>2 DEF new
    <2>10. Rebinds(new, objValue')
      BY <2>1, <2>7, <2>8 DEF Rebinds
    <2> QED BY <2>1, <2>3, <2>7, <2>8, <2>9, <2>10, SetTopBinding
  <1>2. CASE Call
    <2>1. PICK sort \in Sort : /\ Evaluating(sort)
                               /\ \E fr \in Callees(Len(stack) + 1, sort) :
                                     stack' = Append(SetTop(Begin(Top)), fr)
      BY <1>2 DEF Call
    <2>2. PICK fr \in Callees(Len(stack) + 1, sort) : stack' = Append(SetTop(Begin(Top)), fr)
      BY <2>1
    <2>3. stack # <<>> /\ Waiting(Top)
      BY <2>1, EvaluatingWaits
    <2>4. /\ Begin(Top).entry = Top.entry /\ Shallow(Begin(Top), objValue)
          /\ Saved(Begin(Top), TRUE) /\ Bound(Begin(Top)) = Bound(Top)
          /\ Begin(Top).kind = "lambda" => Begin(Top).phase # "init"
      BY <2>3, BeginBinding
    <2>5. /\ fr.entry = objValue /\ fr.phase = "args" /\ Shallow(fr, objValue) /\ Saved(fr, FALSE)
          /\ Bound(fr) = {}
      BY CalleeBinding
    <2>6. objValue' = objValue /\ fail' = fail
      BY <1>2 DEF Call
    <2> DEFINE waiting == Begin(Top)
    <2> HIDE DEF waiting
    <2>7. stack' = Append(SetTop(waiting), fr)
      BY <2>2 DEF waiting
    <2> QED BY <2>3, <2>4, <2>5, <2>6, <2>7, AppendBinding DEF waiting
  <1> QED BY <1>1, <1>2

-----------------------------------------------------------------------------
(* exec_lambda *)

\* A formal has one role in its function.
LEMMA RolesDistinct ==
  ASSUME NEW f \in Fun
  PROVE  /\ \A i \in 1..Len(Params[f]), j \in 1..Len(Locals[f]) : Params[f][i] # Locals[f][j]
         /\ \A i, j \in 1..Len(Locals[f]) : Locals[f][i] = Locals[f][j] => i = j
         /\ \A i \in 1..Len(Params[f]) : Params[f][i] # ResultOf[f]
         /\ \A i \in 1..Len(Locals[f]) : Locals[f][i] # ResultOf[f]
         /\ DOMAIN Params[f] = 1..Len(Params[f]) /\ DOMAIN Locals[f] = 1..Len(Locals[f])
         /\ RangeOf(Params[f]) = {Params[f][i] : i \in 1..Len(Params[f])}
         /\ RangeOf(Locals[f]) = {Locals[f][i] : i \in 1..Len(Locals[f])}
  <1>1. DOMAIN Params[f] = 1..Len(Params[f]) /\ DOMAIN Locals[f] = 1..Len(Locals[f])
    BY FormalsTyped
  <1>2. /\ RangeOf(Params[f]) \cap RangeOf(Locals[f]) = {}
        /\ ResultOf[f] \notin RangeOf(Params[f]) \cup RangeOf(Locals[f])
        /\ \A i, j \in DOMAIN Locals[f] : Locals[f][i] = Locals[f][j] => i = j
    BY FormalsAssumption
  <1> QED BY <1>1, <1>2 DEF RangeOf

\* The first k - 1 parameters and locals of an activation that is initialised are bound.
LEMMA BoundInInit ==
  ASSUME NEW fr, fr.kind = "lambda", fr.phase = "init", fr.fn \in Fun, NEW s
  PROVE  s \in Bound(fr) <=>
           \/ \E i \in 1..Len(Params[fr.fn]) : i < fr.k /\ s = Params[fr.fn][i]
           \/ \E i \in 1..Len(Locals[fr.fn]) :
                  Len(Params[fr.fn]) + i < fr.k /\ s = Locals[fr.fn][i]
  BY RolesDistinct DEF Bound

LEMMA LambdaTop ==
  ASSUME BindingInv, stack # <<>>, Top.kind = "lambda"
  PROVE  /\ Shallow(Top, objValue) /\ Saved(Top, FALSE) /\ Top \in Frame /\ Top.fn \in Fun
         /\ Len(Params[Top.fn]) \in Nat /\ Len(Locals[Top.fn]) \in Nat /\ Top.k \in Nat /\ Top.k >= 1
         /\ objValue \in [Slot -> Ref] /\ Top.entry \in [Slot -> Ref]
         /\ Top.backup \in [Slot -> Ref]
         /\ Top.phase = "init" => ~fail
  <1>1. /\ Shallow(Top, objValue) /\ Saved(Top, FALSE) /\ Top \in Frame /\ FrameOK(Top)
        /\ objValue \in [Slot -> Ref] /\ Top.entry \in [Slot -> Ref]
        /\ Top.backup \in [Slot -> Ref]
    BY TopBinding
  <1>2. Top.fn \in Fun /\ Top.k \in Nat /\ Top.k >= 1
    BY <1>1 DEF FrameOK, Frame
  <1>3. Len(Params[Top.fn]) \in Nat /\ Len(Locals[Top.fn]) \in Nat
    BY <1>2, FormalsTyped
  <1>4. Len(stack) \in 1..Len(stack) /\ Top = stack[Len(stack)]
    BY DEF BindingInv, TypeInv, TypeOK, Top
  <1>5. Top.phase = "init" => ~fail
    BY <1>4 DEF BindingInv, Binding, BindsWithoutFailure
  <1> QED BY <1>1, <1>2, <1>3, <1>5

\* One more parameter gets its value in par_init.
LEMMA BindBinding ==
  ASSUME BindingInv, stack # <<>>, Top.kind = "lambda", Top.phase = "init", Top.k <= NPar(Top),
         NEW v, objValue' = [objValue EXCEPT ![Params[Top.fn][Top.k]] = v], ~fail',
         NEW fr, stack' = SetTop(fr), fr.kind = "lambda", fr.phase = "init", fr.fn = Top.fn,
         fr.entry = Top.entry, fr.backup = Top.backup, fr.k = Top.k + 1
  PROVE  Binding' /\ Disciplined
  <1> DEFINE params == Params[Top.fn]
             p == params[Top.k]
  <1>1. /\ Shallow(Top, objValue) /\ Saved(Top, FALSE) /\ Top.fn \in Fun
        /\ Len(params) \in Nat /\ Len(Locals[Top.fn]) \in Nat /\ Top.k \in Nat /\ Top.k >= 1
        /\ objValue \in [Slot -> Ref]
    BY LambdaTop
  <1>2. Top.k \in 1..Len(params)
    BY <1>1 DEF NPar
  <1>3. p \in Slot /\ Top.backup[p] = Top.entry[p]
    BY <1>1, <1>2, FormalsTyped DEF Saved, NPar
  <1>4. ASSUME NEW s \in Slot PROVE s \in Bound(fr) <=> s \in Bound(Top) \/ s = p
    <2>1. /\ \A i \in 1..Len(params) : i < Top.k + 1 <=> i < Top.k \/ i = Top.k
          /\ \A i \in 1..Len(Locals[Top.fn]) :
                ~(Len(params) + i < Top.k) /\ ~(Len(params) + i < Top.k + 1)
      BY <1>1, <1>2
    <2>2. s \in Bound(Top) <=> \E i \in 1..Len(params) : i < Top.k /\ s = params[i]
      BY <1>1, <2>1, BoundInInit
    <2>3. s \in Bound(fr) <=> \E i \in 1..Len(params) : i < Top.k + 1 /\ s = params[i]
      BY <1>1, <2>1, BoundInInit, SMTT(30)
    <2> QED BY <1>2, <2>1, <2>2, <2>3
  <1>5. Shallow(fr, objValue')
    <2>1. \A s \in Slot : s # p => objValue'[s] = objValue[s]
      BY <1>1
    <2> QED BY <1>1, <1>3, <1>4, <2>1 DEF Shallow
  <1>7. p \notin Bound(Top)
    <2>1. \A i \in 1..Len(params) : i < Top.k => params[i] # p
      BY <1>1, <1>2, FormalsAssumption, RolesDistinct
    <2>2. \A i \in 1..Len(Locals[Top.fn]) : ~(Len(params) + i < Top.k)
      BY <1>1, <1>2
    <2> QED BY <1>1, <2>1, <2>2, BoundInInit
  <1>8. Rebinds(fr, objValue')
    <2>1. \A s \in Slot : s # p => objValue'[s] = objValue[s]
      BY <1>1
    <2> HIDE DEF p
    <2> QED BY <1>3, <1>4, <1>7, <2>1 DEF Rebinds
  <1>6. Saved(fr, FALSE)
    BY <1>1 DEF Saved, NPar
  <1> QED BY <1>5, <1>6, <1>8, SetTopBinding

\* par_init, when create calls succeed.
LEMMA ParInitBinding ==
  ASSUME BindingInv, CreateOutcomes = {"ok"},
         ParInitFails \/ ParInitEvaluated \/ BindTemp \/ BindRef \/ BindValue \/ ParInitInterrupted
  PROVE  Binding' /\ Disciplined
  <1>0. stack # <<>> /\ Top.kind = "lambda"
    BY DEF ParInitFails, ParInitEvaluated, BindTemp, BindRef, BindValue,
           ParInitInterrupted, InLambda
  <1>1. /\ Shallow(Top, objValue) /\ Saved(Top, FALSE) /\ Top \in Frame /\ Top.fn \in Fun
        /\ Len(Params[Top.fn]) \in Nat /\ Len(Locals[Top.fn]) \in Nat
        /\ Top.phase = "init" => ~fail
    BY <1>0, LambdaTop
  <1>2. CASE ParInitFails
    <2>1. /\ Exc \in Ref /\ Return(Exc, FALSE) /\ objValue' = objValue
          /\ Bound(Top) = {}
      BY <1>2, GlobalsTyped DEF ParInitFails, InLambda, Bound
    <2> QED BY <1>0, <2>1, FinishedBinding
  <1>3. CASE ParInitEvaluated
    <2> DEFINE fr == [Top EXCEPT !.phase = "init"]
    <2>1. /\ Top.phase = "args" /\ ~fail /\ Len(Top.evald) = Top.arity /\ stack' = SetTop(fr)
          /\ objValue' = objValue /\ fail' = fail
      BY <1>3 DEF ParInitEvaluated, InLambda
    <2>2. /\ fr.kind = "lambda" /\ fr.phase = "init" /\ fr.fn = Top.fn /\ fr.entry = Top.entry
          /\ fr.backup = Top.backup /\ fr.k = Top.k
      BY <1>0, <1>1 DEF Frame
    <2>3. Top.k = 1 /\ Top.arity = NPar(Top) /\ Top.arity \in Nat
      BY <1>0, <2>1, TopTyped DEF BindingInv, FrameOK
    <2>4. Bound(fr) = {}
      <3>1. \A i \in 1..Len(Params[fr.fn]) : ~(i < fr.k)
        BY <2>2, <2>3, <1>1
      <3>2. \A i \in 1..Len(Locals[fr.fn]) : ~(Len(Params[fr.fn]) + i < fr.k)
        BY <2>2, <2>3, <1>1
      <3> QED BY <1>1, <2>2, <3>1, <3>2, BoundInInit
    <2>5. Bound(Top) = {}
      BY <2>1 DEF Bound
    <2>6. Shallow(fr, objValue')
      BY <1>1, <2>1, <2>2, <2>4, <2>5 DEF Shallow
    <2>7. Saved(fr, FALSE)
      <3>1. \A j \in 1..NPar(Top) : j <= Len(Top.evald)
        BY <2>1, <2>3
      <3> QED BY <1>0, <1>1, <2>2, <3>1 DEF Saved, NPar
    <2>8. Rebinds(fr, objValue')
      BY <2>4 DEF Rebinds
    <2> HIDE DEF fr
    <2> QED BY <1>0, <2>1, <2>2, <2>6, <2>7, <2>8, SetTopBinding
  <1>4. CASE BindTemp \/ BindRef
    <2> DEFINE p == Params[Top.fn][Top.k]
               v == Top.evald[Top.k]
    <2>1. /\ Top.phase = "init" /\ Top.k <= NPar(Top) /\ objValue' = [objValue EXCEPT ![p] = v]
          /\ fail' = fail
          /\ \E w : stack' = SetTop([Top EXCEPT !.k = @ + 1, !.evald[Top.k] = w])
      BY <1>4 DEF BindTemp, BindRef, InLambda
    <2>2. PICK w : stack' = SetTop([Top EXCEPT !.k = @ + 1, !.evald[Top.k] = w])
      BY <2>1
    <2> DEFINE fr == [Top EXCEPT !.k = @ + 1, !.evald[Top.k] = w]
    <2>3. /\ fr.kind = "lambda" /\ fr.phase = "init" /\ fr.fn = Top.fn /\ fr.entry = Top.entry
          /\ fr.backup = Top.backup /\ fr.k = Top.k + 1
      BY <1>0, <1>1, <2>1 DEF Frame
    <2>4. stack' = SetTop(fr)
      BY <2>2
    <2> HIDE DEF fr
    <2> QED BY <1>0, <1>1, <2>1, <2>3, <2>4, BindBinding
  <1>5. CASE BindValue
    <2> DEFINE p == Params[Top.fn][Top.k]
               v == Top.evald[Top.k]
    <2>1. Top.phase = "init" /\ Top.k <= NPar(Top) /\ ~fail
      BY <1>1, <1>5 DEF BindValue, InLambda
    <2>2. /\ CreateLocalObject(p, "ok", ClearTemp2(v))
          /\ stack' = SetTop([Top EXCEPT !.k = @ + 1])
      BY <1>5, <2>1 DEF BindValue, PossibleOutcomes
    <2> DEFINE fr == [Top EXCEPT !.k = @ + 1]
    <2>3. /\ fr.kind = "lambda" /\ fr.phase = "init" /\ fr.fn = Top.fn /\ fr.entry = Top.entry
          /\ fr.backup = Top.backup /\ fr.k = Top.k + 1
      BY <1>0, <1>1, <2>1 DEF Frame
    <2>4. objValue' = [objValue EXCEPT ![p] = NewObj] /\ ~fail'
      BY <2>2 DEF CreateLocalObject
    <2>5. stack' = SetTop(fr)
      BY <2>2
    <2> HIDE DEF fr
    <2> QED BY <1>0, <2>1, <2>3, <2>4, <2>5, BindBinding
  <1>6. CASE ParInitInterrupted
    BY <1>1, <1>6 DEF ParInitInterrupted, InLambda
  <1> QED BY <1>2, <1>3, <1>4, <1>5, <1>6

\* A local variable or the result gets its value: its old value is saved first.
LEMMA SaveAndBind ==
  ASSUME BindingInv, stack # <<>>, Top.kind = "lambda", Top.phase = "init",
         NEW s \in Slot, s \notin Bound(Top), s \notin RangeOf(Params[Top.fn]),
         NEW v, objValue' = [objValue EXCEPT ![s] = v], ~fail',
         NEW fr, stack' = SetTop(fr), fr.kind = "lambda", fr.fn = Top.fn,
         fr.entry = Top.entry, fr.backup = [Top.backup EXCEPT ![s] = objValue[s]],
         \A t \in Slot : t \in Bound(fr) <=> t \in Bound(Top) \/ t = s
  PROVE  Binding' /\ Disciplined
  <1>1. /\ Shallow(Top, objValue) /\ Saved(Top, FALSE) /\ Top.fn \in Fun
        /\ objValue \in [Slot -> Ref] /\ Top.backup \in [Slot -> Ref]
    BY LambdaTop
  <1>2. objValue[s] = Top.entry[s]
    BY <1>1 DEF Shallow
  <1>3. /\ \A t \in Slot : t # s => objValue'[t] = objValue[t] /\ fr.backup[t] = Top.backup[t]
        /\ fr.backup[s] = Top.entry[s]
    BY <1>1, <1>2
  <1>4. Shallow(fr, objValue')
    BY <1>1, <1>3 DEF Shallow
  <1>5. ASSUME NEW j \in 1..NPar(Top)
        PROVE  fr.backup[Params[Top.fn][j]] = fr.entry[Params[Top.fn][j]]
    <2>1. Params[Top.fn][j] \in Slot /\ Params[Top.fn][j] # s
      <3>1. j \in 1..Len(Params[Top.fn]) /\ Top.fn \in Fun
        BY <1>1 DEF NPar
      <3>2. Params[Top.fn][j] \in Slot
        BY <3>1, FormalsTyped
      <3>3. RangeOf(Params[Top.fn]) = {Params[Top.fn][i] : i \in 1..Len(Params[Top.fn])}
        BY <3>1, RolesDistinct
      <3> QED BY <3>1, <3>2, <3>3
    <2>2. Top.backup[Params[Top.fn][j]] = Top.entry[Params[Top.fn][j]]
      BY <1>1 DEF Saved
    <2> QED BY <1>3, <2>1, <2>2
  <1>6. Saved(fr, FALSE)
    BY <1>5 DEF Saved, NPar
  <1>7. Rebinds(fr, objValue')
    BY <1>3 DEF Rebinds
  <1> QED BY <1>4, <1>6, <1>7, SetTopBinding

\* loc_init and res_init, when create calls succeed.
LEMMA LocalsInitBinding ==
  ASSUME BindingInv, CreateOutcomes = {"ok"},
         LocInit \/ LocInitInterrupted \/ ResInit \/ ResInitFails
  PROVE  Binding' /\ Disciplined
  <1>0. stack # <<>> /\ Top.kind = "lambda" /\ Top.phase = "init"
    BY DEF LocInit, LocInitInterrupted, ResInit, ResInitFails, LocalsReady, InLambda
  <1> DEFINE params == Params[Top.fn]
             locals == Locals[Top.fn]
  <1>1. /\ Shallow(Top, objValue) /\ Saved(Top, FALSE) /\ Top \in Frame /\ Top.fn \in Fun
        /\ Len(params) \in Nat /\ Len(locals) \in Nat /\ Top.k \in Nat /\ ~fail
        /\ objValue \in [Slot -> Ref] /\ Top.backup \in [Slot -> Ref]
    BY <1>0, LambdaTop
  <1>2. CASE LocInit
    <2> DEFINE n == Top.k - Len(params)
               l == locals[n]
               fr == [Top EXCEPT !.k = @ + 1, !.backup[l] = objValue[l]]
    <2>1. n \in 1..Len(locals) /\ Top.k = Len(params) + n
      <3>1. Len(params) < Top.k /\ Top.k <= Len(params) + Len(locals)
        BY <1>2 DEF LocInit, NPar, NLoc
      <3>2. Len(params) \in Nat /\ Len(locals) \in Nat /\ Top.k \in Nat
        BY <1>1
      <3> HIDE DEF params, locals
      <3> QED BY <3>1, <3>2
    <2>2. CreateLocalObject(l, "ok", heap) /\ stack' = SetTop(fr)
      BY <1>1, <1>2 DEF LocInit, PossibleOutcomes, NPar
    <2>3. l \in Slot /\ l \notin RangeOf(params)
      <3>1. l \in Slot
        BY <1>1, <2>1, FormalsTyped
      <3>2. /\ \A i \in 1..Len(params) : params[i] # l
            /\ RangeOf(params) = {params[i] : i \in 1..Len(params)}
        BY <1>1, <2>1, RolesDistinct
      <3> QED BY <3>1, <3>2
    <2>4. /\ fr.kind = "lambda" /\ fr.phase = "init" /\ fr.fn = Top.fn /\ fr.entry = Top.entry
          /\ fr.backup = [Top.backup EXCEPT ![l] = objValue[l]] /\ fr.k = Top.k + 1
      BY <1>0, <1>1 DEF Frame
    <2> HIDE DEF fr, n, l
    <2>5. \A i \in 1..Len(locals) : /\ Len(params) + i < Top.k <=> i < n
                                    /\ Len(params) + i < Top.k + 1 <=> i < n \/ i = n
      BY <1>1, <2>1
    <2>6. \A i \in 1..Len(params) : i < Top.k /\ i < Top.k + 1
      BY <1>1, <2>1
    <2>7. l \notin Bound(Top)
      <3>0. \A i \in 1..Len(locals) : i < n => i # n
        BY <2>1
      <3>1. \A i \in 1..Len(locals) : i < n => locals[i] # l
        BY <1>1, <2>1, <3>0, RolesDistinct DEF l
      <3>2. \A i \in 1..Len(params) : params[i] # l
        BY <1>1, <2>1, RolesDistinct DEF l
      <3> QED BY <1>0, <1>1, <2>5, <3>1, <3>2, BoundInInit
    <2>8. ASSUME NEW t \in Slot PROVE t \in Bound(fr) <=> t \in Bound(Top) \/ t = l
      <3>1. t \in Bound(Top) <=> \/ \E i \in 1..Len(params) : t = params[i]
                                \/ \E i \in 1..Len(locals) : i < n /\ t = locals[i]
        BY <1>0, <1>1, <2>5, <2>6, BoundInInit
      <3>2. t \in Bound(fr) <=>
              \/ \E i \in 1..Len(params) : i < Top.k + 1 /\ t = params[i]
              \/ \E i \in 1..Len(locals) : Len(params) + i < Top.k + 1 /\ t = locals[i]
        <4>1. fr.fn \in Fun
          BY <1>1, <2>4
        <4>2. t \in Bound(fr) <=>
                \/ \E i \in 1..Len(Params[fr.fn]) : i < fr.k /\ t = Params[fr.fn][i]
                \/ \E i \in 1..Len(Locals[fr.fn]) :
                       Len(Params[fr.fn]) + i < fr.k /\ t = Locals[fr.fn][i]
          BY <2>4, <4>1, BoundInInit, ZenonT(40)
        <4> QED BY <2>4, <4>2
      <3>3. t \in Bound(fr) <=> \/ \E i \in 1..Len(params) : t = params[i]
                               \/ \E i \in 1..Len(locals) : (i < n \/ i = n) /\ t = locals[i]
        BY <2>5, <2>6, <3>2
      <3> QED BY <2>1, <3>1, <3>3 DEF l
    <2>9. objValue' = [objValue EXCEPT ![l] = NewObj] /\ ~fail'
      BY <2>2 DEF CreateLocalObject
    <2> QED BY <1>0, <2>2, <2>3, <2>4, <2>7, <2>8, <2>9, SaveAndBind
  <1>3. CASE ResInit
    <2> DEFINE r == ResultOf[Top.fn]
    <2>1. Top.k = Len(params) + Len(locals) + 1
      BY <1>3 DEF ResInit, LocalsReady, NPar, NLoc
    <2>2. \A t : t \in Bound(Top) <=> t \in RangeOf(params) \/ t \in RangeOf(locals)
      <3>1. /\ \A i \in 1..Len(params) : i < Top.k
            /\ \A i \in 1..Len(locals) : Len(params) + i < Top.k
        <4>1. Len(params) \in Nat /\ Len(locals) \in Nat
          BY <1>1
        <4> HIDE DEF params, locals
        <4> QED BY <2>1, <4>1
      <3>2. /\ RangeOf(params) = {params[i] : i \in 1..Len(params)}
            /\ RangeOf(locals) = {locals[i] : i \in 1..Len(locals)}
        BY <1>1, RolesDistinct
      <3>3. \A t : t \in Bound(Top) <=> \/ \E i \in 1..Len(params) : t = params[i]
                                      \/ \E i \in 1..Len(locals) : t = locals[i]
        BY <1>0, <1>1, <3>1, BoundInInit
      <3> QED BY <3>2, <3>3
    <2>3. CASE r = Null
      <3> DEFINE fr == [Top EXCEPT !.phase = "body"]
      <3>1. stack' = SetTop(fr) /\ objValue' = objValue /\ fail' = fail
        BY <1>3, <2>3 DEF ResInit
      <3>2. /\ fr.kind = "lambda" /\ fr.phase = "body" /\ fr.fn = Top.fn /\ fr.entry = Top.entry
            /\ fr.backup = Top.backup
        BY <1>0, <1>1 DEF Frame
      <3>3. Bound(fr) = Formals(Top.fn)
        BY <3>2 DEF Bound
      <3>4. \A t : t \in Bound(fr) <=> t \in Bound(Top)
        BY <2>2, <2>3, <3>3 DEF Formals
      <3>5. Shallow(fr, objValue') /\ Saved(fr, FALSE)
        BY <1>0, <1>1, <3>1, <3>2, <3>4 DEF Shallow, Saved, NPar
      <3>6. Rebinds(fr, objValue')
        BY <3>1, <3>4 DEF Rebinds
      <3> HIDE DEF fr
      <3> QED BY <1>0, <3>1, <3>2, <3>5, <3>6, SetTopBinding
    <2>4. CASE r # Null
      <3> DEFINE fr == [Top EXCEPT !.phase = "body", !.backup[r] = objValue[r]]
      <3>1. stack' = SetTop(fr) /\ CreateLocalObject(r, "ok", heap)
        BY <1>3, <2>4 DEF ResInit
      <3>2. /\ fr.kind = "lambda" /\ fr.phase = "body" /\ fr.fn = Top.fn /\ fr.entry = Top.entry
            /\ fr.backup = [Top.backup EXCEPT ![r] = objValue[r]]
        BY <1>0, <1>1 DEF Frame
      <3>3. r \in Slot /\ r \notin RangeOf(params) /\ r \notin RangeOf(locals)
        BY <1>1, <2>4, FormalsTyped, FormalsAssumption
      <3>4. Bound(fr) = Formals(Top.fn)
        BY <3>2 DEF Bound
      <3>5. \A t \in Slot : t \in Bound(fr) <=> t \in Bound(Top) \/ t = r
        BY <2>2, <2>4, <3>4 DEF Formals
      <3>6. objValue' = [objValue EXCEPT ![r] = NewObj] /\ ~fail'
        BY <3>1 DEF CreateLocalObject
      <3> HIDE DEF fr
      <3> QED BY <1>0, <2>2, <3>1, <3>2, <3>3, <3>5, <3>6, SaveAndBind
    <2> QED BY <2>3, <2>4
  <1>4. CASE LocInitInterrupted
    BY <1>1, <1>4 DEF LocInitInterrupted
  <1>5. CASE ResInitFails
    BY <1>5 DEF ResInitFails
  <1> QED BY <1>2, <1>3, <1>4, <1>5

\* Formals are given back: what was bound gets the saved value.
LEMMA UnbindBinding ==
  ASSUME BindingInv, stack # <<>>, Top.kind = "lambda", Top.phase # "args", NEW S,
         objValue' \in [Slot -> Ref],
         \A s \in Slot : objValue'[s] = IF s \in S THEN Top.backup[s] ELSE objValue[s],
         NEW fr, stack' = SetTop(fr), fr.kind = "lambda", fr.phase # "init", fr.fn = Top.fn,
         fr.entry = Top.entry, fr.backup = Top.backup,
         S \subseteq Bound(Top),
         \A s \in Slot : s \in Bound(fr) <=> s \in Bound(Top) /\ s \notin S
  PROVE  Binding' /\ Disciplined
  <1>1. Shallow(Top, objValue) /\ Saved(Top, FALSE)
    BY LambdaTop
  <1>2. Shallow(fr, objValue') /\ Saved(fr, FALSE)
    BY <1>1 DEF Shallow, Saved, NPar
  <1>3. Rebinds(fr, objValue')
    BY DEF Rebinds
  <1> QED BY <1>2, <1>3, SetTopBinding

\* res_restore, loc_restore and par_restore.
LEMMA RestoreBinding ==
  ASSUME BindingInv, ResRestoreVar \/ ResRestoreCopy \/ ResRestoreKeep \/ LocRestore \/ ParRestore
  PROVE  Binding' /\ Disciplined
  <1>0. stack # <<>> /\ Top.kind = "lambda"
        /\ Top.phase \in {"res_restore", "loc_restore", "par_restore"}
    BY DEF ResRestoreVar, ResRestoreCopy, ResRestoreKeep, LocRestore, ParRestore, InLambda
  <1> DEFINE params == Params[Top.fn]
             locals == Locals[Top.fn]
             r == ResultOf[Top.fn]
  <1>1. /\ Shallow(Top, objValue) /\ Top \in Frame /\ Top.fn \in Fun
        /\ objValue \in [Slot -> Ref] /\ Top.backup \in [Slot -> Ref]
        /\ Top.entry \in [Slot -> Ref]
    BY <1>0, LambdaTop
  <1>2. /\ r \notin RangeOf(params) /\ r \notin RangeOf(locals)
        /\ \A s : ~(s \in RangeOf(params) /\ s \in RangeOf(locals))
    BY <1>1, FormalsAssumption
  <1>3. /\ Top.phase = "res_restore" => Bound(Top) = Formals(Top.fn)
        /\ Top.phase = "loc_restore" => Bound(Top) = RangeOf(params) \cup RangeOf(locals)
        /\ Top.phase = "par_restore" => Bound(Top) = RangeOf(params)
    BY <1>0 DEF Bound
  <1>4. /\ Formals(Top.fn) = RangeOf(params) \cup RangeOf(locals) \cup ({r} \ {Null})
        /\ r # Null => r \in Slot
    BY <1>1, FormalsTyped DEF Formals
  <1>5. ASSUME NEW q, NEW fr, fr \in {[Top EXCEPT !.phase = "loc_restore"],
                                     [Top EXCEPT !.phase = "loc_restore", !.result = q]}
        PROVE  /\ fr.kind = "lambda" /\ fr.phase = "loc_restore" /\ fr.fn = Top.fn
               /\ fr.entry = Top.entry /\ fr.backup = Top.backup
               /\ Bound(fr) = RangeOf(params) \cup RangeOf(locals)
    <2>1. /\ fr.kind = "lambda" /\ fr.phase = "loc_restore" /\ fr.fn = Top.fn
          /\ fr.entry = Top.entry /\ fr.backup = Top.backup
      BY <1>0, <1>1, <1>5 DEF Frame
    <2> QED BY <2>1 DEF Bound
  <1>6. CASE ResRestoreVar
    <2>1. /\ r # Null /\ Top.phase = "res_restore" /\ objValue' = [objValue EXCEPT ![r] = Top.backup[r]]
          /\ \E q : stack' = SetTop([Top EXCEPT !.phase = "loc_restore", !.result = q])
      BY <1>6 DEF ResRestoreVar, InLambda
    <2>2. PICK q : stack' = SetTop([Top EXCEPT !.phase = "loc_restore", !.result = q])
      BY <2>1
    <2> DEFINE fr == [Top EXCEPT !.phase = "loc_restore", !.result = q]
    <2>3. /\ fr.kind = "lambda" /\ fr.phase = "loc_restore" /\ fr.fn = Top.fn
          /\ fr.entry = Top.entry /\ fr.backup = Top.backup
          /\ Bound(fr) = RangeOf(params) \cup RangeOf(locals)
      BY <1>5
    <2>4. stack' = SetTop(fr)
      BY <2>2
    <2> HIDE DEF fr
    <2>5. /\ objValue' \in [Slot -> Ref]
          /\ \A s \in Slot : objValue'[s] = IF s \in {r} THEN Top.backup[s] ELSE objValue[s]
      BY <1>1, <1>4, <2>1
    <2>6. /\ {r} \subseteq Bound(Top)
          /\ \A s \in Slot : s \in Bound(fr) <=> s \in Bound(Top) /\ s \notin {r}
      BY <1>2, <1>3, <1>4, <2>1, <2>3
    <2> QED BY <1>0, <2>3, <2>4, <2>5, <2>6, UnbindBinding
  <1>7. CASE ResRestoreCopy \/ ResRestoreKeep
    <2>1. /\ r = Null /\ Top.phase = "res_restore" /\ objValue' = objValue
          /\ \E q : \E fr \in {[Top EXCEPT !.phase = "loc_restore"],
                              [Top EXCEPT !.phase = "loc_restore", !.result = q]} :
                 stack' = SetTop(fr)
      BY <1>7 DEF ResRestoreCopy, ResRestoreKeep, InLambda
    <2>2. PICK fr : /\ fr.kind = "lambda" /\ fr.phase = "loc_restore" /\ fr.fn = Top.fn
                    /\ fr.entry = Top.entry /\ fr.backup = Top.backup
                    /\ Bound(fr) = RangeOf(params) \cup RangeOf(locals)
                    /\ stack' = SetTop(fr)
      BY <1>5, <2>1, ZenonT(40)
    <2>3. \A s \in Slot : s \in Bound(fr) <=> s \in Bound(Top)
      BY <1>3, <1>4, <2>1, <2>2
    <2>4. Shallow(fr, objValue')
      BY <1>1, <2>1, <2>2, <2>3 DEF Shallow
    <2>5. Saved(Top, FALSE)
      BY <1>0, LambdaTop
    <2>6. Saved(fr, FALSE)
      BY <1>0, <2>1, <2>2, <2>5 DEF Saved, NPar
    <2>7. Rebinds(fr, objValue')
      BY <2>1, <2>3 DEF Rebinds
    <2> QED BY <1>0, <2>2, <2>4, <2>6, <2>7, SetTopBinding
  <1>8. CASE LocRestore
    <2> DEFINE fr == [Top EXCEPT !.phase = "par_restore"]
    <2>1. /\ Top.phase = "loc_restore" /\ stack' = SetTop(fr)
          /\ objValue' = [s \in Slot |-> IF s \in RangeOf(locals) THEN Top.backup[s]
                                                                 ELSE objValue[s]]
      BY <1>8 DEF LocRestore, InLambda
    <2>2. /\ fr.kind = "lambda" /\ fr.phase = "par_restore" /\ fr.fn = Top.fn
          /\ fr.entry = Top.entry /\ fr.backup = Top.backup
      BY <1>0, <1>1 DEF Frame
    <2>3. Bound(fr) = RangeOf(params)
      BY <2>2 DEF Bound
    <2> HIDE DEF fr
    <2>4. /\ objValue' \in [Slot -> Ref]
          /\ \A s \in Slot : objValue'[s] = IF s \in RangeOf(locals) THEN Top.backup[s]
                                                                      ELSE objValue[s]
      BY <1>1, <2>1
    <2>5. /\ RangeOf(locals) \subseteq Bound(Top)
          /\ \A s \in Slot : s \in Bound(fr) <=> s \in Bound(Top) /\ s \notin RangeOf(locals)
      BY <1>2, <1>3, <2>1, <2>3
    <2> QED BY <1>0, <2>1, <2>2, <2>4, <2>5, UnbindBinding
  <1>9. CASE ParRestore
    <2>1. /\ Top.phase = "par_restore" /\ Return(Top.result, heap[Top.result] = "temp")
          /\ objValue' = [s \in Slot |-> IF s \in RangeOf(params) THEN Top.backup[s]
                                                                 ELSE objValue[s]]
      BY <1>9 DEF ParRestore, InLambda
    <2>2. \A s \in Slot : (IF s \in RangeOf(params) THEN Top.backup[s] ELSE objValue[s])
                          = Top.entry[s]
      BY <1>1, <1>3, <2>1 DEF Shallow
    <2>3. objValue' = Top.entry
      BY <1>1, <2>1, <2>2
    <2>4. (heap[Top.result] = "temp") \in BOOLEAN /\ Top.result \in Ref
      BY <1>0, TopTyped DEF BindingInv
    <2> QED BY <1>0, <2>1, <2>3, <2>4, ReturnBinding
  <1> QED BY <1>6, <1>7, <1>8, <1>9

-----------------------------------------------------------------------------
(* The invariant *)

LEMMA BindingInvInit == Init => BindingInv
  <1> SUFFICES ASSUME Init PROVE Binding
    BY TypeInvInit DEF BindingInv
  <1>1. PICK main \in Callees(1, "proc") : stack = <<main>>
    BY DEF Init
  <1>2. main.entry = objValue /\ main.phase = "args" /\ Shallow(main, objValue) /\ Saved(main, FALSE)
    BY CalleeBinding
  <1>3. Len(stack) = 1 /\ stack[1] = main /\ Now(1) = objValue
    BY <1>1 DEF Now
  <1>4. \A i \in 1..Len(stack) : i = 1 /\ ~(i < Len(stack))
    BY <1>3
  <1>5. (1 < Len(stack)) = FALSE
    BY <1>3
  <1>6. Saved(stack[1], 1 < Len(stack))
    BY <1>2, <1>3, <1>5
  <1>7. SavedParams
    BY <1>4, <1>6 DEF SavedParams
  <1> QED BY <1>2, <1>3, <1>4, <1>7 DEF Binding, BindsWithoutFailure

LEMMA BindingInvStep ==
  ASSUME CreateOutcomes = {"ok"}, ~AsyncRaise, BindingInv, [Next]_vars
  PROVE  BindingInv' /\ Disciplined
  <1>0. TypeInv'
    BY TypeInvStep DEF BindingInv
  <1>1. CASE EvalLeaf \/ Call
    BY <1>0, <1>1, EvaluationBinding DEF BindingInv
  <1>2. CASE ParInitFails \/ ParInitEvaluated \/ BindTemp \/ BindRef \/ BindValue
             \/ ParInitInterrupted
    BY <1>0, <1>2, ParInitBinding DEF BindingInv
  <1>3. CASE LocInit \/ LocInitInterrupted \/ ResInit \/ ResInitFails
    BY <1>0, <1>3, LocalsInitBinding DEF BindingInv
  <1>4. CASE ResRestoreVar \/ ResRestoreCopy \/ ResRestoreKeep \/ LocRestore \/ ParRestore
    BY <1>0, <1>4, RestoreBinding DEF BindingInv
  <1>5. CASE Action
    BY <1>0, <1>5, ActionBinding DEF BindingInv
  <1>6. CASE Signal \/ UNCHANGED vars
    BY <1>0, <1>6, StillBinding DEF Signal, vars, BindingInv
  <1>7. CASE SignalRaises
    BY <1>7 DEF SignalRaises
  <1> QED BY <1>1, <1>2, <1>3, <1>4, <1>5, <1>6, <1>7 DEF Next, Interpreter, Lambda, Terminated

LEMMA BindingAlways ==
  ASSUME CreateOutcomes = {"ok"}, ~AsyncRaise
  PROVE  Spec => []BindingInv
  <1>1. BindingInv /\ [Next]_vars => BindingInv'
    BY BindingInvStep
  <1> QED BY BindingInvInit, <1>1, PTL DEF Spec

\* Shallow binding is a stack discipline: every activation, however deep, has saved exactly
\* the values that its formals had when its call began.
THEOREM ShallowBindingHolds ==
  ASSUME CreateOutcomes = {"ok"}, ~AsyncRaise
  PROVE  Spec => []ShallowBinding
  <1>1. BindingInv => ShallowBinding
    BY DEF BindingInv, Binding, ShallowBinding, TypeInv, TypeOK
  <1> QED BY BindingAlways, <1>1, PTL

\* Every call - one that ends normally, with an exception, or with failing destroy calls -
\* leaves all formal objects as they were when it began.
THEOREM CallsRestore ==
  ASSUME CreateOutcomes = {"ok"}, ~AsyncRaise
  PROVE  Spec => RestoredOnReturn
  <1>1. BindingInv /\ [Next]_vars => [Len(stack') < Len(stack) => objValue' = Top.entry]_vars
    BY BindingInvStep DEF Disciplined
  <1> QED BY BindingAlways, <1>1, PTL DEF Spec, RestoredOnReturn

-----------------------------------------------------------------------------
(* Facts about numbers                                                     *)

\* A set of numbers that is not empty has a least element.
LEMMA LeastNumber ==
  ASSUME NEW T \in SUBSET Nat, T # {}
  PROVE  \E m \in T : \A n \in T : m <= n
  <1> DEFINE less == OpToRel(<, Nat)
  <1>1. \A m, n \in Nat : m < n => <<m, n>> \in less
    BY DEF OpToRel
  <1>2. IsWellFoundedOn(less, Nat)
    BY NatLessThanWellFounded
  <1> HIDE DEF less
  <1>3. PICK m \in T : \A n \in T : ~(<<n, m>> \in less)
    BY <1>2, WFMin
  <1>4. ASSUME NEW n \in T PROVE m <= n
    <2>1. m \in Nat /\ n \in Nat
      OBVIOUS
    <2>2. ~(n < m)
      BY <1>1, <1>3, <2>1, Zenon
    <2> QED BY <2>1, <2>2
  <1> QED BY <1>4

\* A set of positions that is not empty has a greatest element.
LEMMA GreatestNumber ==
  ASSUME NEW N \in Nat, NEW T \in SUBSET (1..N), T # {}
  PROVE  \E m \in T : \A n \in T : n <= m
  <1> DEFINE D == {N - x : x \in T}
  <1>0. \A x \in T : N - x \in Nat /\ N - x \in D
    OBVIOUS
  <1>1. D \in SUBSET Nat /\ D # {}
    BY <1>0
  <1>2. PICK d \in D : \A e \in D : d <= e
    BY <1>1, LeastNumber
  <1>3. PICK m \in T : d = N - m
    BY <1>2, Zenon
  <1>4. ASSUME NEW n \in T PROVE n <= m
    BY <1>2, <1>3
  <1> QED BY <1>4

-----------------------------------------------------------------------------
(* Deep binding: objValue and the values saved by the activations describe *)
(* the variables of every activation.                                      *)

\* The formals have their values from parsing when the program begins and ends.
Base == IF stack = <<>> THEN objValue = InitValue ELSE stack[1].entry = InitValue

LEMMA StackShape ==
  ASSUME BindingInv
  PROVE  /\ Len(stack) \in Nat /\ DOMAIN stack = 1..Len(stack)
         /\ stack = <<>> <=> Len(stack) = 0
         /\ objValue \in [Slot -> Ref] /\ heap \in [Oid -> Flags]
         /\ \A i \in 1..Len(stack) :
              /\ stack[i] \in Frame /\ FrameOK(stack[i])
              /\ stack[i].entry \in [Slot -> Ref] /\ Now(i) \in [Slot -> Ref]
              /\ Shallow(stack[i], Now(i))
  <1>1. /\ stack \in Seq(Frame) /\ objValue \in [Slot -> Ref] /\ heap \in [Oid -> Flags]
        /\ WellFormed /\ Binding
    BY DEF BindingInv, TypeInv, TypeOK, Flags
  <1>2. Len(stack) \in Nat /\ DOMAIN stack = 1..Len(stack) /\ (stack = <<>> <=> Len(stack) = 0)
    BY <1>1
  <1>3. ASSUME NEW i \in 1..Len(stack)
        PROVE  stack[i] \in Frame /\ FrameOK(stack[i]) /\ stack[i].entry \in [Slot -> Ref]
    <2>1. stack[i] \in Frame /\ FrameOK(stack[i])
      BY <1>1 DEF WellFormed
    <2> QED BY <2>1 DEF Frame
  <1>4. ASSUME NEW i \in 1..Len(stack) PROVE Now(i) \in [Slot -> Ref]
    <2>1. i = Len(stack) \/ i + 1 \in 1..Len(stack)
      BY <1>1
    <2> QED BY <1>1, <1>3, <2>1 DEF Now
  <1>5. \A i \in 1..Len(stack) : Shallow(stack[i], Now(i))
    BY <1>1 DEF Binding
  <1> QED BY <1>1, <1>2, <1>3, <1>4, <1>5

LEMMA EntryIsNow ==
  ASSUME NEW i \in Nat, Len(stack) \in Nat, i + 1 <= Len(stack)
  PROVE  stack[i + 1].entry = Now(i)
  BY DEF Now

\* A formal that the activations from i + 1 to j do not bind has the same value in both.
LEMMA NowUnbound ==
  ASSUME BindingInv, NEW i \in 1..Len(stack), NEW j \in 1..Len(stack), i <= j, NEW s \in Slot,
         \A n \in i+1..j : s \notin Bound(stack[n])
  PROVE  Now(j)[s] = Now(i)[s]
  <1>1. Len(stack) \in Nat /\ \A n \in 1..Len(stack) : Shallow(stack[n], Now(n))
    BY StackShape
  <1> DEFINE T == {n \in i..j : Now(n)[s] # Now(i)[s]}
  <1>2. SUFFICES ASSUME T # {} PROVE FALSE
    BY <1>1
  <1>3. T \in SUBSET Nat
    BY <1>1
  <1>4. PICK n \in T : \A m \in T : n <= m
    BY <1>2, <1>3, LeastNumber
  <1>5. n \in i..j /\ Now(n)[s] # Now(i)[s] /\ n # i
    BY <1>4
  <1>6. n \in i+1..j /\ n - 1 \in i..j /\ n - 1 \in Nat /\ (n - 1) + 1 = n /\ n <= Len(stack)
        /\ ~(n <= n - 1) /\ n \in 1..Len(stack)
    BY <1>1, <1>5
  <1>7. Now(n - 1)[s] = Now(i)[s]
    BY <1>4, <1>6
  <1>8. stack[n].entry = Now(n - 1)
    BY <1>1, <1>6 DEF Now
  <1>9. Now(n)[s] = stack[n].entry[s]
    BY <1>1, <1>6 DEF Shallow
  <1> QED BY <1>5, <1>7, <1>8, <1>9

\* A formal that no activation up to j binds has its value from parsing.
LEMMA NowOutside ==
  ASSUME BindingInv, Base, NEW j \in 1..Len(stack), NEW s \in Slot,
         \A n \in 1..j : s \notin Bound(stack[n])
  PROVE  Now(j)[s] = InitValue[s]
  <1>1. /\ Len(stack) \in Nat /\ \A n \in 1..Len(stack) : Shallow(stack[n], Now(n))
        /\ stack # <<>>
    BY StackShape
  <1>2. 1 \in 1..Len(stack) /\ 1 <= j /\ 1 \in 1..j /\ \A n \in 1+1..j : n \in 1..j
    BY <1>1
  <1>3. Now(1)[s] = stack[1].entry[s]
    BY <1>1, <1>2 DEF Shallow
  <1>4. Now(j)[s] = Now(1)[s]
    BY <1>2, NowUnbound
  <1> QED BY <1>1, <1>3, <1>4 DEF Base

\* Shallow binding finds every variable: the value that the lowest activation above has
\* saved, or objValue, is the value that the formal has in the activation.
LEMMA ValueIsNow ==
  ASSUME BindingInv, NEW i \in 1..Len(stack), NEW s \in Slot
  PROVE  ValueIn(i, s) = Now(i)[s]
  <1>1. Len(stack) \in Nat /\ \A n \in 1..Len(stack) : Shallow(stack[n], Now(n))
    BY StackShape
  <1> DEFINE above == {j \in i+1..Len(stack) : s \in Bound(stack[j])}
  <1>2. CASE above = {}
    <2>1. ValueIn(i, s) = objValue[s]
      BY <1>2 DEF ValueIn
    <2>2. /\ Len(stack) \in 1..Len(stack) /\ i <= Len(stack)
          /\ \A n \in i+1..Len(stack) : s \notin Bound(stack[n])
      BY <1>1, <1>2
    <2>3. Now(Len(stack))[s] = Now(i)[s]
      BY <2>2, NowUnbound
    <2> QED BY <2>1, <2>3 DEF Now
  <1>3. CASE above # {}
    <2>1. above \in SUBSET Nat
      BY <1>1
    <2>2. \E l \in above : \A n \in above : l <= n
      BY <1>3, <2>1, LeastNumber
    <2> DEFINE l == CHOOSE j \in above : \A n \in above : j <= n
    <2>3. l \in above /\ \A n \in above : l <= n
      BY <2>2
    <2>4. ValueIn(i, s) = stack[l].backup[s]
      BY <1>3 DEF ValueIn
    <2> HIDE DEF l
    <2>5. l \in i+1..Len(stack) /\ s \in Bound(stack[l])
      BY <2>3
    <2>6. /\ l - 1 \in 1..Len(stack) /\ i <= l - 1 /\ l \in 1..Len(stack) /\ l <= Len(stack)
          /\ l - 1 \in Nat /\ (l - 1) + 1 = l /\ l - 1 # Len(stack)
      BY <1>1, <2>5
    <2>7. ASSUME NEW n \in i+1..l-1 PROVE s \notin Bound(stack[n])
      <3>1. n \in i+1..Len(stack) /\ ~(l <= n)
        BY <1>1, <2>5
      <3> QED BY <2>3, <3>1
    <2>8. Now(l - 1)[s] = Now(i)[s]
      BY <2>6, <2>7, NowUnbound
    <2>9. stack[l].entry = Now(l - 1)
      BY <2>6 DEF Now
    <2>10. stack[l].backup[s] = stack[l].entry[s]
      BY <1>1, <2>5, <2>6 DEF Shallow
    <2> QED BY <2>4, <2>8, <2>9, <2>10
  <1> QED BY <1>2, <1>3

-----------------------------------------------------------------------------
(* Ownership: which activation is responsible for an object, and which     *)
(* objects it only refers to.  An activation is described by its frame fr, *)
(* the values now of the formals while it is the innermost one, the heap h *)
(* and the set B of objects that it may refer to without freeing them.     *)

\* Formals with a value that the activation destroys: value parameters, locals, result.
Owning(fr) == Bound(fr) \ RefParams

\* Temporaries bound to a reference parameter: par_restore dumps them.
Kept(fr) == {j \in 1..Len(fr.evald) : /\ fr.kind = "lambda" /\ j < fr.k
                                      /\ Params[fr.fn][j] \in RefParams /\ fr.evald[j] # Null}

\* Evaluated arguments that are not bound (yet), and those of them that were temporary.
Unbound(fr) == {j \in 1..Len(fr.evald) : fr.kind = "lambda" => j >= fr.k}
Pending(fr) == {j \in Unbound(fr) : j \in fr.bits}

SlotValues(fr, now) == {now[s] : s \in Owning(fr)}
KeptValues(fr) == {fr.evald[j] : j \in Kept(fr)}
PendingValues(fr) == {fr.evald[j] : j \in Pending(fr)}
ResultValue(fr, h) == IF fr.result \in Oid /\ h[fr.result] = "temp" THEN {fr.result} ELSE {}

\* What the activation frees.
Owned(fr, now, h) ==
  SlotValues(fr, now) \cup KeptValues(fr) \cup PendingValues(fr) \cup ResultValue(fr, h)

\* What the body of a function gives to the expressions that it evaluates.
Lent(fr, now) == IF fr.kind = "lambda" /\ fr.phase = "body"
                 THEN SlotValues(fr, now) \cup KeptValues(fr) ELSE {}

\* What the activation i may refer to without being its owner.
Borrowable(i) == Globals \cup UNION {Lent(stack[m], Now(m)) : m \in 1..i-1}

ArgsOwned(fr, h, B) ==
  /\ fr.bits \subseteq 1..Len(fr.evald)
  /\ \A j \in Unbound(fr) :
       fr.evald[j] \in Oid /\ IF j \in fr.bits THEN h[fr.evald[j]] = "temp" ELSE fr.evald[j] \in B

SlotsOwned(fr, now, h) ==
  \A s \in Owning(fr) : now[s] \in Oid \ Globals /\ h[now[s]] = "plain"

KeptOwned(fr, h) ==
  \A j \in Kept(fr) : fr.evald[j] \in Oid \ Globals /\ h[fr.evald[j]] \in {"plain", "temp2"}

RefsBorrowed(fr, now, B) ==
  \A s \in Bound(fr) \cap RefParams : now[s] \in B \cup KeptValues(fr)

Restoring == {"res_restore", "loc_restore", "par_restore"}

\* The result of a function is temporary or an enumeration literal when it has been
\* restored; before that it may be an object that the body of the function refers to.
ResultOwned(fr, now, h, B) ==
  IF fr.kind = "lambda" /\ fr.phase \in Restoring
  THEN /\ fr.result \in Oid
       /\ \/ h[fr.result] = "temp"
          \/ fr.result \in {Empty, Exc}
          \/ fr.phase = "res_restore"
             /\ fr.result \in B \cup SlotValues(fr, now) \cup KeptValues(fr)
       /\ fr.phase = "res_restore" /\ ResultOf[fr.fn] # Null => fr.result \in {Empty, Exc}
       /\ fr.fn \in Procs => fr.result \in {Empty, Exc}
  ELSE IF fr.kind = "loop" /\ fr.phase = "test"
       THEN fr.result \in Oid /\ (h[fr.result] = "temp" \/ fr.result \in B)
       ELSE fr.result = Null

Counted(fr) ==
  /\ fr.kind = "lambda" /\ fr.phase \notin {"args", "init"} => fr.k > NPar(fr)
  /\ fr.kind \in {"block", "loop"} => fr.arity = 0
  /\ fr.phase = "cond" => fr.kind = "loop"

OwnedOnce(fr, now) ==
  LET Args == Kept(fr) \cup Pending(fr)
  IN  /\ \A s, t \in Owning(fr) : now[s] = now[t] => s = t
      /\ \A i, j \in Args : fr.evald[i] = fr.evald[j] => i = j
      /\ \A s \in Owning(fr), j \in Args : now[s] # fr.evald[j]

FrameOwn(fr, now, h, B) ==
  /\ ArgsOwned(fr, h, B) /\ SlotsOwned(fr, now, h) /\ KeptOwned(fr, h)
  /\ RefsBorrowed(fr, now, B) /\ ResultOwned(fr, now, h, B)
  /\ Counted(fr) /\ OwnedOnce(fr, now)

\* The sort of the expression that a waiting activation evaluates: what is called for a
\* statement never returns a temporary.
Wanted(fr) == IF \/ fr.phase \in {"args", "cond"}
                 \/ fr.kind = "lambda" /\ fr.fn \notin Procs /\ ResultOf[fr.fn] = Null
              THEN "value" ELSE "proc"

Sorts ==
  \A i \in 1..Len(stack) : /\ stack[i].kind = "lambda" => stack[i].sort = SortOf(stack[i].fn)
                           /\ stack[i].sort = IF i = 1 THEN "proc" ELSE Wanted(stack[i - 1])

Suspended ==
  \A i \in 1..Len(stack) : i < Len(stack) => stack[i].phase \in {"args", "body", "handler", "cond"}

OwnedAt(i) == Owned(stack[i], Now(i), heap)

Ownership ==
  /\ \A o \in Globals : heap[o] = "plain"
  /\ \A i \in 1..Len(stack) : FrameOwn(stack[i], Now(i), heap, Borrowable(i))
  /\ \A i, j \in 1..Len(stack) : i # j => OwnedAt(i) \cap OwnedAt(j) = {}

OwnInv == BindingInv /\ Base /\ Sorts /\ Suspended /\ Ownership

\* A step may do what it wants with the objects in O; other objects in use only lose TEMP2.
Undisturbed(h, h2, O) ==
  \A o \in Oid \ O : h[o] # "free" => h2[o] = h[o] \/ (h[o] = "temp2" /\ h2[o] = "plain")

-----------------------------------------------------------------------------
(* Owned and borrowed objects *)

LEMMA OwnedFacts ==
  ASSUME NEW fr, NEW now, NEW h, NEW B, FrameOwn(fr, now, h, B), NEW o \in Owned(fr, now, h)
  PROVE  o \in Oid /\ h[o] \in {"plain", "temp", "temp2"} /\ (o \in Globals => h[o] = "temp")
  <1>1. CASE \E s \in Owning(fr) : o = now[s]
    BY <1>1 DEF FrameOwn, SlotsOwned
  <1>2. CASE \E j \in Kept(fr) : o = fr.evald[j]
    BY <1>2 DEF FrameOwn, KeptOwned
  <1>3. CASE \E j \in Pending(fr) : o = fr.evald[j]
    BY <1>3 DEF FrameOwn, ArgsOwned, Pending
  <1>4. CASE o = fr.result /\ fr.result \in Oid /\ h[fr.result] = "temp"
    BY <1>4
  <1> QED BY <1>1, <1>2, <1>3, <1>4
          DEF Owned, SlotValues, KeptValues, PendingValues, ResultValue

LEMMA LentFacts ==
  ASSUME NEW fr, NEW now, NEW h, NEW B, FrameOwn(fr, now, h, B), NEW o \in Lent(fr, now)
  PROVE  /\ o \in Owned(fr, now, h) /\ o \in Oid \ Globals /\ h[o] \in {"plain", "temp2"}
         /\ fr.kind = "lambda" /\ fr.phase = "body"
  <1>1. o \in SlotValues(fr, now) \cup KeptValues(fr) /\ fr.kind = "lambda" /\ fr.phase = "body"
    BY DEF Lent
  <1>2. \A s \in Owning(fr) : now[s] \in Oid \ Globals /\ h[now[s]] = "plain"
    BY DEF FrameOwn, SlotsOwned
  <1>3. \A j \in Kept(fr) : /\ fr.evald[j] \in Oid \ Globals
                             /\ h[fr.evald[j]] \in {"plain", "temp2"}
    BY DEF FrameOwn, KeptOwned
  <1>4. o \in Oid \ Globals /\ h[o] \in {"plain", "temp2"}
    BY <1>1, <1>2, <1>3 DEF SlotValues, KeptValues
  <1> QED BY <1>1, <1>4 DEF Owned

\* The values of formals and of arguments that are not bound yet are objects.
LEMMA OwnShape ==
  ASSUME OwnInv
  PROVE  /\ Len(stack) \in Nat /\ DOMAIN stack = 1..Len(stack) /\ BindingInv
         /\ heap \in [Oid -> Flags] /\ objValue \in [Slot -> Ref]
         /\ \A o \in Globals : o \in Oid /\ heap[o] = "plain"
         /\ \A i \in 1..Len(stack) :
              /\ stack[i] \in Frame /\ FrameOK(stack[i]) /\ Now(i) \in [Slot -> Ref]
              /\ FrameOwn(stack[i], Now(i), heap, Borrowable(i))
  <1>1. BindingInv /\ Ownership
    BY DEF OwnInv
  <1> QED BY <1>1, StackShape, ConstantsAssumption DEF Ownership

LEMMA BorrowedFacts ==
  ASSUME OwnInv, NEW i \in 1..Len(stack) + 1, NEW o \in Borrowable(i)
  PROVE  /\ o \in Oid /\ heap[o] \in {"plain", "temp2"}
         /\ o \in Globals \/ \E m \in 1..i-1 : o \in OwnedAt(m)
  <1>1. CASE o \in Globals
    BY <1>1, OwnShape
  <1>2. CASE \E m \in 1..i-1 : o \in Lent(stack[m], Now(m))
    <2>1. PICK m \in 1..i-1 : o \in Lent(stack[m], Now(m))
      BY <1>2
    <2>2. m \in 1..Len(stack)
      BY OwnShape
    <2>3. FrameOwn(stack[m], Now(m), heap, Borrowable(m))
      BY <2>2, OwnShape
    <2> QED BY <2>1, <2>3, LentFacts DEF OwnedAt
  <1> QED BY <1>1, <1>2 DEF Borrowable

\* What an activation refers to without being its owner is not owned by itself.
LEMMA BorrowedElsewhere ==
  ASSUME OwnInv, NEW i \in 1..Len(stack), NEW o \in Borrowable(i)
  PROVE  o \notin OwnedAt(i)
  <1>1. Len(stack) \in Nat /\ i \in 1..Len(stack) + 1
    BY OwnShape
  <1>2. CASE o \in Globals
    <2>1. heap[o] = "plain" /\ FrameOwn(stack[i], Now(i), heap, Borrowable(i))
      BY <1>2, OwnShape
    <2> QED BY <1>2, <2>1, OwnedFacts DEF OwnedAt
  <1>3. CASE \E m \in 1..i-1 : o \in OwnedAt(m)
    <2>1. PICK m \in 1..i-1 : o \in OwnedAt(m)
      BY <1>3
    <2>2. m \in 1..Len(stack) /\ m # i
      BY <1>1
    <2> QED BY <2>1, <2>2 DEF OwnInv, Ownership
  <1> QED BY <1>1, <1>2, <1>3, BorrowedFacts

\* A waiting activation does not notice what a step does with other objects.
LEMMA FrameKeeps ==
  ASSUME NEW fr, NEW now, NEW h, NEW h2, NEW B, NEW O, FrameOwn(fr, now, h, B),
         fr.result = Null, Undisturbed(h, h2, O), Owned(fr, now, h) \cap O = {}
  PROVE  FrameOwn(fr, now, h2, B) /\ Owned(fr, now, h2) = Owned(fr, now, h)
  <1>1. ASSUME NEW o \in Owned(fr, now, h)
        PROVE  /\ h[o] = "temp" => h2[o] = "temp"
               /\ h[o] = "plain" => h2[o] = "plain"
               /\ h[o] = "temp2" => h2[o] \in {"plain", "temp2"}
    BY OwnedFacts DEF Undisturbed
  <1>2. /\ \A s \in Owning(fr) : now[s] \in Owned(fr, now, h)
        /\ \A j \in Kept(fr) : fr.evald[j] \in Owned(fr, now, h)
        /\ \A j \in Pending(fr) : fr.evald[j] \in Owned(fr, now, h)
    BY DEF Owned, SlotValues, KeptValues, PendingValues
  <1>3. ArgsOwned(fr, h2, B)
    BY <1>1, <1>2 DEF FrameOwn, ArgsOwned, Pending
  <1>4. SlotsOwned(fr, now, h2) /\ KeptOwned(fr, h2)
    BY <1>1, <1>2 DEF FrameOwn, SlotsOwned, KeptOwned
  <1>5. fr.result \notin Oid
    BY ConstantsAssumption
  <1>6. ResultOwned(fr, now, h2, B)
    BY <1>5 DEF FrameOwn, ResultOwned
  <1>7. ResultValue(fr, h) = {} /\ ResultValue(fr, h2) = {}
    BY <1>5 DEF ResultValue
  <1> QED BY <1>3, <1>4, <1>6, <1>7 DEF FrameOwn, Owned

\* A suspended activation has no result yet.
LEMMA SuspendedResult ==
  ASSUME OwnInv, NEW i \in 1..Len(stack), i < Len(stack)
  PROVE  stack[i].result = Null
  <1>1. /\ stack[i].phase \in {"args", "body", "handler", "cond"}
        /\ FrameOwn(stack[i], Now(i), heap, Borrowable(i))
    BY OwnShape DEF OwnInv, Suspended
  <1> QED BY <1>1 DEF FrameOwn, ResultOwned, Restoring

-----------------------------------------------------------------------------
(* The three kinds of steps again: what they do to owned objects *)

LEMMA SameBorrowable ==
  ASSUME NEW i, \A m \in 1..i-1 : Lent(stack[m], Now(m))' = Lent(stack[m], Now(m))
  PROVE  Borrowable(i)' = Borrowable(i)
  <1>1. Borrowable(i)' = Globals \cup UNION {Lent(stack[m], Now(m))' : m \in 1..i-1}
    BY DEF Borrowable
  <1> QED BY <1>1 DEF Borrowable

LEMMA TopOwn ==
  ASSUME OwnInv, stack # <<>>
  PROVE  /\ Len(stack) \in 1..Len(stack) /\ Top = stack[Len(stack)] /\ Now(Len(stack)) = objValue
         /\ FrameOwn(Top, objValue, heap, Borrowable(Len(stack)))
         /\ OwnedAt(Len(stack)) = Owned(Top, objValue, heap)
         /\ Top \in Frame /\ FrameOK(Top)
  <1>1. Len(stack) \in Nat /\ Len(stack) # 0
    BY OwnShape, StackShape
  <1>2. Len(stack) \in 1..Len(stack) /\ Top = stack[Len(stack)] /\ Now(Len(stack)) = objValue
    BY <1>1 DEF Top, Now
  <1> QED BY <1>2, OwnShape DEF OwnedAt

\* The activations below position n, and what they own, are left alone.
LEMMA LowerOwn ==
  ASSUME OwnInv, NEW n \in 1..Len(stack), NEW O, Undisturbed(heap, heap', O),
         \A i \in 1..n : i < Len(stack) => OwnedAt(i) \cap O = {},
         \A i \in 1..n : i < Len(stack) => stack'[i] = stack[i] /\ Now(i)' = Now(i),
         NEW i \in 1..n, i < Len(stack)
  PROVE  /\ FrameOwn(stack[i], Now(i), heap, Borrowable(i))'
         /\ OwnedAt(i)' = OwnedAt(i)
         /\ Borrowable(i)' = Borrowable(i)
  <1>1. Len(stack) \in Nat /\ i \in 1..Len(stack)
    BY OwnShape
  <1>2. FrameOwn(stack[i], Now(i), heap, Borrowable(i)) /\ stack[i].result = Null
    BY <1>1, OwnShape, SuspendedResult
  <1>3. FrameOwn(stack[i], Now(i), heap', Borrowable(i))
        /\ Owned(stack[i], Now(i), heap') = Owned(stack[i], Now(i), heap)
    BY <1>2, FrameKeeps DEF OwnedAt
  <1>4. \A m \in 1..i-1 : m \in 1..n /\ m < Len(stack)
    BY <1>1
  <1>5. Borrowable(i)' = Borrowable(i)
    BY <1>4, SameBorrowable
  <1> QED BY <1>3, <1>5 DEF OwnedAt

\* Globals are never disturbed.
LEMMA GlobalsKept ==
  ASSUME OwnInv, NEW O, Undisturbed(heap, heap', O), O \cap Globals = {}
  PROVE  \A o \in Globals : heap'[o] = "plain"
  BY OwnShape DEF Undisturbed

LEMMA OwnedNotGlobal ==
  ASSUME OwnInv, NEW i \in 1..Len(stack)
  PROVE  OwnedAt(i) \cap Globals = {}
  BY OwnShape, OwnedFacts DEF OwnedAt

\* What the step of the innermost activation leaves behind.
LEMMA OwnSetTop ==
  ASSUME OwnInv, BindingInv', stack # <<>>, NEW fr, stack' = SetTop(fr), fr.entry = Top.entry,
         fr.kind = Top.kind, fr.fn = Top.fn, fr.sort = Top.sort,
         Undisturbed(heap, heap', Owned(Top, objValue, heap)),
         FrameOwn(fr, objValue', heap', Borrowable(Len(stack))),
         \A o \in Owned(fr, objValue', heap') : o \in Owned(Top, objValue, heap) \/ heap[o] = "free"
  PROVE  OwnInv' /\ OwnedAt(Len(stack))' = Owned(fr, objValue', heap')
         /\ \A i \in 1..Len(stack) - 1 : OwnedAt(i)' = OwnedAt(i)
  <1>0. PICK L \in Nat : L = Len(stack)
    BY OwnShape
  <1>1. /\ L \in 1..L /\ Top = stack[L] /\ Now(L) = objValue
        /\ OwnedAt(L) = Owned(Top, objValue, heap)
    BY <1>0, TopOwn
  <1>2. TypeInv
    BY DEF OwnInv, BindingInv
  <1>3. /\ Len(stack') = L /\ stack'[L] = fr
        /\ \A i \in 1..L : i # L => stack'[i] = stack[i]
    BY <1>0, <1>2, SetTopShape
  <1>4. ASSUME NEW i \in 1..L PROVE stack'[i].entry = stack[i].entry
    BY <1>1, <1>3
  <1>5. ASSUME NEW i \in 1..L, i < L PROVE stack'[i] = stack[i] /\ Now(i)' = Now(i)
    <2>1. i # L /\ i + 1 \in 1..L
      BY <1>1, <1>5
    <2> QED BY <1>0, <1>3, <1>4, <2>1 DEF Now
  <1>6. Now(L)' = objValue'
    BY <1>0, <1>3 DEF Now
  <1>7. \A i \in 1..L : i < L => OwnedAt(i) \cap OwnedAt(L) = {}
    BY <1>0, <1>1 DEF OwnInv, Ownership
  <1>8. ASSUME NEW i \in 1..L, i < L
        PROVE  /\ FrameOwn(stack[i], Now(i), heap, Borrowable(i))'
               /\ OwnedAt(i)' = OwnedAt(i)
    BY <1>0, <1>1, <1>5, <1>7, <1>8, LowerOwn
  <1>9. Borrowable(L)' = Borrowable(L)
    <2>1. \A m \in 1..L-1 : m \in 1..L /\ m < L
      BY <1>1
    <2>2. \A m \in 1..L-1 : Lent(stack[m], Now(m))' = Lent(stack[m], Now(m))
      BY <1>5, <2>1
    <2> QED BY <2>2, SameBorrowable
  <1>10. OwnedAt(L)' = Owned(fr, objValue', heap')
    BY <1>3, <1>6 DEF OwnedAt
  <1>11. ASSUME NEW i \in 1..L PROVE FrameOwn(stack[i], Now(i), heap, Borrowable(i))'
    <2>1. CASE i = L
      BY <1>0, <1>3, <1>6, <1>9, <2>1
    <2>2. i = L \/ i < L
      BY <1>1
    <2> QED BY <1>8, <2>1, <2>2
  <1>12. ASSUME NEW i \in 1..L, i < L PROVE OwnedAt(i)' \cap OwnedAt(L)' = {}
    <2>1. \A o \in OwnedAt(i) : heap[o] # "free"
      BY <1>0, <1>12, OwnShape, OwnedFacts DEF OwnedAt
    <2> QED BY <1>1, <1>7, <1>8, <1>10, <1>12, <2>1
  <1>13. ASSUME NEW i \in 1..L, NEW j \in 1..L, i # j PROVE OwnedAt(i)' \cap OwnedAt(j)' = {}
    <2>1. i < L \/ i = L
      BY <1>1
    <2>2. j < L \/ j = L
      BY <1>1
    <2>3. CASE i < L /\ j < L
      BY <1>0, <1>8, <1>13, <2>3 DEF OwnInv, Ownership
    <2>4. CASE i < L /\ j = L
      BY <1>12, <2>4
    <2>5. CASE i = L /\ j < L
      BY <1>12, <2>5
    <2> QED BY <1>13, <2>1, <2>2, <2>3, <2>4, <2>5
  <1>14. \A o \in Globals : heap'[o] = "plain"
    BY <1>0, <1>1, GlobalsKept, OwnedNotGlobal
  <1>15. Ownership'
    BY <1>0, <1>3, <1>11, <1>13, <1>14 DEF Ownership
  <1>16. Base'
    <2>1. stack' # <<>>
      BY <1>1, <1>3
    <2>2. 1 \in 1..L
      BY <1>1
    <2> QED BY <1>4, <2>1, <2>2 DEF Base, OwnInv
  <1>17. Sorts'
    <2>1. ASSUME NEW i \in 1..L
          PROVE  /\ stack'[i].kind = stack[i].kind /\ stack'[i].fn = stack[i].fn
                 /\ stack'[i].sort = stack[i].sort
      BY <1>1, <1>3
    <2>2. ASSUME NEW i \in 1..L, i # 1 PROVE stack'[i - 1] = stack[i - 1]
      <3>1. i - 1 \in 1..L /\ i - 1 # L
        BY <1>1, <2>2
      <3> QED BY <1>3, <3>1
    <2> QED BY <1>0, <1>3, <2>1, <2>2 DEF Sorts, OwnInv
  <1>18. Suspended'
    BY <1>0, <1>3, <1>5 DEF Suspended, OwnInv
  <1> QED BY <1>0, <1>3, <1>8, <1>10, <1>15, <1>16, <1>17, <1>18 DEF OwnInv

\* A change of phase or result alone keeps what an activation owns otherwise.
LEMMA SameOwn ==
  ASSUME NEW fr, NEW new, NEW now, NEW h, NEW B, FrameOwn(fr, now, h, B),
         new.kind = fr.kind, new.fn = fr.fn, new.k = fr.k, new.evald = fr.evald,
         new.bits = fr.bits, Bound(new) = Bound(fr),
         ResultOwned(new, now, h, B), Counted(new)
  PROVE  /\ FrameOwn(new, now, h, B)
         /\ SlotValues(new, now) = SlotValues(fr, now) /\ KeptValues(new) = KeptValues(fr)
         /\ PendingValues(new) = PendingValues(fr)
         /\ Owned(new, now, h) = SlotValues(fr, now) \cup KeptValues(fr) \cup PendingValues(fr)
                                 \cup ResultValue(new, h)
  <1>1. Owning(new) = Owning(fr) /\ Kept(new) = Kept(fr) /\ Unbound(new) = Unbound(fr)
    BY DEF Owning, Kept, Unbound
  <1>2. Pending(new) = Pending(fr)
    BY <1>1 DEF Pending
  <1>3. /\ SlotValues(new, now) = SlotValues(fr, now) /\ KeptValues(new) = KeptValues(fr)
        /\ PendingValues(new) = PendingValues(fr)
    BY <1>1, <1>2 DEF SlotValues, KeptValues, PendingValues
  <1>4. ArgsOwned(new, h, B) /\ SlotsOwned(new, now, h) /\ KeptOwned(new, h)
    BY <1>1 DEF FrameOwn, ArgsOwned, SlotsOwned, KeptOwned
  <1>5. RefsBorrowed(new, now, B)
    BY <1>3 DEF FrameOwn, RefsBorrowed
  <1>6. OwnedOnce(new, now)
    BY <1>1, <1>2 DEF FrameOwn, OwnedOnce
  <1> QED BY <1>3, <1>4, <1>5, <1>6 DEF FrameOwn, Owned

\* Evaluating a parameter saves its formal, nothing else.
LEMMA BeginOwn ==
  ASSUME NEW fr \in Frame, NEW now, NEW h, NEW B, FrameOwn(fr, now, h, B)
  PROVE  LET new == Begin(fr)
         IN  /\ FrameOwn(new, now, h, B) /\ Owned(new, now, h) = Owned(fr, now, h)
             /\ Lent(new, now) = Lent(fr, now) /\ Wanted(new) = Wanted(fr)
             /\ new.entry = fr.entry /\ new.kind = fr.kind /\ new.fn = fr.fn
             /\ new.sort = fr.sort /\ new.phase = fr.phase
  <1> DEFINE new == Begin(fr)
  <1>1. /\ new.kind = fr.kind /\ new.fn = fr.fn /\ new.k = fr.k /\ new.evald = fr.evald
        /\ new.bits = fr.bits /\ new.phase = fr.phase /\ new.result = fr.result
        /\ new.arity = fr.arity /\ new.entry = fr.entry /\ new.sort = fr.sort
    BY DEF Begin, Frame
  <1> HIDE DEF new
  <1>2. Bound(new) = Bound(fr)
    BY <1>1 DEF Bound
  <1>3. Counted(new)
    BY <1>1 DEF FrameOwn, Counted, NPar
  <1>4. Owning(new) = Owning(fr) /\ Kept(new) = Kept(fr)
    BY <1>1, <1>2 DEF Owning, Kept
  <1>5. SlotValues(new, now) = SlotValues(fr, now) /\ KeptValues(new) = KeptValues(fr)
    BY <1>1, <1>4 DEF SlotValues, KeptValues
  <1>6. ResultOwned(new, now, h, B) /\ ResultValue(new, h) = ResultValue(fr, h)
    BY <1>1, <1>5 DEF FrameOwn, ResultOwned, ResultValue
  <1>7. FrameOwn(new, now, h, B) /\ Owned(new, now, h) = Owned(fr, now, h)
    BY <1>1, <1>2, <1>3, <1>6, SameOwn DEF Owned
  <1>8. Lent(new, now) = Lent(fr, now) /\ Wanted(new) = Wanted(fr)
    BY <1>1, <1>5 DEF Lent, Wanted
  <1> QED BY <1>1, <1>7, <1>8 DEF new

\* The value of an evaluated argument is kept for the callee.
LEMMA ReceiveArgument ==
  ASSUME NEW fr \in Frame, FrameOK(fr), fr.phase = "args",
         NEW now, NEW h, NEW B, FrameOwn(fr, now, h, B), NEW o \in Oid, NEW t \in BOOLEAN,
         t => h[o] = "temp" /\ o \notin Owned(fr, now, h),
         ~t => o \in B
  PROVE  LET new == Receive(fr, o, t)
         IN  /\ FrameOwn(new, now, h, B)
             /\ Owned(new, now, h) = Owned(fr, now, h) \cup (IF t THEN {o} ELSE {})
  <1> DEFINE new == Receive(fr, o, t)
             n == Len(fr.evald) + 1
  <1>1. fr.evald \in Seq(Ref) /\ Len(fr.evald) \in Nat /\ fr.k = 1
    BY DEF Frame, FrameOK
  <1>2. /\ new = [fr EXCEPT !.evald = Append(@, o),
                            !.bits = IF t THEN @ \cup {Len(fr.evald) + 1} ELSE @]
    BY DEF Receive
  <1>3. /\ new.kind = fr.kind /\ new.fn = fr.fn /\ new.k = 1 /\ new.phase = "args"
        /\ new.arity = fr.arity /\ new.result = fr.result
        /\ new.evald = Append(fr.evald, o)
        /\ new.bits = IF t THEN fr.bits \cup {n} ELSE fr.bits
    BY <1>1, <1>2 DEF Frame
  <1> HIDE DEF new
  <1>4. /\ Len(new.evald) = n /\ new.evald[n] = o
        /\ \A j \in 1..Len(fr.evald) : new.evald[j] = fr.evald[j]
        /\ \A j \in 1..n : j \in 1..Len(fr.evald) \/ j = n
        /\ n \in 1..n /\ n \notin 1..Len(fr.evald) /\ 1..Len(fr.evald) \subseteq 1..n
    BY <1>1, <1>3
  <1> HIDE DEF n
  <1>5. Bound(new) = {} /\ Bound(fr) = {}
    BY <1>3 DEF Bound
  <1>6. Owning(new) = {} /\ Owning(fr) = {}
    BY <1>5 DEF Owning
  <1>7. Unbound(new) = 1..n /\ Unbound(fr) = 1..Len(fr.evald)
    BY <1>1, <1>3, <1>4 DEF Unbound
  <1>8. Kept(new) = {} /\ Kept(fr) = {}
    <2>1. \A j \in 1..n : ~(j < 1)
      BY <1>1 DEF n
    <2> QED BY <1>1, <1>3, <1>4, <2>1 DEF Kept
  <1>9. fr.bits \subseteq 1..Len(fr.evald)
    BY DEF FrameOwn, ArgsOwned
  <1>10. Pending(new) = IF t THEN Pending(fr) \cup {n} ELSE Pending(fr)
    BY <1>3, <1>4, <1>7, <1>9 DEF Pending
  <1>11. \A j \in Pending(fr) : j \in 1..Len(fr.evald) /\ new.evald[j] = fr.evald[j]
    BY <1>4, <1>7 DEF Pending
  <1>12. ArgsOwned(new, h, B)
    <2>1. new.bits \subseteq 1..Len(new.evald)
      BY <1>3, <1>4, <1>9
    <2>2. ASSUME NEW j \in 1..n
          PROVE  new.evald[j] \in Oid
                 /\ IF j \in new.bits THEN h[new.evald[j]] = "temp" ELSE new.evald[j] \in B
      <3>1. CASE j = n
        BY <1>3, <1>4, <1>9, <3>1
      <3>2. CASE j \in 1..Len(fr.evald)
        <4>1. j # n /\ (j \in new.bits <=> j \in fr.bits)
          BY <1>3, <1>4, <3>2
        <4> QED BY <1>4, <1>7, <3>2, <4>1 DEF FrameOwn, ArgsOwned
      <3> QED BY <1>4, <3>1, <3>2
    <2> QED BY <1>7, <2>1, <2>2 DEF ArgsOwned
  <1>13. SlotsOwned(new, now, h) /\ KeptOwned(new, h) /\ RefsBorrowed(new, now, B)
    BY <1>5, <1>6, <1>8 DEF SlotsOwned, KeptOwned, RefsBorrowed
  <1>14. ResultOwned(new, now, h, B) /\ ResultValue(new, h) = ResultValue(fr, h)
    BY <1>3 DEF FrameOwn, ResultOwned, ResultValue, Restoring
  <1>15. Counted(new)
    BY <1>3 DEF FrameOwn, Counted
  <1>16. PendingValues(new) = PendingValues(fr) \cup (IF t THEN {o} ELSE {})
    BY <1>4, <1>10, <1>11 DEF PendingValues
  <1>17. OwnedOnce(new, now)
    <2>1. t => \A j \in Pending(fr) : fr.evald[j] # o
      BY DEF Owned, PendingValues
    <2>2. \A i, j \in Pending(fr) : fr.evald[i] = fr.evald[j] => i = j
      BY DEF FrameOwn, OwnedOnce
    <2>3. \A i, j \in Pending(new) : new.evald[i] = new.evald[j] => i = j
      BY <1>4, <1>10, <1>11, <2>1, <2>2
    <2> QED BY <1>6, <1>8, <2>3 DEF OwnedOnce
  <1>18. FrameOwn(new, now, h, B)
    BY <1>12, <1>13, <1>14, <1>15, <1>17 DEF FrameOwn
  <1>19. SlotValues(new, now) = SlotValues(fr, now) /\ KeptValues(new) = KeptValues(fr)
    BY <1>6, <1>8 DEF SlotValues, KeptValues
  <1> QED BY <1>14, <1>16, <1>18, <1>19 DEF Owned, new

\* The value of the body of a function, of a statement or of a condition.
LEMMA ReceiveResult ==
  ASSUME NEW fr \in Frame, FrameOK(fr), Waiting(fr), fr.phase \in {"body", "handler", "cond"},
         NEW now, NEW h, NEW B, FrameOwn(fr, now, h, B), NEW o \in Oid, NEW t \in BOOLEAN,
         \A x \in B : h[x] # "temp",
         t => h[o] = "temp",
         ~t => o \in B \cup Lent(fr, now),
         Wanted(fr) = "proc" => ~t /\ o \in {Empty, Exc}
  PROVE  LET new == Receive(fr, o, t)
         IN  /\ FrameOwn(new, now, h, B)
             /\ Owned(new, now, h) = Owned(fr, now, h) \cup (IF t THEN {o} ELSE {})
  <1> DEFINE new == Receive(fr, o, t)
             p == IF fr.phase = "body" /\ fr.kind = "lambda" THEN "res_restore"
                  ELSE IF fr.phase = "body" /\ fr.kind = "block" THEN "catch"
                  ELSE IF fr.phase = "handler" THEN "done"
                  ELSE IF fr.phase = "cond" THEN "test" ELSE "again"
             received == fr.phase = "cond" \/ (fr.phase = "body" /\ fr.kind = "lambda")
  <1>1. /\ new.kind = fr.kind /\ new.fn = fr.fn /\ new.k = fr.k /\ new.evald = fr.evald
        /\ new.bits = fr.bits /\ new.arity = fr.arity /\ new.phase = p
        /\ new.result = IF received THEN o ELSE fr.result
    BY DEF Receive, Frame
  <1> HIDE DEF new
  <1>2. fr.kind = "lambda" => fr.phase = "body"
    BY DEF Waiting
  <1>3. Bound(new) = Bound(fr)
    BY <1>1, <1>2 DEF Bound
  <1>4. fr.result = Null /\ Null \notin Oid
    BY <1>2, ConstantsAssumption DEF FrameOwn, ResultOwned, Restoring
  <1>5. Counted(new)
    BY <1>1 DEF FrameOwn, Counted, NPar
  <1>6. ~t => h[o] # "temp"
    BY LentFacts
  <1>7. Owning(new) = Owning(fr) /\ Kept(new) = Kept(fr)
    BY <1>1, <1>3 DEF Owning, Kept
  <1>8. SlotValues(new, now) = SlotValues(fr, now) /\ KeptValues(new) = KeptValues(fr)
    BY <1>1, <1>7 DEF SlotValues, KeptValues
  <1>9. ResultOwned(new, now, h, B) /\ ResultValue(new, h) = IF t THEN {o} ELSE {}
    <2>1. CASE fr.kind = "lambda"
      <3>1. /\ new.kind = "lambda" /\ new.phase = "res_restore" /\ new.result = o
            /\ new.fn = fr.fn
        BY <1>1, <1>2, <2>1
      <3>2. fr.fn \in Procs \/ ResultOf[fr.fn] # Null => ~t /\ o \in {Empty, Exc}
        BY <1>2, <2>1 DEF Wanted
      <3>3. ~t => o \in B \cup SlotValues(new, now) \cup KeptValues(new)
        BY <1>8 DEF Lent
      <3>4. ResultOwned(new, now, h, B)
        BY <3>1, <3>2, <3>3 DEF ResultOwned, Restoring
      <3> QED BY <1>6, <3>1, <3>4 DEF ResultValue
    <2>2. CASE fr.kind # "lambda" /\ fr.phase = "cond"
      <3>1. fr.kind = "loop"
        BY <2>2 DEF FrameOwn, Counted
      <3>2. new.kind = "loop" /\ new.phase = "test" /\ new.result = o
        BY <1>1, <2>2, <3>1
      <3>3. ~t => o \in B
        BY <2>2 DEF Lent
      <3> QED BY <1>6, <3>2, <3>3 DEF ResultValue, ResultOwned
    <2>3. CASE fr.kind # "lambda" /\ fr.phase # "cond"
      <3>1. new.kind # "lambda" /\ new.phase # "test" /\ new.result = Null
        BY <1>1, <1>4, <2>3
      <3>2. ~t
        BY <2>3 DEF Wanted
      <3> QED BY <1>4, <3>1, <3>2 DEF ResultValue, ResultOwned
    <2> QED BY <2>1, <2>2, <2>3
  <1>10. /\ FrameOwn(new, now, h, B)
         /\ Owned(new, now, h) = SlotValues(fr, now) \cup KeptValues(fr) \cup PendingValues(fr)
                                 \cup ResultValue(new, h)
    BY <1>1, <1>3, <1>5, <1>9, SameOwn
  <1>11. ResultValue(fr, h) = {}
    BY <1>4 DEF ResultValue
  <1> QED BY <1>9, <1>10, <1>11 DEF Owned, new

\* A new activation owns nothing.
LEMMA CalleeOwn ==
  ASSUME NEW kind \in {"lambda", "action", "data", "block", "loop"}, NEW f, NEW sort, NEW arity,
         kind \in {"block", "loop"} => arity = 0, NEW now, NEW h, NEW B
  PROVE  LET new == Activation(kind, f, sort, arity)
         IN  FrameOwn(new, now, h, B) /\ Owned(new, now, h) = {} /\ new.entry = objValue
             /\ new.sort = sort /\ new.kind = kind /\ new.fn = f
  <1> DEFINE new == Activation(kind, f, sort, arity)
  <1>1. /\ new.kind = kind /\ new.fn = f /\ new.phase = "args" /\ new.evald = <<>>
        /\ new.bits = {} /\ new.result = Null /\ new.arity = arity /\ new.sort = sort
        /\ new.entry = objValue
    BY DEF Activation
  <1> HIDE DEF new
  <1>2. Len(new.evald) = 0 /\ 1..Len(new.evald) = {}
    BY <1>1
  <1>3. Bound(new) = {} /\ Owning(new) = {}
    BY <1>1 DEF Bound, Owning
  <1>4. Kept(new) = {} /\ Unbound(new) = {} /\ Pending(new) = {}
    BY <1>2 DEF Kept, Unbound, Pending
  <1>5. Null \notin Oid
    BY ConstantsAssumption
  <1>6. ArgsOwned(new, h, B) /\ SlotsOwned(new, now, h) /\ KeptOwned(new, h)
    BY <1>1, <1>3, <1>4 DEF ArgsOwned, SlotsOwned, KeptOwned
  <1>7. RefsBorrowed(new, now, B) /\ OwnedOnce(new, now)
    BY <1>3, <1>4 DEF RefsBorrowed, OwnedOnce
  <1>8. ResultOwned(new, now, h, B) /\ Counted(new)
    BY <1>1 DEF ResultOwned, Counted, Restoring
  <1>9. Owned(new, now, h) = {}
    BY <1>1, <1>3, <1>4, <1>5 DEF Owned, SlotValues, KeptValues, PendingValues, ResultValue
  <1> QED BY <1>1, <1>6, <1>7, <1>8, <1>9 DEF FrameOwn, new

LEMMA OwnAppend ==
  ASSUME OwnInv, BindingInv', stack # <<>>, NEW fr, NEW callee,
         stack' = Append(SetTop(fr), callee),
         fr.entry = Top.entry, fr.kind = Top.kind, fr.fn = Top.fn, fr.sort = Top.sort,
         fr.phase \in {"args", "body", "handler", "cond"}, Wanted(fr) = callee.sort,
         UNCHANGED <<objValue, heap>>,
         FrameOwn(fr, objValue, heap, Borrowable(Len(stack))),
         Owned(fr, objValue, heap) = Owned(Top, objValue, heap),
         callee.entry = objValue, callee.kind = "lambda" => callee.sort = SortOf(callee.fn),
         \A B : FrameOwn(callee, objValue, heap, B), Owned(callee, objValue, heap) = {}
  PROVE  OwnInv' /\ \A i \in 1..Len(stack) : OwnedAt(i)' = OwnedAt(i)
  <1>0. PICK L \in Nat : L = Len(stack)
    BY OwnShape
  <1>1. /\ L \in 1..L /\ Top = stack[L] /\ Now(L) = objValue /\ L + 1 \in 1..L + 1
        /\ OwnedAt(L) = Owned(Top, objValue, heap)
    BY <1>0, TopOwn
  <1>2. TypeInv
    BY DEF OwnInv, BindingInv
  <1>3. /\ Len(stack') = L + 1 /\ stack'[L + 1] = callee /\ stack'[L] = fr
        /\ \A i \in 1..L : i # L => stack'[i] = stack[i]
    BY <1>0, <1>2, AppendShape
  <1>4. ASSUME NEW i \in 1..L PROVE stack'[i].entry = stack[i].entry
    BY <1>1, <1>3
  <1>5. ASSUME NEW i \in 1..L, i < L PROVE stack'[i] = stack[i] /\ Now(i)' = Now(i)
    <2>1. i # L /\ i + 1 \in 1..L /\ i # L + 1
      BY <1>1, <1>5
    <2> QED BY <1>0, <1>3, <1>4, <2>1 DEF Now
  <1>6. Now(L)' = objValue /\ Now(L + 1)' = objValue
    <2>1. L # L + 1
      OBVIOUS
    <2> QED BY <1>0, <1>3, <2>1 DEF Now
  <1>7. Undisturbed(heap, heap', {})
    BY DEF Undisturbed
  <1>8. ASSUME NEW i \in 1..L, i < L
        PROVE  /\ FrameOwn(stack[i], Now(i), heap, Borrowable(i))'
               /\ OwnedAt(i)' = OwnedAt(i)
    BY <1>0, <1>1, <1>5, <1>7, <1>8, LowerOwn
  <1>9. Borrowable(L)' = Borrowable(L)
    <2>1. \A m \in 1..L-1 : m \in 1..L /\ m < L
      BY <1>1
    <2>2. \A m \in 1..L-1 : Lent(stack[m], Now(m))' = Lent(stack[m], Now(m))
      BY <1>5, <2>1
    <2> QED BY <2>2, SameBorrowable
  <1>10. OwnedAt(L)' = OwnedAt(L) /\ OwnedAt(L + 1)' = {}
    BY <1>1, <1>3, <1>6 DEF OwnedAt
  <1>11. ASSUME NEW i \in 1..L + 1 PROVE FrameOwn(stack[i], Now(i), heap, Borrowable(i))'
    <2>1. CASE i = L
      BY <1>0, <1>3, <1>6, <1>9, <2>1
    <2>2. CASE i = L + 1
      BY <1>3, <1>6, <2>2
    <2>3. i = L \/ i = L + 1 \/ (i \in 1..L /\ i < L)
      BY <1>1
    <2> QED BY <1>8, <2>1, <2>2, <2>3
  <1>12. ASSUME NEW i \in 1..L PROVE OwnedAt(i)' = OwnedAt(i)
    <2>1. i < L \/ i = L
      BY <1>1
    <2> QED BY <1>8, <1>10, <2>1
  <1>13. ASSUME NEW i \in 1..L + 1, NEW j \in 1..L + 1, i # j
         PROVE  OwnedAt(i)' \cap OwnedAt(j)' = {}
    <2>1. CASE i = L + 1 \/ j = L + 1
      BY <1>10, <2>1
    <2>2. CASE i # L + 1 /\ j # L + 1
      <3>1. i \in 1..L /\ j \in 1..L
        BY <2>2
      <3>2. OwnedAt(i) \cap OwnedAt(j) = {}
        BY <1>0, <1>13, <3>1 DEF OwnInv, Ownership
      <3> QED BY <1>12, <3>1, <3>2
    <2> QED BY <2>1, <2>2
  <1>14. \A o \in Globals : heap'[o] = "plain"
    BY OwnShape
  <1>15. Ownership'
    BY <1>3, <1>11, <1>13, <1>14 DEF Ownership
  <1>16. Base'
    <2>1. stack' # <<>>
      BY <1>1, <1>3
    <2>2. 1 \in 1..L
      BY <1>1
    <2> QED BY <1>4, <2>1, <2>2 DEF Base, OwnInv
  <1>17. Sorts'
    <2>1. ASSUME NEW i \in 1..L + 1
          PROVE  /\ stack'[i].kind = "lambda" => stack'[i].sort = SortOf(stack'[i].fn)
                 /\ stack'[i].sort = IF i = 1 THEN "proc" ELSE Wanted(stack'[i - 1])
      <3>1. CASE i = L + 1
        <4>1. i # 1 /\ i - 1 = L
          BY <1>1, <3>1
        <4> QED BY <1>3, <3>1, <4>1
      <3>2. CASE i \in 1..L
        <4>1. /\ stack'[i].kind = stack[i].kind /\ stack'[i].fn = stack[i].fn
              /\ stack'[i].sort = stack[i].sort
          BY <1>1, <1>3, <3>2
        <4>2. i # 1 => stack'[i - 1] = stack[i - 1]
          <5>1. i # 1 => i - 1 \in 1..L /\ i - 1 # L
            BY <3>2
          <5> QED BY <1>3, <5>1
        <4> QED BY <1>0, <3>2, <4>1, <4>2 DEF Sorts, OwnInv
      <3>3. i = L + 1 \/ i \in 1..L
        BY <1>1
      <3> QED BY <3>1, <3>2, <3>3
    <2> QED BY <1>3, <2>1 DEF Sorts
  <1>18. Suspended'
    <2>1. ASSUME NEW i \in 1..L + 1, i < L + 1
          PROVE  stack'[i].phase \in {"args", "body", "handler", "cond"}
      <3>1. CASE i = L
        BY <1>3, <3>1
      <3>2. CASE i \in 1..L /\ i < L
        BY <1>0, <1>5, <3>2 DEF Suspended, OwnInv
      <3>3. i = L \/ (i \in 1..L /\ i < L)
        BY <1>1, <2>1
      <3> QED BY <3>1, <3>2, <3>3
    <2> QED BY <1>3, <2>1 DEF Suspended
  <1> QED BY <1>0, <1>12, <1>15, <1>16, <1>17, <1>18 DEF OwnInv

LEMMA ReceiveFields ==
  ASSUME NEW fr \in Frame, NEW o, NEW t
  PROVE  LET new == Receive(fr, o, t)
         IN  new.kind = fr.kind /\ new.fn = fr.fn /\ new.sort = fr.sort /\ new.entry = fr.entry
  BY DEF Receive, Frame

\* What a suspended activation may refer to includes what it gives to the one above.
LEMMA BorrowFromCaller ==
  ASSUME NEW i \in Nat, NEW o \in Borrowable(i + 1)
  PROVE  o \in Borrowable(i) \/ o \in Lent(stack[i], Now(i))
  <1>1. CASE o \in Globals
    BY <1>1 DEF Borrowable
  <1>2. CASE \E m \in 1..i : o \in Lent(stack[m], Now(m))
    <2>1. PICK m \in 1..i : o \in Lent(stack[m], Now(m))
      BY <1>2
    <2>2. m = i \/ m \in 1..i-1
      OBVIOUS
    <2> QED BY <2>1, <2>2 DEF Borrowable
  <1>3. (i + 1) - 1 = i
    OBVIOUS
  <1> QED BY <1>1, <1>2, <1>3 DEF Borrowable

LEMMA OwnReturn ==
  ASSUME OwnInv, BindingInv', stack # <<>>, NEW o \in Oid, NEW t \in BOOLEAN, Return(o, t),
         objValue' = Top.entry,
         Undisturbed(heap, heap', Owned(Top, objValue, heap)),
         t => heap'[o] = "temp" /\ (o \in Owned(Top, objValue, heap) \/ heap[o] = "free"),
         ~t => o \in Borrowable(Len(stack)),
         Top.sort = "proc" => ~t /\ o \in {Empty, Exc}
  PROVE  OwnInv' /\ \A i \in 1..Len(stack) - 1 :
                      OwnedAt(i)' = OwnedAt(i) \cup (IF t /\ i = Len(stack) - 1 THEN {o} ELSE {})
  <1>0. PICK L \in Nat : L = Len(stack)
    BY OwnShape
  <1>1. /\ L \in 1..L /\ Top = stack[L] /\ Now(L) = objValue
        /\ OwnedAt(L) = Owned(Top, objValue, heap)
    BY <1>0, TopOwn
  <1>2. TypeOK /\ Base /\ Sorts /\ Suspended /\ Ownership
    BY DEF OwnInv, BindingInv, TypeInv
  <1>3. \A x \in Globals : heap'[x] = "plain"
    BY <1>0, <1>1, GlobalsKept, OwnedNotGlobal
  <1>4. CASE L = 1
    <2>1. stack' = <<>> /\ Len(stack') = 0
      BY <1>0, <1>4 DEF Return
    <2>2. Base'
      BY <1>1, <1>2, <1>4, <2>1 DEF Base
    <2>3. Sorts' /\ Suspended' /\ Ownership'
      BY <1>3, <2>1 DEF Sorts, Suspended, Ownership
    <2>4. 1..L-1 = {}
      BY <1>4
    <2> QED BY <1>0, <2>2, <2>3, <2>4 DEF OwnInv
  <1>5. CASE L >= 2
    <2>0. PICK C \in Nat : C = L - 1
      BY <1>5
    <2>1. C \in 1..L /\ C < L /\ C + 1 = L /\ C >= 1 /\ C \in 1..C
      BY <1>5, <2>0
    <2>2. /\ Len(stack') = C /\ stack'[C] = Receive(Caller, o, t)
          /\ \A i \in 1..C - 1 : stack'[i] = stack[i]
      BY <1>0, <1>2, <1>5, <2>0, TwoIsNotOne, ReturnShape
    <2> DEFINE new == Receive(stack[C], o, t)
               now == Now(C)
    <2>3. Caller = stack[C]
      BY <1>0, <2>0 DEF Caller
    <2>4. /\ stack[C] \in Frame /\ FrameOK(stack[C]) /\ Waiting(stack[C])
          /\ FrameOwn(stack[C], now, heap, Borrowable(C))
          /\ stack[C].result = Null /\ stack[C].phase \in {"args", "body", "handler", "cond"}
      <3>1. Waiting(stack[C])
        BY <1>0, <2>1 DEF OwnInv, BindingInv, TypeInv, WellFormed
      <3> QED BY <1>0, <1>2, <2>1, <3>1, OwnShape, SuspendedResult DEF Suspended
    <2>5. OwnedAt(C) \cap OwnedAt(L) = {}
      BY <1>0, <1>1, <1>2, <2>1 DEF Ownership
    <2>6. FrameOwn(stack[C], now, heap', Borrowable(C))
          /\ Owned(stack[C], now, heap') = OwnedAt(C)
      BY <1>1, <2>4, <2>5, FrameKeeps DEF OwnedAt
    <2>7. t => o \notin OwnedAt(C)
      <3>1. \A x \in OwnedAt(C) : heap[x] # "free"
        BY <2>4, OwnedFacts DEF OwnedAt
      <3> QED BY <1>1, <2>5, <3>1
    <2>8. ~t => o \in Borrowable(C) \cup Lent(stack[C], now)
      BY <1>0, <2>1, BorrowFromCaller
    <2>9. \A x \in Borrowable(C) : heap'[x] # "temp"
      <3>1. ASSUME NEW x \in Borrowable(C) PROVE heap'[x] # "temp"
        <4>1. /\ x \in Oid /\ heap[x] \in {"plain", "temp2"}
              /\ x \in Globals \/ \E m \in 1..C-1 : x \in OwnedAt(m)
          BY <1>0, <2>1, BorrowedFacts
        <4>2. ASSUME NEW m \in 1..C-1 PROVE OwnedAt(m) \cap OwnedAt(L) = {}
          <5>1. m \in 1..L /\ m # L
            BY <2>1
          <5> QED BY <1>0, <1>1, <1>2, <5>1 DEF Ownership
        <4> QED BY <1>1, <1>3, <4>1, <4>2 DEF Undisturbed
      <3> QED BY <3>1
    <2>10. Wanted(stack[C]) = "proc" => ~t /\ o \in {Empty, Exc}
      <3>1. L # 1 /\ L - 1 = C
        BY <1>5, <2>0
      <3> QED BY <1>0, <1>1, <1>2, <3>1 DEF Sorts
    <2>11. /\ FrameOwn(new, now, heap', Borrowable(C))
           /\ Owned(new, now, heap') = OwnedAt(C) \cup (IF t THEN {o} ELSE {})
      <3>1. CASE stack[C].phase = "args"
        <4>1. Lent(stack[C], now) = {}
          BY <3>1 DEF Lent
        <4> QED BY <2>4, <2>6, <2>7, <2>8, <3>1, <4>1, ReceiveArgument
      <3>2. CASE stack[C].phase \in {"body", "handler", "cond"}
        BY <2>4, <2>6, <2>8, <2>9, <2>10, <3>2, ReceiveResult
      <3> QED BY <2>4, <3>1, <3>2
    <2>12. /\ new.kind = stack[C].kind /\ new.fn = stack[C].fn /\ new.sort = stack[C].sort
           /\ new.entry = stack[C].entry
      BY <2>4, ReceiveFields
    <2> HIDE DEF new
    <2>13. stack'[C] = new
      BY <2>2, <2>3 DEF new
    <2>14. ASSUME NEW i \in 1..C PROVE stack'[i].entry = stack[i].entry
      BY <2>1, <2>2, <2>12, <2>13
    <2>15. ASSUME NEW i \in 1..C, i < C PROVE stack'[i] = stack[i] /\ Now(i)' = Now(i)
      <3>1. i # C /\ i \in 1..C-1 /\ i + 1 \in 1..C /\ i # L
        BY <2>1, <2>15
      <3> QED BY <1>0, <2>2, <2>14, <3>1 DEF Now
    <2>16. Now(C)' = now
      <3>1. now = Top.entry
        BY <1>0, <1>1, <2>1, EntryIsNow
      <3> QED BY <2>2, <3>1 DEF Now
    <2> HIDE DEF now
    <2>17. ASSUME NEW i \in 1..C, i < C
           PROVE  /\ FrameOwn(stack[i], Now(i), heap, Borrowable(i))'
                  /\ OwnedAt(i)' = OwnedAt(i)
      <3>1. \A n \in 1..C-1 : OwnedAt(n) \cap OwnedAt(L) = {}
        <4>1. \A n \in 1..C-1 : n \in 1..L /\ n # L
          BY <2>1
        <4> QED BY <1>0, <1>1, <1>2, <4>1 DEF Ownership
      <3>2. \A n \in 1..C-1 : stack'[n] = stack[n] /\ Now(n)' = Now(n)
        BY <2>15
      <3>3. C - 1 \in 1..L /\ i \in 1..C-1 /\ i < L
        BY <2>1, <2>17
      <3> QED BY <1>0, <1>1, <3>1, <3>2, <3>3, LowerOwn
    <2>18. Borrowable(C)' = Borrowable(C)
      <3>1. \A m \in 1..C-1 : m \in 1..C /\ m < C
        BY <2>1
      <3>2. \A m \in 1..C-1 : Lent(stack[m], Now(m))' = Lent(stack[m], Now(m))
        BY <2>15, <3>1
      <3> QED BY <3>2, SameBorrowable
    <2>19. OwnedAt(C)' = OwnedAt(C) \cup (IF t THEN {o} ELSE {})
      BY <2>11, <2>13, <2>16 DEF OwnedAt, now
    <2>20. ASSUME NEW i \in 1..C PROVE FrameOwn(stack[i], Now(i), heap, Borrowable(i))'
      <3>1. CASE i = C
        BY <2>11, <2>13, <2>16, <2>18, <3>1
      <3>2. i = C \/ i < C
        BY <2>1
      <3> QED BY <2>17, <3>1, <3>2
    <2>21. ASSUME NEW i \in 1..C, i < C PROVE OwnedAt(i)' \cap OwnedAt(C)' = {}
      <3>1. i \in 1..L /\ i # L /\ i # C
        BY <2>1, <2>21
      <3>2. \A x \in OwnedAt(i) : heap[x] # "free"
        BY <1>0, <3>1, OwnShape, OwnedFacts DEF OwnedAt
      <3>3. OwnedAt(i) \cap OwnedAt(C) = {} /\ OwnedAt(i) \cap OwnedAt(L) = {}
        BY <1>0, <1>1, <1>2, <2>1, <3>1 DEF Ownership
      <3> QED BY <1>1, <2>17, <2>19, <2>21, <3>2, <3>3
    <2>22. ASSUME NEW i \in 1..C, NEW j \in 1..C, i # j PROVE OwnedAt(i)' \cap OwnedAt(j)' = {}
      <3>1. CASE i < C /\ j < C
        <4>1. i \in 1..L /\ j \in 1..L
          BY <2>1
        <4>2. OwnedAt(i) \cap OwnedAt(j) = {}
          BY <1>0, <1>2, <2>22, <4>1 DEF Ownership
        <4> QED BY <2>17, <3>1, <4>2
      <3>2. CASE i < C /\ j = C
        BY <2>21, <3>2
      <3>3. CASE i = C /\ j < C
        BY <2>21, <3>3
      <3>4. (i < C \/ i = C) /\ (j < C \/ j = C)
        BY <2>1
      <3> QED BY <2>22, <3>1, <3>2, <3>3, <3>4
    <2>23. Ownership'
      BY <1>3, <2>2, <2>20, <2>22 DEF Ownership
    <2>24. Base'
      <3>1. stack # <<>> /\ stack' # <<>> /\ 1 \in 1..C
        BY <2>1, <2>2
      <3> QED BY <1>2, <2>14, <3>1 DEF Base
    <2>25. Sorts'
      <3>1. ASSUME NEW i \in 1..C
            PROVE  /\ stack'[i].kind = stack[i].kind /\ stack'[i].fn = stack[i].fn
                   /\ stack'[i].sort = stack[i].sort
                   /\ i # 1 => stack'[i - 1] = stack[i - 1]
        <4>1. i # 1 => i - 1 \in 1..C-1
          BY <2>1
        <4>2. i = C \/ i \in 1..C-1
          BY <2>1
        <4> QED BY <2>2, <2>12, <2>13, <4>1, <4>2
      <3>2. \A i \in 1..C : i \in 1..L
        BY <2>1
      <3> QED BY <1>0, <1>2, <2>2, <3>1, <3>2 DEF Sorts
    <2>26. Suspended'
      <3>1. \A i \in 1..C : i < C => i \in 1..L /\ i < L
        BY <2>1
      <3> QED BY <1>0, <1>2, <2>2, <2>15, <3>1 DEF Suspended
    <2>27. ASSUME NEW i \in 1..C
           PROVE  OwnedAt(i)' = OwnedAt(i) \cup (IF t /\ i = C THEN {o} ELSE {})
      <3>1. i < C \/ i = C
        BY <2>1
      <3> QED BY <2>17, <2>19, <3>1
    <2> QED BY <1>0, <2>0, <2>23, <2>24, <2>25, <2>26, <2>27 DEF OwnInv
  <1> QED BY <1>0, <1>1, <1>4, <1>5, OneOrMore

\* What is not in use: freed objects, and those that exec_all_parameters leaves to nobody.
Gone == {"free", "leaked"}

\* What a step of the innermost activation must say about every object in use afterwards:
\* it is in new, or it was in use before and belongs to another activation.
Accounted(new) ==
  \A o \in Oid \ Globals : heap'[o] \notin Gone =>
    o \in new \/ (heap[o] \notin Gone /\ o \notin Owned(Top, objValue, heap))

\* Nothing else is leaked: every object in use is owned by an activation.
Exact == \A o \in Oid \ Globals : heap[o] \notin Gone => \E i \in 1..Len(stack) : o \in OwnedAt(i)

LEMMA ReturnLength ==
  ASSUME OwnInv, stack # <<>>, NEW o, NEW t, Return(o, t)
  PROVE  Len(stack') = Len(stack) - 1
  <1>1. TypeOK /\ Len(stack) \in Nat /\ Len(stack) >= 1
    BY TopTyped DEF OwnInv, BindingInv, TypeInv
  <1>2. CASE Len(stack) = 1
    BY <1>2 DEF Return
  <1>3. CASE Len(stack) >= 2
    <2>1. ~(Len(stack) = 1)
      BY <1>3, <1>1, TwoIsNotOne
    <2> QED BY <1>1, <1>3, <2>1, ReturnShape
  <1> QED BY <1>1, <1>2, <1>3, OneOrMore

LEMMA ExactSetTop ==
  ASSUME OwnInv, stack # <<>>, Exact, NEW new, Accounted(new), Len(stack') = Len(stack),
         OwnedAt(Len(stack))' = new, \A i \in 1..Len(stack) - 1 : OwnedAt(i)' = OwnedAt(i)
  PROVE  Exact'
  <1>0. PICK L \in Nat : L = Len(stack)
    BY OwnShape
  <1>1. L \in 1..L /\ OwnedAt(L) = Owned(Top, objValue, heap) /\ OwnedAt(L)' = new
    BY <1>0, TopOwn
  <1>2. ASSUME NEW o \in Oid \ Globals, heap'[o] \notin Gone
        PROVE  \E i \in 1..L : o \in OwnedAt(i)'
    <2>1. CASE o \in new
      BY <1>1, <2>1
    <2>2. CASE heap[o] \notin Gone /\ o \notin OwnedAt(L)
      <3>1. PICK i \in 1..L : o \in OwnedAt(i)
        BY <1>0, <2>2 DEF Exact
      <3>2. i \in 1..L-1
        BY <1>1, <2>2, <3>1
      <3> QED BY <1>0, <3>1, <3>2
    <2> QED BY <1>1, <1>2, <2>1, <2>2 DEF Accounted
  <1> QED BY <1>0, <1>2 DEF Exact

LEMMA ExactReturn ==
  ASSUME OwnInv, stack # <<>>, Exact, NEW o, NEW t \in BOOLEAN, Top.sort = "proc" => ~t,
         Accounted(IF t THEN {o} ELSE {}), Len(stack') = Len(stack) - 1,
         \A i \in 1..Len(stack) - 1 :
            OwnedAt(i)' = OwnedAt(i) \cup (IF t /\ i = Len(stack) - 1 THEN {o} ELSE {})
  PROVE  Exact'
  <1>0. PICK L \in Nat : L = Len(stack)
    BY OwnShape
  <1>1. L \in 1..L /\ Top = stack[L] /\ OwnedAt(L) = Owned(Top, objValue, heap)
    BY <1>0, TopOwn
  <1>2. L = 1 => ~t
    BY <1>0, <1>1 DEF OwnInv, Sorts
  <1>3. ASSUME NEW x \in Oid \ Globals, heap'[x] \notin Gone
        PROVE  \E i \in 1..L-1 : x \in OwnedAt(i)'
    <2>1. CASE t /\ x = o
      <3>1. L - 1 \in 1..L-1
        BY <1>1, <1>2, <2>1
      <3> QED BY <1>0, <2>1, <3>1
    <2>2. CASE heap[x] \notin Gone /\ x \notin OwnedAt(L)
      <3>1. PICK i \in 1..L : x \in OwnedAt(i)
        BY <1>0, <2>2 DEF Exact
      <3>2. i \in 1..L-1
        BY <1>1, <2>2, <3>1
      <3> QED BY <1>0, <3>1, <3>2
    <2>3. x \in (IF t THEN {o} ELSE {}) => t /\ x = o
      OBVIOUS
    <2> QED BY <1>1, <1>3, <2>1, <2>2, <2>3 DEF Accounted
  <1> QED BY <1>0, <1>3 DEF Exact

\* The steps of the innermost activation, with what they leave in use.
LEMMA OwnStep ==
  ASSUME OwnInv, BindingInv', stack # <<>>, NEW fr, stack' = SetTop(fr), fr.entry = Top.entry,
         fr.kind = Top.kind, fr.fn = Top.fn, fr.sort = Top.sort,
         Undisturbed(heap, heap', Owned(Top, objValue, heap)),
         FrameOwn(fr, objValue', heap', Borrowable(Len(stack))),
         \A o \in Owned(fr, objValue', heap') : o \in Owned(Top, objValue, heap) \/ heap[o] = "free"
  PROVE  OwnInv' /\ (Exact /\ Accounted(Owned(fr, objValue', heap')) => Exact')
  <1>1. TypeInv
    BY DEF OwnInv, BindingInv
  <1>2. Len(stack') = Len(stack)
    BY <1>1, SetTopShape
  <1>3. OwnInv'
    BY OwnSetTop
  <1>4. OwnedAt(Len(stack))' = Owned(fr, objValue', heap')
        /\ \A i \in 1..Len(stack) - 1 : OwnedAt(i)' = OwnedAt(i)
    BY OwnSetTop
  <1> QED BY <1>2, <1>3, <1>4, ExactSetTop

LEMMA OwnEnd ==
  ASSUME OwnInv, BindingInv', stack # <<>>, NEW o \in Oid, NEW t \in BOOLEAN, Return(o, t),
         objValue' = Top.entry,
         Undisturbed(heap, heap', Owned(Top, objValue, heap)),
         t => heap'[o] = "temp" /\ (o \in Owned(Top, objValue, heap) \/ heap[o] = "free"),
         ~t => o \in Borrowable(Len(stack)),
         Top.sort = "proc" => ~t /\ o \in {Empty, Exc}
  PROVE  OwnInv' /\ (Exact /\ Accounted(IF t THEN {o} ELSE {}) => Exact')
  <1>1. Len(stack') = Len(stack) - 1
    BY ReturnLength
  <1>2. OwnInv'
    BY OwnReturn
  <1>3. \A i \in 1..Len(stack) - 1 :
          OwnedAt(i)' = OwnedAt(i) \cup (IF t /\ i = Len(stack) - 1 THEN {o} ELSE {})
    BY OwnReturn
  <1> QED BY <1>1, <1>2, <1>3, ExactReturn

-----------------------------------------------------------------------------
(* Evaluation of an expression *)

LEMMA LocalsAreNoReferences ==
  ASSUME NEW f \in Fun
  PROVE  \A s \in Formals(f) : s \in RefParams => s \in RangeOf(Params[f])
  <1>1. ASSUME NEW s \in Formals(f), s \in RefParams PROVE s \in RangeOf(Params[f])
    <2>1. PICK g \in Fun : s \in RangeOf(Params[g])
      BY <1>1, FormalsAssumption
    <2>2. s \in Formals(g)
      BY <2>1 DEF Formals
    <2> QED BY <1>1, <2>1, <2>2, FormalsAssumption
  <1> QED BY <1>1

\* The expressions of a function, wherever they are evaluated, find its parameters and
\* locals in objValue: nothing that is called on the way has bound them again.
LEMMA ScopeIsVisible ==
  ASSUME OwnInv, stack # <<>>,
         Top.phase \in {"args", "body", "cond", "handler"}, Top.kind # "lambda" \/ Top.phase \in {"args", "body"},
         NEW s \in InScope
  PROVE  \E i \in 1..Len(stack) :
           /\ stack[i].kind = "lambda" /\ stack[i].phase = "body"
           /\ s \in Bound(stack[i]) /\ s \in Slot /\ objValue[s] = Now(i)[s]
  <1>0. PICK L \in Nat : L = Len(stack)
    BY OwnShape
  <1>1. L \in 1..L /\ Top = stack[L] /\ Now(L) = objValue /\ DOMAIN stack = 1..L
    BY <1>0, TopOwn, OwnShape
  <1>2. PICK i \in Scopes : s \in Formals(stack[i].fn) /\ \A m \in Scopes : m <= i
    BY DEF InScope
  <1>3. i \in 1..L /\ stack[i].kind = "lambda" /\ stack[i].phase = "body"
    BY <1>1, <1>2 DEF Scopes
  <1>4. s \in Bound(stack[i])
    BY <1>2, <1>3 DEF Bound
  <1>5. stack[i].fn \in Fun /\ s \in Slot
    <2>1. stack[i].fn \in Fun
      BY <1>0, <1>3, OwnShape DEF FrameOK
    <2> QED BY <1>2, <2>1 DEF Slot
  <1>6. ASSUME NEW j \in i+1..L PROVE s \notin Bound(stack[j])
    <2>1. j \in 1..L /\ ~(j <= i) /\ (j < L \/ j = L)
      BY <1>3
    <2>2. ~(stack[j].kind = "lambda" /\ stack[j].phase = "body")
      BY <1>1, <1>2, <2>1 DEF Scopes
    <2>3. stack[j].kind = "lambda" => stack[j].phase = "args"
      <3>1. CASE j < L
        <4>1. Waiting(stack[j])
          BY <1>0, <2>1, <3>1 DEF OwnInv, BindingInv, TypeInv, WellFormed
        <4> QED BY <2>2, <4>1 DEF Waiting
      <3>2. CASE j = L
        BY <1>1, <2>2, <3>2
      <3> QED BY <2>1, <3>1, <3>2
    <2> QED BY <2>3 DEF Bound
  <1>7. Now(L)[s] = Now(i)[s]
    <2>1. BindingInv /\ i <= L
      BY <1>3 DEF OwnInv
    <2> QED BY <1>0, <1>1, <1>3, <1>5, <1>6, <2>1, NowUnbound
  <1> QED BY <1>0, <1>1, <1>3, <1>4, <1>5, <1>7

LEMMA LentBorrowable ==
  ASSUME NEW n \in Nat, NEW m \in 1..n-1
  PROVE  Lent(stack[m], Now(m)) \subseteq Borrowable(n)
  BY DEF Borrowable

LEMMA BorrowableGrows ==
  ASSUME NEW n \in Nat, NEW m \in 1..n
  PROVE  Borrowable(m) \subseteq Borrowable(n)
  <1>1. \A l \in 1..m-1 : l \in 1..n-1
    OBVIOUS
  <1> QED BY <1>1 DEF Borrowable

\* The value of a variable or literal is not temporary: it belongs to an activation that
\* waits for it, or to none.
LEMMA LeafBorrowed ==
  ASSUME OwnInv, NEW sort, Evaluating(sort), NEW o \in Leaves
  PROVE  /\ o \in Oid /\ heap[o] # "temp"
         /\ o \in Borrowable(Len(stack)) \cup Lent(Top, objValue)
  <1>0. PICK L \in Nat : L = Len(stack)
    BY OwnShape
  <1>1. stack # <<>> /\ Top.phase \in {"args", "body", "cond", "handler"} /\ Waiting(Top)
    <2>1. TypeInv
      BY DEF OwnInv, BindingInv
    <2> QED BY <2>1, EvaluatingWaits DEF Evaluating
  <1>2. /\ L \in 1..L /\ Top = stack[L] /\ Now(L) = objValue
        /\ FrameOwn(Top, objValue, heap, Borrowable(L))
    BY <1>0, <1>1, TopOwn
  <1>3. o \in Borrowable(L) \cup Lent(Top, objValue)
    <2>1. CASE o \in Globals
      BY <2>1 DEF Borrowable
    <2>2. CASE \E s \in InScope : o = objValue[s] /\ o # Null
      <3>1. PICK s \in InScope : o = objValue[s] /\ o # Null
        BY <2>2
      <3>2. Top.kind # "lambda" \/ Top.phase \in {"args", "body"}
        BY <1>1 DEF Waiting
      <3>3. PICK i \in 1..L : /\ stack[i].kind = "lambda" /\ stack[i].phase = "body"
                              /\ s \in Bound(stack[i]) /\ s \in Slot /\ objValue[s] = Now(i)[s]
        BY <1>0, <1>1, <3>2, ScopeIsVisible
      <3>4. FrameOwn(stack[i], Now(i), heap, Borrowable(i))
        BY <1>0, OwnShape
      <3>5. o \in Borrowable(i) \cup Lent(stack[i], Now(i))
        <4>1. CASE s \in RefParams
          BY <3>1, <3>3, <3>4, <4>1 DEF FrameOwn, RefsBorrowed, Lent
        <4>2. CASE s \notin RefParams
          BY <3>1, <3>3, <4>2 DEF Lent, SlotValues, Owning
        <4> QED BY <4>1, <4>2
      <3>6. CASE i = L
        BY <1>2, <3>5, <3>6
      <3>7. CASE i # L
        <4>1. i \in 1..L-1
          BY <3>7
        <4> QED BY <3>5, <4>1, LentBorrowable, BorrowableGrows
      <3> QED BY <3>6, <3>7
    <2> QED BY <2>1, <2>2 DEF Leaves
  <1>4. CASE o \in Borrowable(L)
    <2>1. L \in 1..L + 1
      BY <1>2
    <2> QED BY <1>0, <1>3, <1>4, <2>1, BorrowedFacts
  <1>5. CASE o \in Lent(Top, objValue)
    BY <1>0, <1>2, <1>3, <1>5, LentFacts
  <1> QED BY <1>3, <1>4, <1>5

LEMMA Unchanged ==
  ASSUME OwnInv, heap' = heap, NEW O
  PROVE  Undisturbed(heap, heap', O)
  BY DEF Undisturbed

\* The object that a step leaves alone stays where it is.
LEMMA AccountedUnchanged ==
  ASSUME heap' = heap, NEW new, Owned(Top, objValue, heap) \subseteq new
  PROVE  Accounted(new)
  BY DEF Accounted

LEMMA LeafOwn ==
  ASSUME OwnInv, BindingInv', EvalLeaf
  PROVE  OwnInv' /\ (Exact => Exact')
  <1>1. PICK o \in Leaves : stack' = SetTop(Receive(Begin(Top), o, heap[o] = "temp"))
    BY DEF EvalLeaf
  <1>2. Evaluating("value") /\ UNCHANGED <<objValue, heap>>
    BY DEF EvalLeaf
  <1>3. /\ o \in Oid /\ heap[o] # "temp" /\ o \in Borrowable(Len(stack)) \cup Lent(Top, objValue)
    BY <1>2, LeafBorrowed
  <1>4. stack # <<>> /\ Top \in Frame /\ FrameOK(Top) /\ Waiting(Top) /\ objValue \in [Slot -> Ref]
    <2>1. TypeInv /\ TypeOK
      BY DEF OwnInv, BindingInv, TypeInv
    <2> QED BY <1>2, <2>1, EvaluatingWaits DEF TypeOK
  <1>t. PICK t \in BOOLEAN : t = (heap[o] = "temp")
    OBVIOUS
  <1> DEFINE B == Borrowable(Len(stack))
             fr == Begin(Top)
             new == Receive(fr, o, t)
  <1>5. FrameOwn(Top, objValue, heap, B)
    BY <1>4, TopOwn
  <1>6. fr \in Frame /\ FrameOK(fr) /\ Waiting(fr)
    BY <1>4, BeginTyped
  <1>7. /\ FrameOwn(fr, objValue, heap, B)
        /\ Owned(fr, objValue, heap) = Owned(Top, objValue, heap)
        /\ Lent(fr, objValue) = Lent(Top, objValue) /\ Wanted(fr) = Wanted(Top)
        /\ fr.entry = Top.entry /\ fr.kind = Top.kind /\ fr.fn = Top.fn
        /\ fr.sort = Top.sort /\ fr.phase = Top.phase
    BY <1>4, <1>5, BeginOwn
  <1>8. stack' = SetTop(new)
    BY <1>1, <1>t
  <1>9. ASSUME NEW x \in B PROVE heap[x] # "temp"
    <2>1. Len(stack) \in 1..Len(stack) + 1
      BY <1>4, TopOwn, OwnShape
    <2> QED BY <1>9, <2>1, BorrowedFacts
  <1> HIDE DEF fr, B
  <1>u. ~t
    BY <1>3, <1>t
  <1>10. FrameOwn(new, objValue, heap, B) /\ Owned(new, objValue, heap) = Owned(Top, objValue, heap)
    <2>1. CASE Top.phase = "args"
      <3>1. Lent(Top, objValue) = {}
        BY <2>1 DEF Lent
      <3>2. o \in B
        BY <1>3, <3>1 DEF B
      <3>3. FrameOwn(new, objValue, heap, B)
            /\ Owned(new, objValue, heap) = Owned(fr, objValue, heap) \cup (IF t THEN {o} ELSE {})
        BY <1>3, <1>u, <1>6, <1>7, <2>1, <3>2, ReceiveArgument
      <3> QED BY <1>7, <1>u, <3>3
    <2>2. CASE Top.phase # "args"
      <3>1. Wanted(Top) = "value" /\ Top.phase \in {"body", "handler", "cond"}
        BY <1>2, <2>2 DEF Evaluating, Wanted
      <3>2. o \in B \cup Lent(fr, objValue)
        BY <1>3, <1>7 DEF B
      <3>3. FrameOwn(new, objValue, heap, B)
            /\ Owned(new, objValue, heap) = Owned(fr, objValue, heap) \cup (IF t THEN {o} ELSE {})
        BY <1>3, <1>u, <1>6, <1>7, <1>9, <3>1, <3>2, ReceiveResult
      <3> QED BY <1>7, <1>u, <3>3
    <2> QED BY <2>1, <2>2
  <1>11. new.entry = Top.entry /\ new.kind = Top.kind /\ new.fn = Top.fn /\ new.sort = Top.sort
    BY <1>6, <1>7, ReceiveFields
  <1> HIDE DEF new
  <1>12. Undisturbed(heap, heap', Owned(Top, objValue, heap))
    BY <1>2, Unchanged
  <1>13. FrameOwn(new, objValue', heap', Borrowable(Len(stack)))
         /\ Owned(new, objValue', heap') = Owned(Top, objValue, heap)
    BY <1>2, <1>10 DEF B
  <1>14. Accounted(Owned(new, objValue', heap'))
    BY <1>2, <1>13, AccountedUnchanged
  <1> QED BY <1>4, <1>8, <1>11, <1>12, <1>13, <1>14, OwnStep

LEMMA WantedSort ==
  ASSUME NEW sort, Evaluating(sort)
  PROVE  Wanted(Top) = sort
  BY DEF Evaluating, Wanted

LEMMA CalleeFresh ==
  ASSUME NEW depth, NEW sort, NEW fr \in Callees(depth, sort), NEW now, NEW h
  PROVE  /\ \A B : FrameOwn(fr, now, h, B)
         /\ Owned(fr, now, h) = {} /\ fr.entry = objValue /\ fr.sort = sort
         /\ fr.kind = "lambda" => SortOf(fr.fn) = sort
  <1>1. PICK kind, f, arity :
          /\ kind \in {"lambda", "action", "data", "block", "loop"}
          /\ fr = Activation(kind, f, sort, arity)
          /\ kind \in {"block", "loop"} => arity = 0
          /\ kind = "lambda" => SortOf(f) = sort
    <2>1. CASE \E kind \in {"action", "data"}, n \in 0..MaxArity : fr = Activation(kind, Null, sort, n)
      BY <2>1
    <2>2. CASE \E f \in Fun : SortOf(f) = sort /\ fr = Activation("lambda", f, sort, Len(Params[f]))
      BY <2>2
    <2>3. CASE \E kind \in {"block", "loop"} : fr = Activation(kind, Null, sort, 0)
      BY <2>3
    <2> QED BY <2>1, <2>2, <2>3, CalleesCases
  <1>2. ASSUME NEW B PROVE FrameOwn(fr, now, h, B)
    BY <1>1, CalleeOwn
  <1>3. /\ Owned(fr, now, h) = {} /\ fr.entry = objValue /\ fr.sort = sort
        /\ fr.kind = kind /\ fr.fn = f
    <2>1. FrameOwn(fr, now, h, {}) /\ Owned(fr, now, h) = {} /\ fr.entry = objValue
          /\ fr.sort = sort /\ fr.kind = kind /\ fr.fn = f
      BY <1>1, CalleeOwn
    <2> QED BY <2>1
  <1> QED BY <1>1, <1>2, <1>3

LEMMA ExactAppend ==
  ASSUME OwnInv, Exact, heap' = heap, Len(stack') = Len(stack) + 1,
         \A i \in 1..Len(stack) : OwnedAt(i)' = OwnedAt(i)
  PROVE  Exact'
  <1>0. PICK L \in Nat : L = Len(stack)
    BY OwnShape
  <1>1. ASSUME NEW o \in Oid \ Globals, heap[o] \notin Gone
        PROVE  \E i \in 1..L + 1 : o \in OwnedAt(i)'
    <2>1. PICK i \in 1..L : o \in OwnedAt(i)
      BY <1>0, <1>1 DEF Exact
    <2>2. i \in 1..L + 1 /\ o \in OwnedAt(i)'
      BY <1>0, <2>1
    <2> QED BY <2>2
  <1> QED BY <1>0, <1>1 DEF Exact

LEMMA CallOwn ==
  ASSUME OwnInv, BindingInv', Call
  PROVE  OwnInv' /\ (Exact => Exact')
  <1>0. PICK sort \in Sort : Evaluating(sort) /\ \E c \in Callees(Len(stack) + 1, sort) :
                                stack' = Append(SetTop(Begin(Top)), c)
    BY DEF Call
  <1>1. PICK callee \in Callees(Len(stack) + 1, sort) :
          Evaluating(sort) /\ stack' = Append(SetTop(Begin(Top)), callee)
    BY <1>0
  <1>2. UNCHANGED <<objValue, heap>>
    BY DEF Call
  <1>3. /\ stack # <<>> /\ Top \in Frame /\ FrameOK(Top) /\ Waiting(Top) /\ TypeInv
        /\ Top.phase \in {"args", "body", "handler", "cond"}
    <2>1. TypeInv
      BY DEF OwnInv, BindingInv
    <2> QED BY <1>1, <2>1, EvaluatingWaits DEF Evaluating
  <1> DEFINE B == Borrowable(Len(stack))
             fr == Begin(Top)
  <1>4. FrameOwn(Top, objValue, heap, B)
    BY <1>3, TopOwn
  <1>5. /\ FrameOwn(fr, objValue, heap, B)
        /\ Owned(fr, objValue, heap) = Owned(Top, objValue, heap)
        /\ Wanted(fr) = Wanted(Top)
        /\ fr.entry = Top.entry /\ fr.kind = Top.kind /\ fr.fn = Top.fn
        /\ fr.sort = Top.sort /\ fr.phase = Top.phase
    BY <1>3, <1>4, BeginOwn
  <1>6. stack' = Append(SetTop(fr), callee)
    BY <1>1
  <1> HIDE DEF fr
  <1>7. /\ \A BB : FrameOwn(callee, objValue, heap, BB)
        /\ Owned(callee, objValue, heap) = {} /\ callee.entry = objValue /\ callee.sort = sort
        /\ callee.kind = "lambda" => SortOf(callee.fn) = sort
    BY <1>1, CalleeFresh, Zenon
  <1>8. Wanted(fr) = callee.sort
    BY <1>1, <1>5, <1>7, WantedSort
  <1>9. OwnInv' /\ \A i \in 1..Len(stack) : OwnedAt(i)' = OwnedAt(i)
    BY <1>2, <1>3, <1>5, <1>6, <1>7, <1>8, OwnAppend
  <1>10. Len(stack') = Len(stack) + 1
    BY <1>3, <1>6, AppendShape
  <1> QED BY <1>2, <1>9, <1>10, ExactAppend

-----------------------------------------------------------------------------
(* exec_action, prc_block, prc_while and prc_repeat *)

LEMMA OwnStill ==
  ASSUME OwnInv, BindingInv', UNCHANGED <<stack, objValue, heap>>
  PROVE  OwnInv' /\ (Exact => Exact')
  <1>1. \A i : Now(i)' = Now(i)
    BY DEF Now
  <1>2. \A i : Borrowable(i)' = Borrowable(i)
    BY <1>1 DEF Borrowable
  <1>3. \A i : OwnedAt(i)' = OwnedAt(i)
    BY <1>1 DEF OwnedAt
  <1>4. Ownership'
    BY <1>1, <1>2, <1>3 DEF Ownership, OwnInv
  <1>5. Base' /\ Sorts' /\ Suspended'
    BY DEF Base, Sorts, Suspended, OwnInv
  <1>6. Exact => Exact'
    BY <1>3 DEF Exact
  <1> QED BY <1>4, <1>5, <1>6 DEF OwnInv

LEMMA OwnEndBorrowed ==
  ASSUME OwnInv, BindingInv', stack # <<>>, NEW o \in Borrowable(Len(stack)), Return(o, FALSE),
         objValue' = Top.entry, Undisturbed(heap, heap', Owned(Top, objValue, heap)),
         Top.sort = "proc" => o \in {Empty, Exc}
  PROVE  OwnInv' /\ (Exact /\ Accounted({}) => Exact')
  <1>1. PICK t \in BOOLEAN : t = FALSE
    OBVIOUS
  <1>2. Return(o, t)
    BY <1>1
  <1>3. o \in Oid
    <2>1. Len(stack) \in 1..Len(stack) + 1
      BY TopOwn, OwnShape
    <2> QED BY <2>1, BorrowedFacts
  <1>4. OwnInv' /\ (Exact /\ Accounted(IF t THEN {o} ELSE {}) => Exact')
    BY <1>1, <1>2, <1>3, OwnEnd
  <1> QED BY <1>1, <1>4

LEMMA OwnEndTemp ==
  ASSUME OwnInv, BindingInv', stack # <<>>, NEW o \in Oid, Return(o, TRUE),
         objValue' = Top.entry, Undisturbed(heap, heap', Owned(Top, objValue, heap)),
         heap'[o] = "temp", o \in Owned(Top, objValue, heap) \/ heap[o] = "free",
         Top.sort # "proc"
  PROVE  OwnInv' /\ (Exact /\ Accounted({o}) => Exact')
  <1>1. PICK t \in BOOLEAN : t = TRUE
    OBVIOUS
  <1>2. Return(o, t)
    BY <1>1
  <1>3. OwnInv' /\ (Exact /\ Accounted(IF t THEN {o} ELSE {}) => Exact')
    BY <1>1, <1>2, OwnEnd
  <1> QED BY <1>1, <1>3

\* A list of arguments is freed (or leaked), or a list of formals.
LEMMA FreedOwn ==
  ASSUME OwnInv, NEW S, NEW O, S \subseteq O,
         NEW gone \in Gone, heap' = IF gone = "free" THEN Freed(heap, S) ELSE Leaked(heap, S)
  PROVE  /\ Undisturbed(heap, heap', O)
         /\ \A new : Owned(Top, objValue, heap) \subseteq S \cup new => Accounted(new)
  <1>1. \A o \in Oid : heap'[o] = IF o \in S THEN gone ELSE heap[o]
    BY DEF Freed, Leaked, Gone
  <1> QED BY <1>1 DEF Undisturbed, Accounted, Gone

LEMMA EnumBorrowed ==
  ASSUME NEW i, NEW o \in {Empty, Exc}
  PROVE  o \in Borrowable(i)
  BY ConstantsAssumption DEF Borrowable

\* An activation of exec_action or of a prc_ function owns temporary arguments, and the
\* value of a condition.
LEMMA ActionTop ==
  ASSUME OwnInv, stack # <<>>, Top.kind # "lambda"
  PROVE  /\ objValue = Top.entry /\ ActionTemps(Top) = PendingValues(Top)
         /\ Owned(Top, objValue, heap) = PendingValues(Top) \cup ResultValue(Top, heap)
         /\ Bound(Top) = {} /\ Kept(Top) = {}
         /\ \A i \in DOMAIN Top.evald \ Top.bits : Top.evald[i] \in Borrowable(Len(stack))
         /\ Top.kind \in {"block", "loop"} /\ Top.phase # "args" => PendingValues(Top) = {}
         /\ Top.kind # "loop" \/ Top.phase # "test" => Top.result = Null /\ ResultValue(Top, heap) = {}
  <1>1. /\ FrameOwn(Top, objValue, heap, Borrowable(Len(stack))) /\ FrameOK(Top)
        /\ Top.evald \in Seq(Ref)
    <2>1. Top \in Frame
      BY TopOwn
    <2> QED BY <2>1, TopOwn DEF Frame
  <1>2. DOMAIN Top.evald = 1..Len(Top.evald) /\ Len(Top.evald) \in Nat
    BY <1>1
  <1>3. Bound(Top) = {} /\ Owning(Top) = {} /\ Kept(Top) = {} /\ Unbound(Top) = 1..Len(Top.evald)
    BY DEF Bound, Owning, Kept, Unbound
  <1>4. objValue = Top.entry
    BY <1>3, UnboundBinding DEF OwnInv
  <1>5. ActionTemps(Top) = PendingValues(Top)
    <2>1. Pending(Top) = {j \in DOMAIN Top.evald \cap Top.bits : heap[Top.evald[j]] = "temp"}
      BY <1>1, <1>2, <1>3 DEF FrameOwn, ArgsOwned, Pending
    <2> QED BY <2>1 DEF ActionTemps, PendingValues
  <1>6. Owned(Top, objValue, heap) = PendingValues(Top) \cup ResultValue(Top, heap)
    BY <1>3 DEF Owned, SlotValues, KeptValues
  <1>7. \A i \in DOMAIN Top.evald \ Top.bits : Top.evald[i] \in Borrowable(Len(stack))
    BY <1>1, <1>2, <1>3 DEF FrameOwn, ArgsOwned
  <1>8. Top.kind \in {"block", "loop"} /\ Top.phase # "args" => PendingValues(Top) = {}
    <2>1. ASSUME Top.kind \in {"block", "loop"}, Top.phase # "args" PROVE PendingValues(Top) = {}
      <3>1. Len(Top.evald) = 0
        BY <1>1, <2>1 DEF FrameOwn, Counted, FrameOK
      <3>2. 1..Len(Top.evald) = {}
        BY <3>1
      <3> QED BY <1>3, <3>2 DEF PendingValues, Pending
    <2> QED BY <2>1
  <1>9. ASSUME Top.kind # "loop" \/ Top.phase # "test"
        PROVE  Top.result = Null /\ ResultValue(Top, heap) = {}
    <2>1. Top.result = Null
      BY <1>1, <1>9 DEF FrameOwn, ResultOwned
    <2> QED BY <2>1, ConstantsAssumption DEF ResultValue
  <1> QED BY <1>3, <1>4, <1>5, <1>6, <1>7, <1>8, <1>9

\* A step that only changes the phase.
LEMMA ActionPhase ==
  ASSUME OwnInv, BindingInv', stack # <<>>, Top.kind # "lambda",
         Top.kind # "loop" \/ Top.phase # "test",
         NEW p \in {"run", "body", "handler", "cond"}, p = "cond" => Top.kind = "loop",
         stack' = SetTop([Top EXCEPT !.phase = p]), UNCHANGED <<objValue, heap>>
  PROVE  OwnInv' /\ (Exact => Exact')
  <1> DEFINE new == [Top EXCEPT !.phase = p]
             B == Borrowable(Len(stack))
  <1>1. /\ FrameOwn(Top, objValue, heap, B) /\ Top \in Frame
        /\ Top.result = Null /\ Bound(Top) = {}
    BY TopOwn, ActionTop
  <1>2. /\ new.kind = Top.kind /\ new.fn = Top.fn /\ new.k = Top.k /\ new.evald = Top.evald
        /\ new.bits = Top.bits /\ new.arity = Top.arity /\ new.result = Top.result
        /\ new.phase = p /\ new.entry = Top.entry /\ new.sort = Top.sort
    BY <1>1 DEF Frame
  <1>3. stack' = SetTop(new)
    OBVIOUS
  <1> HIDE DEF new, B
  <1>4. Bound(new) = Bound(Top)
    BY <1>1, <1>2 DEF Bound
  <1>5. ResultOwned(new, objValue, heap, B) /\ Counted(new)
    BY <1>1, <1>2 DEF FrameOwn, ResultOwned, Counted
  <1>6. /\ FrameOwn(new, objValue, heap, B)
        /\ Owned(new, objValue, heap) = SlotValues(Top, objValue) \cup KeptValues(Top)
             \cup PendingValues(Top) \cup ResultValue(new, heap)
    BY <1>1, <1>2, <1>4, <1>5, SameOwn
  <1>7. Owned(new, objValue, heap) = Owned(Top, objValue, heap)
    <2>1. ResultValue(new, heap) = ResultValue(Top, heap)
      BY <1>2 DEF ResultValue
    <2> QED BY <1>6, <2>1 DEF Owned
  <1>8. FrameOwn(new, objValue', heap', Borrowable(Len(stack)))
        /\ Owned(new, objValue', heap') = Owned(Top, objValue, heap)
    BY <1>6, <1>7 DEF B
  <1>9. Undisturbed(heap, heap', Owned(Top, objValue, heap))
        /\ Accounted(Owned(new, objValue', heap'))
    BY <1>8, Unchanged, AccountedUnchanged
  <1> QED BY <1>2, <1>3, <1>8, <1>9, OwnStep

\* A condition whose evaluation raised an exception leaves no temporary behind.
Clean == ~DestroyRaises /\ stack # <<>> /\ fail /\ Top.result # Null => Top.result \in Globals

LEMMA TestedCondition ==
  ASSUME OwnInv, stack # <<>>, Top.kind = "loop", Top.phase = "test"
  PROVE  /\ Owned(Top, objValue, heap) = ResultValue(Top, heap) /\ Top.result \in Oid
         /\ ResultValue(Top, heap) = IF heap[Top.result] = "temp" THEN {Top.result} ELSE {}
         /\ Top.result \in Globals => ResultValue(Top, heap) = {}
  <1>1. Owned(Top, objValue, heap) = ResultValue(Top, heap)
    BY ActionTop
  <1>2. Top.result \in Oid
    BY TopOwn DEF FrameOwn, ResultOwned
  <1>3. Top.result \in Globals => heap[Top.result] = "plain"
    BY OwnShape
  <1> QED BY <1>1, <1>2, <1>3 DEF ResultValue

\* The statement of the loop is executed again.
LEMMA LoopBodyOwn ==
  ASSUME OwnInv, BindingInv', stack # <<>>, Top.kind = "loop", Top.phase = "test",
         stack' = SetTop([Top EXCEPT !.phase = "body", !.result = Null]), objValue' = objValue,
         Undisturbed(heap, heap', Owned(Top, objValue, heap)), Accounted({})
  PROVE  OwnInv' /\ (Exact => Exact')
  <1> DEFINE new == [Top EXCEPT !.phase = "body", !.result = Null]
             B == Borrowable(Len(stack))
  <1>1. /\ FrameOwn(Top, objValue, heap, B) /\ Top \in Frame /\ FrameOK(Top)
        /\ Bound(Top) = {}
    BY TopOwn, ActionTop
  <1>2. /\ new.kind = Top.kind /\ new.fn = Top.fn /\ new.k = Top.k /\ new.evald = Top.evald
        /\ new.bits = Top.bits /\ new.arity = Top.arity /\ new.result = Null
        /\ new.phase = "body" /\ new.entry = Top.entry /\ new.sort = Top.sort
    BY <1>1 DEF Frame
  <1>3. stack' = SetTop(new)
    OBVIOUS
  <1> HIDE DEF new, B
  <1>4. Bound(new) = {} /\ Owning(new) = {}
    BY <1>2 DEF Bound, Owning
  <1>5. Len(new.evald) = 0 /\ new.arity = 0
    BY <1>1, <1>2 DEF FrameOwn, Counted, FrameOK
  <1>6. Kept(new) = {} /\ Unbound(new) = {} /\ Pending(new) = {}
    <2>1. 1..Len(new.evald) = {}
      BY <1>5
    <2> QED BY <2>1 DEF Kept, Unbound, Pending
  <1>7. ArgsOwned(new, heap', B)
    <2>1. new.bits \subseteq 1..Len(new.evald)
      BY <1>1, <1>2 DEF FrameOwn, ArgsOwned
    <2> QED BY <1>6, <2>1 DEF ArgsOwned
  <1>8. SlotsOwned(new, objValue, heap') /\ KeptOwned(new, heap')
        /\ RefsBorrowed(new, objValue, B) /\ OwnedOnce(new, objValue)
    BY <1>4, <1>6 DEF SlotsOwned, KeptOwned, RefsBorrowed, OwnedOnce
  <1>9. ResultOwned(new, objValue, heap', B) /\ Counted(new)
    BY <1>2, <1>5 DEF ResultOwned, Counted
  <1>10. Owned(new, objValue, heap') = {}
    BY <1>2, <1>4, <1>6, ConstantsAssumption
       DEF Owned, SlotValues, KeptValues, PendingValues, ResultValue
  <1>11. FrameOwn(new, objValue', heap', Borrowable(Len(stack)))
         /\ Owned(new, objValue', heap') = {}
    BY <1>7, <1>8, <1>9, <1>10 DEF FrameOwn, B
  <1> QED BY <1>2, <1>3, <1>11, OwnStep

LEMMA LoopOwn ==
  ASSUME OwnInv, BindingInv', LoopTest \/ LoopFails
  PROVE  OwnInv' /\ (Exact /\ Clean /\ ~DestroyRaises => Exact')
  <1>0. Empty \in Borrowable(Len(stack))
    BY EnumBorrowed
  <1>1. CASE LoopTest
    <2>1. stack # <<>> /\ Top.kind = "loop" /\ Top.phase = "test" /\ objValue' = objValue
          /\ Top.kind # "lambda"
      BY <1>1 DEF LoopTest, InLoop
    <2>2. Undisturbed(heap, heap', Owned(Top, objValue, heap)) /\ Accounted({})
      <3>1. CASE heap[Top.result] = "temp"
        <4>1. heap' = Freed(heap, {Top.result}) /\ Owned(Top, objValue, heap) = {Top.result}
          BY <1>1, <2>1, <3>1, TestedCondition DEF LoopTest
        <4>2. "free" \in Gone
          BY DEF Gone
        <4> QED BY <4>1, <4>2, FreedOwn
      <3>2. CASE heap[Top.result] # "temp"
        <4>1. heap' = heap /\ Owned(Top, objValue, heap) = {}
          BY <1>1, <2>1, <3>2, TestedCondition DEF LoopTest
        <4> QED BY <4>1, Unchanged, AccountedUnchanged
      <3> QED BY <3>1, <3>2
    <2>3. CASE stack' = SetTop([Top EXCEPT !.phase = "body", !.result = Null])
      BY <2>1, <2>2, <2>3, LoopBodyOwn
    <2>4. CASE Return(Empty, FALSE)
      <3>1. objValue' = Top.entry
        BY <2>1, ActionTop
      <3> QED BY <1>0, <2>1, <2>2, <2>4, <3>1, OwnEndBorrowed
    <2> QED BY <1>1, <2>3, <2>4 DEF LoopTest
  <1>2. CASE LoopFails
    <2>1. /\ stack # <<>> /\ Top.kind = "loop" /\ Top.phase \in {"test", "again"}
          /\ UNCHANGED <<objValue, heap>> /\ fail /\ Return(Empty, FALSE)
      BY <1>2 DEF LoopFails, InLoop, GoesOn
    <2>2. objValue' = Top.entry /\ Undisturbed(heap, heap', Owned(Top, objValue, heap))
      BY <2>1, ActionTop, Unchanged
    <2>3. Clean /\ ~DestroyRaises => Accounted({})
      <3>1. ASSUME Clean, ~DestroyRaises PROVE Owned(Top, objValue, heap) = {}
        <4>1. CASE Top.phase = "test"
          <5>1. Top.result \in Oid /\ Top.result # Null
            BY <2>1, <4>1, TestedCondition, ConstantsAssumption
          <5> QED BY <2>1, <3>1, <4>1, <5>1, TestedCondition DEF Clean
        <4>2. CASE Top.phase = "again"
          <5>1. /\ PendingValues(Top) = {} /\ ResultValue(Top, heap) = {}
                /\ Owned(Top, objValue, heap) = PendingValues(Top) \cup ResultValue(Top, heap)
            BY <2>1, <4>2, ActionTop
          <5> QED BY <5>1
        <4> QED BY <2>1, <4>1, <4>2
      <3> QED BY <2>1, <3>1, AccountedUnchanged
    <2>4. OwnInv' /\ (Exact /\ Accounted({}) => Exact')
      BY <1>0, <2>1, <2>2, OwnEndBorrowed
    <2> QED BY <2>3, <2>4
  <1> QED BY <1>1, <1>2

\* An action frees its temporary arguments, whatever it returns.
LEMMA ArgumentsFreed ==
  ASSUME OwnInv, stack # <<>>, Top.kind # "lambda", Top.phase \in {"args", "run"},
         heap' = Freed(heap, ActionTemps(Top))
  PROVE  /\ Undisturbed(heap, heap', Owned(Top, objValue, heap)) /\ Accounted({})
         /\ Owned(Top, objValue, heap) = ActionTemps(Top)
  <1>1. Owned(Top, objValue, heap) = ActionTemps(Top)
    BY ActionTop
  <1>2. "free" \in Gone
    BY DEF Gone
  <1> QED BY <1>1, <1>2, FreedOwn

\* What is called like a function drops its temporary arguments: they are leaked.
LEMMA DataOwn ==
  ASSUME OwnInv, BindingInv', DataReturned
  PROVE  OwnInv' /\ (Exact => Exact')
  <1>1. /\ stack # <<>> /\ Top.kind = "data" /\ Top.phase = "args" /\ objValue' = objValue
        /\ heap' = Leaked(heap, ActionTemps(Top))
    BY DEF DataReturned, Evaluated
  <1>2. PICK o \in Globals : Return(o, FALSE) /\ (Top.sort = "proc" => o = Empty)
    BY ConstantsAssumption DEF DataReturned
  <1>3. Owned(Top, objValue, heap) = ActionTemps(Top) /\ objValue' = Top.entry
    BY <1>1, ActionTop
  <1>4. "leaked" \in Gone /\ "leaked" # "free"
    BY DEF Gone
  <1>5. Undisturbed(heap, heap', Owned(Top, objValue, heap)) /\ Accounted({})
    BY <1>1, <1>3, <1>4, FreedOwn
  <1>6. o \in Borrowable(Len(stack))
    BY DEF Borrowable
  <1> QED BY <1>1, <1>2, <1>3, <1>5, <1>6, OwnEndBorrowed

LEMMA ActionEndOwn ==
  ASSUME OwnInv, BindingInv', \/ ActionFails \/ ActionReturnsTemp \/ ActionReturnsArgument
                              \/ ActionReturnsEmpty \/ ActionRaises \/ BlockReturns
  PROVE  OwnInv' /\ (Exact => Exact')
  <1>0. Empty \in Borrowable(Len(stack)) /\ Exc \in Borrowable(Len(stack))
    BY EnumBorrowed
  <1>1. /\ stack # <<>> /\ Top.kind # "lambda" /\ objValue' = objValue
        /\ ~BlockReturns => Top.phase \in {"args", "run"}
    BY DEF ActionFails, ActionReturnsTemp, ActionReturnsArgument, ActionReturnsEmpty,
           ActionRaises, BlockReturns, AtAction, Evaluated, Running, InBlock
  <1>2. objValue' = Top.entry
    BY <1>1, ActionTop
  <1>3. CASE ActionFails \/ ActionRaises
    <2>1. heap' = Freed(heap, ActionTemps(Top)) /\ Return(Exc, FALSE) /\ Top.phase \in {"args", "run"}
      BY <1>3 DEF ActionFails, ActionRaises, AtAction, Evaluated, Running
    <2> QED BY <1>0, <1>1, <1>2, <2>1, ArgumentsFreed, OwnEndBorrowed
  <1>4. CASE ActionReturnsEmpty
    <2>1. heap' = Freed(heap, ActionTemps(Top)) /\ Return(Empty, FALSE) /\ Top.phase = "run"
      BY <1>4 DEF ActionReturnsEmpty, Running
    <2> QED BY <1>0, <1>1, <1>2, <2>1, ArgumentsFreed, OwnEndBorrowed
  <1>5. CASE ActionReturnsArgument
    <2>1. PICK i \in DOMAIN Top.evald \ Top.bits : Return(Top.evald[i], FALSE)
      BY <1>5 DEF ActionReturnsArgument
    <2>2. heap' = Freed(heap, ActionTemps(Top)) /\ Top.sort = "value" /\ Top.phase = "run"
      BY <1>5 DEF ActionReturnsArgument, Running
    <2>3. Top.evald[i] \in Borrowable(Len(stack))
      BY <1>1, ActionTop
    <2> QED BY <1>1, <1>2, <2>1, <2>2, <2>3, ArgumentsFreed, OwnEndBorrowed
  <1>6. CASE ActionReturnsTemp
    <2>1. /\ heap' = [Freed(heap, ActionTemps(Top)) EXCEPT ![NewObj] = "temp"] /\ FreeOids # {}
          /\ Return(NewObj, TRUE) /\ Top.sort = "value" /\ Top.phase = "run"
      BY <1>6 DEF ActionReturnsTemp, Running
    <2>2. NewObj \in Oid /\ heap[NewObj] = "free"
      BY <2>1 DEF NewObj, FreeOids
    <2>3. Owned(Top, objValue, heap) = ActionTemps(Top)
      BY <1>1, <2>1, ActionTop
    <2>4. \A o \in Oid : heap'[o] = IF o = NewObj THEN "temp"
                                   ELSE IF o \in ActionTemps(Top) THEN "free" ELSE heap[o]
      BY <2>1 DEF Freed
    <2>5. Undisturbed(heap, heap', Owned(Top, objValue, heap)) /\ Accounted({NewObj})
      BY <2>2, <2>3, <2>4 DEF Undisturbed, Accounted, Gone
    <2>6. heap'[NewObj] = "temp"
      BY <2>2, <2>4
    <2> QED BY <1>1, <1>2, <2>1, <2>2, <2>5, <2>6, OwnEndTemp
  <1>7. CASE BlockReturns
    <2>1. /\ Return(Empty, FALSE) /\ heap' = heap /\ Top.kind = "block"
          /\ Top.phase # "args"
      BY <1>7 DEF BlockReturns, InBlock
    <2>2. Owned(Top, objValue, heap) = {}
      BY <1>1, <2>1, ActionTop
    <2>3. Undisturbed(heap, heap', Owned(Top, objValue, heap)) /\ Accounted({})
      BY <2>1, <2>2, Unchanged, AccountedUnchanged
    <2> QED BY <1>0, <1>1, <1>2, <2>1, <2>3, OwnEndBorrowed
  <1> QED BY <1>3, <1>4, <1>5, <1>6, <1>7

LEMMA ActionOwn ==
  ASSUME OwnInv, BindingInv', Action
  PROVE  OwnInv' /\ (Exact /\ Clean /\ ~DestroyRaises => Exact')
  <1>1. CASE ActionStarts \/ BlockBody \/ Catch \/ LoopStarts \/ LoopAgain
    <2>1. PICK p \in {"run", "body", "handler", "cond"} :
            /\ stack' = SetTop([Top EXCEPT !.phase = p])
            /\ p = "cond" => Top.kind = "loop"
      BY <1>1 DEF ActionStarts, BlockBody, Catch, LoopStarts, LoopAgain, Running, InLoop
    <2>2. /\ stack # <<>> /\ Top.kind # "lambda" /\ Top.phase # "test"
          /\ UNCHANGED <<objValue, heap>>
      BY <1>1 DEF ActionStarts, BlockBody, Catch, LoopStarts, LoopAgain,
                  AtAction, Evaluated, Running, InBlock, InLoop
    <2>3. Top.kind # "loop" \/ Top.phase # "test"
      BY <2>2
    <2>4. stack' = SetTop([Top EXCEPT !.phase = p]) /\ (p = "cond" => Top.kind = "loop")
      BY <2>1
    <2>5. stack # <<>> /\ Top.kind # "lambda" /\ UNCHANGED <<objValue, heap>>
      BY <2>2
    <2>6. OwnInv' /\ (Exact => Exact')
      BY <2>3, <2>4, <2>5, ActionPhase
    <2> QED BY <2>6
  <1>2. CASE ShowSignal
    <2>1. /\ stack # <<>> /\ Top.kind # "lambda" /\ Top.phase # "test"
          /\ UNCHANGED <<objValue, heap>>
          /\ stack' = SetTop([Top EXCEPT !.phase = "run"]) \/ stack' = stack
      BY <1>2 DEF ShowSignal, AtAction, Evaluated
    <2>2. CASE stack' = SetTop([Top EXCEPT !.phase = "run"])
      BY <2>1, <2>2, ActionPhase
    <2>3. CASE stack' = stack
      BY <2>1, <2>3, OwnStill
    <2> QED BY <2>1, <2>2, <2>3
  <1>3. CASE LoopTest \/ LoopFails
    BY <1>3, LoopOwn
  <1>4. CASE ActionFails \/ ActionReturnsTemp \/ ActionReturnsArgument \/ ActionReturnsEmpty
             \/ ActionRaises \/ BlockReturns
    BY <1>4, ActionEndOwn
  <1>5. CASE DataReturned
    BY <1>5, DataOwn
  <1> QED BY <1>1, <1>2, <1>3, <1>4, <1>5 DEF Action

-----------------------------------------------------------------------------
(* exec_lambda: par_init *)

LEMMA BoundInSlot ==
  ASSUME NEW fr, fr.kind = "lambda" => fr.fn \in Fun
  PROVE  Bound(fr) \subseteq Slot
  <1>1. CASE fr.kind # "lambda"
    BY <1>1 DEF Bound
  <1>2. CASE fr.fn \in Fun
    <2>1. Bound(fr) \subseteq Formals(fr.fn)
      BY <1>2, RolesDistinct DEF Bound, Formals, RangeOf
    <2> QED BY <1>2, <2>1 DEF Slot
  <1> QED BY <1>1, <1>2

LEMMA LambdaOwn ==
  ASSUME OwnInv, stack # <<>>, Top.kind = "lambda"
  PROVE  /\ FrameOwn(Top, objValue, heap, Borrowable(Len(stack)))
         /\ Top \in Frame /\ Top.fn \in Fun /\ Top.evald \in Seq(Ref)
         /\ Len(Top.evald) \in Nat /\ Top.k \in Nat /\ Top.k >= 1
         /\ NPar(Top) = Len(Params[Top.fn]) /\ NPar(Top) \in Nat
         /\ NLoc(Top) = Len(Locals[Top.fn]) /\ NLoc(Top) \in Nat
         /\ Top.phase = "args" => Top.k = 1
         /\ Top.phase # "args" => Len(Top.evald) = NPar(Top)
         /\ Top.phase \notin Restoring => Top.result = Null /\ ResultValue(Top, heap) = {}
         /\ objValue \in [Slot -> Ref] /\ Bound(Top) \subseteq Slot
  <1>1. /\ FrameOwn(Top, objValue, heap, Borrowable(Len(stack))) /\ Top \in Frame /\ FrameOK(Top)
    BY TopOwn
  <1>2. /\ Top.fn \in Fun /\ Len(Params[Top.fn]) \in Nat /\ Len(Locals[Top.fn]) \in Nat
        /\ Top.k \in Nat /\ Top.k >= 1 /\ objValue \in [Slot -> Ref]
    BY LambdaTop DEF OwnInv
  <1>3. Top.evald \in Seq(Ref) /\ Len(Top.evald) \in Nat
    BY <1>1 DEF Frame
  <1>4. /\ Top.phase = "args" => Top.k = 1
        /\ Top.phase # "args" => Len(Top.evald) = NPar(Top)
    BY <1>1 DEF FrameOK
  <1>5. ASSUME Top.phase \notin Restoring PROVE Top.result = Null /\ ResultValue(Top, heap) = {}
    <2>1. Top.result = Null
      BY <1>1, <1>5 DEF FrameOwn, ResultOwned
    <2> QED BY <2>1, ConstantsAssumption DEF ResultValue
  <1>6. Bound(Top) \subseteq Slot
    BY <1>2, BoundInSlot
  <1> QED BY <1>1, <1>2, <1>3, <1>4, <1>5, <1>6 DEF NPar, NLoc

LEMMA ParInitFailsOwn ==
  ASSUME OwnInv, BindingInv', ParInitFails
  PROVE  OwnInv' /\ (Exact => Exact')
  <1>1. /\ stack # <<>> /\ Top.kind = "lambda" /\ Top.phase = "args" /\ objValue' = objValue
        /\ heap' = Freed(heap, Temps(Top)) /\ Return(Exc, FALSE)
    BY DEF ParInitFails, InLambda
  <1>2. /\ FrameOwn(Top, objValue, heap, Borrowable(Len(stack)))
        /\ Top.evald \in Seq(Ref) /\ Len(Top.evald) \in Nat /\ Top.k = 1
        /\ ResultValue(Top, heap) = {}
    BY <1>1, LambdaOwn DEF Restoring
  <1>3. Bound(Top) = {} /\ Owning(Top) = {}
    BY <1>1 DEF Bound, Owning
  <1>4. Kept(Top) = {} /\ Unbound(Top) = 1..Len(Top.evald) /\ DOMAIN Top.evald = 1..Len(Top.evald)
    BY <1>2 DEF Kept, Unbound
  <1>5. Temps(Top) = PendingValues(Top)
    <2>1. ASSUME NEW j \in 1..Len(Top.evald)
          PROVE  j \in Pending(Top) <=> Top.evald[j] # Null /\ heap[Top.evald[j]] = "temp"
      <3>1. CASE j \in Top.bits
        <4>1. Top.evald[j] \in Oid /\ heap[Top.evald[j]] = "temp"
          BY <1>2, <1>4, <3>1 DEF FrameOwn, ArgsOwned
        <4> QED BY <1>4, <3>1, <4>1, ConstantsAssumption DEF Pending
      <3>2. CASE j \notin Top.bits
        <4>1. Top.evald[j] \in Borrowable(Len(stack))
          BY <1>2, <1>4, <3>2 DEF FrameOwn, ArgsOwned
        <4>2. Len(stack) \in 1..Len(stack) + 1
          BY <1>1, TopOwn, OwnShape
        <4>3. heap[Top.evald[j]] # "temp"
          BY <4>1, <4>2, BorrowedFacts
        <4> QED BY <3>2, <4>3 DEF Pending
      <3> QED BY <3>1, <3>2
    <2>2. Pending(Top) = {j \in 1..Len(Top.evald) : Top.evald[j] # Null /\ heap[Top.evald[j]] = "temp"}
      BY <1>4, <2>1 DEF Pending
    <2> QED BY <1>4, <2>2 DEF Temps, PendingValues
  <1>6. Owned(Top, objValue, heap) = Temps(Top)
    BY <1>2, <1>3, <1>4, <1>5 DEF Owned, SlotValues, KeptValues
  <1>7. Undisturbed(heap, heap', Owned(Top, objValue, heap)) /\ Accounted({})
    BY <1>1, <1>6, FreedOwn DEF Gone
  <1>8. objValue' = Top.entry
    BY <1>1, <1>3, UnboundBinding DEF OwnInv
  <1>9. Exc \in Borrowable(Len(stack))
    BY EnumBorrowed
  <1> QED BY <1>1, <1>7, <1>8, <1>9, OwnEndBorrowed

\* A step that changes neither what the activation binds nor the values of formals.
LEMMA LambdaPhase ==
  ASSUME OwnInv, BindingInv', stack # <<>>, Top.kind = "lambda",
         NEW p \in Phase, stack' = SetTop([Top EXCEPT !.phase = p]), UNCHANGED <<objValue, heap>>,
         Bound([Top EXCEPT !.phase = p]) = Bound(Top),
         ResultOwned([Top EXCEPT !.phase = p], objValue, heap, Borrowable(Len(stack))),
         p \notin {"args", "init"} => Top.k > NPar(Top), p # "cond"
  PROVE  OwnInv' /\ (Exact => Exact')
  <1> DEFINE new == [Top EXCEPT !.phase = p]
             B == Borrowable(Len(stack))
  <1>1. FrameOwn(Top, objValue, heap, B) /\ Top \in Frame
    BY LambdaOwn
  <1>2. /\ new.kind = Top.kind /\ new.fn = Top.fn /\ new.k = Top.k /\ new.evald = Top.evald
        /\ new.bits = Top.bits /\ new.arity = Top.arity /\ new.result = Top.result
        /\ new.phase = p /\ new.entry = Top.entry /\ new.sort = Top.sort
    BY <1>1 DEF Frame
  <1>3. stack' = SetTop(new) /\ Bound(new) = Bound(Top) /\ ResultOwned(new, objValue, heap, B)
    OBVIOUS
  <1> HIDE DEF new, B
  <1>4. Counted(new)
    BY <1>1, <1>2 DEF FrameOwn, Counted, NPar
  <1>5. /\ FrameOwn(new, objValue, heap, B)
        /\ Owned(new, objValue, heap) = SlotValues(Top, objValue) \cup KeptValues(Top)
             \cup PendingValues(Top) \cup ResultValue(new, heap)
    BY <1>1, <1>2, <1>3, <1>4, SameOwn
  <1>6. Owned(new, objValue, heap) = Owned(Top, objValue, heap)
    BY <1>2, <1>5 DEF Owned, ResultValue
  <1>7. FrameOwn(new, objValue', heap', Borrowable(Len(stack)))
        /\ Owned(new, objValue', heap') = Owned(Top, objValue, heap)
    BY <1>5, <1>6 DEF B
  <1>8. Undisturbed(heap, heap', Owned(Top, objValue, heap))
        /\ Accounted(Owned(new, objValue', heap'))
    BY <1>7, Unchanged, AccountedUnchanged
  <1> QED BY <1>2, <1>3, <1>7, <1>8, OwnStep

LEMMA ParInitEvaluatedOwn ==
  ASSUME OwnInv, BindingInv', ParInitEvaluated
  PROVE  OwnInv' /\ (Exact => Exact')
  <1> DEFINE new == [Top EXCEPT !.phase = "init"]
  <1>1. /\ stack # <<>> /\ Top.kind = "lambda" /\ Top.phase = "args"
        /\ UNCHANGED <<objValue, heap>> /\ stack' = SetTop(new)
    BY DEF ParInitEvaluated, InLambda
  <1>2. /\ Top \in Frame /\ Top.fn \in Fun /\ Top.k = 1 /\ Top.result = Null
    BY <1>1, LambdaOwn DEF Restoring
  <1>3. /\ new.kind = "lambda" /\ new.phase = "init" /\ new.fn = Top.fn /\ new.k = 1
        /\ new.result = Null
    BY <1>1, <1>2 DEF Frame
  <1>4. Bound(new) = Bound(Top)
    <2>1. Bound(Top) = {}
      BY <1>1 DEF Bound
    <2>2. \A s : s \notin Bound(new)
      <3>1. \A i \in 1..Len(Params[Top.fn]) : ~(i < 1)
        BY FormalsTyped, <1>2
      <3>2. \A i \in 1..Len(Locals[Top.fn]) : ~(Len(Params[Top.fn]) + i < 1)
        BY FormalsTyped, <1>2
      <3> QED BY <1>2, <1>3, <3>1, <3>2, BoundInInit
    <2> QED BY <2>1, <2>2
  <1>5. ResultOwned(new, objValue, heap, Borrowable(Len(stack)))
    BY <1>3 DEF ResultOwned, Restoring
  <1>6. "init" \in Phase
    BY DEF Phase
  <1> QED BY <1>1, <1>4, <1>5, <1>6, LambdaPhase

\* A new object becomes the value of a formal that the activation will destroy.
LEMMA OwnSlotAdded ==
  ASSUME NEW fr, NEW new, objValue \in [Slot -> Ref], NEW B,
         NEW p \in Slot, NEW x \in Oid \ Globals,
         FrameOwn(fr, objValue, heap, B), fr.kind = "lambda",
         p \notin RefParams, p \notin Bound(fr), Bound(new) = Bound(fr) \cup {p},
         heap[x] = "free", heap'[x] = "plain", objValue'[p] = x, \A s \in Slot : s # p => objValue'[s] = objValue[s],
         Bound(fr) \subseteq Slot,
         \A o \in Owned(fr, objValue, heap) : heap'[o] = heap[o],
         new.kind = fr.kind, new.evald = fr.evald, new.bits = fr.bits,
         Kept(new) = Kept(fr), Pending(new) = Pending(fr), Unbound(new) \subseteq Unbound(fr),
         fr.result = Null, new.result = Null, new.phase \notin Restoring, Counted(new)
  PROVE  /\ FrameOwn(new, objValue', heap', B)
         /\ Owned(new, objValue', heap') = Owned(fr, objValue, heap) \cup {x}
  <1>1. Owning(new) = Owning(fr) \cup {p} /\ p \notin Owning(fr)
    BY DEF Owning
  <1>2. objValue'[p] = x /\ \A s \in Slot : s # p => objValue'[s] = objValue[s]
    OBVIOUS
  <1>3. \A s \in Bound(fr) : s # p
    OBVIOUS
  <1>4. \A s \in Bound(fr) : objValue'[s] = objValue[s]
    BY <1>3
  <1>5. ASSUME NEW o \in Owned(fr, objValue, heap) PROVE o \in Oid /\ o # x /\ heap'[o] = heap[o]
    BY OwnedFacts
  <1>6. /\ \A s \in Owning(fr) : objValue[s] \in Owned(fr, objValue, heap)
        /\ \A j \in Kept(fr) : fr.evald[j] \in Owned(fr, objValue, heap)
        /\ \A j \in Pending(fr) : fr.evald[j] \in Owned(fr, objValue, heap)
    BY DEF Owned, SlotValues, KeptValues, PendingValues
  <1>7. \A s \in Owning(fr) : objValue'[s] = objValue[s]
    BY <1>4 DEF Owning
  <1>8. SlotValues(new, objValue') = SlotValues(fr, objValue) \cup {x}
    BY <1>1, <1>2, <1>7 DEF SlotValues
  <1>9. KeptValues(new) = KeptValues(fr) /\ PendingValues(new) = PendingValues(fr)
    BY DEF KeptValues, PendingValues
  <1>10. ResultValue(fr, heap) = {} /\ ResultValue(new, heap') = {}
    BY ConstantsAssumption DEF ResultValue
  <1>11. Owned(new, objValue', heap') = Owned(fr, objValue, heap) \cup {x}
    BY <1>8, <1>9, <1>10 DEF Owned
  <1>12. ArgsOwned(new, heap', B)
    <2>1. ASSUME NEW j \in Unbound(new)
          PROVE  new.evald[j] \in Oid
                 /\ IF j \in new.bits THEN heap'[new.evald[j]] = "temp" ELSE new.evald[j] \in B
      <3>1. j \in Unbound(fr) /\ (j \in fr.bits => j \in Pending(fr))
        BY DEF Pending
      <3> QED BY <1>5, <1>6, <3>1 DEF FrameOwn, ArgsOwned
    <2> QED BY <2>1 DEF FrameOwn, ArgsOwned
  <1>13. SlotsOwned(new, objValue', heap')
    BY <1>1, <1>2, <1>5, <1>6, <1>7 DEF FrameOwn, SlotsOwned
  <1>14. KeptOwned(new, heap')
    BY <1>5, <1>6 DEF FrameOwn, KeptOwned
  <1>15. RefsBorrowed(new, objValue', B)
    <2>1. ASSUME NEW s \in Bound(new) \cap RefParams PROVE s \in Bound(fr) \cap RefParams
      OBVIOUS
    <2> QED BY <1>4, <1>9, <2>1 DEF FrameOwn, RefsBorrowed
  <1>16. ResultOwned(new, objValue', heap', B)
    BY DEF ResultOwned
  <1>17. OwnedOnce(new, objValue')
    <2> DEFINE Args == Kept(fr) \cup Pending(fr)
    <2>1. /\ \A s, t \in Owning(fr) : objValue[s] = objValue[t] => s = t
          /\ \A i, j \in Args : fr.evald[i] = fr.evald[j] => i = j
          /\ \A s \in Owning(fr), j \in Args : objValue[s] # fr.evald[j]
      BY DEF FrameOwn, OwnedOnce
    <2>2. (\A s \in Owning(fr) : objValue[s] # x) /\ (\A j \in Args : fr.evald[j] # x)
      BY <1>5, <1>6
    <2>3. \A s, t \in Owning(new) : objValue'[s] = objValue'[t] => s = t
      BY <1>1, <1>2, <1>7, <2>1, <2>2
    <2>4. \A s \in Owning(new), j \in Args : objValue'[s] # fr.evald[j]
      BY <1>1, <1>2, <1>7, <2>1, <2>2
    <2> QED BY <2>1, <2>3, <2>4 DEF OwnedOnce
  <1> QED BY <1>11, <1>12, <1>13, <1>14, <1>15, <1>16, <1>17 DEF FrameOwn

\* A reference parameter gets a value that belongs to another activation.
LEMMA OwnRefBound ==
  ASSUME NEW fr, NEW new, objValue \in [Slot -> Ref], NEW B,
         NEW p \in Slot, NEW v \in B,
         FrameOwn(fr, objValue, heap, B), fr.kind = "lambda",
         p \in RefParams, p \notin Bound(fr), Bound(new) = Bound(fr) \cup {p},
         objValue'[p] = v, \A s \in Slot : s # p => objValue'[s] = objValue[s],
         Bound(fr) \subseteq Slot,
         \A o \in Owned(fr, objValue, heap) : heap'[o] = heap[o],
         new.kind = fr.kind, new.bits = fr.bits, Len(new.evald) = Len(fr.evald),
         \A j \in 1..Len(fr.evald) : j \in Unbound(new) \cup Kept(fr) => new.evald[j] = fr.evald[j],
         Kept(new) = Kept(fr), Pending(new) = Pending(fr), Unbound(new) \subseteq Unbound(fr),
         fr.result = Null, new.result = Null, new.phase \notin Restoring, Counted(new)
  PROVE  /\ FrameOwn(new, objValue', heap', B)
         /\ Owned(new, objValue', heap') = Owned(fr, objValue, heap)
  <1>1. Owning(new) = Owning(fr) /\ p \notin Owning(fr)
    BY DEF Owning
  <1>2. objValue'[p] = v /\ \A s \in Slot : s # p => objValue'[s] = objValue[s]
    OBVIOUS
  <1>3. \A s \in Bound(fr) : s # p
    OBVIOUS
  <1>4. \A s \in Bound(fr) : objValue'[s] = objValue[s]
    BY <1>3
  <1>5. ASSUME NEW o \in Owned(fr, objValue, heap) PROVE o \in Oid /\ heap'[o] = heap[o]
    BY OwnedFacts
  <1>6. /\ \A j \in Kept(fr) : j \in 1..Len(fr.evald) /\ new.evald[j] = fr.evald[j]
        /\ \A j \in Unbound(new) : j \in 1..Len(fr.evald) /\ new.evald[j] = fr.evald[j]
        /\ \A j \in Pending(fr) : new.evald[j] = fr.evald[j]
    <2>1. \A j \in Kept(fr) : j \in 1..Len(fr.evald)
      BY DEF Kept
    <2>2. \A j \in Unbound(new) : j \in 1..Len(fr.evald)
      BY DEF Unbound
    <2>3. \A j \in Pending(new) : j \in Unbound(new)
      BY DEF Pending
    <2> QED BY <2>1, <2>2, <2>3
  <1>7. /\ \A s \in Owning(fr) : objValue[s] \in Owned(fr, objValue, heap)
        /\ \A j \in Kept(fr) : fr.evald[j] \in Owned(fr, objValue, heap)
        /\ \A j \in Pending(fr) : fr.evald[j] \in Owned(fr, objValue, heap)
    BY DEF Owned, SlotValues, KeptValues, PendingValues
  <1>8. \A s \in Owning(fr) : objValue'[s] = objValue[s]
    BY <1>4 DEF Owning
  <1>9. /\ SlotValues(new, objValue') = SlotValues(fr, objValue) /\ KeptValues(new) = KeptValues(fr)
        /\ PendingValues(new) = PendingValues(fr)
    BY <1>1, <1>6, <1>8 DEF SlotValues, KeptValues, PendingValues
  <1>10. ResultValue(fr, heap) = {} /\ ResultValue(new, heap') = {}
    BY ConstantsAssumption DEF ResultValue
  <1>11. Owned(new, objValue', heap') = Owned(fr, objValue, heap)
    BY <1>9, <1>10 DEF Owned
  <1>12. ArgsOwned(new, heap', B)
    <2>1. ASSUME NEW j \in Unbound(new)
          PROVE  new.evald[j] \in Oid
                 /\ IF j \in new.bits THEN heap'[new.evald[j]] = "temp" ELSE new.evald[j] \in B
      <3>1. j \in Unbound(fr) /\ (j \in fr.bits => j \in Pending(fr))
        BY DEF Pending
      <3> QED BY <1>5, <1>6, <1>7, <3>1 DEF FrameOwn, ArgsOwned
    <2> QED BY <2>1 DEF FrameOwn, ArgsOwned
  <1>13. SlotsOwned(new, objValue', heap') /\ KeptOwned(new, heap')
    BY <1>1, <1>5, <1>6, <1>7, <1>8 DEF FrameOwn, SlotsOwned, KeptOwned
  <1>14. RefsBorrowed(new, objValue', B)
    BY <1>2, <1>4, <1>9 DEF FrameOwn, RefsBorrowed
  <1>15. ResultOwned(new, objValue', heap', B)
    BY DEF ResultOwned
  <1>16. OwnedOnce(new, objValue')
    <2> DEFINE Args == Kept(fr) \cup Pending(fr)
    <2>1. /\ \A s, t \in Owning(fr) : objValue[s] = objValue[t] => s = t
          /\ \A i, j \in Args : fr.evald[i] = fr.evald[j] => i = j
          /\ \A s \in Owning(fr), j \in Args : objValue[s] # fr.evald[j]
      BY DEF FrameOwn, OwnedOnce
    <2>2. \A j \in Args : new.evald[j] = fr.evald[j]
      BY <1>6
    <2> QED BY <1>1, <1>8, <2>1, <2>2 DEF OwnedOnce
  <1> QED BY <1>11, <1>12, <1>13, <1>14, <1>15, <1>16 DEF FrameOwn

\* The counter passes the parameter k, whose evaluated argument becomes w.
LEMMA NextParam ==
  ASSUME OwnInv, stack # <<>>, Top.kind = "lambda", Top.phase = "init", Top.k <= NPar(Top),
         NEW new, NEW w, new.kind = Top.kind, new.fn = Top.fn, new.phase = Top.phase,
         new.bits = Top.bits, new.k = Top.k + 1, new.arity = Top.arity,
         Len(new.evald) = Len(Top.evald), new.evald[Top.k] = w,
         \A j \in 1..Len(Top.evald) : j # Top.k => new.evald[j] = Top.evald[j]
  PROVE  LET p == Params[Top.fn][Top.k]
         IN  /\ p \in Slot /\ p \notin Bound(Top) /\ Bound(new) = Bound(Top) \cup {p}
             /\ Top.k \in 1..Len(Top.evald) /\ Top.k \in Unbound(Top) /\ Top.k \notin Kept(Top)
             /\ Unbound(new) = Unbound(Top) \ {Top.k} /\ Pending(new) = Pending(Top) \ {Top.k}
             /\ Kept(new) = Kept(Top) \cup (IF p \in RefParams /\ w # Null THEN {Top.k} ELSE {})
             /\ Counted(new)
  <1> DEFINE p == Params[Top.fn][Top.k]
             k == Top.k
             N == Len(Top.evald)
  <1>1. /\ Top.fn \in Fun /\ N \in Nat /\ k \in Nat /\ k >= 1 /\ N = NPar(Top) /\ N = Len(Params[Top.fn])
        /\ k \in 1..N /\ Len(Locals[Top.fn]) \in Nat
    BY LambdaOwn
  <1>2. p \in Slot
    BY <1>1, FormalsTyped
  <1>3. \A i \in 1..N : Params[Top.fn][i] = p => i = k
    BY <1>1, RolesDistinct, FormalsAssumption
  <1>4. \A i \in 1..Len(Locals[Top.fn]) : ~(N + i < k) /\ ~(N + i < k + 1)
    BY <1>1
  <1>5. ASSUME NEW s PROVE s \in Bound(Top) <=> \E i \in 1..N : i < k /\ s = Params[Top.fn][i]
    <2>1. s \in Bound(Top) <=>
            \/ \E i \in 1..Len(Params[Top.fn]) : i < Top.k /\ s = Params[Top.fn][i]
            \/ \E i \in 1..Len(Locals[Top.fn]) :
                   Len(Params[Top.fn]) + i < Top.k /\ s = Locals[Top.fn][i]
      BY <1>1, BoundInInit, SMTT(30)
    <2> QED BY <1>1, <1>4, <2>1
  <1>6. ASSUME NEW s PROVE s \in Bound(new) <=> \E i \in 1..N : i < k + 1 /\ s = Params[Top.fn][i]
    <2>1. s \in Bound(new) <=>
            \/ \E i \in 1..Len(Params[new.fn]) : i < new.k /\ s = Params[new.fn][i]
            \/ \E i \in 1..Len(Locals[new.fn]) :
                   Len(Params[new.fn]) + i < new.k /\ s = Locals[new.fn][i]
      BY <1>1, BoundInInit, SMTT(30)
    <2> QED BY <1>1, <1>4, <2>1
  <1>7. \A i \in 1..N : (i < k + 1 <=> i < k \/ i = k) /\ (i >= k + 1 <=> i >= k /\ i # k) /\ ~(k < k)
    BY <1>1
  <1>8. p \notin Bound(Top)
    <2>1. SUFFICES ASSUME NEW i \in 1..N, i < k, p = Params[Top.fn][i] PROVE FALSE
      BY <1>5
    <2> QED BY <1>3, <1>7, <2>1
  <1>9. Bound(new) = Bound(Top) \cup {p}
    <2>1. ASSUME NEW s PROVE s \in Bound(new) <=> s \in Bound(Top) \/ s = p
      BY <1>1, <1>5, <1>6, <1>7
    <2> QED BY <2>1
  <1>10. k \in Unbound(Top) /\ k \notin Kept(Top)
    BY <1>1, <1>7 DEF Unbound, Kept
  <1>11. Unbound(new) = Unbound(Top) \ {k}
    BY <1>7 DEF Unbound
  <1>12. Pending(new) = Pending(Top) \ {k}
    BY <1>11 DEF Pending
  <1>13. Kept(new) = Kept(Top) \cup (IF p \in RefParams /\ w # Null THEN {k} ELSE {})
    <2>1. ASSUME NEW j \in 1..N
          PROVE  j \in Kept(new) <=>
                   j \in Kept(Top) \cup (IF p \in RefParams /\ w # Null THEN {k} ELSE {})
      <3>1. CASE j = k
        BY <1>7, <3>1 DEF Kept
      <3>2. CASE j # k
        BY <1>7, <3>2 DEF Kept
      <3> QED BY <3>1, <3>2
    <2>2. Kept(new) \subseteq 1..N /\ Kept(Top) \subseteq 1..N /\ k \in 1..N
      BY <1>1 DEF Kept
    <2> QED BY <2>1, <2>2
  <1>14. Counted(new)
    BY DEF Counted
  <1> QED BY <1>1, <1>2, <1>8, <1>9, <1>10, <1>11, <1>12, <1>13, <1>14

PassParam(fr, w) == [fr EXCEPT !.k = @ + 1, !.evald[fr.k] = w]

LEMMA ParamFields ==
  ASSUME NEW fr \in Frame, NEW w \in Ref, fr.k \in 1..Len(fr.evald), NEW new, new = PassParam(fr, w)
  PROVE  /\ new.kind = fr.kind /\ new.fn = fr.fn /\ new.phase = fr.phase /\ new.bits = fr.bits
         /\ new.arity = fr.arity /\ new.sort = fr.sort /\ new.entry = fr.entry
         /\ new.result = fr.result /\ new.k = fr.k + 1
         /\ Len(new.evald) = Len(fr.evald) /\ new.evald[fr.k] = w
         /\ \A j \in 1..Len(fr.evald) : j # fr.k => new.evald[j] = fr.evald[j]
  <1>1. fr.evald \in Seq(Ref) /\ Len(fr.evald) \in Nat /\ DOMAIN fr.evald = 1..Len(fr.evald)
    BY DEF Frame
  <1> DEFINE ev == [fr.evald EXCEPT ![fr.k] = w]
  <1>2. new = [fr EXCEPT !.k = fr.k + 1, !.evald = ev]
    BY DEF Frame, PassParam
  <1>3. /\ new.kind = fr.kind /\ new.fn = fr.fn /\ new.phase = fr.phase /\ new.bits = fr.bits
        /\ new.arity = fr.arity /\ new.sort = fr.sort /\ new.entry = fr.entry
        /\ new.result = fr.result /\ new.k = fr.k + 1 /\ new.evald = ev
    BY <1>2 DEF Frame
  <1>4. Len(ev) = Len(fr.evald)
    BY <1>1
  <1> QED BY <1>1, <1>3, <1>4

\* The argument that is bound next: either it is owned as a temporary or it is borrowed.
LEMMA NextArgument ==
  ASSUME OwnInv, stack # <<>>, Top.kind = "lambda", Top.phase = "init", Top.k <= NPar(Top),
         Top.k \in Unbound(Top)
  PROVE  LET v == Top.evald[Top.k]
         IN  /\ v \in Oid /\ v \in Ref
             /\ heap[v] = "temp" => Top.k \in Pending(Top) /\ v \notin Globals
             /\ heap[v] # "temp" => /\ v \in Borrowable(Len(stack)) /\ Top.k \notin Pending(Top)
                                    /\ v \notin Owned(Top, objValue, heap)
  <1> DEFINE v == Top.evald[Top.k]
  <1>1. FrameOwn(Top, objValue, heap, Borrowable(Len(stack)))
    BY TopOwn
  <1>2. /\ v \in Oid
        /\ Top.k \in Top.bits => heap[v] = "temp"
        /\ Top.k \notin Top.bits => v \in Borrowable(Len(stack))
    BY <1>1 DEF FrameOwn, ArgsOwned
  <1>3. v \in Borrowable(Len(stack)) => heap[v] # "temp"
    <2>1. Len(stack) \in 1..Len(stack) + 1
      BY TopOwn, OwnShape
    <2> QED BY <2>1, BorrowedFacts
  <1>4. v \in Borrowable(Len(stack)) => v \notin Owned(Top, objValue, heap)
    BY TopOwn, BorrowedElsewhere
  <1>5. v \in Globals => heap[v] # "temp"
    BY OwnShape
  <1> QED BY <1>2, <1>3, <1>4, <1>5 DEF Pending, Ref

\* A temporary moves from the list of evaluated arguments to the formal; when the
\* parameter is a reference, the list keeps it as TEMP2.
LEMMA OwnTempBound ==
  ASSUME NEW fr, NEW new, objValue \in [Slot -> Ref], NEW B,
         NEW p \in Slot, NEW k, NEW v \in Oid \ Globals,
         FrameOwn(fr, objValue, heap, B), fr.kind = "lambda", k \in Pending(fr), fr.evald[k] = v,
         p \notin Bound(fr), Bound(new) = Bound(fr) \cup {p}, k \notin Kept(fr),
         objValue'[p] = v, \A s \in Slot : s # p => objValue'[s] = objValue[s],
         Bound(fr) \subseteq Slot,
         \A o \in Oid : heap'[o] = IF o = v THEN BoundFlag(p) ELSE heap[o],
         new.kind = fr.kind, new.bits = fr.bits, Len(new.evald) = Len(fr.evald),
         \A j \in 1..Len(fr.evald) : j # k => new.evald[j] = fr.evald[j],
         p \in RefParams => new.evald[k] = v,
         Kept(new) = Kept(fr) \cup (IF p \in RefParams THEN {k} ELSE {}),
         Pending(new) = Pending(fr) \ {k}, Unbound(new) = Unbound(fr) \ {k},
         fr.result = Null, new.result = Null, new.phase \notin Restoring, Counted(new)
  PROVE  /\ FrameOwn(new, objValue', heap', B)
         /\ Owned(new, objValue', heap') = Owned(fr, objValue, heap)
  <1> DEFINE Args == Kept(fr) \cup Pending(fr)
  <1>1. Owning(new) = Owning(fr) \cup (IF p \in RefParams THEN {} ELSE {p}) /\ p \notin Owning(fr)
    BY DEF Owning
  <1>2. objValue'[p] = v /\ \A s \in Slot : s # p => objValue'[s] = objValue[s]
    OBVIOUS
  <1>3. \A s \in Bound(fr) : s # p
    OBVIOUS
  <1>4. \A s \in Bound(fr) : objValue'[s] = objValue[s]
    BY <1>3
  <1>5. /\ \A s \in Owning(fr) : objValue[s] \in Owned(fr, objValue, heap) /\ objValue'[s] = objValue[s]
        /\ \A j \in Kept(fr) : fr.evald[j] \in Owned(fr, objValue, heap)
        /\ \A j \in Pending(fr) : fr.evald[j] \in Owned(fr, objValue, heap)
    BY <1>4 DEF Owned, SlotValues, KeptValues, PendingValues, Owning
  <1>6. /\ \A s, t \in Owning(fr) : objValue[s] = objValue[t] => s = t
        /\ \A i, j \in Args : fr.evald[i] = fr.evald[j] => i = j
        /\ \A s \in Owning(fr), j \in Args : objValue[s] # fr.evald[j]
    BY DEF FrameOwn, OwnedOnce
  <1>7. (\A s \in Owning(fr) : objValue[s] # v) /\ (\A j \in Args : j # k => fr.evald[j] # v)
    BY <1>6
  <1>8. /\ \A j \in Kept(fr) : j \in 1..Len(fr.evald) /\ j # k /\ new.evald[j] = fr.evald[j]
        /\ \A j \in Unbound(new) : j \in 1..Len(fr.evald) /\ j # k /\ new.evald[j] = fr.evald[j]
        /\ \A j \in Pending(new) : j # k /\ new.evald[j] = fr.evald[j]
    <2>1. \A j \in Kept(fr) : j \in 1..Len(fr.evald) /\ j # k
      BY DEF Kept
    <2>2. \A j \in Unbound(new) : j \in 1..Len(fr.evald) /\ j # k
      BY DEF Unbound
    <2>3. \A j \in Pending(new) : j \in Unbound(new)
      BY DEF Pending
    <2> QED BY <2>1, <2>2, <2>3
  <1>9. ASSUME NEW o \in Owned(fr, objValue, heap), o # v PROVE o \in Oid /\ heap'[o] = heap[o]
    BY <1>9, OwnedFacts
  <1>10. ResultValue(fr, heap) = {} /\ ResultValue(new, heap') = {}
    BY ConstantsAssumption DEF ResultValue
  <1>11. Owned(new, objValue', heap') = Owned(fr, objValue, heap)
    <2>1. SlotValues(new, objValue') = SlotValues(fr, objValue) \cup (IF p \in RefParams THEN {} ELSE {v})
      BY <1>1, <1>2, <1>5 DEF SlotValues
    <2>2. KeptValues(new) = KeptValues(fr) \cup (IF p \in RefParams THEN {v} ELSE {})
      BY <1>8 DEF KeptValues
    <2>3. PendingValues(fr) = PendingValues(new) \cup {v}
      <3>1. \A j \in Pending(fr) : j = k \/ j \in Pending(new)
        OBVIOUS
      <3> QED BY <1>8, <3>1 DEF PendingValues
    <2> QED BY <1>10, <2>1, <2>2, <2>3 DEF Owned
  <1>12. ArgsOwned(new, heap', B)
    <2>1. ASSUME NEW j \in Unbound(new)
          PROVE  new.evald[j] \in Oid
                 /\ IF j \in new.bits THEN heap'[new.evald[j]] = "temp" ELSE new.evald[j] \in B
      <3>1. /\ j \in Unbound(fr) /\ (j \in fr.bits => j \in Pending(fr))
            /\ j # k /\ new.evald[j] = fr.evald[j]
        BY <1>8 DEF Pending
      <3> QED BY <1>5, <1>7, <1>9, <3>1 DEF FrameOwn, ArgsOwned
    <2> QED BY <2>1 DEF FrameOwn, ArgsOwned
  <1>13. SlotsOwned(new, objValue', heap')
    <2>1. \A s \in Owning(fr) : objValue[s] \in Oid \ Globals /\ heap[objValue[s]] = "plain"
      BY DEF FrameOwn, SlotsOwned
    <2>2. \A s \in Owning(fr) : objValue'[s] \in Oid \ Globals /\ heap'[objValue'[s]] = "plain"
      BY <1>5, <1>7, <2>1
    <2> QED BY <1>1, <1>2, <2>2 DEF SlotsOwned, BoundFlag
  <1>14. KeptOwned(new, heap')
    <2>1. \A j \in Kept(fr) : new.evald[j] \in Oid \ Globals /\ heap'[new.evald[j]] \in {"plain", "temp2"}
      BY <1>7, <1>8 DEF FrameOwn, KeptOwned
    <2> QED BY <2>1 DEF KeptOwned, BoundFlag
  <1>15. RefsBorrowed(new, objValue', B)
    <2>1. KeptValues(fr) \subseteq KeptValues(new) /\ (p \in RefParams => v \in KeptValues(new))
      BY <1>8 DEF KeptValues
    <2> QED BY <1>2, <1>4, <2>1 DEF FrameOwn, RefsBorrowed
  <1>16. ResultOwned(new, objValue', heap', B)
    BY DEF ResultOwned
  <1>17. OwnedOnce(new, objValue')
    <2>1. CASE p \in RefParams
      <3>1. Kept(new) \cup Pending(new) = Args /\ \A j \in Args : new.evald[j] = fr.evald[j]
        BY <1>8, <2>1
      <3> QED BY <1>1, <1>5, <1>6, <2>1, <3>1 DEF OwnedOnce
    <2>2. CASE p \notin RefParams
      <3>1. /\ Owning(new) = Owning(fr) \cup {p}
            /\ \A j \in Kept(new) \cup Pending(new) : j \in Args /\ j # k /\ new.evald[j] = fr.evald[j]
        BY <1>1, <1>8, <2>2
      <3>2. \A s, t \in Owning(new) : objValue'[s] = objValue'[t] => s = t
        BY <1>2, <1>5, <1>6, <1>7, <3>1
      <3>3. \A s \in Owning(new), j \in Kept(new) \cup Pending(new) : objValue'[s] # new.evald[j]
        BY <1>2, <1>5, <1>6, <1>7, <3>1
      <3> QED BY <1>6, <3>1, <3>2, <3>3 DEF OwnedOnce
    <2> QED BY <2>1, <2>2
  <1> QED BY <1>11, <1>12, <1>13, <1>14, <1>15, <1>16, <1>17 DEF FrameOwn

LEMMA BindTempOwn ==
  ASSUME OwnInv, BindingInv', BindTemp
  PROVE  OwnInv' /\ (Exact => Exact')
  <1> DEFINE p == Params[Top.fn][Top.k]
             v == Top.evald[Top.k]
             w == IF p \in RefParams THEN v ELSE Null
             new == [Top EXCEPT !.k = @ + 1, !.evald[Top.k] = w]
             B == Borrowable(Len(stack))
  <1>1. /\ stack # <<>> /\ Top.kind = "lambda" /\ Top.phase = "init" /\ Top.k <= NPar(Top)
        /\ heap[v] = "temp" /\ objValue' = [objValue EXCEPT ![p] = v]
        /\ heap' = [heap EXCEPT ![v] = BoundFlag(p)] /\ stack' = SetTop(new)
    BY DEF BindTemp, InLambda
  <1>2. /\ FrameOwn(Top, objValue, heap, B) /\ Top \in Frame /\ Top.result = Null
        /\ Top.k \in Nat /\ Top.k >= 1 /\ Len(Top.evald) \in Nat /\ Len(Top.evald) = NPar(Top)
        /\ objValue \in [Slot -> Ref] /\ Bound(Top) \subseteq Slot
    BY <1>1, LambdaOwn DEF Restoring
  <1>3. Top.k \in 1..Len(Top.evald) /\ Top.k \in Unbound(Top)
    BY <1>1, <1>2 DEF Unbound
  <1>4. v \in Oid \ Globals /\ v \in Ref /\ Top.k \in Pending(Top)
    BY <1>1, <1>3, NextArgument
  <1>5. w \in Ref /\ (p \in RefParams /\ w # Null <=> p \in RefParams)
    BY <1>4, ConstantsAssumption DEF Ref
  <1>6. /\ new.kind = Top.kind /\ new.fn = Top.fn /\ new.phase = Top.phase /\ new.bits = Top.bits
        /\ new.arity = Top.arity /\ new.sort = Top.sort /\ new.entry = Top.entry
        /\ new.result = Top.result /\ new.k = Top.k + 1
        /\ Len(new.evald) = Len(Top.evald) /\ new.evald[Top.k] = w
        /\ \A j \in 1..Len(Top.evald) : j # Top.k => new.evald[j] = Top.evald[j]
    <2>1. new = PassParam(Top, w)
      BY DEF PassParam
    <2> HIDE DEF new, w
    <2> QED BY <1>2, <1>3, <1>5, <2>1, ParamFields
  <1> HIDE DEF new, w, B
  <1>7. /\ p \in Slot /\ p \notin Bound(Top) /\ Bound(new) = Bound(Top) \cup {p}
        /\ Top.k \notin Kept(Top)
        /\ Unbound(new) = Unbound(Top) \ {Top.k} /\ Pending(new) = Pending(Top) \ {Top.k}
        /\ Kept(new) = Kept(Top) \cup (IF p \in RefParams /\ w # Null THEN {Top.k} ELSE {})
        /\ Counted(new)
    BY <1>1, <1>6, NextParam
  <1>8. Kept(new) = Kept(Top) \cup (IF p \in RefParams THEN {Top.k} ELSE {})
    BY <1>5, <1>7
  <1>9. /\ p \in RefParams => new.evald[Top.k] = v
        /\ new.result = Null /\ new.phase \notin Restoring
    BY <1>1, <1>2, <1>6 DEF w, Restoring
  <1>10. \A o \in Oid : heap'[o] = IF o = v THEN BoundFlag(p) ELSE heap[o]
    BY <1>1, <1>4, OwnShape
  <1>11. /\ FrameOwn(new, objValue', heap', B)
         /\ Owned(new, objValue', heap') = Owned(Top, objValue, heap)
    <2>2. /\ objValue'[p] = v /\ \A s \in Slot : s # p => objValue'[s] = objValue[s]
          /\ Top.kind = "lambda"
      BY <1>1, <1>2, <1>7
    <2> HIDE DEF p, v
    <2>1. v = Top.evald[Top.k]
      BY DEF v
    <2>3. PICK k : k = Top.k
      OBVIOUS
    <2>4. /\ k \in Pending(Top) /\ Top.evald[k] = v /\ k \notin Kept(Top)
          /\ (p \in RefParams => new.evald[k] = v)
          /\ \A j \in 1..Len(Top.evald) : j # k => new.evald[j] = Top.evald[j]
          /\ Kept(new) = Kept(Top) \cup (IF p \in RefParams THEN {k} ELSE {})
          /\ Pending(new) = Pending(Top) \ {k} /\ Unbound(new) = Unbound(Top) \ {k}
      BY <1>4, <1>6, <1>7, <1>8, <1>9, <2>1, <2>3
    <2>5. /\ p \in Slot /\ v \in Oid \ Globals /\ p \notin Bound(Top)
          /\ Bound(new) = Bound(Top) \cup {p} /\ Bound(Top) \subseteq Slot
          /\ objValue \in [Slot -> Ref] /\ FrameOwn(Top, objValue, heap, B)
          /\ new.kind = Top.kind /\ new.bits = Top.bits /\ Len(new.evald) = Len(Top.evald)
          /\ Top.result = Null /\ new.result = Null /\ new.phase \notin Restoring /\ Counted(new)
      BY <1>2, <1>4, <1>6, <1>7, <1>9
    <2>6. FrameOwn(new, objValue', heap', B)
      BY <1>10, <2>2, <2>4, <2>5, OwnTempBound, SMTT(30)
    <2>7. Owned(new, objValue', heap') = Owned(Top, objValue, heap)
      BY <1>10, <2>2, <2>4, <2>5, OwnTempBound, SMTT(30)
    <2> QED BY <2>6, <2>7
  <1>12. v \in Owned(Top, objValue, heap)
    BY <1>4 DEF Owned, PendingValues
  <1>13. Undisturbed(heap, heap', Owned(Top, objValue, heap))
         /\ Accounted(Owned(new, objValue', heap'))
    BY <1>10, <1>11, <1>12 DEF Undisturbed, Accounted
  <1> QED BY <1>1, <1>6, <1>11, <1>13, OwnStep DEF B

\* The flag TEMP2 of an object that is only referred to is cleared.
LEMMA ClearedOwn ==
  ASSUME OwnInv, stack # <<>>, NEW v \in Oid, v \notin Owned(Top, objValue, heap),
         heap' = ClearTemp2(v)
  PROVE  /\ \A o \in Oid : heap'[o] = IF o = v /\ heap[o] = "temp2" THEN "plain" ELSE heap[o]
         /\ \A o \in Owned(Top, objValue, heap) : heap'[o] = heap[o]
         /\ Undisturbed(heap, heap', Owned(Top, objValue, heap))
         /\ Accounted(Owned(Top, objValue, heap))
  <1>1. \A o \in Oid : heap'[o] = IF o = v /\ heap[o] = "temp2" THEN "plain" ELSE heap[o]
    BY OwnShape DEF ClearTemp2
  <1>2. \A o \in Owned(Top, objValue, heap) : o \in Oid
    BY TopOwn, OwnedFacts
  <1> QED BY <1>1, <1>2 DEF Undisturbed, Accounted, Gone

LEMMA BindRefOwn ==
  ASSUME OwnInv, BindingInv', BindRef
  PROVE  OwnInv' /\ (Exact => Exact')
  <1> DEFINE p == Params[Top.fn][Top.k]
             v == Top.evald[Top.k]
             new == [Top EXCEPT !.k = @ + 1, !.evald[Top.k] = Null]
             B == Borrowable(Len(stack))
  <1>1. /\ stack # <<>> /\ Top.kind = "lambda" /\ Top.phase = "init" /\ Top.k <= NPar(Top)
        /\ heap[v] # "temp" /\ p \in RefParams /\ objValue' = [objValue EXCEPT ![p] = v]
        /\ heap' = ClearTemp2(v) /\ stack' = SetTop(new)
    BY DEF BindRef, InLambda
  <1>2. /\ FrameOwn(Top, objValue, heap, B) /\ Top \in Frame /\ Top.result = Null
        /\ Top.k \in Nat /\ Top.k >= 1 /\ Len(Top.evald) \in Nat /\ Len(Top.evald) = NPar(Top)
        /\ objValue \in [Slot -> Ref] /\ Bound(Top) \subseteq Slot
    BY <1>1, LambdaOwn DEF Restoring
  <1>3. Top.k \in 1..Len(Top.evald) /\ Top.k \in Unbound(Top)
    BY <1>1, <1>2 DEF Unbound
  <1>4. v \in Oid /\ v \in B /\ Top.k \notin Pending(Top) /\ v \notin Owned(Top, objValue, heap)
    BY <1>1, <1>3, NextArgument
  <1>5. /\ new.kind = Top.kind /\ new.fn = Top.fn /\ new.phase = Top.phase /\ new.bits = Top.bits
        /\ new.arity = Top.arity /\ new.sort = Top.sort /\ new.entry = Top.entry
        /\ new.result = Top.result /\ new.k = Top.k + 1
        /\ Len(new.evald) = Len(Top.evald) /\ new.evald[Top.k] = Null
        /\ \A j \in 1..Len(Top.evald) : j # Top.k => new.evald[j] = Top.evald[j]
    <2>1. Null \in Ref
      BY DEF Ref
    <2>2. new = PassParam(Top, Null)
      BY DEF PassParam
    <2> HIDE DEF new
    <2> QED BY <1>2, <1>3, <2>1, <2>2, ParamFields
  <1> HIDE DEF new, B
  <1>6. /\ p \in Slot /\ p \notin Bound(Top) /\ Bound(new) = Bound(Top) \cup {p}
        /\ Top.k \notin Kept(Top)
        /\ Unbound(new) = Unbound(Top) \ {Top.k} /\ Pending(new) = Pending(Top) \ {Top.k}
        /\ Kept(new) = Kept(Top) \cup (IF p \in RefParams /\ Null # Null THEN {Top.k} ELSE {})
        /\ Counted(new)
    BY <1>1, <1>5, NextParam
  <1>7. Kept(new) = Kept(Top) /\ Pending(new) = Pending(Top) /\ Unbound(new) \subseteq Unbound(Top)
    BY <1>4, <1>6
  <1>8. new.result = Null /\ new.phase \notin Restoring
    BY <1>1, <1>2, <1>5 DEF Restoring
  <1>9. \A j \in 1..Len(Top.evald) : j \in Unbound(new) \cup Kept(Top) => new.evald[j] = Top.evald[j]
    BY <1>5, <1>6
  <1>10. /\ \A o \in Owned(Top, objValue, heap) : heap'[o] = heap[o]
         /\ Undisturbed(heap, heap', Owned(Top, objValue, heap))
         /\ Accounted(Owned(Top, objValue, heap))
    BY <1>1, <1>4, ClearedOwn
  <1>11. /\ FrameOwn(new, objValue', heap', B)
         /\ Owned(new, objValue', heap') = Owned(Top, objValue, heap)
    <2>2. /\ objValue'[p] = v /\ \A s \in Slot : s # p => objValue'[s] = objValue[s]
          /\ Top.kind = "lambda" /\ p \in RefParams
      BY <1>1, <1>2, <1>6
    <2> HIDE DEF p, v
    <2> QED BY <1>2, <1>4, <1>5, <1>6, <1>7, <1>8, <1>9, <1>10, <2>2, OwnRefBound
  <1>12. Accounted(Owned(new, objValue', heap'))
    BY <1>10, <1>11
  <1> QED BY <1>1, <1>5, <1>10, <1>11, <1>12, OwnStep DEF B

\* A new object for a value parameter, a local variable or the result.
LEMMA CreatedOwn ==
  ASSUME OwnInv, stack # <<>>, NEW h \in [Oid -> Flags], FreeOids # {},
         heap' = [h EXCEPT ![NewObj] = "plain"],
         \A o \in Oid : h[o] = heap[o] \/ (h[o] = "plain" /\ heap[o] = "temp2"
                                           /\ o \notin Owned(Top, objValue, heap))
  PROVE  /\ NewObj \in Oid \ Globals /\ heap[NewObj] = "free" /\ heap'[NewObj] = "plain"
         /\ \A o \in Owned(Top, objValue, heap) : heap'[o] = heap[o]
         /\ Undisturbed(heap, heap', Owned(Top, objValue, heap))
         /\ Accounted(Owned(Top, objValue, heap) \cup {NewObj})
  <1>1. NewObj \in Oid /\ heap[NewObj] = "free"
    BY DEF NewObj, FreeOids
  <1>2. NewObj \notin Globals
    BY <1>1, OwnShape
  <1>3. \A o \in Oid : heap'[o] = IF o = NewObj THEN "plain" ELSE h[o]
    OBVIOUS
  <1>4. \A o \in Owned(Top, objValue, heap) : o \in Oid /\ heap[o] # "free"
    BY TopOwn, OwnedFacts
  <1>5. \A o \in Owned(Top, objValue, heap) : heap'[o] = heap[o]
    BY <1>1, <1>3, <1>4
  <1>6. Undisturbed(heap, heap', Owned(Top, objValue, heap))
    BY <1>1, <1>3 DEF Undisturbed
  <1>7. Accounted(Owned(Top, objValue, heap) \cup {NewObj})
    BY <1>1, <1>3 DEF Accounted, Gone
  <1> QED BY <1>1, <1>2, <1>3, <1>5, <1>6, <1>7

LEMMA BindValueOwn ==
  ASSUME OwnInv, BindingInv', CreateOutcomes = {"ok"}, BindValue
  PROVE  OwnInv' /\ (Exact => Exact')
  <1> DEFINE p == Params[Top.fn][Top.k]
             v == Top.evald[Top.k]
             new == [Top EXCEPT !.k = @ + 1]
             B == Borrowable(Len(stack))
  <1>1. /\ stack # <<>> /\ Top.kind = "lambda" /\ Top.phase = "init" /\ Top.k <= NPar(Top)
        /\ p \notin RefParams /\ heap[v] # "temp"
    BY DEF BindValue, InLambda
  <1>2. /\ FrameOwn(Top, objValue, heap, B) /\ Top \in Frame /\ Top.result = Null
        /\ Top.k \in Nat /\ Top.k >= 1 /\ Len(Top.evald) \in Nat /\ Len(Top.evald) = NPar(Top)
        /\ objValue \in [Slot -> Ref] /\ Bound(Top) \subseteq Slot
    BY <1>1, LambdaOwn DEF Restoring
  <1>3. PossibleOutcomes = {"ok"}
    BY <1>1, LambdaTop DEF OwnInv, PossibleOutcomes
  <1>4. CreateLocalObject(p, "ok", ClearTemp2(v)) /\ stack' = SetTop(new)
    BY <1>3 DEF BindValue
  <1>5. /\ FreeOids # {} /\ objValue' = [objValue EXCEPT ![p] = NewObj]
        /\ heap' = [ClearTemp2(v) EXCEPT ![NewObj] = "plain"]
    BY <1>4 DEF CreateLocalObject
  <1>6. Top.k \in 1..Len(Top.evald) /\ Top.k \in Unbound(Top)
    BY <1>1, <1>2 DEF Unbound
  <1>7. v \in Oid /\ Top.k \notin Pending(Top) /\ v \notin Owned(Top, objValue, heap)
    BY <1>1, <1>6, NextArgument
  <1>8. /\ new.kind = Top.kind /\ new.fn = Top.fn /\ new.phase = Top.phase /\ new.bits = Top.bits
        /\ new.arity = Top.arity /\ new.sort = Top.sort /\ new.entry = Top.entry
        /\ new.result = Top.result /\ new.k = Top.k + 1 /\ new.evald = Top.evald
    BY <1>2 DEF Frame
  <1> HIDE DEF new, B
  <1>9. /\ Len(new.evald) = Len(Top.evald) /\ new.evald[Top.k] = v
        /\ \A j \in 1..Len(Top.evald) : j # Top.k => new.evald[j] = Top.evald[j]
    BY <1>8
  <1>10. /\ p \in Slot /\ p \notin Bound(Top) /\ Bound(new) = Bound(Top) \cup {p}
         /\ Unbound(new) = Unbound(Top) \ {Top.k} /\ Pending(new) = Pending(Top) \ {Top.k}
         /\ Kept(new) = Kept(Top) \cup (IF p \in RefParams /\ v # Null THEN {Top.k} ELSE {})
         /\ Counted(new)
    BY <1>1, <1>8, <1>9, NextParam
  <1>11. Kept(new) = Kept(Top) /\ Pending(new) = Pending(Top) /\ Unbound(new) \subseteq Unbound(Top)
    BY <1>1, <1>7, <1>10
  <1>12. /\ ClearTemp2(v) \in [Oid -> Flags]
         /\ \A o \in Oid : ClearTemp2(v)[o] = heap[o]
              \/ (ClearTemp2(v)[o] = "plain" /\ heap[o] = "temp2" /\ o \notin Owned(Top, objValue, heap))
    BY <1>7, OwnShape DEF ClearTemp2, Flags
  <1>13. /\ NewObj \in Oid \ Globals /\ heap[NewObj] = "free" /\ heap'[NewObj] = "plain"
         /\ \A o \in Owned(Top, objValue, heap) : heap'[o] = heap[o]
         /\ Undisturbed(heap, heap', Owned(Top, objValue, heap))
         /\ Accounted(Owned(Top, objValue, heap) \cup {NewObj})
    BY <1>1, <1>5, <1>12, CreatedOwn
  <1>14. /\ objValue'[p] = NewObj /\ \A s \in Slot : s # p => objValue'[s] = objValue[s]
         /\ Top.kind = "lambda" /\ new.result = Null /\ new.phase \notin Restoring
    BY <1>1, <1>2, <1>5, <1>8, <1>10 DEF Restoring
  <1> HIDE DEF p, v
  <1>15. /\ FrameOwn(new, objValue', heap', B)
         /\ Owned(new, objValue', heap') = Owned(Top, objValue, heap) \cup {NewObj}
    BY <1>1, <1>2, <1>8, <1>10, <1>11, <1>13, <1>14, OwnSlotAdded
  <1>16. /\ Accounted(Owned(new, objValue', heap'))
         /\ \A o \in Owned(new, objValue', heap') : o \in Owned(Top, objValue, heap) \/ heap[o] = "free"
    BY <1>13, <1>15
  <1> QED BY <1>1, <1>4, <1>8, <1>13, <1>15, <1>16, OwnStep DEF B

-----------------------------------------------------------------------------
(* exec_lambda: loc_init and res_init *)

\* A local variable or the result gets a new object.
LEMMA LocalCreatedOwn ==
  ASSUME OwnInv, BindingInv', stack # <<>>, Top.kind = "lambda", Top.phase = "init",
         Top.k > NPar(Top), NEW l \in Slot, l \notin RefParams, l \notin Bound(Top),
         CreateLocalObject(l, "ok", heap),
         NEW new, stack' = SetTop(new), Bound(new) = Bound(Top) \cup {l},
         new.kind = Top.kind, new.fn = Top.fn, new.bits = Top.bits, new.arity = Top.arity,
         new.sort = Top.sort, new.entry = Top.entry, new.result = Top.result,
         new.evald = Top.evald, new.phase \in {"init", "body"}, new.k \in {Top.k, Top.k + 1}
  PROVE  OwnInv' /\ (Exact => Exact')
  <1> DEFINE B == Borrowable(Len(stack))
  <1>0. /\ FreeOids # {} /\ objValue' = [objValue EXCEPT ![l] = NewObj]
        /\ heap' = [heap EXCEPT ![NewObj] = "plain"]
    BY DEF CreateLocalObject
  <1>1. /\ FrameOwn(Top, objValue, heap, B) /\ Top \in Frame /\ Top.result = Null
        /\ Top.k \in Nat /\ NPar(Top) \in Nat /\ Len(Top.evald) = NPar(Top)
        /\ objValue \in [Slot -> Ref] /\ Bound(Top) \subseteq Slot
    BY LambdaOwn DEF Restoring
  <1>2. \A j \in 1..Len(Top.evald) : /\ ~(j >= Top.k) /\ ~(j >= new.k) /\ j < Top.k /\ j < new.k
    BY <1>1
  <1>3. Unbound(new) = {} /\ Unbound(Top) = {}
    BY <1>2 DEF Unbound
  <1>4. Pending(new) = Pending(Top) /\ Kept(new) = Kept(Top) /\ Unbound(new) \subseteq Unbound(Top)
    BY <1>2, <1>3 DEF Pending, Kept
  <1>5. Counted(new)
    BY <1>1 DEF Counted, NPar
  <1>6. /\ NewObj \in Oid \ Globals /\ heap[NewObj] = "free" /\ heap'[NewObj] = "plain"
        /\ \A o \in Owned(Top, objValue, heap) : heap'[o] = heap[o]
        /\ Undisturbed(heap, heap', Owned(Top, objValue, heap))
        /\ Accounted(Owned(Top, objValue, heap) \cup {NewObj})
    BY <1>0, OwnShape, CreatedOwn
  <1>7. /\ objValue'[l] = NewObj /\ \A s \in Slot : s # l => objValue'[s] = objValue[s]
        /\ new.result = Null /\ new.phase \notin Restoring
    BY <1>0, <1>1 DEF Restoring
  <1> HIDE DEF B
  <1>8. /\ FrameOwn(new, objValue', heap', B)
        /\ Owned(new, objValue', heap') = Owned(Top, objValue, heap) \cup {NewObj}
    BY <1>1, <1>4, <1>5, <1>6, <1>7, OwnSlotAdded
  <1>9. /\ Accounted(Owned(new, objValue', heap'))
        /\ \A o \in Owned(new, objValue', heap') : o \in Owned(Top, objValue, heap) \/ heap[o] = "free"
    BY <1>6, <1>8
  <1> QED BY <1>6, <1>8, <1>9, OwnStep DEF B

LEMMA LocInitOwn ==
  ASSUME OwnInv, BindingInv', CreateOutcomes = {"ok"}, LocInit
  PROVE  OwnInv' /\ (Exact => Exact')
  <1> DEFINE P == Len(Params[Top.fn])
             N == Len(Locals[Top.fn])
             n == Top.k - P
             l == Locals[Top.fn][n]
             new == [Top EXCEPT !.k = @ + 1, !.backup[l] = objValue[l]]
  <1>1. /\ stack # <<>> /\ Top.kind = "lambda" /\ Top.phase = "init" /\ P < Top.k
        /\ Top.k <= P + N /\ ~fail
    BY DEF LocInit, InLambda, NPar, NLoc
  <1>2. /\ Top \in Frame /\ Top.fn \in Fun /\ Top.k \in Nat /\ P \in Nat /\ N \in Nat
    BY <1>1, LambdaOwn, FormalsTyped
  <1>3. PossibleOutcomes = {"ok"}
    BY <1>1 DEF PossibleOutcomes
  <1>4. CreateLocalObject(l, "ok", heap) /\ stack' = SetTop(new)
    BY <1>3 DEF LocInit, NPar
  <1>5. /\ FreeOids # {} /\ objValue' = [objValue EXCEPT ![l] = NewObj]
        /\ heap' = [heap EXCEPT ![NewObj] = "plain"]
    BY <1>4 DEF CreateLocalObject
  <1>6. n \in 1..N /\ P + n = Top.k /\ Top.k > P
    <2> HIDE DEF P, N
    <2> QED BY <1>1, <1>2
  <1>7. /\ new.kind = Top.kind /\ new.fn = Top.fn /\ new.phase = Top.phase /\ new.bits = Top.bits
        /\ new.arity = Top.arity /\ new.sort = Top.sort /\ new.entry = Top.entry
        /\ new.result = Top.result /\ new.k = Top.k + 1 /\ new.evald = Top.evald
    BY <1>2 DEF Frame
  <1>8. l \in Slot /\ l \in RangeOf(Locals[Top.fn]) /\ l \notin RefParams
    <2>1. l \in Slot
      BY <1>2, <1>6, FormalsTyped
    <2>2. RangeOf(Locals[Top.fn]) = {Locals[Top.fn][i] : i \in 1..N}
      BY <1>2, RolesDistinct
    <2>3. l \in RangeOf(Locals[Top.fn])
      <3> HIDE DEF n, N
      <3> QED BY <1>6, <2>2
    <2> HIDE DEF l
    <2>4. l \in Formals(Top.fn)
      BY <2>3 DEF Formals
    <2>5. l \notin RangeOf(Params[Top.fn])
      BY <1>2, <2>3, FormalsAssumption
    <2> QED BY <1>2, <2>1, <2>3, <2>4, <2>5, LocalsAreNoReferences
  <1> HIDE DEF new, n
  <1>9. l \notin Bound(Top) /\ Bound(new) = Bound(Top) \cup {l}
    <2>1. /\ \A i \in 1..P : Params[Top.fn][i] # l
          /\ \A i \in 1..N : Locals[Top.fn][i] = l => i = n
      BY <1>2, <1>6, RolesDistinct
    <2>2. /\ \A i \in 1..P : i < Top.k /\ i < Top.k + 1
          /\ \A i \in 1..N : (P + i < Top.k + 1 <=> P + i < Top.k \/ i = n)
          /\ ~(P + n < Top.k)
      <3> HIDE DEF P, N
      <3> QED BY <1>1, <1>2, <1>6
    <2>3. \A s : s \in Bound(Top) <=>
             \/ \E i \in 1..P : i < Top.k /\ s = Params[Top.fn][i]
             \/ \E i \in 1..N : P + i < Top.k /\ s = Locals[Top.fn][i]
      BY <1>1, <1>2, BoundInInit
    <2>4. \A s : s \in Bound(new) <=>
             \/ \E i \in 1..P : i < Top.k + 1 /\ s = Params[Top.fn][i]
             \/ \E i \in 1..N : P + i < Top.k + 1 /\ s = Locals[Top.fn][i]
      <3>1. new.kind = "lambda" /\ new.phase = "init" /\ new.fn = Top.fn /\ new.k = Top.k + 1
        BY <1>1, <1>7
      <3>2. new.fn \in Fun
        BY <1>2, <3>1
      <3>3. \A s : s \in Bound(new) <=>
              \/ \E i \in 1..Len(Params[new.fn]) : i < new.k /\ s = Params[new.fn][i]
              \/ \E i \in 1..Len(Locals[new.fn]) :
                     Len(Params[new.fn]) + i < new.k /\ s = Locals[new.fn][i]
        BY ONLY <3>1, <3>2, BoundInInit
      <3> QED BY ONLY <3>1, <3>3
    <2>5. l \notin Bound(Top)
      BY <2>1, <2>2, <2>3
    <2>6. \A s : s \in Bound(new) <=> s \in Bound(Top) \/ s = l
      BY <1>6, <2>2, <2>3, <2>4
    <2> QED BY <2>5, <2>6
  <1>10. new.phase \in {"init", "body"} /\ new.k \in {Top.k, Top.k + 1}
    BY <1>1, <1>7
  <1> HIDE DEF l
  <1>11. Top.k > NPar(Top)
    BY <1>6 DEF NPar
  <1> QED BY <1>1, <1>4, <1>7, <1>8, <1>9, <1>10, <1>11, LocalCreatedOwn

LEMMA ResInitOwn ==
  ASSUME OwnInv, BindingInv', ResInit
  PROVE  OwnInv' /\ (Exact => Exact')
  <1> DEFINE P == Len(Params[Top.fn])
             N == Len(Locals[Top.fn])
             r == ResultOf[Top.fn]
  <1>1. /\ stack # <<>> /\ Top.kind = "lambda" /\ Top.phase = "init"
        /\ Top.k = P + N + 1
    BY DEF ResInit, LocalsReady, InLambda, NPar, NLoc
  <1>2. /\ Top \in Frame /\ Top.fn \in Fun /\ Top.k \in Nat /\ Top.result = Null
        /\ P \in Nat /\ N \in Nat
    BY <1>1, LambdaOwn, FormalsTyped DEF Restoring
  <1>3. Top.k > NPar(Top)
    <2>1. Top.k > P
      <3> HIDE DEF P, N
      <3> QED BY <1>1, <1>2
    <2> QED BY <2>1 DEF NPar
  <1>4. Bound(Top) = RangeOf(Params[Top.fn]) \cup RangeOf(Locals[Top.fn])
    <2>1. /\ \A i \in 1..P : i < Top.k
          /\ \A i \in 1..N : P + i < Top.k
      <3> HIDE DEF P, N
      <3> QED BY <1>1, <1>2
    <2>2. \A s : s \in Bound(Top) <=> \/ \E i \in 1..P : s = Params[Top.fn][i]
                                      \/ \E i \in 1..N : s = Locals[Top.fn][i]
      BY <1>1, <1>2, <2>1, BoundInInit
    <2>3. \A s : s \in RangeOf(Params[Top.fn]) \cup RangeOf(Locals[Top.fn])
                   <=> \/ \E i \in 1..P : s = Params[Top.fn][i]
                       \/ \E i \in 1..N : s = Locals[Top.fn][i]
      <3>1. /\ RangeOf(Params[Top.fn]) = {Params[Top.fn][i] : i \in 1..P}
            /\ RangeOf(Locals[Top.fn]) = {Locals[Top.fn][i] : i \in 1..N}
        BY <1>2, RolesDistinct
      <3> QED BY ONLY <3>1
    <2> QED BY <2>2, <2>3
  <1>5. CASE r = Null /\ stack' = SetTop([Top EXCEPT !.phase = "body"])
             /\ UNCHANGED <<objValue, heap>>
    <2> DEFINE new == [Top EXCEPT !.phase = "body"]
    <2>1. new.kind = "lambda" /\ new.phase = "body" /\ new.fn = Top.fn /\ new.result = Null
      BY <1>1, <1>2 DEF Frame
    <2>2. Bound(new) = Bound(Top)
      BY <1>4, <1>5, <2>1 DEF Bound, Formals
    <2>3. ResultOwned(new, objValue, heap, Borrowable(Len(stack)))
      BY <2>1 DEF ResultOwned, Restoring
    <2>4. "body" \in Phase
      BY DEF Phase
    <2> QED BY <1>1, <1>3, <1>5, <2>2, <2>3, <2>4, LambdaPhase
  <1>6. CASE r # Null /\ CreateLocalObject(r, "ok", heap)
             /\ stack' = SetTop([Top EXCEPT !.phase = "body", !.backup[r] = objValue[r]])
    <2> DEFINE new == [Top EXCEPT !.phase = "body", !.backup[r] = objValue[r]]
    <2>1. /\ new.kind = Top.kind /\ new.fn = Top.fn /\ new.phase = "body" /\ new.bits = Top.bits
          /\ new.arity = Top.arity /\ new.sort = Top.sort /\ new.entry = Top.entry
          /\ new.result = Top.result /\ new.k = Top.k /\ new.evald = Top.evald
      BY <1>2 DEF Frame
    <2>2. stack' = SetTop(new)
      BY <1>6
    <2> HIDE DEF new
    <2>3. r \in Slot /\ r \notin Bound(Top) /\ r \notin RefParams
      <3>1. r \in Slot
        BY <1>2, <1>6, FormalsTyped
      <3>2. r \notin RangeOf(Params[Top.fn]) \cup RangeOf(Locals[Top.fn])
        BY <1>2, FormalsAssumption
      <3>3. r \in Formals(Top.fn)
        BY <1>6 DEF Formals
      <3> QED BY <1>2, <1>4, <3>1, <3>2, <3>3, LocalsAreNoReferences
    <2>4. Bound(new) = Bound(Top) \cup {r}
      BY <1>1, <1>4, <1>6, <2>1 DEF Bound, Formals
    <2>5. CreateLocalObject(r, "ok", heap)
      BY <1>6
    <2>6. new.phase \in {"init", "body"} /\ new.k \in {Top.k, Top.k + 1}
      BY <2>1
    <2> HIDE DEF r
    <2> QED BY <1>1, <1>3, <2>1, <2>2, <2>3, <2>4, <2>5, <2>6, LocalCreatedOwn
  <1> QED BY <1>5, <1>6 DEF ResInit

-----------------------------------------------------------------------------
(* exec_lambda: res_restore, loc_restore and par_restore *)

\* What an activation that restores its formals owns.
LEMMA RestoringTop ==
  ASSUME OwnInv, stack # <<>>, Top.kind = "lambda", Top.phase \in Restoring
  PROVE  /\ Unbound(Top) = {} /\ PendingValues(Top) = {} /\ Top.result \in Oid /\ Top.k > NPar(Top)
         /\ Owned(Top, objValue, heap) =
              SlotValues(Top, objValue) \cup KeptValues(Top) \cup ResultValue(Top, heap)
         /\ ResultOwned(Top, objValue, heap, Borrowable(Len(stack)))
         /\ \A o \in SlotValues(Top, objValue) : o \in Oid \ Globals /\ heap[o] = "plain"
         /\ \A o \in KeptValues(Top) : o \in Oid \ Globals /\ heap[o] \in {"plain", "temp2"}
         /\ \A s, t \in Owning(Top) : objValue[s] = objValue[t] => s = t
         /\ \A s \in Owning(Top) : objValue[s] \notin KeptValues(Top)
  <1>1. /\ FrameOwn(Top, objValue, heap, Borrowable(Len(stack)))
        /\ Top.k \in Nat /\ NPar(Top) \in Nat /\ Len(Top.evald) = NPar(Top)
    BY LambdaOwn DEF Restoring
  <1>2. Top.k > NPar(Top) /\ Top.result \in Oid
    BY <1>1 DEF FrameOwn, Counted, ResultOwned, Restoring
  <1>3. \A j \in 1..NPar(Top) : ~(j >= Top.k)
    BY <1>1, <1>2
  <1>4. Unbound(Top) = {} /\ PendingValues(Top) = {}
    BY <1>1, <1>3 DEF Unbound, Pending, PendingValues
  <1>5. Owned(Top, objValue, heap) =
          SlotValues(Top, objValue) \cup KeptValues(Top) \cup ResultValue(Top, heap)
    BY <1>4 DEF Owned
  <1>6. /\ \A o \in SlotValues(Top, objValue) : o \in Oid \ Globals /\ heap[o] = "plain"
        /\ \A o \in KeptValues(Top) : o \in Oid \ Globals /\ heap[o] \in {"plain", "temp2"}
    BY <1>1 DEF FrameOwn, SlotsOwned, KeptOwned, SlotValues, KeptValues
  <1>7. /\ \A s, t \in Owning(Top) : objValue[s] = objValue[t] => s = t
        /\ \A s \in Owning(Top) : objValue[s] \notin KeptValues(Top)
    BY <1>1 DEF FrameOwn, OwnedOnce, KeptValues
  <1>8. ResultOwned(Top, objValue, heap, Borrowable(Len(stack)))
    BY <1>1 DEF FrameOwn
  <1> QED BY <1>2, <1>4, <1>5, <1>6, <1>7, <1>8

\* What becomes of the objects that the activation does not own any more.
LEMMA AccountedFor ==
  ASSUME NEW new, \A o \in Oid : heap[o] \in Gone => heap'[o] \in Gone \/ o \in new,
         \A o \in Owned(Top, objValue, heap) : o \in new \/ heap'[o] \in Gone
  PROVE  Accounted(new)
  BY DEF Accounted

\* Formals, or none, are given back; the values of the others are not touched.
LEMMA OwnSlotsRemoved ==
  ASSUME NEW fr, NEW new, NEW B, FrameOwn(fr, objValue, heap, B), Unbound(fr) = {},
         new.kind = fr.kind, new.fn = fr.fn, new.k = fr.k, new.evald = fr.evald,
         new.bits = fr.bits, Bound(new) \subseteq Bound(fr),
         \A s \in Bound(new) : objValue'[s] = objValue[s],
         \A s \in Owning(new) : heap'[objValue[s]] = heap[objValue[s]],
         \A o \in KeptValues(fr) : heap'[o] = heap[o],
         ResultOwned(new, objValue', heap', B), Counted(new)
  PROVE  /\ FrameOwn(new, objValue', heap', B)
         /\ Owned(new, objValue', heap') = SlotValues(new, objValue) \cup KeptValues(fr)
                                           \cup ResultValue(new, heap')
  <1>1. Kept(new) = Kept(fr) /\ Unbound(new) = {} /\ Owning(new) \subseteq Owning(fr)
    BY DEF Owning, Kept, Unbound
  <1>2. Pending(new) = {} /\ Pending(fr) = {} /\ PendingValues(new) = {}
        /\ KeptValues(new) = KeptValues(fr)
    BY <1>1 DEF Pending, PendingValues, KeptValues
  <1>3. \A s \in Owning(new) : objValue'[s] = objValue[s]
    BY DEF Owning
  <1>4. SlotValues(new, objValue') = SlotValues(new, objValue)
    BY <1>3 DEF SlotValues
  <1>5. ArgsOwned(new, heap', B)
    BY <1>1 DEF FrameOwn, ArgsOwned
  <1>6. SlotsOwned(new, objValue', heap')
    BY <1>1, <1>3 DEF FrameOwn, SlotsOwned
  <1>7. KeptOwned(new, heap')
    BY <1>1 DEF FrameOwn, KeptOwned, KeptValues
  <1>8. RefsBorrowed(new, objValue', B)
    BY <1>2 DEF FrameOwn, RefsBorrowed
  <1>9. OwnedOnce(new, objValue')
    BY <1>1, <1>2, <1>3 DEF FrameOwn, OwnedOnce
  <1> QED BY <1>2, <1>4, <1>5, <1>6, <1>7, <1>8, <1>9 DEF FrameOwn, Owned

LEMMA ResRestoreVarOwn ==
  ASSUME OwnInv, BindingInv', ResRestoreVar
  PROVE  OwnInv' /\ (Exact => Exact')
  <1> DEFINE r == ResultOf[Top.fn]
             v == objValue[r]
             q == IF fail THEN Top.result ELSE v
             new == [Top EXCEPT !.phase = "loc_restore", !.result = q]
             B == Borrowable(Len(stack))
  <1>1. /\ stack # <<>> /\ Top.kind = "lambda" /\ Top.phase = "res_restore" /\ r # Null
        /\ heap' = [heap EXCEPT ![v] = IF fail THEN "free" ELSE "temp"]
        /\ stack' = SetTop(new) /\ objValue' = [objValue EXCEPT ![r] = Top.backup[r]]
    BY DEF ResRestoreVar, InLambda
  <1>2. /\ Top \in Frame /\ Top.fn \in Fun /\ objValue \in [Slot -> Ref]
        /\ FrameOwn(Top, objValue, heap, B) /\ Bound(Top) \subseteq Slot
        /\ heap \in [Oid -> Flags]
    BY <1>1, LambdaOwn, OwnShape
  <1>3. /\ new.kind = Top.kind /\ new.fn = Top.fn /\ new.phase = "loc_restore"
        /\ new.bits = Top.bits /\ new.arity = Top.arity /\ new.sort = Top.sort
        /\ new.entry = Top.entry /\ new.result = q /\ new.k = Top.k /\ new.evald = Top.evald
    BY <1>2 DEF Frame
  <1> HIDE DEF new, B
  <1>4. /\ r \in Slot /\ r \notin RangeOf(Params[Top.fn]) /\ r \notin RangeOf(Locals[Top.fn])
        /\ r \notin RefParams /\ r \in Formals(Top.fn) /\ Top.fn \notin Procs
    <2>1. r \in Slot
      BY <1>1, <1>2, FormalsTyped
    <2>2. /\ r \notin RangeOf(Params[Top.fn]) /\ r \notin RangeOf(Locals[Top.fn])
          /\ Top.fn \notin Procs
      BY <1>1, <1>2, FormalsAssumption
    <2>3. r \in Formals(Top.fn)
      BY <1>1 DEF Formals
    <2> QED BY <1>2, <2>1, <2>2, <2>3, LocalsAreNoReferences
  <1>5. /\ Bound(Top) = Formals(Top.fn)
        /\ Bound(new) = RangeOf(Params[Top.fn]) \cup RangeOf(Locals[Top.fn])
    BY <1>1, <1>3 DEF Bound
  <1>6. Bound(new) = Bound(Top) \ {r} /\ r \in Owning(Top)
    BY <1>4, <1>5 DEF Formals, Owning
  <1>7. /\ Unbound(Top) = {} /\ Top.result \in Oid /\ Top.k > NPar(Top)
        /\ Owned(Top, objValue, heap) =
             SlotValues(Top, objValue) \cup KeptValues(Top) \cup ResultValue(Top, heap)
        /\ \A o \in SlotValues(Top, objValue) : o \in Oid \ Globals /\ heap[o] = "plain"
        /\ \A s, t \in Owning(Top) : objValue[s] = objValue[t] => s = t
        /\ \A s \in Owning(Top) : objValue[s] \notin KeptValues(Top)
    BY <1>1, RestoringTop DEF Restoring
  <1>8. Top.result \in {Empty, Exc}
    BY <1>1, RestoringTop DEF Restoring, ResultOwned
  <1>9. Top.result \in Globals /\ ResultValue(Top, heap) = {}
    BY <1>8, OwnShape, ConstantsAssumption DEF ResultValue
  <1>10. v \in SlotValues(Top, objValue) /\ v \in Oid \ Globals /\ heap[v] = "plain"
    BY <1>6, <1>7 DEF SlotValues
  <1>11. /\ \A o \in Oid : o # v => heap'[o] = heap[o]
         /\ heap'[v] = IF fail THEN "free" ELSE "temp"
         /\ \A s \in Slot : s # r => objValue'[s] = objValue[s]
    BY <1>1, <1>2, <1>10
  <1>12. /\ \A s \in Owning(new) : objValue[s] # v /\ s \in Owning(Top)
         /\ \A o \in KeptValues(Top) : o # v
    BY <1>6, <1>7 DEF Owning
  <1>13. /\ \A s \in Owning(new) : heap'[objValue[s]] = heap[objValue[s]]
         /\ \A o \in KeptValues(Top) : heap'[o] = heap[o]
    <2>1. \A o \in KeptValues(Top) : o \in Oid
      BY <1>1, RestoringTop DEF Restoring
    <2>2. \A s \in Owning(new) : objValue[s] \in Oid
      BY <1>7, <1>12 DEF SlotValues
    <2> QED BY <1>11, <1>12, <2>1, <2>2
  <1>14. \A s \in Bound(new) : objValue'[s] = objValue[s]
    BY <1>2, <1>6, <1>11
  <1>15. ResultOwned(new, objValue', heap', B)
    <2>1. q \in Oid /\ (heap'[q] = "temp" \/ q \in {Empty, Exc})
      BY <1>7, <1>8, <1>10, <1>11
    <2>2. new.result \in Oid /\ (heap'[new.result] = "temp" \/ new.result \in {Empty, Exc})
      BY <1>3, <2>1
    <2>3. new.fn \notin Procs /\ new.kind = "lambda" /\ new.phase = "loc_restore"
      BY <1>1, <1>3, <1>4
    <2> QED BY ONLY <2>2, <2>3 DEF ResultOwned, Restoring
  <1>16. Counted(new)
    BY <1>1, <1>3, <1>7 DEF Counted, NPar
  <1> HIDE DEF r, v, q
  <1>17. /\ FrameOwn(new, objValue', heap', B)
         /\ Owned(new, objValue', heap') = SlotValues(new, objValue) \cup KeptValues(Top)
                                           \cup ResultValue(new, heap')
    BY <1>2, <1>3, <1>6, <1>7, <1>13, <1>14, <1>15, <1>16, OwnSlotsRemoved
  <1>18. /\ SlotValues(Top, objValue) = SlotValues(new, objValue) \cup {v}
         /\ ResultValue(new, heap') = IF fail THEN {} ELSE {v}
    <2>1. \A s : s \in Owning(Top) <=> s \in Owning(new) \/ s = r
      BY <1>4, <1>6 DEF Owning
    <2>2. SlotValues(Top, objValue) = SlotValues(new, objValue) \cup {v}
      BY <2>1 DEF SlotValues, v
    <2>3. CASE fail
      <3>1. new.result = Top.result /\ Top.result # v /\ Top.result \in Oid
        BY <1>3, <1>7, <1>9, <1>10, <2>3 DEF q
      <3>2. heap'[new.result] = "plain"
        BY <1>9, <1>11, <3>1, OwnShape
      <3> QED BY <2>2, <2>3, <3>2 DEF ResultValue
    <2>4. CASE ~fail
      <3>1. new.result = v /\ heap'[v] = "temp" /\ v \in Oid
        BY <1>3, <1>10, <1>11, <2>4 DEF q
      <3> QED BY <2>2, <2>4, <3>1 DEF ResultValue
    <2> QED BY <2>2, <2>3, <2>4
  <1>19. Undisturbed(heap, heap', Owned(Top, objValue, heap))
    BY <1>7, <1>10, <1>11 DEF Undisturbed
  <1>20. \A o \in Owned(new, objValue', heap') : o \in Owned(Top, objValue, heap)
    BY <1>7, <1>17, <1>18
  <1>21. Accounted(Owned(new, objValue', heap'))
    <2>1. \A o \in Oid : heap[o] \in Gone => heap'[o] \in Gone
      BY <1>10, <1>11 DEF Gone
    <2>2. \A o \in Owned(Top, objValue, heap) : o \in Owned(new, objValue', heap') \/ heap'[o] = "free"
      BY <1>7, <1>9, <1>11, <1>17, <1>18
    <2> QED BY <2>1, <2>2, AccountedFor DEF Gone
  <1> QED BY <1>1, <1>3, <1>17, <1>19, <1>20, <1>21, OwnStep DEF B

LEMMA ResRestoreCopyOwn ==
  ASSUME OwnInv, BindingInv', ResRestoreCopy
  PROVE  OwnInv' /\ (Exact => Exact')
  <1> DEFINE new == [Top EXCEPT !.phase = "loc_restore", !.result = NewObj]
             B == Borrowable(Len(stack))
  <1>1. /\ stack # <<>> /\ Top.kind = "lambda" /\ Top.phase = "res_restore"
        /\ ResultOf[Top.fn] = Null /\ NeedsCopy(Top) /\ FreeOids # {}
        /\ heap' = [heap EXCEPT ![NewObj] = "temp"] /\ stack' = SetTop(new)
        /\ objValue' = objValue
    BY DEF ResRestoreCopy, InLambda
  <1>2. /\ Top \in Frame /\ Top.fn \in Fun /\ FrameOwn(Top, objValue, heap, B)
        /\ heap \in [Oid -> Flags]
    BY <1>1, LambdaOwn, OwnShape
  <1>3. /\ new.kind = Top.kind /\ new.fn = Top.fn /\ new.phase = "loc_restore"
        /\ new.bits = Top.bits /\ new.arity = Top.arity /\ new.sort = Top.sort
        /\ new.entry = Top.entry /\ new.result = NewObj /\ new.k = Top.k
        /\ new.evald = Top.evald
    BY <1>2 DEF Frame
  <1> HIDE DEF new, B
  <1>4. Bound(new) = Bound(Top)
    BY <1>1, <1>3 DEF Bound, Formals
  <1>5. /\ Unbound(Top) = {} /\ Top.result \in Oid /\ Top.k > NPar(Top)
        /\ Owned(Top, objValue, heap) =
             SlotValues(Top, objValue) \cup KeptValues(Top) \cup ResultValue(Top, heap)
        /\ \A o \in SlotValues(Top, objValue) : o \in Oid \ Globals /\ heap[o] = "plain"
        /\ \A o \in KeptValues(Top) : o \in Oid \ Globals /\ heap[o] \in {"plain", "temp2"}
    BY <1>1, RestoringTop DEF Restoring
  <1>6. ResultValue(Top, heap) = {} /\ Top.fn \notin Procs
    BY <1>1 DEF NeedsCopy, ResultValue
  <1>7. NewObj \in Oid /\ heap[NewObj] = "free"
    BY <1>1 DEF NewObj, FreeOids
  <1>8. heap'[NewObj] = "temp" /\ \A o \in Oid : o # NewObj => heap'[o] = heap[o]
    BY <1>1, <1>2, <1>7
  <1>9. \A o \in Owned(Top, objValue, heap) : o \in Oid /\ o # NewObj /\ heap'[o] = heap[o]
    BY <1>2, <1>7, <1>8, OwnedFacts
  <1>10. /\ \A s \in Owning(new) : heap'[objValue[s]] = heap[objValue[s]]
         /\ \A o \in KeptValues(Top) : heap'[o] = heap[o]
    BY <1>4, <1>5, <1>9 DEF Owning, SlotValues
  <1>11. ResultOwned(new, objValue', heap', B)
    <2>1. new.kind = "lambda" /\ new.fn \notin Procs
      BY <1>1, <1>3, <1>6
    <2> QED BY <1>3, <1>7, <1>8, <2>1 DEF ResultOwned, Restoring
  <1>12. Counted(new)
    BY <1>1, <1>3, <1>5 DEF Counted, NPar
  <1>13. \A s \in Bound(new) : objValue'[s] = objValue[s]
    BY <1>1
  <1>14. /\ FrameOwn(new, objValue', heap', B)
         /\ Owned(new, objValue', heap') = SlotValues(new, objValue) \cup KeptValues(Top)
                                           \cup ResultValue(new, heap')
    BY <1>2, <1>3, <1>4, <1>5, <1>10, <1>11, <1>12, <1>13, OwnSlotsRemoved
  <1>15. /\ SlotValues(new, objValue) = SlotValues(Top, objValue)
         /\ ResultValue(new, heap') = {NewObj}
    BY <1>3, <1>4, <1>7, <1>8 DEF SlotValues, Owning, ResultValue
  <1>16. Owned(new, objValue', heap') = Owned(Top, objValue, heap) \cup {NewObj}
    BY <1>5, <1>6, <1>14, <1>15
  <1>17. Undisturbed(heap, heap', Owned(Top, objValue, heap))
    BY <1>7, <1>8 DEF Undisturbed
  <1>18. \A o \in Owned(new, objValue', heap') : o \in Owned(Top, objValue, heap) \/ heap[o] = "free"
    BY <1>7, <1>16
  <1>19. Accounted(Owned(new, objValue', heap'))
    BY <1>7, <1>8, <1>16, AccountedFor
  <1> QED BY <1>1, <1>3, <1>14, <1>17, <1>18, <1>19, OwnStep DEF B

LEMMA ResRestoreKeepOwn ==
  ASSUME OwnInv, BindingInv', ResRestoreKeep
  PROVE  OwnInv' /\ (Exact => Exact')
  <1> DEFINE new == [Top EXCEPT !.phase = "loc_restore"]
  <1>1. /\ stack # <<>> /\ Top.kind = "lambda" /\ Top.phase = "res_restore"
        /\ ResultOf[Top.fn] = Null /\ ~NeedsCopy(Top) /\ stack' = SetTop(new)
        /\ UNCHANGED <<objValue, heap>>
    BY DEF ResRestoreKeep, InLambda
  <1>2. /\ Top \in Frame /\ Top.k > NPar(Top) /\ Top.result \in Oid
        /\ ResultOwned(Top, objValue, heap, Borrowable(Len(stack)))
    BY <1>1, LambdaOwn, RestoringTop DEF Restoring
  <1>3. /\ new.kind = "lambda" /\ new.fn = Top.fn /\ new.phase = "loc_restore"
        /\ new.result = Top.result
    BY <1>1, <1>2 DEF Frame
  <1>4. Bound(new) = Bound(Top)
    BY <1>1, <1>3 DEF Bound, Formals
  <1>5. heap[Top.result] = "temp" \/ Top.result \in {Empty, Exc}
    BY <1>1, <1>2 DEF NeedsCopy, ResultOwned, Restoring
  <1>6. Top.fn \in Procs => Top.result \in {Empty, Exc}
    BY <1>1, <1>2 DEF ResultOwned, Restoring
  <1>7. ResultOwned(new, objValue, heap, Borrowable(Len(stack)))
    BY <1>2, <1>3, <1>5, <1>6 DEF ResultOwned, Restoring
  <1>8. "loc_restore" \in Phase /\ "loc_restore" # "cond"
    BY DEF Phase
  <1> QED BY <1>1, <1>2, <1>4, <1>7, <1>8, LambdaPhase

LEMMA LocRestoreOwn ==
  ASSUME OwnInv, BindingInv', LocRestore
  PROVE  OwnInv' /\ (Exact /\ ~DestroyRaises => Exact')
  <1> DEFINE f == Top.fn
             params == RangeOf(Params[f])
             locals == RangeOf(Locals[f])
             new == [Top EXCEPT !.phase = "par_restore"]
             B == Borrowable(Len(stack))
  <1>1. /\ stack # <<>> /\ Top.kind = "lambda" /\ Top.phase = "loc_restore" /\ stack' = SetTop(new)
        /\ objValue' = [s \in Slot |-> IF s \in locals THEN Top.backup[s] ELSE objValue[s]]
    BY DEF LocRestore, InLambda
  <1>2. /\ Top \in Frame /\ f \in Fun /\ FrameOwn(Top, objValue, heap, B)
        /\ heap \in [Oid -> Flags]
    BY <1>1, LambdaOwn, OwnShape
  <1>3. PICK D \in CleanedUp(NLoc(Top)) : heap' = Freed(heap, {objValue[Locals[f][j]] : j \in D})
    BY DEF LocRestore
  <1> DEFINE S == {objValue[Locals[f][j]] : j \in D}
  <1>4. /\ new.kind = Top.kind /\ new.fn = Top.fn /\ new.phase = "par_restore"
        /\ new.bits = Top.bits /\ new.arity = Top.arity /\ new.sort = Top.sort
        /\ new.entry = Top.entry /\ new.result = Top.result /\ new.k = Top.k
        /\ new.evald = Top.evald
    BY <1>2 DEF Frame
  <1>5. Bound(Top) = params \cup locals /\ Bound(new) = params
    BY <1>1, <1>4 DEF Bound
  <1>6. /\ params \cap locals = {} /\ params \cap RefParams \subseteq params
        /\ \A s \in locals : s \notin RefParams
    <2>1. params \cap locals = {}
      BY <1>2, FormalsAssumption
    <2>2. \A s \in locals : s \in Formals(f) /\ s \notin params
      BY <2>1 DEF Formals
    <2>3. \A s \in locals : s \notin RefParams
      BY <1>2, <2>2, LocalsAreNoReferences
    <2> QED BY <2>1, <2>3
  <1>7. /\ Unbound(Top) = {} /\ Top.result \in Oid /\ Top.k > NPar(Top)
        /\ Owned(Top, objValue, heap) =
             SlotValues(Top, objValue) \cup KeptValues(Top) \cup ResultValue(Top, heap)
        /\ \A o \in SlotValues(Top, objValue) : o \in Oid \ Globals /\ heap[o] = "plain"
        /\ \A o \in KeptValues(Top) : o \in Oid \ Globals /\ heap[o] \in {"plain", "temp2"}
        /\ \A s, t \in Owning(Top) : objValue[s] = objValue[t] => s = t
        /\ \A s \in Owning(Top) : objValue[s] \notin KeptValues(Top)
    BY <1>1, RestoringTop DEF Restoring
  <1>8. /\ heap[Top.result] = "temp" \/ Top.result \in {Empty, Exc}
        /\ f \in Procs => Top.result \in {Empty, Exc}
    <2>1. ResultOwned(Top, objValue, heap, B)
      BY <1>1, RestoringTop DEF Restoring
    <2> QED BY <1>1, <2>1 DEF ResultOwned, Restoring
  <1>9. /\ locals = {Locals[f][j] : j \in 1..NLoc(Top)} /\ D \subseteq 1..NLoc(Top)
        /\ ~DestroyRaises => D = 1..NLoc(Top)
    <2>1. locals = {Locals[f][j] : j \in 1..NLoc(Top)}
      BY <1>2, RolesDistinct DEF NLoc
    <2>2. NLoc(Top) \in Nat
      BY <1>1, LambdaOwn
    <2>3. D \subseteq 1..NLoc(Top)
      <3>1. \A d \in 0..NLoc(Top) : 1..d \subseteq 1..NLoc(Top)
        BY <2>2
      <3> QED BY <3>1 DEF CleanedUp
    <2>4. ~DestroyRaises => D = 1..NLoc(Top)
      BY DEF CleanedUp
    <2> QED BY <2>1, <2>3, <2>4
  <1> HIDE DEF new, B, locals, params
  <1>10. /\ \A o \in S : \E s \in locals : o = objValue[s]
         /\ ~DestroyRaises => \A s \in locals : objValue[s] \in S
    BY <1>9
  <1>11. heap' = Freed(heap, S) /\ \A s \in Bound(new) : objValue'[s] = objValue[s]
    <2>1. \A s \in Bound(Top) : s \in Slot
      BY <1>1, LambdaOwn
    <2> QED BY <1>1, <1>3, <1>5, <1>6, <2>1
  <1> HIDE DEF S
  <1>12. \A o \in Oid : heap'[o] = IF o \in S THEN "free" ELSE heap[o]
    BY <1>11 DEF Freed
  <1>13. /\ \A s \in locals : s \in Owning(Top)
         /\ \A s \in Owning(new) : s \in Owning(Top) /\ s \notin locals
         /\ \A s \in Owning(Top) : s \in locals \/ s \in Owning(new)
    BY <1>5, <1>6 DEF Owning
  <1>14. /\ \A s \in Owning(new) : objValue[s] \notin S
         /\ \A o \in KeptValues(Top) : o \notin S
         /\ \A o \in S : o \in SlotValues(Top, objValue)
    BY <1>7, <1>10, <1>13 DEF SlotValues
  <1>15. /\ \A s \in Owning(new) : heap'[objValue[s]] = heap[objValue[s]]
         /\ \A o \in KeptValues(Top) : heap'[o] = heap[o]
    <2>1. \A s \in Owning(new) : objValue[s] \in SlotValues(Top, objValue)
      BY <1>13 DEF SlotValues
    <2> QED BY <1>7, <1>12, <1>14, <2>1
  <1>16. /\ Top.result \notin S /\ heap'[Top.result] = heap[Top.result]
    <2>1. Top.result \notin SlotValues(Top, objValue)
      <3>1. Top.result \in {Empty, Exc} => Top.result \in Globals
        BY ConstantsAssumption
      <3> QED BY <1>7, <1>8, <3>1
    <2> QED BY <1>7, <1>12, <1>14, <2>1
  <1>17. ResultOwned(new, objValue', heap', B)
    <2>1. new.kind = "lambda" /\ new.phase \in Restoring /\ new.phase # "res_restore"
      BY <1>1, <1>4 DEF Restoring
    <2>2. /\ new.result \in Oid /\ (heap'[new.result] = "temp" \/ new.result \in {Empty, Exc})
          /\ new.fn \in Procs => new.result \in {Empty, Exc}
      BY <1>4, <1>7, <1>8, <1>16
    <2> QED BY ONLY <2>1, <2>2 DEF ResultOwned
  <1>18. Counted(new)
    BY <1>1, <1>4, <1>7 DEF Counted, NPar
  <1>19. Bound(new) \subseteq Bound(Top)
    BY <1>5
  <1>20. /\ FrameOwn(new, objValue', heap', B)
         /\ Owned(new, objValue', heap') = SlotValues(new, objValue) \cup KeptValues(Top)
                                           \cup ResultValue(new, heap')
    BY <1>2, <1>4, <1>7, <1>11, <1>15, <1>17, <1>18, <1>19, OwnSlotsRemoved
  <1>21. ResultValue(new, heap') = ResultValue(Top, heap)
    BY <1>4, <1>16 DEF ResultValue
  <1>22. SlotValues(new, objValue) \subseteq SlotValues(Top, objValue)
    BY <1>13 DEF SlotValues
  <1>23. Undisturbed(heap, heap', Owned(Top, objValue, heap))
    BY <1>7, <1>12, <1>14 DEF Undisturbed
  <1>24. \A o \in Owned(new, objValue', heap') : o \in Owned(Top, objValue, heap)
    BY <1>7, <1>20, <1>21, <1>22
  <1>25. ~DestroyRaises => Accounted(Owned(new, objValue', heap'))
    <2>1. ASSUME ~DestroyRaises PROVE Accounted(Owned(new, objValue', heap'))
      <3>1. \A o \in SlotValues(Top, objValue) : o \in SlotValues(new, objValue) \/ o \in S
        BY <1>10, <1>13, <2>1 DEF SlotValues
      <3>2. \A o \in Owned(Top, objValue, heap) :
               o \in Owned(new, objValue', heap') \/ (o \in S /\ o \in Oid)
        BY <1>7, <1>20, <1>21, <3>1
      <3> QED BY <1>12, <3>2, AccountedFor DEF Gone
    <2> QED BY <2>1
  <1> QED BY <1>1, <1>4, <1>20, <1>23, <1>24, <1>25, OwnStep DEF B

LEMMA ParRestoreOwn ==
  ASSUME OwnInv, BindingInv', Disciplined, ParRestore
  PROVE  /\ OwnInv' /\ (Exact /\ ~DestroyRaises => Exact')
         /\ Top.result \in {Empty, Exc} \/ heap'[Top.result] = "temp"
  <1> DEFINE f == Top.fn
             P == Len(Params[f])
             Garbage(j) == IF Params[f][j] \in RefParams THEN Top.evald[j]
                                                         ELSE objValue[Params[f][j]]
             B == Borrowable(Len(stack))
  <1>1. /\ stack # <<>> /\ Top.kind = "lambda" /\ Top.phase = "par_restore"
    BY DEF ParRestore, InLambda
  <1>2. PICK D \in CleanedUp(NPar(Top)) : heap' = Freed(heap, {Garbage(j) : j \in D})
    BY DEF ParRestore
  <1> DEFINE S == {Garbage(j) : j \in D}
  <1>3. PICK t \in BOOLEAN : t = (heap[Top.result] = "temp")
    OBVIOUS
  <1>4. Return(Top.result, t)
    BY <1>3 DEF ParRestore
  <1>5. objValue' = Top.entry
    <2>1. Len(stack') = Len(stack) - 1 /\ Len(stack) \in Nat
      BY <1>1, <1>4, ReturnLength, OwnShape
    <2>2. Len(stack') < Len(stack)
      BY <2>1
    <2> QED BY <2>2 DEF Disciplined
  <1>6. /\ f \in Fun /\ Top.k \in Nat /\ P \in Nat /\ NPar(Top) = P /\ Len(Top.evald) = P
        /\ RangeOf(Params[f]) = {Params[f][j] : j \in 1..P}
    BY <1>1, LambdaOwn, RolesDistinct DEF Restoring
  <1>7. Bound(Top) = RangeOf(Params[f])
    BY <1>1 DEF Bound
  <1>8. /\ Top.result \in Oid /\ Top.k > NPar(Top)
        /\ Owned(Top, objValue, heap) =
             SlotValues(Top, objValue) \cup KeptValues(Top) \cup ResultValue(Top, heap)
        /\ \A o \in SlotValues(Top, objValue) : o \in Oid \ Globals /\ heap[o] = "plain"
        /\ \A o \in KeptValues(Top) : o \in Oid \ Globals /\ heap[o] \in {"plain", "temp2"}
    BY <1>1, RestoringTop DEF Restoring
  <1>9. /\ heap[Top.result] = "temp" \/ Top.result \in {Empty, Exc}
        /\ f \in Procs => Top.result \in {Empty, Exc}
    <2>1. ResultOwned(Top, objValue, heap, B)
      BY <1>1, RestoringTop DEF Restoring
    <2> QED BY <1>1, <2>1 DEF ResultOwned, Restoring
  <1>10. D \subseteq 1..P /\ (~DestroyRaises => D = 1..P)
    <2>1. \A d \in 0..P : 1..d \subseteq 1..P
      BY <1>6
    <2> QED BY <1>6, <2>1 DEF CleanedUp
  <1>11. /\ SlotValues(Top, objValue) = {Garbage(j) : j \in {i \in 1..P : Params[f][i] \notin RefParams}}
         /\ KeptValues(Top) \cup {Null}
              = {Garbage(j) : j \in {i \in 1..P : Params[f][i] \in RefParams}} \cup {Null}
    <2>1. \A s : s \in Owning(Top) <=> \E j \in 1..P : Params[f][j] \notin RefParams /\ s = Params[f][j]
      BY <1>6, <1>7 DEF Owning
    <2>2. \A j \in 1..P : j < Top.k
      BY <1>6, <1>8
    <2>3. Kept(Top) = {j \in 1..P : Params[f][j] \in RefParams /\ Top.evald[j] # Null}
      BY <1>1, <1>6, <2>2 DEF Kept
    <2>4. \A o : o \in SlotValues(Top, objValue) <=>
                   \E j \in 1..P : Params[f][j] \notin RefParams /\ o = objValue[Params[f][j]]
      BY <2>1 DEF SlotValues
    <2>5. \A o : o \in KeptValues(Top) <=>
                   \E j \in 1..P : /\ Params[f][j] \in RefParams /\ Top.evald[j] # Null
                                   /\ o = Top.evald[j]
      BY <2>3 DEF KeptValues
    <2> QED BY <2>4, <2>5
  <1> DEFINE Mine == SlotValues(Top, objValue) \cup KeptValues(Top)
  <1>12. /\ S \subseteq Mine \cup {Null} /\ (~DestroyRaises => Mine \subseteq S)
    <2>1. \A j \in 1..P : Garbage(j) \in Mine \cup {Null}
      BY <1>11
    <2>2. \A o \in Mine : \E j \in 1..P : o = Garbage(j)
      <3>1. Null \notin Mine
        BY <1>8, ConstantsAssumption
      <3> QED BY <1>11, <3>1
    <2> HIDE DEF Mine, Garbage
    <2> QED BY <1>10, <2>1, <2>2
  <1>13. heap' = Freed(heap, S)
    BY <1>2
  <1>14. \A o \in Mine : o \in Oid \ Globals /\ heap[o] \in {"plain", "temp2"}
    BY <1>8
  <1>15. Owned(Top, objValue, heap) = Mine \cup ResultValue(Top, heap)
    BY <1>8
  <1> HIDE DEF S, Mine, Garbage, B
  <1>16. \A o \in Oid : heap'[o] = IF o \in S THEN "free" ELSE heap[o]
    BY <1>13 DEF Freed
  <1>17. \A o \in Oid : o \in S => o \in Mine
    BY <1>12, ConstantsAssumption
  <1>18. Undisturbed(heap, heap', Owned(Top, objValue, heap))
    BY <1>15, <1>16, <1>17 DEF Undisturbed
  <1>19. t => /\ heap'[Top.result] = "temp"
              /\ Top.result \in Owned(Top, objValue, heap) /\ ResultValue(Top, heap) = {Top.result}
    <2>1. ASSUME t
          PROVE  /\ heap'[Top.result] = "temp"
                 /\ Top.result \in Owned(Top, objValue, heap)
                 /\ ResultValue(Top, heap) = {Top.result}
      <3>1. heap[Top.result] = "temp"
        BY <1>3, <2>1
      <3>2. Top.result \notin S
        BY <1>8, <1>14, <1>17, <3>1
      <3> QED BY <1>8, <1>15, <1>16, <3>1, <3>2 DEF ResultValue
    <2> QED BY <2>1
  <1>20. ~t => ResultValue(Top, heap) = {}
    BY <1>3 DEF ResultValue
  <1>21. ~t => Top.result \in B
    BY <1>3, <1>9, EnumBorrowed DEF B
  <1>22. Top.sort = "proc" => ~t /\ Top.result \in {Empty, Exc}
    <2>1. Top.sort = SortOf(f)
      BY <1>1, TopOwn DEF OwnInv, Sorts
    <2>2. \A o \in {Empty, Exc} : heap[o] = "plain"
      BY OwnShape, ConstantsAssumption
    <2> QED BY <1>3, <1>9, <2>1, <2>2 DEF SortOf
  <1>23. ~DestroyRaises => Accounted(IF t THEN {Top.result} ELSE {})
    <2>1. ASSUME ~DestroyRaises PROVE Accounted(IF t THEN {Top.result} ELSE {})
      <3> DEFINE new == IF t THEN {Top.result} ELSE {}
      <3>1. new = ResultValue(Top, heap)
        BY <1>19, <1>20
      <3>2. \A o \in Owned(Top, objValue, heap) : o \in new \/ heap'[o] = "free"
        BY <1>12, <1>14, <1>15, <1>16, <2>1, <3>1
      <3> HIDE DEF new
      <3>3. Accounted(new)
        BY <1>16, <3>2, AccountedFor DEF Gone
      <3> QED BY <3>3 DEF new
    <2> QED BY <2>1
  <1>24. Top.result \in {Empty, Exc} \/ heap'[Top.result] = "temp"
    BY <1>3, <1>9, <1>19
  <1> QED BY <1>1, <1>4, <1>5, <1>8, <1>18, <1>19, <1>21, <1>22, <1>23, <1>24, OwnEnd DEF B

-----------------------------------------------------------------------------
(* Ownership is kept by every step *)

LEMMA OwnInvStep ==
  ASSUME CreateOutcomes = {"ok"}, ~AsyncRaise, OwnInv, [Next]_vars
  PROVE  OwnInv' /\ (Exact /\ Clean /\ ~DestroyRaises => Exact')
  <1>1. BindingInv' /\ Disciplined
    BY BindingInvStep DEF OwnInv
  <1>2. CASE EvalLeaf \/ Call
    BY <1>1, <1>2, LeafOwn, CallOwn
  <1>3. CASE \/ ParInitFails \/ ParInitEvaluated \/ BindTemp \/ BindRef \/ BindValue
    BY <1>1, <1>3, ParInitFailsOwn, ParInitEvaluatedOwn, BindTempOwn, BindRefOwn, BindValueOwn
  <1>4. CASE LocInit \/ ResInit
    BY <1>1, <1>4, LocInitOwn, ResInitOwn
  <1>5. CASE ParInitInterrupted \/ LocInitInterrupted
    <2>1. stack # <<>> /\ Top.kind = "lambda" /\ Top.phase = "init" /\ fail
      BY <1>5 DEF ParInitInterrupted, LocInitInterrupted, InLambda
    <2> QED BY <2>1, LambdaTop DEF OwnInv
  <1>6. CASE ResInitFails
    BY <1>6 DEF ResInitFails
  <1>7. CASE ResRestoreVar \/ ResRestoreCopy \/ ResRestoreKeep \/ LocRestore \/ ParRestore
    BY <1>1, <1>7, ResRestoreVarOwn, ResRestoreCopyOwn, ResRestoreKeepOwn, LocRestoreOwn,
       ParRestoreOwn
  <1>8. CASE Action
    BY <1>1, <1>8, ActionOwn
  <1>9. CASE Signal \/ UNCHANGED vars
    <2>1. UNCHANGED <<stack, objValue, heap>>
      BY <1>9 DEF Signal, vars
    <2> QED BY <1>1, <2>1, OwnStill
  <1>10. CASE SignalRaises
    BY <1>10 DEF SignalRaises
  <1> QED BY <1>2, <1>3, <1>4, <1>5, <1>6, <1>7, <1>8, <1>9, <1>10
          DEF Next, Interpreter, Lambda, Terminated

LEMMA OwnInvInit == Init => OwnInv /\ Exact
  <1> SUFFICES ASSUME Init PROVE OwnInv /\ Exact
    OBVIOUS
  <1>1. PICK main \in Callees(1, "proc") : stack = <<main>>
    BY DEF Init
  <1>2. /\ Len(stack) = 1 /\ stack[1] = main /\ Now(1) = objValue
        /\ objValue = InitValue /\ heap = [o \in Oid |-> IF o \in Globals THEN "plain" ELSE "free"]
    BY <1>1 DEF Now, Init
  <1>3. \A i \in 1..Len(stack) : i = 1
    BY <1>2
  <1>4. /\ \A B : FrameOwn(main, objValue, heap, B)
        /\ Owned(main, objValue, heap) = {} /\ main.entry = objValue /\ main.sort = "proc"
        /\ main.kind = "lambda" => SortOf(main.fn) = "proc"
    BY CalleeFresh
  <1>5. Base
    BY <1>1, <1>2, <1>4 DEF Base
  <1>6. Sorts
    BY <1>2, <1>3, <1>4 DEF Sorts
  <1>7. Suspended
    <2>1. ~(1 < Len(stack))
      BY <1>2
    <2> QED BY <1>3, <2>1 DEF Suspended
  <1>8. \A o \in Globals : heap[o] = "plain"
    BY <1>2, ConstantsAssumption
  <1>9. Ownership
    BY <1>2, <1>3, <1>4, <1>8 DEF Ownership
  <1>10. Exact
    BY <1>2 DEF Exact, Gone
  <1> QED BY <1>5, <1>6, <1>7, <1>9, <1>10, BindingInvInit DEF OwnInv

-----------------------------------------------------------------------------
(* An exception waits for a handler: with fail_flag set the innermost      *)
(* activation neither evaluates nor creates anything.                      *)

CalmFrame(fr, h) ==
  /\ fr.phase \notin {"init", "run", "body", "handler", "cond"}
  /\ fr.kind = "lambda" /\ fr.phase = "res_restore" =>
       fr.result \in Globals \/ h[fr.result] = "temp"
  /\ ~DestroyRaises /\ fr.result # Null => fr.result \in Globals

Calm == stack # <<>> /\ fail => CalmFrame(Top, heap)

CalmInv == OwnInv /\ Calm

LEMMA CalmIsClean == Calm => Clean
  BY DEF Calm, CalmFrame, Clean

\* The caller of an activation that ends with an exception.
LEMMA CalmReturn ==
  ASSUME OwnInv, stack # <<>>, NEW o, NEW t, Return(o, t),
         fail' => o \in Globals \/ heap'[o] = "temp",
         fail' /\ ~DestroyRaises => o \in Globals
  PROVE  Calm'
  <1>0. PICK L \in Nat : L = Len(stack)
    BY OwnShape
  <1>1. L >= 1 /\ TypeOK
    BY <1>0, TopTyped DEF OwnInv, BindingInv, TypeInv
  <1>2. CASE L = 1
    BY <1>0, <1>2 DEF Return, Calm
  <1>3. CASE L >= 2
    <2> DEFINE new == Receive(Caller, o, t)
    <2>1. Len(stack) >= 2 /\ L - 1 \in 1..L /\ L - 1 < L
      BY <1>0, <1>3
    <2>2. ~(Len(stack) = 1)
      BY <1>0, <1>3
    <2>3. Len(stack') = Len(stack) - 1 /\ stack'[Len(stack) - 1] = new
      BY <1>1, <2>1, <2>2, ReturnShape
    <2>4. Top' = new
      BY <2>3 DEF Top
    <2>5. /\ Caller = stack[L - 1] /\ Caller.result = Null /\ Caller \in Frame
          /\ Caller.phase \in {"args", "body", "handler", "cond"}
      BY <1>0, <2>1, SuspendedResult, OwnShape DEF Caller, OwnInv, Suspended
    <2>6. /\ new.phase \in {"args", "res_restore", "catch", "done", "test", "again"}
          /\ new.result \in {o, Null}
          /\ new.phase = "res_restore" => new.result = o
      <3>1. CASE Caller.phase = "args"
        <4>1. new = [Caller EXCEPT !.evald = Append(@, o),
                        !.bits = IF t THEN @ \cup {Len(Caller.evald) + 1} ELSE @]
          BY <3>1 DEF Receive
        <4>2. new.phase = "args" /\ new.result = Null
          BY <2>5, <3>1, <4>1 DEF Frame
        <4> QED BY <4>2
      <3>2. CASE Caller.phase = "body" /\ Caller.kind = "lambda"
        BY <2>5, <3>2 DEF Receive, Frame
      <3>3. CASE Caller.phase = "body" /\ Caller.kind # "lambda"
        BY <2>5, <3>3 DEF Receive, Frame
      <3>4. CASE Caller.phase = "handler"
        BY <2>5, <3>4 DEF Receive, Frame
      <3>5. CASE Caller.phase = "cond"
        BY <2>5, <3>5 DEF Receive, Frame
      <3> QED BY <2>5, <3>1, <3>2, <3>3, <3>4, <3>5
    <2> HIDE DEF new
    <2>7. fail' => CalmFrame(new, heap')
      BY <2>6 DEF CalmFrame
    <2> QED BY <2>4, <2>7 DEF Calm
  <1> QED BY <1>0, <1>1, <1>2, <1>3, OneOrMore

LEMMA CalmSetTop ==
  ASSUME OwnInv, stack # <<>>, NEW new, stack' = SetTop(new), fail' => CalmFrame(new, heap')
  PROVE  Calm'
  <1>1. TypeInv
    BY DEF OwnInv, BindingInv
  <1>2. Len(stack') = Len(stack) /\ stack'[Len(stack)] = new
    BY <1>1, TopOwn, SetTopShape
  <1> QED BY <1>2 DEF Calm, Top

\* Nothing is evaluated while an exception is raised.
LEMMA CalmEvaluation ==
  ASSUME Calm, NEW sort, Evaluating(sort)
  PROVE  ~fail
  BY DEF Calm, CalmFrame, Evaluating

LEMMA CalmLambda ==
  ASSUME CreateOutcomes = {"ok"}, CalmInv, BindingInv', Disciplined, Lambda
  PROVE  Calm' /\ (fail /\ ~fail' => ReturnsData)
  <1>0. OwnInv /\ Calm /\ Empty \in Globals /\ Exc \in Globals
    BY ConstantsAssumption DEF CalmInv
  <1>1. CASE ParInitFails
    BY <1>0, <1>1, CalmReturn DEF ParInitFails, InLambda
  <1>2. CASE ParInitEvaluated
    BY <1>2 DEF ParInitEvaluated, Calm
  <1>3. CASE \/ BindTemp \/ BindRef \/ BindValue \/ ParInitInterrupted \/ LocInit
             \/ LocInitInterrupted \/ ResInit
    <2>1. stack # <<>> /\ Top.phase = "init"
      BY <1>3 DEF BindTemp, BindRef, BindValue, ParInitInterrupted, LocInit,
                  LocInitInterrupted, ResInit, LocalsReady, InLambda
    <2>2. ~fail
      BY <1>0, <2>1 DEF Calm, CalmFrame
    <2>3. ~ParInitInterrupted /\ ~LocInitInterrupted
      BY <2>2 DEF ParInitInterrupted, LocInitInterrupted
    <2>4. CASE BindTemp \/ BindRef
      BY <2>2, <2>4 DEF BindTemp, BindRef, Calm
    <2>5. CASE BindValue \/ LocInit \/ ResInit
      <3>1. \A s, h : CreateLocalObject(s, "ok", h) => ~fail'
        BY DEF CreateLocalObject
      <3>2. PossibleOutcomes = {"ok"}
        BY <2>2 DEF PossibleOutcomes
      <3>3. CASE BindValue
        BY <3>1, <3>2, <3>3, <2>2 DEF BindValue, Calm
      <3>4. CASE LocInit
        BY <3>1, <3>2, <3>4, <2>2 DEF LocInit, Calm
      <3>5. CASE ResInit
        BY <3>1, <3>5, <2>2 DEF ResInit, Calm
      <3> QED BY <2>5, <3>3, <3>4, <3>5
    <2> QED BY <1>3, <2>3, <2>4, <2>5
  <1>4. CASE ResInitFails
    BY <1>4 DEF ResInitFails
  <1>5. CASE ResRestoreVar
    <2> DEFINE q == IF fail THEN Top.result ELSE objValue[ResultOf[Top.fn]]
               new == [Top EXCEPT !.phase = "loc_restore", !.result = q]
    <2>1. stack # <<>> /\ stack' = SetTop(new) /\ fail' = fail /\ Top.kind = "lambda"
      BY <1>5 DEF ResRestoreVar, InLambda
    <2>2. new.phase = "loc_restore" /\ (fail => new.result = Top.result)
      BY <1>0, <2>1, TopOwn DEF Frame
    <2>3. fail' => CalmFrame(new, heap')
      <3> HIDE DEF new
      <3> QED BY <1>0, <2>1, <2>2 DEF Calm, CalmFrame
    <2> HIDE DEF new
    <2> QED BY <1>0, <2>1, <2>3, CalmSetTop
  <1>6. CASE ResRestoreCopy
    <2>1. ~fail' /\ stack # <<>> /\ Top.kind = "lambda" /\ Top.phase = "res_restore" /\ NeedsCopy(Top)
      BY <1>6 DEF ResRestoreCopy, InLambda
    <2>2. fail => ReturnsData
      BY <1>0, <2>1 DEF Calm, CalmFrame, NeedsCopy, ReturnsData, InLambda
    <2> QED BY <2>1, <2>2 DEF Calm
  <1>7. CASE ResRestoreKeep
    <2> DEFINE new == [Top EXCEPT !.phase = "loc_restore"]
    <2>1. stack # <<>> /\ stack' = SetTop(new) /\ fail' = fail
      BY <1>7 DEF ResRestoreKeep, InLambda
    <2>2. new.phase = "loc_restore" /\ new.result = Top.result
      BY <1>0, <2>1, TopOwn DEF Frame
    <2>3. fail' => CalmFrame(new, heap')
      <3> HIDE DEF new
      <3> QED BY <1>0, <2>1, <2>2 DEF Calm, CalmFrame
    <2> HIDE DEF new
    <2> QED BY <1>0, <2>1, <2>3, CalmSetTop
  <1>8. CASE LocRestore
    <2> DEFINE new == [Top EXCEPT !.phase = "par_restore"]
    <2>1. PICK D \in CleanedUp(NLoc(Top)) : AfterDestroy(D # 1..NLoc(Top))
      BY <1>8 DEF LocRestore
    <2>2. fail => fail'
      BY <2>1 DEF AfterDestroy
    <2>3. ~DestroyRaises => (fail' => fail)
      BY <2>1 DEF AfterDestroy, CleanedUp
    <2>4. stack # <<>> /\ stack' = SetTop(new)
      BY <1>8 DEF LocRestore, InLambda
    <2>5. new.phase = "par_restore" /\ new.result = Top.result
      BY <1>0, <2>4, TopOwn DEF Frame
    <2>6. fail' => CalmFrame(new, heap')
      <3> HIDE DEF new
      <3> QED BY <1>0, <2>3, <2>4, <2>5 DEF Calm, CalmFrame
    <2> HIDE DEF new
    <2> QED BY <1>0, <2>2, <2>4, <2>6, CalmSetTop
  <1>9. CASE ParRestore
    <2>1. PICK D \in CleanedUp(NPar(Top)) : AfterDestroy(D # 1..NPar(Top))
      BY <1>9 DEF ParRestore
    <2>2. fail => fail'
      BY <2>1 DEF AfterDestroy
    <2>3. ~DestroyRaises => (fail' => fail)
      BY <2>1 DEF AfterDestroy, CleanedUp
    <2>4. /\ stack # <<>> /\ Top.kind = "lambda" /\ Top.phase = "par_restore"
          /\ Return(Top.result, heap[Top.result] = "temp")
      BY <1>9 DEF ParRestore, InLambda
    <2>5. Top.result \in Globals \/ heap'[Top.result] = "temp"
      BY <1>0, <1>9, ParRestoreOwn
    <2>6. Top.result # Null
      BY <1>0, <2>4, RestoringTop, ConstantsAssumption DEF Restoring
    <2>7. fail' /\ ~DestroyRaises => Top.result \in Globals
      BY <1>0, <2>3, <2>4, <2>6 DEF Calm, CalmFrame
    <2> QED BY <1>0, <2>2, <2>4, <2>5, <2>7, CalmReturn
  <1> QED BY <1>1, <1>2, <1>3, <1>4, <1>5, <1>6, <1>7, <1>8, <1>9 DEF Lambda

LEMMA CalmAction ==
  ASSUME CalmInv, BindingInv', Action
  PROVE  Calm' /\ (fail /\ ~fail' => InBlock("catch"))
  <1>0. OwnInv /\ Calm /\ InterruptSet /\ Empty \in Globals /\ Exc \in Globals
    BY ConstantsAssumption DEF CalmInv, OwnInv, BindingInv, TypeInv
  <1>1. CASE \/ ActionStarts \/ BlockBody \/ LoopStarts \/ LoopTest \/ LoopAgain
             \/ ActionReturnsTemp \/ ActionReturnsArgument
    <2>1. ~fail
      BY <1>0, <1>1 DEF ActionStarts, BlockBody, LoopStarts, LoopTest, LoopAgain, GoesOn,
           ActionReturnsTemp, ActionReturnsArgument, Running, Calm, CalmFrame, InterruptSet
    <2>2. fail' = fail
      BY <1>1 DEF ActionStarts, BlockBody, LoopStarts, LoopTest, LoopAgain,
           ActionReturnsTemp, ActionReturnsArgument
    <2> QED BY <2>1, <2>2 DEF Calm
  <1>2. CASE \/ ActionFails \/ ActionReturnsEmpty \/ ActionRaises \/ BlockReturns \/ LoopFails
    <2>1. \E o \in {Empty, Exc} : Return(o, FALSE)
      BY <1>2 DEF ActionFails, ActionReturnsEmpty, ActionRaises, BlockReturns, LoopFails
    <2>2. PICK o \in {Empty, Exc} : Return(o, FALSE)
      BY <2>1
    <2>3. stack # <<>> /\ (fail => fail')
      <3>1. CASE ActionFails
        BY <3>1 DEF ActionFails, AtAction, Evaluated
      <3>2. CASE ActionReturnsEmpty
        BY <3>2 DEF ActionReturnsEmpty, Running
      <3>3. CASE ActionRaises
        BY <3>3 DEF ActionRaises, Running
      <3>4. CASE BlockReturns
        BY <3>4 DEF BlockReturns, InBlock
      <3>5. CASE LoopFails
        BY <3>5 DEF LoopFails, InLoop
      <3> QED BY <1>2, <3>1, <3>2, <3>3, <3>4, <3>5
    <2>4. PICK t \in BOOLEAN : Return(o, t)
      BY <2>2
    <2> QED BY <1>0, <2>3, <2>4, CalmReturn
  <1>3. CASE Catch
    BY <1>3 DEF Catch, Calm
  <1>4. CASE ShowSignal
    <2>1. ~fail /\ stack # <<>> /\ Top.kind # "lambda" /\ Top.phase = "args"
          /\ (fail' => stack' = stack)
      BY <1>4 DEF ShowSignal, AtAction, Evaluated
    <2>2. Top.result = Null
      BY <1>0, <2>1, ActionTop
    <2>3. fail' => Top' = Top
      BY <2>1 DEF Top
    <2>4. fail' => CalmFrame(Top, heap')
      BY <2>1, <2>2 DEF CalmFrame
    <2> QED BY <2>1, <2>3, <2>4 DEF Calm
  <1>5. CASE DataReturned
    <2>1. PICK o \in Globals : Return(o, FALSE)
      BY <1>0, <1>5 DEF DataReturned
    <2>2. stack # <<>> /\ fail' = fail
      BY <1>5 DEF DataReturned, Evaluated
    <2> QED BY <1>0, <2>1, <2>2, CalmReturn
  <1> QED BY <1>1, <1>2, <1>3, <1>4, <1>5 DEF Action

LEMMA CalmInvStep ==
  ASSUME CreateOutcomes = {"ok"}, ~AsyncRaise, CalmInv, [Next]_vars
  PROVE  /\ CalmInv' /\ (fail /\ ~fail' => InBlock("catch") \/ ReturnsData)
         /\ Exact /\ ~DestroyRaises => Exact'
  <1>0. OwnInv /\ Calm /\ Clean
    BY CalmIsClean DEF CalmInv
  <1>1. BindingInv' /\ Disciplined
    BY <1>0, BindingInvStep DEF OwnInv
  <1>2. OwnInv' /\ (Exact /\ ~DestroyRaises => Exact')
    BY <1>0, OwnInvStep
  <1>3. CASE EvalLeaf
    <2>1. Evaluating("value") /\ fail' = fail
      BY <1>3 DEF EvalLeaf
    <2>2. ~fail
      BY <1>0, <2>1, CalmEvaluation
    <2> QED BY <1>2, <2>1, <2>2 DEF CalmInv, Calm
  <1>4. CASE Call
    <2>1. PICK sort \in Sort : Evaluating(sort)
      BY <1>4 DEF Call
    <2>2. ~fail /\ fail' = fail
      BY <1>0, <1>4, <2>1, CalmEvaluation DEF Call
    <2> QED BY <1>2, <2>2 DEF CalmInv, Calm
  <1>5. CASE Lambda
    BY <1>1, <1>2, <1>5, CalmLambda DEF CalmInv
  <1>6. CASE Action
    BY <1>1, <1>2, <1>6, CalmAction DEF CalmInv
  <1>7. CASE Signal \/ UNCHANGED vars
    <2>1. UNCHANGED <<stack, heap, fail>>
      BY <1>7 DEF Signal, vars
    <2>2. Top' = Top
      BY <2>1 DEF Top
    <2> QED BY <1>0, <1>2, <2>1, <2>2 DEF CalmInv, Calm
  <1>8. CASE SignalRaises
    BY <1>8 DEF SignalRaises
  <1> QED BY <1>3, <1>4, <1>5, <1>6, <1>7, <1>8 DEF Next, Interpreter, Terminated

LEMMA CalmAlways ==
  ASSUME CreateOutcomes = {"ok"}, ~AsyncRaise
  PROVE  Spec => []CalmInv
  <1>1. Init => CalmInv
    BY OwnInvInit DEF CalmInv, Calm, Init
  <1>2. CalmInv /\ [Next]_vars => CalmInv'
    BY CalmInvStep
  <1> QED BY <1>1, <1>2, PTL DEF Spec

\* An exception ends in a handler only: the results, locals and parameters that are destroyed
\* while it is propagated, and the create calls of exec_lambda, never discard it, except when
\* a function delivers something that was called with arguments without being a function.
THEOREM ExceptionsAreKept ==
  ASSUME CreateOutcomes = {"ok"}, ~AsyncRaise
  PROVE  Spec => ExceptionKept
  <1>1. CalmInv /\ [Next]_vars => [fail /\ ~fail' => InBlock("catch") \/ ReturnsData]_vars
    BY CalmInvStep
  <1> QED BY CalmAlways, <1>1, PTL DEF Spec, ExceptionKept

-----------------------------------------------------------------------------
(* Nothing that is freed is referred to *)

InUse(o) == o = Null \/ heap[o] \notin {"free", "leaked"}

LEMMA BorrowedInUse ==
  ASSUME OwnInv, NEW i \in 1..Len(stack), NEW o \in Borrowable(i)
  PROVE  InUse(o)
  <1>1. i \in 1..Len(stack) + 1
    BY OwnShape
  <1> QED BY <1>1, BorrowedFacts DEF InUse

\* What a formal of an activation refers to.
LEMMA BoundInUse ==
  ASSUME OwnInv, NEW n \in 1..Len(stack), NEW s \in Bound(stack[n])
  PROVE  InUse(Now(n)[s])
  <1> DEFINE fr == stack[n]
             now == Now(n)
  <1>1. FrameOwn(fr, now, heap, Borrowable(n))
    BY OwnShape
  <1>2. CASE s \notin RefParams
    BY <1>1, <1>2 DEF FrameOwn, SlotsOwned, Owning, InUse
  <1>3. CASE s \in RefParams
    <2>1. now[s] \in Borrowable(n) \/ now[s] \in KeptValues(fr)
      BY <1>1, <1>3 DEF FrameOwn, RefsBorrowed
    <2>2. CASE now[s] \in Borrowable(n)
      BY <2>2, BorrowedInUse
    <2>3. CASE now[s] \in KeptValues(fr)
      BY <1>1, <2>3 DEF FrameOwn, KeptOwned, KeptValues, InUse
    <2> QED BY <2>1, <2>2, <2>3
  <1> QED BY <1>2, <1>3

\* A formal that was not bound again has the value that the activation below gave to it.
LEMMA NowInUse ==
  ASSUME OwnInv, NEW j \in 1..Len(stack), NEW s \in Slot
  PROVE  InUse(Now(j)[s])
  <1> DEFINE T == {n \in 1..j : s \in Bound(stack[n])}
  <1>0. BindingInv /\ Base /\ Len(stack) \in Nat /\ j \in Nat
    BY OwnShape DEF OwnInv
  <1>1. CASE T = {}
    <2>1. Now(j)[s] = InitValue[s]
      BY <1>0, <1>1, NowOutside
    <2>2. InitValue[s] \in Globals \cup {Null}
      BY ConstantsAssumption
    <2> QED BY <2>1, <2>2, OwnShape DEF InUse
  <1>2. CASE T # {}
    <2>1. T \in SUBSET (1..j)
      OBVIOUS
    <2> HIDE DEF T
    <2>2. PICK n \in T : \A m \in T : m <= n
      BY <1>0, <1>2, <2>1, GreatestNumber
    <2>3. n \in 1..Len(stack) /\ n <= j /\ n \in 1..j /\ s \in Bound(stack[n])
      BY <1>0, <2>2 DEF T
    <2>4. ASSUME NEW m \in n+1..j PROVE s \notin Bound(stack[m])
      <3>1. m \in 1..j /\ ~(m <= n)
        BY <1>0, <2>3
      <3> QED BY <2>2, <3>1 DEF T
    <2>5. Now(j)[s] = Now(n)[s]
      BY <1>0, <2>3, <2>4, NowUnbound
    <2> QED BY <2>3, <2>5, BoundInUse
  <1> QED BY <1>1, <1>2

LEMMA NothingDangles == OwnInv => NoDangling
  <1> SUFFICES ASSUME OwnInv PROVE NoDangling
    OBVIOUS
  <1>0. BindingInv /\ Base /\ Len(stack) \in Nat /\ DOMAIN stack = 1..Len(stack)
    BY OwnShape DEF OwnInv
  <1>1. ASSUME NEW s \in Slot PROVE InUse(objValue[s])
    <2>1. CASE stack = <<>>
      <3>1. objValue[s] \in Globals \cup {Null}
        BY <1>0, <2>1, ConstantsAssumption DEF Base
      <3> QED BY <3>1, OwnShape DEF InUse
    <2>2. CASE stack # <<>>
      BY <2>2, TopOwn, NowInUse
    <2> QED BY <2>1, <2>2
  <1>2. ASSUME NEW i \in 1..Len(stack), NEW j \in Held(stack[i]) PROVE InUse(stack[i].evald[j])
    <2>1. FrameOwn(stack[i], Now(i), heap, Borrowable(i)) /\ stack[i] \in Frame
      BY OwnShape
    <2>2. /\ DOMAIN stack[i].evald = 1..Len(stack[i].evald) /\ Len(stack[i].evald) \in Nat
          /\ stack[i].k \in Nat
      BY <2>1 DEF Frame
    <2>3. /\ j \in 1..Len(stack[i].evald)
          /\ \/ stack[i].kind # "lambda" \/ j >= stack[i].k
             \/ Params[stack[i].fn][j] \in RefParams
      BY <2>2 DEF Held
    <2>4. j >= stack[i].k \/ j < stack[i].k
      BY <2>2, <2>3
    <2>5. CASE j \in Unbound(stack[i])
      <3>1. stack[i].evald[j] \in Borrowable(i) \/ heap[stack[i].evald[j]] = "temp"
        BY <2>1, <2>5 DEF FrameOwn, ArgsOwned
      <3> QED BY <3>1, BorrowedInUse DEF InUse
    <2>6. CASE j \in Kept(stack[i])
      BY <2>1, <2>6 DEF FrameOwn, KeptOwned, InUse
    <2>7. j \in Unbound(stack[i]) \/ j \in Kept(stack[i]) \/ stack[i].evald[j] = Null
      BY <2>3, <2>4 DEF Unbound, Kept
    <2> QED BY <2>5, <2>6, <2>7 DEF InUse
  <1>3. ASSUME NEW i \in 1..Len(stack), NEW s \in Bound(stack[i])
        PROVE  InUse(stack[i].backup[s])
    <2>1. Shallow(stack[i], Now(i)) /\ stack[i] \in Frame /\ FrameOK(stack[i])
      BY <1>0, StackShape
    <2>2. s \in Slot
      BY <2>1, BoundInSlot DEF FrameOK
    <2>3. stack[i].backup[s] = stack[i].entry[s]
      BY <2>1, <2>2 DEF Shallow
    <2>4. CASE i = 1
      <3>1. stack # <<>>
        BY <1>0, StackShape
      <3>2. stack[i].entry[s] \in Globals \cup {Null}
        BY <1>0, <2>2, <2>4, <3>1, ConstantsAssumption DEF Base
      <3> QED BY <2>3, <3>2, OwnShape DEF InUse
    <2>5. CASE i # 1
      <3>1. /\ i - 1 \in 1..Len(stack) /\ i - 1 \in Nat /\ i - 1 + 1 = i /\ i <= Len(stack)
            /\ i - 1 # Len(stack)
        BY <1>0, <2>5
      <3>2. stack[i].entry = Now(i - 1)
        BY <3>1 DEF Now
      <3> QED BY <2>2, <2>3, <3>1, <3>2, NowInUse
    <2> QED BY <2>4, <2>5
  <1>4. ASSUME NEW i \in 1..Len(stack) PROVE InUse(stack[i].result)
    <2> DEFINE fr == stack[i]
    <2>1. FrameOwn(fr, Now(i), heap, Borrowable(i))
      BY OwnShape
    <2>2. \/ fr.result = Null \/ heap[fr.result] = "temp" \/ fr.result \in {Empty, Exc}
          \/ fr.result \in Borrowable(i) \/ fr.result \in SlotValues(fr, Now(i))
          \/ fr.result \in KeptValues(fr)
      BY <2>1 DEF FrameOwn, ResultOwned
    <2>3. /\ \A o \in SlotValues(fr, Now(i)) : heap[o] = "plain"
          /\ \A o \in KeptValues(fr) : heap[o] \notin {"free", "leaked"}
      BY <2>1 DEF FrameOwn, SlotsOwned, KeptOwned, SlotValues, KeptValues
    <2>4. \A o \in {Empty, Exc} : heap[o] = "plain"
      BY OwnShape, ConstantsAssumption
    <2>5. fr.result \in Borrowable(i) => InUse(fr.result)
      BY BorrowedInUse
    <2> QED BY <2>2, <2>3, <2>4, <2>5 DEF InUse
  <1> QED BY <1>0, <1>1, <1>2, <1>3, <1>4 DEF NoDangling, InUse

\* No value that an activation refers to - the value of a formal, a value it has saved, an
\* argument or a result - is freed while it can be used, whatever functions, exceptions
\* and failing destroy calls the program combines.
THEOREM NoDanglingHolds ==
  ASSUME CreateOutcomes = {"ok"}, ~AsyncRaise
  PROVE  Spec => []NoDangling
  <1>1. CalmInv => NoDangling
    BY NothingDangles DEF CalmInv
  <1> QED BY CalmAlways, <1>1, PTL

-----------------------------------------------------------------------------
(* Nothing is freed twice and nothing is leaked *)

\* The places of an activation that are responsible for o.
Place(fr, now, o, x) ==
  \/ x \in Owning(fr) /\ now[x] = o
  \/ x \in Kept(fr) \cup Pending(fr) /\ fr.evald[x] = o
  \/ x = 0 /\ fr.result = o /\ heap[o] = "temp"

\* The evaluated parameters that Owners counts.
Listed(fr, o) == IF fr.kind = "lambda" THEN {j \in Held(fr) : j < fr.k \/ heap[o] = "temp"}
                                       ELSE fr.bits

LEMMA ArgumentOwners ==
  ASSUME OwnInv, NEW i \in 1..Len(stack), NEW o \in Oid, NEW j
  PROVE  j \in Listed(stack[i], o) /\ stack[i].evald[j] = o
           <=> j \in Kept(stack[i]) \cup Pending(stack[i]) /\ stack[i].evald[j] = o
  <1> DEFINE fr == stack[i]
  <1>1. FrameOwn(fr, Now(i), heap, Borrowable(i)) /\ fr \in Frame
    BY OwnShape
  <1>2. /\ DOMAIN fr.evald = 1..Len(fr.evald) /\ Len(fr.evald) \in Nat /\ fr.k \in Nat
        /\ o # Null
    BY <1>1, ConstantsAssumption DEF Frame
  <1>3. /\ fr.bits \subseteq 1..Len(fr.evald)
        /\ \A n \in Unbound(fr) : fr.evald[n] \in Oid
             /\ IF n \in fr.bits THEN heap[fr.evald[n]] = "temp" ELSE fr.evald[n] \in Borrowable(i)
    BY <1>1 DEF FrameOwn, ArgsOwned
  <1>4. \A x \in Borrowable(i) : heap[x] # "temp"
    <2>1. i \in 1..Len(stack) + 1
      BY OwnShape
    <2> QED BY <2>1, BorrowedFacts
  <1> HIDE DEF fr
  <1>5. CASE fr.kind # "lambda"
    <2>1. Kept(fr) = {} /\ Pending(fr) = fr.bits
      BY <1>3, <1>5 DEF Kept, Pending, Unbound
    <2>2. Kept(fr) \cup Pending(fr) = Listed(fr, o)
      BY <1>5, <2>1 DEF Listed
    <2> QED BY <2>2 DEF fr
  <1>6. CASE fr.kind = "lambda"
    <2>0. j \in Listed(fr, o) <=> j \in Held(fr) /\ (j < fr.k \/ heap[o] = "temp")
      BY <1>6 DEF Listed
    <2>1. ASSUME fr.evald[j] = o, j \in Held(fr), j < fr.k \/ heap[o] = "temp"
          PROVE  j \in Kept(fr) \cup Pending(fr)
      <3>1. j \in 1..Len(fr.evald)
            /\ (fr.kind # "lambda" \/ j >= fr.k \/ Params[fr.fn][j] \in RefParams)
        BY <1>2, <2>1 DEF Held
      <3>2. j >= fr.k \/ (j < fr.k /\ ~(j >= fr.k))
        BY <1>2, <3>1
      <3>3. CASE j >= fr.k
        <4>1. j \in Unbound(fr)
          BY <3>1, <3>3 DEF Unbound
        <4>2. heap[o] = "temp"
          <5>1. ~(j < fr.k)
            BY <1>2, <3>1, <3>3
          <5> QED BY <2>1, <5>1
        <4>3. j \in fr.bits
          BY <1>3, <1>4, <2>1, <4>1, <4>2
        <4> QED BY <4>1, <4>3 DEF Pending
      <3>4. CASE j < fr.k /\ ~(j >= fr.k)
        BY <1>2, <1>6, <2>1, <3>1, <3>4 DEF Kept
      <3> QED BY <3>2, <3>3, <3>4
    <2>2. ASSUME fr.evald[j] = o, j \in Kept(fr)
          PROVE  j \in Held(fr) /\ (j < fr.k \/ heap[o] = "temp")
      BY <1>2, <2>2 DEF Kept, Held
    <2>3. ASSUME fr.evald[j] = o, j \in Pending(fr)
          PROVE  j \in Held(fr) /\ (j < fr.k \/ heap[o] = "temp")
      <3>1. j \in Unbound(fr) /\ j \in fr.bits
        BY <2>3 DEF Pending
      <3>2. j \in 1..Len(fr.evald) /\ j >= fr.k
        BY <1>6, <3>1 DEF Unbound
      <3> QED BY <1>2, <1>3, <2>3, <3>1, <3>2 DEF Held
    <2>4. j \in Listed(fr, o) /\ fr.evald[j] = o
            <=> j \in Kept(fr) \cup Pending(fr) /\ fr.evald[j] = o
      BY <2>0, <2>1, <2>2, <2>3
    <2> QED BY <2>4 DEF fr
  <1> QED BY <1>5, <1>6

LEMMA OwnersArePlaces ==
  ASSUME OwnInv, NEW o \in Oid, NEW e
  PROVE  e \in Owners(o) <=>
           \E i \in 1..Len(stack) : \E x : e = <<i, x>> /\ Place(stack[i], Now(i), o, x)
  <1>0. BindingInv /\ DOMAIN stack = 1..Len(stack)
    BY OwnShape DEF OwnInv
  <1> DEFINE Formal(i) == {t \in Bound(stack[i]) \ RefParams : ValueIn(i, t) = o}
             Argument(i) == {n \in Listed(stack[i], o) : stack[i].evald[n] = o}
             At(i) == {<<i, s>> : s \in Formal(i)} \cup {<<i, j>> : j \in Argument(i)}
                      \cup (IF stack[i].result = o /\ heap[o] = "temp" THEN {<<i, 0>>} ELSE {})
  <1>1. Owners(o) = UNION {At(i) : i \in 1..Len(stack)}
    BY <1>0 DEF Owners, Listed
  <1>2. ASSUME NEW i \in 1..Len(stack)
        PROVE  /\ \A x : x \in Formal(i) <=> x \in Owning(stack[i]) /\ Now(i)[x] = o
               /\ \A x : x \in Argument(i) <=>
                           x \in Kept(stack[i]) \cup Pending(stack[i]) /\ stack[i].evald[x] = o
    <2>1. \A s \in Bound(stack[i]) : s \in Slot
      <3>1. stack[i].kind = "lambda" => stack[i].fn \in Fun
        BY <1>0, StackShape DEF FrameOK
      <3> QED BY <3>1, BoundInSlot
    <2>2. \A s \in Bound(stack[i]) : ValueIn(i, s) = Now(i)[s]
      BY <1>0, <2>1, ValueIsNow
    <2>3. \A x : x \in Formal(i) <=> x \in Owning(stack[i]) /\ Now(i)[x] = o
      BY <2>2 DEF Owning
    <2>4. \A x : x \in Argument(i) <=>
                   x \in Kept(stack[i]) \cup Pending(stack[i]) /\ stack[i].evald[x] = o
      BY ArgumentOwners
    <2> QED BY <2>3, <2>4
  <1> HIDE DEF Formal, Argument
  <1>3. ASSUME NEW i \in 1..Len(stack)
        PROVE  e \in At(i) <=> \E x : e = <<i, x>> /\ Place(stack[i], Now(i), o, x)
    BY <1>2 DEF Place
  <1> HIDE DEF At
  <1> QED BY <1>1, <1>3

\* What is at a place of an activation is owned by it, and it is at one place only.
LEMMA OnePlace ==
  ASSUME OwnInv, NEW i \in 1..Len(stack), NEW o \in Oid
  PROVE  /\ (\E x : Place(stack[i], Now(i), o, x)) <=> o \in OwnedAt(i)
         /\ \A x, y : Place(stack[i], Now(i), o, x) /\ Place(stack[i], Now(i), o, y) => x = y
  <1> DEFINE fr == stack[i]
             now == Now(i)
  <1>1. FrameOwn(fr, now, heap, Borrowable(i)) /\ fr \in Frame /\ FrameOK(fr)
    BY OwnShape
  <1>2. (\E x : Place(fr, now, o, x)) <=> o \in OwnedAt(i)
    BY DEF Place, OwnedAt, Owned, SlotValues, KeptValues, PendingValues, ResultValue
  <1>3. ASSUME fr.result = o
        PROVE  \A j \in Pending(fr) : FALSE
    <2>1. o # Null
      BY ConstantsAssumption
    <2>2. \/ fr.kind = "lambda" /\ fr.phase \in Restoring
          \/ fr.kind = "loop" /\ fr.phase = "test"
      BY <1>1, <1>3, <2>1 DEF FrameOwn, ResultOwned
    <2>3. fr.evald \in Seq(Ref) /\ Len(fr.evald) \in Nat /\ fr.k \in Nat
      BY <1>1 DEF Frame
    <2>4. CASE fr.kind = "lambda" /\ fr.phase \in Restoring
      <3>1. fr.k > NPar(fr) /\ Len(fr.evald) = NPar(fr)
        BY <1>1, <2>4 DEF FrameOwn, Counted, FrameOK, Restoring
      <3>2. \A j \in 1..Len(fr.evald) : ~(j >= fr.k)
        BY <2>3, <3>1
      <3> QED BY <2>4, <3>2 DEF Pending, Unbound
    <2>5. CASE fr.kind = "loop" /\ fr.phase = "test"
      <3>1. Len(fr.evald) = 0
        BY <1>1, <2>5 DEF FrameOwn, Counted, FrameOK
      <3>2. 1..Len(fr.evald) = {}
        BY <3>1
      <3> QED BY <3>2 DEF Pending, Unbound
    <2> QED BY <2>2, <2>4, <2>5
  <1>4. /\ \A s \in Owning(fr) : heap[now[s]] = "plain"
        /\ \A j \in Kept(fr) : heap[fr.evald[j]] # "temp"
    BY <1>1 DEF FrameOwn, SlotsOwned, KeptOwned
  <1> DEFINE Args == Kept(fr) \cup Pending(fr)
  <1>5. /\ \A s, t \in Owning(fr) : now[s] = now[t] => s = t
        /\ \A n, j \in Args : fr.evald[n] = fr.evald[j] => n = j
        /\ \A s \in Owning(fr), j \in Args : now[s] # fr.evald[j]
    BY <1>1 DEF FrameOwn, OwnedOnce
  <1> HIDE DEF fr, now
  <1>6. ASSUME NEW x, NEW y, Place(fr, now, o, x), Place(fr, now, o, y)
        PROVE  x = y
    <2>1. CASE fr.result = o /\ heap[o] = "temp"
      <3>1. ~(x \in Owning(fr) /\ now[x] = o) /\ ~(x \in Args /\ fr.evald[x] = o)
        BY <1>3, <1>4, <2>1
      <3>2. ~(y \in Owning(fr) /\ now[y] = o) /\ ~(y \in Args /\ fr.evald[y] = o)
        BY <1>3, <1>4, <2>1
      <3> QED BY <1>6, <3>1, <3>2 DEF Place
    <2>2. CASE ~(fr.result = o /\ heap[o] = "temp")
      <3>1. (x \in Owning(fr) /\ now[x] = o) \/ (x \in Args /\ fr.evald[x] = o)
        BY <1>6, <2>2 DEF Place
      <3>2. (y \in Owning(fr) /\ now[y] = o) \/ (y \in Args /\ fr.evald[y] = o)
        BY <1>6, <2>2 DEF Place
      <3> HIDE DEF Args
      <3> QED BY <1>5, <3>1, <3>2
    <2> QED BY <2>1, <2>2
  <1> QED BY <1>2, <1>6 DEF fr, now

LEMMA OwnedByOne == OwnInv /\ Exact => OneOwner
  <1> SUFFICES ASSUME OwnInv, Exact, NEW o \in Oid
               PROVE  Cardinality(Owners(o)) = IF o \in Globals \/ heap[o] \in Gone THEN 0 ELSE 1
    BY DEF OneOwner, Gone
  <1>1. CASE o \in Globals \/ heap[o] \in Gone
    <2>1. ASSUME NEW e \in Owners(o) PROVE FALSE
      <3>1. PICK i \in 1..Len(stack) : \E x : e = <<i, x>> /\ Place(stack[i], Now(i), o, x)
        BY OwnersArePlaces
      <3>2. o \in OwnedAt(i)
        BY <3>1, OnePlace
      <3>3. FrameOwn(stack[i], Now(i), heap, Borrowable(i))
        BY OwnShape
      <3>4. heap[o] \notin Gone
        BY <3>2, <3>3, OwnedFacts DEF OwnedAt, Gone
      <3> QED BY <1>1, <3>2, <3>4, OwnedNotGlobal
    <2>2. Owners(o) = {}
      BY <2>1
    <2> QED BY <1>1, <2>2, FS_EmptySet
  <1>2. CASE o \notin Globals /\ heap[o] \notin Gone
    <2>1. PICK i \in 1..Len(stack) : o \in OwnedAt(i)
      BY <1>2 DEF Exact
    <2>2. PICK x : Place(stack[i], Now(i), o, x)
      BY <2>1, OnePlace
    <2>3. <<i, x>> \in Owners(o)
      BY <2>2, OwnersArePlaces
    <2>4. ASSUME NEW e \in Owners(o) PROVE e = <<i, x>>
      <3>1. PICK n \in 1..Len(stack) : \E y : e = <<n, y>> /\ Place(stack[n], Now(n), o, y)
        BY OwnersArePlaces
      <3>2. PICK y : e = <<n, y>> /\ Place(stack[n], Now(n), o, y)
        BY <3>1
      <3>3. o \in OwnedAt(n)
        BY <3>2, OnePlace
      <3>4. n = i
        BY <2>1, <3>3 DEF OwnInv, Ownership
      <3>5. y = x
        BY <2>2, <3>2, <3>4, OnePlace
      <3> QED BY <3>2, <3>4, <3>5
    <2>5. Owners(o) = {<<i, x>>}
      BY <2>3, <2>4
    <2> QED BY <1>2, <2>5, FS_Singleton
  <1> QED BY <1>1, <1>2

\* Every object in use is freed by exactly one activation, from exactly one place: nothing
\* is freed twice, and nothing that the program created is leaked but the temporary arguments
\* of calls of something that is not a function, which exec_all_parameters leaves to nobody.
THEOREM OneOwnerHolds ==
  ASSUME CreateOutcomes = {"ok"}, ~AsyncRaise, ~DestroyRaises
  PROVE  Spec => []OneOwner
  <1> DEFINE Inv == CalmInv /\ Exact
  <1>1. Init => Inv
    BY OwnInvInit DEF CalmInv, Calm, Init
  <1>2. Inv /\ [Next]_vars => Inv'
    BY CalmInvStep
  <1>3. Inv => OneOwner
    BY OwnedByOne DEF CalmInv
  <1> QED BY <1>1, <1>2, <1>3, PTL DEF Spec

-----------------------------------------------------------------------------
(* Refinement of DeepBinding                                               *)

\* The variables of an activation, with the values now.
Variables(fr, now) == [s \in Bound(fr) |-> now[s]]

LEMMA VariablesTyped ==
  ASSUME BindingInv, NEW i \in 1..Len(stack)
  PROVE  Bound(stack[i]) \subseteq Slot
  <1>1. stack[i].kind = "lambda" => stack[i].fn \in Fun
    BY StackShape DEF FrameOK
  <1> QED BY <1>1, BoundInSlot

\* The mapped environment: every activation has the variables it has bound.
LEMMA EnvironmentIsNow ==
  BindingInv => Environment = [i \in 1..Len(stack) |-> Variables(stack[i], Now(i))]
  <1> SUFFICES ASSUME BindingInv
               PROVE  Environment = [i \in 1..Len(stack) |-> Variables(stack[i], Now(i))]
    OBVIOUS
  <1> DEFINE mapped(i) == [s \in Bound(stack[i]) |-> ValueIn(i, s)]
             vals(i) == Variables(stack[i], Now(i))
  <1>1. DOMAIN stack = 1..Len(stack)
    BY StackShape
  <1>2. Environment = [i \in 1..Len(stack) |-> mapped(i)]
    BY <1>1 DEF Environment
  <1>3. ASSUME NEW i \in 1..Len(stack) PROVE mapped(i) = vals(i)
    <2>1. Bound(stack[i]) \subseteq Slot
      BY VariablesTyped
    <2>2. \A s \in Bound(stack[i]) : ValueIn(i, s) = Now(i)[s]
      BY <2>1, ValueIsNow
    <2> QED BY <2>2 DEF Variables
  <1> HIDE DEF mapped, vals
  <1>4. Environment = [i \in 1..Len(stack) |-> vals(i)]
    BY <1>2, <1>3
  <1> QED BY <1>4 DEF vals

LEMMA EnvironmentShape ==
  ASSUME BindingInv
  PROVE  /\ DOMAIN Environment = 1..Len(stack)
         /\ \A i \in 1..Len(stack) : /\ DOMAIN Environment[i] = Bound(stack[i])
                                     /\ \A s \in Bound(stack[i]) : Environment[i][s] = Now(i)[s]
  BY EnvironmentIsNow DEF Variables

\* A formal has the value that the innermost activation that binds it has given to it, or
\* its value from parsing.
LEMMA VariablesVisible == BindingInv /\ Base => Deep!Visible
  <1> SUFFICES ASSUME BindingInv, Base PROVE Deep!Visible
    OBVIOUS
  <1>0. Len(stack) \in Nat /\ objValue \in [Slot -> Ref] /\ (stack = <<>> <=> Len(stack) = 0)
    BY StackShape
  <1>1. ASSUME NEW n \in Slot PROVE Deep!Lookup(Environment, n) = objValue[n]
    <2> DEFINE binding == {i \in DOMAIN Environment : n \in DOMAIN Environment[i]}
    <2>1. binding = {i \in 1..Len(stack) : n \in Bound(stack[i])}
      BY EnvironmentShape
    <2>2. CASE binding = {}
      <3>1. Deep!Lookup(Environment, n) = InitValue[n]
        BY <2>2 DEF Deep!Lookup
      <3>2. CASE stack = <<>>
        BY <3>1, <3>2 DEF Base
      <3>3. CASE stack # <<>>
        <4>1. Len(stack) \in 1..Len(stack) /\ \A i \in 1..Len(stack) : n \notin Bound(stack[i])
          BY <1>0, <2>1, <2>2, <3>3
        <4>2. Now(Len(stack))[n] = InitValue[n]
          BY <4>1, NowOutside
        <4> QED BY <3>1, <4>2 DEF Now
      <3> QED BY <3>2, <3>3
    <2>3. CASE binding # {}
      <3>1. binding \in SUBSET (1..Len(stack))
        BY <2>1
      <3> DEFINE g == CHOOSE i \in binding : \A j \in binding : j <= i
      <3>2. g \in binding /\ \A j \in binding : j <= g
        <4>1. \E i \in binding : \A j \in binding : j <= i
          BY <1>0, <2>3, <3>1, GreatestNumber
        <4> QED BY <4>1
      <3>3. Deep!Lookup(Environment, n) = Environment[g][n]
        BY <2>3 DEF Deep!Lookup
      <3> HIDE DEF g
      <3>4. g \in 1..Len(stack) /\ n \in Bound(stack[g])
        BY <2>1, <3>2
      <3>5. Environment[g][n] = Now(g)[n]
        BY <3>4, EnvironmentShape
      <3>6. \A j \in g+1..Len(stack) : n \notin Bound(stack[j])
        <4>1. ASSUME NEW j \in g+1..Len(stack), n \in Bound(stack[j]) PROVE FALSE
          <5>1. j \in 1..Len(stack) /\ ~(j <= g)
            BY <1>0, <3>4
          <5> QED BY <2>1, <3>2, <4>1, <5>1
        <4> QED BY <4>1
      <3>7. Len(stack) \in 1..Len(stack) /\ g <= Len(stack)
        BY <1>0, <3>4
      <3>8. Now(Len(stack))[n] = Now(g)[n]
        BY <3>4, <3>6, <3>7, NowUnbound
      <3> QED BY <3>3, <3>5, <3>8 DEF Now
    <2> QED BY <2>2, <2>3
  <1> QED BY <1>0, <1>1 DEF Deep!Visible

\* The variables have objects as values.
LEMMA BoundIsObject ==
  ASSUME OwnInv, NEW i \in 1..Len(stack), NEW s \in Bound(stack[i])
  PROVE  Now(i)[s] \in Oid
  <1>1. FrameOwn(stack[i], Now(i), heap, Borrowable(i))
    BY OwnShape
  <1>2. CASE s \notin RefParams
    BY <1>1, <1>2 DEF FrameOwn, SlotsOwned, Owning
  <1>3. CASE s \in RefParams
    <2>1. Now(i)[s] \in Borrowable(i) \/ Now(i)[s] \in KeptValues(stack[i])
      BY <1>1, <1>3 DEF FrameOwn, RefsBorrowed
    <2>2. CASE Now(i)[s] \in Borrowable(i)
      <3>1. i \in 1..Len(stack) + 1
        BY OwnShape
      <3> QED BY <2>2, <3>1, BorrowedFacts
    <2>3. CASE Now(i)[s] \in KeptValues(stack[i])
      BY <1>1, <2>3 DEF FrameOwn, KeptOwned, KeptValues
    <2> QED BY <2>1, <2>2, <2>3
  <1> QED BY <1>2, <1>3

Mapped ==
  /\ Len(stack) \in Nat /\ (stack = <<>> <=> Len(stack) = 0)
  /\ Environment = [i \in 1..Len(stack) |-> Variables(stack[i], Now(i))]
  /\ \A i \in 1..Len(stack) : \A s \in Bound(stack[i]) : s \in Slot /\ Now(i)[s] \in Oid
  /\ Deep!Visible

LEMMA EnvironmentMapped == OwnInv => Mapped
  <1> SUFFICES ASSUME OwnInv PROVE Mapped
    OBVIOUS
  <1>0. BindingInv /\ Base
    BY DEF OwnInv
  <1>1. Len(stack) \in Nat /\ (stack = <<>> <=> Len(stack) = 0)
    BY <1>0, StackShape
  <1>2. Environment = [i \in 1..Len(stack) |-> Variables(stack[i], Now(i))]
    BY <1>0, EnvironmentIsNow
  <1>3. \A i \in 1..Len(stack) : \A s \in Bound(stack[i]) : s \in Slot /\ Now(i)[s] \in Oid
    BY <1>0, BoundIsObject, VariablesTyped
  <1>4. Deep!Visible
    BY <1>0, VariablesVisible
  <1> QED BY <1>1, <1>2, <1>3, <1>4 DEF Mapped

LEMMA EnvironmentMappedNext == OwnInv' => Mapped'
  BY EnvironmentMapped, PTL

\* The program begins with one activation without variables.
LEMMA DeepInit == Init => Deep!Init
  <1> SUFFICES ASSUME Init PROVE Deep!Init
    OBVIOUS
  <1>0. OwnInv
    BY OwnInvInit
  <1>1. Mapped
    BY <1>0, EnvironmentMapped
  <1>2. PICK main \in Callees(1, "proc") : stack = <<main>>
    BY DEF Init
  <1>3. Len(stack) = 1 /\ stack[1] = main /\ 1..1 = {1}
    BY <1>2
  <1>b. Bound(main) = {}
    BY CalleeBinding
  <1>4. Variables(stack[1], Now(1)) = <<>>
    BY <1>3, <1>b DEF Variables
  <1>5. Environment = [i \in {1} |-> <<>>]
    BY <1>1, <1>3, <1>4 DEF Mapped
  <1>6. Environment = << <<>> >>
    BY <1>5
  <1> QED BY <1>1, <1>6 DEF Deep!Init, Mapped

\* A step of the innermost activation that keeps or drops bindings, or binds one more formal.
LEMMA DeepRebinds ==
  ASSUME BindingInv, Mapped, Mapped', stack # <<>>,
         NEW fr, stack' = SetTop(fr), fr.entry = Top.entry, Rebinds(fr, objValue')
  PROVE  Deep!Bind \/ Deep!Unbind
  <1>0. PICK L \in Nat : L = Len(stack)
    BY DEF Mapped
  <1> DEFINE E(i) == Variables(stack[i], Now(i))
             E2(i) == Variables(stack'[i], Now(i)')
             now == objValue'
             old == objValue
  <1>1. /\ L >= 1 /\ Top = stack[L] /\ Len(stack') = L /\ stack'[L] = fr
        /\ \A i \in 1..L : i # L => stack'[i] = stack[i]
    BY <1>0, SetTopShape DEF BindingInv
  <1>2. Environment = [i \in 1..L |-> E(i)] /\ Environment' = [i \in 1..L |-> E2(i)]
    BY <1>0, <1>1 DEF Mapped
  <1>3. Now(L) = old /\ Now(L)' = now
    BY <1>0, <1>1 DEF Now
  <1>4. ASSUME NEW i \in 1..L, i # L PROVE E2(i) = E(i)
    <2>1. i + 1 \in 1..L /\ i # Len(stack) /\ i # Len(stack')
      BY <1>0, <1>1, <1>4
    <2>2. stack'[i + 1].entry = stack[i + 1].entry
      BY <1>1, <2>1
    <2>3. Now(i)' = Now(i)
      BY <2>1, <2>2 DEF Now
    <2> QED BY <1>1, <1>4, <2>3
  <1>5. E(L) = [s \in Bound(Top) |-> old[s]] /\ E2(L) = [s \in Bound(fr) |-> now[s]]
    BY <1>1, <1>3 DEF Variables
  <1>6. \A s \in Bound(fr) : s \in Slot /\ now[s] \in Oid
    <2>1. L \in 1..Len(stack')
      BY <1>1
    <2>2. \A s \in Bound(stack'[L]) : s \in Slot /\ Now(L)'[s] \in Oid
      BY <2>1 DEF Mapped
    <2> QED BY <1>1, <1>3, <2>2
  <1>7. \A s \in Bound(Top) : s \in Slot
    BY <1>0, <1>1 DEF Mapped
  <1> DEFINE top == Environment[Len(Environment)]
  <1>8. Environment # <<>> /\ Len(Environment) = L /\ top = E(L)
    BY <1>1, <1>2
  <1> HIDE DEF E, E2, now, old
  <1>9. ASSUME NEW new, E2(L) = new PROVE Environment' = [Environment EXCEPT ![Len(Environment)] = new]
    <2> HIDE DEF top
    <2> QED BY <1>1, <1>2, <1>4, <1>8, <1>9
  <1>10. CASE \A s \in Slot : s \in Bound(fr) => s \in Bound(Top) /\ now[s] = old[s]
    <2>1. Bound(fr) \in SUBSET DOMAIN top
      BY <1>5, <1>6, <1>8, <1>10
    <2>2. E2(L) = [m \in Bound(fr) |-> top[m]]
      <3>1. \A m \in Bound(fr) : top[m] = now[m]
        BY <1>5, <1>6, <1>8, <1>10
      <3> HIDE DEF top
      <3> QED BY <1>5, <3>1
    <2>3. Environment' = [Environment EXCEPT ![Len(Environment)] = [m \in Bound(fr) |-> top[m]]]
      BY <1>9, <2>2
    <2> QED BY <1>8, <2>1, <2>3 DEF Deep!Unbind
  <1>11. ASSUME NEW n \in Slot, n \notin Bound(Top),
                \A s \in Slot : s \in Bound(fr) <=> s \in Bound(Top) \/ s = n,
                \A s \in Slot : s # n => now[s] = old[s]
         PROVE  Deep!Bind
    <2> DEFINE v == now[n]
               new == [m \in DOMAIN top \cup {n} |-> IF m = n THEN v ELSE top[m]]
    <2>1. DOMAIN top = Bound(Top) /\ Bound(fr) = Bound(Top) \cup {n} /\ v \in Oid
      BY <1>5, <1>6, <1>7, <1>8, <1>11
    <2>2. \A m \in Bound(fr) : now[m] = IF m = n THEN v ELSE top[m]
      BY <1>5, <1>6, <1>8, <1>11, <2>1
    <2>3. E2(L) = new
      <3> HIDE DEF top, v
      <3> QED BY <1>5, <2>1, <2>2
    <2>4. Environment' = [Environment EXCEPT ![Len(Environment)] = new]
      <3> HIDE DEF new
      <3> QED BY <1>9, <2>3
    <2>5. n \in Slot \ DOMAIN top
      BY <1>11, <2>1
    <2> HIDE DEF v
    <2> QED BY <1>8, <2>1, <2>4, <2>5 DEF Deep!Bind
  <1>12. \/ \A s \in Slot : s \in Bound(fr) => s \in Bound(Top) /\ now[s] = old[s]
         \/ \E n \in Slot : /\ n \notin Bound(Top)
                            /\ \A s \in Slot : s \in Bound(fr) <=> s \in Bound(Top) \/ s = n
                            /\ \A s \in Slot : s # n => now[s] = old[s]
    BY DEF Rebinds, now, old
  <1> QED BY <1>10, <1>11, <1>12

\* A call: the new activation has no variables yet, and those of the others are as before.
LEMMA DeepEnter ==
  ASSUME BindingInv, Mapped, Mapped', stack # <<>>, objValue' = objValue,
         NEW fr, NEW callee, stack' = Append(SetTop(fr), callee), fr.entry = Top.entry,
         callee.entry = objValue, Bound(fr) = Bound(Top), Bound(callee) = {}
  PROVE  Deep!Enter
  <1>0. PICK L \in Nat : L = Len(stack)
    BY DEF Mapped
  <1> DEFINE E(i) == Variables(stack[i], Now(i))
             E2(i) == Variables(stack'[i], Now(i)')
  <1>1. /\ L >= 1 /\ Top = stack[L] /\ Len(stack') = L + 1
        /\ stack'[L + 1] = callee /\ stack'[L] = fr
        /\ \A i \in 1..L : i # L => stack'[i] = stack[i]
    BY <1>0, AppendShape DEF BindingInv
  <1>2. Environment = [i \in 1..L |-> E(i)] /\ Environment' = [i \in 1..L + 1 |-> E2(i)]
    BY <1>0, <1>1 DEF Mapped
  <1>3. ASSUME NEW i \in 1..L PROVE E2(i) = E(i)
    <2>1. CASE i = L
      <3>1. Now(i) = objValue /\ Now(i)' = objValue
        BY <1>0, <1>1, <2>1 DEF Now
      <3> QED BY <1>1, <2>1, <3>1 DEF Variables
    <2>2. CASE i # L
      <3>1. i + 1 \in 1..L /\ i # Len(stack) /\ i # Len(stack')
        BY <1>0, <1>1, <2>2
      <3>2. stack'[i + 1].entry = stack[i + 1].entry
        BY <1>1, <3>1
      <3>3. Now(i)' = Now(i)
        BY <3>1, <3>2 DEF Now
      <3> QED BY <1>1, <2>2, <3>3
    <2> QED BY <2>1, <2>2
  <1>4. E2(L + 1) = <<>>
    BY <1>1 DEF Variables
  <1> HIDE DEF E, E2
  <1>5. Environment' = Append(Environment, <<>>)
    BY <1>2, <1>3, <1>4
  <1> QED BY <1>5 DEF Deep!Enter

\* A return drops the variables of the activation: those of its caller are as before the call.
LEMMA DeepLeave ==
  ASSUME BindingInv, Mapped, Mapped', stack # <<>>, objValue' = Top.entry,
         NEW o \in Ref, NEW t \in BOOLEAN, Return(o, t)
  PROVE  Deep!Leave
  <1>0. PICK L \in Nat : L = Len(stack)
    BY DEF Mapped
  <1> DEFINE E(i) == Variables(stack[i], Now(i))
             E2(i) == Variables(stack'[i], Now(i)')
  <1>1. TypeOK /\ stack \in Seq(Frame) /\ L >= 1 /\ Top = stack[L]
    BY <1>0 DEF BindingInv, TypeInv, TypeOK, Top, Mapped
  <1>2. Environment = [i \in 1..L |-> E(i)] /\ L - 1 \in Nat
    BY <1>0, <1>1 DEF Mapped
  <1>3. Len(stack') = L - 1 /\ \A i \in 1..L - 1 : E2(i) = E(i)
    <2>1. CASE L = 1
      <3>1. stack' = <<>>
        BY <1>0, <1>1, <2>1, ReturnShape
      <3> QED BY <2>1, <3>1
    <2>2. CASE L >= 2
      <3>1. /\ Len(stack') = L - 1
            /\ stack'[L - 1] = Receive(Caller, o, t)
            /\ \A i \in 1..L - 2 : stack'[i] = stack[i]
        BY <1>0, <1>1, <2>2, TwoIsNotOne, ReturnShape
      <3>2. /\ Caller \in Frame /\ FrameOK(Caller) /\ Waiting(Caller)
            /\ L - 1 \in 1..Len(stack) /\ Caller = stack[L - 1]
        BY <1>0, <1>1, <2>2 DEF Caller, BindingInv, TypeInv, WellFormed
      <3>3. Now(L - 1) = Top.entry
        BY <1>0, <1>1, <3>2 DEF Now
      <3>4. Shallow(Caller, Top.entry) /\ Saved(Caller, TRUE)
        <4>1. (L - 1 < Len(stack)) = TRUE
          BY <1>0, <1>1
        <4>2. Saved(Caller, L - 1 < Len(stack))
          BY <3>2 DEF BindingInv, Binding, SavedParams
        <4> QED BY <3>2, <3>3, <4>1, <4>2 DEF BindingInv, Binding
      <3> DEFINE new == Receive(Caller, o, t)
      <3>5. new.entry = Caller.entry /\ Bound(new) = Bound(Caller)
        BY <3>2, <3>4, ReceiveBinding
      <3> HIDE DEF new
      <3>6. ASSUME NEW i \in 1..L - 1 PROVE E2(i) = E(i)
        <4>1. CASE i = L - 1
          <5>1. Now(i)' = objValue'
            BY <1>0, <3>1, <4>1 DEF Now
          <5> QED BY <3>1, <3>2, <3>3, <3>5, <4>1, <5>1 DEF Variables, new
        <4>2. CASE i # L - 1
          <5>1. i \in 1..L - 2 /\ i # Len(stack) /\ i # Len(stack')
                /\ (i + 1 = L - 1 \/ i + 1 \in 1..L - 2)
            BY <1>0, <3>1, <4>2
          <5>2. stack'[i + 1].entry = stack[i + 1].entry
            BY <3>1, <3>2, <3>5, <5>1 DEF new
          <5>3. Now(i)' = Now(i)
            BY <5>1, <5>2 DEF Now
          <5> QED BY <3>1, <5>1, <5>3
        <4> QED BY <4>1, <4>2
      <3> QED BY <3>1, <3>6
    <2> QED BY <1>1, <2>1, <2>2
  <1>4. Environment' = [i \in 1..L - 1 |-> E2(i)]
    BY <1>3 DEF Mapped
  <1> HIDE DEF E, E2
  <1>5. Len(Environment) = L /\ Environment # <<>>
    BY <1>1, <1>2
  <1>6. SubSeq(Environment, 1, L - 1) = [i \in 1..L - 1 |-> E(i)]
    <2>1. Environment \in Seq({E(i) : i \in 1..L})
      BY <1>2
    <2>2. \A i \in 1..L - 1 : Environment[i] = E(i)
      BY <1>1, <1>2
    <2>3. SubSeq(Environment, 1, L - 1) = [i \in 1..L - 1 |-> Environment[i]]
      BY <1>1, <1>5, <2>1
    <2> QED BY <2>2, <2>3
  <1>7. Environment' = SubSeq(Environment, 1, Len(Environment) - 1)
    BY <1>3, <1>4, <1>5, <1>6
  <1> QED BY <1>5, <1>7 DEF Deep!Leave

\* The variables of a stack that is unchanged are unchanged.
LEMMA DeepStill ==
  ASSUME Mapped, Mapped', stack' = stack, objValue' = objValue
  PROVE  UNCHANGED Deep!vars
  <1> DEFINE E(i) == Variables(stack[i], Now(i))
             E2(i) == Variables(stack'[i], Now(i)')
  <1>1. Environment = [i \in 1..Len(stack) |-> E(i)] /\ Environment' = [i \in 1..Len(stack) |-> E2(i)]
    BY DEF Mapped
  <1>2. \A i \in 1..Len(stack) : E2(i) = E(i)
    BY DEF Now, Variables
  <1> HIDE DEF E, E2
  <1>3. Environment' = Environment
    BY <1>1, <1>2
  <1> QED BY <1>3 DEF Deep!vars

\* Every step of the interpreter is a step of deep binding, or changes no variable.
LEMMA DeepStep ==
  ASSUME CreateOutcomes = {"ok"}, ~AsyncRaise, OwnInv, OwnInv', [Next]_vars
  PROVE  [Deep!Next]_(Deep!vars)
  <1>1. BindingInv /\ Mapped /\ Mapped' /\ Deep!Visible'
    BY EnvironmentMapped, EnvironmentMappedNext DEF OwnInv, Mapped
  <1>2. VariableStep
    BY <1>1, BindingInvStep DEF Disciplined
  <1>3. CASE stack' = stack /\ objValue' = objValue
    BY <1>1, <1>3, DeepStill
  <1>4. CASE stack # <<>> /\ \E fr : stack' = SetTop(fr) /\ fr.entry = Top.entry /\ Rebinds(fr, objValue')
    BY <1>1, <1>4, DeepRebinds DEF Deep!Next
  <1>5. CASE /\ stack # <<>> /\ objValue' = objValue
             /\ \E fr, callee : /\ stack' = Append(SetTop(fr), callee)
                                /\ fr.entry = Top.entry /\ callee.entry = objValue
                                /\ Bound(fr) = Bound(Top) /\ Bound(callee) = {}
    BY <1>1, <1>5, DeepEnter DEF Deep!Next
  <1>6. CASE /\ stack # <<>> /\ objValue' = Top.entry
             /\ \E o \in Ref, t \in BOOLEAN : Return(o, t)
    BY <1>1, <1>6, DeepLeave DEF Deep!Next
  <1> QED BY <1>2, <1>3, <1>4, <1>5, <1>6 DEF VariableStep

\* Shallow binding, one value for each formal and the values saved by the activations,
\* implements deep binding, variables of their own for every activation: what par_init,
\* loc_init, res_init and the restore functions do to objValue is never seen as anything else.
THEOREM ImplementsDeepBinding ==
  ASSUME CreateOutcomes = {"ok"}, ~AsyncRaise
  PROVE  Spec => DeepSpec
  <1>1. CalmInv /\ CalmInv' /\ [Next]_vars => [Deep!Next]_(Deep!vars)
    BY DeepStep DEF CalmInv
  <1> QED BY DeepInit, CalmAlways, <1>1, PTL DEF Spec, DeepSpec, Deep!Spec
=============================================================================
