--------------------------- MODULE RuntimeProofs ---------------------------
(***************************************************************************)
(* Proofs about CatchStack, Hash and Sets.                                 *)
(*                                                                         *)
(* CatchStack, for every size of the catch stack and any number of nested  *)
(* functions: no_memory always jumps into the innermost function that is   *)
(* protected, unless the catch stack cannot grow in analyzeProg (see       *)
(* TargetsMaintained).                                                     *)
(*                                                                         *)
(* Hash, for every set of maps, keys and data, every number of buckets and *)
(* all hash codes: what a lookup finds is what was entered last, the       *)
(* elements are counted, and a loop over a map whose statements remove     *)
(* nothing comes to every element once.  Walks through a tree and the      *)
(* recursive functions of Hash are reasoned about with sets that are       *)
(* closed under the pointers, with a rank that decreases along them, and   *)
(* with minimal counterexamples.                                           *)
(*                                                                         *)
(* Sets, for every size of a bitset, any variables and all numbers of that *)
(* size: a set is reasoned about as the function from positions to bits    *)
(* that it stands for (Bits), whatever positions its memory covers.        *)
(***************************************************************************)
EXTENDS CatchStack, Hash, Sets, SequenceTheorems, FiniteSetTheorems, WellFoundedInduction, TLAPS

-----------------------------------------------------------------------------
(* The inductive invariant: the used part of catch_stack lists the protected *)
(* calls in the order of their depth.                                       *)

MainIsOutermost ==
  /\ calls # <<>> /\ calls[1].protected
  /\ \A d \in 1..Depth : calls[d].kind = "main" <=> d = 1

UsedTargets == 0..catch_stack_pos

TargetsOrdered ==
  /\ catch_stack_pos < max_catch_stack
  /\ catch_stack[0] = 1
  /\ \A p \in UsedTargets : catch_stack[p] \in 1..Depth /\ calls[catch_stack[p]].protected
  /\ \A p, q \in UsedTargets : p < q => catch_stack[p] < catch_stack[q]

EachHasTarget ==
  \A d \in 1..Depth : calls[d].protected => \E p \in UsedTargets : catch_stack[p] = d

CatchInv == TypeOK /\ Depth <= MaxCalls /\ MainIsOutermost /\ TargetsOrdered /\ EachHasTarget

-----------------------------------------------------------------------------

LEMMA CatchInvInit == Init => CatchInv
  BY BoundsAssumption
  DEF Init, CatchInv, TypeOK, Call, Kind, Stale, Depth, MainIsOutermost, UsedTargets, TargetsOrdered,
      EachHasTarget

LEMMA CatchTypes ==
  ASSUME CatchInv
  PROVE  /\ calls \in Seq(Call) /\ Depth \in Nat \ {0} /\ DOMAIN calls = 1..Depth
         /\ \A d \in 1..Depth : calls[d] \in Call
         /\ max_catch_stack \in Nat \ {0} /\ catch_stack_pos \in 0..max_catch_stack - 1
         /\ DOMAIN catch_stack = 0..max_catch_stack - 1
         /\ \A p \in DOMAIN catch_stack : catch_stack[p] \in 0..MaxCalls
         /\ UsedTargets \subseteq DOMAIN catch_stack
  BY EmptySeq DEF CatchInv, TypeOK, TargetsOrdered, MainIsOutermost, Depth, UsedTargets

\* The last used position has the target of the innermost protected call.
LEMMA InnermostIsTarget ==
  ASSUME CatchInv
  PROVE  /\ Target \in 1..Depth /\ calls[Target].protected
         /\ \A d \in 1..Depth : calls[d].protected => d <= Target
         /\ \A p \in UsedTargets : p # catch_stack_pos => catch_stack[p] < Target
         /\ Target # 1 => catch_stack_pos > 0
  <1>1. catch_stack_pos \in UsedTargets /\ UsedTargets \subseteq Nat
        /\ \A p \in UsedTargets : p <= catch_stack_pos
    BY CatchTypes DEF UsedTargets
  <1>2. Target \in 1..Depth /\ calls[Target].protected
    BY <1>1 DEF CatchInv, TargetsOrdered, Target
  <1>3. ASSUME NEW p \in UsedTargets, p # catch_stack_pos
        PROVE  catch_stack[p] < Target
    BY <1>1, <1>3 DEF CatchInv, TargetsOrdered, Target
  <1>4. ASSUME NEW d \in 1..Depth, calls[d].protected
        PROVE  d <= Target
    <2>1. PICK p \in UsedTargets : catch_stack[p] = d
      BY <1>4 DEF CatchInv, EachHasTarget
    <2> QED BY <2>1, <1>2, <1>3, CatchTypes DEF Target
  <1>5. Target # 1 => catch_stack_pos > 0
    BY CatchTypes DEF CatchInv, TargetsOrdered, Target
  <1> QED BY <1>2, <1>3, <1>4, <1>5

\* A protected function was entered, in a stack that has all targets of the old one.
LEMMA EnterKeeps ==
  ASSUME CatchInv, Depth < MaxCalls, NEW kind \in Kind, NEW stack,
         max_catch_stack' \in Nat \ {0}, max_catch_stack <= max_catch_stack',
         catch_stack_pos + 1 < max_catch_stack',
         stack \in [0..max_catch_stack' - 1 -> 0..MaxCalls],
         \A p \in 0..max_catch_stack - 1 : stack[p] = catch_stack[p],
         Enter(kind, catch_stack_pos + 1, stack)
  PROVE  CatchInv'
  <1>0. /\ calls \in Seq(Call) /\ Depth \in Nat \ {0} /\ DOMAIN calls = 1..Depth
        /\ \A d \in 1..Depth : calls[d] \in Call
        /\ catch_stack_pos \in 0..max_catch_stack - 1
        /\ MaxCalls \in Nat /\ max_catch_stack \in Nat
    BY CatchTypes, BoundsAssumption
  <1>1. /\ calls' = Append(calls, [kind |-> kind, protected |-> TRUE])
        /\ catch_stack_pos' = catch_stack_pos + 1
        /\ catch_stack' = [stack EXCEPT ![catch_stack_pos + 1] = Depth + 1]
    BY DEF Enter
  <1>2. /\ calls' \in Seq(Call) /\ Depth' = Depth + 1
        /\ \A d \in 1..Depth : calls'[d] = calls[d]
        /\ calls'[Depth + 1] = [kind |-> kind, protected |-> TRUE]
        /\ calls' # <<>>
    BY <1>0, <1>1 DEF Call, Kind, Depth
  <1>3. /\ catch_stack_pos \in Nat /\ UsedTargets = 0..catch_stack_pos
        /\ UsedTargets' = 0..catch_stack_pos + 1
        /\ \A p \in UsedTargets : catch_stack'[p] = catch_stack[p]
        /\ catch_stack'[catch_stack_pos + 1] = Depth + 1
    <2>1. /\ catch_stack_pos \in Nat /\ UsedTargets = 0..catch_stack_pos
          /\ UsedTargets' = 0..catch_stack_pos + 1
      BY <1>0, <1>1 DEF UsedTargets
    <2>2. catch_stack_pos + 1 \in 0..max_catch_stack' - 1 /\ Depth + 1 \in 0..MaxCalls
      BY <1>0, <2>1
    <2>3. catch_stack'[catch_stack_pos + 1] = Depth + 1
      BY <1>1, <2>2
    <2>4. ASSUME NEW p \in UsedTargets
          PROVE  catch_stack'[p] = catch_stack[p]
      <3>1. p \in 0..max_catch_stack - 1 /\ p \in 0..max_catch_stack' - 1 /\ p # catch_stack_pos + 1
        BY <1>0, <2>1
      <3> QED BY <1>1, <2>2, <3>1
    <2> QED BY <2>1, <2>3, <2>4
  <1>4. TypeOK' /\ (Depth <= MaxCalls)'
    <2>1. Depth + 1 \in 0..MaxCalls
      BY <1>0
    <2>2. catch_stack' \in [0..max_catch_stack' - 1 -> 0..MaxCalls]
      BY <1>1, <2>1
    <2>3. catch_stack_pos' \in Nat /\ Depth' <= MaxCalls
      BY <1>0, <1>1, <1>2, <2>1
    <2> QED BY <1>2, <2>2, <2>3 DEF TypeOK
  <1>5. MainIsOutermost'
    <2>1. \A d \in 1..Depth + 1 : calls'[d].kind = "main" <=> d = 1
      BY <1>0, <1>2, SMTT(30) DEF CatchInv, MainIsOutermost, Kind
    <2> QED BY <1>0, <1>2, <2>1 DEF CatchInv, MainIsOutermost
  <1>6. TargetsOrdered'
    <2>1. ASSUME NEW p \in UsedTargets'
          PROVE  catch_stack'[p] \in 1..Depth + 1 /\ calls'[catch_stack'[p]].protected
      <3>1. CASE p = catch_stack_pos + 1
        BY <3>1, <1>0, <1>2, <1>3
      <3>2. CASE p \in UsedTargets
        <4>1. catch_stack'[p] = catch_stack[p] /\ catch_stack[p] \in 1..Depth
              /\ calls[catch_stack[p]].protected
          BY <3>2, <1>3 DEF CatchInv, TargetsOrdered
        <4> QED BY <4>1, <1>0, <1>2
      <3> QED BY <3>1, <3>2, <1>3
    <2>2. \A p, q \in UsedTargets' : p < q => catch_stack'[p] < catch_stack'[q]
      BY <1>0, <1>3, SMTT(30) DEF CatchInv, TargetsOrdered
    <2>3. catch_stack'[0] = 1
      BY <1>3 DEF CatchInv, TargetsOrdered
    <2> QED BY <1>0, <1>1, <1>2, <2>1, <2>2, <2>3 DEF TargetsOrdered
  <1>7. EachHasTarget'
    <2>1. ASSUME NEW d \in 1..Depth + 1, calls'[d].protected
          PROVE  \E p \in UsedTargets' : catch_stack'[p] = d
      <3>1. CASE d = Depth + 1
        BY <3>1, <1>3
      <3>2. CASE d \in 1..Depth
        <4>1. PICK p \in UsedTargets : catch_stack[p] = d
          BY <2>1, <3>2, <1>2 DEF CatchInv, EachHasTarget
        <4> QED BY <4>1, <1>3
      <3> QED BY <3>1, <3>2, <1>0
    <2> QED BY <2>1, <1>2 DEF EachHasTarget
  <1> QED BY <1>4, <1>5, <1>6, <1>7 DEF CatchInv

-----------------------------------------------------------------------------

\* Functions return or are left by a longjmp, or a block comes to its handler: the lowest n
\* calls remain, and the catch stack keeps the targets up to a position of those that are
\* still protected.
LEMMA LeaveKeeps ==
  ASSUME CatchInv, NEW n \in 1..Depth, NEW pos \in UsedTargets,
         calls' \in Seq(Call), Depth' = n, catch_stack_pos' = pos,
         max_catch_stack' = max_catch_stack, catch_stack' \in [0..max_catch_stack - 1 -> 0..MaxCalls],
         \A d \in 1..n : calls'[d].kind = calls[d].kind,
         \A d \in 1..n : calls'[d].protected => calls[d].protected /\ d <= catch_stack[pos],
         \A p \in 0..pos : /\ catch_stack'[p] = catch_stack[p] /\ catch_stack[p] <= n
                           /\ calls'[catch_stack[p]].protected
  PROVE  CatchInv'
  <1>1. /\ Depth \in Nat /\ MaxCalls \in Nat /\ max_catch_stack \in Nat \ {0}
        /\ catch_stack_pos \in 0..max_catch_stack - 1
        /\ UsedTargets = 0..catch_stack_pos /\ UsedTargets' = 0..pos
        /\ pos \in Nat /\ 0 \in 0..pos /\ 0..pos \subseteq UsedTargets
    BY CatchTypes, BoundsAssumption DEF UsedTargets
  <1>2. /\ catch_stack[0] = 1
        /\ \A p \in UsedTargets : catch_stack[p] \in 1..Depth
        /\ \A p, q \in UsedTargets : p < q => catch_stack[p] < catch_stack[q]
    BY DEF CatchInv, TargetsOrdered
  <1>3. TypeOK' /\ (Depth <= MaxCalls)'
    BY <1>1 DEF CatchInv, TypeOK
  <1>4. MainIsOutermost'
    <2>1. calls' # <<>> /\ calls'[1].protected
      <3>1. calls' # <<>>
        BY EmptySeq DEF Depth
      <3> QED BY <3>1, <1>1, <1>2
    <2>2. ASSUME NEW d \in 1..n
          PROVE  calls'[d].kind = "main" <=> d = 1
      <3>1. d \in 1..Depth /\ calls'[d].kind = calls[d].kind
        BY <1>1
      <3> QED BY <3>1 DEF CatchInv, MainIsOutermost
    <2> QED BY <2>1, <2>2 DEF MainIsOutermost
  <1>5. TargetsOrdered'
    <2>1. pos < max_catch_stack
      BY <1>1
    <2>2. ASSUME NEW p \in 0..pos
          PROVE  catch_stack'[p] \in 1..n /\ calls'[catch_stack'[p]].protected
      <3>1. catch_stack'[p] = catch_stack[p] /\ catch_stack[p] \in 1..Depth /\ catch_stack[p] <= n
        BY <1>1, <1>2
      <3>2. calls'[catch_stack[p]].protected
        OBVIOUS
      <3> QED BY <3>1, <3>2, <1>1
    <2>3. \A p, q \in 0..pos : p < q => catch_stack'[p] < catch_stack'[q]
      BY <1>1, <1>2
    <2> QED BY <1>1, <1>2, <2>1, <2>2, <2>3 DEF TargetsOrdered
  <1>6. EachHasTarget'
    <2>1. ASSUME NEW d \in 1..n, calls'[d].protected
          PROVE  \E p \in 0..pos : catch_stack'[p] = d
      <3>1. calls[d].protected /\ d <= catch_stack[pos] /\ d \in 1..Depth
        BY <2>1, <1>1
      <3>2. PICK p \in UsedTargets : catch_stack[p] = d
        BY <3>1 DEF CatchInv, EachHasTarget
      <3>3. p \in 0..pos
        BY <3>1, <3>2, <1>1, <1>2, SMTT(30)
      <3> QED BY <3>2, <3>3
    <2> QED BY <2>1, <1>1 DEF EachHasTarget
  <1> QED BY <1>3, <1>4, <1>5, <1>6 DEF CatchInv

\* Forgetting the calls from a depth on leaves the targets below it alone.
LEMMA ForgetTyped ==
  ASSUME CatchInv, NEW depth \in Nat
  PROVE  /\ Forget(depth) \in [0..max_catch_stack - 1 -> 0..MaxCalls]
         /\ \A p \in UsedTargets : catch_stack[p] < depth => Forget(depth)[p] = catch_stack[p]
  <1>1. /\ DOMAIN catch_stack = 0..max_catch_stack - 1 /\ UsedTargets \subseteq DOMAIN catch_stack
        /\ \A p \in DOMAIN catch_stack : catch_stack[p] \in 0..MaxCalls
        /\ MaxCalls \in Nat
    BY CatchTypes, BoundsAssumption
  <1>2. Stale \in 0..MaxCalls
    BY <1>1 DEF Stale
  <1>3. \A p \in DOMAIN catch_stack : catch_stack[p] < depth => ~(catch_stack[p] >= depth)
    BY <1>1
  <1> QED BY <1>1, <1>2, <1>3 DEF Forget

LEMMA LowestCalls ==
  ASSUME calls \in Seq(Call), NEW n \in 0..Depth
  PROVE  /\ SubSeq(calls, 1, n) \in Seq(Call) /\ Len(SubSeq(calls, 1, n)) = n
         /\ \A d \in 1..n : SubSeq(calls, 1, n)[d] = calls[d]
  <1>1. Depth \in Nat /\ n \in Int /\ 1..n \subseteq 1..Depth
    BY DEF Depth
  <1>2. \A d \in 1..n : calls[d] \in Call
    BY <1>1 DEF Depth
  <1>3. /\ SubSeq(calls, 1, n) \in Seq(Call)
        /\ Len(SubSeq(calls, 1, n)) = IF 1 <= n THEN n - 1 + 1 ELSE 0
        /\ \A d \in 1..n - 1 + 1 : SubSeq(calls, 1, n)[d] = calls[1 + d - 1]
    BY <1>1, <1>2, SubSeqProperties
  <1> QED BY <1>1, <1>3

\* The lowest calls, the last of which goes on with a handler.
Handling(n) == [SubSeq(calls, 1, n) EXCEPT ![n].protected = FALSE]

LEMMA LowestCallsHandle ==
  ASSUME calls \in Seq(Call), NEW n \in 1..Depth
  PROVE  /\ Handling(n) \in Seq(Call) /\ Len(Handling(n)) = n
         /\ \A d \in 1..n - 1 : Handling(n)[d] = calls[d]
         /\ Handling(n)[n].kind = calls[n].kind /\ ~Handling(n)[n].protected
  <1> DEFINE kept == Handling(n)
             lowest == SubSeq(calls, 1, n)
             handling == [calls[n] EXCEPT !.protected = FALSE]
  <1>1. lowest \in Seq(Call) /\ Len(lowest) = n /\ \A d \in 1..n : lowest[d] = calls[d]
    BY LowestCalls DEF Depth
  <1>2. n \in 1..n /\ n \in Nat /\ calls[n] \in Call
    BY DEF Depth
  <1>3. handling \in Call /\ handling.kind = calls[n].kind /\ ~handling.protected
    BY <1>2 DEF Call
  <1>4. lowest[n] = calls[n]
    BY <1>1, <1>2
  <1>5. kept = [lowest EXCEPT ![n] = handling]
    BY <1>4 DEF Handling
  <1> HIDE DEF lowest, handling, kept
  <1>6. /\ [lowest EXCEPT ![n] = handling] \in Seq(Call)
        /\ Len([lowest EXCEPT ![n] = handling]) = Len(lowest)
        /\ \A d \in 1..Len(lowest) :
             [lowest EXCEPT ![n] = handling][d] = IF d = n THEN handling ELSE lowest[d]
    BY <1>1, <1>2, <1>3, ExceptSeq
  <1>7. kept[n] = handling
    BY <1>1, <1>2, <1>5, <1>6
  <1>8. ASSUME NEW d \in 1..n - 1
        PROVE  kept[d] = calls[d]
    <2>1. d \in 1..n /\ d # n
      BY <1>2
    <2> QED BY <2>1, <1>1, <1>5, <1>6
  <1> QED BY <1>1, <1>3, <1>5, <1>6, <1>7, <1>8 DEF kept

\* The call at depth t of the innermost target, and all calls above it, are left: it returns
\* or (a block) executes a handler.
LEMMA TargetLeft ==
  ASSUME CatchInv, NEW t, t = Target, t # 1,
         catch_stack_pos' = catch_stack_pos - 1, max_catch_stack' = max_catch_stack,
         catch_stack' \in [0..max_catch_stack - 1 -> 0..MaxCalls],
         \A p \in UsedTargets : catch_stack[p] < t => catch_stack'[p] = catch_stack[p],
         \/ calls' = SubSeq(calls, 1, t - 1)
         \/ calls' = Handling(t)
  PROVE  CatchInv'
  <1>1. /\ calls \in Seq(Call) /\ Depth \in Nat \ {0} /\ DOMAIN calls = 1..Depth
        /\ \A d \in 1..Depth : calls[d] \in Call
        /\ max_catch_stack \in Nat \ {0} /\ catch_stack_pos \in 0..max_catch_stack - 1
        /\ UsedTargets = 0..catch_stack_pos
    BY CatchTypes DEF UsedTargets
  <1>2. /\ t \in 2..Depth /\ catch_stack_pos > 0
        /\ \A d \in 1..Depth : calls[d].protected => d <= t
        /\ \A p \in UsedTargets : p # catch_stack_pos => catch_stack[p] < t
    BY InnermostIsTarget, <1>1
  <1> DEFINE pos == catch_stack_pos - 1
  <1>3. /\ pos \in UsedTargets /\ 0..pos \subseteq UsedTargets /\ pos # catch_stack_pos
        /\ \A p \in 0..pos : p # catch_stack_pos
    BY <1>1, <1>2
  <1>4. \A p \in UsedTargets : catch_stack[p] \in 1..Depth /\ calls[catch_stack[p]].protected
    BY DEF CatchInv, TargetsOrdered
  <1>5. \A p \in 0..pos : catch_stack'[p] = catch_stack[p] /\ catch_stack[p] \in 1..t - 1
    BY <1>1, <1>2, <1>3, <1>4
  <1>6. PICK n \in 1..Depth : /\ n \in {t - 1, t} /\ calls' \in Seq(Call) /\ Depth' = n
                              /\ \A d \in 1..n : calls'[d].kind = calls[d].kind
                              /\ \A d \in 1..n : d < t => calls'[d] = calls[d]
                              /\ t \in 1..n => ~calls'[t].protected
    <2>1. CASE calls' = SubSeq(calls, 1, t - 1)
      <3>1. /\ calls' \in Seq(Call) /\ Depth' = t - 1 /\ t - 1 \in 1..Depth
            /\ \A d \in 1..t - 1 : calls'[d] = calls[d]
        BY <2>1, <1>1, <1>2, LowestCalls DEF Depth
      <3>2. t \notin 1..t - 1
        BY <1>2
      <3> QED BY <3>1, <3>2
    <2>2. CASE calls' = Handling(t)
      <3>1. /\ calls' \in Seq(Call) /\ Depth' = t /\ t \in 1..Depth
            /\ \A d \in 1..t - 1 : calls'[d] = calls[d]
            /\ calls'[t].kind = calls[t].kind /\ ~calls'[t].protected
        <4>1. t \in 1..Depth
          BY <1>1, <1>2
        <4>2. /\ calls' \in Seq(Call) /\ Len(calls') = t
              /\ \A d \in 1..t - 1 : calls'[d] = calls[d]
              /\ calls'[t].kind = calls[t].kind /\ ~calls'[t].protected
          BY <2>2, <4>1, <1>1, LowestCallsHandle
        <4> QED BY <4>1, <4>2 DEF Depth
      <3>2. ASSUME NEW d \in 1..t
            PROVE  /\ calls'[d].kind = calls[d].kind
                   /\ d < t => calls'[d] = calls[d]
        <4>1. d = t \/ d \in 1..t - 1
          BY <1>2
        <4> QED BY <3>1, <4>1
      <3> QED BY <3>1, <3>2
    <2> QED BY <2>1, <2>2
  <1>7. \A d \in 1..n : calls'[d].protected => calls[d].protected /\ d <= catch_stack[pos]
    <2>1. SUFFICES ASSUME NEW d \in 1..n, calls'[d].protected
                   PROVE  calls[d].protected /\ d <= catch_stack[pos]
      OBVIOUS
    <2>2. d # t /\ d < t /\ calls[d].protected /\ d \in 1..Depth
      BY <2>1, <1>1, <1>2, <1>6
    <2>3. PICK p \in UsedTargets : catch_stack[p] = d
      BY <2>2 DEF CatchInv, EachHasTarget
    <2>4. p # catch_stack_pos
      BY <2>2, <2>3 DEF Target
    <2>5. p = pos \/ p < pos
      BY <2>4, <1>1, <1>2
    <2>6. catch_stack[p] <= catch_stack[pos]
      BY <2>5, <1>3, <1>5, <1>4, <1>1, <1>2 DEF CatchInv, TargetsOrdered
    <2> QED BY <2>2, <2>3, <2>6
  <1>8. \A p \in 0..pos : catch_stack[p] <= n /\ calls'[catch_stack[p]].protected
    BY <1>2, <1>3, <1>4, <1>5, <1>6
  <1> HIDE DEF pos
  <1> QED BY <1>3, <1>5, <1>6, <1>7, <1>8, LeaveKeeps DEF pos
-----------------------------------------------------------------------------

LEMMA EnterInSpaceKeeps ==
  ASSUME CatchInv, NEW kind \in Kind, EnterInSpace(kind)
  PROVE  CatchInv'
  <1>1. /\ max_catch_stack' = max_catch_stack /\ Depth < MaxCalls
        /\ catch_stack_pos + 1 < max_catch_stack
        /\ Enter(kind, catch_stack_pos + 1, catch_stack)
    BY DEF EnterInSpace
  <1>2. max_catch_stack \in Nat \ {0} /\ catch_stack \in [0..max_catch_stack - 1 -> 0..MaxCalls]
    BY DEF CatchInv, TypeOK
  <1> QED BY <1>1, <1>2, EnterKeeps

LEMMA EnterAfterResizeKeeps ==
  ASSUME CatchInv, NEW kind \in Kind, EnterAfterResize(kind)
  PROVE  CatchInv'
  <1> DEFINE stack == [p \in 0..2 * max_catch_stack - 1 |->
                         IF p < max_catch_stack THEN catch_stack[p] ELSE Stale]
  <1>1. /\ max_catch_stack' = 2 * max_catch_stack /\ Depth < MaxCalls
        /\ Enter(kind, catch_stack_pos + 1, stack)
    BY DEF EnterAfterResize
  <1>2. /\ max_catch_stack \in Nat \ {0} /\ catch_stack_pos \in 0..max_catch_stack - 1
        /\ MaxCalls \in Nat
        /\ \A p \in 0..max_catch_stack - 1 : catch_stack[p] \in 0..MaxCalls
    BY CatchTypes, BoundsAssumption
  <1>3. /\ max_catch_stack' \in Nat \ {0} /\ max_catch_stack <= max_catch_stack'
        /\ catch_stack_pos + 1 < max_catch_stack'
    BY <1>1, <1>2
  <1>4. \A p \in 0..max_catch_stack - 1 : stack[p] = catch_stack[p]
    BY <1>2
  <1>5. stack \in [0..max_catch_stack' - 1 -> 0..MaxCalls]
    <2>1. ASSUME NEW p \in 0..2 * max_catch_stack - 1
          PROVE  (IF p < max_catch_stack THEN catch_stack[p] ELSE Stale) \in 0..MaxCalls
      BY <1>2 DEF Stale
    <2> QED BY <1>1, <2>1
  <1> HIDE DEF stack
  <1> QED BY <1>1, <1>3, <1>4, <1>5, EnterKeeps

\* A failed resize in interpret or in a block leaves the catch stack as it was.
LEMMA EnterFailsKeeps ==
  ASSUME CatchInv, NEW kind \in Kind, kind # "analyze", EnterFails(kind)
  PROVE  CatchInv'
  <1>1. catch_stack_pos \in Nat
    BY DEF CatchInv, TypeOK
  <1>2. catch_stack_pos' = catch_stack_pos /\ UNCHANGED <<calls, catch_stack, max_catch_stack>>
    BY <1>1 DEF EnterFails, PosAfterFailedEnter, PosAfterFailedResize
  <1> QED BY <1>2 DEF CatchInv, TypeOK, MainIsOutermost, TargetsOrdered, EachHasTarget, UsedTargets, Depth

LEMMA EndProtectedKeeps ==
  ASSUME CatchInv, EndProtected
  PROVE  CatchInv'
  <1>1. Depth \in Nat \ {0, 1} /\ Target = Depth /\ calls \in Seq(Call)
    <2>1. Depth \in Nat \ {0, 1} /\ Depth \in 1..Depth /\ calls[Depth].protected /\ calls \in Seq(Call)
      BY CatchTypes DEF EndProtected, Top
    <2> QED BY <2>1, InnermostIsTarget
  <1>2. catch_stack_pos' = catch_stack_pos - 1 /\ max_catch_stack' = max_catch_stack
    BY DEF EndProtected, PosAfterEvaluation
  <1>3. CASE calls' = SubSeq(calls, 1, Depth - 1) /\ catch_stack' = Forget(Depth)
    BY <1>1, <1>2, <1>3, ForgetTyped, TargetLeft
  <1>4. CASE calls' = [calls EXCEPT ![Depth].protected = FALSE] /\ catch_stack' = catch_stack
    <2>1. SubSeq(calls, 1, Depth) = calls
      BY <1>1, SubSeqFull DEF Depth
    <2>2. calls' = Handling(Depth)
      BY <1>4, <2>1 DEF Handling
    <2>3. catch_stack' \in [0..max_catch_stack - 1 -> 0..MaxCalls]
      BY <1>4 DEF CatchInv, TypeOK
    <2> QED BY <1>1, <1>2, <1>4, <2>2, <2>3, TargetLeft
  <1> QED BY <1>3, <1>4 DEF EndProtected

LEMMA HandlerEndsKeeps ==
  ASSUME CatchInv, HandlerEnds
  PROVE  CatchInv'
  <1>1. /\ Depth > 1 /\ ~calls[Depth].protected
        /\ calls' = SubSeq(calls, 1, Depth - 1) /\ catch_stack' = Forget(Depth)
        /\ catch_stack_pos' = catch_stack_pos /\ max_catch_stack' = max_catch_stack
    BY DEF HandlerEnds, Top
  <1>2. /\ Depth \in Nat /\ Depth - 1 \in 1..Depth /\ calls \in Seq(Call)
        /\ catch_stack_pos \in UsedTargets /\ UsedTargets = 0..catch_stack_pos
    BY <1>1, CatchTypes DEF UsedTargets
  <1>3. /\ calls' \in Seq(Call) /\ Depth' = Depth - 1
        /\ \A d \in 1..Depth - 1 : calls'[d] = calls[d]
    BY <1>1, <1>2, LowestCalls DEF Depth
  <1>4. \A p \in UsedTargets : catch_stack[p] \in 1..Depth /\ calls[catch_stack[p]].protected
    BY DEF CatchInv, TargetsOrdered
  <1>5. \A p \in UsedTargets : catch_stack[p] \in 1..Depth - 1 /\ catch_stack[p] < Depth
    BY <1>1, <1>2, <1>4
  <1>6. /\ catch_stack' \in [0..max_catch_stack - 1 -> 0..MaxCalls]
        /\ \A p \in UsedTargets : catch_stack'[p] = catch_stack[p]
    BY <1>1, <1>2, <1>5, ForgetTyped
  <1>7. ASSUME NEW d \in 1..Depth - 1, calls'[d].protected
        PROVE  calls[d].protected /\ d <= catch_stack[catch_stack_pos]
    <2>1. d \in 1..Depth /\ calls[d].protected
      BY <1>2, <1>3, <1>7
    <2> QED BY <2>1, InnermostIsTarget DEF Target
  <1>8. \A p \in 0..catch_stack_pos : /\ catch_stack'[p] = catch_stack[p]
                                       /\ catch_stack[p] <= Depth - 1
                                       /\ calls'[catch_stack[p]].protected
    BY <1>2, <1>3, <1>4, <1>5, <1>6
  <1>9. \A d \in 1..Depth - 1 : calls'[d].kind = calls[d].kind
    BY <1>3
  <1> QED BY <1>1, <1>2, <1>3, <1>6, <1>7, <1>8, <1>9, LeaveKeeps

LEMMA NoMemoryKeeps ==
  ASSUME CatchInv, NoMemory
  PROVE  CatchInv'
  <1>1. Target \in 1..Depth /\ Target \in Nat /\ Depth \in Nat
    BY CatchTypes, InnermostIsTarget
  <1>2. Target # 1
    BY <1>1 DEF NoMemory, CatchInv, MainIsOutermost
  <1>3. catch_stack_pos' = catch_stack_pos - 1 /\ max_catch_stack' = max_catch_stack
    BY DEF NoMemory, PosAfterEvaluation
  <1>4. CASE calls' = SubSeq(calls, 1, Target - 1) /\ catch_stack' = Forget(Target)
    BY <1>1, <1>2, <1>3, <1>4, ForgetTyped, TargetLeft
  <1>5. CASE calls' = Handling(Target) /\ catch_stack' = Forget(Target + 1)
    <2>1. Target + 1 \in Nat
      BY <1>1
    <2>2. \A p \in UsedTargets : catch_stack[p] < Target => catch_stack[p] < Target + 1
      BY <1>1 DEF CatchInv, TargetsOrdered
    <2> QED BY <1>2, <1>3, <1>5, <2>1, <2>2, ForgetTyped, TargetLeft
  <1> QED BY <1>4, <1>5 DEF NoMemory, Handling

LEMMA CatchInvStep ==
  ASSUME "analyze" \notin ResizeFailsIn, CatchInv, [Next]_vars
  PROVE  CatchInv'
  <1>1. ASSUME NEW kind \in Kind, EnterInSpace(kind) PROVE CatchInv'
    BY <1>1, EnterInSpaceKeeps
  <1>2. ASSUME NEW kind \in Kind, EnterAfterResize(kind) PROVE CatchInv'
    BY <1>2, EnterAfterResizeKeeps
  <1>3. ASSUME NEW kind \in Kind, EnterFails(kind) PROVE CatchInv'
    BY <1>3, EnterFailsKeeps DEF EnterFails
  <1>4. CASE EndProtected
    BY <1>4, EndProtectedKeeps
  <1>5. CASE HandlerEnds
    BY <1>5, HandlerEndsKeeps
  <1>6. CASE NoMemory
    BY <1>6, NoMemoryKeeps
  <1>7. CASE UNCHANGED vars
    BY <1>7 DEF vars, CatchInv, TypeOK, MainIsOutermost, TargetsOrdered, EachHasTarget, UsedTargets, Depth
  <1> QED BY <1>1, <1>2, <1>3, <1>4, <1>5, <1>6, <1>7 DEF Next

-----------------------------------------------------------------------------

\* The catch stack keeps its types and positions (setjmp and the resizing in heaputl.c,
\* execl.c and prclib.c).
THEOREM CatchStackTyped ==
  ASSUME "analyze" \notin ResizeFailsIn
  PROVE  Spec => []TypeOK
  <1>1. CatchInv => TypeOK
    BY DEF CatchInv
  <1> QED BY <1>1, CatchInvInit, CatchInvStep, PTL DEF Spec

\* no_memory jumps into a function that has not returned, that executes its protected part,
\* and that is the innermost such function.
THEOREM LongjmpTargetIsInnermost ==
  ASSUME "analyze" \notin ResizeFailsIn
  PROVE  Spec => []TargetIsInnermost
  <1>1. CatchInv => TargetIsInnermost
    BY InnermostIsTarget, CatchTypes DEF TargetIsInnermost
  <1> QED BY <1>1, CatchInvInit, CatchInvStep, PTL DEF Spec

\* A longjmp never skips a block that would have handled MEMORY_ERROR.
THEOREM LongjmpReachesInnermost ==
  ASSUME "analyze" \notin ResizeFailsIn
  PROVE  Spec => InnermostReceives
  <1> DEFINE Skips == Len(calls') < Depth - 1
             OnlyHandlers == \A d \in Len(calls') + 2..Depth : ~calls[d].protected
  <1>1. ASSUME CatchInv, [Next]_vars, Skips
        PROVE  OnlyHandlers
    <2>1. Depth \in Nat /\ calls \in Seq(Call) /\ Target \in 1..Depth
          /\ \A d \in 1..Depth : calls[d].protected => d <= Target
      BY <1>1, CatchTypes, InnermostIsTarget
    <2>2. ASSUME NEW kind \in Kind, EnterInSpace(kind) \/ EnterAfterResize(kind)
          PROVE  FALSE
      BY <1>1, <2>1, <2>2 DEF EnterInSpace, EnterAfterResize, Enter, Depth
    <2>3. ASSUME NEW kind \in Kind, EnterFails(kind)
          PROVE  FALSE
      BY <1>1, <2>1, <2>3 DEF EnterFails, Depth
    <2>4. CASE EndProtected
      BY <1>1, <2>1, <2>4, LowestCalls DEF EndProtected, Depth
    <2>5. CASE HandlerEnds
      BY <1>1, <2>1, <2>5, LowestCalls DEF HandlerEnds, Depth
    <2>6. CASE NoMemory
      <3>1. Len(calls') >= Target - 1
        BY <1>1, <2>1, <2>6, LowestCalls, LowestCallsHandle DEF NoMemory, Handling
      <3>2. Len(calls') \in Nat
        BY <1>1, CatchTypes, CatchInvStep DEF Depth
      <3> QED BY <2>1, <3>1, <3>2
    <2>7. CASE UNCHANGED vars
      BY <1>1, <2>1, <2>7 DEF vars, Depth
    <2> QED BY <1>1, <2>2, <2>3, <2>4, <2>5, <2>6, <2>7 DEF Next
  <1>2. CatchInv /\ [Next]_vars => [Skips => OnlyHandlers]_vars
    BY <1>1
  <1> QED BY <1>2, CatchInvInit, CatchInvStep, PTL DEF Spec, InnermostReceives

---------------------------------------------------------------------------
(* Induction over the natural numbers and recursive functions, for sets and *)
(* functions.                                                               *)

LEMMA Least ==
  ASSUME NEW T \in SUBSET Nat, T # {}
  PROVE  \E n \in T : \A m \in T : n <= m
  <1> DEFINE R == {r \in Nat \X Nat : r[1] < r[2]}
  <1>1. IsWellFoundedOn(R, Nat)
    BY NatLessThanWellFounded DEF OpToRel
  <1> HIDE DEF R
  <1>2. PICK n \in T : \A m \in T : ~(<<m, n>> \in R)
    BY <1>1, WFMin
  <1>3. ASSUME NEW m \in T
        PROVE  n <= m
    <2>1. <<m, n>> \in Nat \X Nat /\ <<m, n>>[1] = m /\ <<m, n>>[2] = n
      OBVIOUS
    <2>2. ~(m < n)
      BY <1>2, <2>1 DEF R
    <2> QED BY <2>2
  <1> QED BY <1>3

\* A set of natural numbers that has 0, and with a number the next one.
LEMMA AllNaturals ==
  ASSUME NEW P \in SUBSET Nat, 0 \in P, \A n \in P : n + 1 \in P
  PROVE  P = Nat
  <1> SUFFICES ASSUME Nat \ P # {} PROVE FALSE
    OBVIOUS
  <1>1. PICK n \in Nat \ P : \A m \in Nat \ P : n <= m
    <2>1. Nat \ P \in SUBSET Nat
      OBVIOUS
    <2> QED BY <2>1, Least
  <1>2. n - 1 \in Nat /\ n - 1 \in P
    BY <1>1
  <1>3. (n - 1) + 1 \in P
    BY <1>2
  <1> QED BY <1>1, <1>3

\* The value that G gives for an argument depends on the values for arguments of
\* a lower rank.
Decreases(D, E, G, rank) ==
    /\ G \in [D \X [D -> E] -> E] /\ rank \in [D -> Nat] /\ E # {}
    /\ \A d \in D, g, h \in [D -> E] :
          (\A c \in D : rank[c] < rank[d] => g[c] = h[c]) => G[<<d, g>>] = G[<<d, h>>]
Recursive(D, E, G, g) == g \in [D -> E] /\ \A d \in D : g[d] = G[<<d, g>>]

LEMMA RecursionEnds ==
  ASSUME NEW D, NEW E, NEW G, NEW rank, Decreases(D, E, G, rank)
  PROVE  \E g : Recursive(D, E, G, g)
  <1>01. G \in [D \X [D -> E] -> E] /\ rank \in [D -> Nat]
    BY DEF Decreases
  <1>02. PICK e0 \in E : TRUE
    BY DEF Decreases
  <1> USE <1>01
  <1> DEFINE Upto(n) == {d \in D : rank[d] < n}
             Good(g, d) == g[d] = G[<<d, g>>]
             P == {n \in Nat : \E g \in [D -> E] : \A d \in Upto(n) : Good(g, d)}
  <1>0. ASSUME NEW d \in D, NEW g \in [D -> E], NEW h \in [D -> E],
               \A c \in D : rank[c] < rank[d] => g[c] = h[c]
        PROVE  G[<<d, g>>] = G[<<d, h>>]
    BY <1>0 DEF Decreases
  <1>1. 0 \in P
    <2>1. Upto(0) = {}
      OBVIOUS
    <2>2. [d \in D |-> e0] \in [D -> E]
      OBVIOUS
    <2> QED BY <2>1, <2>2
  <1>2. ASSUME NEW n \in P
        PROVE  n + 1 \in P
    <2>0. n \in Nat
      OBVIOUS
    <2>1. PICK g \in [D -> E] : \A d \in Upto(n) : Good(g, d)
      OBVIOUS
    <2> HIDE DEF P
    <2> DEFINE h == [d \in D |-> IF rank[d] = n THEN G[<<d, g>>] ELSE g[d]]
    <2>2. h \in [D -> E]
      OBVIOUS
    <2>3. \A d \in D : h[d] = IF rank[d] = n THEN G[<<d, g>>] ELSE g[d]
      OBVIOUS
    <2> HIDE DEF h
    <2>4. ASSUME NEW d \in Upto(n + 1)
          PROVE  Good(h, d)
      <3>1. d \in D /\ rank[d] \in Nat /\ rank[d] <= n
        BY <2>0
      <3>2. ASSUME NEW c \in D, rank[c] < rank[d]
            PROVE  g[c] = h[c]
        <4>1. rank[c] \in Nat /\ rank[c] # n
          BY <2>0, <3>1, <3>2
        <4> QED BY <2>3, <4>1
      <3>3. G[<<d, g>>] = G[<<d, h>>]
        BY <1>0, <2>2, <3>1, <3>2
      <3>4. CASE rank[d] = n
        BY <2>3, <3>1, <3>3, <3>4
      <3>5. CASE rank[d] # n
        <4>0. rank[d] < n
          BY <2>0, <3>1, <3>5, SMTT(30)
        <4>1. d \in Upto(n)
          BY <3>1, <4>0
        <4>2. Good(g, d)
          BY <2>1, <4>1
        <4> QED BY <2>3, <3>1, <3>3, <3>5, <4>2
      <3> QED BY <3>4, <3>5
    <2> QED BY <2>0, <2>2, <2>4 DEF P
  <1>3. P = Nat
    <2> HIDE DEF P
    <2>1. P \in SUBSET Nat
      BY DEF P
    <2> QED BY <1>1, <1>2, <2>1, AllNaturals
  <1> DEFINE F == [n \in Nat |-> CHOOSE g \in [D -> E] : \A d \in Upto(n) : Good(g, d)]
  <1>4. ASSUME NEW n \in Nat
        PROVE  F[n] \in [D -> E] /\ \A d \in Upto(n) : Good(F[n], d)
    BY <1>3
  <1> DEFINE h == [d \in D |-> F[rank[d] + 1][d]]
  <1> HIDE DEF F
  <1>5. h \in [D -> E]
    BY <1>4
  \* The functions for different numbers agree where they are defined.
  <1> DEFINE Q == {q \in Nat : \A d \in D : rank[d] = q => \A m, n \in Nat : q < m /\ q < n => F[m][d] = F[n][d]}
  <1>6. ASSUME NEW q \in Nat, \A p \in Nat : p < q => p \in Q
        PROVE  q \in Q
    <2> SUFFICES ASSUME NEW d \in D, rank[d] = q, NEW m \in Nat, NEW n \in Nat, q < m, q < n
                 PROVE  F[m][d] = F[n][d]
      OBVIOUS
    <2>1. Good(F[m], d) /\ Good(F[n], d)
      BY <1>4
    <2>2. \A c \in D : rank[c] < rank[d] => F[m][c] = F[n][c]
      BY <1>6
    <2>3. G[<<d, F[m]>>] = G[<<d, F[n]>>]
      BY <1>0, <1>4, <2>2
    <2> QED BY <2>1, <2>3
  <1>7. Q = Nat
    <2> SUFFICES ASSUME Nat \ Q # {} PROVE FALSE
      OBVIOUS
    <2> HIDE DEF Q
    <2>1. PICK q \in Nat \ Q : \A p \in Nat \ Q : q <= p
      <3>1. Nat \ Q \in SUBSET Nat
        OBVIOUS
      <3> QED BY <3>1, Least
    <2>2. \A p \in Nat : p < q => p \in Q
      BY <2>1
    <2> QED BY <1>6, <2>1, <2>2
  <1>8. ASSUME NEW d \in D
        PROVE  Good(h, d)
    <2>0. rank[d] + 1 \in Nat /\ d \in Upto(rank[d] + 1)
      OBVIOUS
    <2>1. Good(F[rank[d] + 1], d) /\ h[d] = F[rank[d] + 1][d] /\ F[rank[d] + 1] \in [D -> E]
      BY <1>4, <2>0
    <2>2. ASSUME NEW c \in D, rank[c] < rank[d]
          PROVE  F[rank[d] + 1][c] = h[c]
      <3>1. rank[c] \in Nat /\ rank[d] \in Nat /\ rank[c] < rank[d] + 1 /\ rank[c] < rank[c] + 1
        BY <2>2
      <3>2. c \in D /\ rank[c] \in Q
        BY <1>7, <3>1
      <3> QED BY <3>1, <3>2
    <2>3. G[<<d, F[rank[d] + 1]>>] = G[<<d, h>>]
      BY <1>0, <1>5, <2>1, <2>2
    <2> QED BY <2>1, <2>3
  <1> HIDE DEF h
  <1> QED BY <1>5, <1>8 DEF Recursive

---------------------------------------------------------------------------
(* The elements of a map as pointers between slots.                         *)

Entry(b) == <<"table", b>>
LessOf(e) == <<"less", e>>
GreaterOf(e) == <<"greater", e>>

Pointers == [Slot -> HashKey \cup {NONE}]

Present(a) == {e \in HashKey : \E s \in Slot : a[s] = e}

\* Where a search for x that has come to slot s goes on.
GoesOn(a, x, s) == a[s] # NONE /\ a[s] # x
NextSlot(a, x, s) == IF a[s] < x THEN LessOf(a[s]) ELSE GreaterOf(a[s])

\* The slots that a search for x comes to, those that are reached from slot s,
\* and those that are reached over the pointers next_greater alone.
PathClosed(a, x, X) == /\ Entry(hashCode(x)) \in X
                       /\ \A s \in X : GoesOn(a, x, s) => NextSlot(a, x, s) \in X
Path(a, x) == {s \in Slot : \A X \in SUBSET Slot : PathClosed(a, x, X) => s \in X}

BelowClosed(a, t, X) == /\ t \in X
                        /\ \A s \in X : a[s] # NONE => LessOf(a[s]) \in X /\ GreaterOf(a[s]) \in X
Below(a, t) == {s \in Slot : \A X \in SUBSET Slot : BelowClosed(a, t, X) => s \in X}

SpineClosed(a, t, X) == t \in X /\ \A s \in X : a[s] # NONE => GreaterOf(a[s]) \in X
Spine(a, t) == {s \in Slot : \A X \in SUBSET Slot : SpineClosed(a, t, X) => s \in X}

\* A rank of the slots that decreases from an element to the next ones.
Ranks(a, r) == \A s \in Slot : a[s] # NONE => r[LessOf(a[s])] < r[s] /\ r[GreaterOf(a[s])] < r[s]

\* The inductive invariant of the pointers.  A search for an element comes to the
\* slot that refers to it.
Trees(a) ==
    /\ a \in Pointers
    /\ \A s, t \in Slot : a[s] = a[t] /\ a[s] # NONE => s = t
    /\ \A e \in HashKey \ Present(a) : a[LessOf(e)] = NONE /\ a[GreaterOf(e)] = NONE
    /\ \A s \in Slot : a[s] # NONE => s \in Path(a, a[s])
    /\ \E r \in [Slot -> Nat] : Ranks(a, r)

LEMMA Slots ==
  /\ \A b \in 1 .. Bucket : Entry(b) \in Slot
  /\ \A e \in HashKey : LessOf(e) \in Slot /\ GreaterOf(e) \in Slot
  /\ \A e, f : LessOf(e) # GreaterOf(f) /\ Entry(e) # LessOf(f) /\ Entry(e) # GreaterOf(f)
  /\ \A e, f : LessOf(e) = LessOf(f) \/ GreaterOf(e) = GreaterOf(f) \/ Entry(e) = Entry(f) => e = f
  <1> QED BY DEF Slot, Entry, LessOf, GreaterOf

LEMMA SlotKinds ==
  ASSUME NEW s \in Slot
  PROVE  \/ \E b \in 1 .. Bucket : s = Entry(b)
         \/ \E e \in HashKey : s = LessOf(e) \/ s = GreaterOf(e)
  <1> QED BY DEF Slot, Entry, LessOf, GreaterOf

LEMMA Keys == HashKey \subseteq Nat /\ NONE \notin HashKey /\ \A x \in HashKey : hashCode(x) \in 1 .. Bucket
  <1> QED BY HashAssumption

LEMMA NextIsSlot ==
  ASSUME NEW a \in Pointers, NEW x \in HashKey, NEW s \in Slot, GoesOn(a, x, s)
  PROVE  /\ a[s] \in HashKey /\ NextSlot(a, x, s) \in Slot
         /\ NextSlot(a, x, s) \in {LessOf(a[s]), GreaterOf(a[s])}
         /\ (NextSlot(a, x, s) = LessOf(a[s]) => a[s] < x)
         /\ (NextSlot(a, x, s) = GreaterOf(a[s]) => x < a[s])
  <1>1. a[s] \in HashKey /\ a[s] # x
    BY DEF Pointers, GoesOn
  <1>2. a[s] \in Nat /\ x \in Nat
    BY <1>1, Keys
  <1>3. a[s] < x \/ x < a[s]
    BY <1>1, <1>2
  <1>4. ~(a[s] < x /\ x < a[s])
    BY <1>2
  <1> QED BY <1>1, <1>3, <1>4, Slots DEF NextSlot

---------------------------------------------------------------------------
(* The sets of slots.                                                       *)

LEMMA PathFacts ==
  ASSUME NEW a \in Pointers, NEW x \in HashKey
  PROVE  /\ Path(a, x) \in SUBSET Slot /\ PathClosed(a, x, Path(a, x))
         /\ \A X \in SUBSET Slot : PathClosed(a, x, X) => Path(a, x) \subseteq X
         /\ \A t \in Path(a, x) : t = Entry(hashCode(x)) \/ \E s \in Path(a, x) : GoesOn(a, x, s) /\ t = NextSlot(a, x, s)
  <1>1. Path(a, x) \in SUBSET Slot /\ \A X \in SUBSET Slot : PathClosed(a, x, X) => Path(a, x) \subseteq X
    BY DEF Path
  <1>2. Entry(hashCode(x)) \in Path(a, x)
    BY Keys, Slots DEF Path, PathClosed
  <1>3. ASSUME NEW s \in Path(a, x), GoesOn(a, x, s)
        PROVE  NextSlot(a, x, s) \in Path(a, x)
    <2>1. NextSlot(a, x, s) \in Slot
      BY <1>1, <1>3, NextIsSlot
    <2>2. ASSUME NEW X \in SUBSET Slot, PathClosed(a, x, X)
          PROVE  NextSlot(a, x, s) \in X
      <3>1. s \in X
        BY <1>1, <2>2
      <3> QED BY <1>3, <2>2, <3>1 DEF PathClosed
    <2> QED BY <2>1, <2>2 DEF Path
  <1>4. PathClosed(a, x, Path(a, x))
    BY <1>2, <1>3 DEF PathClosed
  <1>5. ASSUME NEW t \in Path(a, x), t # Entry(hashCode(x)),
               \A s \in Path(a, x) : ~(GoesOn(a, x, s) /\ t = NextSlot(a, x, s))
        PROVE  FALSE
    <2>1. PathClosed(a, x, Path(a, x) \ {t})
      BY <1>4, <1>5 DEF PathClosed
    <2>2. Path(a, x) \ {t} \in SUBSET Slot
      BY <1>1
    <2>3. Path(a, x) \subseteq Path(a, x) \ {t}
      BY <1>1, <2>1, <2>2
    <2> QED BY <2>3
  <1> QED BY <1>1, <1>4, <1>5

LEMMA BelowFacts ==
  ASSUME NEW a \in Pointers, NEW t \in Slot
  PROVE  /\ Below(a, t) \in SUBSET Slot /\ BelowClosed(a, t, Below(a, t))
         /\ \A X \in SUBSET Slot : BelowClosed(a, t, X) => Below(a, t) \subseteq X
         /\ \A u \in Below(a, t) : u = t \/ \E s \in Below(a, t) : a[s] # NONE /\ u \in {LessOf(a[s]), GreaterOf(a[s])}
  <1>1. Below(a, t) \in SUBSET Slot /\ \A X \in SUBSET Slot : BelowClosed(a, t, X) => Below(a, t) \subseteq X
    BY DEF Below
  <1>2. t \in Below(a, t)
    BY DEF Below, BelowClosed
  <1>3. ASSUME NEW s \in Below(a, t), a[s] # NONE, NEW u \in {LessOf(a[s]), GreaterOf(a[s])}
        PROVE  u \in Below(a, t)
    <2>1. u \in Slot
      <3>1. a[s] \in HashKey
        BY <1>1, <1>3 DEF Pointers
      <3> QED BY <1>3, <3>1, Slots
    <2>2. ASSUME NEW X \in SUBSET Slot, BelowClosed(a, t, X)
          PROVE  u \in X
      <3>1. s \in X
        BY <1>1, <2>2
      <3> QED BY <1>3, <2>2, <3>1 DEF BelowClosed
    <2> QED BY <2>1, <2>2 DEF Below
  <1>4. BelowClosed(a, t, Below(a, t))
    BY <1>2, <1>3 DEF BelowClosed
  <1>5. ASSUME NEW u \in Below(a, t), u # t,
               \A s \in Below(a, t) : ~(a[s] # NONE /\ u \in {LessOf(a[s]), GreaterOf(a[s])})
        PROVE  FALSE
    <2>1. BelowClosed(a, t, Below(a, t) \ {u})
      BY <1>4, <1>5 DEF BelowClosed
    <2>2. Below(a, t) \ {u} \in SUBSET Slot
      BY <1>1
    <2>3. Below(a, t) \subseteq Below(a, t) \ {u}
      BY <1>1, <2>1, <2>2
    <2> QED BY <2>3
  <1> QED BY <1>1, <1>4, <1>5

LEMMA SpineFacts ==
  ASSUME NEW a \in Pointers, NEW t \in Slot
  PROVE  /\ Spine(a, t) \in SUBSET Slot /\ SpineClosed(a, t, Spine(a, t))
         /\ \A X \in SUBSET Slot : SpineClosed(a, t, X) => Spine(a, t) \subseteq X
         /\ Spine(a, t) \subseteq Below(a, t)
  <1>1. Spine(a, t) \in SUBSET Slot /\ \A X \in SUBSET Slot : SpineClosed(a, t, X) => Spine(a, t) \subseteq X
    BY DEF Spine
  <1>2. t \in Spine(a, t)
    BY DEF Spine, SpineClosed
  <1>3. ASSUME NEW s \in Spine(a, t), a[s] # NONE
        PROVE  GreaterOf(a[s]) \in Spine(a, t)
    <2>1. GreaterOf(a[s]) \in Slot
      <3>1. a[s] \in HashKey
        BY <1>1, <1>3 DEF Pointers
      <3> QED BY <3>1, Slots
    <2>2. ASSUME NEW X \in SUBSET Slot, SpineClosed(a, t, X)
          PROVE  GreaterOf(a[s]) \in X
      <3>1. s \in X
        BY <1>1, <2>2
      <3> QED BY <1>3, <2>2, <3>1 DEF SpineClosed
    <2> QED BY <2>1, <2>2 DEF Spine
  <1>4. SpineClosed(a, t, Below(a, t)) /\ Below(a, t) \in SUBSET Slot
    BY BelowFacts DEF BelowClosed, SpineClosed
  <1> QED BY <1>1, <1>2, <1>3, <1>4 DEF SpineClosed

\* What is reached from a slot has no higher rank.
LEMMA BelowRank ==
  ASSUME NEW a \in Pointers, NEW t \in Slot, NEW r \in [Slot -> Nat], Ranks(a, r), NEW s \in Below(a, t)
  PROVE  r[s] <= r[t]
  <1> DEFINE X == {u \in Slot : r[u] <= r[t]}
  <1>1. BelowClosed(a, t, X)
    <2>1. t \in X
      OBVIOUS
    <2>2. ASSUME NEW u \in X, a[u] # NONE
          PROVE  LessOf(a[u]) \in X /\ GreaterOf(a[u]) \in X
      <3>1. a[u] \in HashKey
        BY <2>2 DEF Pointers
      <3>2. LessOf(a[u]) \in Slot /\ GreaterOf(a[u]) \in Slot
        BY <3>1, Slots
      <3>3. r[LessOf(a[u])] < r[u] /\ r[GreaterOf(a[u])] < r[u]
        BY <2>2 DEF Ranks
      <3>4. r[LessOf(a[u])] \in Nat /\ r[GreaterOf(a[u])] \in Nat /\ r[u] \in Nat /\ r[t] \in Nat /\ r[u] <= r[t]
        BY <3>2
      <3>5. r[LessOf(a[u])] <= r[t] /\ r[GreaterOf(a[u])] <= r[t]
        BY <3>3, <3>4
      <3> QED BY <3>2, <3>5
    <2> HIDE DEF X
    <2> QED BY <2>1, <2>2 DEF BelowClosed
  <1>2. X \in SUBSET Slot
    OBVIOUS
  <1> HIDE DEF X
  <1>3. s \in X
    BY <1>1, <1>2, BelowFacts
  <1> QED BY <1>3 DEF X

\* Of two slots that are not reached from each other nothing in common is reached.
LEMMA BelowDisjoint ==
  ASSUME NEW a, Trees(a), NEW s \in Slot, NEW t \in Slot, s \notin Below(a, t), t \notin Below(a, s)
  PROVE  Below(a, s) \cap Below(a, t) = {}
  <1> DEFINE X == Below(a, s) \ Below(a, t)
  <1>0. a \in Pointers
    BY DEF Trees
  <1>1. BelowClosed(a, s, X)
    <2>1. s \in X
      BY <1>0, BelowFacts DEF BelowClosed
    <2>2. ASSUME NEW u \in X, a[u] # NONE, NEW v \in {LessOf(a[u]), GreaterOf(a[u])}
          PROVE  v \in X
      <3>1. v \in Below(a, s) /\ u \in Slot
        BY <1>0, <2>2, BelowFacts DEF BelowClosed
      <3>2. ASSUME v \in Below(a, t)
            PROVE  FALSE
        <4>1. v # t
          BY <3>1
        <4>2. PICK w \in Below(a, t) : a[w] # NONE /\ v \in {LessOf(a[w]), GreaterOf(a[w])}
          BY <1>0, <3>2, <4>1, BelowFacts
        <4>3. a[w] = a[u]
          BY <2>2, <4>2, Slots
        <4>4. w \in Slot
          BY <1>0, <4>2, BelowFacts
        <4>5. w = u
          BY <2>2, <3>1, <4>3, <4>4 DEF Trees
        <4> QED BY <4>2, <4>5
      <3> QED BY <3>1, <3>2
    <2> HIDE DEF X
    <2> QED BY <2>1, <2>2 DEF BelowClosed
  <1>2. X \in SUBSET Slot
    BY <1>0, BelowFacts
  <1>3. Below(a, s) \subseteq X
    <2> HIDE DEF X
    <2> QED BY <1>0, <1>1, <1>2, BelowFacts
  <1> QED BY <1>3

\* Of the two slots of an element different elements are reached, and not the
\* slot that refers to the element.
LEMMA ChildrenApart ==
  ASSUME NEW a, Trees(a), NEW s \in Slot, NEW k, a[s] = k, k # NONE
  PROVE  /\ LessOf(k) \in Slot /\ GreaterOf(k) \in Slot
         /\ s # LessOf(k) /\ s # GreaterOf(k)
         /\ s \notin Below(a, LessOf(k)) /\ s \notin Below(a, GreaterOf(k))
         /\ Below(a, LessOf(k)) \cap Below(a, GreaterOf(k)) = {}
         /\ \A u \in Slot : LessOf(k) = LessOf(a[u]) \/ GreaterOf(k) = GreaterOf(a[u]) => u = s
  <1>0. a \in Pointers /\ LessOf(k) \in Slot /\ GreaterOf(k) \in Slot /\ LessOf(k) # GreaterOf(k) /\ k \in HashKey
    <2>1. a \in Pointers /\ k \in HashKey
      BY DEF Trees, Pointers
    <2> QED BY <2>1, Slots
  <1>1. PICK r \in [Slot -> Nat] : Ranks(a, r)
    BY DEF Trees
  <1>2. r[LessOf(k)] < r[s] /\ r[GreaterOf(k)] < r[s] /\ r[LessOf(k)] \in Nat /\ r[GreaterOf(k)] \in Nat /\ r[s] \in Nat
    BY <1>0, <1>1 DEF Ranks
  <1>3. s # LessOf(k) /\ s # GreaterOf(k)
    BY <1>2
  <1>4. s \notin Below(a, LessOf(k)) /\ s \notin Below(a, GreaterOf(k))
    <2>1. ~(r[s] <= r[LessOf(k)]) /\ ~(r[s] <= r[GreaterOf(k)])
      BY <1>2
    <2> QED BY <1>0, <1>1, <2>1, BelowRank
  <1>5. \A u \in Slot : LessOf(k) = LessOf(a[u]) \/ GreaterOf(k) = GreaterOf(a[u]) => u = s
    <2>1. \A u \in Slot : LessOf(k) = LessOf(a[u]) \/ GreaterOf(k) = GreaterOf(a[u]) => a[u] = k
      BY Slots
    <2> QED BY <1>0, <2>1 DEF Trees
  <1>6. LessOf(k) \notin Below(a, GreaterOf(k))
    <2> SUFFICES ASSUME LessOf(k) \in Below(a, GreaterOf(k)) PROVE FALSE
      OBVIOUS
    <2>1. PICK v \in Below(a, GreaterOf(k)) : a[v] # NONE /\ LessOf(k) \in {LessOf(a[v]), GreaterOf(a[v])}
      BY <1>0, BelowFacts
    <2>2. v \in Slot /\ LessOf(k) = LessOf(a[v])
      BY <1>0, <2>1, BelowFacts, Slots
    <2> QED BY <1>4, <1>5, <2>1, <2>2
  <1>7. GreaterOf(k) \notin Below(a, LessOf(k))
    <2> SUFFICES ASSUME GreaterOf(k) \in Below(a, LessOf(k)) PROVE FALSE
      OBVIOUS
    <2>1. PICK v \in Below(a, LessOf(k)) : a[v] # NONE /\ GreaterOf(k) \in {LessOf(a[v]), GreaterOf(a[v])}
      BY <1>0, BelowFacts
    <2>2. v \in Slot /\ GreaterOf(k) = GreaterOf(a[v])
      BY <1>0, <2>1, BelowFacts, Slots
    <2> QED BY <1>4, <1>5, <2>1, <2>2
  <1>8. Below(a, LessOf(k)) \cap Below(a, GreaterOf(k)) = {}
    BY <1>0, <1>6, <1>7, BelowDisjoint
  <1> QED BY <1>0, <1>3, <1>4, <1>5, <1>8

\* A search that comes to a slot has come to all slots from which it is reached.
LEMMA PathFromAbove ==
  ASSUME NEW a, Trees(a), NEW x \in HashKey, NEW u \in Slot, NEW t \in Path(a, x), t \in Below(a, u),
         u # Entry(hashCode(x))
  PROVE  \E s \in Path(a, x) : GoesOn(a, x, s) /\ u = NextSlot(a, x, s)
  <1>0. a \in Pointers
    BY DEF Trees
  <1> SUFFICES u \in Path(a, x)
    BY <1>0, PathFacts
  <1> SUFFICES ASSUME u \notin Path(a, x) PROVE FALSE
    OBVIOUS
  <1> DEFINE X == Path(a, x) \ Below(a, u)
  <1>1. Entry(hashCode(x)) \in X
    <2>1. Entry(hashCode(x)) \in Path(a, x)
      BY <1>0, PathFacts DEF PathClosed
    <2>2. Entry(hashCode(x)) \notin Below(a, u)
      <3>1. \A e : Entry(hashCode(x)) # LessOf(e) /\ Entry(hashCode(x)) # GreaterOf(e)
        BY Slots
      <3> QED BY <1>0, <3>1, BelowFacts
    <2> QED BY <2>1, <2>2
  <1>2. ASSUME NEW v \in X, GoesOn(a, x, v)
        PROVE  NextSlot(a, x, v) \in X
    <2>1. NextSlot(a, x, v) \in Path(a, x) /\ v \in Slot
      BY <1>0, <1>2, PathFacts DEF PathClosed
    <2>2. ASSUME NextSlot(a, x, v) \in Below(a, u)
          PROVE  FALSE
      <3>1. NextSlot(a, x, v) # u
        BY <2>1
      <3>2. PICK w \in Below(a, u) : a[w] # NONE /\ NextSlot(a, x, v) \in {LessOf(a[w]), GreaterOf(a[w])}
        BY <1>0, <2>2, <3>1, BelowFacts
      <3>3. NextSlot(a, x, v) \in {LessOf(a[v]), GreaterOf(a[v])}
        BY <1>0, <1>2, <2>1, NextIsSlot
      <3>4. a[w] = a[v]
        BY <3>2, <3>3, Slots
      <3>5. w \in Slot
        BY <1>0, <3>2, BelowFacts
      <3>6. w = v
        BY <2>1, <3>2, <3>4, <3>5 DEF Trees
      <3> QED BY <1>2, <3>2, <3>6
    <2> QED BY <2>1, <2>2
  <1>3. PathClosed(a, x, X) /\ X \in SUBSET Slot
    <2>1. X \in SUBSET Slot
      BY <1>0, PathFacts
    <2> HIDE DEF X
    <2> QED BY <1>1, <1>2, <2>1 DEF PathClosed
  <1>4. t \in X
    <2> HIDE DEF X
    <2> QED BY <1>0, <1>3, PathFacts
  <1> QED BY <1>4

---------------------------------------------------------------------------
(* The search.                                                              *)

Searches(a, x, S) ==
    S = [s \in Slot |-> IF a[s] = NONE \/ a[s] = x THEN s ELSE S[NextSlot(a, x, s)]]

LEMMA SearchExists ==
  ASSUME NEW a, Trees(a), NEW x \in HashKey
  PROVE  \E S : Searches(a, x, S)
  <1>0. a \in Pointers
    BY DEF Trees
  <1>1. PICK r \in [Slot -> Nat] : Ranks(a, r)
    BY DEF Trees
  <1> DEFINE G == [p \in Slot \X [Slot -> Slot] |-> IF GoesOn(a, x, p[1]) THEN p[2][NextSlot(a, x, p[1])] ELSE p[1]]
  <1>2. G \in [Slot \X [Slot -> Slot] -> Slot]
    <2> SUFFICES ASSUME NEW p \in Slot \X [Slot -> Slot]
                 PROVE  (IF GoesOn(a, x, p[1]) THEN p[2][NextSlot(a, x, p[1])] ELSE p[1]) \in Slot
      OBVIOUS
    <2> QED BY <1>0, NextIsSlot
  <1>3. ASSUME NEW d \in Slot, NEW g \in [Slot -> Slot]
        PROVE  G[<<d, g>>] = IF GoesOn(a, x, d) THEN g[NextSlot(a, x, d)] ELSE d
    OBVIOUS
  <1> HIDE DEF G
  <1>4. ASSUME NEW d \in Slot, NEW g \in [Slot -> Slot], NEW h \in [Slot -> Slot],
               \A c \in Slot : r[c] < r[d] => g[c] = h[c]
        PROVE  G[<<d, g>>] = G[<<d, h>>]
    <2>1. CASE GoesOn(a, x, d)
      <3>1. NextSlot(a, x, d) \in Slot /\ NextSlot(a, x, d) \in {LessOf(a[d]), GreaterOf(a[d])}
        BY <1>0, <2>1, NextIsSlot
      <3>2. r[NextSlot(a, x, d)] < r[d]
        BY <1>1, <2>1, <3>1 DEF Ranks, GoesOn
      <3> QED BY <1>3, <1>4, <3>1, <3>2
    <2>2. CASE ~GoesOn(a, x, d)
      BY <1>3, <2>2
    <2> QED BY <2>1, <2>2
  <1>5. PICK g : g \in [Slot -> Slot] /\ \A d \in Slot : g[d] = G[<<d, g>>]
    <2>1. Slot # {}
      BY Keys, Slots
    <2>2. Decreases(Slot, Slot, G, r)
      BY <1>2, <1>4, <2>1 DEF Decreases
    <2>3. \E g : Recursive(Slot, Slot, G, g)
      BY <2>2, RecursionEnds
    <2> QED BY <2>3 DEF Recursive
  <1>6. \A d \in Slot : g[d] = IF a[d] = NONE \/ a[d] = x THEN d ELSE g[NextSlot(a, x, d)]
    BY <1>3, <1>5 DEF GoesOn
  <1>7. g = [s \in Slot |-> IF a[s] = NONE \/ a[s] = x THEN s ELSE g[NextSlot(a, x, s)]]
    BY <1>5, <1>6
  <1> QED BY <1>7 DEF Searches

LEMMA PathEnds ==
  ASSUME NEW a, Trees(a), NEW x \in HashKey
  PROVE  \E t \in Path(a, x) : ~GoesOn(a, x, t)
  <1>0. a \in Pointers /\ Path(a, x) \in SUBSET Slot
    BY PathFacts DEF Trees
  <1>1. PICK r \in [Slot -> Nat] : Ranks(a, r)
    BY DEF Trees
  <1> DEFINE T == {r[t] : t \in Path(a, x)}
  <1>2. T \in SUBSET Nat /\ T # {}
    BY <1>0, PathFacts DEF PathClosed
  <1>3. PICK n \in T : \A m \in T : n <= m
    BY <1>2, Least
  <1>4. PICK t \in Path(a, x) : n = r[t]
    OBVIOUS
  <1>5. ASSUME GoesOn(a, x, t)
        PROVE  FALSE
    <2>1. NextSlot(a, x, t) \in Path(a, x)
      BY <1>0, <1>5, PathFacts DEF PathClosed
    <2>2. r[NextSlot(a, x, t)] < r[t]
      <3>1. NextSlot(a, x, t) \in {LessOf(a[t]), GreaterOf(a[t])}
        BY <1>0, <1>5, NextIsSlot
      <3>2. t \in Slot
        BY <1>0
      <3> QED BY <1>1, <1>5, <3>1, <3>2 DEF Ranks, GoesOn
    <2>3. r[t] <= r[NextSlot(a, x, t)]
      BY <1>3, <1>4, <2>1
    <2>4. r[t] \in Nat /\ r[NextSlot(a, x, t)] \in Nat
      BY <1>0, <2>1
    <2> HIDE DEF T
    <2> QED BY <2>2, <2>3, <2>4
  <1> QED BY <1>5

LEMMA SearchFinds ==
  ASSUME NEW a, Trees(a), NEW x \in HashKey, NEW S, Searches(a, x, S)
  PROVE  /\ S[Entry(hashCode(x))] \in Path(a, x)
         /\ \A t \in Path(a, x) : a[t] = NONE \/ a[t] = x <=> t = S[Entry(hashCode(x))]
  <1>0. a \in Pointers /\ Path(a, x) \in SUBSET Slot
    BY PathFacts DEF Trees
  <1>1. \A s \in Slot : S[s] = IF a[s] = NONE \/ a[s] = x THEN s ELSE S[NextSlot(a, x, s)]
    BY DEF Searches
  <1> DEFINE X == {t \in Slot : S[t] = S[Entry(hashCode(x))]}
  <1>2. PathClosed(a, x, X)
    <2>1. Entry(hashCode(x)) \in X
      BY Keys, Slots
    <2>2. ASSUME NEW s \in X, GoesOn(a, x, s)
          PROVE  NextSlot(a, x, s) \in X
      <3>1. NextSlot(a, x, s) \in Slot
        BY <1>0, <2>2, NextIsSlot
      <3>2. S[NextSlot(a, x, s)] = S[s]
        BY <1>1, <2>2 DEF GoesOn
      <3> QED BY <3>1, <3>2
    <2> HIDE DEF X
    <2> QED BY <2>1, <2>2 DEF PathClosed
  <1>3. \A t \in Path(a, x) : S[t] = S[Entry(hashCode(x))]
    <2>1. X \in SUBSET Slot
      OBVIOUS
    <2>2. Path(a, x) \subseteq X
      <3> HIDE DEF X
      <3> QED BY <1>0, <1>2, <2>1, PathFacts
    <2> QED BY <2>2
  <1>4. ASSUME NEW t \in Path(a, x), a[t] = NONE \/ a[t] = x
        PROVE  t = S[Entry(hashCode(x))]
    <2>1. S[t] = t
      BY <1>0, <1>1, <1>4
    <2> QED BY <1>3, <2>1
  <1>5. PICK t \in Path(a, x) : a[t] = NONE \/ a[t] = x
    BY PathEnds DEF GoesOn
  <1> QED BY <1>4, <1>5

\* What a search comes to at its end.
LEMMA SearchEndsAt ==
  ASSUME NEW a, Trees(a), NEW x \in HashKey
  PROVE  /\ \A s, t \in Path(a, x) : ~GoesOn(a, x, s) /\ ~GoesOn(a, x, t) => s = t
         /\ \A s \in Path(a, x) : a[s] = NONE => x \notin Present(a)
  <1>1. PICK S : Searches(a, x, S)
    BY SearchExists
  <1>2. \A s, t \in Path(a, x) : ~GoesOn(a, x, s) /\ ~GoesOn(a, x, t) => s = t
    BY <1>1, SearchFinds DEF GoesOn
  <1>3. ASSUME NEW s \in Path(a, x), a[s] = NONE, x \in Present(a)
        PROVE  FALSE
    <2>1. PICK t \in Slot : a[t] = x
      BY <1>3 DEF Present
    <2>2. x # NONE
      BY Keys
    <2>3. t \in Path(a, x)
      BY <2>1, <2>2 DEF Trees
    <2>4. s = t
      BY <1>2, <1>3, <2>1, <2>3 DEF GoesOn
    <2> QED BY <1>3, <2>1, <2>2, <2>4
  <1> QED BY <1>2, <1>3

---------------------------------------------------------------------------
(* The pointers of a map.                                                   *)

PointersOf(m) == [s \in Slot |-> ElementAt(m, s)]

LEMMA ElementsAt ==
  ASSUME NEW m
  PROVE  /\ \A b \in 1 .. Bucket : ElementAt(m, Entry(b)) = m.table[b]
         /\ \A e : ElementAt(m, LessOf(e)) = m.element[e].less /\ ElementAt(m, GreaterOf(e)) = m.element[e].greater
  <1> QED BY DEF ElementAt, Entry, LessOf, GreaterOf

LEMMA PointersType ==
  ASSUME NEW m \in HashMapType
  PROVE  /\ PointersOf(m) \in Pointers
         /\ \A s \in Slot : PointersOf(m)[s] = ElementAt(m, s) /\ ElementAt(m, s) \in HashKey \cup {NONE}
  <1>1. ASSUME NEW s \in Slot
        PROVE  ElementAt(m, s) \in HashKey \cup {NONE}
    <2>1. CASE \E b \in 1 .. Bucket : s = Entry(b)
      <3>1. PICK b \in 1 .. Bucket : s = Entry(b)
        BY <2>1
      <3>2. m.table[b] \in HashKey \cup {NONE}
        BY DEF HashMapType
      <3>3. ElementAt(m, Entry(b)) = m.table[b]
        BY ElementsAt
      <3> QED BY <3>1, <3>2, <3>3
    <2>2. CASE \E e \in HashKey : s = LessOf(e) \/ s = GreaterOf(e)
      <3>1. \A e \in HashKey : m.element[e] \in HashElement
        BY DEF HashMapType
      <3>2. \A e \in HashKey : m.element[e].less \in HashKey \cup {NONE} /\ m.element[e].greater \in HashKey \cup {NONE}
        BY <3>1 DEF HashElement
      <3>3. PICK e \in HashKey : s = LessOf(e) \/ s = GreaterOf(e)
        BY <2>2
      <3>4. ElementAt(m, LessOf(e)) = m.element[e].less /\ ElementAt(m, GreaterOf(e)) = m.element[e].greater
        BY ElementsAt
      <3> QED BY <3>2, <3>3, <3>4
    <2> QED BY <2>1, <2>2, SlotKinds
  <1> QED BY <1>1 DEF PointersOf, Pointers

LEMMA FindSearches ==
  ASSUME NEW m \in HashMapType, NEW x \in HashKey, Trees(PointersOf(m))
  PROVE  \E S : Searches(PointersOf(m), x, S) /\ Find(m, x) = S[Entry(hashCode(x))]
  <1> DEFINE S == CHOOSE f : f = [slot \in Slot |->
                     LET e == ElementAt(m, slot)
                     IN  IF e = NONE \/ e = x THEN slot
                         ELSE IF e < x THEN f[<<"less", e>>] ELSE f[<<"greater", e>>]]
  <1>1. Find(m, x) = S[Entry(hashCode(x))]
    BY DEF Find, Entry
  <1>2. ASSUME NEW f
        PROVE  Searches(PointersOf(m), x, f) <=>
               f = [slot \in Slot |->
                     LET e == ElementAt(m, slot)
                     IN  IF e = NONE \/ e = x THEN slot
                         ELSE IF e < x THEN f[<<"less", e>>] ELSE f[<<"greater", e>>]]
    <2>1. \A s \in Slot : (IF PointersOf(m)[s] = NONE \/ PointersOf(m)[s] = x THEN s ELSE f[NextSlot(PointersOf(m), x, s)])
                        = LET e == ElementAt(m, s)
                          IN  IF e = NONE \/ e = x THEN s
                              ELSE IF e < x THEN f[<<"less", e>>] ELSE f[<<"greater", e>>]
      BY PointersType DEF NextSlot, LessOf, GreaterOf
    <2> QED BY <2>1 DEF Searches
  <1>3. PICK f : Searches(PointersOf(m), x, f)
    BY SearchExists
  <1>4. S = [slot \in Slot |->
                     LET e == ElementAt(m, slot)
                     IN  IF e = NONE \/ e = x THEN slot
                         ELSE IF e < x THEN S[<<"less", e>>] ELSE S[<<"greater", e>>]]
    BY <1>2, <1>3
  <1> HIDE DEF S
  <1> QED BY <1>1, <1>2, <1>4

\* The place that Find returns: the search comes to it, and only there it ends.
LEMMA FindFacts ==
  ASSUME NEW m \in HashMapType, NEW x \in HashKey, Trees(PointersOf(m))
  PROVE  /\ Find(m, x) \in Slot /\ Find(m, x) \in Path(PointersOf(m), x)
         /\ ElementAt(m, Find(m, x)) \in {NONE, x}
         /\ x \in Present(PointersOf(m)) <=> ElementAt(m, Find(m, x)) = x
         /\ \A s \in Path(PointersOf(m), x) : ElementAt(m, s) \in {NONE, x} => s = Find(m, x)
  <1> DEFINE a == PointersOf(m)
  <1>0. a \in Pointers /\ Path(a, x) \in SUBSET Slot
    BY PathFacts DEF Trees
  <1>1. PICK S : Searches(a, x, S) /\ Find(m, x) = S[Entry(hashCode(x))]
    BY FindSearches
  <1>2. Find(m, x) \in Path(a, x) /\ \A t \in Path(a, x) : (a[t] = NONE \/ a[t] = x) <=> t = Find(m, x)
    BY <1>1, SearchFinds
  <1>3. Find(m, x) \in Slot /\ a[Find(m, x)] \in {NONE, x}
    BY <1>0, <1>2
  <1>4. \A s \in Slot : a[s] = ElementAt(m, s)
    BY PointersType
  <1>5. ASSUME x \in Present(a)
        PROVE  a[Find(m, x)] = x
    <2>1. a[Find(m, x)] # NONE
      BY <1>2, <1>5, SearchEndsAt
    <2> QED BY <1>3, <2>1
  <1>6. ASSUME a[Find(m, x)] = x
        PROVE  x \in Present(a)
    BY <1>3, <1>6 DEF Present
  <1> HIDE DEF a
  <1>7. /\ Find(m, x) \in Path(a, x)
        /\ \A s \in Path(a, x) : ElementAt(m, s) \in {NONE, x} => s = Find(m, x)
    BY <1>0, <1>2, <1>4
  <1>8. ElementAt(m, Find(m, x)) \in {NONE, x} /\ (x \in Present(a) <=> ElementAt(m, Find(m, x)) = x)
    BY <1>3, <1>4, <1>5, <1>6
  <1> QED BY <1>3, <1>7, <1>8 DEF a

---------------------------------------------------------------------------
(* An element is entered.                                                   *)

LEMMA PathGrows ==
  ASSUME NEW a \in Pointers, NEW b \in Pointers, NEW x \in HashKey,
         \A s \in Slot : a[s] # NONE => b[s] = a[s]
  PROVE  Path(a, x) \subseteq Path(b, x)
  <1>1. PathClosed(a, x, Path(b, x))
    <2>1. Path(b, x) \in SUBSET Slot /\ PathClosed(b, x, Path(b, x))
      BY PathFacts
    <2>2. ASSUME NEW s \in Path(b, x), GoesOn(a, x, s)
          PROVE  NextSlot(a, x, s) \in Path(b, x)
      <3>1. b[s] = a[s]
        BY <2>1, <2>2 DEF GoesOn
      <3>2. GoesOn(b, x, s) /\ NextSlot(b, x, s) = NextSlot(a, x, s)
        BY <2>2, <3>1 DEF GoesOn, NextSlot
      <3> QED BY <2>1, <3>2 DEF PathClosed
    <2> QED BY <2>1, <2>2 DEF PathClosed
  <1> QED BY <1>1, PathFacts

\* A slot on a path is an entry of the table or belongs to an element of the map.
LEMMA PathSlots ==
  ASSUME NEW a \in Pointers, NEW x \in HashKey, NEW s \in Path(a, x), NEW e, e \notin Present(a)
  PROVE  s # LessOf(e) /\ s # GreaterOf(e)
  <1>1. CASE s = Entry(hashCode(x))
    BY <1>1, Slots
  <1>2. CASE \E u \in Path(a, x) : GoesOn(a, x, u) /\ s = NextSlot(a, x, u)
    <2>1. PICK u \in Path(a, x) : GoesOn(a, x, u) /\ s = NextSlot(a, x, u)
      BY <1>2
    <2>2. u \in Slot
      BY PathFacts
    <2>3. a[u] \in Present(a) /\ s \in {LessOf(a[u]), GreaterOf(a[u])}
      BY <2>1, <2>2, NextIsSlot DEF Present
    <2> QED BY <2>3, Slots
  <1> QED BY <1>1, <1>2, PathFacts

LEMMA TreesInsert ==
  ASSUME NEW a, Trees(a), NEW x \in HashKey, NEW s \in Path(a, x), a[s] = NONE,
         NEW b \in Pointers, b[s] = x, \A t \in Slot \ {s} : b[t] = a[t]
  PROVE  Trees(b) /\ Present(b) = Present(a) \cup {x} /\ x \notin Present(a) /\ s # LessOf(x) /\ s # GreaterOf(x)
  <1>0. a \in Pointers /\ s \in Slot /\ x # NONE
    BY PathFacts, Keys DEF Trees
  <1>1. x \notin Present(a)
    BY SearchEndsAt
  <1>2. Present(b) = Present(a) \cup {x}
    <2>1. ASSUME NEW y \in Present(a)
          PROVE  y \in Present(b)
      <3>1. PICK t \in Slot : a[t] = y
        BY DEF Present
      <3>2. y \in HashKey /\ y # NONE
        BY Keys DEF Present
      <3>3. b[t] = y
        BY <3>1, <3>2
      <3> QED BY <3>2, <3>3 DEF Present
    <2>2. x \in Present(b)
      BY <1>0 DEF Present
    <2>3. ASSUME NEW y \in Present(b), y # x
          PROVE  y \in Present(a)
      BY <2>3 DEF Present
    <2> QED BY <2>1, <2>2, <2>3
  <1>3. \A t \in Slot : a[t] # NONE => b[t] = a[t]
    OBVIOUS
  <1>4. ASSUME NEW t \in Slot, NEW u \in Slot, b[t] = b[u], b[t] # NONE
        PROVE  t = u
    <2>1. \A v \in Slot : a[v] # x
      BY <1>1 DEF Present
    <2>2. CASE t = s \/ u = s
      BY <1>4, <2>1, <2>2
    <2>3. CASE t # s /\ u # s
      BY <1>4, <2>3 DEF Trees
    <2> QED BY <2>2, <2>3
  <1>5. ASSUME NEW e \in HashKey \ Present(b)
        PROVE  b[LessOf(e)] = NONE /\ b[GreaterOf(e)] = NONE
    <2>1. e \notin Present(a)
      BY <1>2
    <2>2. s # LessOf(e) /\ s # GreaterOf(e)
      BY <1>0, <2>1, PathSlots
    <2>3. a[LessOf(e)] = NONE /\ a[GreaterOf(e)] = NONE
      BY <2>1 DEF Trees
    <2> QED BY <2>2, <2>3, Slots
  <1>6. ASSUME NEW t \in Slot, b[t] # NONE
        PROVE  t \in Path(b, b[t])
    <2>1. CASE t = s
      <3>1. Path(a, x) \subseteq Path(b, x)
        BY <1>0, <1>3, PathGrows
      <3> QED BY <2>1, <3>1
    <2>2. CASE t # s
      <3>1. b[t] = a[t] /\ a[t] \in HashKey
        BY <1>0, <1>6, <2>2 DEF Pointers
      <3>2. t \in Path(a, a[t])
        BY <1>6, <3>1 DEF Trees
      <3>3. Path(a, a[t]) \subseteq Path(b, a[t])
        BY <1>0, <1>3, <3>1, PathGrows
      <3> QED BY <3>1, <3>2, <3>3
    <2> QED BY <2>1, <2>2
  <1>7. s # LessOf(x) /\ s # GreaterOf(x)
    BY <1>0, <1>1, PathSlots
  <1>8. PICK r \in [Slot -> Nat] : Ranks(a, r)
    BY DEF Trees
  <1> DEFINE q == [t \in Slot |-> IF t \in {LessOf(x), GreaterOf(x)} THEN 0 ELSE r[t] + 1]
  <1>9. q \in [Slot -> Nat] /\ \A t \in Slot : q[t] = IF t \in {LessOf(x), GreaterOf(x)} THEN 0 ELSE r[t] + 1
    BY <1>8
  <1> HIDE DEF q
  <1>10. Ranks(b, q)
    <2>1. CASE b[s] # NONE
      <3>1. LessOf(x) \in Slot /\ GreaterOf(x) \in Slot
        BY Slots
      <3>2. q[LessOf(x)] = 0 /\ q[GreaterOf(x)] = 0 /\ q[s] = r[s] + 1 /\ r[s] \in Nat
        BY <1>0, <1>7, <1>8, <1>9, <3>1
      <3>3. q[LessOf(b[s])] < q[s] /\ q[GreaterOf(b[s])] < q[s]
        BY <3>2
      <3>4. ASSUME NEW t \in Slot, t # s, b[t] # NONE
            PROVE  q[LessOf(b[t])] < q[t] /\ q[GreaterOf(b[t])] < q[t]
        <4>1. b[t] = a[t] /\ a[t] \in HashKey
          BY <1>0, <3>4 DEF Pointers
        <4>2. t # LessOf(x) /\ t # GreaterOf(x)
          BY <1>1, <3>4, <4>1 DEF Trees
        <4>3. LessOf(a[t]) \in Slot /\ GreaterOf(a[t]) \in Slot
          BY <4>1, Slots
        <4>4. r[LessOf(a[t])] < r[t] /\ r[GreaterOf(a[t])] < r[t]
          BY <1>8, <3>4, <4>1 DEF Ranks
        <4>5. q[LessOf(a[t])] <= r[LessOf(a[t])] + 1 /\ q[GreaterOf(a[t])] <= r[GreaterOf(a[t])] + 1
          <5>1. ASSUME NEW v \in Slot
                PROVE  q[v] <= r[v] + 1
            <6>1. r[v] \in Nat
              BY <1>8
            <6> QED BY <1>9, <6>1
          <5> QED BY <4>3, <5>1
        <4>6. q[t] = r[t] + 1
          BY <1>9, <4>2
        <4>7. r[LessOf(a[t])] \in Nat /\ r[GreaterOf(a[t])] \in Nat /\ r[t] \in Nat /\ q[LessOf(a[t])] \in Nat /\ q[GreaterOf(a[t])] \in Nat
          BY <1>8, <1>9, <4>3
        <4>8. q[LessOf(a[t])] < q[t] /\ q[GreaterOf(a[t])] < q[t]
          BY <4>4, <4>5, <4>6, <4>7
        <4> QED BY <4>1, <4>8
      <3> QED BY <3>3, <3>4 DEF Ranks
    <2> QED BY <1>0, <2>1
  <1> QED BY <1>1, <1>2, <1>4, <1>5, <1>6, <1>7, <1>9, <1>10 DEF Trees

---------------------------------------------------------------------------
(* An element is removed.  Slot s refers to it, and z is where its greater  *)
(* elements are appended when it has elements on both sides.                *)

Both(a, k) == a[LessOf(k)] # NONE /\ a[GreaterOf(k)] # NONE

Removed(a, k, s, z, u) ==
    IF u = LessOf(k) \/ u = GreaterOf(k) THEN NONE
    ELSE IF u = s THEN IF a[LessOf(k)] = NONE THEN a[GreaterOf(k)] ELSE a[LessOf(k)]
    ELSE IF Both(a, k) /\ u = z THEN a[GreaterOf(k)]
    ELSE a[u]

RemovedAt(a, k, s, z, b) ==
    /\ Trees(a) /\ k \in HashKey /\ s \in Slot /\ a[s] = k
    /\ z \in Slot /\ (Both(a, k) => z \in Spine(a, LessOf(k)) /\ a[z] = NONE)
    /\ b \in Pointers /\ \A u \in Slot : b[u] = Removed(a, k, s, z, u)

\* The slot u that refers to what slot t referred to.
MovedTo(a, k, s, z, t) ==
    CASE t = LessOf(k) -> s
      [] t = GreaterOf(k) -> IF a[LessOf(k)] = NONE THEN s ELSE z
      [] OTHER -> t

LEMMA RemovedSlots ==
  ASSUME NEW a, NEW k, NEW s, NEW z, NEW b, RemovedAt(a, k, s, z, b)
  PROVE  /\ a \in Pointers /\ k # NONE /\ LessOf(k) \in Slot /\ GreaterOf(k) \in Slot
         /\ s # LessOf(k) /\ s # GreaterOf(k) /\ LessOf(k) # GreaterOf(k)
         /\ s \notin Below(a, LessOf(k)) /\ s \notin Below(a, GreaterOf(k))
         /\ Below(a, LessOf(k)) \cap Below(a, GreaterOf(k)) = {}
         /\ \A u \in Slot : LessOf(k) = LessOf(a[u]) \/ GreaterOf(k) = GreaterOf(a[u]) => u = s
  <1>1. a \in Pointers /\ k # NONE /\ LessOf(k) \in Slot /\ GreaterOf(k) \in Slot /\ LessOf(k) # GreaterOf(k) /\ s \in Slot /\ a[s] = k /\ Trees(a)
    BY Slots, Keys DEF RemovedAt, Trees
  <1> QED BY <1>1, ChildrenApart

LEMMA RemovedJoin ==
  ASSUME NEW a, NEW k, NEW s, NEW z, NEW b, RemovedAt(a, k, s, z, b), Both(a, k)
  PROVE  /\ z \in Below(a, LessOf(k)) /\ z \notin Below(a, GreaterOf(k)) /\ z \notin {s, LessOf(k), GreaterOf(k)}
         /\ a[z] = NONE
         /\ \A e \in HashKey \ Present(a) : z # LessOf(e) /\ z # GreaterOf(e)
  <1>0. z \in Spine(a, LessOf(k)) /\ a[z] = NONE
    BY DEF RemovedAt
  <1>1. a \in Pointers /\ LessOf(k) \in Slot /\ GreaterOf(k) \in Slot
    BY RemovedSlots
  <1>2. z \in Below(a, LessOf(k))
    BY <1>0, <1>1, SpineFacts
  <1>3. z \notin Below(a, GreaterOf(k)) /\ z # s
    BY <1>2, RemovedSlots
  <1>4. z # LessOf(k) /\ z # GreaterOf(k)
    BY <1>0 DEF Both
  <1>5. ASSUME NEW e \in HashKey \ Present(a), z = LessOf(e) \/ z = GreaterOf(e)
        PROVE  FALSE
    <2>1. PICK v \in Below(a, LessOf(k)) : a[v] # NONE /\ z \in {LessOf(a[v]), GreaterOf(a[v])}
      BY <1>1, <1>2, <1>4, BelowFacts
    <2>2. a[v] = e
      BY <1>5, <2>1, Slots
    <2>3. v \in Slot
      BY <1>1, BelowFacts
    <2> QED BY <2>2, <2>3 DEF Present
  <1> QED BY <1>0, <1>2, <1>3, <1>4, <1>5

\* Slots that refer to other elements than the removed one keep or move them.
LEMMA RemovedKeeps ==
  ASSUME NEW a, NEW k, NEW s, NEW z, NEW b, RemovedAt(a, k, s, z, b),
         NEW t \in Slot, a[t] # NONE, a[t] # k
  PROVE  /\ MovedTo(a, k, s, z, t) \in Slot /\ b[MovedTo(a, k, s, z, t)] = a[t] /\ t # s
         /\ (t # LessOf(k) /\ t # GreaterOf(k) => MovedTo(a, k, s, z, t) = t)
  <1>0. t # s /\ s \in Slot /\ z \in Slot /\ s # LessOf(k) /\ s # GreaterOf(k) /\ LessOf(k) # GreaterOf(k)
    BY RemovedSlots DEF RemovedAt
  <1>1. \A u \in Slot : b[u] = Removed(a, k, s, z, u)
    BY DEF RemovedAt
  <1>2. CASE t = LessOf(k)
    <2>1. MovedTo(a, k, s, z, t) = s
      BY <1>0, <1>2 DEF MovedTo
    <2>2. b[s] = a[LessOf(k)]
      BY <1>0, <1>1, <1>2 DEF Removed
    <2> QED BY <1>0, <1>2, <2>1, <2>2
  <1>3. CASE t = GreaterOf(k) /\ a[LessOf(k)] = NONE
    <2>1. MovedTo(a, k, s, z, t) = s
      BY <1>0, <1>3 DEF MovedTo
    <2>2. b[s] = a[GreaterOf(k)]
      BY <1>0, <1>1, <1>3 DEF Removed
    <2> QED BY <1>0, <1>3, <2>1, <2>2
  <1>4. CASE t = GreaterOf(k) /\ a[LessOf(k)] # NONE
    <2>1. MovedTo(a, k, s, z, t) = z
      BY <1>0, <1>4 DEF MovedTo
    <2>2. Both(a, k)
      BY <1>4 DEF Both
    <2>3. b[z] = a[GreaterOf(k)]
      BY <1>0, <1>1, <2>2, RemovedJoin DEF Removed
    <2> QED BY <1>0, <1>4, <2>1, <2>3
  <1>5. CASE t # LessOf(k) /\ t # GreaterOf(k)
    <2>1. MovedTo(a, k, s, z, t) = t
      BY <1>5 DEF MovedTo
    <2>2. b[t] = a[t]
      <3>1. ~(Both(a, k) /\ t = z)
        BY RemovedJoin
      <3> QED BY <1>0, <1>1, <1>5, <3>1 DEF Removed
    <2> QED BY <1>0, <1>5, <2>1, <2>2
  <1> QED BY <1>2, <1>3, <1>4, <1>5

LEMMA RemovedComes ==
  ASSUME NEW a, NEW k, NEW s, NEW z, NEW b, RemovedAt(a, k, s, z, b), NEW u \in Slot, b[u] # NONE
  PROVE  \E t \in Slot : t # s /\ a[t] = b[u] /\ MovedTo(a, k, s, z, t) = u
  <1>0. LessOf(k) \in Slot /\ GreaterOf(k) \in Slot /\ s # LessOf(k) /\ s # GreaterOf(k) /\ LessOf(k) # GreaterOf(k)
    BY RemovedSlots
  <1>1. b[u] = Removed(a, k, s, z, u)
    BY DEF RemovedAt
  <1>2. u # LessOf(k) /\ u # GreaterOf(k)
    BY <1>1 DEF Removed
  <1>3. CASE u = s /\ a[LessOf(k)] = NONE
    <2>1. b[u] = a[GreaterOf(k)] /\ MovedTo(a, k, s, z, GreaterOf(k)) = u
      BY <1>0, <1>1, <1>2, <1>3 DEF Removed, MovedTo
    <2> QED BY <1>0, <2>1
  <1>4. CASE u = s /\ a[LessOf(k)] # NONE
    <2>1. b[u] = a[LessOf(k)] /\ MovedTo(a, k, s, z, LessOf(k)) = u
      BY <1>0, <1>1, <1>2, <1>4 DEF Removed, MovedTo
    <2> QED BY <1>0, <2>1
  <1>5. CASE u # s /\ Both(a, k) /\ u = z
    <2>1. b[u] = a[GreaterOf(k)]
      BY <1>1, <1>2, <1>5 DEF Removed
    <2>2. MovedTo(a, k, s, z, GreaterOf(k)) = u
      BY <1>0, <1>5 DEF MovedTo, Both
    <2> QED BY <1>0, <2>1, <2>2
  <1>6. CASE u # s /\ ~(Both(a, k) /\ u = z)
    <2>1. b[u] = a[u]
      BY <1>1, <1>2, <1>6 DEF Removed
    <2>2. MovedTo(a, k, s, z, u) = u
      BY <1>2 DEF MovedTo
    <2> QED BY <1>6, <2>1, <2>2
  <1> QED BY <1>3, <1>4, <1>5, <1>6

LEMMA RemovedPresent ==
  ASSUME NEW a, NEW k, NEW s, NEW z, NEW b, RemovedAt(a, k, s, z, b)
  PROVE  /\ Present(b) = Present(a) \ {k}
         /\ \A t, u \in Slot : b[t] = b[u] /\ b[t] # NONE => t = u
         /\ \A e \in HashKey \ Present(b) : b[LessOf(e)] = NONE /\ b[GreaterOf(e)] = NONE
  <1>0. Trees(a) /\ a \in Pointers /\ a[s] = k /\ s \in Slot
    BY DEF RemovedAt, Trees
  <1>1. Present(b) = Present(a) \ {k}
    <2>1. ASSUME NEW y \in Present(a), y # k
          PROVE  y \in Present(b)
      <3>1. PICK t \in Slot : a[t] = y
        BY DEF Present
      <3>2. y \in HashKey /\ y # NONE
        BY Keys DEF Present
      <3>3. MovedTo(a, k, s, z, t) \in Slot /\ b[MovedTo(a, k, s, z, t)] = y
        BY <2>1, <3>1, <3>2, RemovedKeeps
      <3> QED BY <3>2, <3>3 DEF Present
    <2>2. ASSUME NEW y \in Present(b)
          PROVE  y \in Present(a) /\ y # k
      <3>1. PICK u \in Slot : b[u] = y
        BY DEF Present
      <3>2. y \in HashKey /\ y # NONE
        BY Keys DEF Present
      <3>3. PICK t \in Slot : t # s /\ a[t] = y
        BY <3>1, <3>2, RemovedComes
      <3>4. y # k
        BY <1>0, <3>2, <3>3 DEF Trees
      <3> QED BY <3>2, <3>3, <3>4 DEF Present
    <2> QED BY <2>1, <2>2
  <1>2. ASSUME NEW t \in Slot, NEW u \in Slot, b[t] = b[u], b[t] # NONE
        PROVE  t = u
    <2>1. PICK v \in Slot : v # s /\ a[v] = b[t] /\ MovedTo(a, k, s, z, v) = t
      BY <1>2, RemovedComes
    <2>2. PICK w \in Slot : w # s /\ a[w] = b[u] /\ MovedTo(a, k, s, z, w) = u
      BY <1>2, RemovedComes
    <2>3. v = w
      BY <1>0, <1>2, <2>1, <2>2 DEF Trees
    <2> QED BY <2>1, <2>2, <2>3
  <1>3. ASSUME NEW e \in HashKey \ Present(b), NEW v \in {LessOf(e), GreaterOf(e)}
        PROVE  b[v] = NONE
    <2>1. v \in Slot /\ b[v] = Removed(a, k, s, z, v)
      BY Slots DEF RemovedAt
    <2>2. CASE e = k
      BY <2>1, <2>2 DEF Removed
    <2>3. CASE e # k
      <3>1. e \in HashKey \ Present(a)
        BY <1>1, <2>3
      <3>2. a[v] = NONE
        BY <1>0, <3>1 DEF Trees
      <3>3. v # s
        BY <1>0, <3>2, RemovedSlots
      <3>4. ~(Both(a, k) /\ v = z)
        BY <3>1, RemovedJoin
      <3> QED BY <2>1, <3>2, <3>3, <3>4 DEF Removed
    <2> QED BY <2>2, <2>3
  <1> QED BY <1>1, <1>2, <1>3

\* The elements that are reached from LessOf(k) have greater keys than k.
LEMMA BelowLessGreater ==
  ASSUME NEW a, Trees(a), NEW k \in HashKey, NEW t \in Below(a, LessOf(k)), a[t] # NONE
  PROVE  a[t] \in HashKey /\ k < a[t]
  <1>0. a \in Pointers /\ LessOf(k) \in Slot /\ t \in Slot
    BY Slots, BelowFacts DEF Trees
  <1>1. a[t] \in HashKey /\ t \in Path(a, a[t])
    BY <1>0 DEF Trees, Pointers
  <1>2. LessOf(k) # Entry(hashCode(a[t]))
    BY Slots
  <1>3. PICK u \in Path(a, a[t]) : GoesOn(a, a[t], u) /\ LessOf(k) = NextSlot(a, a[t], u)
    BY <1>0, <1>1, <1>2, PathFromAbove
  <1>4. u \in Slot
    BY <1>0, <1>1, PathFacts
  <1>5. LessOf(k) \in {LessOf(a[u]), GreaterOf(a[u])} /\ (NextSlot(a, a[t], u) = LessOf(a[u]) => a[u] < a[t])
    BY <1>0, <1>1, <1>3, <1>4, NextIsSlot
  <1>6. LessOf(k) = LessOf(a[u]) /\ a[u] = k
    BY <1>5, Slots
  <1> QED BY <1>1, <1>3, <1>5, <1>6

LEMMA RemovedPath ==
  ASSUME NEW a, NEW k, NEW s, NEW z, NEW b, RemovedAt(a, k, s, z, b),
         NEW x \in HashKey, x # k, NEW t \in Path(a, x), a[t] = x
  PROVE  MovedTo(a, k, s, z, t) \in Path(b, x)
  <1>0. /\ Trees(a) /\ a \in Pointers /\ b \in Pointers /\ k \in HashKey /\ s \in Slot /\ z \in Slot /\ a[s] = k /\ k # NONE /\ x # NONE
        /\ LessOf(k) \in Slot /\ GreaterOf(k) \in Slot /\ s # LessOf(k) /\ s # GreaterOf(k) /\ LessOf(k) # GreaterOf(k)
    BY RemovedSlots, Keys, SMTT(30) DEF RemovedAt, Trees
  <1>1. Path(a, x) \in SUBSET Slot /\ Path(b, x) \in SUBSET Slot /\ PathClosed(b, x, Path(b, x))
    BY <1>0, PathFacts
  \* Where the slots of a path of a are on the path of b.
  <1> DEFINE Reached(u) == IF u = LessOf(k) THEN s \in Path(b, x)
                           ELSE IF u = GreaterOf(k)
                           THEN a[u] # NONE => MovedTo(a, k, s, z, u) \in Path(b, x)
                           ELSE u \in Path(b, x)
             X == {u \in Slot : Reached(u)}
  <1>2. Entry(hashCode(x)) \in X
    <2>1. Entry(hashCode(x)) \in Path(b, x) /\ Entry(hashCode(x)) \in Slot
      BY <1>1 DEF PathClosed
    <2>2. Entry(hashCode(x)) # LessOf(k) /\ Entry(hashCode(x)) # GreaterOf(k)
      BY Slots
    <2> QED BY <2>1, <2>2
  \* When x is less than k, the path of b goes over the elements with greater keys
  \* than k to the slot where the others were appended.
  <1>3. ASSUME s \in Path(b, x), x < k, Both(a, k)
        PROVE  z \in Path(b, x)
    <2> DEFINE Y == {v \in Below(a, LessOf(k)) : v = LessOf(k) \/ v \in Path(b, x)}
    <2>1. SpineClosed(a, LessOf(k), Y)
      <3>1. LessOf(k) \in Y
        BY <1>0, BelowFacts DEF BelowClosed
      <3>2. ASSUME NEW v \in Y, a[v] # NONE
            PROVE  GreaterOf(a[v]) \in Y
        <4>1. v \in Slot /\ GreaterOf(a[v]) \in Below(a, LessOf(k))
          BY <1>0, <3>2, BelowFacts DEF BelowClosed
        <4>2. a[v] \in HashKey /\ k < a[v]
          BY <1>0, <3>2, BelowLessGreater
        <4>3. x < a[v] /\ a[v] # k /\ a[v] # x
          <5>1. x \in Nat /\ k \in Nat /\ a[v] \in Nat
            BY <1>0, <4>2, Keys
          <5> QED BY <1>3, <4>2, <5>1
        <4>4. PICK w \in Path(b, x) : b[w] = a[v]
          <5>1. CASE v = LessOf(k)
            <6>1. MovedTo(a, k, s, z, v) = s
              BY <1>0, <5>1 DEF MovedTo
            <6>2. b[s] = a[v]
              BY <3>2, <4>1, <4>3, <6>1, RemovedKeeps
            <6> QED BY <1>3, <6>2
          <5>2. CASE v # LessOf(k)
            <6>1. v # GreaterOf(k)
              <7>1. GreaterOf(k) \in Below(a, GreaterOf(k))
                BY <1>0, BelowFacts DEF BelowClosed
              <7> QED BY <7>1, RemovedSlots
            <6>2. b[v] = a[v]
              BY <3>2, <4>1, <4>3, <5>2, <6>1, RemovedKeeps
            <6>3. v \in Path(b, x)
              BY <3>2, <5>2
            <6> QED BY <6>2, <6>3
          <5> QED BY <5>1, <5>2
        <4>5. GoesOn(b, x, w) /\ NextSlot(b, x, w) = GreaterOf(a[v])
          <5>1. ~(a[v] < x)
            <6>1. x \in Nat /\ a[v] \in Nat
              BY <4>2, Keys
            <6> QED BY <4>3, <6>1
          <5> QED BY <3>2, <4>3, <4>4, <5>1 DEF GoesOn, NextSlot
        <4>6. GreaterOf(a[v]) \in Path(b, x)
          BY <1>1, <4>4, <4>5 DEF PathClosed
        <4> QED BY <4>1, <4>6
      <3> HIDE DEF Y
      <3> QED BY <3>1, <3>2 DEF SpineClosed
    <2>2. Y \in SUBSET Slot
      BY <1>0, BelowFacts
    <2>3. z \in Y
      <3>1. z \in Spine(a, LessOf(k))
        BY <1>3 DEF RemovedAt
      <3> HIDE DEF Y
      <3> QED BY <1>0, <2>1, <2>2, <3>1, SpineFacts
    <2>4. z # LessOf(k)
      BY <1>3, RemovedJoin
    <2> QED BY <2>3, <2>4
  <1>4. ASSUME NEW u \in X, GoesOn(a, x, u)
        PROVE  NextSlot(a, x, u) \in X
    <2> DEFINE c == NextSlot(a, x, u)
    <2>1. u \in Slot /\ a[u] \in HashKey /\ a[u] # NONE /\ a[u] # x
      BY <1>0, <1>4, NextIsSlot DEF GoesOn
    <2>2. c \in Slot /\ c \in {LessOf(a[u]), GreaterOf(a[u])} /\ (c = GreaterOf(a[u]) => x < a[u])
      BY <1>0, <1>4, <2>1, NextIsSlot
    <2>3. CASE u = s
      <3>1. s \in Path(b, x)
        BY <1>0, <1>4, <2>3
      <3>2. CASE c = LessOf(k)
        BY <2>2, <3>1, <3>2
      <3>3. CASE c = GreaterOf(k)
        <4>1. x < k
          BY <1>0, <2>2, <2>3, <3>3
        <4>2. ASSUME a[GreaterOf(k)] # NONE
              PROVE  MovedTo(a, k, s, z, GreaterOf(k)) \in Path(b, x)
          <5>1. CASE a[LessOf(k)] = NONE
            BY <1>0, <3>1, <5>1 DEF MovedTo
          <5>2. CASE a[LessOf(k)] # NONE
            <6>1. z \in Path(b, x)
              BY <1>3, <3>1, <4>1, <4>2, <5>2 DEF Both
            <6> QED BY <1>0, <5>2, <6>1 DEF MovedTo
          <5> QED BY <5>1, <5>2
        <4> QED BY <1>0, <2>2, <3>3, <4>2
      <3> QED BY <1>0, <2>2, <2>3, <3>2, <3>3
    <2>4. CASE u # s
      <3>1. a[u] # k
        BY <1>0, <2>1, <2>4 DEF Trees
      <3>2. c # LessOf(k) /\ c # GreaterOf(k)
        BY <2>2, <3>1, Slots
      <3>3. PICK w \in Path(b, x) : b[w] = a[u]
        <4>1. MovedTo(a, k, s, z, u) \in Path(b, x)
          <5>1. CASE u = LessOf(k)
            BY <1>0, <1>4, <5>1 DEF MovedTo
          <5>2. CASE u = GreaterOf(k)
            BY <1>0, <1>4, <2>1, <5>2
          <5>3. CASE u # LessOf(k) /\ u # GreaterOf(k)
            BY <1>4, <5>3 DEF MovedTo
          <5> QED BY <5>1, <5>2, <5>3
        <4>2. b[MovedTo(a, k, s, z, u)] = a[u]
          BY <2>1, <3>1, RemovedKeeps
        <4> QED BY <4>1, <4>2
      <3>4. GoesOn(b, x, w) /\ NextSlot(b, x, w) = c
        BY <2>1, <3>3 DEF GoesOn, NextSlot
      <3>5. c \in Path(b, x)
        BY <1>1, <3>3, <3>4 DEF PathClosed
      <3>6. c \in X
        <4> HIDE DEF c
        <4> QED BY <2>2, <3>2, <3>5
      <3> QED BY <3>6
    <2> QED BY <2>3, <2>4
  <1>5. t \in X
    <2>1. X \in SUBSET Slot
      OBVIOUS
    <2> HIDE DEF X
    <2>2. PathClosed(a, x, X)
      BY <1>2, <1>4 DEF PathClosed
    <2> QED BY <1>0, <2>1, <2>2, PathFacts
  <1>6. CASE t = LessOf(k)
    BY <1>0, <1>5, <1>6 DEF MovedTo
  <1>7. CASE t = GreaterOf(k)
    BY <1>0, <1>5, <1>7
  <1>8. CASE t # LessOf(k) /\ t # GreaterOf(k)
    BY <1>5, <1>8 DEF MovedTo
  <1> QED BY <1>6, <1>7, <1>8

LEMMA RemovedRanks ==
  ASSUME NEW a, NEW k, NEW s, NEW z, NEW b, RemovedAt(a, k, s, z, b)
  PROVE  \E q \in [Slot -> Nat] : Ranks(b, q)
  <1>0. /\ Trees(a) /\ a \in Pointers /\ b \in Pointers /\ k \in HashKey /\ s \in Slot /\ z \in Slot /\ a[s] = k /\ k # NONE
        /\ LessOf(k) \in Slot /\ GreaterOf(k) \in Slot /\ s # LessOf(k) /\ s # GreaterOf(k) /\ LessOf(k) # GreaterOf(k)
    BY RemovedSlots DEF RemovedAt, Trees
  <1>1. PICK r \in [Slot -> Nat] : Ranks(a, r)
    BY <1>0 DEF Trees
  <1>2. \A t \in Slot : r[t] \in Nat
    BY <1>1
  \* The slots that are moved get a higher rank than the others that are above them.
  <1> DEFINE D == Below(a, GreaterOf(k))
             q == [t \in Slot |-> IF t \in D THEN r[t] ELSE r[t] + r[GreaterOf(k)] + 1]
  <1>3. q \in [Slot -> Nat] /\ \A t \in Slot : q[t] = IF t \in D THEN r[t] ELSE r[t] + r[GreaterOf(k)] + 1
    BY <1>0, <1>2
  <1>4. \A t \in D : t \in Slot /\ r[t] <= r[GreaterOf(k)]
    BY <1>0, <1>1, BelowFacts, BelowRank
  <1>5. GreaterOf(k) \in D /\ s \notin D /\ \A t \in D : a[t] # NONE => LessOf(a[t]) \in D /\ GreaterOf(a[t]) \in D
    BY <1>0, RemovedSlots, BelowFacts DEF BelowClosed
  <1> HIDE DEF q, D
  <1>6. ASSUME NEW u \in Slot, b[u] # NONE, NEW c \in {LessOf(b[u]), GreaterOf(b[u])}
        PROVE  q[c] < q[u]
    <2>1. PICK t \in Slot : t # s /\ a[t] = b[u] /\ MovedTo(a, k, s, z, t) = u
      BY <1>6, RemovedComes
    <2>2. c \in Slot /\ r[c] < r[t]
      <3>1. a[t] \in HashKey /\ a[t] # NONE
        BY <1>0, <1>6, <2>1 DEF Pointers
      <3> QED BY <1>1, <2>1, <3>1, Slots DEF Ranks
    <2>3. r[c] \in Nat /\ r[t] \in Nat /\ r[u] \in Nat /\ r[GreaterOf(k)] \in Nat /\ r[s] \in Nat /\ r[LessOf(k)] \in Nat
      BY <1>0, <1>2, <2>2
    <2>4. r[LessOf(k)] < r[s] /\ r[GreaterOf(k)] < r[s]
      BY <1>0, <1>1 DEF Ranks
    <2>5. CASE t = LessOf(k)
      <3>1. u = s
        BY <1>0, <2>1, <2>5 DEF MovedTo
      <3>2. q[u] = r[s] + r[GreaterOf(k)] + 1
        BY <1>3, <1>5, <3>1
      <3>3. q[c] \in Nat /\ q[c] <= r[c] + r[GreaterOf(k)] + 1
        BY <1>3, <2>2, <2>3
      <3>4. r[c] < r[s]
        BY <2>2, <2>3, <2>4, <2>5
      <3> QED BY <2>3, <3>2, <3>3, <3>4
    <2>6. CASE t = GreaterOf(k)
      <3>1. c \in D
        BY <1>5, <1>6, <2>1, <2>6
      <3>2. u \notin D
        <4>1. CASE a[LessOf(k)] = NONE
          BY <1>0, <1>5, <2>1, <2>6, <4>1 DEF MovedTo
        <4>2. CASE a[LessOf(k)] # NONE
          <5>1. u = z /\ Both(a, k)
            BY <1>0, <1>6, <2>1, <2>6, <4>2 DEF MovedTo, Both
          <5> QED BY <5>1, RemovedJoin DEF D
        <4> QED BY <4>1, <4>2
      <3>3. q[u] = r[u] + r[GreaterOf(k)] + 1 /\ q[c] = r[c]
        BY <1>3, <2>2, <3>1, <3>2
      <3> QED BY <2>2, <2>3, <2>6, <3>3
    <2>7. CASE t # LessOf(k) /\ t # GreaterOf(k)
      <3>1. u = t
        BY <2>1, <2>7 DEF MovedTo
      <3>2. CASE t \in D
        <4>1. c \in D
          BY <1>5, <1>6, <2>1, <3>2
        <4>2. q[u] = r[u] /\ q[c] = r[c]
          BY <1>3, <2>2, <3>1, <3>2, <4>1
        <4> QED BY <2>2, <3>1, <4>2
      <3>3. CASE t \notin D
        <4>1. q[u] = r[u] + r[GreaterOf(k)] + 1 /\ q[c] <= r[c] + r[GreaterOf(k)] + 1 /\ q[c] \in Nat
          BY <1>3, <2>2, <2>3, <3>1, <3>3
        <4> QED BY <2>2, <2>3, <3>1, <4>1
      <3> QED BY <3>2, <3>3
    <2> QED BY <2>5, <2>6, <2>7
  <1>7. Ranks(b, q)
    BY <1>6 DEF Ranks
  <1> QED BY <1>3, <1>7

LEMMA TreesRemove ==
  ASSUME NEW a, NEW k, NEW s, NEW z, NEW b, RemovedAt(a, k, s, z, b)
  PROVE  Trees(b) /\ Present(b) = Present(a) \ {k}
  <1>0. Trees(a) /\ a \in Pointers /\ b \in Pointers /\ a[s] = k /\ s \in Slot
    BY DEF RemovedAt, Trees
  <1>1. ASSUME NEW u \in Slot, b[u] # NONE
        PROVE  u \in Path(b, b[u])
    <2>1. PICK t \in Slot : t # s /\ a[t] = b[u] /\ MovedTo(a, k, s, z, t) = u
      BY <1>1, RemovedComes
    <2>2. a[t] \in HashKey /\ a[t] # k /\ t \in Path(a, a[t])
      BY <1>0, <1>1, <2>1 DEF Trees, Pointers
    <2>3. u \in Path(b, a[t])
      BY <2>1, <2>2, RemovedPath
    <2> QED BY <2>1, <2>3
  <1> QED BY <1>0, <1>1, RemovedPresent, RemovedRanks DEF Trees

---------------------------------------------------------------------------
(* The changes of a map.                                                    *)

\* An element is replaced and the size is set.
Replaced(m, k, e, n) == [m EXCEPT !.element[k] = e, !.size = n]

IsReplaced(m, k, e, n, new) ==
    /\ new \in HashMapType /\ new.size = n
    /\ \A x \in HashKey : new.element[x].data = IF x = k THEN e.data ELSE m.element[x].data
    /\ \A t \in Slot : ElementAt(new, t) = IF t = LessOf(k) THEN e.less
                                           ELSE IF t = GreaterOf(k) THEN e.greater ELSE ElementAt(m, t)

LEMMA ElementFacts ==
  ASSUME NEW m \in HashMapType, NEW k \in HashKey, NEW e \in HashElement, NEW n \in Nat
  PROVE  IsReplaced(m, k, e, n, Replaced(m, k, e, n))
  <1> DEFINE new == Replaced(m, k, e, n)
  <1>1. /\ new \in HashMapType /\ new.size = n /\ new.table = m.table
        /\ \A x \in HashKey : new.element[x] = IF x = k THEN e ELSE m.element[x]
    BY DEF HashMapType, Replaced
  <1> HIDE DEF new
  <1>2. ASSUME NEW t \in Slot
        PROVE  ElementAt(new, t) = IF t = LessOf(k) THEN e.less
                                   ELSE IF t = GreaterOf(k) THEN e.greater ELSE ElementAt(m, t)
    <2>1. CASE \E c \in 1 .. Bucket : t = Entry(c)
      <3>1. PICK c \in 1 .. Bucket : t = Entry(c)
        BY <2>1
      <3>2. ElementAt(new, t) = new.table[c] /\ ElementAt(m, t) = m.table[c]
        BY <3>1, ElementsAt
      <3>3. t # LessOf(k) /\ t # GreaterOf(k)
        BY <3>1, Slots
      <3> QED BY <1>1, <3>2, <3>3
    <2>2. CASE \E x \in HashKey : t = LessOf(x)
      <3>1. PICK x \in HashKey : t = LessOf(x)
        BY <2>2
      <3>2. ElementAt(new, t) = new.element[x].less /\ ElementAt(m, t) = m.element[x].less
        BY <3>1, ElementsAt
      <3>3. (t = LessOf(k) <=> x = k) /\ t # GreaterOf(k)
        BY <3>1, Slots
      <3> QED BY <1>1, <3>2, <3>3
    <2>3. CASE \E x \in HashKey : t = GreaterOf(x)
      <3>1. PICK x \in HashKey : t = GreaterOf(x)
        BY <2>3
      <3>2. ElementAt(new, t) = new.element[x].greater /\ ElementAt(m, t) = m.element[x].greater
        BY <3>1, ElementsAt
      <3>3. (t = GreaterOf(k) <=> x = k) /\ t # LessOf(k)
        BY <3>1, Slots
      <3> QED BY <1>1, <3>2, <3>3
    <2> QED BY <2>1, <2>2, <2>3, SlotKinds
  <1>3. IsReplaced(m, k, e, n, new)
    BY <1>1, <1>2 DEF IsReplaced
  <1> QED BY <1>3 DEF new

LEMMA ReferFacts ==
  ASSUME NEW m \in HashMapType, NEW s \in Slot, NEW e \in HashKey \cup {NONE}
  PROVE  /\ Refer(m, s, e) \in HashMapType /\ Refer(m, s, e).size = m.size
         /\ \A x \in HashKey : Refer(m, s, e).element[x].data = m.element[x].data
         /\ \A t \in Slot : ElementAt(Refer(m, s, e), t) = IF t = s THEN e ELSE ElementAt(m, t)
  <1>0. m.size \in Nat /\ \A x \in HashKey : m.element[x] \in HashElement
    BY DEF HashMapType
  <1>1. CASE \E b \in 1 .. Bucket : s = Entry(b)
    <2>1. PICK b \in 1 .. Bucket : s = Entry(b)
      BY <1>1
    <2>2. Refer(m, s, e) = [m EXCEPT !.table[b] = e]
      BY <2>1 DEF Refer, Entry
    <2> DEFINE n == [m EXCEPT !.table[b] = e]
    <2>3. n \in HashMapType /\ n.size = m.size /\ n.element = m.element /\ \A c \in 1 .. Bucket : n.table[c] = IF c = b THEN e ELSE m.table[c]
      BY DEF HashMapType
    <2> HIDE DEF n
    <2>4. ASSUME NEW t \in Slot
          PROVE  ElementAt(n, t) = IF t = s THEN e ELSE ElementAt(m, t)
      <3>1. CASE \E c \in 1 .. Bucket : t = Entry(c)
        <4>1. PICK c \in 1 .. Bucket : t = Entry(c)
          BY <3>1
        <4>2. ElementAt(n, t) = n.table[c] /\ ElementAt(m, t) = m.table[c]
          BY <4>1, ElementsAt
        <4>3. t = s <=> c = b
          BY <2>1, <4>1, Slots
        <4> QED BY <2>3, <4>2, <4>3
      <3>2. CASE \E f \in HashKey : t = LessOf(f) \/ t = GreaterOf(f)
        BY <2>1, <2>3, <3>2, ElementsAt, Slots
      <3> QED BY <3>1, <3>2, SlotKinds
    <2>5. \A x \in HashKey : n.element[x].data = m.element[x].data
      BY <2>3
    <2>6. Refer(m, s, e) = n
      BY <2>2 DEF n
    <2> QED BY <2>3, <2>4, <2>5, <2>6
  <1>2. CASE \E f \in HashKey : s = LessOf(f)
    <2>1. PICK f \in HashKey : s = LessOf(f)
      BY <1>2
    <2> DEFINE g == [m.element[f] EXCEPT !.less = e]
    <2>2. g \in HashElement /\ g.data = m.element[f].data /\ g.less = e /\ g.greater = m.element[f].greater
      BY <1>0 DEF HashElement
    <2>3. Refer(m, s, e) = Replaced(m, f, g, m.size)
      BY <2>1 DEF Refer, LessOf, HashMapType, Replaced
    <2>4. ElementAt(m, GreaterOf(f)) = m.element[f].greater
      BY ElementsAt
    <2> HIDE DEF g
    <2>5. IsReplaced(m, f, g, m.size, Refer(m, s, e))
      BY <1>0, <2>2, <2>3, ElementFacts
    <2> QED BY <2>1, <2>2, <2>4, <2>5, Slots DEF IsReplaced
  <1>3. CASE \E f \in HashKey : s = GreaterOf(f)
    <2>1. PICK f \in HashKey : s = GreaterOf(f)
      BY <1>3
    <2> DEFINE g == [m.element[f] EXCEPT !.greater = e]
    <2>2. g \in HashElement /\ g.data = m.element[f].data /\ g.greater = e /\ g.less = m.element[f].less
      BY <1>0 DEF HashElement
    <2>3. Refer(m, s, e) = Replaced(m, f, g, m.size)
      BY <2>1 DEF Refer, GreaterOf, HashMapType, Replaced
    <2>4. ElementAt(m, LessOf(f)) = m.element[f].less
      BY ElementsAt
    <2> HIDE DEF g
    <2>5. IsReplaced(m, f, g, m.size, Refer(m, s, e))
      BY <1>0, <2>2, <2>3, ElementFacts
    <2> QED BY <2>1, <2>2, <2>4, <2>5, Slots DEF IsReplaced
  <1> QED BY <1>1, <1>2, <1>3, SlotKinds

\* The place at the end of the pointers next_greater from the element that
\* LessOf(k) refers to.
LEMMA LastGreaterFacts ==
  ASSUME NEW m \in HashMapType, Trees(PointersOf(m)), NEW k \in HashKey, m.element[k].less # NONE
  PROVE  /\ LastGreater(m, m.element[k].less) \in HashKey
         /\ GreaterOf(LastGreater(m, m.element[k].less)) \in Spine(PointersOf(m), LessOf(k))
         /\ ElementAt(m, GreaterOf(LastGreater(m, m.element[k].less))) = NONE
  <1> DEFINE a == PointersOf(m)
             next(j) == m.element[j].greater
  <1>0. /\ a \in Pointers /\ LessOf(k) \in Slot /\ a[LessOf(k)] = m.element[k].less /\ m.element[k].less \in HashKey
        /\ \A j \in HashKey : GreaterOf(j) \in Slot /\ a[GreaterOf(j)] = next(j) /\ ElementAt(m, GreaterOf(j)) = next(j) /\ next(j) \in HashKey \cup {NONE}
    BY PointersType, ElementsAt, Slots
  <1>1. PICK r \in [Slot -> Nat] : Ranks(a, r)
    BY DEF Trees
  <1> DEFINE q == [j \in HashKey |-> r[GreaterOf(j)]]
             G == [p \in HashKey \X [HashKey -> HashKey] |-> IF next(p[1]) = NONE THEN p[1] ELSE p[2][next(p[1])]]
  <1>2. ASSUME NEW j \in HashKey, next(j) # NONE
        PROVE  next(j) \in HashKey /\ r[GreaterOf(next(j))] < r[GreaterOf(j)]
    <2>1. a[GreaterOf(j)] = next(j) /\ GreaterOf(j) \in Slot /\ next(j) \in HashKey
      BY <1>0, <1>2
    <2> HIDE DEF a
    <2> QED BY <1>1, <1>2, <2>1 DEF Ranks
  <1>3. ASSUME NEW j \in HashKey, NEW g \in [HashKey -> HashKey]
        PROVE  G[<<j, g>>] = IF next(j) = NONE THEN j ELSE g[next(j)]
    OBVIOUS
  <1>4. G \in [HashKey \X [HashKey -> HashKey] -> HashKey]
    <2> SUFFICES ASSUME NEW p \in HashKey \X [HashKey -> HashKey]
                 PROVE  (IF next(p[1]) = NONE THEN p[1] ELSE p[2][next(p[1])]) \in HashKey
      OBVIOUS
    <2>1. p[1] \in HashKey /\ p[2] \in [HashKey -> HashKey]
      OBVIOUS
    <2> QED BY <1>0, <2>1
  <1>5. q \in [HashKey -> Nat] /\ \A j \in HashKey : q[j] = r[GreaterOf(j)]
    BY <1>0, <1>1
  <1> HIDE DEF G, q
  <1>6. PICK f : f \in [HashKey -> HashKey] /\ \A j \in HashKey : f[j] = G[<<j, f>>]
    <2>1. ASSUME NEW d \in HashKey, NEW g \in [HashKey -> HashKey], NEW h \in [HashKey -> HashKey],
                 \A c \in HashKey : q[c] < q[d] => g[c] = h[c]
          PROVE  G[<<d, g>>] = G[<<d, h>>]
      <3>1. CASE next(d) = NONE
        BY <1>3, <3>1
      <3>2. CASE next(d) # NONE
        <4>1. next(d) \in HashKey /\ q[next(d)] < q[d]
          BY <1>2, <1>5, <3>2
        <4>2. g[next(d)] = h[next(d)]
          BY <2>1, <4>1
        <4> QED BY <1>3, <3>2, <4>2
      <3> QED BY <3>1, <3>2
    <2>2. Decreases(HashKey, HashKey, G, q)
      BY <1>4, <1>5, <2>1 DEF Decreases
    <2>3. \E g : Recursive(HashKey, HashKey, G, g)
      BY <2>2, RecursionEnds
    <2> QED BY <2>3 DEF Recursive
  <1>7. f = [j \in HashKey |-> IF m.element[j].greater = NONE THEN j ELSE f[m.element[j].greater]]
    BY <1>3, <1>6
  <1> DEFINE F == CHOOSE g : g = [j \in HashKey |-> IF m.element[j].greater = NONE THEN j ELSE g[m.element[j].greater]]
  <1>8. F = [j \in HashKey |-> IF m.element[j].greater = NONE THEN j ELSE F[m.element[j].greater]]
    BY <1>7
  <1>9. LastGreater(m, m.element[k].less) = F[m.element[k].less]
    BY DEF LastGreater
  <1> HIDE DEF F
  <1>10. \A j \in HashKey : F[j] = IF next(j) = NONE THEN j ELSE F[next(j)]
    BY <1>8
  <1> DEFINE first == m.element[k].less
             T == {t \in Spine(a, LessOf(k)) : a[t] # NONE /\ F[a[t]] = F[first]}
             N == {r[t] : t \in T}
  <1>11. Spine(a, LessOf(k)) \in SUBSET Slot /\ SpineClosed(a, LessOf(k), Spine(a, LessOf(k)))
    BY <1>0, SpineFacts
  <1>12. LessOf(k) \in T
    BY <1>0, <1>11 DEF SpineClosed
  <1>13. PICK t \in T : \A u \in T : r[t] <= r[u]
    <2>1. N \in SUBSET Nat /\ N # {}
      BY <1>1, <1>11, <1>12
    <2>2. PICK n \in N : \A l \in N : n <= l
      <3> HIDE DEF N
      <3> QED BY <2>1, Least
    <2> QED BY <2>2
  <1>14. a[t] \in HashKey /\ GreaterOf(a[t]) \in Spine(a, LessOf(k)) /\ t \in Slot /\ a[t] # NONE
    BY <1>0, <1>11 DEF Pointers, SpineClosed
  <1>15. next(a[t]) = NONE
    <2> SUFFICES ASSUME next(a[t]) # NONE PROVE FALSE
      OBVIOUS
    <2>1. a[GreaterOf(a[t])] = next(a[t])
      BY <1>0, <1>14
    <2>2. F[a[t]] = F[next(a[t])]
      BY <1>10, <1>14
    <2>3. GreaterOf(a[t]) \in T
      BY <1>14, <2>1, <2>2
    <2>4. r[t] <= r[GreaterOf(a[t])]
      BY <1>13, <2>3
    <2>5. r[GreaterOf(a[t])] < r[t]
      <3> HIDE DEF a
      <3> QED BY <1>1, <1>14 DEF Ranks
    <2>6. r[t] \in Nat /\ r[GreaterOf(a[t])] \in Nat
      BY <1>0, <1>1, <1>14
    <2> HIDE DEF a
    <2> QED BY <2>4, <2>5, <2>6
  <1>16. F[first] = a[t]
    BY <1>10, <1>14, <1>15
  <1> QED BY <1>0, <1>9, <1>14, <1>15, <1>16

---------------------------------------------------------------------------
(* The inductive invariant of a map, and the changes that keep it.          *)

\* Map m has the trees of its elements, counts them, and has for them what was
\* entered last.
GoodMap(m, last) ==
    /\ m \in HashMapType /\ Trees(PointersOf(m))
    /\ m.size = Cardinality(Present(PointersOf(m)))
    /\ \A x \in HashKey : last[x] = IF x \in Present(PointersOf(m)) THEN m.element[x].data ELSE NONE

LEMMA PresentFinite ==
  ASSUME NEW a
  PROVE  IsFiniteSet(Present(a)) /\ Cardinality(Present(a)) \in Nat
  <1>1. Present(a) \in SUBSET HashKey /\ IsFiniteSet(HashKey)
    BY HashAssumption DEF Present
  <1> QED BY <1>1, FS_Subset, FS_CardinalityType

LEMMA EmptyGood ==
  ASSUME NEW last, \A x \in HashKey : last[x] = NONE
  PROVE  GoodMap(EmptyMap, last)
  <1>1. EmptyMap \in HashMapType
    BY DEF EmptyMap, NoElement, HashMapType, HashElement
  <1>2. \A t \in Slot : ElementAt(EmptyMap, t) = NONE
    <2>1. ASSUME NEW t \in Slot
          PROVE  ElementAt(EmptyMap, t) = NONE
      <3>1. CASE \E b \in 1 .. Bucket : t = Entry(b)
        <4>1. PICK b \in 1 .. Bucket : t = Entry(b)
          BY <3>1
        <4>2. EmptyMap.table[b] = NONE
          BY DEF EmptyMap
        <4> QED BY <4>1, <4>2, ElementsAt
      <3>2. CASE \E e \in HashKey : t = LessOf(e) \/ t = GreaterOf(e)
        <4>1. PICK e \in HashKey : t = LessOf(e) \/ t = GreaterOf(e)
          BY <3>2
        <4>2. EmptyMap.element[e].less = NONE /\ EmptyMap.element[e].greater = NONE
          BY DEF EmptyMap, NoElement
        <4>3. ElementAt(EmptyMap, LessOf(e)) = EmptyMap.element[e].less /\ ElementAt(EmptyMap, GreaterOf(e)) = EmptyMap.element[e].greater
          BY ElementsAt
        <4> QED BY <4>1, <4>2, <4>3
      <3> QED BY <3>1, <3>2, SlotKinds
    <2> QED BY <2>1
  <1> DEFINE a == PointersOf(EmptyMap)
  <1>3. a \in Pointers /\ \A t \in Slot : a[t] = NONE
    BY <1>1, <1>2, PointersType
  <1> HIDE DEF a
  <1>4. Present(a) = {}
    BY <1>3, Keys DEF Present
  <1>5. [t \in Slot |-> 0] \in [Slot -> Nat] /\ Ranks(a, [t \in Slot |-> 0])
    BY <1>3 DEF Ranks
  <1>6. Trees(a)
    BY <1>3, <1>5, Slots DEF Trees
  <1>7. EmptyMap.size = Cardinality(Present(a))
    BY <1>4, FS_EmptySet DEF EmptyMap
  <1> QED BY <1>1, <1>4, <1>6, <1>7 DEF GoodMap, a

LEMMA DataReplaced ==
  ASSUME NEW m, NEW last, GoodMap(m, last), NEW k \in HashKey, NEW d \in HashData,
         k \in Present(PointersOf(m)), NEW f, f = [last EXCEPT ![k] = d], DOMAIN last = HashKey
  PROVE  /\ GoodMap([m EXCEPT !.element[k].data = d], f)
         /\ PointersOf([m EXCEPT !.element[k].data = d]) = PointersOf(m)
  <1>1. m \in HashMapType /\ m.size \in Nat /\ m.element[k] \in HashElement
    BY DEF GoodMap, HashMapType
  <1> DEFINE e == [m.element[k] EXCEPT !.data = d]
             n == [m EXCEPT !.element[k].data = d]
  <1>2. e \in HashElement /\ e.less = m.element[k].less /\ e.greater = m.element[k].greater /\ e.data = d
    BY <1>1 DEF HashElement
  <1>3. n = Replaced(m, k, e, m.size)
    BY <1>1 DEF Replaced, HashMapType
  <1>31. \A x \in HashKey : f[x] = IF x = k THEN d ELSE last[x]
    OBVIOUS
  <1> HIDE DEF e
  <1>4. IsReplaced(m, k, e, m.size, n)
    <2> HIDE DEF n
    <2> QED BY <1>1, <1>2, <1>3, ElementFacts
  <1> HIDE DEF n
  <1>5. \A t \in Slot : ElementAt(n, t) = ElementAt(m, t)
    BY <1>2, <1>4, ElementsAt DEF IsReplaced
  <1>6. PointersOf(n) = PointersOf(m)
    BY <1>5 DEF PointersOf
  <1>7. GoodMap(n, f)
    BY <1>2, <1>31, <1>4, <1>6 DEF GoodMap, IsReplaced
  <1> QED BY <1>6, <1>7 DEF n

\* The pointers after a new element was entered.
LEMMA NewElementGood ==
  ASSUME NEW m, NEW last, GoodMap(m, last), NEW k \in HashKey, NEW d \in HashData,
         k \notin Present(PointersOf(m)), NEW f, f = [last EXCEPT ![k] = d], DOMAIN last = HashKey
  PROVE  /\ GoodMap(NewElement(m, k, d), f)
         /\ Find(m, k) \in Path(PointersOf(m), k) /\ PointersOf(m)[Find(m, k)] = NONE
         /\ PointersOf(NewElement(m, k, d))[Find(m, k)] = k
         /\ \A t \in Slot \ {Find(m, k)} : PointersOf(NewElement(m, k, d))[t] = PointersOf(m)[t]
  <1> DEFINE a == PointersOf(m)
             s == Find(m, k)
             p == Refer(m, s, k)
             e == [NoElement EXCEPT !.data = d]
             n == NewElement(m, k, d)
  <1>0. m \in HashMapType /\ Trees(a) /\ m.size = Cardinality(Present(a)) /\ m.size \in Nat
    BY DEF GoodMap, HashMapType
  <1>01. \A x \in HashKey : f[x] = IF x = k THEN d ELSE last[x]
    OBVIOUS
  <1>02. \A x \in HashKey : last[x] = IF x \in Present(a) THEN m.element[x].data ELSE NONE
    BY DEF GoodMap
  <1>1. a \in Pointers /\ \A t \in Slot : a[t] = ElementAt(m, t)
    BY <1>0, PointersType
  <1>2. s \in Slot /\ s \in Path(a, k) /\ a[s] = NONE /\ k # NONE
    BY <1>0, <1>1, FindFacts, Keys
  <1>3. e \in HashElement /\ e.less = NONE /\ e.greater = NONE /\ e.data = d
    BY DEF NoElement, HashElement
  <1>4. /\ p \in HashMapType /\ p.size = m.size /\ \A x \in HashKey : p.element[x].data = m.element[x].data
        /\ \A t \in Slot : ElementAt(p, t) = IF t = s THEN k ELSE ElementAt(m, t)
    BY <1>0, <1>2, ReferFacts
  <1>5. n = Replaced(p, k, e, p.size + 1)
    BY <1>4 DEF NewElement, Replaced
  <1> HIDE DEF e, p, n, s
  <1>6. IsReplaced(p, k, e, p.size + 1, n)
    BY <1>0, <1>3, <1>4, <1>5, ElementFacts
  <1>7. s # LessOf(k) /\ s # GreaterOf(k) /\ a[LessOf(k)] = NONE /\ a[GreaterOf(k)] = NONE /\ LessOf(k) \in Slot /\ GreaterOf(k) \in Slot
    BY <1>0, <1>1, <1>2, PathSlots, Slots DEF Trees
  <1> DEFINE b == PointersOf(n)
  <1>8. b \in Pointers /\ \A t \in Slot : b[t] = ElementAt(n, t)
    BY <1>6, PointersType DEF IsReplaced
  <1>9. b[s] = k /\ \A t \in Slot \ {s} : b[t] = a[t]
    BY <1>1, <1>2, <1>3, <1>4, <1>6, <1>7, <1>8 DEF IsReplaced
  <1> HIDE DEF a, b
  <1>10. Trees(b) /\ Present(b) = Present(a) \cup {k}
    BY <1>0, <1>2, <1>8, <1>9, TreesInsert
  <1>11. n.size = Cardinality(Present(b))
    <2>1. Cardinality(Present(a) \cup {k}) = Cardinality(Present(a)) + 1
      BY PresentFinite, FS_AddElement DEF a
    <2> QED BY <1>0, <1>4, <1>6, <1>10, <2>1 DEF IsReplaced
  <1>12. ASSUME NEW x \in HashKey
         PROVE  f[x] = IF x \in Present(b) THEN n.element[x].data ELSE NONE
    <2>1. n.element[x].data = IF x = k THEN d ELSE m.element[x].data
      BY <1>3, <1>4, <1>6 DEF IsReplaced
    <2> QED BY <1>01, <1>02, <1>10, <2>1
  <1>13. GoodMap(n, f)
    BY <1>6, <1>10, <1>11, <1>12 DEF GoodMap, IsReplaced, b
  <1> QED BY <1>2, <1>9, <1>13 DEF a, b, n, s

LEMMA InclGood ==
  ASSUME NEW m, NEW last, GoodMap(m, last), NEW k \in HashKey, NEW d \in HashData, DOMAIN last = HashKey
  PROVE  GoodMap(hshIncl(m, k, d), [last EXCEPT ![k] = d])
  <1>1. m \in HashMapType /\ Trees(PointersOf(m))
    BY DEF GoodMap
  <1>2. hshContains(m, k) <=> k \in Present(PointersOf(m))
    BY <1>1, FindFacts DEF hshContains
  <1>3. CASE hshContains(m, k)
    BY <1>2, <1>3, DataReplaced DEF hshIncl
  <1>4. CASE ~hshContains(m, k)
    BY <1>2, <1>4, NewElementGood DEF hshIncl
  <1> QED BY <1>3, <1>4

LEMMA ExclGood ==
  ASSUME NEW m, NEW last, GoodMap(m, last), NEW k \in HashKey, DOMAIN last = HashKey
  PROVE  GoodMap(hshExcl(m, k), [last EXCEPT ![k] = NONE])
  <1> DEFINE a == PointersOf(m)
             s == Find(m, k)
             f == [last EXCEPT ![k] = NONE]
  <1>0. m \in HashMapType /\ Trees(a) /\ m.size = Cardinality(Present(a)) /\ m.size \in Nat
    BY DEF GoodMap, HashMapType
  <1>01. \A x \in HashKey : f[x] = IF x = k THEN NONE ELSE last[x]
    OBVIOUS
  <1>02. \A x \in HashKey : last[x] = IF x \in Present(a) THEN m.element[x].data ELSE NONE
    BY DEF GoodMap
  <1>03. DOMAIN f = HashKey
    OBVIOUS
  <1>1. a \in Pointers /\ \A t \in Slot : a[t] = ElementAt(m, t)
    BY <1>0, PointersType
  <1>2. s \in Slot /\ s \in Path(a, k) /\ a[s] \in {NONE, k} /\ k # NONE /\ (a[s] = k <=> k \in Present(a))
    BY <1>0, <1>1, FindFacts, Keys
  <1> HIDE DEF f
  <1>3. CASE a[s] # k
    <2>1. hshExcl(m, k) = m
      BY <1>1, <1>2, <1>3 DEF hshExcl
    <2>2. \A x \in HashKey : f[x] = last[x]
      BY <1>01, <1>02, <1>2, <1>3
    <2>3. GoodMap(m, f)
      BY <1>0, <1>02, <2>2 DEF GoodMap
    <2> QED BY <2>1, <2>3 DEF f
  <1>4. CASE a[s] = k
    <2> DEFINE e == m.element[k]
               last0 == LastGreater(m, e.less)
               z == IF e.less # NONE /\ e.greater # NONE THEN GreaterOf(last0) ELSE s
               moved == Refer(m, s, IF e.less = NONE THEN e.greater ELSE e.less)
               joined == IF e.less # NONE /\ e.greater # NONE THEN Refer(moved, z, e.greater) ELSE moved
               n == hshExcl(m, k)
    <2>1. e \in HashElement /\ e.less \in HashKey \cup {NONE} /\ e.greater \in HashKey \cup {NONE}
      <3>1. e \in HashElement
        BY <1>0 DEF HashMapType
      <3> QED BY <3>1 DEF HashElement
    <2>2. a[LessOf(k)] = e.less /\ a[GreaterOf(k)] = e.greater
      BY <1>1, ElementsAt, Slots
    <2>3. /\ z \in Slot
          /\ Both(a, k) => z \in Spine(a, LessOf(k)) /\ a[z] = NONE
      <3>1. CASE e.less # NONE /\ e.greater # NONE
        BY <1>0, <1>1, <3>1, LastGreaterFacts, Slots
      <3>2. CASE ~(e.less # NONE /\ e.greater # NONE)
        BY <1>2, <2>2, <3>2 DEF Both
      <3> QED BY <3>1, <3>2
    <2>4. n = [joined EXCEPT !.element[k] = NoElement, !.size = @ - 1]
      BY <1>1, <1>2, <1>4 DEF hshExcl, GreaterOf
    <2> HIDE DEF n, z, e
    <2>5. /\ moved \in HashMapType /\ moved.size = m.size /\ \A x \in HashKey : moved.element[x].data = m.element[x].data
          /\ \A t \in Slot : ElementAt(moved, t) = IF t = s THEN IF e.less = NONE THEN e.greater ELSE e.less ELSE ElementAt(m, t)
      <3>1. (IF e.less = NONE THEN e.greater ELSE e.less) \in HashKey \cup {NONE}
        BY <2>1
      <3> QED BY <1>0, <1>2, <3>1, ReferFacts
    <2> HIDE DEF moved
    <2>6. /\ joined \in HashMapType /\ joined.size = m.size /\ \A x \in HashKey : joined.element[x].data = m.element[x].data
          /\ \A t \in Slot : ElementAt(joined, t) = IF e.less # NONE /\ e.greater # NONE /\ t = z THEN e.greater ELSE ElementAt(moved, t)
      <3>1. CASE e.less # NONE /\ e.greater # NONE
        <4>1. joined = Refer(moved, z, e.greater)
          BY <3>1
        <4> HIDE DEF joined
        <4>2. /\ Refer(moved, z, e.greater) \in HashMapType /\ Refer(moved, z, e.greater).size = moved.size
              /\ \A x \in HashKey : Refer(moved, z, e.greater).element[x].data = moved.element[x].data
              /\ \A t \in Slot : ElementAt(Refer(moved, z, e.greater), t) = IF t = z THEN e.greater ELSE ElementAt(moved, t)
          <5>1. e.greater \in HashKey \cup {NONE} /\ z \in Slot /\ moved \in HashMapType
            BY <2>1, <2>3, <2>5, <3>1
          <5> DEFINE g == e.greater
          <5> HIDE DEF g
          <5>2. g \in HashKey \cup {NONE}
            BY <5>1 DEF g
          <5>3. /\ Refer(moved, z, g) \in HashMapType /\ Refer(moved, z, g).size = moved.size
                /\ \A x \in HashKey : Refer(moved, z, g).element[x].data = moved.element[x].data
                /\ \A t \in Slot : ElementAt(Refer(moved, z, g), t) = IF t = z THEN g ELSE ElementAt(moved, t)
            BY <5>1, <5>2, ReferFacts
          <5> QED BY <5>3 DEF g
        <4> QED BY <2>5, <3>1, <4>1, <4>2
      <3>2. CASE ~(e.less # NONE /\ e.greater # NONE)
        <4>1. joined = moved
          BY <3>2
        <4> HIDE DEF joined
        <4> QED BY <2>5, <3>2, <4>1
      <3> QED BY <3>1, <3>2
    <2> HIDE DEF joined
    <2>7. k \in Present(a) /\ joined.size - 1 \in Nat
      <3>1. k \in Present(a)
        BY <1>2, <1>4
      <3>2. Cardinality(Present(a)) # 0
        BY <3>1, PresentFinite, FS_EmptySet
      <3> QED BY <1>0, <2>6, <3>1, <3>2
    <2>8. NoElement \in HashElement /\ NoElement.less = NONE /\ NoElement.greater = NONE
      BY DEF NoElement, HashElement
    <2>9. n = Replaced(joined, k, NoElement, joined.size - 1)
      BY <2>4, <2>6 DEF Replaced, HashMapType
    <2>10. IsReplaced(joined, k, NoElement, joined.size - 1, n)
      BY <2>6, <2>7, <2>8, <2>9, ElementFacts
    <2> DEFINE b == PointersOf(n)
    <2>11. b \in Pointers /\ \A t \in Slot : b[t] = ElementAt(n, t)
      BY <2>10, PointersType DEF IsReplaced
    <2>12. Both(a, k) => z # s
      BY <1>2, <1>4, <2>3
    <2>13. ASSUME NEW t \in Slot
           PROVE  b[t] = Removed(a, k, s, z, t)
      <3>1. CASE t = LessOf(k) \/ t = GreaterOf(k)
        BY <2>8, <2>10, <2>11, <3>1 DEF IsReplaced, Removed
      <3>2. CASE t # LessOf(k) /\ t # GreaterOf(k)
        <4>1. b[t] = ElementAt(joined, t)
          BY <2>10, <2>11, <3>2 DEF IsReplaced
        <4>2. a[t] = ElementAt(m, t)
          BY <1>1
        <4> HIDE DEF a, b, s
        <4> QED BY <2>2, <2>5, <2>6, <2>12, <3>2, <4>1, <4>2 DEF Removed, Both
      <3> QED BY <3>1, <3>2
    <2>14. RemovedAt(a, k, s, z, b)
      <3> HIDE DEF a, b, s
      <3> QED BY <1>0, <1>2, <1>4, <2>3, <2>11, <2>13 DEF RemovedAt
    <2>15. Trees(b) /\ Present(b) = Present(a) \ {k}
      <3> HIDE DEF a, b, s
      <3> QED BY <2>14, TreesRemove
    <2>16. n.size = Cardinality(Present(b))
      <3>1. Cardinality(Present(a) \ {k}) = Cardinality(Present(a)) - 1
        BY <2>7, PresentFinite, FS_RemoveElement
      <3> HIDE DEF a, b, s
      <3> QED BY <1>0, <2>6, <2>10, <2>15, <3>1 DEF IsReplaced
    <2>17. ASSUME NEW x \in HashKey
           PROVE  f[x] = IF x \in Present(b) THEN n.element[x].data ELSE NONE
      <3>1. x # k => n.element[x].data = m.element[x].data
        BY <2>6, <2>10 DEF IsReplaced
      <3> HIDE DEF a, b, s
      <3> QED BY <1>01, <1>02, <2>15, <3>1
    <2>18. GoodMap(n, f)
      BY <2>10, <2>15, <2>16, <2>17 DEF GoodMap, IsReplaced
    <2> QED BY <2>18 DEF n, f
  <1> QED BY <1>3, <1>4

---------------------------------------------------------------------------
(* The elements in the order of a loop.                                     *)

KeysBelow(a, t) == {y \in HashKey : \E u \in Below(a, t) : a[u] = y}

LEMMA BelowSplits ==
  ASSUME NEW a, Trees(a), NEW t \in Slot
  PROVE  /\ a[t] = NONE => Below(a, t) = {t}
         /\ a[t] # NONE => Below(a, t) = {t} \cup Below(a, LessOf(a[t])) \cup Below(a, GreaterOf(a[t]))
  <1>0. a \in Pointers
    BY DEF Trees
  <1>1. t \in Below(a, t) /\ Below(a, t) \in SUBSET Slot /\ BelowClosed(a, t, Below(a, t))
    BY <1>0, BelowFacts DEF BelowClosed
  <1>2. ASSUME a[t] = NONE
        PROVE  Below(a, t) = {t}
    <2>1. BelowClosed(a, t, {t}) /\ {t} \in SUBSET Slot
      BY <1>2 DEF BelowClosed
    <2> QED BY <1>0, <1>1, <2>1, BelowFacts
  <1>3. ASSUME a[t] # NONE
        PROVE  Below(a, t) = {t} \cup Below(a, LessOf(a[t])) \cup Below(a, GreaterOf(a[t]))
    <2> DEFINE l == LessOf(a[t])
               g == GreaterOf(a[t])
               X == {t} \cup Below(a, l) \cup Below(a, g)
    <2>1. l \in Slot /\ g \in Slot
      BY <1>3, ChildrenApart
    <2>2. l \in Below(a, t) /\ g \in Below(a, t)
      BY <1>1, <1>3 DEF BelowClosed
    <2>3. BelowClosed(a, l, Below(a, l)) /\ Below(a, l) \in SUBSET Slot /\ BelowClosed(a, g, Below(a, g)) /\ Below(a, g) \in SUBSET Slot
      BY <1>0, <2>1, BelowFacts
    <2>4. Below(a, l) \subseteq Below(a, t) /\ Below(a, g) \subseteq Below(a, t)
      <3>1. BelowClosed(a, l, Below(a, t)) /\ BelowClosed(a, g, Below(a, t))
        BY <1>1, <2>2 DEF BelowClosed
      <3> HIDE DEF l, g
      <3> QED BY <1>0, <1>1, <2>1, <3>1, BelowFacts
    <2>5. BelowClosed(a, t, X)
      <3>1. ASSUME NEW v \in X, a[v] # NONE
            PROVE  LessOf(a[v]) \in X /\ GreaterOf(a[v]) \in X
        <4>1. CASE v = t
          BY <2>3, <4>1 DEF BelowClosed
        <4>2. CASE v \in Below(a, l)
          BY <2>3, <3>1, <4>2 DEF BelowClosed
        <4>3. CASE v \in Below(a, g)
          BY <2>3, <3>1, <4>3 DEF BelowClosed
        <4> QED BY <4>1, <4>2, <4>3
      <3>2. t \in X
        OBVIOUS
      <3> HIDE DEF X
      <3> QED BY <3>1, <3>2 DEF BelowClosed
    <2>6. X \in SUBSET Slot
      BY <2>3
    <2>7. Below(a, t) \subseteq X
      <3> HIDE DEF X
      <3> QED BY <1>0, <2>5, <2>6, BelowFacts
    <2> QED BY <1>1, <2>4, <2>7
  <1> QED BY <1>2, <1>3

LEMMA KeysSplit ==
  ASSUME NEW a, Trees(a), NEW t \in Slot
  PROVE  /\ IsFiniteSet(KeysBelow(a, t)) /\ Cardinality(KeysBelow(a, t)) \in Nat
         /\ a[t] = NONE => KeysBelow(a, t) = {} /\ Cardinality(KeysBelow(a, t)) = 0
         /\ a[t] # NONE => /\ a[t] \in KeysBelow(a, t)
                           /\ KeysBelow(a, LessOf(a[t])) \subseteq KeysBelow(a, t)
                           /\ KeysBelow(a, GreaterOf(a[t])) \subseteq KeysBelow(a, t)
                           /\ Cardinality(KeysBelow(a, t)) = 1 + Cardinality(KeysBelow(a, LessOf(a[t])))
                                                               + Cardinality(KeysBelow(a, GreaterOf(a[t])))
  <1>0. a \in Pointers
    BY DEF Trees
  <1>1. \A u : IsFiniteSet(KeysBelow(a, u)) /\ Cardinality(KeysBelow(a, u)) \in Nat
    <2>1. \A u : KeysBelow(a, u) \in SUBSET HashKey
      BY DEF KeysBelow
    <2> QED BY <2>1, HashAssumption, FS_Subset, FS_CardinalityType
  <1>2. ASSUME a[t] = NONE
        PROVE  KeysBelow(a, t) = {} /\ Cardinality(KeysBelow(a, t)) = 0
    <2>1. KeysBelow(a, t) = {}
      BY <1>2, BelowSplits, Keys DEF KeysBelow
    <2> QED BY <2>1, FS_EmptySet
  <1>3. ASSUME a[t] # NONE
        PROVE  /\ a[t] \in KeysBelow(a, t)
               /\ KeysBelow(a, LessOf(a[t])) \subseteq KeysBelow(a, t)
               /\ KeysBelow(a, GreaterOf(a[t])) \subseteq KeysBelow(a, t)
               /\ Cardinality(KeysBelow(a, t)) = 1 + Cardinality(KeysBelow(a, LessOf(a[t])))
                                                   + Cardinality(KeysBelow(a, GreaterOf(a[t])))
    <2> DEFINE L == KeysBelow(a, LessOf(a[t]))
               R == KeysBelow(a, GreaterOf(a[t]))
    <2>1. a[t] \in HashKey /\ LessOf(a[t]) \in Slot /\ GreaterOf(a[t]) \in Slot
      BY <1>0, <1>3, ChildrenApart DEF Pointers
    <2>2. KeysBelow(a, t) = {a[t]} \cup L \cup R
      BY <1>3, <2>1, BelowSplits DEF KeysBelow
    <2>3. Below(a, LessOf(a[t])) \in SUBSET Slot /\ Below(a, GreaterOf(a[t])) \in SUBSET Slot
      BY <1>0, <2>1, BelowFacts
    <2>4. a[t] \notin L \cup R
      <3>1. \A u \in Slot : a[u] = a[t] => u = t
        BY <1>3 DEF Trees
      <3> QED BY <1>3, <2>3, <3>1, ChildrenApart DEF KeysBelow
    <2>5. L \cap R = {}
      <3> SUFFICES ASSUME NEW y \in L \cap R PROVE FALSE
        OBVIOUS
      <3>1. PICK u \in Below(a, LessOf(a[t])), v \in Below(a, GreaterOf(a[t])) : a[u] = y /\ a[v] = y
        BY DEF KeysBelow
      <3>2. y # NONE
        BY Keys DEF KeysBelow
      <3>3. u = v
        BY <2>3, <3>1, <3>2 DEF Trees
      <3> QED BY <1>3, <3>1, <3>3, ChildrenApart
    <2>6. IsFiniteSet(L) /\ IsFiniteSet(R) /\ Cardinality(L) \in Nat /\ Cardinality(R) \in Nat
      BY <1>1
    <2> HIDE DEF L, R
    <2>7. IsFiniteSet(L \cup R) /\ Cardinality(L \cup R) = Cardinality(L) + Cardinality(R)
      <3>1. Cardinality(L \cap R) = 0
        BY <2>5, FS_EmptySet
      <3>2. IsFiniteSet(L \cup R) /\ Cardinality(L \cup R) = Cardinality(L) + Cardinality(R) - Cardinality(L \cap R)
        BY <2>6, FS_Union
      <3> QED BY <2>6, <3>1, <3>2
    <2>8. Cardinality((L \cup R) \cup {a[t]}) = Cardinality(L \cup R) + 1
      BY <2>4, <2>7, FS_AddElement
    <2>9. KeysBelow(a, t) = (L \cup R) \cup {a[t]}
      BY <2>2
    <2>10. Cardinality(KeysBelow(a, t)) = 1 + Cardinality(L) + Cardinality(R)
      BY <2>6, <2>7, <2>8, <2>9
    <2> QED BY <2>2, <2>10 DEF L, R
  <1> QED BY <1>1, <1>2, <1>3

\* The keys of a bucket are those of the elements that are reached from its entry.
LEMMA KeysOfBucket ==
  ASSUME NEW a, Trees(a), NEW b \in 1 .. Bucket
  PROVE  KeysBelow(a, Entry(b)) = {x \in Present(a) : hashCode(x) = b}
  <1>0. a \in Pointers /\ \A c \in 1 .. Bucket : Entry(c) \in Slot
    BY Slots DEF Trees
  <1>1. ASSUME NEW x \in Present(a)
        PROVE  x \in KeysBelow(a, Entry(hashCode(x)))
    <2>1. PICK t \in Slot : a[t] = x
      BY DEF Present
    <2>2. x \in HashKey /\ x # NONE /\ hashCode(x) \in 1 .. Bucket
      BY Keys DEF Present
    <2>3. t \in Path(a, x)
      BY <2>1, <2>2 DEF Trees
    <2> DEFINE X == Below(a, Entry(hashCode(x)))
    <2>4. PathClosed(a, x, X)
      <3>1. Entry(hashCode(x)) \in X /\ X \in SUBSET Slot
        BY <1>0, <2>2, BelowFacts DEF BelowClosed
      <3>2. ASSUME NEW s \in X, GoesOn(a, x, s)
            PROVE  NextSlot(a, x, s) \in X
        <4>1. NextSlot(a, x, s) \in {LessOf(a[s]), GreaterOf(a[s])} /\ a[s] # NONE
          BY <1>0, <2>2, <3>1, <3>2, NextIsSlot DEF GoesOn
        <4>2. BelowClosed(a, Entry(hashCode(x)), X)
          BY <1>0, <2>2, BelowFacts
        <4> QED BY <3>2, <4>1, <4>2 DEF BelowClosed
      <3> HIDE DEF X
      <3> QED BY <3>1, <3>2 DEF PathClosed
    <2>5. t \in X
      <3>1. X \in SUBSET Slot
        BY <1>0, <2>2, BelowFacts
      <3> HIDE DEF X
      <3> QED BY <1>0, <2>2, <2>3, <2>4, <3>1, PathFacts
    <2> QED BY <2>1, <2>2, <2>5 DEF KeysBelow
  <1>2. ASSUME NEW x \in KeysBelow(a, Entry(b))
        PROVE  x \in Present(a) /\ hashCode(x) = b
    <2>1. x \in HashKey /\ x # NONE /\ hashCode(x) \in 1 .. Bucket
      BY Keys DEF KeysBelow
    <2>2. PICK u \in Below(a, Entry(b)) : a[u] = x
      BY DEF KeysBelow
    <2>3. u \in Slot
      BY <1>0, BelowFacts
    <2>4. x \in Present(a)
      BY <2>1, <2>2, <2>3 DEF Present
    <2>5. PICK v \in Below(a, Entry(hashCode(x))) : a[v] = x
      BY <1>1, <2>4 DEF KeysBelow
    <2>6. v \in Slot
      BY <1>0, <2>1, <2>5, BelowFacts
    <2>7. u = v
      BY <2>1, <2>2, <2>3, <2>5, <2>6 DEF Trees
    <2>8. ASSUME hashCode(x) # b
          PROVE  FALSE
      <3>1. Entry(b) # Entry(hashCode(x)) /\ \A e : Entry(b) # LessOf(e) /\ Entry(b) # GreaterOf(e) /\ Entry(hashCode(x)) # LessOf(e) /\ Entry(hashCode(x)) # GreaterOf(e)
        BY <2>8, Slots
      <3>2. Entry(b) \notin Below(a, Entry(hashCode(x))) /\ Entry(hashCode(x)) \notin Below(a, Entry(b))
        BY <1>0, <2>1, <3>1, BelowFacts
      <3>3. Below(a, Entry(b)) \cap Below(a, Entry(hashCode(x))) = {}
        BY <1>0, <2>1, <3>2, BelowDisjoint
      <3> QED BY <2>2, <2>5, <2>7, <3>3
    <2> QED BY <2>4, <2>8
  <1>3. ASSUME NEW x \in Present(a), hashCode(x) = b
        PROVE  x \in KeysBelow(a, Entry(b))
    BY <1>1, <1>3
  <1> QED BY <1>2, <1>3

HashKeyOrNone == HashKey \cup {NONE}

\* The sequence that Tree builds from an element and the sequences W of the next
\* elements.
Step(m, W, j) == IF j = NONE THEN <<>> ELSE <<j>> \o W[m.element[j].less] \o W[m.element[j].greater]

LEMMA WalkExists ==
  ASSUME NEW m \in HashMapType, Trees(PointersOf(m))
  PROVE  \E W : W = [j \in HashKeyOrNone |-> Step(m, W, j)]
  <1> DEFINE a == PointersOf(m)
  <1>0. a \in Pointers /\ \A j \in HashKey : /\ LessOf(j) \in Slot /\ a[LessOf(j)] = m.element[j].less
                                             /\ GreaterOf(j) \in Slot /\ a[GreaterOf(j)] = m.element[j].greater
                                             /\ m.element[j].less \in HashKeyOrNone /\ m.element[j].greater \in HashKeyOrNone
    BY PointersType, ElementsAt, Slots DEF HashKeyOrNone
  <1>1. PICK r \in [Slot -> Nat] : Ranks(a, r)
    BY DEF Trees
  <1> DEFINE higher(j) == IF r[LessOf(j)] < r[GreaterOf(j)] THEN r[GreaterOf(j)] ELSE r[LessOf(j)]
             q == [j \in HashKeyOrNone |-> IF j = NONE THEN 0 ELSE higher(j) + 1]
             E == Seq(HashKey)
             G == [p \in HashKeyOrNone \X [HashKeyOrNone -> E] |-> Step(m, p[2], p[1])]
  <1>2. \A j \in HashKey : r[LessOf(j)] \in Nat /\ r[GreaterOf(j)] \in Nat /\ higher(j) \in Nat /\ r[LessOf(j)] <= higher(j) /\ r[GreaterOf(j)] <= higher(j)
    <2>1. ASSUME NEW j \in HashKey
          PROVE  r[LessOf(j)] \in Nat /\ r[GreaterOf(j)] \in Nat
      BY <1>0, <1>1
    <2> QED BY <2>1
  <1>3. q \in [HashKeyOrNone -> Nat] /\ q[NONE] = 0 /\ \A j \in HashKey : q[j] = higher(j) + 1
    <2>1. \A j \in HashKeyOrNone : j = NONE \/ j \in HashKey
      BY DEF HashKeyOrNone
    <2>2. NONE \in HashKeyOrNone /\ HashKey \subseteq HashKeyOrNone /\ NONE \notin HashKey
      BY Keys DEF HashKeyOrNone
    <2>3. \A j \in HashKey : higher(j) + 1 \in Nat
      BY <1>2
    <2> HIDE DEF higher
    <2> QED BY <2>1, <2>2, <2>3
  <1>4. ASSUME NEW j \in HashKey, NEW c \in {m.element[j].less, m.element[j].greater}
        PROVE  c \in HashKeyOrNone /\ q[c] < q[j]
    <2>1. c \in HashKeyOrNone
      BY <1>0
    <2>2. CASE c = NONE
      <3>1. q[c] = 0 /\ q[j] = higher(j) + 1 /\ higher(j) \in Nat
        BY <1>2, <1>3, <2>2
      <3> HIDE DEF higher, q
      <3> QED BY <2>1, <3>1
    <2>3. CASE c # NONE
      <3>1. c \in HashKey
        BY <2>1, <2>3 DEF HashKeyOrNone
      <3>2. PICK t \in {LessOf(j), GreaterOf(j)} : t \in Slot /\ a[t] = c
        BY <1>0
      <3>3. r[LessOf(c)] < r[t] /\ r[GreaterOf(c)] < r[t]
        <4> HIDE DEF a
        <4> QED BY <1>1, <2>3, <3>2 DEF Ranks
      <3>4. higher(c) < r[t] /\ r[t] <= higher(j) /\ r[t] \in Nat
        <4>1. higher(c) = r[LessOf(c)] \/ higher(c) = r[GreaterOf(c)]
          OBVIOUS
        <4>2. r[t] <= higher(j) /\ r[t] \in Nat
          BY <1>2, <3>2
        <4> QED BY <3>3, <4>1, <4>2
      <3>5. q[c] = higher(c) + 1 /\ q[j] = higher(j) + 1 /\ higher(c) \in Nat /\ higher(j) \in Nat
        BY <1>2, <1>3, <3>1
      <3> HIDE DEF higher, q
      <3> QED BY <2>1, <3>4, <3>5
    <2> QED BY <2>2, <2>3
  <1> HIDE DEF q
  <1>5. ASSUME NEW j \in HashKeyOrNone, NEW g \in [HashKeyOrNone -> E]
        PROVE  G[<<j, g>>] = Step(m, g, j) /\ Step(m, g, j) \in E
    <2>0. G[<<j, g>>] = Step(m, g, j)
      OBVIOUS
    <2>1. CASE j = NONE
      <3>1. Step(m, g, j) = <<>>
        BY <2>1 DEF Step
      <3>2. <<>> \in E
        OBVIOUS
      <3> HIDE DEF E, G
      <3> QED BY <2>0, <3>1, <3>2
    <2>2. CASE j # NONE
      <3>1. j \in HashKey /\ m.element[j].less \in HashKeyOrNone /\ m.element[j].greater \in HashKeyOrNone
        BY <1>0, <2>2 DEF HashKeyOrNone
      <3>2. <<j>> \in E /\ g[m.element[j].less] \in E /\ g[m.element[j].greater] \in E
        BY <3>1
      <3>3. \A x, y, z \in E : x \o y \o z \in E
        OBVIOUS
      <3>4. Step(m, g, j) = <<j>> \o g[m.element[j].less] \o g[m.element[j].greater]
        BY <2>2 DEF Step
      <3> HIDE DEF a, E, G
      <3> QED BY <2>0, <3>2, <3>3, <3>4
    <2> QED BY <2>1, <2>2
  <1>6. G \in [HashKeyOrNone \X [HashKeyOrNone -> E] -> E]
    <2> SUFFICES ASSUME NEW p \in HashKeyOrNone \X [HashKeyOrNone -> E]
                 PROVE  Step(m, p[2], p[1]) \in E
      OBVIOUS
    <2>1. p[1] \in HashKeyOrNone /\ p[2] \in [HashKeyOrNone -> E]
      OBVIOUS
    <2> HIDE DEF E, G
    <2> QED BY <1>5, <2>1
  <1>7. ASSUME NEW d \in HashKeyOrNone, NEW g \in [HashKeyOrNone -> E], NEW h \in [HashKeyOrNone -> E],
               \A c \in HashKeyOrNone : q[c] < q[d] => g[c] = h[c]
        PROVE  G[<<d, g>>] = G[<<d, h>>]
    <2>1. Step(m, g, d) = Step(m, h, d)
      <3>1. CASE d = NONE
        BY <3>1 DEF Step
      <3>2. CASE d # NONE
        <4>1. d \in HashKey
          BY <3>2 DEF HashKeyOrNone
        <4>2. g[m.element[d].less] = h[m.element[d].less] /\ g[m.element[d].greater] = h[m.element[d].greater]
          BY <1>4, <1>7, <4>1
        <4> QED BY <3>2, <4>2 DEF Step
      <3> QED BY <3>1, <3>2
    <2> HIDE DEF E, G
    <2> QED BY <1>5, <2>1
  <1>8. Decreases(HashKeyOrNone, E, G, q)
    <2>1. E # {}
      <3>1. <<>> \in E
        OBVIOUS
      <3> QED BY <3>1
    <2> HIDE DEF E, G
    <2> QED BY <1>3, <1>6, <1>7, <2>1 DEF Decreases
  <1>9. PICK W : Recursive(HashKeyOrNone, E, G, W)
    <2> HIDE DEF E, G
    <2> QED BY <1>8, RecursionEnds
  <1>10. W \in [HashKeyOrNone -> E] /\ \A j \in HashKeyOrNone : W[j] = Step(m, W, j)
    <2> HIDE DEF E, G
    <2> QED BY <1>5, <1>9 DEF Recursive
  <1>11. W = [j \in HashKeyOrNone |-> Step(m, W, j)]
    BY <1>10
  <1> QED BY <1>11

\* The sequence has every element that is reached from a slot once.
LEMMA WalkKeys ==
  ASSUME NEW m \in HashMapType, Trees(PointersOf(m)), NEW t \in Slot
  PROVE  LET a == PointersOf(m)
             w == Tree(m, a[t])
         IN  /\ Len(w) = Cardinality(KeysBelow(a, t))
             /\ \A i \in 1 .. Len(w) : w[i] \in KeysBelow(a, t)
  <1> DEFINE a == PointersOf(m)
             W == CHOOSE g : g = [j \in HashKeyOrNone |-> Step(m, g, j)]
             Fits(u) == /\ W[a[u]] \in Seq(HashKey) /\ Len(W[a[u]]) = Cardinality(KeysBelow(a, u))
                        /\ \A i \in 1 .. Len(W[a[u]]) : W[a[u]][i] \in KeysBelow(a, u)
  <1>1. a \in Pointers /\ Trees(a)
    BY DEF Trees
  <1>2. \A j : Tree(m, j) = W[j]
    BY DEF Tree, HashKeyOrNone, Step
  <1>3. W = [j \in HashKeyOrNone |-> Step(m, W, j)]
    BY WalkExists
  <1> HIDE DEF W
  <1>4. \A j \in HashKeyOrNone : W[j] = Step(m, W, j)
    BY <1>3
  <1>5. PICK r \in [Slot -> Nat] : Ranks(a, r)
    BY <1>1 DEF Trees
  <1>6. \A j \in HashKey : /\ LessOf(j) \in Slot /\ a[LessOf(j)] = m.element[j].less
                           /\ GreaterOf(j) \in Slot /\ a[GreaterOf(j)] = m.element[j].greater
    BY <1>1, PointersType, ElementsAt, Slots
  <1>7. ASSUME NEW u \in Slot, \A v \in Slot : r[v] < r[u] => Fits(v)
        PROVE  Fits(u)
    <2>1. CASE a[u] = NONE
      <3>1. W[a[u]] = <<>>
        BY <1>4, <2>1 DEF Step, HashKeyOrNone
      <3>2. Cardinality(KeysBelow(a, u)) = 0
        BY <1>1, <2>1, KeysSplit
      <3> HIDE DEF a
      <3> QED BY <3>1, <3>2
    <2>2. CASE a[u] # NONE
      <3> DEFINE e == a[u]
                 x == W[a[LessOf(e)]]
                 y == W[a[GreaterOf(e)]]
      <3>1. e \in HashKey /\ e \in HashKeyOrNone
        BY <1>1, <2>2 DEF Pointers, HashKeyOrNone
      <3>2. W[e] = <<e>> \o x \o y
        <4>1. a[LessOf(e)] = m.element[e].less /\ a[GreaterOf(e)] = m.element[e].greater
          BY <1>6, <3>1
        <4>2. W[e] = Step(m, W, e)
          BY <1>4, <3>1
        <4> HIDE DEF a
        <4> QED BY <2>2, <4>1, <4>2 DEF Step
      <3>3. LessOf(e) \in Slot /\ GreaterOf(e) \in Slot /\ r[LessOf(e)] < r[u] /\ r[GreaterOf(e)] < r[u]
        <4>1. LessOf(e) \in Slot /\ GreaterOf(e) \in Slot
          BY <1>6, <3>1
        <4> HIDE DEF a
        <4> QED BY <1>5, <2>2, <4>1 DEF Ranks
      <3>4. Fits(LessOf(e)) /\ Fits(GreaterOf(e))
        BY <1>7, <3>3
      <3> DEFINE K == KeysBelow(a, u)
                 L == KeysBelow(a, LessOf(e))
                 R == KeysBelow(a, GreaterOf(e))
      <3>5. /\ e \in K /\ L \subseteq K /\ R \subseteq K /\ Cardinality(K) = 1 + Cardinality(L) + Cardinality(R)
        <4> HIDE DEF a
        <4> QED BY <1>1, <2>2, KeysSplit
      <3>6. /\ x \in Seq(HashKey) /\ Len(x) = Cardinality(L) /\ \A i \in 1 .. Len(x) : x[i] \in L
            /\ y \in Seq(HashKey) /\ Len(y) = Cardinality(R) /\ \A i \in 1 .. Len(y) : y[i] \in R
        BY <3>4
      <3> HIDE DEF K, L, R, x, y, e
      <3>7. W[e] \in Seq(HashKey) /\ Len(W[e]) = 1 + Len(x) + Len(y)
        <4>1. <<e>> \in Seq(HashKey) /\ Len(<<e>>) = 1
          BY <3>1
        <4>2. <<e>> \o x \in Seq(HashKey) /\ Len(<<e>> \o x) = 1 + Len(x)
          BY <3>6, <4>1, ConcatProperties
        <4>3. (<<e>> \o x) \o y \in Seq(HashKey) /\ Len((<<e>> \o x) \o y) = 1 + Len(x) + Len(y)
          BY <3>6, <4>2, ConcatProperties
        <4> QED BY <3>2, <4>3
      <3>8. ASSUME NEW i \in 1 .. Len(W[e])
            PROVE  W[e][i] \in K
        <4>0. Len(x) \in Nat /\ Len(y) \in Nat /\ i \in Nat
          BY <3>6, <3>7
        <4>1. CASE i = 1
          BY <3>1, <3>2, <3>5, <3>6, <4>1
        <4>2. CASE i > 1 /\ i <= 1 + Len(x)
          <5>1. W[e][i] = x[i - 1] /\ i - 1 \in 1 .. Len(x)
            BY <3>1, <3>2, <3>6, <4>0, <4>2
          <5> QED BY <3>5, <3>6, <5>1
        <4>3. CASE i > 1 + Len(x)
          <5>1. W[e][i] = y[i - 1 - Len(x)] /\ i - 1 - Len(x) \in 1 .. Len(y)
            BY <3>1, <3>2, <3>6, <3>7, <4>0, <4>3
          <5> QED BY <3>5, <3>6, <5>1
        <4> QED BY <4>0, <4>1, <4>2, <4>3
      <3>9. Len(W[e]) = Cardinality(K)
        BY <3>5, <3>6, <3>7
      <3> QED BY <3>7, <3>8, <3>9 DEF K, e
    <2> QED BY <2>1, <2>2
  <1>8. \A u \in Slot : Fits(u)
    <2> DEFINE B == {u \in Slot : ~Fits(u)}
               N == {r[u] : u \in B}
    <2> HIDE DEF Fits
    <2> SUFFICES ASSUME B # {} PROVE FALSE
      OBVIOUS
    <2>1. N \in SUBSET Nat /\ N # {}
      BY <1>5
    <2>2. PICK n \in N : \A k \in N : n <= k
      <3> HIDE DEF N
      <3> QED BY <2>1, Least
    <2>3. PICK u \in B : n = r[u]
      BY <2>2
    <2>4. ASSUME NEW v \in Slot, r[v] < r[u]
          PROVE  Fits(v)
      <3>1. v \in B => r[u] <= r[v]
        BY <2>2, <2>3
      <3>2. r[u] \in Nat /\ r[v] \in Nat
        BY <1>5, <2>3
      <3> QED BY <2>4, <3>1, <3>2
    <2> QED BY <1>7, <2>3, <2>4
  <1> QED BY <1>2, <1>8

---------------------------------------------------------------------------
(* The inductive invariant of the maps.                                     *)

HashInv ==
    /\ HashTypeOK
    /\ \A h \in HashMap : map[h] # NONE => GoodMap(map[h], entered[h])
    /\ loop.over # NONE => map[loop.over] # NONE
    /\ loop.pending # <<>> => loop.over # NONE

LoopType == [over : HashMap \cup {NONE}, pending : Seq(Slot), visited : SUBSET HashKey,
             missing : SUBSET HashKey, twice : BOOLEAN]

LEMMA GoodMapType ==
  ASSUME NEW m, NEW last, GoodMap(m, last)
  PROVE  m \in HashMapType /\ m # NONE
  <1> QED BY HashAssumption DEF GoodMap

LEMMA HashInvInit ==
  ASSUME HashInit
  PROVE  HashInv
  <1>1. GoodMap(EmptyMap, [k \in HashKey |-> NONE])
    BY EmptyGood
  <1>2. EmptyMap \in HashMapType
    BY <1>1, GoodMapType
  <1>3. loop \in LoopType /\ loop.over = NONE /\ loop.pending = <<>>
    BY DEF HashInit, NoLoop, LoopType
  <1>4. HashTypeOK
    BY <1>2, <1>3 DEF HashInit, HashTypeOK, LoopType
  <1> QED BY <1>1, <1>3, <1>4 DEF HashInit, HashInv

\* A map is changed, and not lost when a loop runs over it.
LEMMA MapKeepsInv ==
  ASSUME HashInv, NEW h \in HashMap, NEW m, NEW f \in [HashKey -> HashData \cup {NONE}],
         (m = NONE /\ loop.over # h) \/ GoodMap(m, f),
         map' = [map EXCEPT ![h] = m], entered' = [entered EXCEPT ![h] = f],
         loop' \in LoopType, loop'.over = loop.over, loop'.pending = loop.pending
  PROVE  HashInv'
  <1>1. m \in HashMapType \cup {NONE}
    BY GoodMapType
  <1>2. \A g \in HashMap : /\ map'[g] = IF g = h THEN m ELSE map[g]
                           /\ entered'[g] = IF g = h THEN f ELSE entered[g]
    BY DEF HashInv, HashTypeOK
  <1>3. map' \in [HashMap -> HashMapType \cup {NONE}] /\ entered' \in [HashMap -> [HashKey -> HashData \cup {NONE}]]
    BY <1>1 DEF HashInv, HashTypeOK
  <1>4. loop'.over # NONE => map'[loop'.over] # NONE
    <2>1. loop'.over \in HashMap \cup {NONE}
      BY DEF LoopType
    <2>2. loop.over # NONE => map[loop.over] # NONE
      BY DEF HashInv
    <2> QED BY <1>2, <2>1, <2>2, GoodMapType
  <1>5. \A g \in HashMap : map'[g] # NONE => GoodMap(map'[g], entered'[g])
    BY <1>2 DEF HashInv
  <1>6. HashTypeOK'
    BY <1>3 DEF HashTypeOK, LoopType
  <1>7. loop'.pending # <<>> => loop'.over # NONE
    BY DEF HashInv
  <1> QED BY <1>4, <1>5, <1>6, <1>7 DEF HashInv

\* The loop goes on.
LEMMA LoopKeepsInv ==
  ASSUME HashInv, UNCHANGED <<map, entered>>, loop' \in LoopType,
         loop'.over # NONE => map[loop'.over] # NONE, loop'.pending # <<>> => loop'.over # NONE
  PROVE  HashInv'
  <1> QED BY DEF HashInv, HashTypeOK, LoopType

LEMMA LoopTyped ==
  ASSUME HashInv
  PROVE  /\ loop \in LoopType /\ loop.over \in HashMap \cup {NONE} /\ loop.pending \in Seq(Slot)
         /\ loop.visited \subseteq HashKey /\ loop.missing \subseteq HashKey /\ loop.twice \in BOOLEAN
  <1>1. loop \in LoopType
    BY DEF HashInv, HashTypeOK, LoopType
  <1> QED BY <1>1 DEF LoopType

\* What the loop finds at the first pending place.
LEMMA LoopAt ==
  ASSUME HashInv, loop.pending # <<>>
  PROVE  LET m == map[loop.over] IN
         /\ loop.over \in HashMap /\ m # NONE /\ GoodMap(m, entered[loop.over])
         /\ Head(loop.pending) \in Slot /\ Tail(loop.pending) \in Seq(Slot)
         /\ ElementAt(m, Head(loop.pending)) = PointersOf(m)[Head(loop.pending)]
         /\ ElementAt(m, Head(loop.pending)) \in HashKey \cup {NONE}
  <1>1. loop.over \in HashMap /\ map[loop.over] # NONE /\ GoodMap(map[loop.over], entered[loop.over])
    BY LoopTyped DEF HashInv
  <1>2. Head(loop.pending) \in Slot /\ Tail(loop.pending) \in Seq(Slot)
    BY LoopTyped
  <1> QED BY <1>1, <1>2, GoodMapType, PointersType

LEMMA HashInvNext ==
  ASSUME HashInv, [HashNext]_hashVars
  PROVE  HashInv'
  <1>0. /\ \A h \in HashMap : entered[h] \in [HashKey -> HashData \cup {NONE}] /\ h # NONE
        /\ \A h \in HashMap : map[h] # NONE => GoodMap(map[h], entered[h])
        /\ map \in [HashMap -> HashMapType \cup {NONE}] /\ DOMAIN entered = HashMap
    BY HashAssumption DEF HashInv, HashTypeOK
  <1>1. ASSUME NEW h \in HashMap, NEW k \in HashKey, NEW d \in HashData, Include(h, k, d)
        PROVE  HashInv'
    <2> DEFINE m == hshIncl(map[h], k, d)
               f == [entered[h] EXCEPT ![k] = d]
    <2>1. GoodMap(m, f)
      BY <1>0, <1>1, InclGood DEF Include
    <2>2. f \in [HashKey -> HashData \cup {NONE}]
      BY <1>0
    <2>3. map' = [map EXCEPT ![h] = m] /\ entered' = [entered EXCEPT ![h] = f] /\ loop' = loop
      BY <1>1 DEF Include, Change
    <2> HIDE DEF m, f
    <2> QED BY <2>1, <2>2, <2>3, LoopTyped, MapKeepsInv
  <1>2. ASSUME NEW h \in HashMap, NEW k \in HashKey, Exclude(h, k)
        PROVE  HashInv'
    <2> DEFINE m == hshExcl(map[h], k)
               f == [entered[h] EXCEPT ![k] = NONE]
    <2>1. GoodMap(m, f)
      BY <1>0, <1>2, ExclGood DEF Exclude
    <2>2. f \in [HashKey -> HashData \cup {NONE}]
      BY <1>0
    <2>3. map' = [map EXCEPT ![h] = m] /\ entered' = [entered EXCEPT ![h] = f]
      BY <1>0, <1>2 DEF Exclude
    <2>4. loop' \in LoopType /\ loop'.over = loop.over /\ loop'.pending = loop.pending
      <3>1. loop' = IF InLoop(h) THEN [loop EXCEPT !.missing = @ \ {k}, !.visited = @ \ {k}] ELSE loop
        BY <1>2 DEF Exclude
      <3> QED BY <3>1, LoopTyped DEF LoopType
    <2> HIDE DEF m, f
    <2> QED BY <2>1, <2>2, <2>3, <2>4, MapKeepsInv
  <1>3. ASSUME NEW h \in HashMap, NEW g \in HashMap, hshCpy(h, g)
        PROVE  HashInv'
    <2>1. map' = [map EXCEPT ![h] = map[g]] /\ entered' = [entered EXCEPT ![h] = entered[g]] /\ loop' = loop /\ map[g] # NONE
      BY <1>3 DEF hshCpy, Change
    <2> QED BY <1>0, <2>1, LoopTyped, MapKeepsInv
  <1>4. ASSUME NEW h \in HashMap, NEW g \in HashMap, CopyFails(h, g)
        PROVE  HashInv'
    <2>1. /\ map' = [map EXCEPT ![h] = NONE] /\ entered' = [entered EXCEPT ![h] = [k \in HashKey |-> NONE]]
          /\ loop' = loop /\ loop.over # h
      BY <1>4 DEF CopyFails, InLoop
    <2>2. [k \in HashKey |-> NONE] \in [HashKey -> HashData \cup {NONE}]
      OBVIOUS
    <2> QED BY <2>1, <2>2, LoopTyped, MapKeepsInv
  <1>5. ASSUME NEW h \in HashMap, ForHash(h)
        PROVE  HashInv'
    <2>1. /\ loop'.over = h /\ map[h] # NONE /\ UNCHANGED <<map, entered>>
      BY <1>5 DEF ForHash
    <2>2. loop' \in LoopType
      <3>1. [b \in 1 .. Bucket |-> <<"table", b>>] \in Seq(Slot)
        <4>1. \A b \in 1 .. Bucket : <<"table", b>> \in Slot
          BY DEF Slot
        <4>2. Bucket \in Nat
          BY HashAssumption
        <4> QED BY <4>1, <4>2
      <3>2. {k \in HashKey : hshContains(map[h], k)} \in SUBSET HashKey
        OBVIOUS
      <3> QED BY <1>5, <3>1, <3>2 DEF ForHash, LoopType
    <2> QED BY <1>0, <2>1, <2>2, LoopKeepsInv
  <1>6. ASSUME LoopGoesOn
        PROVE  HashInv'
    <2> DEFINE e == ElementAt(map[loop.over], Head(loop.pending))
    <2>1. loop.pending # <<>> /\ UNCHANGED <<map, entered>>
      BY <1>6 DEF LoopGoesOn
    <2>2. loop.over \in HashMap /\ map[loop.over] # NONE /\ Tail(loop.pending) \in Seq(Slot) /\ e \in HashKey \cup {NONE}
      BY <2>1, LoopAt
    <2>3. loop' = IF e = NONE THEN [loop EXCEPT !.pending = Tail(@)]
                  ELSE [loop EXCEPT !.visited = @ \cup {e}, !.missing = @ \ {e}, !.twice = @ \/ e \in loop.visited,
                                    !.pending = <<<<"less", e>>, <<"greater", e>>>> \o Tail(@)]
      BY <1>6 DEF LoopGoesOn
    <2> HIDE DEF e
    <2>4. loop' \in LoopType /\ loop'.over = loop.over
      <3>1. CASE e = NONE
        BY <2>2, <2>3, <3>1, LoopTyped DEF LoopType
      <3>2. CASE e # NONE
        <4>1. <<"less", e>> \in Slot /\ <<"greater", e>> \in Slot /\ e \in HashKey
          BY <2>2, <3>2 DEF Slot
        <4>2. <<<<"less", e>>, <<"greater", e>>>> \o Tail(loop.pending) \in Seq(Slot)
          BY <2>2, <4>1
        <4>3. (loop.twice \/ e \in loop.visited) \in BOOLEAN
          OBVIOUS
        <4> QED BY <2>3, <3>2, <4>1, <4>2, <4>3, LoopTyped DEF LoopType
      <3> QED BY <3>1, <3>2
    <2> QED BY <2>1, <2>2, <2>4, LoopKeepsInv, HashAssumption
  <1>7. ASSUME LoopEnds
        PROVE  HashInv'
    <2>1. loop' \in LoopType /\ loop'.over = NONE /\ loop'.pending = <<>> /\ UNCHANGED <<map, entered>>
      BY <1>7 DEF LoopEnds, NoLoop, LoopType
    <2> QED BY <2>1, LoopKeepsInv
  <1>8. CASE UNCHANGED hashVars
    <2>1. UNCHANGED <<map, entered, loop>>
      BY <1>8 DEF hashVars
    <2> QED BY <2>1 DEF HashInv, HashTypeOK, GoodMap
  <1> QED BY <1>1, <1>2, <1>3, <1>4, <1>5, <1>6, <1>7, <1>8 DEF HashNext

LEMMA HashInvHolds == HashSpec => []HashInv
  <1>1. HashInit => HashInv
    BY HashInvInit
  <1>2. HashInv /\ [HashNext]_hashVars => HashInv'
    BY HashInvNext
  <1> QED BY <1>1, <1>2, PTL DEF HashSpec

(* Hash maps: the pointers, the data and the loop have their types in every *)
(* behaviour, for any keys and hash codes.                                  *)
THEOREM HashTyped == HashSpec => []HashTypeOK
  <1>1. HashInv => HashTypeOK
    BY DEF HashInv
  <1> QED BY <1>1, HashInvHolds, PTL

(* A lookup finds what was entered last, whatever was entered, removed and  *)
(* copied before; the size of a map and the elements of its trees are those *)
(* that lookups find: for any keys, any number of buckets and any hash      *)
(* codes.                                                                   *)
THEOREM LookupsFind == HashSpec => []LookupFinds
  <1>1. ASSUME HashInv
        PROVE  LookupFinds
    <2> SUFFICES ASSUME NEW h \in HashMap, map[h] # NONE
                 PROVE  LET m == map[h]
                            Elements(b) == Tree(m, m.table[b])
                        IN  /\ m.size = Cardinality({k \in HashKey : hshContains(m, k)})
                            /\ \A b \in 1 .. Bucket :
                                  /\ Len(Elements(b)) = Cardinality({k \in HashKey : hshContains(m, k) /\ hashCode(k) = b})
                                  /\ \A i \in 1 .. Len(Elements(b)) : hshContains(m, Elements(b)[i])
                            /\ \A k \in HashKey : hshIdxWithDefault(m, k, NONE) = entered[h][k]
      BY DEF LookupFinds, SizeCounted
    <2> DEFINE m == map[h]
               a == PointersOf(m)
    <2>1. GoodMap(m, entered[h]) /\ m \in HashMapType /\ Trees(a)
      BY <1>1 DEF HashInv, GoodMap
    <2>2. \A k \in HashKey : hshContains(m, k) <=> k \in Present(a)
      BY <2>1, FindFacts DEF hshContains
    <2>3. {k \in HashKey : hshContains(m, k)} = Present(a)
      BY <2>2 DEF Present
    <2>4. m.size = Cardinality({k \in HashKey : hshContains(m, k)})
      BY <2>1, <2>3 DEF GoodMap
    <2>5. ASSUME NEW b \in 1 .. Bucket
          PROVE  LET w == Tree(m, m.table[b])
                 IN  /\ Len(w) = Cardinality({k \in HashKey : hshContains(m, k) /\ hashCode(k) = b})
                     /\ \A i \in 1 .. Len(w) : hshContains(m, w[i])
      <3> DEFINE w == Tree(m, m.table[b])
      <3>1. Entry(b) \in Slot /\ a[Entry(b)] = m.table[b]
        BY <2>1, Slots, PointersType, ElementsAt
      <3>2. Len(w) = Cardinality(KeysBelow(a, Entry(b))) /\ \A i \in 1 .. Len(w) : w[i] \in KeysBelow(a, Entry(b))
        BY <2>1, <3>1, WalkKeys
      <3>3. KeysBelow(a, Entry(b)) = {k \in HashKey : hshContains(m, k) /\ hashCode(k) = b}
        <4>1. KeysBelow(a, Entry(b)) = {k \in Present(a) : hashCode(k) = b}
          BY <2>1, KeysOfBucket
        <4> QED BY <2>3, <4>1
      <3> QED BY <3>2, <3>3
    <2>6. ASSUME NEW k \in HashKey
          PROVE  hshIdxWithDefault(m, k, NONE) = entered[h][k]
      <3>1. entered[h][k] = IF hshContains(m, k) THEN m.element[k].data ELSE NONE
        BY <2>1, <2>2 DEF GoodMap
      <3> QED BY <3>1 DEF hshIdxWithDefault, hshContains
    <2> QED BY <2>4, <2>5, <2>6
  <1> QED BY <1>1, HashInvHolds, PTL

---------------------------------------------------------------------------
(* A loop over a map.                                                       *)

\* What the loop with the pending places p over pointers a has before it: from no
\* pending place another one is reached, nothing that was visited is reached, and
\* all that is missing.
PendingSlots(a, p, visited) ==
    \A i \in 1 .. Len(p) : /\ p[i] \in Slot
                           /\ \/ \E b \in 1 .. Bucket : p[i] = Entry(b)
                              \/ \E e \in visited : p[i] \in {LessOf(e), GreaterOf(e)}
PendingApart(a, p) == \A i, j \in 1 .. Len(p) : i # j => p[i] \notin Below(a, p[j])
VisitedBehind(a, p, visited) == \A i \in 1 .. Len(p) : visited \cap KeysBelow(a, p[i]) = {}
MissingBefore(a, p, missing) == \A x \in missing : \E i \in 1 .. Len(p) : x \in KeysBelow(a, p[i])

LoopBefore(a, p, visited, missing) ==
    /\ PendingSlots(a, p, visited) /\ PendingApart(a, p)
    /\ VisitedBehind(a, p, visited) /\ MissingBefore(a, p, missing)
    /\ visited \subseteq Present(a) /\ missing \subseteq Present(a)

LoopInv ==
    /\ ~loop.twice
    /\ loop.over = NONE => loop.missing = {}
    /\ loop.over # NONE => LoopBefore(PointersOf(map[loop.over]), loop.pending, loop.visited, loop.missing)

LEMMA KeysOfElement ==
  ASSUME NEW a, Trees(a), NEW t \in Slot, a[t] # NONE
  PROVE  KeysBelow(a, t) = {a[t]} \cup KeysBelow(a, LessOf(a[t])) \cup KeysBelow(a, GreaterOf(a[t]))
  <1>1. a[t] \in HashKey
    BY DEF Trees, Pointers
  <1> QED BY <1>1, BelowSplits DEF KeysBelow

\* What is reached from two places has no element in common.
LEMMA KeysApart ==
  ASSUME NEW a, Trees(a), NEW s \in Slot, NEW t \in Slot, Below(a, s) \cap Below(a, t) = {}
  PROVE  KeysBelow(a, s) \cap KeysBelow(a, t) = {}
  <1> SUFFICES ASSUME NEW y \in KeysBelow(a, s) \cap KeysBelow(a, t) PROVE FALSE
    OBVIOUS
  <1>1. PICK u \in Below(a, s), v \in Below(a, t) : a[u] = y /\ a[v] = y
    BY DEF KeysBelow
  <1>2. u \in Slot /\ v \in Slot
    BY BelowFacts DEF Trees
  <1>3. y # NONE
    BY Keys DEF KeysBelow
  <1>4. u = v
    BY <1>1, <1>2, <1>3 DEF Trees
  <1> QED BY <1>1, <1>4

\* The loop begins.
LEMMA LoopBegins ==
  ASSUME NEW a, Trees(a), NEW p, p = [b \in 1 .. Bucket |-> Entry(b)]
  PROVE  LoopBefore(a, p, {}, Present(a))
  <1>0. a \in Pointers /\ Bucket \in Nat
    BY HashAssumption DEF Trees
  <1>1. Len(p) = Bucket /\ \A i \in 1 .. Len(p) : p[i] = Entry(i) /\ p[i] \in Slot
    BY <1>0, Slots
  <1>2. PendingSlots(a, p, {})
    BY <1>0, <1>1 DEF PendingSlots
  <1>3. ASSUME NEW i \in 1 .. Len(p), NEW j \in 1 .. Len(p), i # j
        PROVE  p[i] \notin Below(a, p[j])
    <2>1. p[i] # p[j] /\ \A e : p[i] # LessOf(e) /\ p[i] # GreaterOf(e)
      BY <1>1, <1>3, Slots
    <2> QED BY <1>0, <1>1, <2>1, BelowFacts
  <1>4. ASSUME NEW x \in Present(a)
        PROVE  \E i \in 1 .. Len(p) : x \in KeysBelow(a, p[i])
    <2>1. hashCode(x) \in 1 .. Bucket
      BY Keys DEF Present
    <2>2. x \in KeysBelow(a, Entry(hashCode(x)))
      BY <2>1, KeysOfBucket
    <2> QED BY <1>1, <2>1, <2>2
  <1> QED BY <1>2, <1>3, <1>4 DEF LoopBefore, PendingApart, VisitedBehind, MissingBefore

\* The first place refers to no element.
LEMMA LoopPasses ==
  ASSUME NEW a, Trees(a), NEW p \in Seq(Slot), p # <<>>, NEW visited, NEW missing,
         LoopBefore(a, p, visited, missing), a[p[1]] = NONE
  PROVE  LoopBefore(a, Tail(p), visited, missing)
  <1> DEFINE q == Tail(p)
  <1>1. Len(p) \in Nat /\ Len(p) >= 1 /\ Len(q) = Len(p) - 1 /\ p[1] \in Slot
    OBVIOUS
  <1>2. \A i \in 1 .. Len(q) : q[i] = p[i + 1] /\ i + 1 \in 1 .. Len(p)
    BY <1>1
  <1>3. \A i \in 1 .. Len(p) : i = 1 \/ \E j \in 1 .. Len(q) : q[j] = p[i]
    <2>1. ASSUME NEW i \in 1 .. Len(p), i # 1
          PROVE  \E j \in 1 .. Len(q) : q[j] = p[i]
      <3>1. i - 1 \in 1 .. Len(q) /\ (i - 1) + 1 = i
        BY <1>1, <2>1
      <3> HIDE DEF q
      <3> QED BY <1>2, <3>1
    <2> QED BY <2>1
  <1> HIDE DEF q
  <1>4. PendingSlots(a, q, visited) /\ VisitedBehind(a, q, visited)
    BY <1>2 DEF LoopBefore, PendingSlots, VisitedBehind
  <1>5. PendingApart(a, q)
    <2> SUFFICES ASSUME NEW i \in 1 .. Len(q), NEW j \in 1 .. Len(q), i # j
                 PROVE  q[i] \notin Below(a, q[j])
      BY DEF PendingApart
    <2>1. i + 1 # j + 1
      OBVIOUS
    <2> QED BY <1>2, <2>1 DEF LoopBefore, PendingApart
  <1>6. KeysBelow(a, p[1]) = {}
    BY <1>1, KeysSplit
  <1>7. MissingBefore(a, q, missing)
    BY <1>3, <1>6 DEF LoopBefore, MissingBefore
  <1> QED BY <1>4, <1>5, <1>7 DEF LoopBefore, q

\* The loop comes to an element.
LEMMA LoopVisits ==
  ASSUME NEW a, Trees(a), NEW p \in Seq(Slot), p # <<>>, NEW visited, NEW missing,
         LoopBefore(a, p, visited, missing), NEW e, e = a[p[1]], e # NONE
  PROVE  /\ e \notin visited
         /\ LoopBefore(a, <<LessOf(e), GreaterOf(e)>> \o Tail(p), visited \cup {e}, missing \ {e})
  <1> DEFINE l == LessOf(e)
             g == GreaterOf(e)
             q == <<l, g>> \o Tail(p)
  <1>0. a \in Pointers /\ Len(p) \in Nat /\ Len(p) >= 1 /\ p[1] \in Slot /\ \A i \in 1 .. Len(p) : p[i] \in Slot
    BY DEF Trees
  <1>1. e \in HashKey /\ l \in Slot /\ g \in Slot
    BY <1>0, ChildrenApart DEF Pointers
  <1>2. Len(q) = Len(p) + 1 /\ q[1] = l /\ q[2] = g /\ \A i \in 3 .. Len(q) : q[i] = p[i - 1] /\ i - 1 \in 2 .. Len(p)
    BY <1>0
  <1> HIDE DEF q
  <1>3. \A i \in 1 .. Len(q) : i = 1 \/ i = 2 \/ i \in 3 .. Len(q)
    BY <1>0, <1>2
  <1>4. /\ Below(a, p[1]) = {p[1]} \cup Below(a, l) \cup Below(a, g)
        /\ KeysBelow(a, p[1]) = {e} \cup KeysBelow(a, l) \cup KeysBelow(a, g)
    BY <1>0, BelowSplits, KeysOfElement
  <1>5. l \in Below(a, l) /\ g \in Below(a, g) /\ p[1] \in Below(a, p[1])
    BY <1>0, <1>1, BelowFacts DEF BelowClosed
  <1>6. Below(a, l) \cap Below(a, g) = {} /\ p[1] \notin Below(a, l) /\ p[1] \notin Below(a, g)
    BY <1>0, ChildrenApart
  \* What is reached from the other places is not reached from the first.
  <1>7. ASSUME NEW i \in 2 .. Len(p)
        PROVE  /\ i \in 1 .. Len(p) /\ Below(a, p[1]) \cap Below(a, p[i]) = {}
               /\ KeysBelow(a, p[1]) \cap KeysBelow(a, p[i]) = {}
    <2>1. i \in 1 .. Len(p) /\ 1 \in 1 .. Len(p) /\ i # 1
      BY <1>0
    <2>2. p[1] \notin Below(a, p[i]) /\ p[i] \notin Below(a, p[1])
      BY <2>1 DEF LoopBefore, PendingApart
    <2>3. Below(a, p[1]) \cap Below(a, p[i]) = {}
      BY <1>0, <2>1, <2>2, BelowDisjoint
    <2> QED BY <1>0, <2>1, <2>3, KeysApart
  <1>8. e \notin KeysBelow(a, l) /\ e \notin KeysBelow(a, g)
    <2>1. \A u \in Slot : a[u] = e => u = p[1]
      BY <1>0 DEF Trees
    <2>2. Below(a, l) \in SUBSET Slot /\ Below(a, g) \in SUBSET Slot
      BY <1>0, <1>1, BelowFacts
    <2> QED BY <1>6, <2>1, <2>2 DEF KeysBelow
  <1>9. e \in KeysBelow(a, p[1]) /\ visited \cap KeysBelow(a, p[1]) = {}
    <2>1. 1 \in 1 .. Len(p)
      BY <1>0
    <2> QED BY <1>4, <2>1 DEF LoopBefore, VisitedBehind
  <1>10. PendingSlots(a, q, visited \cup {e})
    <2>1. ASSUME NEW i \in 3 .. Len(q)
          PROVE  /\ q[i] \in Slot
                 /\ (\E b \in 1 .. Bucket : q[i] = Entry(b)) \/ \E f \in visited : q[i] \in {LessOf(f), GreaterOf(f)}
      BY <1>2, <1>7 DEF LoopBefore, PendingSlots
    <2> QED BY <1>1, <1>2, <1>3, <2>1 DEF PendingSlots
  <1>11. ASSUME NEW i \in 1 .. Len(q), NEW j \in 1 .. Len(q), i # j
         PROVE  q[i] \notin Below(a, q[j])
    <2>0. l \in Below(a, p[1]) /\ g \in Below(a, p[1]) /\ Below(a, l) \subseteq Below(a, p[1]) /\ Below(a, g) \subseteq Below(a, p[1])
      BY <1>4, <1>5
    <2>1. CASE i \in 3 .. Len(q) /\ j \in 3 .. Len(q)
      <3>1. i - 1 \in 1 .. Len(p) /\ j - 1 \in 1 .. Len(p) /\ i - 1 # j - 1 /\ q[i] = p[i - 1] /\ q[j] = p[j - 1]
        BY <1>2, <1>7, <1>11, <2>1
      <3> QED BY <3>1 DEF LoopBefore, PendingApart
    <2>2. CASE i \in 3 .. Len(q) /\ j \in {1, 2}
      <3>1. q[i] \in Below(a, q[i]) /\ q[i] = p[i - 1] /\ i - 1 \in 2 .. Len(p)
        <4>1. q[i] \in Slot
          BY <1>10 DEF PendingSlots
        <4> QED BY <1>0, <1>2, <2>2, <4>1, BelowFacts DEF BelowClosed
      <3> QED BY <1>2, <1>7, <2>0, <2>2, <3>1
    <2>3. CASE i \in {1, 2} /\ j \in 3 .. Len(q)
      <3>1. q[j] = p[j - 1] /\ j - 1 \in 2 .. Len(p)
        BY <1>2, <2>3
      <3> QED BY <1>2, <1>7, <2>0, <2>3, <3>1
    <2>4. CASE i \in {1, 2} /\ j \in {1, 2}
      BY <1>2, <1>5, <1>6, <1>11, <2>4
    <2> QED BY <1>3, <2>1, <2>2, <2>3, <2>4
  <1>12. VisitedBehind(a, q, visited \cup {e})
    <2> SUFFICES ASSUME NEW i \in 1 .. Len(q)
                 PROVE  (visited \cup {e}) \cap KeysBelow(a, q[i]) = {}
      BY DEF VisitedBehind
    <2>1. CASE i \in {1, 2}
      BY <1>2, <1>4, <1>8, <1>9, <2>1
    <2>2. CASE i \in 3 .. Len(q)
      <3>1. q[i] = p[i - 1] /\ i - 1 \in 2 .. Len(p)
        BY <1>2, <2>2
      <3>2. i - 1 \in 1 .. Len(p) /\ KeysBelow(a, p[1]) \cap KeysBelow(a, p[i - 1]) = {}
        BY <1>7, <3>1
      <3>3. visited \cap KeysBelow(a, p[i - 1]) = {}
        BY <3>2 DEF LoopBefore, VisitedBehind
      <3> QED BY <1>9, <3>1, <3>2, <3>3
    <2> QED BY <1>3, <2>1, <2>2
  <1>13. MissingBefore(a, q, missing \ {e})
    <2> SUFFICES ASSUME NEW x \in missing, x # e
                 PROVE  \E i \in 1 .. Len(q) : x \in KeysBelow(a, q[i])
      BY DEF MissingBefore
    <2>1. PICK i \in 1 .. Len(p) : x \in KeysBelow(a, p[i])
      BY DEF LoopBefore, MissingBefore
    <2>2. CASE i = 1
      <3>1. x \in KeysBelow(a, q[1]) \/ x \in KeysBelow(a, q[2])
        BY <1>2, <1>4, <2>1, <2>2
      <3>2. 1 \in 1 .. Len(q) /\ 2 \in 1 .. Len(q)
        BY <1>0, <1>2
      <3> QED BY <3>1, <3>2
    <2>3. CASE i # 1
      <3>1. i + 1 \in 3 .. Len(q) /\ i + 1 \in 1 .. Len(q) /\ (i + 1) - 1 = i
        BY <1>0, <1>2, <2>3
      <3>2. q[i + 1] = p[i]
        BY <1>2, <3>1
      <3> QED BY <2>1, <3>1, <3>2
    <2> QED BY <2>2, <2>3
  <1>14. e \in Present(a)
    BY <1>0, <1>1 DEF Present
  <1>15. LoopBefore(a, q, visited \cup {e}, missing \ {e})
    <2>1. PendingApart(a, q)
      BY <1>11 DEF PendingApart
    <2>2. visited \subseteq Present(a) /\ missing \subseteq Present(a)
      BY DEF LoopBefore
    <2> QED BY <1>10, <1>12, <1>13, <1>14, <2>1, <2>2 DEF LoopBefore
  <1> QED BY <1>9, <1>15 DEF q

\* An element is entered while the loop runs.
LEMMA LoopSurvivesInsert ==
  ASSUME NEW a, Trees(a), NEW x \in HashKey, NEW s \in Path(a, x), a[s] = NONE,
         NEW b \in Pointers, b[s] = x, \A t \in Slot \ {s} : b[t] = a[t],
         NEW p, NEW visited, NEW missing, LoopBefore(a, p, visited, missing)
  PROVE  LoopBefore(b, p, visited, missing)
  <1>0. a \in Pointers /\ s \in Slot /\ x # NONE /\ LessOf(x) \in Slot /\ GreaterOf(x) \in Slot
    BY PathFacts, Keys, Slots DEF Trees
  <1>1. Present(b) = Present(a) \cup {x} /\ x \notin Present(a) /\ s # LessOf(x) /\ s # GreaterOf(x)
    BY TreesInsert
  <1>2. a[LessOf(x)] = NONE /\ a[GreaterOf(x)] = NONE /\ b[LessOf(x)] = NONE /\ b[GreaterOf(x)] = NONE
    BY <1>0, <1>1 DEF Trees
  <1>3. ASSUME NEW t \in Slot
        PROVE  /\ Below(a, t) \subseteq Below(b, t) /\ Below(a, t) \in SUBSET Slot
               /\ Below(b, t) \subseteq Below(a, t) \cup {LessOf(x), GreaterOf(x)}
    <2>1. Below(a, t) \in SUBSET Slot /\ BelowClosed(a, t, Below(a, t)) /\ Below(b, t) \in SUBSET Slot /\ BelowClosed(b, t, Below(b, t))
      BY <1>0, BelowFacts
    <2>2. BelowClosed(a, t, Below(b, t))
      BY <2>1 DEF BelowClosed
    <2> DEFINE X == Below(a, t) \cup {LessOf(x), GreaterOf(x)}
    <2>3. BelowClosed(b, t, X)
      <3>1. ASSUME NEW u \in X, b[u] # NONE
            PROVE  LessOf(b[u]) \in X /\ GreaterOf(b[u]) \in X
        <4>1. u \in Below(a, t) /\ u \in Slot
          BY <1>2, <2>1, <3>1
        <4>2. CASE u = s
          BY <4>2
        <4>3. CASE u # s
          <5>1. b[u] = a[u]
            BY <4>1, <4>3
          <5> QED BY <2>1, <3>1, <4>1, <5>1 DEF BelowClosed
        <4> QED BY <4>2, <4>3
      <3>2. t \in X
        BY <2>1 DEF BelowClosed
      <3> HIDE DEF X
      <3> QED BY <3>1, <3>2 DEF BelowClosed
    <2>4. X \in SUBSET Slot
      BY <1>0, <2>1
    <2>5. Below(b, t) \subseteq X
      <3> HIDE DEF X
      <3> QED BY <2>3, <2>4, BelowFacts
    <2>6. Below(a, t) \subseteq Below(b, t)
      BY <1>0, <2>1, <2>2, BelowFacts
    <2> QED BY <2>1, <2>5, <2>6
  <1>4. visited \subseteq Present(a) /\ missing \subseteq Present(a) /\ PendingSlots(a, p, visited)
    BY DEF LoopBefore
  <1>5. \A i \in 1 .. Len(p) : p[i] \in Slot /\ p[i] # LessOf(x) /\ p[i] # GreaterOf(x)
    <2> SUFFICES ASSUME NEW i \in 1 .. Len(p)
                 PROVE  p[i] \in Slot /\ p[i] # LessOf(x) /\ p[i] # GreaterOf(x)
      OBVIOUS
    <2>1. CASE \E c \in 1 .. Bucket : p[i] = Entry(c)
      BY <1>4, <2>1, Slots DEF PendingSlots
    <2>2. CASE \E e \in visited : p[i] \in {LessOf(e), GreaterOf(e)}
      BY <1>1, <1>4, <2>2, Slots DEF PendingSlots
    <2> QED BY <1>4, <2>1, <2>2 DEF PendingSlots
  <1>6. PendingSlots(b, p, visited)
    BY <1>4 DEF PendingSlots
  <1>7. PendingApart(b, p)
    <2> SUFFICES ASSUME NEW i \in 1 .. Len(p), NEW j \in 1 .. Len(p), i # j
                 PROVE  p[i] \notin Below(b, p[j])
      BY DEF PendingApart
    <2>1. p[i] \notin Below(a, p[j])
      BY DEF LoopBefore, PendingApart
    <2> QED BY <1>3, <1>5, <2>1
  <1>8. VisitedBehind(b, p, visited)
    <2> SUFFICES ASSUME NEW i \in 1 .. Len(p), NEW e \in visited, e \in KeysBelow(b, p[i])
                 PROVE  FALSE
      BY DEF VisitedBehind
    <2>1. PICK u \in Below(b, p[i]) : b[u] = e
      BY DEF KeysBelow
    <2>2. e \in HashKey /\ e # x /\ e # NONE
      BY <1>1, <1>4, Keys DEF Present
    <2>3. u \in Below(a, p[i]) /\ u \in Slot
      BY <1>2, <1>3, <1>5, <2>1, <2>2
    <2>4. a[u] = e
      BY <2>1, <2>2, <2>3
    <2>5. e \in KeysBelow(a, p[i])
      BY <2>2, <2>3, <2>4 DEF KeysBelow
    <2> QED BY <2>5 DEF LoopBefore, VisitedBehind
  <1>9. MissingBefore(b, p, missing)
    <2> SUFFICES ASSUME NEW y \in missing
                 PROVE  \E i \in 1 .. Len(p) : y \in KeysBelow(b, p[i])
      BY DEF MissingBefore
    <2>1. PICK i \in 1 .. Len(p) : y \in KeysBelow(a, p[i])
      BY DEF LoopBefore, MissingBefore
    <2>2. PICK u \in Below(a, p[i]) : a[u] = y
      BY <2>1 DEF KeysBelow
    <2>3. y \in HashKey /\ y # NONE
      BY <2>1, Keys DEF KeysBelow
    <2>4. u \in Below(b, p[i]) /\ b[u] = y
      BY <1>3, <1>5, <2>2, <2>3
    <2> QED BY <2>3, <2>4 DEF KeysBelow
  <1> QED BY <1>1, <1>4, <1>6, <1>7, <1>8, <1>9 DEF LoopBefore

LEMMA LoopInvNext ==
  ASSUME ~ExclInLoop, HashInv, LoopInv, [HashNext]_hashVars
  PROVE  LoopInv'
  <1>0. /\ loop \in LoopType /\ loop.pending \in Seq(Slot) /\ map \in [HashMap -> HashMapType \cup {NONE}]
        /\ \A h \in HashMap : h # NONE /\ (map[h] # NONE => GoodMap(map[h], entered[h])) /\ DOMAIN entered[h] = HashKey
    BY LoopTyped, HashAssumption DEF HashInv, HashTypeOK
  <1>1. ASSUME NEW h \in HashMap, NEW k \in HashKey, NEW d \in HashData, loop.over \in {NONE, h}, Include(h, k, d)
        PROVE  LoopInv'
    <2>1. loop' = loop /\ map[h] # NONE /\ map'[h] = hshIncl(map[h], k, d)
      BY <1>0, <1>1 DEF Include, Change
    <2>2. CASE loop.over = NONE
      BY <2>1, <2>2 DEF LoopInv
    <2>3. CASE loop.over = h
      <3> DEFINE m == map[h]
                 a == PointersOf(m)
                 b == PointersOf(hshIncl(m, k, d))
      <3>1. GoodMap(m, entered[h]) /\ Trees(a) /\ m \in HashMapType
        BY <1>0, <2>1 DEF GoodMap
      <3>2. LoopBefore(a, loop.pending, loop.visited, loop.missing)
        BY <1>0, <2>3 DEF LoopInv
      <3>3. LoopBefore(b, loop.pending, loop.visited, loop.missing)
        <4>1. CASE k \in Present(a)
          <5>1. hshContains(m, k)
            BY <3>1, <4>1, FindFacts DEF hshContains
          <5>2. b = PointersOf([m EXCEPT !.element[k].data = d])
            BY <5>1 DEF hshIncl
          <5>3. GoodMap(m, entered[h]) /\ k \in Present(PointersOf(m)) /\ DOMAIN entered[h] = HashKey
            BY <1>0, <3>1, <4>1
          <5> DEFINE f == [entered[h] EXCEPT ![k] = d]
          <5>4. f = [entered[h] EXCEPT ![k] = d]
            OBVIOUS
          <5> HIDE DEF f, m
          <5>5. PointersOf([m EXCEPT !.element[k].data = d]) = PointersOf(m)
            BY <1>1, <5>3, <5>4, DataReplaced
          <5> QED BY <3>2, <5>2, <5>5
        <4>2. CASE k \notin Present(a)
          <5>1. hshIncl(m, k, d) = NewElement(m, k, d)
            BY <3>1, <4>2, FindFacts DEF hshContains, hshIncl
          <5>2. /\ Find(m, k) \in Path(a, k) /\ a[Find(m, k)] = NONE /\ b[Find(m, k)] = k
                /\ \A t \in Slot \ {Find(m, k)} : b[t] = a[t]
            <6> DEFINE f == [entered[h] EXCEPT ![k] = d]
                       n == NewElement(m, k, d)
            <6>1. GoodMap(m, entered[h]) /\ k \notin Present(PointersOf(m)) /\ DOMAIN entered[h] = HashKey
              BY <1>0, <3>1, <4>2
            <6>2. f = [entered[h] EXCEPT ![k] = d] /\ n = NewElement(m, k, d) /\ a = PointersOf(m) /\ b = PointersOf(n)
              BY <5>1
            <6> HIDE DEF f, m, a, b, n
            <6>3. /\ Find(m, k) \in Path(PointersOf(m), k) /\ PointersOf(m)[Find(m, k)] = NONE
                  /\ PointersOf(NewElement(m, k, d))[Find(m, k)] = k
                  /\ \A t \in Slot \ {Find(m, k)} : PointersOf(NewElement(m, k, d))[t] = PointersOf(m)[t]
              BY <1>1, <6>1, <6>2, NewElementGood
            <6> QED BY <6>2, <6>3
          <5>3. b \in Pointers
            <6>1. GoodMap(NewElement(m, k, d), [entered[h] EXCEPT ![k] = d])
              BY <1>0, <3>1, <4>2, NewElementGood
            <6> QED BY <5>1, <6>1, GoodMapType, PointersType
          <5> HIDE DEF a, b
          <5> QED BY <3>1, <3>2, <5>2, <5>3, LoopSurvivesInsert
        <4> QED BY <4>1, <4>2
      <3> QED BY <1>0, <2>1, <2>3, <3>3 DEF LoopInv
    <2> QED BY <1>1, <2>2, <2>3
  <1>2. ASSUME NEW h \in HashMap, NEW k \in HashKey, loop.over \in {NONE, h}, Exclude(h, k)
        PROVE  LoopInv'
    BY <1>0, <1>2 DEF Exclude, InLoop, LoopInv
  <1>3. ASSUME NEW h \in HashMap, NEW g \in HashMap, loop.over \in {NONE, h}, hshCpy(h, g)
        PROVE  LoopInv'
    BY <1>0, <1>3 DEF hshCpy, Change, InLoop, LoopInv
  <1>4. ASSUME NEW h \in HashMap, NEW g \in HashMap, loop.over \in {NONE, h}, CopyFails(h, g)
        PROVE  LoopInv'
    BY <1>0, <1>4 DEF CopyFails, InLoop, LoopInv
  <1>5. ASSUME NEW h \in HashMap, ForHash(h)
        PROVE  LoopInv'
    <2> DEFINE a == PointersOf(map[h])
    <2>1. /\ map[h] # NONE /\ map' = map /\ loop'.over = h /\ loop'.visited = {} /\ loop'.twice = FALSE
          /\ loop'.pending = [b \in 1 .. Bucket |-> <<"table", b>>]
          /\ loop'.missing = {k \in HashKey : hshContains(map[h], k)}
      BY <1>5 DEF ForHash
    <2>2. Trees(a) /\ map[h] \in HashMapType
      BY <1>0, <2>1 DEF GoodMap
    <2>3. loop'.missing = Present(a)
      BY <2>1, <2>2, FindFacts DEF hshContains, Present
    <2>4. loop'.pending = [b \in 1 .. Bucket |-> Entry(b)]
      BY <2>1 DEF Entry
    <2>5. LoopBefore(a, loop'.pending, {}, Present(a))
      <3> HIDE DEF a
      <3> QED BY <2>2, <2>4, LoopBegins
    <2> QED BY <1>0, <2>1, <2>3, <2>5 DEF LoopInv
  <1>6. ASSUME LoopGoesOn
        PROVE  LoopInv'
    <2> DEFINE m == map[loop.over]
               a == PointersOf(m)
               p == loop.pending
               e == ElementAt(m, Head(p))
    <2>1. p # <<>> /\ map' = map
      BY <1>6 DEF LoopGoesOn
    <2>2. loop.over \in HashMap /\ loop.over # NONE /\ GoodMap(m, entered[loop.over]) /\ e = a[Head(p)]
      BY <1>0, <2>1, LoopAt
    <2>3. Trees(a) /\ p \in Seq(Slot) /\ Head(p) = p[1]
      BY <1>0, <2>1, <2>2 DEF GoodMap
    <2>4. LoopBefore(a, p, loop.visited, loop.missing) /\ loop.twice = FALSE
      BY <1>0, <2>2 DEF LoopInv, LoopType
    <2>5. loop' = IF e = NONE THEN [loop EXCEPT !.pending = Tail(@)]
                  ELSE [loop EXCEPT !.visited = @ \cup {e}, !.missing = @ \ {e}, !.twice = @ \/ e \in loop.visited,
                                    !.pending = <<LessOf(e), GreaterOf(e)>> \o Tail(@)]
      BY <1>6 DEF LoopGoesOn, LessOf, GreaterOf
    <2> HIDE DEF e, a, m
    <2>6. CASE e = NONE
      <3>1. LoopBefore(a, Tail(p), loop.visited, loop.missing)
        BY <2>1, <2>2, <2>3, <2>4, <2>6, LoopPasses
      <3>2. /\ loop'.over = loop.over /\ loop'.pending = Tail(p) /\ loop'.visited = loop.visited
            /\ loop'.missing = loop.missing /\ loop'.twice = loop.twice
        BY <1>0, <2>5, <2>6 DEF LoopType
      <3> QED BY <2>1, <2>2, <2>4, <3>1, <3>2 DEF LoopInv, a, m
    <2>7. CASE e # NONE
      <3>1. e \notin loop.visited /\ LoopBefore(a, <<LessOf(e), GreaterOf(e)>> \o Tail(p), loop.visited \cup {e}, loop.missing \ {e})
        BY <2>1, <2>2, <2>3, <2>4, <2>7, LoopVisits
      <3>2. /\ loop'.over = loop.over /\ loop'.pending = <<LessOf(e), GreaterOf(e)>> \o Tail(p) /\ loop'.visited = loop.visited \cup {e}
            /\ loop'.missing = loop.missing \ {e} /\ loop'.twice = (loop.twice \/ e \in loop.visited)
        BY <1>0, <2>5, <2>7 DEF LoopType
      <3> QED BY <2>1, <2>2, <2>4, <3>1, <3>2 DEF LoopInv, a, m
    <2> QED BY <2>6, <2>7
  <1>7. ASSUME LoopEnds
        PROVE  LoopInv'
    BY <1>7 DEF LoopEnds, NoLoop, LoopInv
  <1>8. CASE UNCHANGED hashVars
    BY <1>8 DEF hashVars, LoopInv
  <1> QED BY <1>1, <1>2, <1>3, <1>4, <1>5, <1>6, <1>7, <1>8 DEF HashNext

(* When the statements of a loop remove no elements of its map, the loop    *)
(* comes to every element that the map has from its start to its end, and   *)
(* to none twice.                                                           *)
THEOREM LoopsVisitAll ==
  ASSUME ~ExclInLoop
  PROVE  HashSpec => []LoopVisitsAll
  <1>1. HashInit => LoopInv
    BY DEF HashInit, NoLoop, LoopInv
  <1>2. HashInv /\ LoopInv /\ [HashNext]_hashVars => LoopInv'
    BY LoopInvNext
  <1>3. HashInv /\ LoopInv => LoopVisitsAll
    <2> SUFFICES ASSUME HashInv, LoopInv, loop.pending = <<>>
                 PROVE  loop.missing = {}
      BY DEF LoopInv, LoopVisitsAll
    <2>1. CASE loop.over = NONE
      BY <2>1 DEF LoopInv
    <2>2. CASE loop.over # NONE
      <3>1. MissingBefore(PointersOf(map[loop.over]), loop.pending, loop.missing)
        BY <2>2 DEF LoopInv, LoopBefore
      <3> QED BY <3>1 DEF MissingBefore
    <2> QED BY <2>1, <2>2
  <1> QED BY <1>1, <1>2, <1>3, HashInvHolds, PTL DEF HashSpec

---------------------------------------------------------------------------
(* Folds over finite sets (MapThenFoldSet): the elements are taken out one by *)
(* one, in any order.                                                        *)

Folding(iter, S, E, pick, base, H) ==
    /\ iter \in [SUBSET S -> E]
    /\ \A T \in SUBSET S : iter[T] = IF T = {} THEN base ELSE H[<<iter[T \ {pick[T]}], pick[T]>>]

LEMMA FoldExists ==
  ASSUME NEW S, IsFiniteSet(S), NEW E, NEW base \in E, NEW H \in [E \X S -> E],
         NEW pick, \A T \in SUBSET S : T # {} => pick[T] \in T
  PROVE  \E iter : Folding(iter, S, E, pick, base, H)
  <1> DEFINE D == SUBSET S
             G == [x \in D \X [D -> E] |-> IF x[1] = {} THEN base ELSE H[<<x[2][x[1] \ {pick[x[1]]}], pick[x[1]]>>]]
             rank == [T \in D |-> Cardinality(T)]
  <1>1. ASSUME NEW T \in D
        PROVE  IsFiniteSet(T) /\ Cardinality(T) \in Nat
    BY FS_Subset, FS_CardinalityType
  <1>2. ASSUME NEW T \in D, T # {}
        PROVE  pick[T] \in S /\ T \ {pick[T]} \in D /\ Cardinality(T \ {pick[T]}) < Cardinality(T)
    <2>1. pick[T] \in T /\ pick[T] \in S
      BY <1>2
    <2>2. Cardinality(T \ {pick[T]}) = Cardinality(T) - 1
      BY <1>1, <2>1, FS_RemoveElement
    <2> QED BY <1>1, <2>1, <2>2
  <1>3. rank \in [D -> Nat] /\ \A T \in D : rank[T] = Cardinality(T)
    BY <1>1
  <1>4. ASSUME NEW T \in D, NEW g \in [D -> E]
        PROVE  /\ G[<<T, g>>] \in E
               /\ G[<<T, g>>] = IF T = {} THEN base ELSE H[<<g[T \ {pick[T]}], pick[T]>>]
    <2> DEFINE y == <<T, g>>
    <2>1. y \in D \X [D -> E] /\ y[1] = T /\ y[2] = g
      OBVIOUS
    <2>2. G[y] = IF T = {} THEN base ELSE H[<<g[T \ {pick[T]}], pick[T]>>]
      <3> HIDE DEF y, D
      <3> QED BY <2>1
    <2>3. T # {} => <<g[T \ {pick[T]}], pick[T]>> \in E \X S
      BY <1>2
    <2> HIDE DEF G, D
    <2> QED BY <2>2, <2>3
  <1>5. G \in [D \X [D -> E] -> E]
    <2>1. \A x \in D \X [D -> E] : x = <<x[1], x[2]>> /\ x[1] \in D /\ x[2] \in [D -> E]
      OBVIOUS
    <2>2. \A x \in D \X [D -> E] : G[x] \in E
      BY <1>4, <2>1
    <2>3. G = [x \in D \X [D -> E] |-> G[x]]
      OBVIOUS
    <2> HIDE DEF G, D
    <2> QED BY <2>2, <2>3
  <1> HIDE DEF G, rank, D
  <1>6. ASSUME NEW T \in D, NEW g \in [D -> E], NEW h \in [D -> E],
               \A c \in D : rank[c] < rank[T] => g[c] = h[c]
        PROVE  G[<<T, g>>] = G[<<T, h>>]
    <2>1. T # {} => g[T \ {pick[T]}] = h[T \ {pick[T]}]
      BY <1>2, <1>3, <1>6
    <2>2. /\ G[<<T, g>>] = IF T = {} THEN base ELSE H[<<g[T \ {pick[T]}], pick[T]>>]
          /\ G[<<T, h>>] = IF T = {} THEN base ELSE H[<<h[T \ {pick[T]}], pick[T]>>]
      BY <1>4
    <2> QED BY <2>1, <2>2
  <1>7. Decreases(D, E, G, rank)
    BY <1>3, <1>5, <1>6 DEF Decreases
  <1>8. PICK iter : Recursive(D, E, G, iter)
    BY <1>7, RecursionEnds
  <1>9. iter \in [D -> E] /\ \A T \in D : iter[T] = IF T = {} THEN base ELSE H[<<iter[T \ {pick[T]}], pick[T]>>]
    BY <1>4, <1>8 DEF Recursive
  <1> QED BY <1>9 DEF D, Folding

---------------------------------------------------------------------------
(* Sets: least and greatest elements, and the arithmetic of positions.      *)

LEMMA LeastOf ==
  ASSUME NEW S \in SUBSET Int, S # {}, NEW b \in Int, \A x \in S : b <= x
  PROVE  Min(S) \in S /\ \A x \in S : Min(S) <= x
  <1> DEFINE T == {n \in Nat : b + n \in S}
  <1>1. T \in SUBSET Nat /\ T # {}
    <2>1. PICK x \in S : TRUE
      OBVIOUS
    <2>2. x - b \in Nat /\ b + (x - b) = x
      BY <2>1
    <2> QED BY <2>1, <2>2
  <1>2. PICK n \in T : \A m \in T : n <= m
    BY <1>1, Least
  <1>3. b + n \in S
    BY <1>2
  <1>4. ASSUME NEW x \in S
        PROVE  b + n <= x
    <2>1. x - b \in Nat /\ b + (x - b) = x
      BY <1>4
    <2>2. n <= x - b
      BY <1>2, <2>1
    <2> QED BY <1>2, <2>1, <2>2
  <1> QED BY <1>3, <1>4 DEF Min

LEMMA GreatestOf ==
  ASSUME NEW S \in SUBSET Int, S # {}, NEW b \in Int, \A x \in S : x <= b
  PROVE  Max(S) \in S /\ \A x \in S : x <= Max(S)
  <1> DEFINE T == {n \in Nat : b - n \in S}
  <1>1. T \in SUBSET Nat /\ T # {}
    <2>1. PICK x \in S : TRUE
      OBVIOUS
    <2>2. b - x \in Nat /\ b - (b - x) = x
      BY <2>1
    <2> QED BY <2>1, <2>2
  <1>2. PICK n \in T : \A m \in T : n <= m
    BY <1>1, Least
  <1>3. b - n \in S
    BY <1>2
  <1>4. ASSUME NEW x \in S
        PROVE  b - n >= x
    <2>1. b - x \in Nat /\ b - (b - x) = x
      BY <1>4
    <2>2. n <= b - x
      BY <1>2, <2>1
    <2> QED BY <1>2, <2>1, <2>2
  <1>5. \A x \in S : (\A y \in S : x >= y) => x = b - n
    BY <1>2, <1>3, <1>4
  <1> QED BY <1>3, <1>4, <1>5 DEF Max

LEMMA MinOfTwo ==
  ASSUME NEW a \in Int, NEW b \in Int
  PROVE  /\ Min({a, b}) = IF a <= b THEN a ELSE b
         /\ Max({a, b}) = IF a <= b THEN b ELSE a
  BY DEF Min, Max

\* A number is in one bit of one position, and the positions are ordered as the
\* numbers are.
LEMMA BitOfNumber ==
  ASSUME NEW n \in Int
  PROVE  /\ bitset_pos(n) \in Int /\ BitIndex(n) \in BitNum
         /\ lowestBitsetPosAsInteger(bitset_pos(n)) + BitIndex(n) = n
  BY NumberAssumption DEF bitset_pos, BitIndex, BitNum, lowestBitsetPosAsInteger

LEMMA NumberOfBit ==
  ASSUME NEW p \in Int, NEW b \in BitNum
  PROVE  /\ lowestBitsetPosAsInteger(p) \in Int /\ b \in Int
         /\ lowestBitsetPosAsInteger(p) + b \in Int
         /\ bitset_pos(lowestBitsetPosAsInteger(p) + b) = p
         /\ BitIndex(lowestBitsetPosAsInteger(p) + b) = b
  BY NumberAssumption DEF bitset_pos, BitIndex, BitNum, lowestBitsetPosAsInteger

LEMMA OrderOfNumbers ==
  ASSUME NEW m \in Int, NEW n \in Int
  PROVE  /\ bitset_pos(m) < bitset_pos(n) => m < n
         /\ bitset_pos(m) = bitset_pos(n) => (m < n <=> BitIndex(m) < BitIndex(n))
  BY NumberAssumption DEF bitset_pos, BitIndex, BitNum

---------------------------------------------------------------------------
(* The invariant of one set: a bitset for every position, and only bits that *)
(* stand for integers.                                                      *)

SetOK(s) ==
    /\ s.min_position \in Int /\ s.max_position \in Int /\ s.min_position <= s.max_position
    /\ s.bitset \in [0..s.max_position - s.min_position -> SUBSET BitNum]
    /\ \A p \in Positions(s) : \A b \in BitsetAt(s, p) : lowestBitsetPosAsInteger(p) + b \in Int64

\* The bitsets of s are those of f from min to max.
Covers(s, min, max, f) ==
    s = [min_position |-> min, max_position |-> max, bitset |-> [i \in 0..max - min |-> f[min + i]]]

LEMMA Int64IsInt == Int64 \in SUBSET Int
  BY DEF Int64

LEMMA BitsFacts ==
  ASSUME NEW s, SetOK(s)
  PROVE  /\ Positions(s) \in SUBSET Int
         /\ \A p \in Int : /\ Bits(s, p) \in SUBSET BitNum
                           /\ \A b \in Bits(s, p) : lowestBitsetPosAsInteger(p) + b \in Int64
         /\ \A p \in Positions(s) : Bits(s, p) = BitsetAt(s, p)
         /\ \A p \in Int \ Positions(s) : Bits(s, p) = {}
         /\ \A p : p \in Positions(s) <=> p \in Int /\ s.min_position <= p /\ p <= s.max_position
  <1>1. \A p : p \in Positions(s) <=> p \in Int /\ s.min_position <= p /\ p <= s.max_position
    BY DEF Positions, SetOK
  <1>2. \A p \in Positions(s) : BitsetAt(s, p) \in SUBSET BitNum
    BY <1>1 DEF BitsetAt, SetOK
  <1> QED BY <1>1, <1>2 DEF Bits, SetOK

LEMMA Member ==
  ASSUME NEW s, SetOK(s)
  PROVE  /\ ElementsOf(s) \in SUBSET Int64
         /\ \A n \in Int : n \in ElementsOf(s) <=> BitIndex(n) \in Bits(s, bitset_pos(n))
         /\ \A p \in Int : \A b \in Bits(s, p) : lowestBitsetPosAsInteger(p) + b \in ElementsOf(s)
  <1>1. ElementsOf(s) \in SUBSET Int64
    BY DEF ElementsOf
  <1>2. ASSUME NEW n \in Int, BitIndex(n) \in Bits(s, bitset_pos(n))
        PROVE  n \in ElementsOf(s)
    <2>1. bitset_pos(n) \in Positions(s) /\ BitIndex(n) \in BitNum
      BY <1>2, BitOfNumber, BitsFacts
    <2>2. n \in Int64
      BY <1>2, BitOfNumber, BitsFacts
    <2> QED BY <1>2, <2>1, <2>2, BitOfNumber DEF ElementsOf
  <1>3. ASSUME NEW p \in Int, NEW b \in Bits(s, p)
        PROVE  lowestBitsetPosAsInteger(p) + b \in ElementsOf(s)
    BY <1>2, BitsFacts, NumberOfBit
  <1> QED BY <1>1, <1>2, <1>3 DEF ElementsOf

LEMMA Covered ==
  ASSUME NEW min \in Int, NEW max \in Int, min <= max, NEW f \in [Int -> SUBSET BitNum], NEW s,
         Covers(s, min, max, f),
         \A p \in min..max : \A b \in f[p] : lowestBitsetPosAsInteger(p) + b \in Int64
  PROVE  /\ SetOK(s) /\ s.min_position = min /\ s.max_position = max
         /\ \A p \in Int : Bits(s, p) = IF p \in min..max THEN f[p] ELSE {}
  <1>1. /\ s.min_position = min /\ s.max_position = max /\ s.bitset \in [0..max - min -> SUBSET BitNum]
        /\ \A i \in 0..max - min : s.bitset[i] = f[min + i]
    BY DEF Covers
  <1>2. ASSUME NEW p \in min..max
        PROVE  BitsetAt(s, p) = f[p]
    <2>1. p - min \in 0..max - min /\ min + (p - min) = p
      OBVIOUS
    <2> QED BY <1>1, <2>1 DEF BitsetAt
  <1> QED BY <1>1, <1>2 DEF SetOK, Positions, Bits

LEMMA ElementsFromBits ==
  ASSUME NEW s, NEW t, NEW u, SetOK(s), SetOK(t), SetOK(u)
  PROVE  /\ (\A p \in Int : Bits(s, p) = Bits(t, p)) <=> ElementsOf(s) = ElementsOf(t)
         /\ (\A p \in Int : Bits(u, p) = Bits(s, p) \cup Bits(t, p)) => ElementsOf(u) = ElementsOf(s) \cup ElementsOf(t)
         /\ (\A p \in Int : Bits(u, p) = Bits(s, p) \cap Bits(t, p)) => ElementsOf(u) = ElementsOf(s) \cap ElementsOf(t)
         /\ (\A p \in Int : Bits(u, p) = Bits(s, p) \ Bits(t, p)) => ElementsOf(u) = ElementsOf(s) \ ElementsOf(t)
         /\ (\A p \in Int : Bits(u, p) = SymmetricDifference(Bits(s, p), Bits(t, p)))
               => ElementsOf(u) = SymmetricDifference(ElementsOf(s), ElementsOf(t))
  <1>1. ASSUME NEW x \in {s, t, u}
        PROVE  /\ ElementsOf(x) \in SUBSET Int
               /\ \A n \in Int : n \in ElementsOf(x) <=> BitIndex(n) \in Bits(x, bitset_pos(n))
    BY Member, Int64IsInt
  <1>2. \A n \in Int : bitset_pos(n) \in Int
    BY BitOfNumber
  <1>3. ASSUME ElementsOf(s) = ElementsOf(t), NEW p \in Int, NEW b \in BitNum
        PROVE  b \in Bits(s, p) <=> b \in Bits(t, p)
    <2>1. PICK n \in Int : bitset_pos(n) = p /\ BitIndex(n) = b
      BY NumberOfBit
    <2> QED BY <1>1, <1>3, <2>1
  <1>4. \A p \in Int : Bits(s, p) \in SUBSET BitNum /\ Bits(t, p) \in SUBSET BitNum
    BY BitsFacts
  <1>5. ElementsOf(s) = ElementsOf(t) => \A p \in Int : Bits(s, p) = Bits(t, p)
    BY <1>3, <1>4
  <1>6. (\A p \in Int : Bits(s, p) = Bits(t, p)) => ElementsOf(s) = ElementsOf(t)
    BY <1>1, <1>2
  <1>7. (\A p \in Int : Bits(u, p) = Bits(s, p) \cup Bits(t, p)) => ElementsOf(u) = ElementsOf(s) \cup ElementsOf(t)
    BY <1>1, <1>2
  <1>8. (\A p \in Int : Bits(u, p) = Bits(s, p) \cap Bits(t, p)) => ElementsOf(u) = ElementsOf(s) \cap ElementsOf(t)
    BY <1>1, <1>2
  <1>9. (\A p \in Int : Bits(u, p) = Bits(s, p) \ Bits(t, p)) => ElementsOf(u) = ElementsOf(s) \ ElementsOf(t)
    BY <1>1, <1>2
  <1>10. (\A p \in Int : Bits(u, p) = SymmetricDifference(Bits(s, p), Bits(t, p)))
               => ElementsOf(u) = SymmetricDifference(ElementsOf(s), ElementsOf(t))
    BY <1>1, <1>2 DEF SymmetricDifference
  <1> QED BY <1>5, <1>6, <1>7, <1>8, <1>9, <1>10

---------------------------------------------------------------------------
(* What the operations do to the bits at every position.                    *)

LEMMA EmptySetOK == SetOK(EMPTY_SET) /\ ElementsOf(EMPTY_SET) = {} /\ \A p \in Int : Bits(EMPTY_SET, p) = {}
  <1> DEFINE f == [p \in Int |-> {}]
  <1>1. Covers(EMPTY_SET, 0, 0, f)
    BY DEF Covers, EMPTY_SET
  <1>2. f \in [Int -> SUBSET BitNum] /\ \A p \in Int : f[p] = {}
    OBVIOUS
  <1> HIDE DEF f
  <1>3. SetOK(EMPTY_SET) /\ \A p \in Int : Bits(EMPTY_SET, p) = {}
    BY <1>1, <1>2, Covered
  <1> QED BY <1>3, Member, Int64IsInt, BitOfNumber

\* A set that differs from s in one bit at most.
LEMMA IncludedOK ==
  ASSUME NEW s, SetOK(s), NEW n \in Int64
  PROVE  SetOK(Included(s, n)) /\ ElementsOf(Included(s, n)) = ElementsOf(s) \cup {n}
  <1> DEFINE pos == bitset_pos(n)
             min == Min({pos, s.min_position})
             max == Max({pos, s.max_position})
             f == [p \in Int |-> IF p = pos THEN Bits(s, p) \cup {BitIndex(n)} ELSE Bits(s, p)]
             u == Included(s, n)
  <1>1. n \in Int /\ pos \in Int /\ BitIndex(n) \in BitNum /\ lowestBitsetPosAsInteger(pos) + BitIndex(n) = n
    BY Int64IsInt, BitOfNumber
  <1>2. s.min_position \in Int /\ s.max_position \in Int /\ s.min_position <= s.max_position
    BY DEF SetOK
  <1>3. min \in Int /\ max \in Int /\ min <= max /\ min <= pos /\ pos <= max /\ min <= s.min_position /\ s.max_position <= max
    BY <1>1, <1>2, MinOfTwo
  <1>4. u = [min_position |-> min, max_position |-> max,
             bitset |-> [i \in 0..max - min |-> IF min + i = pos THEN Bits(s, min + i) \cup {BitIndex(n)} ELSE Bits(s, min + i)]]
    BY DEF Included, NewSet
  <1> HIDE DEF min, max
  <1>5. Covers(u, min, max, f)
    <2>1. \A i \in 0..max - min : min + i \in Int
      BY <1>3
    <2> HIDE DEF u, pos
    <2> QED BY <1>4, <2>1 DEF Covers
  <1>6. f \in [Int -> SUBSET BitNum] /\ \A p \in Int : f[p] = IF p = pos THEN Bits(s, p) \cup {BitIndex(n)} ELSE Bits(s, p)
    BY <1>1, BitsFacts
  <1> HIDE DEF f, u
  <1>7. \A p \in min..max : \A b \in f[p] : lowestBitsetPosAsInteger(p) + b \in Int64
    BY <1>1, <1>3, <1>6, BitsFacts
  <1>8. SetOK(u) /\ \A p \in Int : Bits(u, p) = IF p \in min..max THEN f[p] ELSE {}
    BY <1>3, <1>5, <1>6, <1>7, Covered
  <1>9. \A p \in Int : Bits(u, p) = IF p = pos THEN Bits(s, p) \cup {BitIndex(n)} ELSE Bits(s, p)
    <2> SUFFICES ASSUME NEW p \in Int
                 PROVE  Bits(u, p) = IF p = pos THEN Bits(s, p) \cup {BitIndex(n)} ELSE Bits(s, p)
      OBVIOUS
    <2>1. CASE p \in min..max
      BY <1>6, <1>8, <2>1
    <2>2. CASE p \notin min..max
      <3>1. p # pos /\ p \notin Positions(s)
        BY <1>1, <1>2, <1>3, <2>2, BitsFacts
      <3> QED BY <1>8, <2>2, <3>1, BitsFacts
    <2> QED BY <2>1, <2>2
  <1>10. ASSUME NEW m \in Int
         PROVE  m \in ElementsOf(u) <=> m \in ElementsOf(s) \cup {n}
    <2>1. bitset_pos(m) = pos /\ BitIndex(m) = BitIndex(n) <=> m = n
      BY <1>1, BitOfNumber
    <2>2. m \in ElementsOf(u) <=> BitIndex(m) \in Bits(u, bitset_pos(m))
      BY <1>8, Member
    <2>3. m \in ElementsOf(s) <=> BitIndex(m) \in Bits(s, bitset_pos(m))
      BY Member
    <2>4. bitset_pos(m) \in Int
      BY BitOfNumber
    <2> QED BY <1>9, <2>1, <2>2, <2>3, <2>4
  <1>11. ElementsOf(u) \in SUBSET Int /\ ElementsOf(s) \in SUBSET Int
    BY <1>8, Member, Int64IsInt
  <1> QED BY <1>1, <1>8, <1>10, <1>11 DEF u

LEMMA BaselitOK ==
  ASSUME NEW n \in Int64
  PROVE  SetOK(setBaselit(n)) /\ ElementsOf(setBaselit(n)) = {n}
  <1> DEFINE pos == bitset_pos(n)
             f == [p \in Int |-> {BitIndex(n)}]
             u == setBaselit(n)
  <1>1. n \in Int /\ pos \in Int /\ BitIndex(n) \in BitNum /\ lowestBitsetPosAsInteger(pos) + BitIndex(n) = n
    BY Int64IsInt, BitOfNumber
  <1>2. Covers(u, pos, pos, f)
    <2>1. u = [min_position |-> pos, max_position |-> pos, bitset |-> [i \in 0..pos - pos |-> {BitIndex(n)}]]
      BY DEF setBaselit, NewSet
    <2>2. \A i \in 0..pos - pos : pos + i \in Int
      BY <1>1
    <2> HIDE DEF u, pos
    <2> QED BY <2>1, <2>2 DEF Covers
  <1>3. f \in [Int -> SUBSET BitNum] /\ \A p \in Int : f[p] = {BitIndex(n)}
    BY <1>1
  <1> HIDE DEF f, u
  <1>4. \A p \in pos..pos : \A b \in f[p] : lowestBitsetPosAsInteger(p) + b \in Int64
    BY <1>1, <1>3
  <1>5. SetOK(u) /\ \A p \in Int : Bits(u, p) = IF p \in pos..pos THEN f[p] ELSE {}
    BY <1>1, <1>2, <1>3, <1>4, Covered
  <1>6. ASSUME NEW m \in Int
        PROVE  m \in ElementsOf(u) <=> m = n
    <2>1. bitset_pos(m) = pos /\ BitIndex(m) = BitIndex(n) <=> m = n
      BY <1>1, BitOfNumber
    <2>2. m \in ElementsOf(u) <=> BitIndex(m) \in Bits(u, bitset_pos(m))
      BY <1>5, Member
    <2>3. bitset_pos(m) \in Int /\ (bitset_pos(m) \in pos..pos <=> bitset_pos(m) = pos)
      BY <1>1, BitOfNumber
    <2> QED BY <1>3, <1>5, <2>1, <2>2, <2>3
  <1>7. ElementsOf(u) \in SUBSET Int
    BY <1>5, Member, Int64IsInt
  <1> QED BY <1>1, <1>5, <1>6, <1>7 DEF u

\* The outcomes of an operation whose result should have the elements new.
Allowed(outcomes, old, new) ==
    \A o \in outcomes : SetOK(o.set) /\ (ElementsOf(o.set) = new \/ (o.failed /\ ElementsOf(o.set) = old))

LEMMA InclAllowed ==
  ASSUME NEW s, SetOK(s), NEW n \in Int64
  PROVE  Allowed(set_incl(s, n), ElementsOf(s), ElementsOf(s) \cup {n})
  <1>1. s.bitset = [i \in {0} |-> {}] => ElementsOf(s) = {}
    <2> SUFFICES ASSUME s.bitset = [i \in {0} |-> {}]
                 PROVE  ElementsOf(s) = {}
      OBVIOUS
    <2>1. DOMAIN s.bitset = 0..s.max_position - s.min_position /\ DOMAIN s.bitset = {0} /\ s.bitset[0] = {}
      BY DEF SetOK
    <2>2. \A p \in Positions(s) : BitsetAt(s, p) = {}
      <3>1. s.max_position - s.min_position \in {0} /\ s.max_position \in Int /\ s.min_position \in Int
        BY <2>1 DEF SetOK
      <3>2. \A p \in Positions(s) : p - s.min_position = 0
        BY <3>1, BitsFacts
      <3> QED BY <2>1, <3>2 DEF BitsetAt
    <2>3. \A p \in Int : Bits(s, p) = {}
      BY <2>2 DEF Bits
    <2> QED BY <2>3, Member, Int64IsInt, BitOfNumber
  <1>2. \A o \in set_incl(s, n) : \/ o = Result(Included(s, n)) \/ o = MemoryError(s)
                                  \/ s.bitset = [i \in {0} |-> {}] /\ o = Result(setBaselit(n))
    BY DEF set_incl, setIncl
  <1> SUFFICES ASSUME NEW o \in set_incl(s, n)
               PROVE  SetOK(o.set) /\ (ElementsOf(o.set) = ElementsOf(s) \cup {n} \/ (o.failed /\ ElementsOf(o.set) = ElementsOf(s)))
    BY DEF Allowed
  <1>3. CASE o = Result(Included(s, n))
    <2>1. o.set = Included(s, n)
      BY <1>3 DEF Result
    <2> QED BY <2>1, IncludedOK
  <1>4. CASE o = MemoryError(s)
    BY <1>4 DEF MemoryError
  <1>5. CASE s.bitset = [i \in {0} |-> {}] /\ o = Result(setBaselit(n))
    <2>1. o.set = setBaselit(n)
      BY <1>5 DEF Result
    <2> QED BY <1>1, <1>5, <2>1, BaselitOK
  <1> QED BY <1>2, <1>3, <1>4, <1>5

LEMMA ExclAllowed ==
  ASSUME NEW s, SetOK(s), NEW n \in Int64
  PROVE  Allowed(setExcl(s, n), ElementsOf(s), ElementsOf(s) \ {n})
  <1> DEFINE pos == bitset_pos(n)
             Left(p) == IF p = pos THEN BitsetAt(s, p) \ {BitIndex(n)} ELSE BitsetAt(s, p)
             f == [p \in Int |-> IF p \in Positions(s) THEN Left(p) ELSE {}]
             used == {p \in Positions(s) : Left(p) # {}}
             Cut(u, min, max) == u = NewSet(min, max, Left)
  <1>1. n \in Int /\ pos \in Int /\ BitIndex(n) \in BitNum /\ lowestBitsetPosAsInteger(pos) + BitIndex(n) = n
    BY Int64IsInt, BitOfNumber
  <1>2. s.min_position \in Int /\ s.max_position \in Int /\ s.min_position <= s.max_position
    BY DEF SetOK
  <1>3. f \in [Int -> SUBSET BitNum] /\ \A p \in Int : f[p] = IF p = pos THEN Bits(s, p) \ {BitIndex(n)} ELSE Bits(s, p)
    <2>1. \A p \in Int : f[p] = IF p \in Positions(s) THEN Left(p) ELSE {}
      OBVIOUS
    <2>2. \A p \in Int : f[p] = IF p = pos THEN Bits(s, p) \ {BitIndex(n)} ELSE Bits(s, p)
      BY <2>1, BitsFacts
    <2>3. \A p \in Int : f[p] \in SUBSET BitNum
      BY <2>2, BitsFacts
    <2> QED BY <2>2, <2>3
  <1>4. \A p \in Int : f[p] = IF p \in Positions(s) THEN Left(p) ELSE {}
    OBVIOUS
  <1>5. used \in SUBSET Int /\ \A p \in used : s.min_position <= p /\ p <= s.max_position
    BY BitsFacts
  <1>6. \A p \in Int \ used : f[p] = {}
    BY <1>4
  <1> HIDE DEF f
  <1>7. ASSUME NEW min \in Int, NEW max \in Int, min <= max, s.min_position <= min, max <= s.max_position,
               \A p \in used : min <= p /\ p <= max, NEW u, Cut(u, min, max)
        PROVE  SetOK(u) /\ ElementsOf(u) = ElementsOf(s) \ {n}
    <2>1. u = [min_position |-> min, max_position |-> max, bitset |-> [i \in 0..max - min |-> Left(min + i)]]
      BY <1>7 DEF NewSet
    <2>2. \A i \in 0..max - min : Left(min + i) = f[min + i]
      <3>1. \A i \in 0..max - min : min + i \in Int /\ min + i \in Positions(s)
        <4>1. \A i \in 0..max - min : min + i \in Int /\ s.min_position <= min + i /\ min + i <= s.max_position
          <5> HIDE DEF Cut
          <5> QED BY <1>2, <1>7, SMTT(30)
        <4> QED BY <4>1, BitsFacts
      <3> QED BY <1>4, <3>1
    <2> HIDE DEF Left
    <2>3. Covers(u, min, max, f)
      BY <2>1, <2>2 DEF Covers
    <2>4. \A p \in min..max : \A b \in f[p] : lowestBitsetPosAsInteger(p) + b \in Int64
      BY <1>3, BitsFacts
    <2> HIDE DEF used
    <2>5. SetOK(u) /\ \A p \in Int : Bits(u, p) = IF p \in min..max THEN f[p] ELSE {}
      BY <1>3, <1>7, <2>3, <2>4, Covered
    <2>6. \A p \in Int : Bits(u, p) = f[p]
      BY <1>6, <1>7, <2>5
    <2>7. ASSUME NEW m \in Int
          PROVE  m \in ElementsOf(u) <=> m \in ElementsOf(s) \ {n}
      <3>1. bitset_pos(m) = pos /\ BitIndex(m) = BitIndex(n) <=> m = n
        BY <1>1, BitOfNumber
      <3>2. m \in ElementsOf(u) <=> BitIndex(m) \in Bits(u, bitset_pos(m))
        BY <2>5, Member
      <3>3. m \in ElementsOf(s) <=> BitIndex(m) \in Bits(s, bitset_pos(m))
        BY Member
      <3>4. bitset_pos(m) \in Int
        BY BitOfNumber
      <3> QED BY <1>3, <2>6, <3>1, <3>2, <3>3, <3>4
    <2>8. ElementsOf(u) \in SUBSET Int /\ ElementsOf(s) \in SUBSET Int
      BY <2>5, Member, Int64IsInt
    <2> QED BY <2>5, <2>7, <2>8
  <1> DEFINE cleared == NewSet(s.min_position, s.max_position, Left)
             above == NewSet(Min(used \cup {s.max_position}), s.max_position, Left)
             below == NewSet(s.min_position, Max(used \cup {s.min_position}), Left)
  <1>8. SetOK(cleared) /\ ElementsOf(cleared) = ElementsOf(s) \ {n}
    <2>1. Cut(cleared, s.min_position, s.max_position)
      OBVIOUS
    <2> HIDE DEF cleared, Cut, used
    <2> QED BY <1>2, <1>5, <1>7, <2>1
  <1>9. SetOK(above) /\ ElementsOf(above) = ElementsOf(s) \ {n}
    <2> DEFINE S == used \cup {s.max_position}
    <2>1. S \in SUBSET Int /\ S # {} /\ \A p \in S : s.min_position <= p
      BY <1>2, <1>5
    <2>2. Min(S) \in S /\ \A p \in S : Min(S) <= p
      BY <1>2, <2>1, LeastOf
    <2>3. Cut(above, Min(S), s.max_position)
      OBVIOUS
    <2>4. /\ Min(S) \in Int /\ s.max_position \in Int /\ Min(S) <= s.max_position /\ s.min_position <= Min(S)
          /\ \A p \in used : Min(S) <= p /\ p <= s.max_position
      BY <1>2, <1>5, <2>1, <2>2
    <2> HIDE DEF above, Cut, used, S
    <2> QED BY <1>2, <1>7, <2>3, <2>4
  <1>10. SetOK(below) /\ ElementsOf(below) = ElementsOf(s) \ {n}
    <2> DEFINE S == used \cup {s.min_position}
    <2>1. S \in SUBSET Int /\ S # {} /\ \A p \in S : p <= s.max_position
      BY <1>2, <1>5
    <2>2. Max(S) \in S /\ \A p \in S : p <= Max(S)
      BY <1>2, <2>1, GreatestOf
    <2>3. Cut(below, s.min_position, Max(S))
      OBVIOUS
    <2>4. /\ Max(S) \in Int /\ s.min_position \in Int /\ s.min_position <= Max(S) /\ Max(S) <= s.max_position
          /\ \A p \in used : s.min_position <= p /\ p <= Max(S)
      BY <1>2, <1>5, <2>1, <2>2
    <2> HIDE DEF below, Cut, used, S
    <2> QED BY <1>2, <1>7, <2>3, <2>4
  <1>11. pos \notin Positions(s) => ElementsOf(s) = ElementsOf(s) \ {n}
    BY <1>1, Member, BitsFacts
  <1>12. ASSUME NEW o \in setExcl(s, n)
         PROVE  \/ pos \notin Positions(s) /\ o.set = s
                \/ o.set \in {cleared, above, below}
    <2>1. setExcl(s, n) \in SUBSET (IF pos \notin Positions(s) THEN {Result(s)}
              ELSE {Result(cleared), Result(above), Result(below), MemoryError(above), MemoryError(below)})
      BY DEF setExcl
    <2> HIDE DEF cleared, above, below
    <2> QED BY <2>1 DEF Result, MemoryError
  <1> HIDE DEF cleared, above, below
  <1>13. ASSUME NEW o \in setExcl(s, n)
         PROVE  SetOK(o.set) /\ ElementsOf(o.set) = ElementsOf(s) \ {n}
    BY <1>8, <1>9, <1>10, <1>11, <1>12
  <1> QED BY <1>13 DEF Allowed

\* The positions of two sets, as Merged tells them apart.
LowestOf(s, t) == Min({s.min_position, t.min_position})
HighestOf(s, t) == Max({s.max_position, t.max_position})
StartOf(s, t) == Max({s.min_position, t.min_position})
StopOf(s, t) == Min({s.max_position, t.max_position})
LowerOf(s, t) == IF s.min_position < t.min_position THEN s ELSE t
UpperOf(s, t) == IF s.max_position > t.max_position THEN s ELSE t

Place(s, t, p) ==
    /\ p \in StartOf(s, t)..StopOf(s, t) => p \in Positions(s) /\ p \in Positions(t)
    /\ p < StartOf(s, t) /\ p <= LowerOf(s, t).max_position =>
          \/ LowerOf(s, t) = s /\ p \in Positions(s) /\ p \notin Positions(t)
          \/ LowerOf(s, t) = t /\ p \in Positions(t) /\ p \notin Positions(s)
    /\ p > StopOf(s, t) /\ p >= UpperOf(s, t).min_position =>
          \/ UpperOf(s, t) = s /\ p \in Positions(s) /\ p \notin Positions(t)
          \/ UpperOf(s, t) = t /\ p \in Positions(t) /\ p \notin Positions(s)
    /\ \/ p \in StartOf(s, t)..StopOf(s, t)
       \/ (p < StartOf(s, t) /\ p <= LowerOf(s, t).max_position)
       \/ (p > StopOf(s, t) /\ p >= UpperOf(s, t).min_position)
       \/ (p \notin Positions(s) /\ p \notin Positions(t))

LEMMA MergedPlaces ==
  ASSUME NEW s, NEW t, SetOK(s), SetOK(t)
  PROVE  /\ LowestOf(s, t) \in Int /\ HighestOf(s, t) \in Int /\ LowestOf(s, t) <= HighestOf(s, t)
         /\ \A p \in Int : p \in Positions(s) \cup Positions(t) => p \in LowestOf(s, t)..HighestOf(s, t)
         /\ \A p \in LowestOf(s, t)..HighestOf(s, t) : Place(s, t, p)
  <1> DEFINE min == LowestOf(s, t)
             max == HighestOf(s, t)
             start == StartOf(s, t)
             stop == StopOf(s, t)
             lower == LowerOf(s, t)
             upper == UpperOf(s, t)
  <1>1. s.min_position \in Int /\ s.max_position \in Int /\ s.min_position <= s.max_position
    BY DEF SetOK
  <1>2. t.min_position \in Int /\ t.max_position \in Int /\ t.min_position <= t.max_position
    BY DEF SetOK
  <1>3. /\ start = (IF s.min_position <= t.min_position THEN t.min_position ELSE s.min_position)
        /\ stop = (IF s.max_position <= t.max_position THEN s.max_position ELSE t.max_position)
        /\ min = (IF s.min_position <= t.min_position THEN s.min_position ELSE t.min_position)
        /\ max = (IF s.max_position <= t.max_position THEN t.max_position ELSE s.max_position)
    BY <1>1, <1>2, MinOfTwo DEF LowestOf, HighestOf, StartOf, StopOf
  <1>31. /\ lower = (IF s.min_position < t.min_position THEN s ELSE t)
         /\ upper = (IF s.max_position > t.max_position THEN s ELSE t)
    BY DEF LowerOf, UpperOf
  <1> HIDE DEF min, max, start, stop, lower, upper, Place
  <1>4. /\ \A p : p \in Positions(s) <=> p \in Int /\ s.min_position <= p /\ p <= s.max_position
        /\ \A p : p \in Positions(t) <=> p \in Int /\ t.min_position <= p /\ p <= t.max_position
    BY BitsFacts
  <1>5. min \in Int /\ max \in Int /\ min <= max /\ start \in Int /\ stop \in Int
    BY <1>1, <1>2, <1>3
  <1>6. \A p \in Int : p \in Positions(s) \cup Positions(t) => p \in min..max
    BY <1>1, <1>2, <1>3, <1>4
  <1>7. ASSUME NEW p \in min..max, p \in start..stop
        PROVE  p \in Positions(s) /\ p \in Positions(t)
    BY <1>1, <1>2, <1>3, <1>4, <1>7
  <1>8. ASSUME NEW p \in min..max, p < start, p <= lower.max_position
        PROVE  \/ lower = s /\ p \in Positions(s) /\ p \notin Positions(t)
               \/ lower = t /\ p \in Positions(t) /\ p \notin Positions(s)
    BY <1>1, <1>2, <1>3, <1>31, <1>4, <1>8
  <1>9. ASSUME NEW p \in min..max, p > stop, p >= upper.min_position
        PROVE  \/ upper = s /\ p \in Positions(s) /\ p \notin Positions(t)
               \/ upper = t /\ p \in Positions(t) /\ p \notin Positions(s)
    BY <1>1, <1>2, <1>3, <1>31, <1>4, <1>9
  <1>10. ASSUME NEW p \in min..max, p \notin start..stop, ~(p < start /\ p <= lower.max_position),
                ~(p > stop /\ p >= upper.min_position)
         PROVE  p \notin Positions(s) /\ p \notin Positions(t)
    BY <1>1, <1>2, <1>3, <1>31, <1>4, <1>5, <1>10
  <1>11. ASSUME NEW p \in min..max
         PROVE  Place(s, t, p)
    <2>1. p \in start..stop => p \in Positions(s) /\ p \in Positions(t)
      BY <1>7
    <2>2. p < start /\ p <= lower.max_position =>
             \/ lower = s /\ p \in Positions(s) /\ p \notin Positions(t)
             \/ lower = t /\ p \in Positions(t) /\ p \notin Positions(s)
      BY <1>8
    <2>3. p > stop /\ p >= upper.min_position =>
             \/ upper = s /\ p \in Positions(s) /\ p \notin Positions(t)
             \/ upper = t /\ p \in Positions(t) /\ p \notin Positions(s)
      BY <1>9
    <2>4. \/ p \in start..stop
          \/ (p < start /\ p <= lower.max_position)
          \/ (p > stop /\ p >= upper.min_position)
          \/ (p \notin Positions(s) /\ p \notin Positions(t))
      BY <1>10
    <2> QED BY <2>1, <2>2, <2>3, <2>4 DEF Place, start, stop, lower, upper
  <1> QED BY <1>5, <1>6, <1>11 DEF min, max

LEMMA UnionOK ==
  ASSUME NEW s, NEW t, SetOK(s), SetOK(t)
  PROVE  SetOK(setUnion(s, t)) /\ ElementsOf(setUnion(s, t)) = ElementsOf(s) \cup ElementsOf(t)
  <1> DEFINE min == LowestOf(s, t)
             max == HighestOf(s, t)
             start == StartOf(s, t)
             stop == StopOf(s, t)
             lower == LowerOf(s, t)
             upper == UpperOf(s, t)
             Bitset(p) == CASE p \in start..stop -> BitsetAt(s, p) \cup BitsetAt(t, p)
                            [] p < start /\ p <= lower.max_position -> BitsetAt(lower, p)
                            [] p > stop /\ p >= upper.min_position -> BitsetAt(upper, p)
                            [] OTHER -> {}
             f == [p \in Int |-> Bits(s, p) \cup Bits(t, p)]
             u == setUnion(s, t)
  <1>1. u = [min_position |-> min, max_position |-> max, bitset |-> [i \in 0..max - min |-> Bitset(min + i)]]
    BY DEF setUnion, Merged, NewSet, LowestOf, HighestOf, StartOf, StopOf, LowerOf, UpperOf
  <1> HIDE DEF min, max, start, stop, lower, upper, u
  <1>2. /\ min \in Int /\ max \in Int /\ min <= max
        /\ \A p \in Int : p \in Positions(s) \cup Positions(t) => p \in min..max
    BY MergedPlaces DEF min, max
  <1>3. ASSUME NEW p \in min..max
        PROVE  Bitset(p) = Bits(s, p) \cup Bits(t, p)
    <2> DEFINE First == p \in start..stop
               Second == p < start /\ p <= lower.max_position
               Third == p > stop /\ p >= upper.min_position
    <2>1. /\ First => p \in Positions(s) /\ p \in Positions(t)
          /\ Second => \/ lower = s /\ p \in Positions(s) /\ p \notin Positions(t)
                       \/ lower = t /\ p \in Positions(t) /\ p \notin Positions(s)
          /\ Third => \/ upper = s /\ p \in Positions(s) /\ p \notin Positions(t)
                      \/ upper = t /\ p \in Positions(t) /\ p \notin Positions(s)
          /\ First \/ Second \/ Third \/ (p \notin Positions(s) /\ p \notin Positions(t))
      <3>1. Place(s, t, p)
        BY <1>3, MergedPlaces DEF min, max
      <3>2. First => p \in Positions(s) /\ p \in Positions(t)
        BY <3>1 DEF Place, start, stop
      <3>3. Second => \/ lower = s /\ p \in Positions(s) /\ p \notin Positions(t)
                      \/ lower = t /\ p \in Positions(t) /\ p \notin Positions(s)
        BY <3>1 DEF Place, start, lower
      <3>4. Third => \/ upper = s /\ p \in Positions(s) /\ p \notin Positions(t)
                     \/ upper = t /\ p \in Positions(t) /\ p \notin Positions(s)
        BY <3>1 DEF Place, stop, upper
      <3>5. First \/ Second \/ Third \/ (p \notin Positions(s) /\ p \notin Positions(t))
        BY <3>1 DEF Place, start, stop, lower, upper
      <3> HIDE DEF First, Second, Third
      <3> QED BY <3>2, <3>3, <3>4, <3>5
    <2>2. p \in Int
      BY <1>2
    <2>3. /\ p \in Positions(s) => BitsetAt(s, p) = Bits(s, p)
          /\ p \notin Positions(s) => Bits(s, p) = {}
          /\ p \in Positions(t) => BitsetAt(t, p) = Bits(t, p)
          /\ p \notin Positions(t) => Bits(t, p) = {}
      BY <2>2, BitsFacts
    <2>4. Bitset(p) = CASE First -> BitsetAt(s, p) \cup BitsetAt(t, p)
                        [] Second -> BitsetAt(lower, p)
                        [] Third -> BitsetAt(upper, p)
                        [] OTHER -> {}
      OBVIOUS
    <2> HIDE DEF First, Second, Third, Bitset
    <2>5. First => BitsetAt(s, p) \cup BitsetAt(t, p) = Bits(s, p) \cup Bits(t, p)
      BY <2>1, <2>3
    <2>6. Second => BitsetAt(lower, p) = Bits(s, p) \cup Bits(t, p)
      BY <2>1, <2>3
    <2>7. Third => BitsetAt(upper, p) = Bits(s, p) \cup Bits(t, p)
      BY <2>1, <2>3
    <2>8. ~First /\ ~Second /\ ~Third => {} = Bits(s, p) \cup Bits(t, p)
      BY <2>1, <2>3
    <2> QED BY <2>4, <2>5, <2>6, <2>7, <2>8
  <1>4. Covers(u, min, max, f)
    <2>1. \A i \in 0..max - min : min + i \in min..max /\ min + i \in Int
      BY <1>2
    <2> HIDE DEF Bitset
    <2>2. \A i \in 0..max - min : Bitset(min + i) = f[min + i]
      BY <1>3, <2>1
    <2> QED BY <1>1, <2>2 DEF Covers
  <1>5. f \in [Int -> SUBSET BitNum] /\ \A p \in Int : f[p] = Bits(s, p) \cup Bits(t, p)
    <2>1. \A p \in Int : Bits(s, p) \cup Bits(t, p) \in SUBSET BitNum
      BY BitsFacts
    <2> QED BY <2>1
  <1> HIDE DEF f
  <1>6. \A p \in min..max : \A b \in f[p] : lowestBitsetPosAsInteger(p) + b \in Int64
    BY <1>2, <1>5, BitsFacts
  <1>7. SetOK(u) /\ \A p \in Int : Bits(u, p) = IF p \in min..max THEN f[p] ELSE {}
    BY <1>2, <1>4, <1>5, <1>6, Covered
  <1>8. ASSUME NEW p \in Int
        PROVE  Bits(u, p) = Bits(s, p) \cup Bits(t, p)
    <2>1. p \notin min..max => Bits(s, p) = {} /\ Bits(t, p) = {}
      BY <1>2, BitsFacts
    <2> QED BY <1>5, <1>7, <2>1
  <1>9. ElementsOf(u) = ElementsOf(s) \cup ElementsOf(t)
    BY <1>7, <1>8, ElementsFromBits
  <1> QED BY <1>7, <1>9 DEF u

LEMMA SymdiffOK ==
  ASSUME NEW s, NEW t, SetOK(s), SetOK(t)
  PROVE  SetOK(setSymdiff(s, t)) /\ ElementsOf(setSymdiff(s, t)) = SymmetricDifference(ElementsOf(s), ElementsOf(t))
  <1> DEFINE min == LowestOf(s, t)
             max == HighestOf(s, t)
             start == StartOf(s, t)
             stop == StopOf(s, t)
             lower == LowerOf(s, t)
             upper == UpperOf(s, t)
             Bitset(p) == CASE p \in start..stop -> SymmetricDifference(BitsetAt(s, p), BitsetAt(t, p))
                            [] p < start /\ p <= lower.max_position -> BitsetAt(lower, p)
                            [] p > stop /\ p >= upper.min_position -> BitsetAt(upper, p)
                            [] OTHER -> {}
             f == [p \in Int |-> SymmetricDifference(Bits(s, p), Bits(t, p))]
             u == setSymdiff(s, t)
  <1>1. u = [min_position |-> min, max_position |-> max, bitset |-> [i \in 0..max - min |-> Bitset(min + i)]]
    BY DEF setSymdiff, Merged, NewSet, LowestOf, HighestOf, StartOf, StopOf, LowerOf, UpperOf
  <1> HIDE DEF min, max, start, stop, lower, upper, u
  <1>2. /\ min \in Int /\ max \in Int /\ min <= max
        /\ \A p \in Int : p \in Positions(s) \cup Positions(t) => p \in min..max
    BY MergedPlaces DEF min, max
  <1>3. ASSUME NEW p \in min..max
        PROVE  Bitset(p) = SymmetricDifference(Bits(s, p), Bits(t, p))
    <2> DEFINE First == p \in start..stop
               Second == p < start /\ p <= lower.max_position
               Third == p > stop /\ p >= upper.min_position
    <2>1. /\ First => p \in Positions(s) /\ p \in Positions(t)
          /\ Second => \/ lower = s /\ p \in Positions(s) /\ p \notin Positions(t)
                       \/ lower = t /\ p \in Positions(t) /\ p \notin Positions(s)
          /\ Third => \/ upper = s /\ p \in Positions(s) /\ p \notin Positions(t)
                      \/ upper = t /\ p \in Positions(t) /\ p \notin Positions(s)
          /\ First \/ Second \/ Third \/ (p \notin Positions(s) /\ p \notin Positions(t))
      <3>1. Place(s, t, p)
        BY <1>3, MergedPlaces DEF min, max
      <3>2. First => p \in Positions(s) /\ p \in Positions(t)
        BY <3>1 DEF Place, start, stop
      <3>3. Second => \/ lower = s /\ p \in Positions(s) /\ p \notin Positions(t)
                      \/ lower = t /\ p \in Positions(t) /\ p \notin Positions(s)
        BY <3>1 DEF Place, start, lower
      <3>4. Third => \/ upper = s /\ p \in Positions(s) /\ p \notin Positions(t)
                     \/ upper = t /\ p \in Positions(t) /\ p \notin Positions(s)
        BY <3>1 DEF Place, stop, upper
      <3>5. First \/ Second \/ Third \/ (p \notin Positions(s) /\ p \notin Positions(t))
        BY <3>1 DEF Place, start, stop, lower, upper
      <3> HIDE DEF First, Second, Third
      <3> QED BY <3>2, <3>3, <3>4, <3>5
    <2>2. p \in Int
      BY <1>2
    <2>3. /\ p \in Positions(s) => BitsetAt(s, p) = Bits(s, p)
          /\ p \notin Positions(s) => Bits(s, p) = {}
          /\ p \in Positions(t) => BitsetAt(t, p) = Bits(t, p)
          /\ p \notin Positions(t) => Bits(t, p) = {}
      BY <2>2, BitsFacts
    <2>4. Bitset(p) = CASE First -> SymmetricDifference(BitsetAt(s, p), BitsetAt(t, p))
                        [] Second -> BitsetAt(lower, p)
                        [] Third -> BitsetAt(upper, p)
                        [] OTHER -> {}
      OBVIOUS
    <2> HIDE DEF First, Second, Third, Bitset
    <2>5. First => SymmetricDifference(BitsetAt(s, p), BitsetAt(t, p)) = SymmetricDifference(Bits(s, p), Bits(t, p))
      BY <2>1, <2>3
    <2>6. Second => BitsetAt(lower, p) = SymmetricDifference(Bits(s, p), Bits(t, p))
      BY <2>1, <2>3 DEF SymmetricDifference
    <2>7. Third => BitsetAt(upper, p) = SymmetricDifference(Bits(s, p), Bits(t, p))
      BY <2>1, <2>3 DEF SymmetricDifference
    <2>8. ~First /\ ~Second /\ ~Third => {} = SymmetricDifference(Bits(s, p), Bits(t, p))
      BY <2>1, <2>3 DEF SymmetricDifference
    <2> QED BY <2>4, <2>5, <2>6, <2>7, <2>8
  <1>4. Covers(u, min, max, f)
    <2>1. \A i \in 0..max - min : min + i \in min..max /\ min + i \in Int
      BY <1>2
    <2> HIDE DEF Bitset
    <2>2. \A i \in 0..max - min : Bitset(min + i) = f[min + i]
      BY <1>3, <2>1
    <2> QED BY <1>1, <2>2 DEF Covers
  <1>5. f \in [Int -> SUBSET BitNum] /\ \A p \in Int : f[p] = SymmetricDifference(Bits(s, p), Bits(t, p))
    <2>1. \A p \in Int : SymmetricDifference(Bits(s, p), Bits(t, p)) \in SUBSET BitNum
      BY BitsFacts DEF SymmetricDifference
    <2> QED BY <2>1
  <1> HIDE DEF f
  <1>6. \A p \in min..max : \A b \in f[p] : lowestBitsetPosAsInteger(p) + b \in Int64
    BY <1>2, <1>5, BitsFacts DEF SymmetricDifference
  <1>7. SetOK(u) /\ \A p \in Int : Bits(u, p) = IF p \in min..max THEN f[p] ELSE {}
    BY <1>2, <1>4, <1>5, <1>6, Covered
  <1>8. ASSUME NEW p \in Int
        PROVE  Bits(u, p) = SymmetricDifference(Bits(s, p), Bits(t, p))
    <2>1. p \notin min..max => Bits(s, p) = {} /\ Bits(t, p) = {}
      BY <1>2, BitsFacts
    <2> QED BY <1>5, <1>7, <2>1 DEF SymmetricDifference
  <1>9. ElementsOf(u) = SymmetricDifference(ElementsOf(s), ElementsOf(t))
    BY <1>7, <1>8, ElementsFromBits
  <1> QED BY <1>7, <1>9 DEF u

LEMMA IntersectOK ==
  ASSUME NEW s, NEW t, SetOK(s), SetOK(t)
  PROVE  SetOK(setIntersect(s, t)) /\ ElementsOf(setIntersect(s, t)) = ElementsOf(s) \cap ElementsOf(t)
  <1> DEFINE used == {p \in Positions(s) : Common(s, t, p) # {}}
             f == [p \in Int |-> Bits(s, p) \cap Bits(t, p)]
             u == setIntersect(s, t)
  <1>1. \A p \in Positions(s) : Common(s, t, p) = Bits(s, p) \cap Bits(t, p)
    BY BitsFacts DEF Common
  <1>2. f \in [Int -> SUBSET BitNum] /\ \A p \in Int : f[p] = Bits(s, p) \cap Bits(t, p)
    BY BitsFacts
  <1>3. used \in SUBSET Int /\ \A p \in used : s.min_position <= p /\ p <= s.max_position
    BY BitsFacts
  <1>4. \A p \in Int \ used : (Bits(s, p) \cap Bits(t, p)) = {}
    BY <1>1, BitsFacts
  <1>5. CASE used = {}
    <2>1. u = EMPTY_SET
      BY <1>5 DEF setIntersect, Trimmed
    <2> HIDE DEF u, used
    <2>2. \A p \in Int : Bits(EMPTY_SET, p) = Bits(s, p) \cap Bits(t, p)
      BY <1>4, <1>5, EmptySetOK
    <2>3. SetOK(EMPTY_SET) /\ ElementsOf(EMPTY_SET) = ElementsOf(s) \cap ElementsOf(t)
      BY <2>2, EmptySetOK, ElementsFromBits
    <2> QED BY <2>1, <2>3 DEF u
  <1>6. CASE used # {}
    <2> DEFINE min == Min(used)
               max == Max(used)
    <2>1. u = [min_position |-> min, max_position |-> max, bitset |-> [i \in 0..max - min |-> Common(s, t, min + i)]]
      BY <1>6 DEF setIntersect, Trimmed, NewSet
    <2> HIDE DEF used, u
    <2>2. s.min_position \in Int /\ s.max_position \in Int
      BY DEF SetOK
    <2>3. /\ min \in used /\ \A p \in used : min <= p
          /\ max \in used /\ \A p \in used : p <= max
      BY <1>3, <1>6, <2>2, LeastOf, GreatestOf
    <2> HIDE DEF min, max
    <2>4. min \in Int /\ max \in Int /\ min <= max /\ s.min_position <= min /\ max <= s.max_position
      BY <1>3, <2>3
    <2>5. \A i \in 0..max - min : min + i \in Int /\ s.min_position <= min + i /\ min + i <= s.max_position
      BY <2>2, <2>4
    <2>6. \A i \in 0..max - min : Common(s, t, min + i) = f[min + i]
      <3>1. \A i \in 0..max - min : min + i \in Positions(s)
        BY <2>5, BitsFacts
      <3> QED BY <1>1, <1>2, <2>5, <3>1
    <2> HIDE DEF f
    <2>7. Covers(u, min, max, f)
      BY <2>1, <2>6 DEF Covers
    <2>8. \A p \in min..max : \A b \in f[p] : lowestBitsetPosAsInteger(p) + b \in Int64
      BY <1>2, <2>4, BitsFacts
    <2>9. SetOK(u) /\ \A p \in Int : Bits(u, p) = IF p \in min..max THEN f[p] ELSE {}
      BY <1>2, <2>4, <2>7, <2>8, Covered
    <2>10. \A p \in Int : p \notin min..max => p \notin used
      BY <2>3, <2>4
    <2>11. \A p \in Int : Bits(u, p) = Bits(s, p) \cap Bits(t, p)
      BY <1>2, <1>4, <2>9, <2>10
    <2>12. ElementsOf(u) = ElementsOf(s) \cap ElementsOf(t)
      BY <2>9, <2>11, ElementsFromBits
    <2> QED BY <2>9, <2>12 DEF u
  <1> QED BY <1>5, <1>6

LEMMA TrimmedDiffOK ==
  ASSUME NEW s, NEW t, SetOK(s), SetOK(t)
  PROVE  SetOK(Trimmed(s, t, Remaining)) /\ ElementsOf(Trimmed(s, t, Remaining)) = ElementsOf(s) \ ElementsOf(t)
  <1> DEFINE used == {p \in Positions(s) : Remaining(s, t, p) # {}}
             f == [p \in Int |-> Bits(s, p) \ Bits(t, p)]
             u == Trimmed(s, t, Remaining)
  <1>1. \A p \in Positions(s) : Remaining(s, t, p) = Bits(s, p) \ Bits(t, p)
    BY BitsFacts DEF Remaining
  <1>2. f \in [Int -> SUBSET BitNum] /\ \A p \in Int : f[p] = Bits(s, p) \ Bits(t, p)
    BY BitsFacts
  <1>3. used \in SUBSET Int /\ \A p \in used : s.min_position <= p /\ p <= s.max_position
    BY BitsFacts
  <1>4. \A p \in Int \ used : (Bits(s, p) \ Bits(t, p)) = {}
    BY <1>1, BitsFacts
  <1>5. CASE used = {}
    <2>1. u = EMPTY_SET
      BY <1>5 DEF Trimmed
    <2> HIDE DEF u, used
    <2>2. \A p \in Int : Bits(EMPTY_SET, p) = Bits(s, p) \ Bits(t, p)
      BY <1>4, <1>5, EmptySetOK
    <2>3. SetOK(EMPTY_SET) /\ ElementsOf(EMPTY_SET) = ElementsOf(s) \ ElementsOf(t)
      BY <2>2, EmptySetOK, ElementsFromBits
    <2> QED BY <2>1, <2>3 DEF u
  <1>6. CASE used # {}
    <2> DEFINE min == Min(used)
               max == Max(used)
    <2>1. u = [min_position |-> min, max_position |-> max, bitset |-> [i \in 0..max - min |-> Remaining(s, t, min + i)]]
      BY <1>6 DEF Trimmed, NewSet
    <2> HIDE DEF used, u
    <2>2. s.min_position \in Int /\ s.max_position \in Int
      BY DEF SetOK
    <2>3. /\ min \in used /\ \A p \in used : min <= p
          /\ max \in used /\ \A p \in used : p <= max
      BY <1>3, <1>6, <2>2, LeastOf, GreatestOf
    <2> HIDE DEF min, max
    <2>4. min \in Int /\ max \in Int /\ min <= max /\ s.min_position <= min /\ max <= s.max_position
      BY <1>3, <2>3
    <2>5. \A i \in 0..max - min : min + i \in Int /\ s.min_position <= min + i /\ min + i <= s.max_position
      BY <2>2, <2>4
    <2>6. \A i \in 0..max - min : Remaining(s, t, min + i) = f[min + i]
      <3>1. \A i \in 0..max - min : min + i \in Positions(s)
        BY <2>5, BitsFacts
      <3> QED BY <1>1, <1>2, <2>5, <3>1
    <2> HIDE DEF f
    <2>7. Covers(u, min, max, f)
      BY <2>1, <2>6 DEF Covers
    <2>8. \A p \in min..max : \A b \in f[p] : lowestBitsetPosAsInteger(p) + b \in Int64
      BY <1>2, <2>4, BitsFacts
    <2>9. SetOK(u) /\ \A p \in Int : Bits(u, p) = IF p \in min..max THEN f[p] ELSE {}
      BY <1>2, <2>4, <2>7, <2>8, Covered
    <2>10. \A p \in Int : p \notin min..max => p \notin used
      BY <2>3, <2>4
    <2>11. \A p \in Int : Bits(u, p) = Bits(s, p) \ Bits(t, p)
      BY <1>2, <1>4, <2>9, <2>10
    <2>12. ElementsOf(u) = ElementsOf(s) \ ElementsOf(t)
      BY <2>9, <2>11, ElementsFromBits, SMTT(30)
    <2> QED BY <2>9, <2>12 DEF u
  <1> QED BY <1>5, <1>6

LEMMA DiffOK ==
  ASSUME NEW s, NEW t, SetOK(s), SetOK(t)
  PROVE  SetOK(setDiff(s, t)) /\ ElementsOf(setDiff(s, t)) = ElementsOf(s) \ ElementsOf(t)
  <1> DEFINE min == s.min_position
             max == s.max_position
             f == [p \in Int |-> Bits(s, p) \ Bits(t, p)]
             u == setDiff(s, t)
  <1>1. min \in Int /\ max \in Int /\ min <= max
    BY DEF SetOK
  <1>2. f \in [Int -> SUBSET BitNum] /\ \A p \in Int : f[p] = Bits(s, p) \ Bits(t, p)
    BY BitsFacts
  <1>3. u = [min_position |-> min, max_position |-> max,
             bitset |-> [i \in 0..max - min |-> BitsetAt(s, min + i) \ Bits(t, min + i)]]
    BY DEF setDiff, NewSet
  <1>4. \A i \in 0..max - min : min + i \in Int /\ min <= min + i /\ min + i <= max
    BY <1>1
  <1>5. \A i \in 0..max - min : BitsetAt(s, min + i) = Bits(s, min + i)
    BY <1>4, BitsFacts
  <1> HIDE DEF u, min, max
  <1>6. Covers(u, min, max, f)
    BY <1>3, <1>4, <1>5 DEF Covers
  <1> HIDE DEF f
  <1>7. \A p \in min..max : \A b \in f[p] : lowestBitsetPosAsInteger(p) + b \in Int64
    BY <1>1, <1>2, BitsFacts
  <1>8. SetOK(u) /\ \A p \in Int : Bits(u, p) = IF p \in min..max THEN f[p] ELSE {}
    BY <1>1, <1>2, <1>6, <1>7, Covered
  <1>9. \A p \in Int : p \notin min..max => Bits(s, p) = {}
    BY <1>1, BitsFacts DEF min, max
  <1>10. \A p \in Int : Bits(u, p) = Bits(s, p) \ Bits(t, p)
    BY <1>2, <1>8, <1>9
  <1>11. ElementsOf(u) = ElementsOf(s) \ ElementsOf(t)
    BY <1>8, <1>10, ElementsFromBits
  <1> QED BY <1>8, <1>11 DEF u

---------------------------------------------------------------------------
(* The variables.                                                           *)

SetsInv ==
    /\ set = [v \in SetVariable |-> set[v]] /\ element = [v \in SetVariable |-> element[v]]
    /\ \A v \in SetVariable : SetOK(set[v]) /\ ElementsOf(set[v]) = element[v]

LEMMA BecomesOK ==
  ASSUME SetsInv, NEW v \in SetVariable, NEW outcomes, NEW new, Allowed(outcomes, ElementsOf(set[v]), new),
         Becomes(v, outcomes, new)
  PROVE  SetsInv'
  <1>1. PICK o \in outcomes : /\ set' = [set EXCEPT ![v] = o.set]
                              /\ element' = [element EXCEPT ![v] = IF o.failed /\ ElementsOf(o.set) # new THEN @ ELSE new]
    BY DEF Becomes
  <1>2. SetOK(o.set) /\ (ElementsOf(o.set) = new \/ (o.failed /\ ElementsOf(o.set) = ElementsOf(set[v])))
    BY DEF Allowed
  <1>3. DOMAIN set = SetVariable /\ DOMAIN element = SetVariable
    BY DEF SetsInv
  <1>4. /\ set' = [w \in SetVariable |-> IF w = v THEN o.set ELSE set[w]]
        /\ element' = [w \in SetVariable |-> IF w = v THEN ElementsOf(o.set) ELSE element[w]]
    <2>1. (IF o.failed /\ ElementsOf(o.set) # new THEN element[v] ELSE new) = ElementsOf(o.set)
      BY <1>2 DEF SetsInv
    <2> DEFINE eo == ElementsOf(o.set)
    <2> HIDE DEF eo
    <2>2. element' = [element EXCEPT ![v] = eo]
      BY <1>1, <1>3, <2>1 DEF eo
    <2> QED BY <1>1, <1>3, <2>2 DEF eo
  <1>5. ASSUME NEW w \in SetVariable
        PROVE  SetOK(set'[w]) /\ ElementsOf(set'[w]) = element'[w]
    <2>1. CASE w = v
      <3>1. set'[w] = o.set /\ element'[w] = ElementsOf(o.set)
        BY <1>4, <2>1
      <3> QED BY <1>2, <3>1
    <2>2. CASE w # v
      <3>1. set'[w] = set[w] /\ element'[w] = element[w]
        BY <1>4, <2>2
      <3> QED BY <3>1 DEF SetsInv
    <2> QED BY <2>1, <2>2
  <1>6. set' = [w \in SetVariable |-> set'[w]] /\ element' = [w \in SetVariable |-> element'[w]]
    BY <1>4
  <1> QED BY <1>5, <1>6 DEF SetsInv

\* Outcomes of operations with a right result, a set that is unchanged, or both.
LEMMA ResultAllowed ==
  ASSUME NEW s, NEW r, SetOK(s), SetOK(r), NEW outcomes,
         outcomes \in SUBSET {Result(r), MemoryError(s), MemoryError(r)}
  PROVE  Allowed(outcomes, ElementsOf(s), ElementsOf(r))
  <1> SUFFICES ASSUME NEW o \in outcomes
               PROVE  SetOK(o.set) /\ (ElementsOf(o.set) = ElementsOf(r) \/ (o.failed /\ ElementsOf(o.set) = ElementsOf(s)))
    BY DEF Allowed
  <1>1. (o.set = r) \/ (o.set = s /\ o.failed)
    BY DEF Result, MemoryError
  <1> QED BY <1>1

LEMMA SetsInvInit == SetsInit => SetsInv
  <1> SUFFICES ASSUME SetsInit PROVE SetsInv
    OBVIOUS
  <1>1. \A v \in SetVariable : set[v] = EMPTY_SET /\ element[v] = {}
    BY DEF SetsInit
  <1>2. \A v \in SetVariable : SetOK(set[v]) /\ ElementsOf(set[v]) = element[v]
    BY <1>1, EmptySetOK
  <1>3. set = [v \in SetVariable |-> set[v]] /\ element = [v \in SetVariable |-> element[v]]
    BY DEF SetsInit
  <1> QED BY <1>2, <1>3 DEF SetsInv

LEMMA SetsInvNext == SetsInv /\ [SetsNext]_setVars => SetsInv'
  <1> SUFFICES ASSUME SetsInv, [SetsNext]_setVars
               PROVE  SetsInv'
    OBVIOUS
  <1>0. \A v \in SetVariable : SetOK(set[v]) /\ ElementsOf(set[v]) = element[v]
    BY DEF SetsInv
  <1>1. ASSUME NEW v \in SetVariable, NEW n \in Number, Incl(v, n)
        PROVE  SetsInv'
    <2>1. Allowed(set_incl(set[v], n), ElementsOf(set[v]), element[v] \cup {n})
      <3>1. n \in Int64
        BY NumberAssumption
      <3> QED BY <1>0, <3>1, InclAllowed
    <2> QED BY <1>1, <2>1, BecomesOK DEF Incl
  <1>2. ASSUME NEW v \in SetVariable, NEW n \in Number, Excl(v, n)
        PROVE  SetsInv'
    <2>1. Allowed(setExcl(set[v], n), ElementsOf(set[v]), element[v] \ {n})
      <3>1. n \in Int64
        BY NumberAssumption
      <3> QED BY <1>0, <3>1, ExclAllowed
    <2> QED BY <1>2, <2>1, BecomesOK DEF Excl
  <1> DEFINE E(v) == ElementsOf(set[v])
  <1>3. ASSUME NEW v \in SetVariable, NEW w \in SetVariable, setUnionAssign(v, w)
        PROVE  SetsInv'
    <2> DEFINE r == setUnion(set[v], set[w])
               new == element[v] \cup element[w]
    <2>1. SetOK(r) /\ ElementsOf(r) = new
      BY <1>0, UnionOK
    <2>2. InPlaceOrNew(set[v], r) \in SUBSET {Result(r), MemoryError(set[v]), MemoryError(r)}
      BY DEF InPlaceOrNew
    <2>3. Becomes(v, InPlaceOrNew(set[v], r), new)
      BY <1>3 DEF setUnionAssign
    <2> HIDE DEF r, new
    <2>4. Allowed(InPlaceOrNew(set[v], r), ElementsOf(set[v]), new)
      BY <1>0, <2>1, <2>2, ResultAllowed
    <2> QED BY <2>3, <2>4, BecomesOK
  <1>4. ASSUME NEW v \in SetVariable, NEW w \in SetVariable, setSymdiffAssign(v, w)
        PROVE  SetsInv'
    <2> DEFINE r == setSymdiff(set[v], set[w])
               new == SymmetricDifference(element[v], element[w])
    <2>1. SetOK(r) /\ ElementsOf(r) = new
      BY <1>0, SymdiffOK
    <2>2. InPlaceOrNew(set[v], r) \in SUBSET {Result(r), MemoryError(set[v]), MemoryError(r)}
      BY DEF InPlaceOrNew
    <2>3. Becomes(v, InPlaceOrNew(set[v], r), new)
      BY <1>4 DEF setSymdiffAssign
    <2> HIDE DEF r, new
    <2>4. Allowed(InPlaceOrNew(set[v], r), ElementsOf(set[v]), new)
      BY <1>0, <2>1, <2>2, ResultAllowed
    <2> QED BY <2>3, <2>4, BecomesOK
  <1>5. ASSUME NEW v \in SetVariable, NEW w \in SetVariable, setIntersectAssign(v, w)
        PROVE  SetsInv'
    <2> DEFINE r == setIntersect(set[v], set[w])
               new == element[v] \cap element[w]
    <2>1. SetOK(r) /\ ElementsOf(r) = new
      BY <1>0, IntersectOK
    <2>2. Shrinking(set[v], r) \in SUBSET {Result(r), MemoryError(set[v]), MemoryError(r)}
      BY DEF Shrinking
    <2>3. Becomes(v, Shrinking(set[v], r), new)
      BY <1>5 DEF setIntersectAssign
    <2> HIDE DEF r, new
    <2>4. Allowed(Shrinking(set[v], r), ElementsOf(set[v]), new)
      BY <1>0, <2>1, <2>2, ResultAllowed
    <2> QED BY <2>3, <2>4, BecomesOK
  <1>6. ASSUME NEW v \in SetVariable, NEW w \in SetVariable, setDiffAssign(v, w)
        PROVE  SetsInv'
    <2> DEFINE r == Trimmed(set[v], set[w], Remaining)
               new == element[v] \ element[w]
    <2>1. SetOK(r) /\ ElementsOf(r) = new
      BY <1>0, TrimmedDiffOK
    <2>2. Shrinking(set[v], r) \in SUBSET {Result(r), MemoryError(set[v]), MemoryError(r)}
      BY DEF Shrinking
    <2>3. Becomes(v, Shrinking(set[v], r), new)
      BY <1>6 DEF setDiffAssign
    <2> HIDE DEF r, new
    <2>4. Allowed(Shrinking(set[v], r), ElementsOf(set[v]), new)
      BY <1>0, <2>1, <2>2, ResultAllowed
    <2> QED BY <2>3, <2>4, BecomesOK
  <1>7. ASSUME NEW v \in SetVariable, NEW w \in SetVariable, AssignDiff(v, w)
        PROVE  SetsInv'
    <2> DEFINE r == setDiff(set[v], set[w])
               new == element[v] \ element[w]
    <2>1. SetOK(r) /\ ElementsOf(r) = new
      BY <1>0, DiffOK
    <2>2. {Result(r)} \in SUBSET {Result(r), MemoryError(set[v]), MemoryError(r)}
      OBVIOUS
    <2>3. Becomes(v, {Result(r)}, new)
      BY <1>7 DEF AssignDiff
    <2> HIDE DEF r, new
    <2>4. Allowed({Result(r)}, ElementsOf(set[v]), new)
      BY <1>0, <2>1, <2>2, ResultAllowed
    <2> QED BY <2>3, <2>4, BecomesOK
  <1>8. ASSUME NEW v \in SetVariable, NEW w \in SetVariable, setCpy(v, w)
        PROVE  SetsInv'
    <2> DEFINE outcomes == {Result(set[w])} \cup IF Cardinality(Positions(set[v])) = Cardinality(Positions(set[w]))
                                                 THEN {} ELSE {MemoryError(set[v])}
               r == set[w]
    <2>1. SetOK(r) /\ ElementsOf(r) = element[w]
      BY <1>0
    <2>2. outcomes \in SUBSET {Result(r), MemoryError(set[v]), MemoryError(r)}
      OBVIOUS
    <2>3. Becomes(v, outcomes, element[w])
      BY <1>8 DEF setCpy
    <2> HIDE DEF r, outcomes
    <2>4. Allowed(outcomes, ElementsOf(set[v]), element[w])
      BY <1>0, <2>1, <2>2, ResultAllowed
    <2> QED BY <2>3, <2>4, BecomesOK
  <1>9. CASE UNCHANGED setVars
    BY <1>9 DEF setVars, SetsInv
  <1> QED BY <1>1, <1>2, <1>3, <1>4, <1>5, <1>6, <1>7, <1>8, <1>9 DEF SetsNext

LEMMA SetsInvHolds == SetsSpec => []SetsInv
  BY SetsInvInit, SetsInvNext, PTL DEF SetsSpec

(* Every set has a bitset for each of its positions, and at least one.      *)
THEOREM SetsTyped == SetsSpec => []SetTypeOK
  <1>1. SetsInv => SetTypeOK
    BY DEF SetsInv, SetTypeOK, SetOK
  <1> QED BY <1>1, SetsInvHolds, PTL

---------------------------------------------------------------------------
(* What the functions tell of a set.                                        *)

LEMMA MinIs ==
  ASSUME NEW S \in SUBSET Int, NEW x \in S, \A y \in S : x <= y
  PROVE  Min(S) = x
  <1>1. \A z \in S : (\A y \in S : z <= y) => z = x
    OBVIOUS
  <1> QED BY <1>1 DEF Min

LEMMA MaxIs ==
  ASSUME NEW S \in SUBSET Int, NEW x \in S, \A y \in S : y <= x
  PROVE  Max(S) = x
  <1>1. \A z \in S : (\A y \in S : z >= y) => z = x
    OBVIOUS
  <1> QED BY <1>1 DEF Max

LEMMA BitsAreBounded ==
  ASSUME NEW B \in SUBSET BitNum, B # {}
  PROVE  /\ BITSET_SIZE \in Int /\ B \in SUBSET Int
         /\ Min(B) \in B /\ \A b \in B : Min(B) <= b
         /\ Max(B) \in B /\ \A b \in B : b <= Max(B)
  <1>1. BITSET_SIZE \in Int /\ B \in SUBSET Int /\ \A b \in B : 0 <= b /\ b <= BITSET_SIZE - 1
    BY NumberAssumption DEF BitNum
  <1>2. Min(B) \in B /\ \A b \in B : Min(B) <= b
    BY <1>1, LeastOf
  <1>3. BITSET_SIZE - 1 \in Int
    BY <1>1
  <1>4. Max(B) \in B /\ \A b \in B : b <= Max(B)
    BY <1>1, <1>3, GreatestOf
  <1> QED BY <1>1, <1>2, <1>4

\* The elements of a set of positions that is empty or has a least one.
LEMMA UsedFacts ==
  ASSUME NEW s, SetOK(s)
  PROVE  /\ Used(s) \in SUBSET Int
         /\ \A p \in Int : p \in Used(s) <=> Bits(s, p) # {}
         /\ \A n \in ElementsOf(s) : bitset_pos(n) \in Used(s)
         /\ \A p \in Used(s) : p \in Positions(s) /\ BitsetAt(s, p) = Bits(s, p)
         /\ \A S \in SUBSET Used(s) : S # {} => /\ Min(S) \in S /\ \A p \in S : Min(S) <= p
                                                /\ Max(S) \in S /\ \A p \in S : p <= Max(S)
  <1>1. Used(s) \in SUBSET Int /\ \A p \in Int : p \in Used(s) <=> Bits(s, p) # {}
    BY BitsFacts DEF Used
  <1>2. \A n \in ElementsOf(s) : bitset_pos(n) \in Used(s)
    BY <1>1, Member, Int64IsInt, BitOfNumber
  <1>3. \A p \in Used(s) : p \in Positions(s) /\ BitsetAt(s, p) = Bits(s, p)
    BY BitsFacts DEF Used
  <1>4. ASSUME NEW S \in SUBSET Used(s), S # {}
        PROVE  /\ Min(S) \in S /\ \A p \in S : Min(S) <= p
               /\ Max(S) \in S /\ \A p \in S : p <= Max(S)
    <2>1. s.min_position \in Int /\ s.max_position \in Int
      BY DEF SetOK
    <2>2. S \in SUBSET Int /\ \A p \in S : s.min_position <= p /\ p <= s.max_position
      BY <1>1, <1>3, BitsFacts
    <2> QED BY <1>4, <2>1, <2>2, LeastOf, GreatestOf
  <1> QED BY <1>1, <1>2, <1>3, <1>4

LEMMA EmptyTold ==
  ASSUME NEW s, SetOK(s)
  PROVE  Used(s) = {} <=> ElementsOf(s) = {}
  <1>1. Used(s) = {} => ElementsOf(s) = {}
    BY UsedFacts
  <1>2. ASSUME NEW p \in Used(s)
        PROVE  ElementsOf(s) # {}
    <2>1. p \in Int /\ Bits(s, p) # {}
      BY UsedFacts
    <2> QED BY <2>1, Member
  <1> QED BY <1>1, <1>2

\* The first bit at the first of the positions P from pos on.
LEMMA FirstElement ==
  ASSUME NEW s, SetOK(s), NEW P \in SUBSET Used(s), P # {}
  PROVE  /\ FirstAt(s, Min(P)) \in ElementsOf(s) /\ FirstAt(s, Min(P)) \in Int
         /\ \A n \in ElementsOf(s) : bitset_pos(n) \in P => FirstAt(s, Min(P)) <= n
         /\ bitset_pos(FirstAt(s, Min(P))) \in P
  <1> DEFINE p == Min(P)
             b == Min(Bits(s, p))
             x == lowestBitsetPosAsInteger(p) + b
  <1>1. p \in P /\ p \in Int /\ (\A q \in P : p <= q) /\ Bits(s, p) # {} /\ BitsetAt(s, p) = Bits(s, p)
    BY UsedFacts
  <1> HIDE DEF p
  <1>2. Bits(s, p) \in SUBSET BitNum
    BY <1>1, BitsFacts
  <1>3. b \in Bits(s, p) /\ \A c \in Bits(s, p) : b <= c
    BY <1>1, <1>2, BitsAreBounded
  <1> HIDE DEF b
  <1>4. /\ x \in Int /\ bitset_pos(x) = p /\ BitIndex(x) = b /\ x \in ElementsOf(s)
    BY <1>1, <1>2, <1>3, NumberOfBit, Member
  <1>5. FirstAt(s, p) = x
    BY <1>1 DEF FirstAt, b
  <1> HIDE DEF x
  <1>6. ASSUME NEW n \in ElementsOf(s), bitset_pos(n) \in P
        PROVE  x <= n
    <2>1. n \in Int /\ BitIndex(n) \in Bits(s, bitset_pos(n)) /\ bitset_pos(n) \in Int
      BY Member, Int64IsInt, BitOfNumber
    <2>2. p <= bitset_pos(n) /\ (bitset_pos(n) = p => b <= BitIndex(n))
      BY <1>1, <1>3, <1>6, <2>1
    <2>3. BitIndex(n) \in Int /\ b \in Int
      BY <1>2, <1>3, <2>1, BitOfNumber, NumberOfBit
    <2>4. CASE p < bitset_pos(n)
      BY <1>4, <2>1, <2>4, OrderOfNumbers
    <2>5. CASE p = bitset_pos(n)
      <3>1. ~(BitIndex(n) < BitIndex(x))
        BY <1>4, <2>2, <2>3, <2>5
      <3>2. ~(n < x)
        BY <1>4, <2>1, <2>5, <3>1, OrderOfNumbers
      <3> QED BY <1>4, <2>1, <3>2
    <2> QED BY <1>1, <2>1, <2>2, <2>4, <2>5
  <1> QED BY <1>1, <1>4, <1>5, <1>6 DEF p

LEMMA LastElement ==
  ASSUME NEW s, SetOK(s), NEW P \in SUBSET Used(s), P # {}
  PROVE  /\ LastAt(s, Max(P)) \in ElementsOf(s) /\ LastAt(s, Max(P)) \in Int
         /\ \A n \in ElementsOf(s) : bitset_pos(n) \in P => n <= LastAt(s, Max(P))
  <1> DEFINE p == Max(P)
             b == Max(Bits(s, p))
             x == lowestBitsetPosAsInteger(p) + b
  <1>1. p \in P /\ p \in Int /\ (\A q \in P : q <= p) /\ Bits(s, p) # {} /\ BitsetAt(s, p) = Bits(s, p)
    BY UsedFacts
  <1> HIDE DEF p
  <1>2. Bits(s, p) \in SUBSET BitNum
    BY <1>1, BitsFacts
  <1>3. b \in Bits(s, p) /\ \A c \in Bits(s, p) : c <= b
    BY <1>1, <1>2, BitsAreBounded
  <1> HIDE DEF b
  <1>4. /\ x \in Int /\ bitset_pos(x) = p /\ BitIndex(x) = b /\ x \in ElementsOf(s)
    BY <1>1, <1>2, <1>3, NumberOfBit, Member
  <1>5. LastAt(s, p) = x
    BY <1>1 DEF LastAt, b
  <1> HIDE DEF x
  <1>6. ASSUME NEW n \in ElementsOf(s), bitset_pos(n) \in P
        PROVE  n <= x
    <2>1. n \in Int /\ BitIndex(n) \in Bits(s, bitset_pos(n)) /\ bitset_pos(n) \in Int
      BY Member, Int64IsInt, BitOfNumber
    <2>2. bitset_pos(n) <= p /\ (bitset_pos(n) = p => BitIndex(n) <= b)
      BY <1>1, <1>3, <1>6, <2>1
    <2>3. BitIndex(n) \in Int /\ b \in Int
      BY <1>2, <1>3, <2>1, BitOfNumber, NumberOfBit
    <2>4. CASE bitset_pos(n) < p
      BY <1>4, <2>1, <2>4, OrderOfNumbers
    <2>5. CASE p = bitset_pos(n)
      <3>1. ~(BitIndex(x) < BitIndex(n))
        BY <1>4, <2>2, <2>3, <2>5
      <3>2. ~(x < n)
        BY <1>4, <2>1, <2>5, <3>1, OrderOfNumbers
      <3> QED BY <1>4, <2>1, <3>2
    <2> QED BY <1>1, <2>1, <2>2, <2>4, <2>5
  <1> QED BY <1>4, <1>5, <1>6 DEF p

LEMMA ExtremesTold ==
  ASSUME NEW s, SetOK(s)
  PROVE  setMin(s) = Extreme(ElementsOf(s), Min) /\ setMax(s) = Extreme(ElementsOf(s), Max)
  <1>0. ElementsOf(s) \in SUBSET Int /\ (Used(s) = {} <=> ElementsOf(s) = {}) /\ Used(s) \in SUBSET Used(s)
    BY Member, Int64IsInt, EmptyTold
  <1>1. CASE Used(s) = {}
    BY <1>0, <1>1 DEF setMin, setMax, Extreme
  <1>2. CASE Used(s) # {}
    <2>1. Min(ElementsOf(s)) = FirstAt(s, Min(Used(s)))
      BY <1>0, <1>2, FirstElement, UsedFacts, MinIs
    <2>2. Max(ElementsOf(s)) = LastAt(s, Max(Used(s)))
      BY <1>0, <1>2, LastElement, UsedFacts, MaxIs
    <2> QED BY <1>0, <1>2, <2>1, <2>2 DEF setMin, setMax, Extreme
  <1> QED BY <1>1, <1>2

\* The bits of a number with b more.
LEMMA PosOfSum ==
  ASSUME NEW n \in Int, NEW b \in BitNum
  PROVE  /\ n + b \in Int /\ BitIndex(n) + b \in Int
         /\ BitIndex(n) + b \in BitNum =>
               bitset_pos(n + b) = bitset_pos(n) /\ BitIndex(n + b) = BitIndex(n) + b
         /\ BitIndex(n) + b \notin BitNum =>
               bitset_pos(n + b) = bitset_pos(n) + 1 /\ BitIndex(n + b) = BitIndex(n) + b - BITSET_SIZE
  <1> DEFINE p == bitset_pos(n)
             i == BitIndex(n)
             base == lowestBitsetPosAsInteger(p)
  <1>1. p \in Int /\ i \in BitNum /\ base + i = n /\ base \in Int /\ b \in Int /\ i \in Int
    BY BitOfNumber, NumberOfBit
  <1>2. lowestBitsetPosAsInteger(p + 1) = base + BITSET_SIZE
    BY <1>1, NumberAssumption DEF lowestBitsetPosAsInteger
  <1>3. BITSET_SIZE \in Nat /\ \A c \in Int : c \in BitNum <=> 0 <= c /\ c <= BITSET_SIZE - 1
    BY NumberAssumption DEF BitNum
  <1> HIDE DEF p, i, base
  <1>4. CASE i + b \in BitNum
    <2>1. n + b = base + (i + b)
      BY <1>1
    <2>2. bitset_pos(base + (i + b)) = p /\ BitIndex(base + (i + b)) = i + b
      BY <1>1, <1>4, NumberOfBit DEF base
    <2> QED BY <1>1, <1>4, <2>1, <2>2 DEF p, i
  <1>5. CASE i + b \notin BitNum
    <2>1. i + b - BITSET_SIZE \in BitNum
      BY <1>1, <1>3, <1>5
    <2>2. n + b = lowestBitsetPosAsInteger(p + 1) + (i + b - BITSET_SIZE)
      BY <1>1, <1>2, <1>3
    <2>3. p + 1 \in Int
      BY <1>1
    <2>4. bitset_pos(n + b) = p + 1 /\ BitIndex(n + b) = i + b - BITSET_SIZE
      BY <2>1, <2>2, <2>3, NumberOfBit
    <2> QED BY <1>1, <1>5, <2>4 DEF p, i
  <1> QED BY <1>4, <1>5

LEMMA NextTold ==
  ASSUME NEW s, SetOK(s), NEW n \in Int64
  PROVE  setNext(s, n) = Extreme({x \in ElementsOf(s) : x > n}, Min)
  <1> DEFINE S == {x \in ElementsOf(s) : x > n}
             pos == bitset_pos(n + 1)
             later == {b \in Bits(s, pos) : b >= BitIndex(n + 1)}
             others == {p \in Used(s) : p > pos}
  <1>1. n \in Int /\ n + 1 \in Int /\ pos \in Int /\ BitIndex(n + 1) \in BitNum /\ BitIndex(n + 1) \in Int
    <2>1. n \in Int /\ n + 1 \in Int
      BY Int64IsInt
    <2> QED BY <2>1, BitOfNumber, NumberOfBit
  <1>2. S \in SUBSET Int /\ S \in SUBSET ElementsOf(s) /\ ElementsOf(s) \in SUBSET Int64
    BY Member, Int64IsInt
  <1>3. setNext(s, n) = IF n = INTTYPE_MAX THEN OutOfRange
                        ELSE IF later # {} THEN lowestBitsetPosAsInteger(pos) + Min(later)
                        ELSE IF others # {} THEN FirstAt(s, Min(others))
                        ELSE OutOfRange
    BY DEF setNext
  <1>4. Extreme(S, Min) = IF S = {} THEN OutOfRange ELSE Min(S)
    BY DEF Extreme
  \* An element after n is behind it in the bitset of n + 1, or in a later one.
  <1>5. ASSUME NEW x \in ElementsOf(s), x > n
        PROVE  /\ x \in Int /\ bitset_pos(x) \in Int /\ BitIndex(x) \in Int
               /\ bitset_pos(x) \in Used(s) /\ BitIndex(x) \in Bits(s, bitset_pos(x))
               /\ bitset_pos(x) = pos => BitIndex(x) \in later
               /\ bitset_pos(x) # pos => bitset_pos(x) \in others
    <2>1. x \in Int /\ ~(x < n + 1)
      BY <1>1, <1>2, <1>5, Int64IsInt
    <2>2. bitset_pos(x) \in Int /\ BitIndex(x) \in Int /\ BitIndex(x) \in Bits(s, bitset_pos(x)) /\ bitset_pos(x) \in Used(s)
      BY <2>1, Member, UsedFacts, BitOfNumber, NumberOfBit
    <2>3. ~(bitset_pos(x) < pos)
      BY <1>1, <2>1, OrderOfNumbers
    <2>4. bitset_pos(x) = pos => ~(BitIndex(x) < BitIndex(n + 1))
      BY <1>1, <2>1, OrderOfNumbers
    <2> QED BY <1>1, <2>1, <2>2, <2>3, <2>4
  <1>6. CASE n = INTTYPE_MAX
    <2>1. \A x \in Int64 : x <= n
      BY <1>6 DEF Int64
    <2>2. S = {}
      BY <1>1, <1>2, <2>1, Int64IsInt
    <2> QED BY <1>3, <1>4, <1>6, <2>2
  <1>7. CASE n # INTTYPE_MAX /\ later # {}
    <2> DEFINE b == Min(later)
               x == lowestBitsetPosAsInteger(pos) + b
    <2>1. later \in SUBSET BitNum
      BY <1>1, BitsFacts
    <2>2. b \in later /\ \A c \in later : b <= c
      BY <1>7, <2>1, BitsAreBounded
    <2> HIDE DEF b
    <2>3. /\ x \in Int /\ bitset_pos(x) = pos /\ BitIndex(x) = b /\ x \in ElementsOf(s) /\ b \in Int
      BY <1>1, <2>1, <2>2, NumberOfBit, Member
    <2> HIDE DEF x
    <2>4. x > n
      <3>1. ~(BitIndex(x) < BitIndex(n + 1))
        BY <1>1, <2>2, <2>3
      <3>2. ~(x < n + 1)
        BY <1>1, <2>3, <3>1, OrderOfNumbers
      <3> QED BY <1>1, <2>3, <3>2
    <2>5. ASSUME NEW y \in S
          PROVE  x <= y
      <3>1. /\ y \in Int /\ bitset_pos(y) \in Int /\ BitIndex(y) \in Int
            /\ bitset_pos(y) = pos => BitIndex(y) \in later
            /\ bitset_pos(y) # pos => bitset_pos(y) \in others
        BY <1>5
      <3>2. CASE bitset_pos(y) = pos
        <4>1. ~(BitIndex(y) < BitIndex(x))
          BY <2>2, <2>3, <3>1, <3>2
        <4>2. ~(y < x)
          BY <2>3, <3>1, <3>2, <4>1, OrderOfNumbers
        <4> QED BY <2>3, <3>1, <4>2
      <3>3. CASE bitset_pos(y) # pos
        <4>1. bitset_pos(x) < bitset_pos(y)
          BY <1>1, <2>3, <3>1, <3>3
        <4> QED BY <2>3, <3>1, <4>1, OrderOfNumbers
      <3> QED BY <3>2, <3>3
    <2>6. x \in S /\ Min(S) = x
      BY <1>2, <2>3, <2>4, <2>5, MinIs
    <2>7. setNext(s, n) = x
      BY <1>3, <1>7 DEF x, b
    <2> HIDE DEF S
    <2>8. Extreme(S, Min) = x
      BY <1>4, <2>6
    <2> QED BY <2>7, <2>8 DEF S
  <1>8. CASE n # INTTYPE_MAX /\ later = {} /\ others # {}
    <2> DEFINE x == FirstAt(s, Min(others))
    <2>1. others \in SUBSET Used(s)
      OBVIOUS
    <2>2. x \in ElementsOf(s) /\ x \in Int /\ bitset_pos(x) \in others
          /\ \A y \in ElementsOf(s) : bitset_pos(y) \in others => x <= y
      BY <1>8, <2>1, FirstElement
    <2>3. setNext(s, n) = x
      BY <1>3, <1>8
    <2> HIDE DEF x
    <2>4. x > n
      <3>1. pos < bitset_pos(x)
        BY <1>1, <2>2, BitOfNumber
      <3>2. n + 1 < x
        BY <1>1, <2>2, <3>1, OrderOfNumbers
      <3> QED BY <1>1, <2>2, <3>2
    <2>5. \A y \in S : bitset_pos(y) \in others
      BY <1>5, <1>8
    <2>6. x \in S /\ \A y \in S : x <= y
      BY <2>2, <2>4, <2>5
    <2> HIDE DEF S
    <2>7. Min(S) = x
      BY <1>2, <2>6, MinIs
    <2>8. Extreme(S, Min) = x
      BY <1>4, <2>6, <2>7
    <2> QED BY <2>3, <2>8 DEF S
  <1>9. CASE n # INTTYPE_MAX /\ later = {} /\ others = {}
    <2>1. S = {}
      BY <1>5, <1>9
    <2> QED BY <1>3, <1>4, <1>9, <2>1
  <1> QED BY <1>6, <1>7, <1>8, <1>9

LEMMA UIntTold ==
  ASSUME NEW s, SetOK(s), NEW n \in Int64
  PROVE  setToUInt(s, n) = {b \in BitNum : n + b \in ElementsOf(s)}
  <1> DEFINE pos == bitset_pos(n)
             i == BitIndex(n)
             low == {b - i : b \in {c \in Bits(s, pos) : c >= i}}
             high == {b + BITSET_SIZE - i : b \in {c \in Bits(s, pos + 1) : c < i}}
  <1>1. n \in Int /\ pos \in Int /\ pos + 1 \in Int /\ i \in BitNum /\ i \in Int
    <2>1. n \in Int
      BY Int64IsInt
    <2> QED BY <2>1, BitOfNumber, NumberOfBit
  <1>2. BITSET_SIZE \in Nat /\ \A c : c \in BitNum <=> c \in Int /\ 0 <= c /\ c <= BITSET_SIZE - 1
    BY NumberAssumption DEF BitNum
  <1>3. setToUInt(s, n) = IF pos \in Positions(s) THEN low \cup IF pos < s.max_position THEN high ELSE {}
                          ELSE IF pos = s.min_position - 1 THEN high
                          ELSE {}
    BY DEF setToUInt
  <1>4. Bits(s, pos) \in SUBSET BitNum /\ Bits(s, pos + 1) \in SUBSET BitNum
    BY <1>1, BitsFacts
  <1>5. /\ s.min_position \in Int /\ s.max_position \in Int /\ s.min_position <= s.max_position
        /\ pos \in Positions(s) <=> s.min_position <= pos /\ pos <= s.max_position
        /\ ~(s.min_position <= pos /\ pos <= s.max_position) => Bits(s, pos) = {}
        /\ ~(s.min_position <= pos + 1 /\ pos + 1 <= s.max_position) => Bits(s, pos + 1) = {}
    BY <1>1, BitsFacts DEF SetOK
  <1> HIDE DEF pos, i
  <1>6. ASSUME NEW b \in BitNum
        PROVE  n + b \in ElementsOf(s) <=> b \in low \cup high
    <2>1. b \in Int /\ n + b \in Int
      BY <1>1, <1>2
    <2>2. n + b \in ElementsOf(s) <=> BitIndex(n + b) \in Bits(s, bitset_pos(n + b))
      BY <2>1, Member
    <2>3. CASE i + b \in BitNum
      <3>1. n + b \in ElementsOf(s) <=> i + b \in Bits(s, pos)
        BY <1>1, <2>2, <2>3, PosOfSum DEF pos, i
      <3>2. b \in low <=> i + b \in Bits(s, pos)
        BY <1>1, <1>2, <1>4, <2>1
      <3>3. b \notin high
        BY <1>1, <1>2, <1>4, <2>1, <2>3
      <3> QED BY <3>1, <3>2, <3>3
    <2>4. CASE i + b \notin BitNum
      <3>1. n + b \in ElementsOf(s) <=> i + b - BITSET_SIZE \in Bits(s, pos + 1)
        BY <1>1, <2>2, <2>4, PosOfSum DEF pos, i
      <3>2. b \in high <=> i + b - BITSET_SIZE \in Bits(s, pos + 1)
        BY <1>1, <1>2, <1>4, <2>1
      <3>3. b \notin low
        BY <1>1, <1>2, <1>4, <2>1, <2>4
      <3> QED BY <3>1, <3>2, <3>3
    <2> QED BY <2>3, <2>4
  <1>7. low \in SUBSET BitNum /\ high \in SUBSET BitNum
    BY <1>1, <1>2, <1>4
  <1>8. {b \in BitNum : n + b \in ElementsOf(s)} = low \cup high
    BY <1>6, <1>7
  <1>9. Bits(s, pos) = {} => low = {}
    OBVIOUS
  <1>10. Bits(s, pos + 1) = {} => high = {}
    OBVIOUS
  <1> HIDE DEF low, high
  <1> QED BY <1>1, <1>3, <1>5, <1>8, <1>9, <1>10

LEMMA InspectedOK ==
  ASSUME NEW s, SetOK(s)
  PROVE  Inspected(s, ElementsOf(s))
  <1>1. setIsEmpty(s) = (ElementsOf(s) = {})
    BY EmptyTold DEF setIsEmpty
  <1>2. \A n \in Int64 : setElem(n, s) = (n \in ElementsOf(s))
    BY Member, Int64IsInt DEF setElem
  <1> QED BY <1>1, <1>2, ExtremesTold, NextTold, UIntTold DEF Inspected

LEMMA ComputedOK ==
  ASSUME NEW s, NEW t, SetOK(s), SetOK(t)
  PROVE  Computed(s, t, ElementsOf(s), ElementsOf(t))
  BY UnionOK, SymdiffOK, IntersectOK, DiffOK DEF Computed

---------------------------------------------------------------------------
(* Comparisons.  A position belongs to both sets, or one of them has no bits *)
(* there and the other one is looked at below or above it.                   *)

LEMMA OnlyFacts ==
  ASSUME NEW s, NEW t, SetOK(s), SetOK(t)
  PROVE  /\ BelowOnly(s, t) <=> \E p \in Int : p < t.min_position /\ Bits(s, p) # {}
         /\ AboveOnly(s, t) <=> \E p \in Int : p > t.max_position /\ Bits(s, p) # {}
         /\ \A p \in Int : p \notin Positions(t) => Bits(t, p) = {} /\ (p < t.min_position \/ p > t.max_position)
         /\ \A p \in Int : p < t.min_position \/ p > t.max_position => Bits(t, p) = {}
  <1>1. \A p \in Int : Bits(s, p) # {} => p \in Positions(s) /\ Bits(s, p) = BitsetAt(s, p)
    BY BitsFacts
  <1>2. \A p \in Positions(s) : p \in Int /\ Bits(s, p) = BitsetAt(s, p)
    BY BitsFacts
  <1>3. BelowOnly(s, t) <=> \E p \in Int : p < t.min_position /\ Bits(s, p) # {}
    BY <1>1, <1>2 DEF BelowOnly
  <1>4. AboveOnly(s, t) <=> \E p \in Int : p > t.max_position /\ Bits(s, p) # {}
    BY <1>1, <1>2 DEF AboveOnly
  <1>5. t.min_position \in Int /\ t.max_position \in Int /\ t.min_position <= t.max_position
    BY DEF SetOK
  <1>6. ASSUME NEW p \in Int
        PROVE  /\ p \notin Positions(t) => Bits(t, p) = {} /\ (p < t.min_position \/ p > t.max_position)
               /\ p < t.min_position \/ p > t.max_position => Bits(t, p) = {}
    BY <1>5, BitsFacts
  <1> QED BY <1>3, <1>4, <1>6

LEMMA CommonFacts ==
  ASSUME NEW s, NEW t, SetOK(s), SetOK(t)
  PROVE  /\ CommonPositions(s, t) \in SUBSET Int
         /\ \A p \in CommonPositions(s, t) : /\ BitsetAt(s, p) = Bits(s, p) /\ BitsetAt(t, p) = Bits(t, p)
                                             /\ s.min_position <= p /\ p <= s.max_position
         /\ \A p \in Int : p \in CommonPositions(s, t) <=> p \in Positions(s) /\ p \in Positions(t)
  BY BitsFacts DEF CommonPositions

LEMMA SubsetOfBits ==
  ASSUME NEW s, NEW t, SetOK(s), SetOK(t)
  PROVE  ElementsOf(s) \subseteq ElementsOf(t) <=> \A p \in Int : Bits(s, p) \subseteq Bits(t, p)
  <1>1. ASSUME \A p \in Int : Bits(s, p) \subseteq Bits(t, p), NEW n \in ElementsOf(s)
        PROVE  n \in ElementsOf(t)
    BY <1>1, Member, Int64IsInt, BitOfNumber
  <1>2. ASSUME ElementsOf(s) \subseteq ElementsOf(t), NEW p \in Int, NEW b \in Bits(s, p)
        PROVE  b \in Bits(t, p)
    <2> DEFINE n == lowestBitsetPosAsInteger(p) + b
    <2>1. b \in BitNum
      BY BitsFacts
    <2>2. n \in Int /\ bitset_pos(n) = p /\ BitIndex(n) = b
      BY <2>1, NumberOfBit
    <2>3. n \in ElementsOf(t)
      BY <1>2, Member
    <2> HIDE DEF n
    <2> QED BY <2>2, <2>3, Member
  <1> QED BY <1>1, <1>2

LEMMA EqTold ==
  ASSUME NEW s, NEW t, SetOK(s), SetOK(t)
  PROVE  setEq(s, t) = (ElementsOf(s) = ElementsOf(t))
  <1>1. ASSUME setEq(s, t), NEW p \in Int
        PROVE  Bits(s, p) = Bits(t, p)
    <2>1. CASE p \in CommonPositions(s, t)
      BY <1>1, <2>1, CommonFacts DEF setEq
    <2>2. CASE p \notin Positions(t)
      BY <1>1, <2>2, OnlyFacts DEF setEq
    <2>3. CASE p \notin Positions(s)
      BY <1>1, <2>3, OnlyFacts DEF setEq
    <2> QED BY <2>1, <2>2, <2>3, CommonFacts
  <1>2. ASSUME \A p \in Int : Bits(s, p) = Bits(t, p)
        PROVE  setEq(s, t)
    <2>1. ~BelowOnly(s, t) /\ ~BelowOnly(t, s) /\ ~AboveOnly(s, t) /\ ~AboveOnly(t, s)
      BY <1>2, OnlyFacts
    <2>2. \A p \in CommonPositions(s, t) : BitsetAt(s, p) = BitsetAt(t, p)
      BY <1>2, CommonFacts
    <2> QED BY <2>1, <2>2 DEF setEq
  <1>3. (\A p \in Int : Bits(s, p) = Bits(t, p)) <=> ElementsOf(s) = ElementsOf(t)
    BY ElementsFromBits
  <1>4. setEq(s, t) \in BOOLEAN
    BY DEF setEq
  <1> QED BY <1>1, <1>2, <1>3, <1>4

LEMMA SubsetTold ==
  ASSUME NEW s, NEW t, SetOK(s), SetOK(t)
  PROVE  /\ setIsSubset(s, t) = (ElementsOf(s) \subseteq ElementsOf(t))
         /\ setIsProperSubset(s, t) = (ElementsOf(s) \subseteq ElementsOf(t) /\ ElementsOf(s) # ElementsOf(t))
  <1>1. ASSUME setIsSubset(s, t), NEW p \in Int
        PROVE  Bits(s, p) \subseteq Bits(t, p)
    <2>1. CASE p \in CommonPositions(s, t)
      BY <1>1, <2>1, CommonFacts DEF setIsSubset
    <2>2. CASE p \notin Positions(t)
      BY <1>1, <2>2, OnlyFacts DEF setIsSubset
    <2>3. CASE p \notin Positions(s)
      BY <2>3, OnlyFacts
    <2> QED BY <2>1, <2>2, <2>3, CommonFacts
  <1>2. ASSUME \A p \in Int : Bits(s, p) \subseteq Bits(t, p)
        PROVE  setIsSubset(s, t)
    <2>1. ~BelowOnly(s, t) /\ ~AboveOnly(s, t)
      BY <1>2, OnlyFacts
    <2>2. \A p \in CommonPositions(s, t) : BitsetAt(s, p) \subseteq BitsetAt(t, p)
      BY <1>2, CommonFacts
    <2> QED BY <2>1, <2>2 DEF setIsSubset
  <1>3. setIsSubset(s, t) = (ElementsOf(s) \subseteq ElementsOf(t))
    <2>1. setIsSubset(s, t) \in BOOLEAN
      BY DEF setIsSubset
    <2> QED BY <1>1, <1>2, <2>1, SubsetOfBits
  <1>4. ASSUME setIsSubset(s, t), \E p \in Int : Bits(s, p) # Bits(t, p)
        PROVE  \/ BelowOnly(t, s) \/ AboveOnly(t, s)
               \/ \E p \in CommonPositions(s, t) : BitsetAt(s, p) # BitsetAt(t, p)
    <2>1. PICK p \in Int : Bits(s, p) # Bits(t, p)
      BY <1>4
    <2>2. CASE p \in CommonPositions(s, t)
      BY <2>1, <2>2, CommonFacts
    <2>3. CASE p \notin Positions(t)
      BY <1>1, <1>4, <2>1, <2>3, OnlyFacts
    <2>4. CASE p \notin Positions(s)
      BY <2>1, <2>4, OnlyFacts
    <2> QED BY <2>2, <2>3, <2>4, CommonFacts
  <1>5. ASSUME \/ BelowOnly(t, s) \/ AboveOnly(t, s)
               \/ \E p \in CommonPositions(s, t) : BitsetAt(s, p) # BitsetAt(t, p)
        PROVE  \E p \in Int : Bits(s, p) # Bits(t, p)
    <2>1. CASE BelowOnly(t, s) \/ AboveOnly(t, s)
      BY <2>1, OnlyFacts
    <2>2. CASE \E p \in CommonPositions(s, t) : BitsetAt(s, p) # BitsetAt(t, p)
      BY <2>2, CommonFacts
    <2> QED BY <1>5, <2>1, <2>2
  <1>6. setIsProperSubset(s, t) <=> setIsSubset(s, t) /\ \E p \in Int : Bits(s, p) # Bits(t, p)
    BY <1>4, <1>5 DEF setIsProperSubset
  <1>7. (\A p \in Int : Bits(s, p) = Bits(t, p)) <=> ElementsOf(s) = ElementsOf(t)
    BY ElementsFromBits
  <1>8. setIsProperSubset(s, t) \in BOOLEAN
    BY DEF setIsProperSubset
  <1> QED BY <1>3, <1>6, <1>7, <1>8

\* The highest position where the sets differ decides.
HighestDifference(s, t, q) == Bits(s, q) # Bits(t, q) /\ \A p \in Int : p > q => Bits(s, p) = Bits(t, p)

LEMMA TopDecides ==
  ASSUME NEW s, NEW t, SetOK(s), SetOK(t), NEW q \in Int, HighestDifference(s, t, q)
  PROVE  /\ ElementsOf(s) # ElementsOf(t)
         /\ Max(SymmetricDifference(ElementsOf(s), ElementsOf(t))) \in ElementsOf(s)
               <=> Max(SymmetricDifference(Bits(s, q), Bits(t, q))) \in Bits(s, q)
         /\ Bits(t, q) = {} => Max(SymmetricDifference(ElementsOf(s), ElementsOf(t))) \in ElementsOf(s)
         /\ Bits(s, q) = {} => Max(SymmetricDifference(ElementsOf(s), ElementsOf(t))) \notin ElementsOf(s)
  <1> DEFINE D == SymmetricDifference(Bits(s, q), Bits(t, q))
             E == SymmetricDifference(ElementsOf(s), ElementsOf(t))
             c == Max(D)
             x == lowestBitsetPosAsInteger(q) + c
  <1>1. D \in SUBSET BitNum /\ D # {}
    <2>1. Bits(s, q) \in SUBSET BitNum /\ Bits(t, q) \in SUBSET BitNum
      BY BitsFacts
    <2> QED BY <2>1 DEF HighestDifference, SymmetricDifference
  <1>2. \A b : b \in D <=> (b \in Bits(s, q) /\ b \notin Bits(t, q)) \/ (b \in Bits(t, q) /\ b \notin Bits(s, q))
    BY DEF SymmetricDifference
  <1>3. \A n : n \in E <=> (n \in ElementsOf(s) /\ n \notin ElementsOf(t)) \/ (n \in ElementsOf(t) /\ n \notin ElementsOf(s))
    BY DEF SymmetricDifference
  <1>4. E \in SUBSET Int
    BY <1>3, Member, Int64IsInt
  <1> HIDE DEF D, E
  <1>5. c \in D /\ \A b \in D : b <= c
    BY <1>1, BitsAreBounded
  <1> HIDE DEF c
  <1>6. c \in Int /\ x \in Int /\ bitset_pos(x) = q /\ BitIndex(x) = c
    BY <1>1, <1>5, NumberOfBit
  <1> HIDE DEF x
  <1>7. (x \in ElementsOf(s) <=> c \in Bits(s, q)) /\ (x \in ElementsOf(t) <=> c \in Bits(t, q))
    BY <1>6, Member
  <1>8. x \in E
    BY <1>2, <1>3, <1>5, <1>7
  <1>9. ASSUME NEW y \in E
        PROVE  y <= x
    <2>1. /\ y \in Int /\ bitset_pos(y) \in Int /\ BitIndex(y) \in Int
          /\ y \in ElementsOf(s) <=> BitIndex(y) \in Bits(s, bitset_pos(y))
          /\ y \in ElementsOf(t) <=> BitIndex(y) \in Bits(t, bitset_pos(y))
      BY <1>4, Member, BitOfNumber, NumberOfBit
    <2>2. ~(bitset_pos(y) > q)
      BY <1>3, <2>1 DEF HighestDifference
    <2>3. CASE bitset_pos(y) < q
      BY <1>6, <2>1, <2>3, OrderOfNumbers
    <2>4. CASE bitset_pos(y) = q
      <3>1. BitIndex(y) \in D
        BY <1>2, <1>3, <2>1, <2>4
      <3>2. ~(BitIndex(x) < BitIndex(y))
        BY <1>5, <1>6, <2>1, <3>1
      <3>3. ~(x < y)
        BY <1>6, <2>1, <2>4, <3>2, OrderOfNumbers
      <3> QED BY <1>6, <2>1, <3>3
    <2> QED BY <2>1, <2>2, <2>3, <2>4
  <1>10. Max(E) = x
    BY <1>4, <1>8, <1>9, MaxIs
  <1>11. ElementsOf(s) # ElementsOf(t)
    BY <1>3, <1>8
  <1>12. Max(E) \in ElementsOf(s) <=> Max(D) \in Bits(s, q)
    BY <1>7, <1>10 DEF c
  <1>13. (Bits(t, q) = {} => Max(E) \in ElementsOf(s)) /\ (Bits(s, q) = {} => Max(E) \notin ElementsOf(s))
    BY <1>2, <1>5, <1>7, <1>10
  <1> QED BY <1>11, <1>12, <1>13 DEF D, E

LEMMA TopAbove ==
  ASSUME NEW s, NEW t, SetOK(s), SetOK(t), AboveOnly(s, t)
  PROVE  \E q \in Int : HighestDifference(s, t, q) /\ Bits(t, q) = {}
  <1>1. PICK p \in Int : p > t.max_position /\ Bits(s, p) # {}
    BY OnlyFacts
  <1>2. t.max_position \in Int
    BY DEF SetOK
  <1> DEFINE q == Max(Used(s))
  <1>3. p \in Used(s) /\ Used(s) \in SUBSET Used(s) /\ Used(s) \in SUBSET Int
    BY <1>1, UsedFacts
  <1>4. q \in Used(s) /\ \A r \in Used(s) : r <= q
    BY <1>3, UsedFacts
  <1> HIDE DEF q
  <1>5. q \in Int /\ q > t.max_position /\ Bits(s, q) # {}
    BY <1>1, <1>2, <1>3, <1>4, UsedFacts
  <1>6. Bits(t, q) = {}
    BY <1>5, OnlyFacts
  <1>7. ASSUME NEW r \in Int, r > q
        PROVE  Bits(s, r) = Bits(t, r)
    <2>1. r \notin Used(s)
      BY <1>4, <1>5, <1>7
    <2>2. Bits(s, r) = {}
      BY <2>1, UsedFacts
    <2>3. r > t.max_position
      BY <1>2, <1>5, <1>7
    <2> QED BY <2>2, <2>3, OnlyFacts
  <1> QED BY <1>5, <1>6, <1>7 DEF HighestDifference

\* Above a position of both sets, or when they agree on the common ones, only
\* the positions that a comparison of the ends looks at are left.
LEMMA NoneAbove ==
  ASSUME NEW s, NEW t, SetOK(s), SetOK(t), ~AboveOnly(s, t), ~AboveOnly(t, s), NEW p \in Int,
         s.min_position <= p, t.min_position <= p, p \notin CommonPositions(s, t)
  PROVE  Bits(s, p) = Bits(t, p)
  <1>1. s.min_position \in Int /\ t.min_position \in Int
    BY DEF SetOK
  <1>2. CASE p \notin Positions(t)
    <2>1. Bits(t, p) = {} /\ p > t.max_position
      BY <1>1, <1>2, OnlyFacts
    <2> QED BY <2>1, OnlyFacts
  <1>3. CASE p \notin Positions(s)
    <2>1. Bits(s, p) = {} /\ p > s.max_position
      BY <1>1, <1>3, OnlyFacts
    <2> QED BY <2>1, OnlyFacts
  <1> QED BY <1>2, <1>3, CommonFacts

LEMMA TopBelow ==
  ASSUME NEW s, NEW t, SetOK(s), SetOK(t), ~AboveOnly(s, t), ~AboveOnly(t, s), BelowOnly(s, t),
         \A p \in CommonPositions(s, t) : Bits(s, p) = Bits(t, p)
  PROVE  \E q \in Int : HighestDifference(s, t, q) /\ Bits(t, q) = {}
  <1> DEFINE P == {p \in Used(s) : p < t.min_position}
             q == Max(P)
  <1>1. P \in SUBSET Used(s) /\ P # {} /\ P \in SUBSET Int
    BY OnlyFacts, UsedFacts
  <1>2. q \in P /\ \A r \in P : r <= q
    <2> HIDE DEF P
    <2> QED BY <1>1, UsedFacts
  <1> HIDE DEF q
  <1>3. /\ q \in Int /\ Bits(s, q) # {} /\ q < t.min_position /\ t.min_position \in Int
        /\ s.min_position <= q /\ s.min_position \in Int
    <2>1. q \in Used(s) /\ q \in Int
      BY <1>1, <1>2
    <2>2. Bits(s, q) # {} /\ q \in Positions(s)
      BY <2>1, UsedFacts
    <2>3. s.min_position <= q
      BY <2>1, <2>2, BitsFacts
    <2> QED BY <1>2, <2>1, <2>2, <2>3 DEF SetOK
  <1>4. Bits(t, q) = {}
    BY <1>3, OnlyFacts
  <1>5. ASSUME NEW r \in Int, r > q
        PROVE  Bits(s, r) = Bits(t, r)
    <2>1. CASE r < t.min_position
      <3>1. r \notin P
        BY <1>2, <1>3, <1>5
      <3>2. Bits(s, r) = {}
        BY <2>1, <3>1, UsedFacts
      <3> QED BY <2>1, <3>2, OnlyFacts
    <2>2. CASE t.min_position <= r /\ r \in CommonPositions(s, t)
      BY <2>2
    <2>3. CASE t.min_position <= r /\ r \notin CommonPositions(s, t)
      <3>1. s.min_position <= r
        BY <1>3, <1>5
      <3> QED BY <2>3, <3>1, NoneAbove
    <2> QED BY <1>3, <2>1, <2>2, <2>3
  <1> QED BY <1>3, <1>4, <1>5 DEF HighestDifference

LEMMA CommonSwaps ==
  ASSUME NEW s, NEW t
  PROVE  CommonPositions(s, t) = CommonPositions(t, s)
  BY DEF CommonPositions

LEMMA TopCommon ==
  ASSUME NEW s, NEW t, SetOK(s), SetOK(t), ~AboveOnly(s, t), ~AboveOnly(t, s),
         NEW differing, differing = {p \in CommonPositions(s, t) : BitsetAt(s, p) # BitsetAt(t, p)}, differing # {}
  PROVE  /\ Max(differing) \in Int /\ HighestDifference(s, t, Max(differing))
         /\ BitsetAt(s, Max(differing)) = Bits(s, Max(differing))
         /\ BitsetAt(t, Max(differing)) = Bits(t, Max(differing))
  <1> DEFINE q == Max(differing)
  <1>1. /\ differing \in SUBSET Int /\ s.max_position \in Int /\ s.min_position \in Int /\ t.min_position \in Int
        /\ \A p \in differing : p <= s.max_position
    BY CommonFacts DEF SetOK
  <1>2. q \in differing /\ \A r \in differing : r <= q
    BY <1>1, GreatestOf
  <1> HIDE DEF q
  <1>3. q \in Int /\ q \in CommonPositions(s, t) /\ BitsetAt(s, q) # BitsetAt(t, q)
    BY <1>1, <1>2
  <1>4. BitsetAt(s, q) = Bits(s, q) /\ BitsetAt(t, q) = Bits(t, q) /\ s.min_position <= q /\ t.min_position <= q
    BY <1>3, CommonFacts, CommonSwaps
  <1>5. ASSUME NEW r \in Int, r > q
        PROVE  Bits(s, r) = Bits(t, r)
    <2>1. CASE r \in CommonPositions(s, t)
      <3>1. r \notin differing
        BY <1>2, <1>3, <1>5
      <3> QED BY <2>1, <3>1, CommonFacts
    <2>2. CASE r \notin CommonPositions(s, t)
      <3>1. s.min_position <= r /\ t.min_position <= r
        BY <1>1, <1>3, <1>4, <1>5
      <3> QED BY <2>2, <3>1, NoneAbove
    <2> QED BY <2>1, <2>2
  <1>6. HighestDifference(s, t, q)
    BY <1>3, <1>4, <1>5 DEF HighestDifference
  <1> QED BY <1>3, <1>4, <1>6 DEF q

LEMMA TopSwaps ==
  ASSUME NEW s, NEW t, NEW q \in Int, HighestDifference(t, s, q)
  PROVE  HighestDifference(s, t, q)
  BY DEF HighestDifference

LEMMA CmpTold ==
  ASSUME NEW s, NEW t, SetOK(s), SetOK(t)
  PROVE  setCmp(s, t) = IF ElementsOf(s) = ElementsOf(t) THEN 0
                        ELSE IF Max(SymmetricDifference(ElementsOf(s), ElementsOf(t))) \in ElementsOf(s) THEN 1 ELSE -1
  <1> DEFINE differing == {p \in CommonPositions(s, t) : BitsetAt(s, p) # BitsetAt(t, p)}
             e == ElementsOf(s)
             f == ElementsOf(t)
             greater == Max(SymmetricDifference(e, f)) \in e
             bits == GreaterBitset(BitsetAt(s, Max(differing)), BitsetAt(t, Max(differing)))
             below == IF BelowOnly(s, t) THEN 1 ELSE IF BelowOnly(t, s) THEN -1 ELSE 0
             equal == IF differing # {} THEN IF bits THEN 1 ELSE -1 ELSE below
  <1>1. setCmp(s, t) = CASE AboveOnly(s, t) -> 1
                         [] AboveOnly(t, s) -> -1
                         [] OTHER -> equal
    BY DEF setCmp
  <1>2. ASSUME AboveOnly(s, t)
        PROVE  ~AboveOnly(t, s)
    <2>1. PICK p \in Int : p > t.max_position /\ Bits(s, p) # {}
      BY <1>2, OnlyFacts
    <2>2. p <= s.max_position /\ s.max_position \in Int /\ t.max_position \in Int
      BY <2>1, OnlyFacts, BitsFacts DEF SetOK
    <2>3. ASSUME NEW r \in Int, r > s.max_position
          PROVE  Bits(t, r) = {}
      <3>1. r > t.max_position
        BY <2>1, <2>2, <2>3
      <3> QED BY <3>1, OnlyFacts
    <2> QED BY <2>3, OnlyFacts
  <1> HIDE DEF equal
  <1>3. CASE AboveOnly(s, t)
    <2>1. e # f /\ greater
      BY <1>3, TopAbove, TopDecides
    <2> HIDE DEF e, f, greater
    <2>2. setCmp(s, t) = 1
      BY <1>1, <1>2, <1>3
    <2> QED BY <2>1, <2>2 DEF e, f, greater
  <1>4. CASE AboveOnly(t, s)
    <2>1. e # f /\ ~greater
      BY <1>4, TopAbove, TopSwaps, TopDecides
    <2> HIDE DEF e, f, greater
    <2>2. setCmp(s, t) = -1
      BY <1>1, <1>2, <1>4
    <2> QED BY <2>1, <2>2 DEF e, f, greater
  <1>5. CASE ~AboveOnly(s, t) /\ ~AboveOnly(t, s) /\ differing # {}
    <2> DEFINE q == Max(differing)
    <2> HIDE DEF differing
    <2>1. q \in Int /\ HighestDifference(s, t, q) /\ BitsetAt(s, q) = Bits(s, q) /\ BitsetAt(t, q) = Bits(t, q)
      BY <1>5, TopCommon DEF differing
    <2> HIDE DEF q
    <2>2. e # f /\ (greater <=> Max(SymmetricDifference(Bits(s, q), Bits(t, q))) \in Bits(s, q))
      BY <2>1, TopDecides
    <2>3. bits <=> Max(SymmetricDifference(Bits(s, q), Bits(t, q))) \in Bits(s, q)
      BY <2>1 DEF GreaterBitset, q
    <2> HIDE DEF bits, e, f, greater
    <2>4. setCmp(s, t) = IF bits THEN 1 ELSE -1
      BY <1>1, <1>5 DEF equal
    <2> QED BY <2>2, <2>3, <2>4 DEF e, f, greater
  <1>6. CASE ~AboveOnly(s, t) /\ ~AboveOnly(t, s) /\ differing = {}
    <2>1. \A p \in CommonPositions(s, t) : BitsetAt(s, p) = BitsetAt(t, p) /\ Bits(s, p) = Bits(t, p)
      BY <1>6, CommonFacts
    <2>2. setCmp(s, t) = below
      <3> HIDE DEF differing, below
      <3> QED BY <1>1, <1>6 DEF equal
    <2>3. CASE BelowOnly(s, t)
      <3>1. e # f /\ greater
        BY <1>6, <2>1, <2>3, TopBelow, TopDecides
      <3> QED BY <2>2, <2>3, <3>1
    <2>4. CASE BelowOnly(t, s)
      <3>1. PICK q \in Int : HighestDifference(t, s, q) /\ Bits(s, q) = {}
        BY <1>6, <2>1, <2>4, CommonSwaps, TopBelow
      <3>2. e # f /\ ~greater
        BY <3>1, TopSwaps, TopDecides
      <3>3. ~BelowOnly(s, t)
        <4>1. PICK p \in Int : p < s.min_position /\ Bits(t, p) # {}
          BY <2>4, OnlyFacts
        <4>2. t.min_position <= p /\ t.min_position \in Int /\ s.min_position \in Int
          BY <4>1, OnlyFacts, BitsFacts DEF SetOK
        <4>3. ASSUME NEW r \in Int, r < t.min_position
              PROVE  Bits(s, r) = {}
          <5>1. r < s.min_position
            BY <4>1, <4>2, <4>3
          <5> QED BY <5>1, OnlyFacts
        <4> QED BY <4>3, OnlyFacts
      <3> QED BY <2>2, <2>4, <3>2, <3>3
    <2>5. CASE ~BelowOnly(s, t) /\ ~BelowOnly(t, s)
      <3>1. setEq(s, t)
        BY <1>6, <2>1, <2>5 DEF setEq
      <3>2. e = f
        BY <3>1, EqTold
      <3> QED BY <2>2, <2>5, <3>2
    <2> QED BY <2>3, <2>4, <2>5
  <1> QED BY <1>3, <1>4, <1>5, <1>6

LEMMA ComparedOK ==
  ASSUME NEW s, NEW t, SetOK(s), SetOK(t)
  PROVE  Compared(s, t, ElementsOf(s), ElementsOf(t))
  BY EqTold, SubsetTold, CmpTold DEF Compared

LEMMA LargestIsInt == INTTYPE_MAX \in Int
  <1> DEFINE n == BITSET_SIZE - 1
  <1>1. n \in Nat
    BY NumberAssumption
  <1> HIDE DEF n
  <1>2. IsFiniteSet(1..n) /\ Cardinality(1..n) = n
    BY <1>1, FS_Interval
  <1>3. IsFiniteSet(SUBSET (1..n)) /\ Cardinality(SUBSET (1..n)) = 2 ^ n
    BY <1>2, FS_SUBSET
  <1>4. 2 ^ n \in Nat
    BY <1>3, FS_CardinalityType
  <1>5. 2 ^ n - 1 \in Int
    BY <1>4
  <1> QED BY <1>5 DEF INTTYPE_MAX, n

LEMMA RangelitOK ==
  ASSUME NEW low \in Int64, NEW high \in Int64
  PROVE  ElementsOf(setRangelit(low, high)) = low..high
  <1> DEFINE first == bitset_pos(low)
             last == bitset_pos(high)
             FromLow(p) == IF p = first THEN {b \in BitNum : b >= BitIndex(low)} ELSE BitNum
             UpToHigh(p) == IF p = last THEN {b \in BitNum : b <= BitIndex(high)} ELSE BitNum
             f == [p \in Int |-> FromLow(p) \cap UpToHigh(p)]
             u == setRangelit(low, high)
  <1>1. /\ low \in Int /\ high \in Int /\ first \in Int /\ last \in Int
        /\ BitIndex(low) \in BitNum /\ BitIndex(low) \in Int /\ BitIndex(high) \in BitNum /\ BitIndex(high) \in Int
    <2>1. low \in Int /\ high \in Int
      BY Int64IsInt
    <2> QED BY <2>1, BitOfNumber, NumberOfBit
  <1>2. \A n \in Int : low <= n /\ n <= high => n \in Int64
    <2>1. \A n : n \in Int64 <=> n \in Int /\ -(INTTYPE_MAX + 1) <= n /\ n <= INTTYPE_MAX
      BY LargestIsInt DEF Int64
    <2> QED BY <1>1, <2>1, LargestIsInt
  <1>3. CASE first > last
    <2>1. u = EMPTY_SET
      BY <1>3 DEF setRangelit
    <2>2. low > high
      BY <1>1, <1>3, OrderOfNumbers
    <2>3. low..high = {}
      BY <1>1, <2>2
    <2> HIDE DEF u
    <2>4. ElementsOf(u) = {}
      BY <2>1, EmptySetOK
    <2> QED BY <2>3, <2>4 DEF u
  <1>4. CASE ~(first > last)
    <2>1. u = [min_position |-> first, max_position |-> last,
               bitset |-> [i \in 0..last - first |-> FromLow(first + i) \cap UpToHigh(first + i)]]
      BY <1>4 DEF setRangelit, NewSet
    <2>2. \A i \in 0..last - first : first + i \in Int
      BY <1>1
    <2>3. Covers(u, first, last, f)
      <3> HIDE DEF u, first, last, FromLow, UpToHigh
      <3> QED BY <2>1, <2>2 DEF Covers
    <2>4. f \in [Int -> SUBSET BitNum] /\ \A p \in Int : f[p] = FromLow(p) \cap UpToHigh(p)
      BY <1>1
    <2> HIDE DEF f, u
    <2>5. ASSUME NEW n \in Int
          PROVE  low <= n /\ n <= high <=> first <= bitset_pos(n) /\ bitset_pos(n) <= last /\ BitIndex(n) \in f[bitset_pos(n)]
      <3>1. /\ bitset_pos(n) \in Int /\ BitIndex(n) \in BitNum /\ BitIndex(n) \in Int
        BY BitOfNumber, NumberOfBit
      <3>2. BitIndex(n) \in f[bitset_pos(n)] <=>
              /\ bitset_pos(n) = first => BitIndex(low) <= BitIndex(n)
              /\ bitset_pos(n) = last => BitIndex(n) <= BitIndex(high)
        <4> HIDE DEF first, last
        <4> QED BY <1>1, <2>4, <3>1
      <3>3. /\ bitset_pos(n) < first => n < low
            /\ first < bitset_pos(n) => low < n
            /\ bitset_pos(n) = first => (n < low <=> BitIndex(n) < BitIndex(low))
        BY <1>1, OrderOfNumbers
      <3>4. /\ bitset_pos(n) < last => n < high
            /\ last < bitset_pos(n) => high < n
            /\ bitset_pos(n) = last => (high < n <=> BitIndex(high) < BitIndex(n))
        BY <1>1, OrderOfNumbers
      <3> HIDE DEF first, last
      <3>5. low <= n <=> first <= bitset_pos(n) /\ (bitset_pos(n) = first => BitIndex(low) <= BitIndex(n))
        BY <1>1, <3>1, <3>3
      <3>6. n <= high <=> bitset_pos(n) <= last /\ (bitset_pos(n) = last => BitIndex(n) <= BitIndex(high))
        BY <1>1, <3>1, <3>4
      <3> QED BY <3>2, <3>5, <3>6
    <2>6. \A p \in first..last : \A b \in f[p] : lowestBitsetPosAsInteger(p) + b \in Int64
      <3> SUFFICES ASSUME NEW p \in first..last, NEW b \in f[p]
                   PROVE  lowestBitsetPosAsInteger(p) + b \in Int64
        OBVIOUS
      <3>1. p \in Int /\ first <= p /\ p <= last /\ b \in BitNum
        <4> HIDE DEF first, last
        <4> QED BY <1>1, <2>4
      <3>2. /\ lowestBitsetPosAsInteger(p) + b \in Int
            /\ bitset_pos(lowestBitsetPosAsInteger(p) + b) = p /\ BitIndex(lowestBitsetPosAsInteger(p) + b) = b
        BY <3>1, NumberOfBit
      <3> QED BY <1>2, <2>5, <3>1, <3>2
    <2>7. first <= last
      BY <1>1, <1>4
    <2>8. SetOK(u) /\ \A p \in Int : Bits(u, p) = IF p \in first..last THEN f[p] ELSE {}
      <3> HIDE DEF first, last
      <3> QED BY <1>1, <2>3, <2>4, <2>6, <2>7, Covered
    <2>9. ASSUME NEW n \in Int
          PROVE  n \in ElementsOf(u) <=> low <= n /\ n <= high
      <3>1. n \in ElementsOf(u) <=> BitIndex(n) \in Bits(u, bitset_pos(n))
        BY <2>8, Member
      <3>2. bitset_pos(n) \in Int /\ (bitset_pos(n) \in first..last <=> first <= bitset_pos(n) /\ bitset_pos(n) <= last)
        BY <1>1, BitOfNumber
      <3> QED BY <2>5, <2>8, <3>1, <3>2
    <2>10. ElementsOf(u) \in SUBSET Int
      BY <2>8, Member, Int64IsInt
    <2>11. ElementsOf(u) = low..high
      <3>1. \A n : n \in low..high <=> n \in Int /\ low <= n /\ n <= high
        BY <1>1
      <3> QED BY <2>9, <2>10, <3>1
    <2> QED BY <2>11 DEF u
  <1> QED BY <1>3, <1>4

---------------------------------------------------------------------------
(* What is added up over the bitsets.  Sums do not depend on the order.     *)

Chosen(S) == [T \in SUBSET S |-> CHOOSE x \in T : TRUE]
Plus(S, c) == [y \in Nat \X S |-> c[y[2]] + y[1]]
Sums(g, S, c) ==
    /\ g \in [SUBSET S -> Nat] /\ g[{}] = 0
    /\ \A T \in SUBSET S : \A x \in T : g[T] = c[x] + g[T \ {x}]

LEMMA ChosenIn ==
  ASSUME NEW S
  PROVE  \A T \in SUBSET S : T # {} => Chosen(S)[T] \in T /\ Chosen(S)[T] = CHOOSE x \in T : TRUE
  BY DEF Chosen

LEMMA NumberInduction ==
  ASSUME NEW P \in SUBSET Nat, \A n \in Nat : (\A m \in Nat : m < n => m \in P) => n \in P
  PROVE  P = Nat
  <1> SUFFICES ASSUME Nat \ P # {} PROVE FALSE
    OBVIOUS
  <1>1. PICK n \in Nat \ P : \A m \in Nat \ P : n <= m
    <2>1. Nat \ P \in SUBSET Nat
      OBVIOUS
    <2> QED BY <2>1, Least
  <1>2. \A m \in Nat : m < n => m \in P
    BY <1>1
  <1> QED BY <1>1, <1>2

LEMMA SumAnyOrder ==
  ASSUME NEW S, IsFiniteSet(S), NEW c \in [S -> Nat], NEW g \in [SUBSET S -> Nat],
         \A T \in SUBSET S : g[T] = IF T = {} THEN 0 ELSE c[Chosen(S)[T]] + g[T \ {Chosen(S)[T]}]
  PROVE  Sums(g, S, c)
  <1> DEFINE P == {n \in Nat : \A T \in SUBSET S : Cardinality(T) = n => \A x \in T : g[T] = c[x] + g[T \ {x}]}
             pick == Chosen(S)
  <1>1. \A T \in SUBSET S : T # {} => pick[T] \in T
    BY ChosenIn
  <1> HIDE DEF pick
  <1>2. ASSUME NEW n \in Nat, \A m \in Nat : m < n => m \in P
        PROVE  n \in P
    <2> SUFFICES ASSUME NEW T \in SUBSET S, Cardinality(T) = n, NEW x \in T
                 PROVE  g[T] = c[x] + g[T \ {x}]
      OBVIOUS
    <2> DEFINE y == pick[T]
    <2>1. y \in T /\ g[T] = c[y] + g[T \ {y}]
      BY <1>1 DEF pick
    <2> HIDE DEF y
    <2>2. CASE x = y
      BY <2>1, <2>2
    <2>3. CASE x # y
      <3> DEFINE X == T \ {x}
                 Y == T \ {y}
      <3>1. IsFiniteSet(T)
        BY FS_Subset
      <3>2. /\ X \in SUBSET S /\ Cardinality(X) = n - 1 /\ y \in X
            /\ Y \in SUBSET S /\ Cardinality(Y) = n - 1 /\ x \in Y
        BY <2>1, <2>3, <3>1, FS_RemoveElement
      <3>3. n - 1 \in Nat /\ n - 1 < n
        <4>1. Cardinality(X) \in Nat
          BY <3>1, FS_RemoveElement, FS_CardinalityType
        <4> QED BY <3>2, <4>1
      <3>4. X \ {y} = Y \ {x}
        OBVIOUS
      <3> HIDE DEF X, Y
      <3>5. n - 1 \in P
        BY <1>2, <3>3
      <3>6. g[X] = c[y] + g[X \ {y}] /\ g[Y] = c[x] + g[Y \ {x}]
        BY <3>2, <3>5
      <3>7. c[x] \in Nat /\ c[y] \in Nat /\ g[Y \ {x}] \in Nat
        BY <2>1, <3>2
      <3>8. g[T] = c[y] + g[Y]
        BY <2>1 DEF Y
      <3>9. g[T] = c[x] + g[X]
        <4>1. g[X] = c[y] + g[Y \ {x}] /\ g[T] = c[y] + (c[x] + g[Y \ {x}])
          BY <3>4, <3>6, <3>8
        <4> HIDE DEF P
        <4> QED BY <3>7, <4>1
      <3> QED BY <3>9 DEF X
    <2> QED BY <2>2, <2>3
  <1>3. P = Nat
    <2>1. P \in SUBSET Nat
      OBVIOUS
    <2> HIDE DEF P
    <2> QED BY <1>2, <2>1, NumberInduction
  <1>4. ASSUME NEW T \in SUBSET S, NEW x \in T
        PROVE  g[T] = c[x] + g[T \ {x}]
    <2>1. Cardinality(T) \in Nat
      BY FS_Subset, FS_CardinalityType
    <2> QED BY <1>3, <2>1
  <1>5. g[{}] = 0
    OBVIOUS
  <1> QED BY <1>4, <1>5 DEF Sums

\* A fold that adds is one of these sums.
SumStep(S, c, h) == h = [T \in SUBSET S |-> IF T = {} THEN 0 ELSE c[CHOOSE x \in T : TRUE] + h[T \ {CHOOSE x \in T : TRUE}]]

LEMMA SumExists ==
  ASSUME NEW S, IsFiniteSet(S), NEW c \in [S -> Nat]
  PROVE  \E g : Sums(g, S, c) /\ SumStep(S, c, g) /\ \A h : SumStep(S, c, h) => h = g
  <1>1. Plus(S, c) \in [Nat \X S -> Nat] /\ \A n \in Nat, x \in S : Plus(S, c)[<<n, x>>] = c[x] + n
    BY DEF Plus
  <1>2. PICK g : Folding(g, S, Nat, Chosen(S), 0, Plus(S, c))
    BY <1>1, ChosenIn, FoldExists
  <1>3. ASSUME NEW T \in SUBSET S
        PROVE  g[T] = IF T = {} THEN 0 ELSE c[Chosen(S)[T]] + g[T \ {Chosen(S)[T]}]
    <2>1. T # {} => Chosen(S)[T] \in S /\ g[T \ {Chosen(S)[T]}] \in Nat
      BY <1>2, ChosenIn DEF Folding
    <2> QED BY <1>1, <1>2, <2>1 DEF Folding
  <1>4. Sums(g, S, c)
    <2>1. g \in [SUBSET S -> Nat]
      BY <1>2 DEF Folding
    <2> QED BY <1>3, <2>1, SumAnyOrder
  <1>5. SumStep(S, c, g)
    <2>1. g = [T \in SUBSET S |-> g[T]]
      BY <1>2 DEF Folding
    <2>2. \A T \in SUBSET S : g[T] = IF T = {} THEN 0 ELSE c[CHOOSE x \in T : TRUE] + g[T \ {CHOOSE x \in T : TRUE}]
      BY <1>3, ChosenIn
    <2> QED BY <2>1, <2>2 DEF SumStep
  <1>6. ASSUME NEW h, SumStep(S, c, h)
        PROVE  h = g
    <2> DEFINE P == {n \in Nat : \A T \in SUBSET S : Cardinality(T) = n => h[T] = g[T]}
    <2>1. \A T \in SUBSET S : h[T] = IF T = {} THEN 0 ELSE c[CHOOSE x \in T : TRUE] + h[T \ {CHOOSE x \in T : TRUE}]
      BY <1>6 DEF SumStep
    <2>2. \A T \in SUBSET S : g[T] = IF T = {} THEN 0 ELSE c[CHOOSE x \in T : TRUE] + g[T \ {CHOOSE x \in T : TRUE}]
      BY <1>5 DEF SumStep
    <2>3. ASSUME NEW n \in Nat, \A m \in Nat : m < n => m \in P
          PROVE  n \in P
      <3> SUFFICES ASSUME NEW T \in SUBSET S, Cardinality(T) = n
                   PROVE  h[T] = g[T]
        OBVIOUS
      <3>1. CASE T = {}
        BY <2>1, <2>2, <3>1
      <3>2. CASE T # {}
        <4> DEFINE x == CHOOSE x \in T : TRUE
                   X == T \ {x}
        <4>1. x \in T
          BY <3>2
        <4>2. h[T] = c[x] + h[X] /\ g[T] = c[x] + g[X]
          BY <2>1, <2>2, <3>2
        <4> HIDE DEF x
        <4>3. IsFiniteSet(T)
          BY FS_Subset
        <4>4. X \in SUBSET S /\ Cardinality(X) = n - 1 /\ Cardinality(X) \in Nat
          BY <4>1, <4>3, FS_RemoveElement, FS_CardinalityType
        <4> HIDE DEF X
        <4>5. h[X] = g[X]
          <5>1. n - 1 \in Nat /\ n - 1 < n
            BY <4>4
          <5> QED BY <2>3, <4>4, <5>1
        <4> QED BY <4>2, <4>5
      <3> QED BY <3>1, <3>2
    <2>4. P = Nat
      <3>1. P \in SUBSET Nat
        OBVIOUS
      <3> HIDE DEF P
      <3> QED BY <2>3, <3>1, NumberInduction
    <2>5. \A T \in SUBSET S : h[T] = g[T]
      BY <2>4, FS_Subset, FS_CardinalityType
    <2>6. h = [T \in SUBSET S |-> h[T]]
      BY <1>6 DEF SumStep
    <2>7. g = [T \in SUBSET S |-> g[T]]
      BY <1>2 DEF Folding
    <2> QED BY <2>5, <2>6, <2>7
  <1> QED BY <1>4, <1>5, <1>6

ElementsInside(s, T) == {n \in ElementsOf(s) : bitset_pos(n) \in T}

LEMMA FiniteElements ==
  ASSUME NEW s, SetOK(s)
  PROVE  /\ IsFiniteSet(ElementsOf(s)) /\ IsFiniteSet(Positions(s))
         /\ \A p \in Int : IsFiniteSet(Bits(s, p)) /\ Cardinality(Bits(s, p)) \in Nat
         /\ \A T : IsFiniteSet(ElementsInside(s, T)) /\ Cardinality(ElementsInside(s, T)) \in Nat
  <1>1. IsFiniteSet(Int64)
    <2>1. -(INTTYPE_MAX + 1) \in Int
      BY LargestIsInt
    <2> QED BY <2>1, LargestIsInt, FS_Interval DEF Int64
  <1>2. IsFiniteSet(ElementsOf(s))
    BY <1>1, Member, FS_Subset
  <1>3. IsFiniteSet(Positions(s))
    BY FS_Interval DEF SetOK, Positions
  <1>4. IsFiniteSet(BitNum)
    <2>1. BITSET_SIZE - 1 \in Int /\ 0 \in Int
      BY NumberAssumption
    <2> QED BY <2>1, FS_Interval DEF BitNum
  <1>5. \A p \in Int : IsFiniteSet(Bits(s, p)) /\ Cardinality(Bits(s, p)) \in Nat
    BY <1>4, BitsFacts, FS_Subset, FS_CardinalityType
  <1>6. ASSUME NEW T
        PROVE  IsFiniteSet(ElementsInside(s, T)) /\ Cardinality(ElementsInside(s, T)) \in Nat
    <2>1. ElementsInside(s, T) \in SUBSET ElementsOf(s)
      BY DEF ElementsInside
    <2> QED BY <1>2, <2>1, FS_Subset, FS_CardinalityType
  <1> QED BY <1>2, <1>3, <1>5, <1>6

LEMMA BitsAreElements ==
  ASSUME NEW s, SetOK(s), NEW q \in Int
  PROVE  Cardinality(ElementsInside(s, {q})) = Cardinality(Bits(s, q))
  <1> DEFINE B == Bits(s, q)
             T == ElementsInside(s, {q})
             f == [b \in B |-> lowestBitsetPosAsInteger(q) + b]
  <1>1. B \in SUBSET BitNum /\ IsFiniteSet(B)
    BY BitsFacts, FiniteElements
  <1>2. ASSUME NEW b \in B
        PROVE  /\ f[b] \in T /\ BitIndex(f[b]) = b
    <2>1. f[b] = lowestBitsetPosAsInteger(q) + b
      OBVIOUS
    <2>2. /\ f[b] \in Int /\ bitset_pos(f[b]) = q /\ BitIndex(f[b]) = b /\ f[b] \in ElementsOf(s)
      BY <1>1, <2>1, NumberOfBit, Member
    <2> HIDE DEF f
    <2> QED BY <2>2 DEF ElementsInside
  <1>3. ASSUME NEW n \in T
        PROVE  \E b \in B : f[b] = n
    <2>1. n \in Int /\ bitset_pos(n) = q /\ BitIndex(n) \in B /\ lowestBitsetPosAsInteger(q) + BitIndex(n) = n
      BY Member, Int64IsInt, BitOfNumber DEF ElementsInside
    <2> QED BY <2>1
  <1>4. f \in [B -> T]
    BY <1>2
  <1> HIDE DEF f, B, T
  <1>5. f \in Bijection(B, T)
    <2>1. f \in Injection(B, T)
      BY <1>2, <1>4 DEF Injection, IsInjective
    <2>2. f \in Surjection(B, T)
      BY <1>3, <1>4 DEF Surjection
    <2> QED BY <2>1, <2>2 DEF Bijection
  <1>6. Cardinality(T) = Cardinality(B)
    BY <1>1, <1>5, FS_Bijection DEF ExistsBijection
  <1> QED BY <1>6 DEF B, T

LEMMA CardFromIs ==
  ASSUME NEW s, SetOK(s), NEW p \in Int
  PROVE  CardFrom(s, p) = Cardinality({n \in ElementsOf(s) : bitset_pos(n) >= p})
  <1> DEFINE S == {q \in Positions(s) : q >= p}
             c == [q \in S |-> Cardinality(BitsetAt(s, q))]
  <1>1. IsFiniteSet(S) /\ S \in SUBSET Positions(s) /\ S \in SUBSET Int
    BY FiniteElements, FS_Subset, BitsFacts
  <1>2. c \in [S -> Nat] /\ \A q \in S : c[q] = Cardinality(ElementsInside(s, {q}))
    <2>1. \A q \in S : q \in Int /\ BitsetAt(s, q) = Bits(s, q) /\ Cardinality(Bits(s, q)) \in Nat
      BY BitsFacts, FiniteElements
    <2> QED BY <2>1, BitsAreElements
  <1>3. CardFrom(s, p) = (CHOOSE h : h = [T \in SUBSET S |-> IF T = {} THEN 0
                                          ELSE Cardinality(BitsetAt(s, CHOOSE x \in T : TRUE)) + h[T \ {CHOOSE x \in T : TRUE}]])[S]
    BY DEF CardFrom, MapThenSumSet, MapThenFoldSet
  <1>4. ASSUME NEW h
        PROVE  h = [T \in SUBSET S |-> IF T = {} THEN 0
                                       ELSE Cardinality(BitsetAt(s, CHOOSE x \in T : TRUE)) + h[T \ {CHOOSE x \in T : TRUE}]]
               <=> SumStep(S, c, h)
    <2>1. \A T \in SUBSET S : T # {} => c[CHOOSE x \in T : TRUE] = Cardinality(BitsetAt(s, CHOOSE x \in T : TRUE))
      OBVIOUS
    <2> HIDE DEF c, S
    <2> QED BY <2>1 DEF SumStep
  <1> HIDE DEF c
  <1>5. PICK g : Sums(g, S, c) /\ SumStep(S, c, g) /\ \A h : SumStep(S, c, h) => h = g
    BY <1>1, <1>2, SumExists
  <1>6. CardFrom(s, p) = g[S]
    <2> HIDE DEF S
    <2> QED BY <1>3, <1>4, <1>5
  <1> DEFINE Q == {n \in Nat : \A T \in SUBSET S : Cardinality(T) = n => g[T] = Cardinality(ElementsInside(s, T))}
  <1>7. ASSUME NEW n \in Nat, \A m \in Nat : m < n => m \in Q
        PROVE  n \in Q
    <2> SUFFICES ASSUME NEW T \in SUBSET S, Cardinality(T) = n
                 PROVE  g[T] = Cardinality(ElementsInside(s, T))
      OBVIOUS
    <2> HIDE DEF S
    <2>1. CASE T = {}
      <3>1. ElementsInside(s, T) = {}
        BY <2>1 DEF ElementsInside
      <3> QED BY <1>5, <2>1, <3>1, FS_EmptySet DEF Sums
    <2>2. CASE T # {}
      <3>1. PICK x \in T : TRUE
        BY <2>2
      <3> DEFINE X == T \ {x}
      <3>2. IsFiniteSet(T)
        BY <1>1, FS_Subset
      <3>3. X \in SUBSET S /\ Cardinality(X) = n - 1 /\ Cardinality(X) \in Nat
        BY <3>1, <3>2, FS_RemoveElement, FS_CardinalityType
      <3>4. g[T] = c[x] + g[X]
        BY <1>5, <3>1 DEF Sums
      <3>5. g[X] = Cardinality(ElementsInside(s, X))
        <4>1. n - 1 \in Nat /\ n - 1 < n
          BY <3>3
        <4> HIDE DEF X
        <4> QED BY <1>7, <3>3, <4>1
      <3>6. /\ ElementsInside(s, T) = ElementsInside(s, X) \cup ElementsInside(s, {x})
            /\ ElementsInside(s, X) \cap ElementsInside(s, {x}) = {}
        BY <3>1 DEF ElementsInside
      <3> HIDE DEF X
      <3>7. Cardinality(ElementsInside(s, T)) = Cardinality(ElementsInside(s, X)) + Cardinality(ElementsInside(s, {x}))
        <4>1. /\ IsFiniteSet(ElementsInside(s, X)) /\ IsFiniteSet(ElementsInside(s, {x}))
              /\ Cardinality(ElementsInside(s, X)) \in Nat /\ Cardinality(ElementsInside(s, {x})) \in Nat
          BY FiniteElements
        <4>2. Cardinality(ElementsInside(s, X) \cup ElementsInside(s, {x}))
                 = Cardinality(ElementsInside(s, X)) + Cardinality(ElementsInside(s, {x}))
                      - Cardinality(ElementsInside(s, X) \cap ElementsInside(s, {x}))
          BY <4>1, FS_Union
        <4>3. Cardinality(ElementsInside(s, X) \cap ElementsInside(s, {x})) = 0
          BY <3>6, FS_EmptySet
        <4> QED BY <3>6, <4>1, <4>2, <4>3
      <3>8. c[x] = Cardinality(ElementsInside(s, {x}))
        BY <1>2, <3>1
      <3>9. Cardinality(ElementsInside(s, X)) \in Nat /\ Cardinality(ElementsInside(s, {x})) \in Nat
        BY FiniteElements
      <3> QED BY <3>4, <3>5, <3>7, <3>8, <3>9
    <2> QED BY <2>1, <2>2
  <1>8. Q = Nat
    <2>1. Q \in SUBSET Nat
      OBVIOUS
    <2> HIDE DEF Q
    <2> QED BY <1>7, <2>1, NumberInduction
  <1>9. g[S] = Cardinality(ElementsInside(s, S))
    <2>1. S \in SUBSET S /\ Cardinality(S) \in Nat
      BY <1>1, FS_CardinalityType
    <2> HIDE DEF S
    <2> QED BY <1>8, <2>1
  <1>10. ElementsInside(s, S) = {n \in ElementsOf(s) : bitset_pos(n) >= p}
    <2>1. \A n \in ElementsOf(s) : bitset_pos(n) \in Positions(s)
      BY UsedFacts
    <2> QED BY <2>1 DEF ElementsInside
  <1> QED BY <1>6, <1>9, <1>10

LEMMA CardFromFacts ==
  ASSUME NEW s, SetOK(s)
  PROVE  /\ \A p \in Int : CardFrom(s, p) \in Nat
         /\ \A p \in Int : CardFrom(s, p) = Cardinality(Bits(s, p)) + CardFrom(s, p + 1)
         /\ \A p, q \in Int : p <= q => CardFrom(s, q) <= CardFrom(s, p)
         /\ CardFrom(s, s.min_position) = Cardinality(ElementsOf(s))
         /\ \A p \in Int : p > s.max_position => CardFrom(s, p) = 0
  <1> DEFINE From(p) == {q \in Int : q >= p}
  <1>1. ASSUME NEW p \in Int
        PROVE  CardFrom(s, p) = Cardinality(ElementsInside(s, From(p)))
    <2>1. {n \in ElementsOf(s) : bitset_pos(n) >= p} = ElementsInside(s, From(p))
      BY Member, Int64IsInt, BitOfNumber DEF ElementsInside
    <2> QED BY <2>1, CardFromIs
  <1>2. \A p \in Int : CardFrom(s, p) \in Nat
    BY <1>1, FiniteElements
  <1>3. ASSUME NEW p \in Int
        PROVE  CardFrom(s, p) = Cardinality(Bits(s, p)) + CardFrom(s, p + 1)
    <2> DEFINE X == ElementsInside(s, {p})
               Y == ElementsInside(s, From(p + 1))
               Z == ElementsInside(s, From(p))
    <2>1. Z = X \cup Y /\ X \cap Y = {}
      BY DEF ElementsInside
    <2>2. /\ IsFiniteSet(X) /\ IsFiniteSet(Y) /\ Cardinality(X) \in Nat /\ Cardinality(Y) \in Nat
          /\ Cardinality(X) = Cardinality(Bits(s, p))
      BY FiniteElements, BitsAreElements
    <2>3. p + 1 \in Int
      OBVIOUS
    <2>4. CardFrom(s, p) = Cardinality(Z) /\ CardFrom(s, p + 1) = Cardinality(Y)
      BY <1>1, <2>3
    <2> HIDE DEF X, Y, Z
    <2>5. Cardinality(X \cup Y) = Cardinality(X) + Cardinality(Y) - Cardinality(X \cap Y)
      BY <2>2, FS_Union
    <2>6. Cardinality(X \cap Y) = 0
      BY <2>1, FS_EmptySet
    <2> QED BY <2>1, <2>2, <2>4, <2>5, <2>6
  <1>4. ASSUME NEW p \in Int, NEW q \in Int, p <= q
        PROVE  CardFrom(s, q) <= CardFrom(s, p)
    <2>1. ElementsInside(s, From(q)) \in SUBSET ElementsInside(s, From(p))
      BY <1>4 DEF ElementsInside
    <2> HIDE DEF From
    <2>2. Cardinality(ElementsInside(s, From(q))) <= Cardinality(ElementsInside(s, From(p)))
      BY <2>1, FiniteElements, FS_Subset
    <2> QED BY <1>1, <2>2
  <1>5. CardFrom(s, s.min_position) = Cardinality(ElementsOf(s))
    <2>1. s.min_position \in Int
      BY DEF SetOK
    <2>2. \A n \in ElementsOf(s) : bitset_pos(n) >= s.min_position
      BY UsedFacts, BitsFacts
    <2>3. {n \in ElementsOf(s) : bitset_pos(n) >= s.min_position} = ElementsOf(s)
      BY <2>2
    <2> QED BY <2>1, <2>3, CardFromIs
  <1>6. ASSUME NEW p \in Int, p > s.max_position
        PROVE  CardFrom(s, p) = 0
    <2>1. \A n \in ElementsOf(s) : bitset_pos(n) <= s.max_position /\ bitset_pos(n) \in Int
      BY UsedFacts, BitsFacts
    <2>2. {n \in ElementsOf(s) : bitset_pos(n) >= p} = {}
      BY <1>6, <2>1 DEF SetOK
    <2> QED BY <2>2, CardFromIs, FS_EmptySet
  <1> QED BY <1>2, <1>3, <1>4, <1>5, <1>6

\* Every bit has a rank, and every number below the size is the rank of a bit.
Rank(B, b) == Cardinality({c \in B : c < b})

LEMMA RankFacts ==
  ASSUME NEW B \in SUBSET BitNum
  PROVE  /\ \A b \in B : Rank(B, b) \in Nat /\ Rank(B, b) < Cardinality(B)
         /\ \A b, c \in B : Rank(B, b) = Rank(B, c) => b = c
         /\ \A i \in Nat : i < Cardinality(B) => \E b \in B : Rank(B, b) = i
  <1> DEFINE L(k) == {c \in B : c < k}
  <1>0. BITSET_SIZE \in Nat /\ \A b : b \in BitNum <=> b \in Nat /\ b <= BITSET_SIZE - 1
    BY NumberAssumption DEF BitNum
  <1>1. IsFiniteSet(B) /\ Cardinality(B) \in Nat
    <2>1. BITSET_SIZE - 1 \in Int /\ 0 \in Int
      BY <1>0
    <2>2. IsFiniteSet(BitNum)
      BY <2>1, FS_Interval DEF BitNum
    <2> QED BY <2>2, FS_Subset, FS_CardinalityType
  <1>2. \A k \in Int : L(k) \in SUBSET B /\ IsFiniteSet(L(k)) /\ Cardinality(L(k)) \in Nat
    <2>1. \A k \in Int : L(k) \in SUBSET B
      OBVIOUS
    <2> QED BY <1>1, <2>1, FS_Subset, FS_CardinalityType
  <1>3. ASSUME NEW b \in B, NEW T \in SUBSET B, b \in T, L(b) \subseteq T, IsFiniteSet(T)
        PROVE  Cardinality(L(b)) < Cardinality(T)
    <2>1. b \in Int /\ b \notin L(b)
      BY <1>0
    <2>2. Cardinality(L(b) \cup {b}) = Cardinality(L(b)) + 1
      BY <1>2, <2>1, FS_AddElement
    <2>3. (L(b) \cup {b}) \in SUBSET T
      BY <1>3
    <2> HIDE DEF L
    <2>4. Cardinality(L(b) \cup {b}) <= Cardinality(T)
      BY <1>3, <2>3, FS_Subset
    <2>5. Cardinality(T) \in Nat /\ Cardinality(L(b)) \in Nat
      BY <1>2, <1>3, <2>1, FS_CardinalityType
    <2> QED BY <2>2, <2>4, <2>5
  <1>4. \A b \in B : Cardinality(L(b)) < Cardinality(B)
    BY <1>1, <1>3
  <1>5. ASSUME NEW b \in B, NEW c \in B, b < c
        PROVE  Cardinality(L(b)) < Cardinality(L(c))
    <2>1. b \in Int /\ c \in Int
      BY <1>0
    <2>2. L(b) \subseteq L(c) /\ b \in L(c) /\ L(c) \in SUBSET B /\ IsFiniteSet(L(c))
      <3>1. \A d \in B : d \in Int /\ (d < b => d < c)
        BY <1>0, <1>5, <2>1
      <3>2. L(b) \subseteq L(c) /\ b \in L(c)
        BY <1>5, <3>1
      <3> HIDE DEF L
      <3> QED BY <1>2, <2>1, <3>2
    <2> HIDE DEF L
    <2> QED BY <1>3, <2>2
  <1>6. ASSUME NEW b \in B, NEW c \in B, Cardinality(L(b)) = Cardinality(L(c))
        PROVE  b = c
    <2>1. b \in Int /\ c \in Int /\ Cardinality(L(b)) \in Nat
      BY <1>0, <1>2
    <2>2. ~(b < c)
      BY <1>5, <1>6, <2>1
    <2>3. ~(c < b)
      BY <1>5, <1>6, <2>1
    <2> QED BY <2>1, <2>2, <2>3
  <1>7. ASSUME NEW i \in Nat, i < Cardinality(B)
        PROVE  \E b \in B : Cardinality(L(b)) = i
    <2> DEFINE T == {k \in Nat : Cardinality(L(k)) > i}
    <2>1. BITSET_SIZE \in T
      <3>1. L(BITSET_SIZE) = B
        BY <1>0
      <3> HIDE DEF L
      <3> QED BY <1>0, <1>7, <3>1
    <2>2. PICK k \in T : \A m \in T : k <= m
      <3>1. T \in SUBSET Nat /\ T # {}
        BY <2>1
      <3> HIDE DEF T
      <3> QED BY <3>1, Least
    <2>3. k # 0
      <3>1. L(0) = {}
        BY <1>0
      <3>2. Cardinality(L(0)) = 0
        BY <3>1, FS_EmptySet
      <3> HIDE DEF L
      <3> QED BY <3>2
    <2>4. k \in Nat /\ k - 1 \in Nat /\ k - 1 \in Int /\ k - 1 \notin T
      BY <2>2, <2>3
    <2>5. Cardinality(L(k)) > i /\ Cardinality(L(k - 1)) <= i
      <3>1. Cardinality(L(k - 1)) \in Nat
        BY <1>2, <2>4
      <3> HIDE DEF L
      <3> QED BY <2>4, <3>1
    <2>6. k - 1 \in B
      <3> SUFFICES ASSUME k - 1 \notin B PROVE FALSE
        OBVIOUS
      <3>1. \A b \in B : b < k <=> b < k - 1
        BY <1>0, <2>4
      <3>2. L(k) = L(k - 1)
        BY <3>1
      <3> HIDE DEF L
      <3>3. Cardinality(L(k - 1)) \in Nat
        BY <1>2, <2>4
      <3> QED BY <2>5, <3>2, <3>3
    <2>7. Cardinality(L(k)) = Cardinality(L(k - 1)) + 1
      <3>1. \A b \in B : b < k <=> b < k - 1 \/ b = k - 1
        BY <1>0, <2>4
      <3>2. L(k) = L(k - 1) \cup {k - 1} /\ k - 1 \notin L(k - 1)
        BY <2>4, <2>6, <3>1
      <3> HIDE DEF L
      <3> QED BY <1>2, <2>4, <3>2, FS_AddElement
    <2>8. Cardinality(L(k - 1)) \in Nat
      BY <1>2, <2>4
    <2>9. Cardinality(L(k - 1)) = i
      <3> HIDE DEF L
      <3> QED BY <2>5, <2>7, <2>8
    <2> QED BY <2>6, <2>9
  <1>8. \A b \in B : Rank(B, b) = Cardinality(L(b)) /\ Rank(B, b) \in Nat
    BY <1>0, <1>2 DEF Rank
  <1> HIDE DEF L
  <1> QED BY <1>4, <1>6, <1>7, <1>8

\* The position and the bit that setRand takes for k.
LEMMA RandIs ==
  ASSUME NEW s, SetOK(s), NEW q \in Int, NEW b \in Bits(s, q), NEW k \in Nat,
         k = CardFrom(s, q + 1) + 1 + Rank(Bits(s, q), b)
  PROVE  setRand(s, k) = lowestBitsetPosAsInteger(q) + b
  <1> DEFINE S == {p \in Positions(s) : CardFrom(s, p) >= k}
             B == Bits(s, q)
             before == k - 1 - CardFrom(s, q + 1)
  <1>1. q + 1 \in Int /\ CardFrom(s, q) \in Nat /\ CardFrom(s, q + 1) \in Nat
        /\ CardFrom(s, q) = Cardinality(B) + CardFrom(s, q + 1)
    BY CardFromFacts
  <1>2. B \in SUBSET BitNum
    BY BitsFacts
  <1>3. Rank(B, b) \in Nat /\ Rank(B, b) < Cardinality(B) /\ Cardinality(B) \in Nat
    BY <1>2, RankFacts, FiniteElements
  <1>4. q \in S
    <2>1. q \in Positions(s)
      BY BitsFacts
    <2>2. CardFrom(s, q) >= k
      <3> HIDE DEF B
      <3> QED BY <1>1, <1>3 DEF B
    <2> QED BY <2>1, <2>2
  <1>5. ASSUME NEW p \in S
        PROVE  p <= q
    <2>1. p \in Int /\ CardFrom(s, p) >= k /\ CardFrom(s, p) \in Nat
      BY BitsFacts, CardFromFacts
    <2>2. q < p => CardFrom(s, p) <= CardFrom(s, q + 1)
      <3>1. q < p => q + 1 <= p
        BY <2>1
      <3> QED BY <1>1, <2>1, <3>1, CardFromFacts
    <2> HIDE DEF S
    <2>3. CardFrom(s, q + 1) < k
      BY <1>1, <1>3
    <2> QED BY <1>1, <2>1, <2>2, <2>3
  <1>6. Max(S) = q
    <2>1. S \in SUBSET Int
      BY BitsFacts
    <2> HIDE DEF S
    <2> QED BY <1>4, <1>5, <2>1, MaxIs
  <1>7. BitsetAt(s, q) = B
    BY <1>4, BitsFacts
  <1>8. before = Rank(B, b)
    BY <1>1, <1>3
  <1>9. (CHOOSE c \in B : Rank(B, c) = before) = b
    BY <1>2, <1>8, RankFacts
  <1>10. setRand(s, k) = lowestBitsetPosAsInteger(Max(S))
                           + (CHOOSE c \in BitsetAt(s, Max(S)) :
                                 Cardinality({d \in BitsetAt(s, Max(S)) : d < c}) = k - 1 - CardFrom(s, Max(S) + 1))
    BY DEF setRand
  <1> HIDE DEF S, B
  <1> QED BY <1>6, <1>7, <1>9, <1>10 DEF Rank, before

LEMMA CountedOK ==
  ASSUME NEW s, SetOK(s)
  PROVE  Counted(s, ElementsOf(s))
  <1> DEFINE e == ElementsOf(s)
             m == Cardinality(e)
  <1>1. setCard(s) = m
    BY CardFromFacts DEF setCard
  <1>2. m \in Nat
    BY FiniteElements, FS_CardinalityType
  <1>3. \A n \in e : n \in Int /\ bitset_pos(n) \in Positions(s) /\ bitset_pos(n) \in Int
                     /\ BitIndex(n) \in Bits(s, bitset_pos(n))
                     /\ lowestBitsetPosAsInteger(bitset_pos(n)) + BitIndex(n) = n
    BY Member, Int64IsInt, BitOfNumber, UsedFacts
  <1> HIDE DEF e
  \* Every element is chosen for its number, counted from the last position.
  <1>4. ASSUME NEW n \in e
        PROVE  \E k \in 1..m : setRand(s, k) = n
    <2> DEFINE q == bitset_pos(n)
               b == BitIndex(n)
               k == CardFrom(s, q + 1) + 1 + Rank(Bits(s, q), b)
    <2>1. q \in Int /\ q \in Positions(s) /\ b \in Bits(s, q) /\ lowestBitsetPosAsInteger(q) + b = n
      BY <1>3
    <2> HIDE DEF q, b
    <2>2. Rank(Bits(s, q), b) \in Nat /\ Rank(Bits(s, q), b) < Cardinality(Bits(s, q)) /\ Cardinality(Bits(s, q)) \in Nat
      BY <2>1, BitsFacts, RankFacts, FiniteElements
    <2>3. q + 1 \in Int /\ CardFrom(s, q) \in Nat /\ CardFrom(s, q + 1) \in Nat
          /\ CardFrom(s, q) = Cardinality(Bits(s, q)) + CardFrom(s, q + 1)
      BY <2>1, CardFromFacts
    <2>4. CardFrom(s, q) <= m
      <3>1. s.min_position \in Int /\ s.min_position <= q
        BY <2>1, BitsFacts DEF SetOK
      <3>2. CardFrom(s, q) <= CardFrom(s, s.min_position)
        BY <2>1, <3>1, CardFromFacts
      <3>3. CardFrom(s, s.min_position) = m
        BY CardFromFacts DEF e
      <3> QED BY <3>2, <3>3
    <2>5. k \in Nat /\ k \in 1..m
      BY <1>2, <2>2, <2>3, <2>4
    <2>6. setRand(s, k) = n
      BY <2>1, <2>5, RandIs
    <2> QED BY <2>5, <2>6
  <1>5. ASSUME NEW k \in 1..m
        PROVE  setRand(s, k) \in e
    <2> DEFINE S == {p \in Positions(s) : CardFrom(s, p) >= k}
               q == Max(S)
    <2>1. k \in Nat /\ k >= 1 /\ k <= m
      BY <1>2
    <2>2. s.min_position \in Positions(s) /\ CardFrom(s, s.min_position) = m
      <3>1. s.min_position \in Int /\ s.max_position \in Int /\ s.min_position <= s.max_position
        BY DEF SetOK
      <3>2. s.min_position \in Positions(s)
        BY <3>1, BitsFacts
      <3>3. CardFrom(s, s.min_position) = m
        BY CardFromFacts DEF e
      <3> QED BY <3>2, <3>3
    <2>3. /\ S \in SUBSET Int /\ S # {} /\ s.max_position \in Int
          /\ \A p \in S : p <= s.max_position
      BY <2>1, <2>2, BitsFacts DEF SetOK
    <2>4. q \in S /\ \A p \in S : p <= q
      <3> HIDE DEF S
      <3> QED BY <2>3, GreatestOf
    <2> HIDE DEF q
    <2>5. q \in Int /\ q + 1 \in Int /\ CardFrom(s, q) >= k /\ q \in Positions(s)
      BY <2>3, <2>4
    <2>6. CardFrom(s, q + 1) < k
      <3>1. CASE q + 1 \in Positions(s)
        <4>1. q + 1 \notin S
          BY <2>4, <2>5
        <4>2. CardFrom(s, q + 1) \in Nat
          BY <2>5, CardFromFacts
        <4> QED BY <2>1, <3>1, <4>1, <4>2
      <3>2. CASE q + 1 \notin Positions(s)
        <4>1. q + 1 > s.max_position
          BY <2>3, <2>5, <3>2, BitsFacts DEF SetOK
        <4>2. CardFrom(s, q + 1) = 0
          BY <2>5, <4>1, CardFromFacts
        <4> QED BY <2>1, <4>2
      <3> QED BY <3>1, <3>2
    <2>7. /\ CardFrom(s, q) \in Nat /\ CardFrom(s, q + 1) \in Nat /\ Cardinality(Bits(s, q)) \in Nat
          /\ CardFrom(s, q) = Cardinality(Bits(s, q)) + CardFrom(s, q + 1)
      BY <2>5, CardFromFacts, FiniteElements
    <2> DEFINE i == k - 1 - CardFrom(s, q + 1)
    <2>8. i \in Nat /\ i < Cardinality(Bits(s, q))
      BY <2>1, <2>5, <2>6, <2>7
    <2>9. PICK b \in Bits(s, q) : Rank(Bits(s, q), b) = i
      BY <2>5, <2>8, BitsFacts, RankFacts
    <2>10. k = CardFrom(s, q + 1) + 1 + Rank(Bits(s, q), b)
      BY <2>1, <2>7, <2>9
    <2>11. setRand(s, k) = lowestBitsetPosAsInteger(q) + b
      BY <2>1, <2>5, <2>10, RandIs
    <2> QED BY <2>5, <2>11, Member DEF e
  <1>6. {setRand(s, k) : k \in 1..m} = e
    <2> HIDE DEF m
    <2> QED BY <1>4, <1>5
  <1> QED BY <1>1, <1>6 DEF Counted, e

---------------------------------------------------------------------------
(* A bit of the hash code says whether an odd number of bitsets have it.     *)

With(s, T, b) == {q \in T : b \in BitsetAt(s, q)}
Odd(s, T) == {b \in BitNum : Cardinality(With(s, T, b)) % 2 = 1}
HashStep(s, h) ==
    h = [T \in SUBSET Positions(s) |->
            IF T = {} THEN {}
            ELSE SymmetricDifference(BitsetAt(s, CHOOSE x \in T : TRUE), h[T \ {CHOOSE x \in T : TRUE}])]

LEMMA OddStep ==
  ASSUME NEW s, SetOK(s), NEW T \in SUBSET Positions(s), NEW x \in T
  PROVE  Odd(s, T) = SymmetricDifference(BitsetAt(s, x), Odd(s, T \ {x}))
  <1> DEFINE X == T \ {x}
  <1>1. X \in SUBSET Positions(s) /\ x \notin X /\ T = X \cup {x}
    OBVIOUS
  <1>2. BitsetAt(s, x) \in SUBSET BitNum
    BY BitsFacts
  <1> HIDE DEF X
  <1>3. ASSUME NEW b \in BitNum
        PROVE  b \in Odd(s, T) <=> (b \in BitsetAt(s, x) /\ b \notin Odd(s, X)) \/ (b \notin BitsetAt(s, x) /\ b \in Odd(s, X))
    <2> DEFINE k == Cardinality(With(s, X, b))
    <2>1. IsFiniteSet(With(s, X, b)) /\ k \in Nat
      <3>1. With(s, X, b) \in SUBSET Positions(s)
        BY <1>1 DEF With
      <3> QED BY <3>1, FiniteElements, FS_Subset, FS_CardinalityType
    <2>2. b \in Odd(s, X) <=> k % 2 = 1
      BY DEF Odd
    <2>3. b \in Odd(s, T) <=> Cardinality(With(s, T, b)) % 2 = 1
      BY DEF Odd
    <2>4. CASE b \in BitsetAt(s, x)
      <3>1. With(s, T, b) = With(s, X, b) \cup {x} /\ x \notin With(s, X, b)
        BY <1>1, <2>4 DEF With
      <3>2. Cardinality(With(s, T, b)) = k + 1
        BY <2>1, <3>1, FS_AddElement
      <3>3. (k + 1) % 2 = 1 <=> k % 2 # 1
        <4> HIDE DEF k
        <4> QED BY <2>1
      <3> QED BY <2>2, <2>3, <2>4, <3>2, <3>3
    <2>5. CASE b \notin BitsetAt(s, x)
      <3>1. With(s, T, b) = With(s, X, b)
        BY <1>1, <2>5 DEF With
      <3> QED BY <2>2, <2>3, <2>5, <3>1
    <2> QED BY <2>4, <2>5
  <1>4. Odd(s, T) \in SUBSET BitNum /\ Odd(s, X) \in SUBSET BitNum
    BY DEF Odd
  <1>5. Odd(s, T) = SymmetricDifference(BitsetAt(s, x), Odd(s, X))
    BY <1>2, <1>3, <1>4 DEF SymmetricDifference
  <1> QED BY <1>5 DEF X

LEMMA HashStepExists ==
  ASSUME NEW s, SetOK(s)
  PROVE  \E h : HashStep(s, h)
  <1> DEFINE S == Positions(s)
             E == SUBSET BitNum
             H == [y \in E \X S |-> SymmetricDifference(BitsetAt(s, y[2]), y[1])]
  <1>1. H \in [E \X S -> E] /\ \A a \in E, x \in S : H[<<a, x>>] = SymmetricDifference(BitsetAt(s, x), a)
    <2>1. \A x \in S : BitsetAt(s, x) \in E
      BY BitsFacts
    <2> QED BY <2>1 DEF SymmetricDifference
  <1>2. IsFiniteSet(S) /\ {} \in E
    BY FiniteElements
  <1> HIDE DEF H
  <1>3. PICK h : Folding(h, S, E, Chosen(S), {}, H)
    <2> HIDE DEF S, E
    <2> QED BY <1>1, <1>2, ChosenIn, FoldExists
  <1>4. ASSUME NEW T \in SUBSET S
        PROVE  h[T] = IF T = {} THEN {}
                      ELSE SymmetricDifference(BitsetAt(s, CHOOSE x \in T : TRUE), h[T \ {CHOOSE x \in T : TRUE}])
    <2> HIDE DEF S, E
    <2>1. T # {} => Chosen(S)[T] \in S /\ h[T \ {Chosen(S)[T]}] \in E /\ Chosen(S)[T] = CHOOSE x \in T : TRUE
      BY <1>3, ChosenIn DEF Folding
    <2>2. h[T] = IF T = {} THEN {} ELSE H[<<h[T \ {Chosen(S)[T]}], Chosen(S)[T]>>]
      BY <1>3 DEF Folding
    <2>3. T # {} => H[<<h[T \ {Chosen(S)[T]}], Chosen(S)[T]>>]
                     = SymmetricDifference(BitsetAt(s, Chosen(S)[T]), h[T \ {Chosen(S)[T]}])
      BY <1>1, <2>1
    <2> QED BY <2>1, <2>2, <2>3
  <1>5. h = [T \in SUBSET S |-> h[T]]
    BY <1>3 DEF Folding
  <1>6. h = [T \in SUBSET S |-> IF T = {} THEN {}
                                ELSE SymmetricDifference(BitsetAt(s, CHOOSE x \in T : TRUE), h[T \ {CHOOSE x \in T : TRUE}])]
    <2> HIDE DEF S, E
    <2> QED BY <1>4, <1>5
  <1>7. HashStep(s, h)
    BY <1>6 DEF HashStep
  <1> QED BY <1>7

LEMMA HashIsOdd ==
  ASSUME NEW s, SetOK(s)
  PROVE  setHashCode(s) = Odd(s, Positions(s))
  <1> DEFINE h == CHOOSE g : HashStep(s, g)
             P == {n \in Nat : \A T \in SUBSET Positions(s) : Cardinality(T) = n => h[T] = Odd(s, T)}
  <1>1. HashStep(s, h)
    BY HashStepExists
  <1>2. setHashCode(s) = h[Positions(s)]
    BY DEF setHashCode, MapThenFoldSet, HashStep
  <1> HIDE DEF h
  <1>3. ASSUME NEW n \in Nat, \A m \in Nat : m < n => m \in P
        PROVE  n \in P
    <2> SUFFICES ASSUME NEW T \in SUBSET Positions(s), Cardinality(T) = n
                 PROVE  h[T] = Odd(s, T)
      OBVIOUS
    <2>1. h[T] = IF T = {} THEN {}
                 ELSE SymmetricDifference(BitsetAt(s, CHOOSE x \in T : TRUE), h[T \ {CHOOSE x \in T : TRUE}])
      BY <1>1 DEF HashStep
    <2>2. CASE T = {}
      <3>1. \A b : With(s, T, b) = {}
        BY <2>2 DEF With
      <3>2. \A b : Cardinality(With(s, T, b)) = 0
        BY <3>1, FS_EmptySet
      <3>3. Odd(s, T) = {}
        BY <3>2 DEF Odd
      <3> QED BY <2>1, <2>2, <3>3
    <2>3. CASE T # {}
      <3> DEFINE x == CHOOSE x \in T : TRUE
                 X == T \ {x}
      <3>1. x \in T
        BY <2>3
      <3>2. h[T] = SymmetricDifference(BitsetAt(s, x), h[X])
        BY <2>1, <2>3
      <3> HIDE DEF x
      <3>3. IsFiniteSet(T)
        BY FiniteElements, FS_Subset
      <3>4. X \in SUBSET Positions(s) /\ Cardinality(X) = n - 1 /\ Cardinality(X) \in Nat
        BY <3>1, <3>3, FS_RemoveElement, FS_CardinalityType
      <3>5. Odd(s, T) = SymmetricDifference(BitsetAt(s, x), Odd(s, X))
        BY <3>1, OddStep
      <3> HIDE DEF X
      <3>6. h[X] = Odd(s, X)
        <4>1. n - 1 \in Nat /\ n - 1 < n
          BY <3>4
        <4> QED BY <1>3, <3>4, <4>1
      <3> QED BY <3>2, <3>5, <3>6
    <2> QED BY <2>2, <2>3
  <1>4. P = Nat
    <2>1. P \in SUBSET Nat
      OBVIOUS
    <2> HIDE DEF P
    <2> QED BY <1>3, <2>1, NumberInduction
  <1>5. Positions(s) \in SUBSET Positions(s) /\ Cardinality(Positions(s)) \in Nat
    BY FiniteElements, FS_CardinalityType
  <1>6. h[Positions(s)] = Odd(s, Positions(s))
    BY <1>4, <1>5
  <1> QED BY <1>2, <1>6

LEMMA HashTold ==
  ASSUME NEW s, NEW t, SetOK(s), SetOK(t), ElementsOf(s) = ElementsOf(t)
  PROVE  setHashCode(s) = setHashCode(t)
  <1>1. \A p \in Int : Bits(s, p) = Bits(t, p)
    BY ElementsFromBits
  <1>2. ASSUME NEW b
        PROVE  With(s, Positions(s), b) = With(t, Positions(t), b)
    <2>1. With(s, Positions(s), b) = {q \in Int : b \in Bits(s, q)}
      BY BitsFacts DEF With
    <2>2. With(t, Positions(t), b) = {q \in Int : b \in Bits(t, q)}
      BY BitsFacts DEF With
    <2> QED BY <1>1, <2>1, <2>2
  <1>3. Odd(s, Positions(s)) = Odd(t, Positions(t))
    BY <1>2 DEF Odd
  <1> QED BY <1>3, HashIsOdd

---------------------------------------------------------------------------
(* Powers of two: the provers know nothing of ^, but a set with n elements   *)
(* has 2 ^ n subsets.                                                        *)

Power == [b \in Nat |-> 2 ^ b]

LEMMA PowerOfSets ==
  ASSUME NEW n \in Nat
  PROVE  IsFiniteSet(SUBSET (1..n)) /\ Cardinality(SUBSET (1..n)) = 2 ^ n /\ 2 ^ n \in Nat
  <1>1. IsFiniteSet(1..n) /\ Cardinality(1..n) = n
    BY FS_Interval
  <1> QED BY <1>1, FS_SUBSET, FS_CardinalityType

LEMMA PowerDoubles ==
  ASSUME NEW n \in Nat
  PROVE  2 ^ (n + 1) = 2 * 2 ^ n
  <1> DEFINE A == SUBSET (1..n)
             new == n + 1
             B == {T \cup {new} : T \in A}
             f == [T \in A |-> T \cup {new}]
  <1>1. new \in Nat /\ new \notin 1..n /\ 1..new = (1..n) \cup {new}
    OBVIOUS
  <1>2. IsFiniteSet(A) /\ Cardinality(A) = 2 ^ n /\ 2 ^ n \in Nat
    BY PowerOfSets
  <1>3. Cardinality(SUBSET (1..new)) = 2 ^ new
    BY <1>1, PowerOfSets
  <1> HIDE DEF new
  <1>4. SUBSET (1..new) = A \cup B
    <2>1. ASSUME NEW X \in SUBSET (1..new)
          PROVE  X \in A \cup B
      <3>1. CASE new \in X
        <4>1. X \ {new} \in A /\ X = (X \ {new}) \cup {new}
          BY <1>1, <3>1
        <4> QED BY <4>1
      <3>2. CASE new \notin X
        BY <1>1, <3>2
      <3> QED BY <3>1, <3>2
    <2>2. A \cup B \subseteq SUBSET (1..new)
      BY <1>1
    <2> QED BY <2>1, <2>2
  <1>5. A \cap B = {}
    BY <1>1
  <1>6. f \in Bijection(A, B)
    <2>1. f \in [A -> B]
      OBVIOUS
    <2>2. \A T, U \in A : f[T] = f[U] => T = U
      <3> SUFFICES ASSUME NEW T \in A, NEW U \in A, f[T] = f[U]
                   PROVE  T = U
        OBVIOUS
      <3>1. T \cup {new} = U \cup {new}
        OBVIOUS
      <3>2. new \notin T /\ new \notin U
        BY <1>1
      <3> QED BY <3>1, <3>2
    <2>3. \A y \in B : \E T \in A : f[T] = y
      OBVIOUS
    <2> HIDE DEF A, B, f
    <2> QED BY <2>1, <2>2, <2>3 DEF Bijection, Injection, Surjection, IsInjective
  <1>7. IsFiniteSet(B) /\ Cardinality(B) = Cardinality(A)
    <2>1. ExistsBijection(A, B)
      BY <1>6 DEF ExistsBijection
    <2> HIDE DEF A, B
    <2> QED BY <1>2, <2>1, FS_Bijection
  <1> HIDE DEF A, B
  <1>8. Cardinality(A \cup B) = Cardinality(A) + Cardinality(B) - Cardinality(A \cap B)
    BY <1>2, <1>7, FS_Union
  <1>9. Cardinality(A \cap B) = 0
    BY <1>5, FS_EmptySet
  <1>10. 2 ^ new = 2 ^ n + 2 ^ n
    <2>1. Cardinality(A \cup B) = 2 ^ n + 2 ^ n - 0
      BY <1>2, <1>7, <1>8, <1>9
    <2>2. 2 ^ new = Cardinality(A \cup B)
      BY <1>3, <1>4
    <2> QED BY <1>2, <2>1, <2>2
  <1> QED BY <1>2, <1>10 DEF new

LEMMA PowerFacts ==
  /\ Power \in [Nat -> Nat] /\ Power[0] = 1
  /\ \A n \in Nat : Power[n] = 2 ^ n /\ Power[n] > 0 /\ Power[n + 1] = 2 * Power[n]
  <1>1. \A n \in Nat : Power[n] = 2 ^ n
    BY DEF Power
  <1>2. Power \in [Nat -> Nat]
    BY PowerOfSets DEF Power
  <1>3. \A n \in Nat : Power[n + 1] = 2 * Power[n]
    <2>1. \A n \in Nat : n + 1 \in Nat
      OBVIOUS
    <2> QED BY <1>1, <2>1, PowerDoubles
  <1>4. Power[0] = 1
    <2>1. 1..0 = {} /\ SUBSET {} = {{}}
      OBVIOUS
    <2>2. Cardinality({{}}) = 1
      BY FS_Singleton
    <2> QED BY <1>1, <2>1, <2>2, PowerOfSets
  <1>5. \A n \in Nat : Power[n] > 0
    <2> DEFINE P == {n \in Nat : Power[n] > 0}
    <2>1. 0 \in P
      BY <1>4
    <2>2. \A n \in P : n + 1 \in P
      BY <1>2, <1>3
    <2>3. P \in SUBSET Nat
      OBVIOUS
    <2> HIDE DEF P
    <2>4. P = Nat
      BY <2>1, <2>2, <2>3, AllNaturals
    <2> QED BY <2>4 DEF P
  <1> QED BY <1>1, <1>2, <1>3, <1>4, <1>5

LEMMA QuotientOf ==
  ASSUME NEW n \in Int, NEW K \in Nat, K > 0
  PROVE  \E d, e \in Int : d = n \div K /\ e = n % K /\ 0 <= e /\ e < K /\ n = d * K + e
  <1>1. PICK d \in Int, e \in Int : d = n \div K /\ e = n % K /\ 0 <= e /\ e < K /\ e = n - K * d
    OBVIOUS
  <1>2. n = d * K + e
    BY <1>1
  <1> QED BY <1>1, <1>2

Divided(n, K, q, r) == q \in Int /\ r \in Int /\ 0 <= r /\ r < K /\ n = q * K + r

LEMMA QuotientIs ==
  ASSUME NEW n, NEW K \in Nat, NEW q, NEW r, Divided(n, K, q, r)
  PROVE  n \div K = q /\ n % K = r
  <1>0. n \in Int /\ K > 0 /\ q \in Int /\ r \in Int /\ 0 <= r /\ r < K /\ n = q * K + r
    BY DEF Divided
  <1>1. PICK d \in Int, e \in Int : d = n \div K /\ e = n % K /\ 0 <= e /\ e < K /\ n = d * K + e
    BY <1>0, QuotientOf
  <1>2. q * K + r = d * K + e
    BY <1>0, <1>1
  <1> DEFINE x == q - d
  <1>3. x \in Int /\ x * K = e - r
    BY <1>0, <1>1, <1>2
  <1>4. q = d + x
    BY <1>0, <1>1
  <1> HIDE DEF x
  <1>5. x = 0
    <2>1. CASE x >= 1
      <3>1. (x - 1) * K >= 0
        BY <1>3, <2>1
      <3>2. (x - 1) * K = x * K - K
        BY <1>3
      <3> QED BY <1>0, <1>1, <1>3, <3>1, <3>2
    <2>2. CASE x <= -1
      <3>1. (-x - 1) * K >= 0
        BY <1>3, <2>2
      <3>2. (-x - 1) * K = -(x * K) - K
        BY <1>3
      <3> QED BY <1>0, <1>1, <1>3, <3>1, <3>2
    <2> QED BY <1>3, <2>1, <2>2
  <1>6. x * K = 0
    BY <1>5
  <1>7. q = d /\ r = e
    BY <1>0, <1>1, <1>3, <1>4, <1>5, <1>6
  <1> QED BY <1>1, <1>7

\* One more bit of a number.
LEMMA BitAdded ==
  ASSUME NEW n \in Int, NEW K \in Nat, K > 0
  PROVE  n % (2 * K) = (n % K) + IF (n \div K) % 2 = 1 THEN K ELSE 0
  <1>1. PICK q \in Int, r \in Int : q = n \div K /\ r = n % K /\ 0 <= r /\ r < K /\ n = q * K + r
    BY QuotientOf
  <1> DEFINE h == q \div 2
             e == q % 2
  <1>2. h \in Int /\ e \in {0, 1} /\ q = h * 2 + e
    BY <1>1
  <1> HIDE DEF h, e
  <1>3. CASE e = 0
    <2>1. n = h * (2 * K) + r
      BY <1>1, <1>2, <1>3
    <2>2. 2 * K \in Nat /\ r < 2 * K
      BY <1>1
    <2>3. n % (2 * K) = r
      <3> DEFINE D == 2 * K
      <3> HIDE DEF D
      <3>1. n = h * D + r /\ D \in Nat /\ r < D
        BY <2>1, <2>2 DEF D
      <3>2. Divided(n, D, h, r)
        BY <1>1, <1>2, <3>1 DEF Divided
      <3>3. n % D = r
        BY <3>1, <3>2, QuotientIs
      <3> QED BY <3>3 DEF D
    <2> QED BY <1>1, <1>3, <2>3 DEF e
  <1>4. CASE e = 1
    <2>1. n = h * (2 * K) + (K + r)
      BY <1>1, <1>2, <1>4
    <2>2. 2 * K \in Nat /\ K + r < 2 * K /\ 0 <= K + r /\ K + r \in Int
      BY <1>1
    <2>3. n % (2 * K) = K + r
      <3> DEFINE D == 2 * K
                 f == K + r
      <3> HIDE DEF D, f
      <3>1. n = h * D + f /\ D \in Nat /\ f < D /\ 0 <= f /\ f \in Int
        BY <2>1, <2>2 DEF D, f
      <3>2. Divided(n, D, h, f)
        BY <1>2, <3>1 DEF Divided
      <3>3. n % D = f
        BY <3>1, <3>2, QuotientIs
      <3> QED BY <3>3 DEF D, f
    <2> QED BY <1>1, <1>4, <2>3 DEF e
  <1> QED BY <1>2, <1>3, <1>4

\* The sum of the bits below k.
LowerBits(B, k) == {b \in B : b < k}
Low(g, B, k) == g[LowerBits(B, k)]
Bit(B) == [b \in B |-> Power[b]]

LEMMA LowFacts ==
  ASSUME NEW B \in SUBSET Nat, IsFiniteSet(B), NEW g, Sums(g, B, Bit(B))
  PROVE  /\ Low(g, B, 0) = 0
         /\ \A k \in Nat : Low(g, B, k) \in Nat
         /\ \A k \in Nat : Low(g, B, k + 1) = Low(g, B, k) + IF k \in B THEN Power[k] ELSE 0
         /\ \A k \in Nat : Low(g, B, k) < Power[k]
  <1>1. Low(g, B, 0) = 0
    <2>1. \A b \in B : b \in Nat /\ ~(b < 0)
      OBVIOUS
    <2>2. LowerBits(B, 0) = {}
      BY <2>1 DEF LowerBits
    <2> QED BY <2>2 DEF Low, Sums
  <1>2. \A k : LowerBits(B, k) \in SUBSET B
    BY DEF LowerBits
  <1>3. \A k \in Nat : Low(g, B, k) \in Nat
    BY <1>2 DEF Low, Sums
  <1>4. ASSUME NEW k \in Nat
        PROVE  Low(g, B, k + 1) = Low(g, B, k) + IF k \in B THEN Power[k] ELSE 0
    <2>0. \A b \in B : b \in Nat /\ (b < k + 1 <=> b < k \/ b = k) /\ ~(k < k) /\ k < k + 1
      OBVIOUS
    <2>1. CASE k \in B
      <3>1. k \in LowerBits(B, k + 1) /\ LowerBits(B, k + 1) \ {k} = LowerBits(B, k)
        BY <2>0, <2>1 DEF LowerBits
      <3>2. g[LowerBits(B, k + 1)] = Bit(B)[k] + g[LowerBits(B, k)]
        BY <1>2, <3>1 DEF Sums
      <3>3. Bit(B)[k] = Power[k] /\ Power[k] \in Nat
        BY <2>1, PowerFacts DEF Bit
      <3> QED BY <1>3, <2>1, <3>2, <3>3 DEF Low
    <2>2. CASE k \notin B
      <3>1. LowerBits(B, k + 1) = LowerBits(B, k)
        BY <2>0, <2>2 DEF LowerBits
      <3>2. Low(g, B, k + 1) = Low(g, B, k)
        BY <3>1 DEF Low
      <3> QED BY <1>3, <2>2, <3>2
    <2> QED BY <2>1, <2>2
  <1>5. \A k \in Nat : Low(g, B, k) < Power[k]
    <2> DEFINE P == {k \in Nat : Low(g, B, k) < Power[k]}
    <2>1. 0 \in P
      BY <1>1, PowerFacts
    <2>2. \A k \in P : k + 1 \in P
      <3> TAKE k \in P
      <3>1. Power[k] \in Nat /\ Power[k + 1] = 2 * Power[k]
        BY PowerFacts
      <3> QED BY <1>3, <1>4, <3>1
    <2>3. P \in SUBSET Nat
      OBVIOUS
    <2> HIDE DEF P
    <2>4. P = Nat
      BY <2>1, <2>2, <2>3, AllNaturals
    <2> QED BY <2>4 DEF P
  <1> QED BY <1>1, <1>3, <1>4, <1>5

\* Above bit k the sum grows by multiples of 2 ^ k.
Grown(g, B, k, d) ==
    \E m \in Nat, l \in Nat : /\ Low(g, B, k + d) = m * Power[k] + Low(g, B, k)
                              /\ Power[k + d] = l * Power[k]

LEMMA HighFacts ==
  ASSUME NEW B \in SUBSET Nat, IsFiniteSet(B), NEW g, Sums(g, B, Bit(B)), NEW k \in Nat, NEW d \in Nat
  PROVE  Grown(g, B, k, d)
  <1> DEFINE K == Power[k]
             L == Low(g, B, k)
             P == {i \in Nat : \E m \in Nat, l \in Nat : /\ Low(g, B, k + i) = m * K + L
                                                         /\ Power[k + i] = l * K}
  <1>1. K \in Nat /\ L \in Nat
    BY PowerFacts, LowFacts
  <1>2. 0 \in P
    <2>1. k + 0 = k /\ L = 0 * K + L /\ K = 1 * K
      BY <1>1
    <2> QED BY <2>1
  <1>3. ASSUME NEW i \in P
        PROVE  i + 1 \in P
    <2>1. PICK m \in Nat, l \in Nat : Low(g, B, k + i) = m * K + L /\ Power[k + i] = l * K
      OBVIOUS
    <2>2. k + i \in Nat /\ k + (i + 1) = (k + i) + 1
      OBVIOUS
    <2>3. Power[k + (i + 1)] = 2 * Power[k + i]
      BY <2>2, PowerFacts
    <2>4. Low(g, B, k + (i + 1)) = Low(g, B, k + i) + IF k + i \in B THEN Power[k + i] ELSE 0
      BY <2>2, LowFacts
    <2> HIDE DEF K, L
    <2>5. Power[k + (i + 1)] = (2 * l) * K
      BY <1>1, <2>1, <2>3
    <2>6. CASE k + i \in B
      <3>1. Low(g, B, k + (i + 1)) = (m + l) * K + L
        BY <1>1, <2>1, <2>4, <2>6
      <3>2. m + l \in Nat /\ 2 * l \in Nat
        OBVIOUS
      <3> QED BY <2>5, <3>1, <3>2
    <2>7. CASE k + i \notin B
      <3>1. Low(g, B, k + (i + 1)) = m * K + L
        BY <1>1, <2>1, <2>4, <2>7
      <3>2. 2 * l \in Nat
        OBVIOUS
      <3> QED BY <2>5, <3>1, <3>2
    <2> QED BY <2>6, <2>7
  <1>4. P \in SUBSET Nat
    OBVIOUS
  <1> HIDE DEF P
  <1>5. P = Nat
    BY <1>2, <1>3, <1>4, AllNaturals
  <1>6. d \in P
    BY <1>5
  <1> QED BY <1>6 DEF P, Grown

\* The bits of a sum of powers are the bits that have been added.
LEMMA BitsOfSum ==
  ASSUME NEW N \in Nat, NEW B \in SUBSET (0..N - 1), IsFiniteSet(B), NEW g, Sums(g, B, Bit(B))
  PROVE  g[B] \in Nat /\ \A k \in 0..N - 1 : (g[B] \div 2 ^ k) % 2 = 1 <=> k \in B
  <1>1. B \in SUBSET Nat
    OBVIOUS
  <1>2. Low(g, B, N) = g[B]
    <2>0. \A b \in B : b < N
      OBVIOUS
    <2>1. LowerBits(B, N) = B
      BY <2>0 DEF LowerBits
    <2> QED BY <2>1 DEF Low
  <1>3. Low(g, B, N) \in Nat
    BY <1>1, LowFacts
  <1> SUFFICES ASSUME NEW k \in 0..N - 1
               PROVE  (g[B] \div 2 ^ k) % 2 = 1 <=> k \in B
    BY <1>2, <1>3
  <1> DEFINE n == g[B]
             K == Power[k]
             L == Low(g, B, k)
  <1>4. k \in Nat /\ K \in Nat /\ K > 0 /\ K = 2 ^ k /\ Power[k + 1] = 2 * K
    <2>1. k \in Nat
      OBVIOUS
    <2> QED BY <2>1, PowerFacts
  <1>5. /\ L \in Nat /\ L < K
        /\ Low(g, B, k + 1) = L + IF k \in B THEN K ELSE 0
    BY <1>1, <1>4, LowFacts
  <1>6. PICK m \in Nat : n = m * Power[k + 1] + Low(g, B, k + 1)
    <2> DEFINE j == k + 1
               d == N - j
    <2>1. j \in Nat /\ d \in Nat /\ j + d = N
      OBVIOUS
    <2> HIDE DEF j, d, n
    <2>2. PICK m \in Nat : Low(g, B, j + d) = m * Power[j] + Low(g, B, j)
      <3>1. Grown(g, B, j, d)
        BY <1>1, <2>1, HighFacts
      <3> QED BY <3>1 DEF Grown
    <2>3. n = m * Power[j] + Low(g, B, j)
      BY <1>2, <2>1, <2>2 DEF n
    <2> QED BY <2>3 DEF j
  <1> HIDE DEF n, K, L
  <1>7. CASE k \in B
    <2> DEFINE q == 2 * m + 1
    <2>1. n = q * K + L /\ q \in Int
      BY <1>4, <1>5, <1>6, <1>7
    <2>2. n \div K = q
      <3> HIDE DEF q
      <3>1. Divided(n, K, q, L)
        BY <1>4, <1>5, <2>1 DEF Divided
      <3> QED BY <1>4, <3>1, QuotientIs
    <2> QED BY <1>4, <1>7, <2>2 DEF n
  <1>8. CASE k \notin B
    <2> DEFINE q == 2 * m
    <2>1. n = q * K + L /\ q \in Int
      BY <1>4, <1>5, <1>6, <1>8
    <2>2. n \div K = q
      <3> HIDE DEF q
      <3>1. Divided(n, K, q, L)
        BY <1>4, <1>5, <2>1 DEF Divided
      <3> QED BY <1>4, <3>1, QuotientIs
    <2> QED BY <1>4, <1>8, <2>2 DEF n
  <1> QED BY <1>7, <1>8

LEMMA PowersAdded ==
  ASSUME NEW B \in SUBSET Nat, IsFiniteSet(B)
  PROVE  \E g : Sums(g, B, Bit(B)) /\ MapThenSumSet(LAMBDA b : 2 ^ b, B) = g[B]
  <1> DEFINE c == Bit(B)
  <1>1. c \in [B -> Nat] /\ \A b \in B : c[b] = 2 ^ b
    BY PowerFacts DEF Bit
  <1>2. MapThenSumSet(LAMBDA b : 2 ^ b, B)
           = (CHOOSE h : h = [T \in SUBSET B |-> IF T = {} THEN 0
                                ELSE 2 ^ (CHOOSE x \in T : TRUE) + h[T \ {CHOOSE x \in T : TRUE}]])[B]
    BY DEF MapThenSumSet, MapThenFoldSet
  <1> HIDE DEF c
  <1>3. ASSUME NEW h
        PROVE  h = [T \in SUBSET B |-> IF T = {} THEN 0
                                       ELSE 2 ^ (CHOOSE x \in T : TRUE) + h[T \ {CHOOSE x \in T : TRUE}]]
               <=> SumStep(B, c, h)
    <2>1. \A T \in SUBSET B : T # {} => c[CHOOSE x \in T : TRUE] = 2 ^ (CHOOSE x \in T : TRUE)
      BY <1>1
    <2> QED BY <2>1 DEF SumStep
  <1>4. PICK g : Sums(g, B, c) /\ SumStep(B, c, g) /\ \A h : SumStep(B, c, h) => h = g
    BY <1>1, SumExists
  <1>5. MapThenSumSet(LAMBDA b : 2 ^ b, B) = g[B]
    BY <1>2, <1>3, <1>4
  <1> QED BY <1>4, <1>5 DEF c

\* A set at position 0 with the bits B.
LEMMA OneBitset ==
  ASSUME NEW n \in Nat
  PROVE  LET s == setIConv(n)
             B == {b \in BitNum : (n \div 2 ^ b) % 2 = 1}
         IN Covers(s, 0, 0, [p \in Int |-> B]) /\ BitsetAt(s, 0) = B /\ s.min_position = 0 /\ s.max_position = 0
  <1> DEFINE B == {b \in BitNum : (n \div 2 ^ b) % 2 = 1}
             s == setIConv(n)
  <1>1. ~(n < 0)
    OBVIOUS
  <1>2. s = NewSet(0, 0, LAMBDA p : {b \in BitNum : (n \div 2 ^ b) % 2 = 1})
    BY <1>1 DEF setIConv
  <1>3. s = [min_position |-> 0, max_position |-> 0, bitset |-> [i \in 0..0 - 0 |-> B]]
    BY <1>2 DEF NewSet
  <1> HIDE DEF B, s
  <1>4. \A i \in 0..0 - 0 : [p \in Int |-> B][0 + i] = B
    OBVIOUS
  <1>5. Covers(s, 0, 0, [p \in Int |-> B])
    BY <1>3, <1>4 DEF Covers
  <1>6. BitsetAt(s, 0) = B /\ s.min_position = 0 /\ s.max_position = 0
    BY <1>3 DEF BitsetAt
  <1> QED BY <1>5, <1>6 DEF B, s

LEMMA NumberOfSet ==
  ASSUME NEW s, SetOK(s), setSConv(s) # OutOfRange
  PROVE  ElementsOf(setIConv(setSConv(s))) = ElementsOf(s)
  <1> DEFINE B == BitsetAt(s, 0)
             f == [p \in Int |-> B]
  <1>1. s.min_position = 0 /\ s.max_position = 0 /\ setSConv(s) = MapThenSumSet(LAMBDA b : 2 ^ b, B)
    BY DEF setSConv
  <1>2. 0 \in Positions(s) /\ Bits(s, 0) = B /\ B \in SUBSET BitNum /\ \A p \in Int : p # 0 => Bits(s, p) = {}
    <2>0. s.min_position = 0 /\ s.max_position = 0
      BY <1>1
    <2>1. 0 \in Positions(s)
      BY <2>0, BitsFacts
    <2>2. \A p \in Int : p # 0 => Bits(s, p) = {}
      <3>1. \A p \in Int : p # 0 => p \notin Positions(s)
        BY <2>0, BitsFacts
      <3> QED BY <3>1, BitsFacts
    <2>3. Bits(s, 0) = BitsetAt(s, 0) /\ Bits(s, 0) \in SUBSET BitNum
      BY <2>1, BitsFacts
    <2> QED BY <2>1, <2>2, <2>3
  <1>3. \A b \in B : lowestBitsetPosAsInteger(0) + b \in Int64
    BY <1>2, BitsFacts
  <1>4. BITSET_SIZE \in Nat /\ BitNum = 0..BITSET_SIZE - 1 /\ IsFiniteSet(BitNum)
    BY NumberAssumption, FS_Interval DEF BitNum
  <1> HIDE DEF B
  <1>5. IsFiniteSet(B) /\ B \in SUBSET Nat
    <2>1. BitNum \in SUBSET Nat
      BY <1>4
    <2> QED BY <1>2, <1>4, <2>1, FS_Subset
  <1>6. PICK g : Sums(g, B, Bit(B)) /\ setSConv(s) = g[B]
    BY <1>1, <1>5, PowersAdded
  <1>7. g[B] \in Nat /\ \A k \in BitNum : (g[B] \div 2 ^ k) % 2 = 1 <=> k \in B
    <2>1. B \in SUBSET (0..BITSET_SIZE - 1)
      BY <1>2, <1>4
    <2>2. g[B] \in Nat /\ \A k \in 0..BITSET_SIZE - 1 : (g[B] \div 2 ^ k) % 2 = 1 <=> k \in B
      BY <1>4, <1>5, <1>6, <2>1, BitsOfSum
    <2> QED BY <1>4, <2>2
  <1> DEFINE t == setIConv(setSConv(s))
  <1>8. Covers(t, 0, 0, f)
    <2>1. {b \in BitNum : (g[B] \div 2 ^ b) % 2 = 1} = B
      BY <1>2, <1>7
    <2>2. Covers(setIConv(g[B]), 0, 0, [p \in Int |-> {b \in BitNum : (g[B] \div 2 ^ b) % 2 = 1}])
      BY <1>7, OneBitset
    <2> QED BY <1>6, <2>1, <2>2
  <1> HIDE DEF t
  <1>9. f \in [Int -> SUBSET BitNum] /\ \A p \in Int : f[p] = B
    BY <1>2
  <1>10. \A p \in 0..0 : \A b \in f[p] : lowestBitsetPosAsInteger(p) + b \in Int64
    BY <1>3, <1>9
  <1> HIDE DEF f
  <1>11. SetOK(t) /\ \A p \in Int : Bits(t, p) = IF p \in 0..0 THEN f[p] ELSE {}
    BY <1>8, <1>9, <1>10, Covered
  <1>12. \A p \in Int : Bits(t, p) = Bits(s, p)
    BY <1>2, <1>9, <1>11
  <1>13. ElementsOf(t) = ElementsOf(s)
    BY <1>11, <1>12, ElementsFromBits
  <1> QED BY <1>13 DEF t

\* A set that covers position 0 alone has no number if it has the sign bit.
LEMMA FittingAtZero ==
  ASSUME NEW s, SetOK(s), s.min_position = 0, s.max_position = 0
  PROVE  BITSET_SIZE - 1 \notin BitsetAt(s, 0) <=> FitsNumber(ElementsOf(s))
  <1> DEFINE N == BITSET_SIZE
             E == ElementsOf(s)
             B == BitsetAt(s, 0)
  <1>1. N \in Nat \ {0} /\ BitNum = 0..N - 1
    BY NumberAssumption DEF BitNum
  <1>2. 0 \in Positions(s) /\ Bits(s, 0) = B /\ B \in SUBSET BitNum
    <2>1. 0 \in Positions(s)
      BY BitsFacts
    <2> QED BY <2>1, BitsFacts
  <1>3. \A p \in Positions(s) : p = 0
    BY BitsFacts
  <1>4. \A n \in E : n \in B
    <2> SUFFICES ASSUME NEW n \in E PROVE n \in B
      OBVIOUS
    <2>1. PICK b \in BitNum : n = lowestBitsetPosAsInteger(0) + b
      BY <1>3 DEF ElementsOf
    <2>2. n = b /\ n \in BitNum
      BY <1>1, <2>1 DEF lowestBitsetPosAsInteger
    <2>3. bitset_pos(n) = 0 /\ BitIndex(n) = n
      <3> HIDE DEF N
      <3>1. N \in Nat /\ N > 0 /\ n \in Int
        BY <1>1, <2>2
      <3>2. Divided(n, N, 0, n)
        BY <1>1, <2>2 DEF Divided
      <3>3. n \div N = 0 /\ n % N = n
        BY <3>1, <3>2, QuotientIs
      <3> QED BY <3>3 DEF bitset_pos, BitIndex, N
    <2>4. BitIndex(n) \in Bits(s, bitset_pos(n))
      BY DEF ElementsOf
    <2> QED BY <1>2, <2>3, <2>4
  <1>5. \A b \in B : b \in E
    <2> SUFFICES ASSUME NEW b \in B PROVE b \in E
      OBVIOUS
    <2>1. b \in BitNum /\ lowestBitsetPosAsInteger(0) + b \in Int64
      BY <1>2, BitsFacts
    <2>2. lowestBitsetPosAsInteger(0) + b = b
      BY <1>1, <2>1 DEF lowestBitsetPosAsInteger
    <2>3. bitset_pos(b) = 0 /\ BitIndex(b) = b
      <3> HIDE DEF N
      <3>1. N \in Nat /\ N > 0 /\ b \in Int
        BY <1>1, <2>1
      <3>2. Divided(b, N, 0, b)
        BY <1>1, <2>1 DEF Divided
      <3>3. b \div N = 0 /\ b % N = b
        BY <3>1, <3>2, QuotientIs
      <3> QED BY <3>3 DEF bitset_pos, BitIndex, N
    <2>4. b \in Int64 /\ BitIndex(b) \in Bits(s, bitset_pos(b))
      BY <1>2, <2>1, <2>2, <2>3
    <2>5. b \in {lowestBitsetPosAsInteger(p) + c : p \in Positions(s), c \in BitNum}
      BY <1>2, <2>1, <2>2
    <2> QED BY <2>4, <2>5 DEF ElementsOf
  <1> HIDE DEF E, B
  <1>6. FitsNumber(E) <=> \A n \in E : 0 <= n /\ n < N - 1
    BY DEF FitsNumber
  <1>7. (N - 1 \notin B) <=> \A n \in E : 0 <= n /\ n < N - 1
    <2>1. \A b \in B : b \in Int /\ 0 <= b /\ b <= N - 1
      BY <1>1, <1>2
    <2> HIDE DEF N
    <2> QED BY <1>1, <1>4, <1>5, <2>1
  <1> QED BY <1>6, <1>7 DEF E, B

LEMMA ConvertedOK ==
  ASSUME NEW s, SetOK(s)
  PROVE  Converted(s, ElementsOf(s))
  <1> DEFINE B == BitsetAt(s, 0)
             n == MapThenSumSet(LAMBDA b : 2 ^ b, B)
  <1>1. setSConv(s) = IF s.min_position # 0 \/ s.max_position # 0 \/ BITSET_SIZE - 1 \in B THEN OutOfRange ELSE n
    BY DEF setSConv
  <1>2. ASSUME s.min_position = 0, s.max_position = 0
        PROVE  n # OutOfRange
    <2>1. B \in SUBSET BitNum
      <3>1. 0 \in Positions(s)
        BY <1>2, BitsFacts
      <3> QED BY <3>1, BitsFacts
    <2>2. BITSET_SIZE \in Nat /\ BitNum = 0..BITSET_SIZE - 1 /\ IsFiniteSet(BitNum)
      BY NumberAssumption, FS_Interval DEF BitNum
    <2> HIDE DEF B
    <2>3. IsFiniteSet(B) /\ B \in SUBSET Nat /\ B \in SUBSET (0..BITSET_SIZE - 1)
      <3>1. BitNum \in SUBSET Nat
        BY <2>2
      <3> QED BY <2>1, <2>2, <3>1, FS_Subset
    <2>4. PICK g : Sums(g, B, Bit(B)) /\ n = g[B]
      BY <2>3, PowersAdded
    <2>5. g[B] \in Nat
      BY <2>2, <2>3, <2>4, BitsOfSum
    <2>6. n \in Int
      <3>1. n \in Nat
        BY <2>4, <2>5
      <3> HIDE DEF n
      <3> QED BY <3>1
    <2> HIDE DEF n
    <2> QED BY <2>6, NumberAssumption
  <1>3. ASSUME s.min_position = 0, s.max_position = 0
        PROVE  BITSET_SIZE - 1 \notin B <=> FitsNumber(ElementsOf(s))
    BY <1>3, FittingAtZero
  <1> HIDE DEF n, B
  <1>4. setSConv(s) = OutOfRange <=> ~FitsNumber(ElementsOf(s)) \/ s.min_position # 0 \/ s.max_position # 0
    BY <1>1, <1>2, <1>3
  <1>5. setSConv(s) # OutOfRange => ElementsOf(setIConv(setSConv(s))) = ElementsOf(s)
    BY NumberOfSet
  <1> QED BY <1>4, <1>5 DEF Converted

\* The bits of a number add up to it.
LEMMA BitsAddUp ==
  ASSUME NEW n \in Nat, NEW N \in Nat, NEW B, B = {b \in 0..N : (n \div 2 ^ b) % 2 = 1},
         IsFiniteSet(B), NEW g, Sums(g, B, Bit(B)), n < 2 ^ N
  PROVE  g[B] = n /\ N \notin B
  <1> DEFINE P == {k \in Nat : k <= N => Low(g, B, k) = n % Power[k]}
  <1>1. B \in SUBSET Nat
    OBVIOUS
  <1>2. \A k \in 0..N : k \in B <=> (n \div Power[k]) % 2 = 1
    <2>1. \A k \in 0..N : k \in Nat
      OBVIOUS
    <2>2. \A k \in 0..N : Power[k] = 2 ^ k
      BY <2>1, PowerFacts
    <2> QED BY <2>2
  <1>3. 0 \in P
    <2>1. n % 1 = 0
      OBVIOUS
    <2> QED BY <1>1, <2>1, LowFacts, PowerFacts
  <1>4. ASSUME NEW k \in P, k + 1 <= N
        PROVE  Low(g, B, k + 1) = n % Power[k + 1]
    <2>1. k \in Nat /\ k <= N /\ k \in 0..N /\ Low(g, B, k) = n % Power[k]
      BY <1>4
    <2> DEFINE K == Power[k]
    <2>2. K \in Nat /\ K > 0 /\ Power[k + 1] = 2 * K
      BY <2>1, PowerFacts
    <2>3. Low(g, B, k + 1) = Low(g, B, k) + IF k \in B THEN K ELSE 0
      <3>1. Low(g, B, k + 1) = Low(g, B, k) + IF k \in B THEN Power[k] ELSE 0
        <4>1. \A j \in Nat : Low(g, B, j + 1) = Low(g, B, j) + IF j \in B THEN Power[j] ELSE 0
          BY <1>1, LowFacts
        <4> QED BY <2>1, <4>1
      <3> QED BY <3>1
    <2>4. n % (2 * K) = (n % K) + IF (n \div K) % 2 = 1 THEN K ELSE 0
      <3> HIDE DEF K
      <3> QED BY <2>2, BitAdded
    <2>5. k \in B <=> (n \div K) % 2 = 1
      BY <1>2, <2>1
    <2>6. Low(g, B, k) = n % K
      BY <2>1
    <2> HIDE DEF K
    <2> QED BY <2>2, <2>3, <2>4, <2>5, <2>6
  <1>5. P = Nat
    <2>1. \A k \in P : k + 1 \in P
      BY <1>4
    <2>2. P \in SUBSET Nat
      OBVIOUS
    <2> HIDE DEF P
    <2> QED BY <1>3, <2>1, <2>2, AllNaturals
  <1> DEFINE K == Power[N]
  <1>6. K \in Nat /\ n < K
    BY PowerFacts
  <1>7. n \div K = 0 /\ n % K = n
    <2> HIDE DEF K
    <2>1. Divided(n, K, 0, n)
      BY <1>6 DEF Divided
    <2> QED BY <1>6, <2>1, QuotientIs
  <1>8. N \notin B
    <2>1. N \in B <=> (n \div K) % 2 = 1
      BY <1>2
    <2> HIDE DEF K
    <2> QED BY <1>7, <2>1
  <1>9. Low(g, B, N) = n % K
    BY <1>5
  <1>10. LowerBits(B, N) = B
    <2>1. \A b \in B : b \in 0..N /\ b # N
      BY <1>8
    <2>2. \A b \in B : b < N
      BY <2>1
    <2> QED BY <2>2 DEF LowerBits
  <1> QED BY <1>7, <1>8, <1>9, <1>10 DEF Low

LEMMA LiteralsOK ==
  ASSUME NEW n \in Int64, n >= 0
  PROVE  setSConv(setIConv(n)) = n
  <1> DEFINE N == BITSET_SIZE - 1
             B == {b \in BitNum : (n \div 2 ^ b) % 2 = 1}
             s == setIConv(n)
  <1>1. N \in Nat /\ BitNum = 0..N /\ IsFiniteSet(BitNum)
    BY NumberAssumption, FS_Interval DEF BitNum
  <1>2. n \in Nat
    BY Int64IsInt
  <1>3. n < 2 ^ N
    <2>1. n <= INTTYPE_MAX /\ INTTYPE_MAX = 2 ^ N - 1
      BY <1>2, LargestIsInt DEF Int64, INTTYPE_MAX
    <2>2. 2 ^ N \in Nat
      BY <1>1, PowerOfSets
    <2> HIDE DEF N
    <2> QED BY <1>2, <2>1, <2>2
  <1>4. BitsetAt(s, 0) = B /\ s.min_position = 0 /\ s.max_position = 0
    BY <1>2, OneBitset
  <1>5. IsFiniteSet(B) /\ B \in SUBSET Nat
    <2>1. BitNum \in SUBSET Nat
      BY <1>1
    <2> QED BY <1>1, <2>1, FS_Subset
  <1>6. B = {b \in 0..N : (n \div 2 ^ b) % 2 = 1}
    BY <1>1
  <1> HIDE DEF B, s, N
  <1>7. PICK g : Sums(g, B, Bit(B)) /\ MapThenSumSet(LAMBDA b : 2 ^ b, B) = g[B]
    BY <1>5, PowersAdded
  <1>8. g[B] = n /\ N \notin B
    BY <1>1, <1>2, <1>3, <1>5, <1>6, <1>7, BitsAddUp
  <1>9. ~(s.min_position # 0 \/ s.max_position # 0 \/ BITSET_SIZE - 1 \in BitsetAt(s, 0))
    BY <1>4, <1>8 DEF N
  <1>10. setSConv(s) = MapThenSumSet(LAMBDA b : 2 ^ b, BitsetAt(s, 0))
    BY <1>9 DEF setSConv
  <1>11. setSConv(s) = n
    BY <1>4, <1>7, <1>8, <1>10
  <1> QED BY <1>11 DEF s

(* Whatever its memory covers, a variable has the elements that the program  *)
(* put into it, and everything that set_rtl.c and setlib.c compute from sets *)
(* depends only on their elements: the operations, the comparisons, the      *)
(* first, the last and the next element, the bits that are taken out as a    *)
(* number, the number of elements, the element that a random number chooses, *)
(* the conversions and the hash codes.  Only whether setSConv raises         *)
(* RANGE_ERROR depends on the memory, too: it does so for every set that     *)
(* covers other positions than 0, also for those that have a number.         *)
THEOREM SetsAgreeHolds == SetsSpec => []SetsAgree
  <1>1. SetsInv => SetsAgree
    <2> SUFFICES ASSUME SetsInv
                 PROVE  SetsAgree
      OBVIOUS
    <2>1. DOMAIN set = SetVariable
      BY DEF SetsInv
    <2>2. \A v \in SetVariable : SetOK(set[v]) /\ ElementsOf(set[v]) = element[v]
      BY DEF SetsInv
    <2>3. RangesAgree
      BY RangelitOK DEF RangesAgree
    <2>4. NumbersAgree
      BY LiteralsOK DEF NumbersAgree
    <2>5. ElementsAgree
      BY <2>1, <2>2 DEF ElementsAgree
    <2>6. \A v \in SetVariable : /\ Inspected(set[v], element[v])
                                 /\ Counted(set[v], element[v])
                                 /\ Converted(set[v], element[v])
      BY <2>2, InspectedOK, CountedOK, ConvertedOK
    <2>7. \A v, w \in SetVariable :
             /\ Computed(set[v], set[w], element[v], element[w])
             /\ Compared(set[v], set[w], element[v], element[w])
             /\ element[v] = element[w] => setHashCode(set[v]) = setHashCode(set[w])
      BY <2>2, ComputedOK, ComparedOK, HashTold
    <2> QED BY <2>1, <2>3, <2>4, <2>5, <2>6, <2>7 DEF SetsAgree
  <1> QED BY <1>1, SetsInvHolds, PTL

=============================================================================
