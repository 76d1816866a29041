-------------------------------- MODULE Sets ---------------------------------
(* The bitsets of set_rtl.c and setlib.c.  A set has one bit for every       *)
(* integer between two positions; a position is a bitset of BITSET_SIZE      *)
(* bits, as many as an integer has.  The sets grow at both ends when an      *)
(* element is included and shrink again in most of the other operations.     *)
EXTENDS Integers, FiniteSetsExt

CONSTANTS SetVariable,         \* variables of the program of type bitset
          BITSET_SIZE,         \* the bits of a bitset and of an integer
          Number,              \* bound: the integers that are included
          OutOfRange           \* the result of a call that raises RANGE_ERROR

VARIABLES set,                 \* the values of the variables
          element              \* history: the elements they should have

setVars == <<set, element>>

INTTYPE_MAX == 2 ^ (BITSET_SIZE - 1) - 1
Int64 == -(INTTYPE_MAX + 1)..INTTYPE_MAX
BitNum == 0..BITSET_SIZE - 1

ASSUME NumberAssumption == /\ BITSET_SIZE \in Nat \ {0} /\ Number \subseteq Int64
                           /\ OutOfRange \notin Int

---------------------------------------------------------------------------
(* setRecord: a bitset is the set of its bits that are one, and the bitset   *)
(* with index 0 is the one of min_position.                                  *)

bitset_pos(number) == number \div BITSET_SIZE
BitIndex(number) == number % BITSET_SIZE
lowestBitsetPosAsInteger(position) == position * BITSET_SIZE

Positions(s) == s.min_position..s.max_position
BitsetAt(s, position) == s.bitset[position - s.min_position]
Bits(s, position) == IF position \in Positions(s) THEN BitsetAt(s, position) ELSE {}

NewSet(min, max, Bitset(_)) ==
    [min_position |-> min, max_position |-> max,
     bitset |-> [i \in 0..max - min |-> Bitset(min + i)]]

EMPTY_SET == [min_position |-> 0, max_position |-> 0, bitset |-> [i \in {0} |-> {}]]

ElementsOf(s) == {lowestBitsetPosAsInteger(p) + b : p \in Positions(s), b \in BitNum}
                 \cap {n \in Int64 : BitIndex(n) \in Bits(s, bitset_pos(n))}

\* What an operation may leave in a variable: its result, or a set that is
\* unchanged or too large when no memory can be allocated.
Result(s) == [set |-> s, failed |-> FALSE]
MemoryError(s) == [set |-> s, failed |-> TRUE]

---------------------------------------------------------------------------
(* One element.                                                             *)

\* setIncl
Included(s, number) ==
    LET pos == bitset_pos(number)
    IN NewSet(Min({pos, s.min_position}), Max({pos, s.max_position}),
              LAMBDA p : IF p = pos THEN Bits(s, p) \cup {BitIndex(number)} ELSE Bits(s, p))

setBaselit(number) == NewSet(bitset_pos(number), bitset_pos(number), LAMBDA p : {BitIndex(number)})

setIncl(s, number) ==
    {Result(Included(s, number))}
    \cup IF bitset_pos(number) \in Positions(s) THEN {} ELSE {MemoryError(s)}

\* set_incl: for an empty set with one bitset less memory may be enough.
set_incl(s, number) ==
    setIncl(s, number) \cup IF s.bitset = [i \in {0} |-> {}] THEN {Result(setBaselit(number))} ELSE {}

\* Mutant: min_position is increased before the bitsets are moved.
ExclWithoutMove(s, number) ==
    LET pos == bitset_pos(number)
        used == {p \in Positions(s) \ {pos} : BitsetAt(s, p) # {}}
    IN IF pos = s.min_position /\ used # {} /\ BitsetAt(s, pos) \subseteq {BitIndex(number)}
       THEN {Result([s EXCEPT !.min_position = Min(used),
                            !.bitset = [i \in 0..s.max_position - Min(used) |-> @[i]]])}
       ELSE {Result(s)}

\* setExcl: when the first or the last bitset has no bit left, it is given up
\* with its empty neighbours, but one bitset remains.  When realloc fails, the
\* result is in the memory that is too large.
setExcl(s, number) ==
    LET pos == bitset_pos(number)
        Left(p) == IF p = pos THEN BitsetAt(s, p) \ {BitIndex(number)} ELSE BitsetAt(s, p)
        cleared == NewSet(s.min_position, s.max_position, Left)
        used == {p \in Positions(s) : Left(p) # {}}
        shrunk == IF pos = s.min_position
                  THEN NewSet(Min(used \cup {s.max_position}), s.max_position, Left)
                  ELSE NewSet(s.min_position, Max(used \cup {s.min_position}), Left)
    IN IF pos \notin Positions(s) THEN {Result(s)}
       ELSE IF Left(pos) = {} /\ s.min_position # s.max_position
               /\ pos \in {s.min_position, s.max_position}
       THEN {Result(shrunk), MemoryError(shrunk)}
       ELSE {Result(cleared)}

---------------------------------------------------------------------------
(* Two sets.  The positions below start_position belong to one of them, and  *)
(* so do those above stop_position; between them there are those of both,    *)
(* or a gap.                                                                 *)

Merged(s, t, Both(_, _)) ==
    LET start == Max({s.min_position, t.min_position})
        stop == Min({s.max_position, t.max_position})
        lower == IF s.min_position < t.min_position THEN s ELSE t
        upper == IF s.max_position > t.max_position THEN s ELSE t
        Bitset(p) == CASE p \in start..stop -> Both(BitsetAt(s, p), BitsetAt(t, p))
                       [] p < start /\ p <= lower.max_position -> BitsetAt(lower, p)
                       [] p > stop /\ p >= upper.min_position -> BitsetAt(upper, p)
                       [] OTHER -> {}
    IN NewSet(Min({s.min_position, t.min_position}), Max({s.max_position, t.max_position}), Bitset)

SymmetricDifference(a, b) == (a \ b) \cup (b \ a)

setUnion(s, t) == Merged(s, t, LAMBDA a, b : a \cup b)
setSymdiff(s, t) == Merged(s, t, SymmetricDifference)

\* setUnionAssign, setSymdiffAssign: no memory is needed when dest has all
\* positions of the result.
InPlaceOrNew(s, result) ==
    {Result(result)} \cup IF Positions(result) = Positions(s) THEN {} ELSE {MemoryError(s)}

\* setDiff keeps the positions of the first set.
setDiff(s, t) == NewSet(s.min_position, s.max_position, LAMBDA p : BitsetAt(s, p) \ Bits(t, p))

\* setIntersect, setIntersectAssign and setDiffAssign: empty bitsets at both
\* ends are left out.
Common(s, t, p) == BitsetAt(s, p) \cap Bits(t, p)
Remaining(s, t, p) == BitsetAt(s, p) \ Bits(t, p)
Trimmed(s, t, Bitset(_, _, _)) ==
    LET used == {p \in Positions(s) : Bitset(s, t, p) # {}}
    IN IF used = {} THEN EMPTY_SET
       ELSE NewSet(Min(used), Max(used), LAMBDA p : Bitset(s, t, p))

setIntersect(s, t) == Trimmed(s, t, Common)

\* Memory is given back before the bits of the result are computed when the
\* result starts at the same position or is empty, and afterwards otherwise.
\* A realloc that shrinks memory in use does not move it, so t may be dest.
Shrinking(s, result) ==
    LET first == result.min_position = s.min_position /\ result # EMPTY_SET
        last == result.max_position = s.max_position
    IN {Result(result)} \cup CASE first /\ last -> {}
                              [] (first /\ ~last) \/ result = EMPTY_SET -> {MemoryError(s)}
                              [] OTHER -> {MemoryError(result)}

---------------------------------------------------------------------------
(* Comparisons look at the positions that only one of the sets has, and then *)
(* at the common ones.                                                       *)

CommonPositions(s, t) == Positions(s) \cap Positions(t)
BelowOnly(s, t) == \E p \in Positions(s) : p < t.min_position /\ BitsetAt(s, p) # {}
AboveOnly(s, t) == \E p \in Positions(s) : p > t.max_position /\ BitsetAt(s, p) # {}

setEq(s, t) ==
    /\ ~BelowOnly(s, t) /\ ~BelowOnly(t, s) /\ ~AboveOnly(s, t) /\ ~AboveOnly(t, s)
    /\ \A p \in CommonPositions(s, t) : BitsetAt(s, p) = BitsetAt(t, p)

setIsSubset(s, t) ==
    /\ ~BelowOnly(s, t) /\ ~AboveOnly(s, t)
    /\ \A p \in CommonPositions(s, t) : BitsetAt(s, p) \subseteq BitsetAt(t, p)

setIsProperSubset(s, t) ==
    /\ setIsSubset(s, t)
    /\ \/ BelowOnly(t, s) \/ AboveOnly(t, s)
       \/ \E p \in CommonPositions(s, t) : BitsetAt(s, p) # BitsetAt(t, p)

\* From the highest position down; a bitset is compared as a number.
GreaterBitset(a, b) == Max(SymmetricDifference(a, b)) \in a
setCmp(s, t) ==
    LET differing == {p \in CommonPositions(s, t) : BitsetAt(s, p) # BitsetAt(t, p)}
    IN CASE AboveOnly(s, t) -> 1
         [] AboveOnly(t, s) -> -1
         [] OTHER -> IF differing # {}
                     THEN IF GreaterBitset(BitsetAt(s, Max(differing)), BitsetAt(t, Max(differing))) THEN 1 ELSE -1
                     ELSE IF BelowOnly(s, t) THEN 1 ELSE IF BelowOnly(t, s) THEN -1 ELSE 0

---------------------------------------------------------------------------
(* Elements and numbers.                                                    *)

Used(s) == {p \in Positions(s) : BitsetAt(s, p) # {}}
FirstAt(s, p) == lowestBitsetPosAsInteger(p) + Min(BitsetAt(s, p))
LastAt(s, p) == lowestBitsetPosAsInteger(p) + Max(BitsetAt(s, p))

setElem(number, s) == BitIndex(number) \in Bits(s, bitset_pos(number))
setIsEmpty(s) == Used(s) = {}
setMin(s) == IF Used(s) = {} THEN OutOfRange ELSE FirstAt(s, Min(Used(s)))
setMax(s) == IF Used(s) = {} THEN OutOfRange ELSE LastAt(s, Max(Used(s)))

CardFrom(s, p) == MapThenSumSet(LAMBDA q : Cardinality(BitsetAt(s, q)), {q \in Positions(s) : q >= p})
setCard(s) == CardFrom(s, s.min_position)

\* The first bit behind the number in its own bitset, or of a later one.
setNext(s, number) ==
    LET pos == bitset_pos(number + 1)
        later == {b \in Bits(s, pos) : b >= BitIndex(number + 1)}
        others == {p \in Used(s) : p > pos}
    IN IF number = INTTYPE_MAX THEN OutOfRange
       ELSE IF later # {} THEN lowestBitsetPosAsInteger(pos) + Min(later)
       ELSE IF others # {} THEN FirstAt(s, Min(others))
       ELSE OutOfRange

\* setRand for the random number k: the elements are counted from the last
\* bitset to the first one, and in a bitset from the lowest bit on.
setRand(s, k) ==
    LET pos == Max({p \in Positions(s) : CardFrom(s, p) >= k})
        before == k - 1 - CardFrom(s, pos + 1)
        bit == CHOOSE b \in BitsetAt(s, pos) : Cardinality({c \in BitsetAt(s, pos) : c < b}) = before
    IN lowestBitsetPosAsInteger(pos) + bit

setHashCode(s) == MapThenFoldSet(SymmetricDifference, {}, LAMBDA p : BitsetAt(s, p),
                                 LAMBDA ps : CHOOSE p \in ps : TRUE, Positions(s))

setRangelit(low, high) ==
    LET first == bitset_pos(low)
        last == bitset_pos(high)
        FromLow(p) == IF p = first THEN {b \in BitNum : b >= BitIndex(low)} ELSE BitNum
        UpToHigh(p) == IF p = last THEN {b \in BitNum : b <= BitIndex(high)} ELSE BitNum
    IN IF first > last THEN EMPTY_SET
       ELSE NewSet(first, last, LAMBDA p : FromLow(p) \cap UpToHigh(p))

setIConv(number) ==
    IF number < 0 THEN OutOfRange
    ELSE NewSet(0, 0, LAMBDA p : {b \in BitNum : (number \div 2 ^ b) % 2 = 1})

setSConv(s) ==
    IF s.min_position # 0 \/ s.max_position # 0 \/ BITSET_SIZE - 1 \in BitsetAt(s, 0) THEN OutOfRange
    ELSE MapThenSumSet(LAMBDA b : 2 ^ b, BitsetAt(s, 0))

\* The bits from lowestBitNum on, which are in two bitsets.
setToUInt(s, lowestBitNum) ==
    LET pos == bitset_pos(lowestBitNum)
        i == BitIndex(lowestBitNum)
        low == {b - i : b \in {c \in Bits(s, pos) : c >= i}}
        high == {b + BITSET_SIZE - i : b \in {c \in Bits(s, pos + 1) : c < i}}
    IN IF pos \in Positions(s) THEN low \cup IF pos < s.max_position THEN high ELSE {}
       ELSE IF pos = s.min_position - 1 THEN high
       ELSE {}

---------------------------------------------------------------------------
(* Variables that are changed in place.                                     *)

SetsInit == /\ set = [v \in SetVariable |-> EMPTY_SET]
            /\ element = [v \in SetVariable |-> {}]

\* After MEMORY_ERROR the program may use what the variable has now.
Becomes(v, outcomes, new) ==
    \E o \in outcomes :
       /\ set' = [set EXCEPT ![v] = o.set]
       /\ element' = [element EXCEPT ![v] = IF o.failed /\ ElementsOf(o.set) # new THEN @ ELSE new]

Incl(v, n) == Becomes(v, set_incl(set[v], n), element[v] \cup {n})
Excl(v, n) == Becomes(v, setExcl(set[v], n), element[v] \ {n})
setUnionAssign(v, w) ==
    Becomes(v, InPlaceOrNew(set[v], setUnion(set[v], set[w])), element[v] \cup element[w])
setSymdiffAssign(v, w) ==
    Becomes(v, InPlaceOrNew(set[v], setSymdiff(set[v], set[w])),
            SymmetricDifference(element[v], element[w]))
setIntersectAssign(v, w) ==
    Becomes(v, Shrinking(set[v], setIntersect(set[v], set[w])), element[v] \cap element[w])
setDiffAssign(v, w) ==
    Becomes(v, Shrinking(set[v], Trimmed(set[v], set[w], Remaining)), element[v] \ element[w])

\* The value of an expression replaces the value of the variable.
AssignDiff(v, w) == Becomes(v, {Result(setDiff(set[v], set[w]))}, element[v] \ element[w])

setCpy(v, w) ==
    Becomes(v, {Result(set[w])} \cup IF Cardinality(Positions(set[v])) = Cardinality(Positions(set[w]))
                                   THEN {} ELSE {MemoryError(set[v])}, element[w])

SetsNext ==
    \E v \in SetVariable :
       \/ \E n \in Number : Incl(v, n) \/ Excl(v, n)
       \/ \E w \in SetVariable : \/ setUnionAssign(v, w) \/ setSymdiffAssign(v, w)
                                  \/ setIntersectAssign(v, w) \/ setDiffAssign(v, w)
                                  \/ AssignDiff(v, w) \/ setCpy(v, w)

SetsSpec == SetsInit /\ [][SetsNext]_setVars

---------------------------------------------------------------------------
(* Properties.                                                              *)

\* A set has a bitset for each of its positions, and at least one.
SetTypeOK ==
    \A v \in DOMAIN set :
       /\ set[v].min_position <= set[v].max_position
       /\ set[v].bitset \in [0..set[v].max_position - set[v].min_position -> SUBSET BitNum]

Extreme(S, op(_)) == IF S = {} THEN OutOfRange ELSE op(S)

Inspected(s, e) ==
    /\ setIsEmpty(s) = (e = {})
    /\ setMin(s) = Extreme(e, Min) /\ setMax(s) = Extreme(e, Max)
    /\ \A n \in Int64 :
          /\ setElem(n, s) = (n \in e)
          /\ setNext(s, n) = Extreme({x \in e : x > n}, Min)
          /\ setToUInt(s, n) = {b \in BitNum : n + b \in e}

Counted(s, e) ==
    /\ setCard(s) = Cardinality(e)
    /\ {setRand(s, k) : k \in 1..Cardinality(e)} = e

\* A set of numbers of bits, without the sign bit.
FitsNumber(e) == \A n \in e : 0 <= n /\ n < BITSET_SIZE - 1

\* setSConv raises RANGE_ERROR if the set does not fit or its memory is not the
\* bitset at position 0 alone.
Converted(s, e) ==
    /\ setSConv(s) = OutOfRange <=> ~FitsNumber(e) \/ s.min_position # 0 \/ s.max_position # 0
    /\ setSConv(s) # OutOfRange => ElementsOf(setIConv(setSConv(s))) = e

Computed(s, t, e, f) ==
    /\ ElementsOf(setUnion(s, t)) = e \cup f
    /\ ElementsOf(setSymdiff(s, t)) = SymmetricDifference(e, f)
    /\ ElementsOf(setIntersect(s, t)) = e \cap f
    /\ ElementsOf(setDiff(s, t)) = e \ f

Compared(s, t, e, f) ==
    /\ setEq(s, t) = (e = f) /\ setIsSubset(s, t) = (e \subseteq f)
    /\ setIsProperSubset(s, t) = (e \subseteq f /\ e # f)
    /\ setCmp(s, t) = IF e = f THEN 0 ELSE IF Max(SymmetricDifference(e, f)) \in e THEN 1 ELSE -1

ElementsAgree == \A v \in DOMAIN set : ElementsOf(set[v]) = element[v]

NumbersAgree == \A n \in Int64 : n >= 0 => setSConv(setIConv(n)) = n

RangesAgree == \A low, high \in Int64 : ElementsOf(setRangelit(low, high)) = low..high

(* A variable has the elements that the program included in it, or computed *)
(* from other sets, whatever positions its memory covers after growing and  *)
(* shrinking at both ends; after MEMORY_ERROR it has either the elements of *)
(* before or those of the result.  What the functions of set_rtl.c compute  *)
(* from sets depends only on their elements: sets with the same elements at *)
(* different positions are equal, and have the same hash code, first, last  *)
(* and next element; every element has a random number that chooses it.     *)
(* The exception is setSConv, whose RANGE_ERROR depends on the memory: it   *)
(* is documented (set_rtl.c:1698) for sets with negative elements or without *)
(* a number, but the code (1708) raises it also for sets that have one and  *)
(* cover other positions, such as {1, 100} - {100}.  The property says when *)
(* it is raised, and that otherwise a set and the number that its bits stand *)
(* for are converted to each other.                                         *)
SetsAgree ==
    DOMAIN set # {} =>
       /\ ElementsAgree /\ RangesAgree /\ NumbersAgree
       /\ \A v \in DOMAIN set : /\ Inspected(set[v], element[v])
                                /\ Counted(set[v], element[v])
                                /\ Converted(set[v], element[v])
       /\ \A v, w \in DOMAIN set :
             /\ Computed(set[v], set[w], element[v], element[w])
             /\ Compared(set[v], set[w], element[v], element[w])
             /\ element[v] = element[w] => setHashCode(set[v]) = setHashCode(set[w])
=============================================================================
