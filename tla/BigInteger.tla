----------------------------- MODULE BigInteger -----------------------------
(* The big integers of big_rtl.c.  A number is a sequence of digits in two's *)
(* complement, the lowest digit first, with as few digits as possible.  The  *)
(* size of a digit and the threshold of the Karatsuba multiplication are     *)
(* constants, so that numbers of a few bits reach all branches.              *)
EXTENDS Integers, Sequences

LOCAL INSTANCE SequencesExt
LOCAL INSTANCE FiniteSetsExt
LOCAL INSTANCE Bitwise

CONSTANTS BIGDIGIT_SIZE,              \* bits of a digit
          KARATSUBA_THRESHOLD,        \* at least 4 digits
          EUCLID_DIFFERENCE           \* a gcd of more different sizes uses divisions (10)

Base == 2 ^ BIGDIGIT_SIZE
Mask == Base - 1
Inverted(digit) == Mask - digit

IsNegative(b) == 2 * Last(b) >= Base
Sign(b) == IF IsNegative(b) THEN Mask ELSE 0
Digit(b, i) == IF i <= Len(b) THEN b[i] ELSE Sign(b)
Zeros(n) == [i \in 1 .. n |-> 0]

---------------------------------------------------------------------------
(* Loops over digits: each sum is split into a digit and the carry to the   *)
(* next digit.                                                              *)

RECURSIVE WithCarry(_, _)
WithCarry(terms, c) ==
    IF terms = <<>> THEN [digits |-> <<>>, carry |-> c]
    ELSE LET rest == WithCarry(Tail(terms), (c + Head(terms)) \div Base)
         IN  [digits |-> <<(c + Head(terms)) % Base>> \o rest.digits, carry |-> rest.carry]

Terms(n, Term(_)) == [i \in 1 .. n |-> Term(i)]
Digits(n, Term(_), c) == WithCarry(Terms(n, Term), c).digits
Carry(n, Term(_), c) == WithCarry(Terms(n, Term), c).carry

normalize(b) ==
    LET Enough(n) == /\ IsNegative(SubSeq(b, 1, n)) = IsNegative(b)
                     /\ \A i \in n + 1 .. Len(b) : b[i] = Sign(b)
    IN  SubSeq(b, 1, Min({n \in 1 .. Len(b) : Enough(n)}))

negate_positive_big(b) == Digits(Len(b), LAMBDA i : Inverted(b[i]), 1)

\* The digits without sign; the most negative number of a size needs no more
\* digits when its highest bit is taken as a value.
alloc_positive_copy_of_negative_big(b) == negate_positive_big(b)

positive_copy_of_negative_big(b) ==
    LET copy == negate_positive_big(b)
    IN  IF IsNegative(copy) THEN Append(copy, 0) ELSE copy

---------------------------------------------------------------------------
(* Addition and subtraction.                                                *)

bigAdd(a, b) ==
    normalize(Digits(Max({Len(a), Len(b)}) + 1, LAMBDA i : Digit(a, i) + Digit(b, i), 0))

bigSbtr(a, b) ==
    normalize(Digits(Max({Len(a), Len(b)}) + 1, LAMBDA i : Digit(a, i) + Inverted(Digit(b, i)), 1))

\* In place: a digit is added only when the sign does not fit any more.
InPlace(a, Term(_), c) ==
    LET n == Len(a)
        digits == Digits(n, Term, c)
        top == (Carry(n, Term, c) + Term(n + 1)) % Base
    IN  IF top # Sign(digits) THEN Append(digits, top) ELSE normalize(digits)

bigAddAssign(a, delta) ==
    IF Len(a) >= Len(delta) THEN InPlace(a, LAMBDA i : Digit(a, i) + Digit(delta, i), 0)
    ELSE normalize(Digits(Len(delta) + 1, LAMBDA i : Digit(a, i) + Digit(delta, i), 0))

bigSbtrAssign(a, delta) ==
    IF Len(a) >= Len(delta) THEN InPlace(a, LAMBDA i : Digit(a, i) + Inverted(Digit(delta, i)), 1)
    ELSE normalize(Digits(Len(delta) + 1, LAMBDA i : Digit(a, i) + Inverted(Digit(delta, i)), 1))

bigAddAssignSignedDigit(a, digit) == InPlace(a, LAMBDA i : Digit(a, i) + Digit(<<digit>>, i), 0)

\* The lowest digit that does not pass on the carry; the digits below it turn
\* from `from' to `to'.
Ripple(b, from, to, step) ==
    LET n == Min({i \in 1 .. Len(b) : b[i] # from} \cup {Len(b) + 1})
    IN  [i \in 1 .. Len(b) |-> IF i < n THEN to ELSE IF i = n THEN b[i] + step ELSE b[i]]

uBigIncr(b) == Ripple(b, Mask, 0, 1)
uBigDecr(b) == Ripple(b, 0, Mask, -1)

\* The size changes by one digit at most.
Superfluous(b) == Len(b) >= 2 /\ Last(b) = Sign(Front(b))

bigIncr(b) ==
    LET c == uBigIncr(b)
    IN  IF ~IsNegative(c) THEN c
        ELSE IF ~IsNegative(b) THEN Append(c, 0)
        ELSE IF Superfluous(c) THEN Front(c) ELSE c

bigDecr(b) ==
    LET c == uBigDecr(b)
    IN  IF IsNegative(c) THEN c
        ELSE IF IsNegative(b) THEN Append(c, Mask)
        ELSE IF Superfluous(c) THEN Front(c) ELSE c

bigSucc(b) == bigIncr(b)
bigPred(b) == bigDecr(b)

bigNegate(b) ==
    LET c == negate_positive_big(b)
    IN  IF ~IsNegative(c) THEN c
        ELSE IF IsNegative(b) THEN Append(c, 0)
        ELSE IF Superfluous(c) THEN Front(c) ELSE c

bigAbs(b) == IF IsNegative(b) THEN positive_copy_of_negative_big(b) ELSE b

---------------------------------------------------------------------------
(* Multiplication of numbers without sign.                                  *)

\* A row of the multiplication; its last carry is assigned, not added.
AddRow(product, factor, digit, j) ==
    LET n == Len(factor)
        row == Digits(n + 1, LAMBDA i : IF i > n THEN 0
                                        ELSE product[i + j - 1] + factor[i] * digit, 0)
    IN  [k \in 1 .. Len(product) |-> IF k \in j .. j + n THEN row[k - j + 1] ELSE product[k]]

uBigMult(factor1, factor2) ==
    LET rows[j \in 0 .. Len(factor2)] ==
            IF j = 0 THEN Zeros(Len(factor1) + Len(factor2))
            ELSE AddRow(rows[j - 1], factor1, factor2[j], j)
    IN  rows[Len(factor2)]

UDigit(b, i) == IF i <= Len(b) THEN b[i] ELSE 0
At(b, first) == SubSeq(b, first, Len(b))
Store(b, first, digits) ==
    [k \in 1 .. Len(b) |-> IF k \in first .. first + Len(digits) - 1
                           THEN digits[k - first + 1] ELSE b[k]]

uBigDigitAdd(big1, big2) ==
    Digits(Len(big1) + 1, LAMBDA i : UDigit(big1, i) + UDigit(big2, i), 0)
uBigDigitSbtrFrom(big1, big2) ==
    Digits(Len(big1), LAMBDA i : big1[i] + Inverted(UDigit(big2, i)), 1)
uBigDigitAddTo(big1, big2) ==
    Digits(Len(big1), LAMBDA i : big1[i] + UDigit(big2, i), 0)

\* The product of the sums of the halves is reduced by the products of the
\* halves and added in the middle.
Combine(middle, low, high, sizeLo) ==
    LET product == low \o high
        rest == uBigDigitSbtrFrom(uBigDigitSbtrFrom(middle, low), high)
    IN  Store(product, sizeLo + 1, uBigDigitAddTo(At(product, sizeLo + 1), rest))

RECURSIVE uBigKaratsubaMult(_, _)
uBigKaratsubaMult(factor1, factor2) ==
    LET size == Len(factor1)
        sizeLo == size - size \div 2
        Low(f) == SubSeq(f, 1, sizeLo)
        High(f) == At(f, sizeLo + 1)
    IN  IF size < KARATSUBA_THRESHOLD THEN uBigMult(factor1, factor2)
        ELSE Combine(uBigKaratsubaMult(uBigDigitAdd(Low(factor1), High(factor1)),
                                       uBigDigitAdd(Low(factor2), High(factor2))),
                     uBigKaratsubaMult(Low(factor1), Low(factor2)),
                     uBigKaratsubaMult(High(factor1), High(factor2)), sizeLo)

Extended(b, n) == b \o Zeros(n - Len(b))
Signed(product, negative) ==
    normalize(IF negative THEN negate_positive_big(product) ELSE product)

\* A factor that is at most half as long as the other is multiplied with the
\* halves of the other.
MultHalves(factor1, help, half) ==
    LET low == uBigKaratsubaMult(SubSeq(factor1, 1, half), SubSeq(help, 1, half))
        high == uBigKaratsubaMult(At(factor1, half + 1), help)
        AddHigh(product) ==
            Store(product, half + 1, uBigDigitAddTo(At(product, half + 1), high))
    IN  AddHigh(Extended(low, half + 2 * Len(help)))

MultOrdered(factor1, factor2) ==
    LET size == Len(factor1)
        half == size \div 2
    IN  IF Len(factor2) < KARATSUBA_THRESHOLD THEN uBigMult(factor1, factor2)
        ELSE IF 2 * Len(factor2) <= size
        THEN MultHalves(factor1, Extended(factor2, size - half), half)
        ELSE uBigKaratsubaMult(factor1, Extended(factor2, size))

uBigMultK(f, g, negative) ==
    Signed(IF Len(g) > Len(f) THEN MultOrdered(g, f) ELSE MultOrdered(f, g), negative)

\* The absolute value, whose highest bit belongs to the value.
Absolute(b) == IF IsNegative(b) THEN alloc_positive_copy_of_negative_big(b) ELSE b
AbsDigit(digit) == IF IsNegative(<<digit>>) THEN Base - digit ELSE digit

bigMult(a, b) == uBigMultK(Absolute(a), Absolute(b), IsNegative(a) # IsNegative(b))

bigMultAssign1(b, digit) ==
    LET f == Absolute(b)
    IN  Signed(Digits(Len(f) + 1, LAMBDA i : UDigit(f, i) * AbsDigit(digit), 0),
               IsNegative(b) # IsNegative(<<digit>>))

bigMultAssign(b, factor) ==
    IF Len(factor) = 1 THEN bigMultAssign1(b, factor[1]) ELSE bigMult(b, factor)

\* Negated factors are negated on the fly, the product is negated again.
bigMultSignedDigit(b, digit) == bigMultAssign1(b, digit)

\* The products of two different digits count twice.
uBigDigitSquare(b) ==
    LET rows[i \in 0 .. Len(b)] ==
            IF i = 0 THEN Zeros(2 * Len(b))
            ELSE LET Term(k) == IF k = 1 THEN b[i] * b[i]
                                ELSE IF i + k - 1 <= Len(b) THEN 2 * b[i] * b[i + k - 1] ELSE 0
                     tail == At(rows[i - 1], 2 * i - 1)
                 IN  Store(rows[i - 1], 2 * i - 1,
                           Digits(Len(tail), LAMBDA k : tail[k] + Term(k), 0))
    IN  rows[Len(b)]

RECURSIVE uBigKaratsubaSquare(_)
uBigKaratsubaSquare(b) ==
    LET sizeLo == Len(b) - Len(b) \div 2
        low == SubSeq(b, 1, sizeLo)
        high == At(b, sizeLo + 1)
    IN  IF Len(b) < KARATSUBA_THRESHOLD THEN uBigDigitSquare(b)
        ELSE Combine(uBigKaratsubaSquare(uBigDigitAdd(low, high)),
                     uBigKaratsubaSquare(low), uBigKaratsubaSquare(high), sizeLo)

uBigSquareK(b) == normalize(uBigKaratsubaSquare(b))
bigSquare(b) == uBigSquareK(Absolute(b))

---------------------------------------------------------------------------
(* Division.  A division by zero raises NUMERIC_ERROR.                      *)

NUMERIC_ERROR == <<>>
Zero == <<0>>
MinusOne == <<Mask>>

MostSignificantBit(digit) == Max({n \in 0 .. BIGDIGIT_SIZE - 1 : 2 ^ n <= digit} \cup {-1})

uBigLShift(b, n) == Digits(Len(b), LAMBDA i : b[i] * 2 ^ n, 0)
uBigRShift(b, n) ==
    [i \in 1 .. Len(b) |-> b[i] \div 2 ^ n + ((UDigit(b, i + 1) * 2 ^ (BIGDIGIT_SIZE - n)) % Base)]

uBigMultSub(b, v, digit) ==
    LET product == Digits(Len(b), LAMBDA i : UDigit(v, i) * digit, 0)
        Term(i) == b[i] + Inverted(product[i])
    IN  [digits |-> Digits(Len(b), Term, 1), carry |-> Carry(Len(b), Term, 1)]

uBigAddTo(b, v) == Digits(Len(b), LAMBDA i : b[i] + UDigit(v, i), 0)

\* The estimate divides two digits by the highest digit of v; it is reduced
\* while the second digit of v shows that it is too large.
Estimate(rest, v, p) ==
    LET n == Len(v)
        twodigits == rest[p] * Base + rest[p - 1]
        first == IF rest[p] = v[n] THEN Mask ELSE (twodigits \div v[n]) % Base
        Remains(q) == twodigits - q * v[n]
        TooLarge(q) == /\ Remains(q) <= Mask
                       /\ v[n - 1] * q > Remains(q) * Base + rest[p - 2]
    IN  Max({q \in 0 .. first : ~TooLarge(q)})

\* Mutant: an estimate that is too large is not corrected.
StepWithoutAddBack(rest, v, p) ==
    LET sub == uBigMultSub(At(rest, p - Len(v)), v, Estimate(rest, v, p))
    IN  [digit |-> Estimate(rest, v, p), rest |-> Store(rest, p - Len(v), sub.digits)]

\* An estimate that is still too large by one is found by the missing carry of
\* the subtraction: the divisor is added back.
Corrected(q, sub, v) ==
    IF sub.carry = 0 THEN [digit |-> q - 1, rest |-> uBigAddTo(sub.digits, v)]
    ELSE [digit |-> q, rest |-> sub.digits]

\* One digit of the quotient.
QuotientStep(rest, v, p) ==
    LET first == p - Len(v)
        Subtracted(q) == Corrected(q, uBigMultSub(At(rest, first), v, q), v)
        Stored(step) == [step EXCEPT !.rest = Store(rest, first, @)]
    IN  Stored(Subtracted(Estimate(rest, v, p)))

uBigDiv(dividend, v) ==
    LET top == Len(dividend)
        Before(step, quotient) == [quotient |-> <<step.digit>> \o quotient, rest |-> step.rest]
        after[p \in Len(v) + 1 .. top + 1] ==
            IF p > top THEN [quotient |-> <<0>>, rest |-> dividend]
            ELSE Before(QuotientStep(after[p + 1].rest, v, p), after[p + 1].quotient)
    IN  after[Len(v) + 1]

uBigDivRem1(dividend, digit) ==
    LET n == Len(dividend)
        rem[i \in 1 .. n + 1] ==
            IF i > n THEN 0 ELSE (rem[i + 1] * Base + dividend[i]) % digit
    IN  [quotient |-> [i \in 1 .. n |-> ((rem[i + 1] * Base + dividend[i]) \div digit) % Base],
         rest |-> rem[1]]

\* The divisor is shifted until its highest bit is set; a highest digit that is
\* 0 is dropped.
DividedUnsigned(d, v) ==
    LET shift == BIGDIGIT_SIZE - 1 - MostSignificantBit(Last(v))
        ShiftedBack(result) == [result EXCEPT !.rest = uBigRShift(@, shift)]
        OneDigit(result) == [result EXCEPT !.rest = <<@>>]
    IN  IF Last(v) # 0 THEN ShiftedBack(uBigDiv(uBigLShift(d, shift), uBigLShift(v, shift)))
        ELSE IF Len(v) = 2 THEN OneDigit(uBigDivRem1(Front(d), v[1]))
        ELSE uBigDiv(Front(d), Front(v))

\* Dividend and divisor without sign, the dividend with a further digit.
Divided(dividend, divisor) ==
    LET Unsigned(b) == IF IsNegative(b) THEN positive_copy_of_negative_big(b) ELSE b
        Filled(result) == [result EXCEPT !.rest = Extended(@, Len(dividend) + 2)]
    IN  Filled(DividedUnsigned(Append(Unsigned(dividend), 0), Unsigned(divisor)))

Differ(a, b) == IsNegative(a) # IsNegative(b)
uBigIsNot0(b) == \E i \in 1 .. Len(b) : b[i] # 0

Divided1(dividend, digit) ==
    LET one == uBigDivRem1(Absolute(dividend), AbsDigit(digit))
    IN  [quotient |-> Append(one.quotient, 0), rest |-> <<one.rest>>]

bigDiv1(a, digit) ==
    IF digit = 0 THEN NUMERIC_ERROR
    ELSE Signed(Divided1(a, digit).quotient, Differ(a, <<digit>>))

\* A dividend with fewer digits is smaller, except for -(2 ^ n) and 2 ^ n.
bigDivSizeLess(a, b) ==
    IF /\ Len(a) + 1 = Len(b) /\ b[Len(b)] = 0
       /\ Last(a) = Base \div 2 /\ b[Len(a)] = Base \div 2
       /\ \A i \in 1 .. Len(a) - 1 : a[i] = 0 /\ b[i] = 0
    THEN MinusOne ELSE Zero

bigDiv(a, b) ==
    IF Len(b) = 1 THEN bigDiv1(a, b[1])
    ELSE IF Len(a) < Len(b) THEN bigDivSizeLess(a, b)
    ELSE Signed(Divided(a, b).quotient, Differ(a, b))

bigRem1(a, digit) ==
    LET rest == Divided1(a, digit).rest
    IN  IF digit = 0 THEN NUMERIC_ERROR
        ELSE IF IsNegative(a) THEN negate_positive_big(rest) ELSE rest

bigRemSizeLess(a, b) == IF bigDivSizeLess(a, b) = MinusOne THEN Zero ELSE a

bigRem(a, b) ==
    IF Len(b) = 1 THEN bigRem1(a, b[1])
    ELSE IF Len(a) < Len(b) THEN bigRemSizeLess(a, b)
    ELSE Signed(Divided(a, b).rest, IsNegative(a))

bigDivRem(a, b) == [quotient |-> bigDiv(a, b), remainder |-> bigRem(a, b)]

\* A negative quotient that is not exact is rounded down.
RoundedDown(divided, negative) ==
    Signed(IF negative /\ uBigIsNot0(divided.rest) THEN uBigIncr(divided.quotient)
           ELSE divided.quotient, negative)

bigMDiv1(a, digit) ==
    IF digit = 0 THEN NUMERIC_ERROR ELSE RoundedDown(Divided1(a, digit), Differ(a, <<digit>>))

bigMDivSizeLess(a, b) == IF a = Zero \/ ~Differ(a, b) THEN Zero ELSE MinusOne

bigMDiv(a, b) ==
    IF Len(b) = 1 THEN bigMDiv1(a, b[1])
    ELSE IF Len(a) < Len(b) THEN bigMDivSizeLess(a, b)
    ELSE RoundedDown(Divided(a, b), Differ(a, b))

bigAddTo(a, b) == Digits(Len(a), LAMBDA i : a[i] + Digit(b, i), 0)

bigMod1(a, digit) ==
    LET rest == bigRem1(a, digit)
    IN  IF digit # 0 /\ Differ(a, <<digit>>) /\ rest # Zero
        THEN <<(rest[1] + digit) % Base>> ELSE rest

bigModSizeLess(a, b) ==
    IF a = Zero \/ ~Differ(a, b) THEN a ELSE normalize(bigAddTo(b, a))

\* The rest gets the sign of the divisor.
ModuloOf(rest, a, b) ==
    LET negated == negate_positive_big(rest)
    IN  IF ~uBigIsNot0(rest) THEN rest
        ELSE IF ~IsNegative(a) THEN IF IsNegative(b) THEN bigAddTo(rest, b) ELSE rest
        ELSE IF IsNegative(b) THEN negated ELSE bigAddTo(negated, b)

bigMod(a, b) ==
    IF Len(b) = 1 THEN bigMod1(a, b[1])
    ELSE IF Len(a) < Len(b) THEN bigModSizeLess(a, b)
    ELSE normalize(ModuloOf(Divided(a, b).rest, a, b))

---------------------------------------------------------------------------
(* Comparison and bits.                                                     *)

\* -1, 0 or 1: the signs, then the sizes, then the highest different digit.
bigCmp(a, b) ==
    LET different == {i \in 1 .. Len(a) : a[i] # Digit(b, i)}
        less == IF Differ(a, b) THEN IsNegative(a)
                ELSE IF Len(a) # Len(b) THEN (Len(a) < Len(b)) # IsNegative(a)
                ELSE a[Max(different)] < b[Max(different)]
    IN  IF ~Differ(a, b) /\ Len(a) = Len(b) /\ different = {} THEN 0
        ELSE IF less THEN -1 ELSE 1

bigCmpSignedDigit(b, digit) ==
    IF Differ(b, <<digit>>) \/ Len(b) # 1 THEN IF IsNegative(b) THEN -1 ELSE 1
    ELSE IF b[1] < digit THEN -1 ELSE IF b[1] > digit THEN 1 ELSE 0

Bitwise2(a, b, Op(_, _)) ==
    normalize([i \in 1 .. Max({Len(a), Len(b)}) |-> Op(Digit(a, i), Digit(b, i))])

bigAnd(a, b) == Bitwise2(a, b, LAMBDA c, d : c & d)
bigOr(a, b) == Bitwise2(a, b, LAMBDA c, d : c | d)
bigXor(a, b) == Bitwise2(a, b, LAMBDA c, d : c ^^ d)

bigBitLength(b) ==
    (Len(b) - 1) * BIGDIGIT_SIZE + 1
        + MostSignificantBit(IF IsNegative(b) THEN Inverted(Last(b)) ELSE Last(b))

bigLog2(b) ==
    LET bit == MostSignificantBit(Last(b))
        logarithm == Digits(Len(b) + 1, LAMBDA i : IF i = 1 THEN (Len(b) - 1) * BIGDIGIT_SIZE ELSE 0, 0)
    IN  IF IsNegative(b) THEN NUMERIC_ERROR
        ELSE normalize(IF bit = -1 THEN uBigDecr(logarithm)
                       ELSE Digits(Len(logarithm), LAMBDA i : IF i = 1 THEN logarithm[1] + bit
                                                              ELSE logarithm[i], 0))

LeastSignificantBit(digit) == Min({n \in 0 .. BIGDIGIT_SIZE - 1 : (digit \div 2 ^ n) % 2 = 1})

bigLowestSetBit(b) ==
    LET n == Min({i \in 1 .. Len(b) : b[i] # 0})
    IN  IF b = Zero THEN -1 ELSE (n - 1) * BIGDIGIT_SIZE + LeastSignificantBit(b[n])

\* The result is not negative: a sign digit is added when the highest bit is set.
bigLowerBits(b, bits) ==
    LET pos == (bits - 1) \div BIGDIGIT_SIZE
        digit_mask == 2 ^ (((bits - 1) % BIGDIGIT_SIZE) + 1)
        lower == Append([i \in 1 .. pos |-> Digit(b, i)], Digit(b, pos + 1) % digit_mask)
    IN  IF bits < 0 THEN NUMERIC_ERROR
        ELSE IF bits = 0 THEN Zero
        ELSE IF pos >= Len(b) /\ ~IsNegative(b) THEN b
        ELSE normalize(IF IsNegative(lower) THEN Append(lower, 0) ELSE lower)

---------------------------------------------------------------------------
(* Shifts.  The size of the result is computed before the digits are moved. *)

HighBits(n) == Base - 2 ^ n           \* all bits from bit n upward
WholeDigits(n) == n \div BIGDIGIT_SIZE
Part(n) == n % BIGDIGIT_SIZE

LShifted(b, n) ==
    LET unused == BIGDIGIT_SIZE - Part(n) - 1
        fits == IF IsNegative(b) THEN Last(b) >= HighBits(unused) ELSE Last(b) < 2 ^ unused
    IN  Zeros(WholeDigits(n)) \o Digits(IF fits THEN Len(b) ELSE Len(b) + 1,
                                  LAMBDA i : Digit(b, i) * 2 ^ Part(n), 0)

RShiftDigits(b, n) ==
    LET d == At(b, WholeDigits(n) + 1)
        Low(i) == Digit(d, i) \div 2 ^ Part(n)
        High(i) == (Digit(d, i + 1) * 2 ^ (BIGDIGIT_SIZE - Part(n))) % Base
    IN  [i \in 1 .. Len(d) |-> Low(i) + High(i)]

RShifted(b, n) ==
    LET superfluous == IF IsNegative(b) THEN Last(b) >= HighBits(Part(n) - 1)
                       ELSE Last(b) < 2 ^ (Part(n) - 1)
        Fitted(r) == IF Part(n) # 0 /\ Len(r) > 1 /\ superfluous THEN Front(r) ELSE r
    IN  IF Len(b) <= WholeDigits(n) THEN <<Sign(b)>> ELSE Fitted(RShiftDigits(b, n))

RShiftedInPlace(b, n) ==
    LET Fitted(r) == IF Part(n) = 0 THEN r
                     ELSE IF WholeDigits(n) = 0 THEN normalize(r)
                     ELSE IF Superfluous(r) THEN Front(r) ELSE r
    IN  IF Len(b) <= WholeDigits(n) THEN <<Sign(b)>> ELSE Fitted(RShiftDigits(b, n))

bigLShift(b, n) == IF n < 0 THEN RShifted(b, -n) ELSE IF b = Zero THEN Zero ELSE LShifted(b, n)
bigRShift(b, n) == IF n < 0 THEN bigLShift(b, -n) ELSE RShifted(b, n)

bigLShiftAssign(b, n) ==
    IF n < 0 THEN RShiftedInPlace(b, -n) ELSE IF n = 0 \/ b = Zero THEN b ELSE LShifted(b, n)
bigRShiftAssign(b, n) == IF n < 0 THEN bigLShiftAssign(b, -n) ELSE RShiftedInPlace(b, n)

bigLShiftOne(n) ==
    LET one == Append(Zeros(WholeDigits(n)), 2 ^ Part(n))
    IN  IF n < 0 THEN Zero ELSE IF Part(n) = BIGDIGIT_SIZE - 1 THEN Append(one, 0) ELSE one

bigLog2BaseIPow(log2base, exponent) ==
    IF log2base < 0 \/ exponent < 0 THEN NUMERIC_ERROR ELSE bigLShiftOne(log2base * exponent)

---------------------------------------------------------------------------
(* Power and greatest common divisor.                                       *)

\* For the bits of the exponent the base is squared and multiplied.
RECURSIVE Power(_, _, _)
Power(square, power, exponent) ==
    LET WithNext(next) ==
            Power(next, IF exponent % 2 = 1 THEN uBigMultK(power, next, FALSE) ELSE power,
                  exponent \div 2)
    IN  IF exponent = 0 THEN power ELSE WithNext(uBigSquareK(square))

bigIPowN(base, exponent) ==
    Power(base, IF exponent % 2 = 1 THEN base ELSE <<1>>, exponent \div 2)

bigIPow1(digit, exponent) ==
    LET negative == IsNegative(<<digit>>) /\ exponent % 2 = 1
        bit == MostSignificantBit(AbsDigit(digit))
    IN  IF digit = 0 THEN Zero
        ELSE Signed(IF AbsDigit(digit) = 2 ^ bit THEN bigLog2BaseIPow(bit, exponent)
                    ELSE bigIPowN(<<AbsDigit(digit)>>, exponent), negative)

bigIPow(b, exponent) ==
    IF exponent < 0 THEN NUMERIC_ERROR
    ELSE IF exponent = 0 THEN <<1>>
    ELSE IF exponent = 1 THEN b
    ELSE IF Len(b) = 1 THEN bigIPow1(b[1], exponent)
    ELSE Signed(bigIPowN(bigAbs(b), exponent), IsNegative(b) /\ exponent % 2 = 1)

RECURSIVE Euclid(_, _)
Euclid(a, b) == IF a = Zero THEN b ELSE Euclid(bigRem(b, a), a)

\* The smaller number is subtracted from the larger one, which gets odd first.
RECURSIVE BinaryGcd(_, _)
BinaryGcd(a, even) ==
    LET WithOdd(b) == IF bigCmp(a, b) < 0 THEN BinaryGcd(a, bigSbtrAssign(b, a))
                      ELSE BinaryGcd(b, bigSbtr(a, b))
    IN  IF even = Zero THEN a ELSE WithOdd(bigRShiftAssign(even, bigLowestSetBit(even)))

bigGcd(b1, b2) ==
    LET a == bigAbs(b1)
        b == bigAbs(b2)
        shift == Min({bigLowestSetBit(a), bigLowestSetBit(b)})
    IN  IF b1 = Zero THEN b
        ELSE IF b2 = Zero THEN a
        ELSE IF Len(a) - Len(b) \notin -EUCLID_DIFFERENCE .. EUCLID_DIFFERENCE THEN Euclid(a, b)
        ELSE bigLShiftAssign(BinaryGcd(bigRShiftAssign(a, bigLowestSetBit(a)), b), shift)
=============================================================================
