----------------------------- MODULE BigNumbers -----------------------------
(* Two big integer variables that the procedures of big_rtl.c change, beside *)
(* the integers that they stand for.  In every state the functions of        *)
(* big_rtl.c are compared with the arithmetic of the integers.               *)
EXTENDS BigText

LOCAL INSTANCE SequencesExt
LOCAL INSTANCE FiniteSetsExt

CONSTANTS Values,                     \* bound: the integers that the variables stand for
          MaxFactor,                  \* bound: one of two values is not larger
          MaxPower,                   \* bound: numbers that are squared or shifted to the left
          Shifts,                     \* bound: the shifts
          Radices                     \* bases of texts

VARIABLES big,                        \* the variables, no variables before the start
          num                         \* history: the integers that they stand for

bigVars == <<big, num>>

---------------------------------------------------------------------------
\* The digits of an integer; they cover all its bits.
bigFromInt64(n) ==
    LET Size(k) == n >= -(2 ^ (BIGDIGIT_SIZE * k - 1)) /\ n < 2 ^ (BIGDIGIT_SIZE * k - 1)
        size == Min({k \in 1 .. 30 \div BIGDIGIT_SIZE : Size(k)})
    IN  [i \in 1 .. size |-> (n \div Base ^ (i - 1)) % Base]

\* The highest digit is signed.
bigToInt64(b) ==
    LET value[i \in 1 .. Len(b)] ==
            IF i = Len(b) THEN IF IsNegative(b) THEN b[i] - Base ELSE b[i]
            ELSE value[i + 1] * Base + b[i]
    IN  value[1]

Within(n, limit) == n \in -limit .. limit
Bounded(values) == \E i \in {1, 2} : Within(values[i], MaxFactor)

BigInit ==
    /\ num = [i \in {1, 2} |-> 0]
    /\ big = [i \in {1, 2} |-> Zero]

Set(i, b, n) ==
    /\ n \in Values /\ Bounded([num EXCEPT ![i] = n])
    /\ big' = [big EXCEPT ![i] = b]
    /\ num' = [num EXCEPT ![i] = n]

Assign(i, n) == Set(i, bigFromInt64(n), n)
Incr(i) == Set(i, bigIncr(big[i]), num[i] + 1)
Decr(i) == Set(i, bigDecr(big[i]), num[i] - 1)
AddAssign(i, j) == Set(i, bigAddAssign(big[i], big[j]), num[i] + num[j])
SbtrAssign(i, j) == Set(i, bigSbtrAssign(big[i], big[j]), num[i] - num[j])
MultAssign(i, j) ==
    /\ Within(num[j], Base)
    /\ Set(i, bigMultAssign(big[i], big[j]), num[i] * num[j])
AddDigit(i, d) == Set(i, bigAddAssignSignedDigit(big[i], d % Base), num[i] + d)
LShiftAssign(i, n) ==
    /\ n > 0 => Within(num[i], MaxPower)
    /\ Set(i, bigLShiftAssign(big[i], n), IF n < 0 THEN num[i] \div 2 ^ (-n) ELSE num[i] * 2 ^ n)
RShiftAssign(i, n) ==
    /\ n < 0 => Within(num[i], MaxPower)
    /\ Set(i, bigRShiftAssign(big[i], n), IF n < 0 THEN num[i] * 2 ^ (-n) ELSE num[i] \div 2 ^ n)

SignedDigits == -(Base \div 2) .. Base \div 2 - 1

BigNext ==
    \E i \in DOMAIN big :
        \/ \E n \in Values : Assign(i, n)
        \/ Incr(i)
        \/ Decr(i)
        \/ \E j \in DOMAIN big : AddAssign(i, j) \/ SbtrAssign(i, j) \/ MultAssign(i, j)
        \/ \E d \in SignedDigits : AddDigit(i, d)
        \/ \E n \in Shifts : LShiftAssign(i, n) \/ RShiftAssign(i, n)

BigSpec == BigInit /\ [][BigNext]_bigVars

---------------------------------------------------------------------------
(* Properties.                                                              *)

Canonical(b) == /\ b # <<>> /\ \A i \in DOMAIN b : b[i] \in 0 .. Mask
                /\ b = normalize(b)
IsNumber(b, n) == Canonical(b) /\ bigToInt64(b) = n

\* The variables are interchangeable: the second one has in another state what
\* the first one has here.
HasNumbers == big # <<>>

\* Whatever procedures have changed the variables in place, a variable holds
\* the shortest sequence of digits of its integer.  Comparisons and hash codes
\* depend on the shortest form (bigCmp, bigEq and bigHashCode compare sizes).
InPlaceIsExact == \A i \in DOMAIN big : IsNumber(big[i], num[i])

\* Addition, subtraction, negation, comparison and the multiplications, with
\* Karatsuba and without, agree with the integers.
SumsAgree(a, b, m, n) ==
    /\ IsNumber(bigAdd(a, b), m + n)
    /\ IsNumber(bigSbtr(a, b), m - n)
    /\ IsNumber(bigNegate(a), -m)
    /\ IsNumber(bigAbs(a), IF m < 0 THEN -m ELSE m)
    /\ bigCmp(a, b) = (IF m < n THEN -1 ELSE IF m = n THEN 0 ELSE 1)
    /\ Len(b) = 1 => bigCmpSignedDigit(a, b[1]) = bigCmp(a, b)

ProductsAgree(a, b, m, n) ==
    /\ IsNumber(bigMult(a, b), m * n)
    /\ Within(m, MaxPower) => IsNumber(bigSquare(a), m * m)
    /\ Len(b) = 1 => IsNumber(bigMultSignedDigit(a, b[1]), m * n)
    /\ Within(m, 15) => \A e \in 1 .. 4 : IsNumber(bigIPow(a, e), m ^ e)

\* bigDiv truncates to zero and bigMDiv to negative infinity, for all signs and
\* sizes; the remainder is smaller than the divisor, has the sign of the
\* dividend (bigRem) or of the divisor (bigMod) and is what the quotient leaves.
ResultsAgree(div, rem, mdiv, mod, m, n) ==
    LET floor == IF n > 0 THEN m \div n ELSE (-m) \div (-n)
        towardsZero == IF floor < 0 /\ floor * n # m THEN floor + 1 ELSE floor
    IN  IF n = 0 THEN {div, rem, mdiv, mod} = {NUMERIC_ERROR}
        ELSE /\ IsNumber(div, towardsZero)
             /\ IsNumber(rem, m - towardsZero * n)
             /\ IsNumber(mdiv, floor)
             /\ IsNumber(mod, m - floor * n)

QuotientsAgree(a, b, m, n) ==
    ResultsAgree(bigDiv(a, b), bigRem(a, b), bigMDiv(a, b), bigMod(a, b), m, n)

GcdIs(gcd, m, n) ==
    LET Abs(x) == IF x < 0 THEN -x ELSE x
        euclid[x \in Nat, y \in Nat] == IF y = 0 THEN x ELSE euclid[y, x % y]
    IN  IsNumber(gcd, euclid[Abs(m), Abs(n)])

BitsOfOne(a, m) ==
    LET one == bigLShiftOne(bigLowestSetBit(a))
    IN  /\ \A n \in Shifts :
              /\ n >= 0 => /\ IsNumber(bigRShift(a, n), m \div 2 ^ n)
                           /\ IsNumber(bigLowerBits(a, n), m % 2 ^ n)
                           /\ IsNumber(bigLShiftOne(n), 2 ^ n)
              /\ n >= 0 /\ Within(m, MaxPower) => IsNumber(bigLShift(a, n), m * 2 ^ n)
              /\ n < 0 => bigLShift(a, n) = bigRShift(a, -n)
        /\ m > 0 => bigBitLength(a) = bigToInt64(bigLog2(a)) + 1
        /\ m # 0 => /\ bigMod(a, one) = Zero
                    /\ bigMod(a, bigLShift(one, 1)) = one
                    /\ Within(m, 2 ^ bigBitLength(a)) /\ m # 2 ^ bigBitLength(a)

BitsOfTwo(a, b, m, n) ==
    /\ \A k \in 0 .. 3 * BIGDIGIT_SIZE : Bit(bigToInt64(bigAnd(a, b)), k) = Bit(m, k) * Bit(n, k)
    /\ bigAdd(bigAnd(a, b), bigOr(a, b)) = bigAdd(a, b)
    /\ bigSbtr(bigOr(a, b), bigAnd(a, b)) = bigXor(a, b)

LawsHold(a, b, m, n) ==
    /\ SumsAgree(a, b, m, n) /\ ProductsAgree(a, b, m, n)
    /\ QuotientsAgree(a, b, m, n) /\ GcdIs(bigGcd(a, b), m, n)
    /\ BitsOfOne(a, m) /\ BitsOfTwo(a, b, m, n)

Reads(text, b, n, base) ==
    LET value[i \in 0 .. Len(TextDigits(text))] ==
            IF i = 0 THEN 0 ELSE value[i - 1] * base + TextDigits(text)[i]
    IN  /\ IsText(text, base) /\ bigParseBased(text, base) = b
        /\ value[Len(TextDigits(text))] = (IF n < 0 THEN -n ELSE n)
        /\ IsNegativeText(text) = (n < 0)
        /\ TextDigits(text)[1] = 0 => n = 0

Readable(b, n, base) == Reads(bigRadix(b, base), b, n, base)

LowestOfSize(b) == Last(b) = Base \div 2 /\ \A i \in 1 .. Len(b) - 1 : b[i] = 0

TextsAreRead(b, n) == \A base \in Radices : Readable(b, n, base)

\* The arithmetic of big integers is exact for all combinations of signs and
\* sizes: carries, halves of different sizes and negated factors meet at every
\* size; divisions estimate digits of the quotient and correct them, and round to
\* zero or to negative infinity; the greatest common divisor is computed with
\* remainders or with shifts and differences; shifts to the right round down, and
\* the bit functions find the bits; what is changed in place is exact.  The text
\* of a number has the digits of its value, no leading zero and its sign, and is
\* read as the same number, except for the lowest number of a size.
ArithmeticExact ==
    HasNumbers => /\ InPlaceIsExact
                  /\ LawsHold(big[1], big[2], num[1], num[2])
                  /\ ~LowestOfSize(big[1]) => TextsAreRead(big[1], num[1])

\* The comment before bigRadix2To36: convert a big integer number to a string
\* using a radix.  The same for all numbers.  The absolute value of the lowest
\* number of a size looks negative to the division of long numbers.
AllTextsAreRead == HasNumbers => TextsAreRead(big[1], num[1])
=============================================================================
