------------------------------ MODULE BigText ------------------------------
(* The conversions between the big integers of big_rtl.c and texts.  A text  *)
(* is a sequence of digit values, the highest first, after an optional sign. *)
EXTENDS BigInteger

LOCAL INSTANCE SequencesExt
LOCAL INSTANCE FiniteSetsExt

CONSTANT BASIC_EXPONENT               \* texts up to 2 ^ BASIC_EXPONENT digits are not split (8)

RANGE_ERROR == <<>>
MINUS == -1

---------------------------------------------------------------------------
(* Texts with a base that is not a power of two.  The digits are handled in *)
(* blocks that fit into one digit of the number.                            *)

radixDigitsInBigdigit(base) == Max({n \in 1 .. BIGDIGIT_SIZE : base ^ n <= Mask})
powerOfRadixInBigdigit(base) == base ^ radixDigitsInBigdigit(base)

TextDigits(text) == IF text # <<>> /\ text[1] = MINUS THEN Tail(text) ELSE text
IsNegativeText(text) == text # <<>> /\ text[1] = MINUS
IsText(text, base) ==
    /\ TextDigits(text) # <<>>
    /\ \A i \in DOMAIN TextDigits(text) : TextDigits(text)[i] \in 0 .. base - 1

uBigMultiplyAndAdd(b, factor, c) ==
    LET Term(i) == b[i] * factor
        high == Carry(Len(b), Term, c)
    IN  IF high = 0 THEN Digits(Len(b), Term, c) ELSE Append(Digits(Len(b), Term, c), high)

BlockValue(digits, base) ==
    LET value[i \in 0 .. Len(digits)] == IF i = 0 THEN 0 ELSE base * value[i - 1] + digits[i]
    IN  value[Len(digits)]

bigParseBased2To36(text, base) ==
    LET digits == TextDigits(text)
        block == radixDigitsInBigdigit(base)
        first == ((Len(digits) - 1) % block) + 1
        End(n) == first + n * block
        parsed[n \in 0 .. (Len(digits) - first) \div block] ==
            IF n = 0 THEN uBigMultiplyAndAdd(Zero, powerOfRadixInBigdigit(base),
                                             BlockValue(SubSeq(digits, 1, first), base))
            ELSE uBigMultiplyAndAdd(parsed[n - 1], powerOfRadixInBigdigit(base),
                                    BlockValue(SubSeq(digits, End(n - 1) + 1, End(n)), base))
        result_size == (Len(text) * (MostSignificantBit(base - 1) + 1)) \div BIGDIGIT_SIZE + 1
    IN  IF ~IsText(text, base) THEN RANGE_ERROR
        ELSE Signed(Extended(parsed[(Len(digits) - first) \div block], result_size),
                    IsNegativeText(text))

\* The lowest n digits of a value.
FixedDigits(value, base, n) == [i \in 1 .. n |-> (value \div base ^ (n - i)) % base]
ShortDigits(value, base) ==
    FixedDigits(value, base, Min({n \in 1 .. BIGDIGIT_SIZE : value < base ^ n}))

RECURSIVE basicRadix2To36(_, _)
basicRadix2To36(b, base) ==
    LET divided == uBigDivRem1(b, powerOfRadixInBigdigit(base))
        quotient == IF Last(divided.quotient) = 0 THEN Front(divided.quotient)
                    ELSE divided.quotient
    IN  IF Len(quotient) > 1 \/ divided.quotient[1] # 0
        THEN basicRadix2To36(quotient, base)
                 \o FixedDigits(divided.rest, base, radixDigitsInBigdigit(base))
        ELSE ShortDigits(divided.rest, base)

RECURSIVE getConversionDivisor(_, _)
getConversionDivisor(base, exponent) ==
    IF exponent = 0 THEN normalize(<<base, 0>>)
    ELSE bigSquare(getConversionDivisor(base, exponent - 1))

\* A long number is divided by base ^ (2 ^ (exponent - 1)); the halves are
\* converted in the same way, the lower one with all its zeros.
RECURSIVE binaryRadix2To36(_, _, _, _)
binaryRadix2To36(b, base, exponent, zeroPad) ==
    LET Padded(text) == IF zeroPad THEN Zeros(2 ^ exponent - Len(text)) \o text ELSE text
        Halves(divided) ==
            IF zeroPad \/ divided.quotient # Zero
            THEN binaryRadix2To36(divided.quotient, base, exponent - 1, zeroPad)
                     \o binaryRadix2To36(divided.remainder, base, exponent - 1, TRUE)
            ELSE binaryRadix2To36(divided.remainder, base, exponent - 1, FALSE)
    IN  IF exponent <= BASIC_EXPONENT THEN Padded(basicRadix2To36(b, base))
        ELSE Halves(bigDivRem(b, getConversionDivisor(base, exponent - 1)))

Floor2(n) == Max({i \in 0 .. n : 2 ^ i <= n})
Prefix(b) == IF IsNegative(b) THEN <<MINUS>> ELSE <<>>

bigRadix2To36(b, base) ==
    LET result_size == (Len(b) * BIGDIGIT_SIZE - 1) \div Floor2(base) + Len(Prefix(b)) + 1
    IN  Prefix(b) \o binaryRadix2To36(Absolute(b), base, Floor2(result_size) + 1, FALSE)

---------------------------------------------------------------------------
(* Texts with a base of 2 ^ shift take the bits as they are.                *)

Bit(value, n) == (value \div 2 ^ n) % 2
FromBits(n, IsSet(_)) == MapThenSumSet(LAMBDA k : 2 ^ k * IsSet(k), 0 .. n - 1)

bigParseBasedPow2(text, shift) ==
    LET digits == TextDigits(text)
        bits_necessary == Len(digits) * shift
        highest == bits_necessary % BIGDIGIT_SIZE = 0 /\ Bit(digits[1], shift - 1) = 1
        result_size == (bits_necessary - 1) \div BIGDIGIT_SIZE + (IF highest THEN 2 ELSE 1)
        TextBit(n) == IF n >= bits_necessary THEN 0
                      ELSE Bit(digits[Len(digits) - n \div shift], n % shift)
    IN  IF ~IsText(text, 2 ^ shift) THEN RANGE_ERROR
        ELSE Signed([i \in 1 .. result_size |->
                        FromBits(BIGDIGIT_SIZE, LAMBDA k : TextBit((i - 1) * BIGDIGIT_SIZE + k))],
                    IsNegativeText(text))

\* The number of digits: all bits divided by the bits of a digit, reduced by
\* the digits that would be zero.
RadixSize(unsigned, shift) ==
    LET size == Max({n \in 1 .. Len(unsigned) : unsigned[n] # 0})
        most_significant == MostSignificantBit(unsigned[size])
        digit_shift == BIGDIGIT_SIZE - ((size * BIGDIGIT_SIZE) % shift)
        all == (size * BIGDIGIT_SIZE - 1) \div shift + 1
    IN  IF ~uBigIsNot0(unsigned) THEN 1
        ELSE IF most_significant >= digit_shift THEN all
        ELSE all - (digit_shift - most_significant - 1) \div shift
                 - (IF digit_shift # BIGDIGIT_SIZE THEN 1 ELSE 0)

bigRadixPow2(b, shift) ==
    LET unsigned == Absolute(b)
        size == RadixSize(unsigned, shift)
        NumberBit(n) == Bit(UDigit(unsigned, n \div BIGDIGIT_SIZE + 1), n % BIGDIGIT_SIZE)
    IN  Prefix(b) \o [i \in 1 .. size |->
                         FromBits(shift, LAMBDA k : NumberBit((size - i) * shift + k))]

IsPow2(base) == base = 2 ^ Floor2(base)

bigRadix(b, base) ==
    IF IsPow2(base) THEN bigRadixPow2(b, Floor2(base)) ELSE bigRadix2To36(b, base)
bigParseBased(text, base) ==
    IF IsPow2(base) THEN bigParseBasedPow2(text, Floor2(base))
    ELSE bigParseBased2To36(text, base)
=============================================================================
