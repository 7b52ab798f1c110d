----------------------------- MODULE HehBigNum ------------------------------
(***************************************************************************)
(* The integers of bignum.rs: a machine word as long as the value fits one *)
(* (Small), a sign and little-endian limbs when it does not (Large).  The  *)
(* code's limbs have 32 bits and its word two limbs; here a limb has BITS. *)
(* A loop over limbs is a fold of its body, a named operator.              *)
(***************************************************************************)
EXTENDS Integers, Sequences, SequencesExt

CONSTANTS BITS,   \* bits of a limb
          BASE,   \* 2^BITS
          RADIX,  \* radix of the numerals read and written
          CHUNK   \* a power of RADIX that fits a limb (1e9 in the code)

\* i to the power of e.
PowInt(i, e) ==
    LET pow[k \in Nat] == IF k = 0 THEN 1 ELSE i * pow[k - 1] IN pow[e]

ASSUME BaseAssumption == BITS \in Nat \ {0} /\ BASE = PowInt(2, BITS)
ASSUME RadixAssumption ==
    /\ RADIX \in 2..(BASE - 1) /\ CHUNK \in Nat
    /\ CHUNK < BASE /\ \E k \in 1..BITS : CHUNK = PowInt(RADIX, k)

Limb == 0..(BASE - 1)
HALF == (BASE * BASE) \div 2       \* 2^63
Word == (-HALF)..(HALF - 1)        \* i64

Zero == [sign |-> FALSE, limbs |-> <<>>]
IsZero(b) == b.limbs = <<>>

\* A number that is not negative: no leading zero limb.
Unsigned ==
    {b \in [sign : {FALSE}, limbs : Seq(Limb)] : IsZero(b) \/ Last(b.limbs) # 0}

Magnitude(b) == [b EXCEPT !.sign = FALSE]

\* The i-th limb, 0 beyond the last.
At(b, i) == IF i \in DOMAIN b.limbs THEN b.limbs[i] ELSE 0

\* while limbs.last() == Some(&0) { limbs.pop(); }
Trim(s) ==
    [i \in 1..SelectLastInSeq(s, LAMBDA d : d # 0) |-> s[i]]

\* Big::from_u64: the remainders of division by BASE.
FromU64(m) ==
    LET peel[k \in Nat] == IF k = 0 THEN <<>> ELSE <<k % BASE>> \o peel[k \div BASE]
    IN  [sign |-> FALSE, limbs |-> peel[m]]

FromI64(k) == [FromU64(IF k < 0 THEN -k ELSE k) EXCEPT !.sign = k < 0]

\* The body of a loop that adds limbs: sum modulo the base, carry the rest.
CarryLimb(st, total) ==
    [limbs |-> Append(st.limbs, total % BASE), carry |-> total \div BASE]

\* if carry > 0 { limbs.push(carry) }
Carried(st) == IF st.carry > 0 THEN Append(st.limbs, st.carry) ELSE st.limbs

NoCarry == [limbs |-> <<>>, carry |-> 0]

MulU32(b, v) ==
    IF v = 0 \/ IsZero(b) THEN Zero
    ELSE [b EXCEPT !.limbs =
            Carried(FoldLeft(LAMBDA st, d : CarryLimb(st, d * v + st.carry), NoCarry, @))]

AddU32(b, v) ==
    [b EXCEPT !.limbs =
        Carried(FoldLeft(LAMBDA st, d : CarryLimb(st, d + st.carry),
                         [NoCarry EXCEPT !.carry = v], @))]

-----------------------------------------------------------------------------
\* Order of magnitudes and of signed values: -1, 0 or 1.

CmpInt(i, j) == IF i < j THEN -1 ELSE IF i > j THEN 1 ELSE 0

\* The longer is the larger; else the highest limb that differs decides.
CmpLimb(a, b, i) == IF i = 0 THEN 0 ELSE CmpInt(a.limbs[i], b.limbs[i])

CmpAbs(a, b) ==
    IF Len(a.limbs) # Len(b.limbs) THEN CmpInt(Len(a.limbs), Len(b.limbs))
    ELSE CmpLimb(a, b, SelectLastInSeq(Zip(a.limbs, b.limbs), LAMBDA p : p[1] # p[2]))

\* A bug: of two negative numbers the one of larger magnitude is the larger.
CmpIgnoringSign(a, b) ==
    IF a.sign # b.sign THEN IF b.sign THEN 1 ELSE -1 ELSE CmpAbs(a, b)

CmpBig(a, b) ==
    IF IsZero(a) /\ IsZero(b) THEN 0
    ELSE IF a.sign # b.sign THEN IF b.sign THEN 1 ELSE -1
    ELSE IF a.sign THEN CmpAbs(b, a) ELSE CmpAbs(a, b)

EqBig(a, b) == (IsZero(a) /\ IsZero(b)) \/ a = b

-----------------------------------------------------------------------------
\* Addition, subtraction and multiplication.

Places(a) == [i \in 1..Len(a.limbs) |-> i]

AddAbs(a, b) ==
    LET longer == IF Len(a.limbs) >= Len(b.limbs) THEN a ELSE b
    IN  Carried(FoldLeft(LAMBDA st, i : CarryLimb(st, At(a, i) + At(b, i) + st.carry),
                         NoCarry, Places(longer)))

\* A bug: a limb that borrows is pushed as it is.
NegativeLimb(st, diff) ==
    [limbs |-> Append(st.limbs, diff), carry |-> IF diff < 0 THEN 1 ELSE 0]

\* The body of the loop of sub_abs: borrow a base when the limb goes below 0.
BorrowLimb(st, diff) ==
    IF diff < 0 THEN [limbs |-> Append(st.limbs, diff + BASE), carry |-> 1]
    ELSE [limbs |-> Append(st.limbs, diff), carry |-> 0]

\* "Assume self >= other": the last borrow is dropped.
SubAbs(a, b) ==
    Trim(FoldLeft(LAMBDA st, i : BorrowLimb(st, At(a, i) - At(b, i) - st.carry),
                  NoCarry, Places(a)).limbs)

\* The sum of two numbers of opposite signs: the smaller magnitude is taken from
\* the larger, which gives its sign (order compares the magnitudes).
Difference(a, b, signA, signB, order) ==
    CASE order = 0 -> Zero
      [] order > 0 -> [sign |-> signA, limbs |-> SubAbs(a, b)]
      [] order < 0 -> [sign |-> signB, limbs |-> SubAbs(b, a)]

AddBig(a, b) ==
    IF a.sign = b.sign THEN [a EXCEPT !.limbs = AddAbs(a, b)]
    ELSE Difference(a, b, a.sign, b.sign, CmpAbs(a, b))

SubBig(a, b) ==
    IF a.sign # b.sign THEN [a EXCEPT !.limbs = AddAbs(a, b)]
    ELSE Difference(a, b, a.sign, ~a.sign, CmpAbs(a, b))

\* The inner loop of Mul adds the i-th limb of a times b at place i of limbs.
MulLimb(st, i, j, total) ==
    [limbs |-> [st.limbs EXCEPT ![i + j - 1] = total % BASE], carry |-> total \div BASE]

LastCarry(st, place) == [st.limbs EXCEPT ![place] = st.carry]

MulRow(limbs, a, b, i) ==
    LastCarry(FoldLeft(LAMBDA st, j : MulLimb(st, i, j,
                           a.limbs[i] * b.limbs[j] + st.limbs[i + j - 1] + st.carry),
                       [limbs |-> limbs, carry |-> 0], Places(b)),
              i + Len(b.limbs))

MulBig(a, b) ==
    IF IsZero(a) \/ IsZero(b) THEN Zero
    ELSE [sign  |-> a.sign # b.sign,
          limbs |-> Trim(FoldLeft(LAMBDA limbs, i : MulRow(limbs, a, b, i),
                                  [i \in 1..(Len(a.limbs) + Len(b.limbs)) |-> 0],
                                  Places(a)))]

-----------------------------------------------------------------------------
\* Division.

LongDivision(a, div) ==
    FoldRight(LAMBDA d, st : LET cur == st.carry * BASE + d
                             IN  [limbs |-> <<cur \div div>> \o st.limbs, carry |-> cur % div],
              a.limbs, NoCarry)

DivModU32(a, div) ==
    LET Result(st) == [q |-> [a EXCEPT !.limbs = Trim(st.limbs)], r |-> st.carry]
    IN  Result(LongDivision(a, div))

\* Bits without the leading zeros of the last limb.
BitLen(a) ==
    IF IsZero(a) THEN 0
    ELSE (Len(a.limbs) - 1) * BITS
         + CHOOSE k \in 1..BITS : /\ PowInt(2, k - 1) <= Last(a.limbs)
                               /\ Last(a.limbs) < PowInt(2, k)

Shl(a, shift) ==
    IF IsZero(a) THEN a
    ELSE LET up == PowInt(2, shift % BITS)
         IN  [a EXCEPT !.limbs = [i \in 1..(shift \div BITS) |-> 0] \o
                Carried(FoldLeft(LAMBDA st, d : CarryLimb(st, d * up + st.carry), NoCarry, @))]

\* Down from the highest limb, whose lowest bit becomes the next one's highest.
Shr1(a) ==
    LET down == FoldRight(LAMBDA d, st : [limbs |-> <<d \div 2 + st.carry>> \o st.limbs,
                                          carry |-> (d % 2) * (BASE \div 2)],
                          a.limbs, NoCarry)
    IN  [a EXCEPT !.limbs = Trim(down.limbs)]

\* Zero with one bit set.
SetBit(bit) ==
    [sign  |-> FALSE,
     limbs |-> [i \in 1..(bit \div BITS) |-> 0] \o <<PowInt(2, bit % BITS)>>]

\* One round of the shift-and-subtract loop, at the given shift.
DivRound(st, shift) ==
    LET Take(fits) ==
            [a |-> IF fits THEN SubBig(st.a, st.b) ELSE st.a,
             q |-> IF fits THEN AddBig(st.q, SetBit(shift)) ELSE st.q,
             b |-> IF shift = 0 THEN st.b ELSE Shr1(st.b)]
    IN  Take(CmpAbs(st.a, st.b) >= 0)

\* Truncating: the quotient towards zero, the remainder with the sign of a.
DivModBig(a, b) ==
    LET From(top) ==
            FoldLeft(DivRound,
                     [a |-> Magnitude(a), q |-> Zero, b |-> Shl(Magnitude(b), top)],
                     [i \in 1..(top + 1) |-> top + 1 - i])
        Signed(st) ==
            [q |-> [st.q EXCEPT !.sign = ~IsZero(st.q) /\ a.sign # b.sign],
             r |-> [st.a EXCEPT !.sign = ~IsZero(st.a) /\ a.sign]]
    IN  IF CmpAbs(a, b) < 0 THEN [q |-> Zero, r |-> a]
        ELSE Signed(From(IF BitLen(a) > BitLen(b) THEN BitLen(a) - BitLen(b) ELSE 0))

\* A bug: floor division of large numbers truncates.
DivModTruncated(a, b) == DivModBig(a, b)

DivModFloorBig(a, b) ==
    LET Floor(d) == IF IsZero(d.r) \/ a.sign = b.sign THEN d
                    ELSE [q |-> SubBig(d.q, FromU64(1)), r |-> AddBig(d.r, b)]
    IN  Floor(DivModBig(a, b))

\* Square and multiply, a round per bit of the exponent.
PowBig(a, exp) ==
    LET Round(st, e) ==
            [result |-> IF st.e.limbs[1] % 2 = 1 THEN MulBig(st.result, st.base)
                        ELSE st.result,
             base   |-> IF IsZero(e) THEN st.base ELSE MulBig(st.base, st.base),
             e      |-> e]
    IN  FoldLeft(LAMBDA st, i : Round(st, Shr1(st.e)), [result |-> FromU64(1), base |-> a, e |-> Magnitude(exp)],
                 [i \in 1..BitLen(exp) |-> i]).result

-----------------------------------------------------------------------------
\* Numerals (a sign and digits) and floats that hold an integer.

\* Each digit multiplies what was read by the radix; -0 is 0.
Parse(neg, digits) ==
    LET read == FoldLeft(LAMBDA b, d : AddU32(MulU32(b, RADIX), d), Zero, digits)
    IN  [read EXCEPT !.sign = neg /\ ~IsZero(read)]

\* The digits of m, without leading zeros (write!("{}", m)).
DigitsOf(m) ==
    LET digits[k \in Nat] ==
            IF k < RADIX THEN <<k>> ELSE digits[k \div RADIX] \o <<k % RADIX>>
    IN  digits[m]

\* A bug: every chunk is printed without its leading zeros.
Unpadded(m) == DigitsOf(m)

\* {:09}: as many digits as the largest chunk has.
Padded(m) ==
    LET width == Len(DigitsOf(CHUNK - 1))
        s     == DigitsOf(m)
    IN  [i \in 1..(width - Len(s)) |-> 0] \o s

\* Display: chunks, the lowest first, until nothing is left; only the highest
\* is printed without padding.
Show(a) ==
    LET chunks[b \in Unsigned] ==
            IF IsZero(b) THEN <<>>
            ELSE LET Chunk(d) == IF IsZero(d.q) THEN DigitsOf(d.r)
                                 ELSE chunks[d.q] \o Padded(d.r)
                 IN  Chunk(DivModU32(b, CHUNK))
    IN  IF IsZero(a) THEN [neg |-> FALSE, digits |-> <<0>>]
        ELSE [neg |-> a.sign, digits |-> chunks[Magnitude(a)]]

\* Big::from_f64_trunc of a float whose integer part is k: a limb at a time.
FromFloat(k) ==
    LET peel[st \in [mag : Nat, scale : Unsigned, out : Unsigned]] ==
            IF st.mag = 0 THEN st.out
            ELSE peel[[mag   |-> st.mag \div BASE,
                       scale |-> MulBig(st.scale, FromU64(BASE)),
                       out   |-> AddBig(st.out, MulBig(FromU64(st.mag % BASE), st.scale))]]
        out == peel[[mag |-> IF k < 0 THEN -k ELSE k, scale |-> FromU64(1), out |-> Zero]]
    IN  [out EXCEPT !.sign = k < 0 /\ ~IsZero(out)]
=============================================================================
