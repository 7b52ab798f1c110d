----------------------------- MODULE HehBigInt ------------------------------
(***************************************************************************)
(* The public integer of bignum.rs and the operators of eval_binop on it.  *)
(* A register acc holds an integer, as a variable of a Heh program does;   *)
(* each action is one operator, applied to acc and another integer.  The   *)
(* register implements the mathematical integers of HehIntegers.           *)
(***************************************************************************)
EXTENDS HehBigNum

CONSTANTS Operands,   \* the other operand of an operator
          Exponents,  \* the right operand of **
          MaxAbs      \* results larger than this are not explored

ASSUME OperandsAssumption == Operands \subseteq Int /\ Exponents \subseteq Int /\ MaxAbs \in Nat

VARIABLES acc,        \* the integer, in its representation
          fault       \* the fault that ended the program, or "none"

vars == <<acc, fault>>

Small(k) == <<"Small", k>>
Large(b) == <<"Large", b>>
IsSmall(x) == x[1] = "Small"

\* The number a representation stands for, and the one representation of a
\* number (module comment of bignum.rs).
ValueOf(x) ==
    IF IsSmall(x) THEN x[2]
    ELSE LET m == FoldRight(LAMBDA d, s : d + BASE * s, x[2].limbs, 0)
         IN  IF x[2].sign THEN -m ELSE m

Representation(k) == IF k \in Word THEN Small(k) ELSE Large(FromI64(k))

-----------------------------------------------------------------------------

\* A bug: the least word, whose magnitude no word has, stays in limbs.
FitsMagnitude(b) == Len(b.limbs) <= 2 /\ At(b, 1) + BASE * At(b, 2) < HALF

\* to_i64: at most two limbs, and a magnitude below 2^63, or at it with a sign.
Fits(b) ==
    /\ Len(b.limbs) <= 2
    /\ LET mag == At(b, 1) + BASE * At(b, 2)
       IN  mag < HALF \/ (b.sign /\ mag = HALF)

ToI64(b) ==
    LET mag == At(b, 1) + BASE * At(b, 2) IN IF b.sign THEN -mag ELSE mag

Norm(b) == IF Fits(b) THEN Small(ToI64(b)) ELSE Large(b)

Big(x) == IF IsSmall(x) THEN FromI64(x[2]) ELSE x[2]

Add(x, y) ==
    IF IsSmall(x) /\ IsSmall(y) /\ x[2] + y[2] \in Word THEN Small(x[2] + y[2])
    ELSE Norm(AddBig(Big(x), Big(y)))

Sub(x, y) ==
    IF IsSmall(x) /\ IsSmall(y) /\ x[2] - y[2] \in Word THEN Small(x[2] - y[2])
    ELSE Norm(SubBig(Big(x), Big(y)))

Mul(x, y) ==
    IF IsSmall(x) /\ IsSmall(y) /\ x[2] * y[2] \in Word THEN Small(x[2] * y[2])
    ELSE Norm(MulBig(Big(x), Big(y)))

\* checked_div_euclid and checked_rem_euclid: the remainder is never negative.
EuclidRem(i, j) == i % (IF j < 0 THEN -j ELSE j)
EuclidDiv(i, j) == IF j < 0 THEN -(i \div (-j)) ELSE i \div j

\* A bug: the Euclidean results as they are.
Euclidean(q, r, j) == [q |-> Small(q), r |-> Small(r)]

\* From the Euclidean quotient and remainder to those of floor division.
FloorAdjust(q, r, j) ==
    IF j < 0 /\ r # 0 THEN [q |-> Small(q - 1), r |-> Small(r + j)]
    ELSE [q |-> Small(q), r |-> Small(r)]

DivModFloor(x, y) ==
    IF IsSmall(x) /\ IsSmall(y) /\ EuclidDiv(x[2], y[2]) \in Word
    THEN FloorAdjust(EuclidDiv(x[2], y[2]), EuclidRem(x[2], y[2]), y[2])
    ELSE LET Both(d) == [q |-> Norm(d.q), r |-> Norm(d.r)]
         IN  Both(DivModFloorBig(Big(x), Big(y)))

\* checked_pow takes an exponent of 32 bits, a limb.
Pow(x, y) ==
    IF IsSmall(x) /\ IsSmall(y) /\ y[2] < BASE /\ PowInt(x[2], y[2]) \in Word
    THEN Small(PowInt(x[2], y[2]))
    ELSE Norm(PowBig(Big(x), Big(y)))

\* A word has no -(-2^63); a Large changes its sign only.
Negate(x) ==
    IF IsSmall(x)
    THEN IF -x[2] \in Word THEN Small(-x[2]) ELSE Large(Magnitude(FromI64(x[2])))
    ELSE Norm([x[2] EXCEPT !.sign = ~@])

\* A Large lies outside the words: its sign decides.
Cmp(x, y) ==
    CASE IsSmall(x) /\ IsSmall(y)   -> CmpInt(x[2], y[2])
      [] ~IsSmall(x) /\ IsSmall(y)  -> IF x[2].sign THEN -1 ELSE 1
      [] IsSmall(x) /\ ~IsSmall(y)  -> IF y[2].sign THEN 1 ELSE -1
      [] ~IsSmall(x) /\ ~IsSmall(y) -> CmpBig(x[2], y[2])

Equal(x, y) ==
    \/ IsSmall(x) /\ IsSmall(y) /\ x[2] = y[2]
    \/ ~IsSmall(x) /\ ~IsSmall(y) /\ EqBig(x[2], y[2])

IsZeroInt(x) == IF IsSmall(x) THEN x[2] = 0 ELSE IsZero(x[2])

\* int(f) of a float whose integer part is k.
FromFloatInt(k) == IF k \in Word THEN Small(k) ELSE Norm(FromFloat(k))

-----------------------------------------------------------------------------
\* The program: operators on acc, each with its faults.

Explored(k) == -MaxAbs <= k /\ k <= MaxAbs
ExploredPow(k, e) == IF e <= 3 THEN Explored(PowInt(k, e)) ELSE k \in -2..2

Yields(x) ==
    /\ acc' = x
    /\ UNCHANGED fault

Faults(code) ==
    /\ fault' = code
    /\ UNCHANGED acc

\* A numeral in the program text, or int_of of a text with a sign.
Read(k) == Yields(Norm(Parse(k < 0, DigitsOf(IF k < 0 THEN -k ELSE k))))

\* int(f)
Truncate(k) == Yields(FromFloatInt(k))

Plus(k)  == Explored(ValueOf(acc) + k) /\ Yields(Add(acc, Representation(k)))
Minus(k) == Explored(ValueOf(acc) - k) /\ Yields(Sub(acc, Representation(k)))
Times(k) == Explored(ValueOf(acc) * k) /\ Yields(Mul(acc, Representation(k)))

\* acc // k and acc % k: one takes the quotient, the other the remainder.
Divide(k) ==
    LET y == Representation(k)
    IN  IF IsZeroInt(y) THEN Faults("E0200")
        ELSE LET Either(d) == Yields(d.q) \/ Yields(d.r) IN Either(DivModFloor(acc, y))

Power(e) ==
    IF Cmp(Representation(e), Small(0)) < 0 THEN Faults("E0201")
    ELSE ExploredPow(ValueOf(acc), e) /\ Yields(Pow(acc, Representation(e)))

Negative == Yields(Negate(acc))

Init ==
    /\ acc \in {Representation(k) : k \in Operands}
    /\ fault = "none"

Next ==
    /\ fault = "none"
    /\ \/ \E k \in Operands : Read(k) \/ Truncate(k) \/ Plus(k) \/ Minus(k) \/ Times(k)
                              \/ Divide(k)
       \/ \E e \in Exponents : Power(e)
       \/ Negative

Spec == Init /\ [][Next]_vars

-----------------------------------------------------------------------------

TypeOK ==
    /\ fault \in {"none", "E0200", "E0201"}
    /\ \/ IsSmall(acc) /\ acc[2] \in Word
       \/ ~IsSmall(acc) /\ acc[2].sign \in BOOLEAN /\ acc[2].limbs \in Seq(Limb)

\* A number has exactly one representation, whichever operators made it: a
\* Large never fits a word, has no leading zero limb and zero has no sign.
\* Equality, order and hashing of integers, and of the maps keyed by them,
\* rest on it (bignum.rs, module comment; Eq, Ord and Hash of BigInt).
OneRepresentation == acc = Representation(ValueOf(acc))

\* cmp and eq of bignum.rs, written by cases on the two forms, order and
\* identify integers as numbers, on both sides of the border of the word.
OrderedAsNumbers ==
    \A k \in Operands :
        LET y == Representation(k)
        IN  /\ Cmp(acc, y) = CmpInt(ValueOf(acc), k)
            /\ Cmp(y, acc) = CmpInt(k, ValueOf(acc))
            /\ Equal(acc, y) <=> ValueOf(acc) = k

\* An integer that is printed and read again is the same integer: Display
\* splits it into padded chunks, parse multiplies digit by digit.
ReadsBack ==
    LET Back(shown) == Norm(Parse(shown.neg, shown.digits)) IN Back(Show(Big(acc))) = acc

\* Whatever integer acc has become, each operator gives the integer it should:
\* on words, across the border of the word and on limbs, for every sign.
Exact ==
    LET n == ValueOf(acc)
    IN  /\ \A k \in Operands :
              LET y == Representation(k)
              IN  /\ ValueOf(Add(acc, y)) = n + k
                  /\ ValueOf(Sub(acc, y)) = n - k
                  /\ ValueOf(Mul(acc, y)) = n * k
                  /\ k # 0 => LET d == DivModFloor(acc, y)
                              IN  /\ ValueOf(d.q) * k + ValueOf(d.r) = n
                                  /\ ValueOf(d.r) \in IF k > 0 THEN 0..(k - 1) ELSE (k + 1)..0
        /\ \A e \in Exponents :
              e >= 0 /\ ExploredPow(n, e) => ValueOf(Pow(acc, Representation(e))) = PowInt(n, e)
        /\ ValueOf(Negate(acc)) = -n

\* The register runs as a program over the mathematical integers would, and
\* faults where that faults, with the same code.
Numbers == INSTANCE HehIntegers WITH n <- ValueOf(acc)
ComputesNumbers == Numbers!Spec

=============================================================================
