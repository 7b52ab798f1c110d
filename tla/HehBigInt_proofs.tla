------------------------- MODULE HehBigInt_proofs --------------------------
(***************************************************************************)
(* The arithmetic of bignum.rs is that of the integers, for limbs of every *)
(* width: a program on words and limbs implements HehIntegers.  A list of  *)
(* limbs makes the sum of its digits times their weights (Val); each loop  *)
(* is shown to keep what its accumulator makes so far, by induction over   *)
(* its rounds.  For a loop X of HehBigNum, XOp is its body, XRounds (or a  *)
(* name in the plural) an instance of HehRecursion for that body, and      *)
(* XLoop the loop itself.                                                  *)
(***************************************************************************)
EXTENDS HehBigInt, WellFoundedInduction, TLAPS

-----------------------------------------------------------------------------
(* Induction.                                                                *)

\* A set of natural numbers that is not empty has a least element.
LEMMA LeastNat ==
    ASSUME NEW T \in SUBSET Nat, T # {}
    PROVE  \E n \in T : \A m \in T : n <= m
<1> DEFINE R == OpToRel(<, Nat)
<1>1. \E x \in T : \A y \in T : ~ (<<y, x>> \in R)
  <2>1. IsWellFoundedOn(R, Nat)
    BY NatLessThanWellFounded
  <2> HIDE DEF R
  <2> QED
    BY <2>1, WFMin
<1>2. ASSUME NEW y \in Nat, NEW x \in Nat, y < x
      PROVE  <<y, x>> \in R
  BY <1>2 DEF OpToRel
<1> HIDE DEF R
<1>3. PICK x \in T : \A y \in T : ~ (<<y, x>> \in R)
  BY <1>1
<1>4. ASSUME NEW y \in T
      PROVE  x <= y
  <2>1. x \in Nat /\ y \in Nat
    BY <1>3, <1>4
  <2>2. ~(<<y, x>> \in R)
    BY <1>3, <1>4
  <2>3. y < x => <<y, x>> \in R
    BY <2>1, <1>2
  <2> QED
    BY <2>1, <2>2, <2>3
<1> QED
  BY <1>4

\* A set of natural numbers that holds 0, and with a number the next, holds them all.
LEMMA AllNat ==
    ASSUME NEW S, 0 \in S, \A i \in Nat : i \in S => i + 1 \in S
    PROVE  \A i \in Nat : i \in S
<1> DEFINE T == {i \in Nat : i \notin S}
<1>1. SUFFICES ASSUME T # {}
               PROVE  FALSE
  OBVIOUS
<1>2. PICK n \in T : \A m \in T : n <= m
  <2>1. T \in SUBSET Nat
    OBVIOUS
  <2> HIDE DEF T
  <2> QED
    BY <1>1, <2>1, LeastNat
<1>3. n \in Nat /\ n # 0
  OBVIOUS
<1>4. PICK m \in Nat : n = m + 1
  <2>1. n - 1 \in Nat /\ n = (n - 1) + 1
    BY <1>3
  <2> QED
    BY <2>1
<1>5. m \in S
  <2>1. ~(n <= m)
    BY <1>4
  <2> QED
    BY <1>2, <2>1
<1> QED
  BY <1>4, <1>5

-----------------------------------------------------------------------------
(* Powers.                                                                   *)

\* Powers are a recursive function of the exponent.
PowOp(i, pow, k) == IF k = 0 THEN 1 ELSE i * pow[k - 1]
Powers == INSTANCE HehRecursion WITH Op <- PowOp

\* The elements of a loop that counts: round n is given n.
Identity == [n \in Nat |-> n]

\* The first power, and from each the next.
LEMMA PowStep ==
    ASSUME NEW i
    PROVE  /\ PowInt(i, 0) = 1
           /\ \A k \in Nat : PowInt(i, k + 1) = i * PowInt(i, k)
<1>1. Identity \in [Nat -> Nat] /\ \A k \in Nat : Identity[k] = k
  BY DEF Identity
<1>2. Powers!Local(i, Nat, Identity)
  <2>1. SUFFICES ASSUME NEW f, NEW g, NEW k \in Nat,
                        \A y \in Nat : Identity[y] < Identity[k] => f[y] = g[y]
                 PROVE  PowOp(i, f, k) = PowOp(i, g, k)
    BY DEF Powers!Local
  <2>2. CASE k = 0
    BY <2>2 DEF PowOp
  <2>3. CASE k # 0
    <3>1. k - 1 \in Nat /\ k - 1 < k
      BY <2>3
    <3>2. f[k - 1] = g[k - 1]
      BY <1>1, <2>1, <3>1
    <3> QED
      BY <2>3, <3>2 DEF PowOp
  <2> QED
    BY <2>2, <2>3
<1>3. \E f : f = [k \in Nat |-> PowOp(i, f, k)]
  <2>0. Powers!Induction
    BY AllNat DEF Powers!Induction
  <2> QED
    BY <1>1, <1>2, <2>0, Powers!Solution
<1> DEFINE pow == CHOOSE f : f = [k \in Nat |-> IF k = 0 THEN 1 ELSE i * f[k - 1]]
<1>4. pow = [k \in Nat |-> IF k = 0 THEN 1 ELSE i * pow[k - 1]]
  <2>1. \E f : f = [k \in Nat |-> IF k = 0 THEN 1 ELSE i * f[k - 1]]
    BY <1>3 DEF PowOp
  <2> QED
    BY <2>1
<1>5. \A k : PowInt(i, k) = pow[k]
  BY DEF PowInt
<1> HIDE DEF pow
<1>6. \A k \in Nat : k + 1 \in Nat /\ k + 1 # 0 /\ (k + 1) - 1 = k
  OBVIOUS
<1>7. pow[0] = 1 /\ \A k \in Nat : pow[k + 1] = i * pow[k]
  BY <1>4, <1>6
<1> QED
  BY <1>5, <1>7

\* Arithmetic of products.
LEMMA MulAssoc ==
    ASSUME NEW i \in Int, NEW j \in Int, NEW k \in Int
    PROVE  i * (j * k) = (i * j) * k /\ i * j = j * i /\ i * j \in Int
  OBVIOUS

\* Multiplication distributes over addition.
LEMMA MulDist ==
    ASSUME NEW i \in Int, NEW j \in Int, NEW k \in Int
    PROVE  i * (j + k) = i * j + i * k /\ (j + k) * i = j * i + k * i
  OBVIOUS

\* Natural numbers are closed under multiplication.
LEMMA MulNat ==
    ASSUME NEW i \in Nat, NEW j \in Nat
    PROVE  i * j \in Nat
  OBVIOUS

\* A product of positive numbers is no less than either.
LEMMA MulGrows ==
    ASSUME NEW i \in Nat, NEW j \in Nat, i >= 1
    PROVE  i * j >= j
<1>1. PICK k \in Nat : i = k + 1
  <2>1. i - 1 \in Nat /\ i = (i - 1) + 1
    OBVIOUS
  <2> QED
    BY <2>1
<1>2. i * j = k * j + j /\ k * j \in Nat
  BY <1>1
<1> QED
  BY <1>2

\* Powers of an integer are integers; those of a natural number are natural.
LEMMA PowType ==
    ASSUME NEW i \in Int
    PROVE  /\ \A k \in Nat : PowInt(i, k) \in Int
           /\ i \in Nat => \A k \in Nat : PowInt(i, k) \in Nat
           /\ i \in Nat /\ i >= 1 => \A k \in Nat : PowInt(i, k) >= 1
<1>1. \A k \in Nat : PowInt(i, k) \in Int
  <2> DEFINE S == {k \in Nat : PowInt(i, k) \in Int}
  <2>1. 0 \in S
    BY PowStep
  <2>2. ASSUME NEW k \in Nat, k \in S PROVE k + 1 \in S
    <3>1. PowInt(i, k) \in Int /\ PowInt(i, k + 1) = i * PowInt(i, k)
      BY <2>2, PowStep
    <3> QED
      BY <3>1
  <2> HIDE DEF S
  <2>3. \A k \in Nat : k \in S
    BY <2>1, <2>2, AllNat
  <2> QED
    BY <2>3 DEF S
<1>2. ASSUME i \in Nat PROVE \A k \in Nat : PowInt(i, k) \in Nat
  <2> DEFINE S == {k \in Nat : PowInt(i, k) \in Nat}
  <2>1. 0 \in S
    BY PowStep
  <2>2. ASSUME NEW k \in Nat, k \in S PROVE k + 1 \in S
    <3>1. PowInt(i, k) \in Nat /\ PowInt(i, k + 1) = i * PowInt(i, k)
      BY <2>2, PowStep
    <3> QED
      BY <1>2, <3>1
  <2> HIDE DEF S
  <2>3. \A k \in Nat : k \in S
    BY <2>1, <2>2, AllNat
  <2> QED
    BY <2>3 DEF S
<1>3. ASSUME i \in Nat, i >= 1 PROVE \A k \in Nat : PowInt(i, k) >= 1
  <2> DEFINE S == {k \in Nat : PowInt(i, k) >= 1}
  <2>1. 0 \in S
    BY PowStep
  <2>2. ASSUME NEW k \in Nat, k \in S PROVE k + 1 \in S
    <3>1. PowInt(i, k) \in Nat /\ PowInt(i, k) >= 1 /\ PowInt(i, k + 1) = i * PowInt(i, k)
      BY <1>2, <1>3, <2>2, PowStep
    <3>2. i * PowInt(i, k) >= PowInt(i, k) /\ i * PowInt(i, k) \in Nat
      BY <1>3, <3>1, MulGrows, MulNat
    <3> QED
      BY <3>1, <3>2
  <2> HIDE DEF S
  <2>3. \A k \in Nat : k \in S
    BY <2>1, <2>2, AllNat
  <2> QED
    BY <2>3 DEF S
<1> QED
  BY <1>1, <1>2, <1>3

\* The power of a sum.
LEMMA PowAdd ==
    ASSUME NEW i \in Int, NEW j \in Nat, NEW k \in Nat
    PROVE  PowInt(i, j + k) = PowInt(i, j) * PowInt(i, k)
<1> DEFINE S == {n \in Nat : PowInt(i, j + n) = PowInt(i, j) * PowInt(i, n)}
<1>1. 0 \in S
  <2>1. PowInt(i, 0) = 1 /\ PowInt(i, j) \in Int /\ j + 0 = j
    BY PowStep, PowType
  <2> QED
    BY <2>1
<1>2. ASSUME NEW n \in Nat, n \in S PROVE n + 1 \in S
  <2>1. j + (n + 1) = (j + n) + 1 /\ j + n \in Nat
    OBVIOUS
  <2>2. PICK a \in Int, b \in Int : a = PowInt(i, j) /\ b = PowInt(i, n)
    <3>1. PowInt(i, j) \in Int /\ PowInt(i, n) \in Int
      BY PowType
    <3> QED
      BY <3>1
  <2>3. PowInt(i, (j + n) + 1) = i * (a * b) /\ PowInt(i, n + 1) = i * b
    BY <1>2, <2>1, <2>2, PowStep
  <2>4. i * (a * b) = a * (i * b)
    OBVIOUS
  <2> QED
    BY <2>1, <2>2, <2>3, <2>4
<1> HIDE DEF S
<1>3. k \in S
  BY <1>1, <1>2, AllNat
<1> QED
  BY <1>3 DEF S

\* The power of a product.
LEMMA PowMul ==
    ASSUME NEW i \in Int, NEW j \in Nat, NEW k \in Nat
    PROVE  PowInt(PowInt(i, j), k) = PowInt(i, j * k)
<1>1. PICK b \in Int : b = PowInt(i, j)
  BY PowType
<1> DEFINE S == {n \in Nat : PowInt(b, n) = PowInt(i, j * n)}
<1>2. 0 \in S
  <2>1. j * 0 = 0
    OBVIOUS
  <2> QED
    BY <2>1, PowStep
<1>3. ASSUME NEW n \in Nat, n \in S PROVE n + 1 \in S
  <2>1. j * (n + 1) = j + j * n /\ j * n \in Nat
    OBVIOUS
  <2>2. PowInt(i, j + j * n) = b * PowInt(i, j * n)
    BY <1>1, <2>1, PowAdd
  <2>3. PowInt(b, n + 1) = b * PowInt(b, n)
    BY PowStep
  <2> QED
    BY <1>3, <2>1, <2>2, <2>3
<1> HIDE DEF S
<1>4. k \in S
  BY <1>2, <1>3, AllNat
<1> QED
  BY <1>1, <1>4 DEF S

\* A larger exponent gives a larger power, at least twice as large.
LEMMA PowMono ==
    ASSUME NEW i \in Nat, i >= 2, NEW j \in Nat, NEW k \in Nat, j <= k
    PROVE  /\ PowInt(i, j) <= PowInt(i, k)
           /\ j < k => i * PowInt(i, j) <= PowInt(i, k) /\ PowInt(i, j) < PowInt(i, k)
<1>1. PICK a \in Nat, b \in Nat : a = PowInt(i, j) /\ b = PowInt(i, k - j)
  <2>1. k - j \in Nat
    OBVIOUS
  <2>2. \A n \in Nat : PowInt(i, n) \in Nat
    <3>1. i \in Int
      OBVIOUS
    <3> QED
      BY <3>1, PowType
  <2> QED
    BY <2>1, <2>2
<1>2. b >= 1 /\ a >= 1
  <2>1. k - j \in Nat
    OBVIOUS
  <2> QED
    BY <1>1, <2>1, PowType
<1>3. PowInt(i, k) = b * a
  <2>1. k - j \in Nat /\ k = (k - j) + j
    OBVIOUS
  <2>2. i \in Int
    OBVIOUS
  <2>3. PowInt(i, (k - j) + j) = b * a
    BY <1>1, <2>1, <2>2, PowAdd
  <2> QED
    BY <2>1, <2>3
<1>4. PowInt(i, j) <= PowInt(i, k)
  BY <1>1, <1>2, <1>3, MulGrows
<1>5. ASSUME j < k
      PROVE  i * PowInt(i, j) <= PowInt(i, k) /\ PowInt(i, j) < PowInt(i, k)
  <2>1. PICK n \in Nat : k = (n + 1) + j
    <3>1. k - j - 1 \in Nat /\ k = ((k - j - 1) + 1) + j
      BY <1>5
    <3> QED
      BY <3>1
  <2>2. PICK c \in Nat : c = PowInt(i, n) /\ c >= 1
    BY PowType
  <2>3. PowInt(i, k) = (i * c) * a
    <3>1. i \in Int /\ n + 1 \in Nat
      OBVIOUS
    <3>2. PowInt(i, n + 1) = i * c
      BY <2>2, PowStep
    <3> QED
      BY <1>1, <2>1, <3>1, <3>2, PowAdd
  <2>4. (i * c) * a = c * (i * a) /\ i * a \in Nat
    OBVIOUS
  <2>5. c * (i * a) >= i * a
    BY <2>2, <2>4, MulGrows
  <2>6. i * a >= 2 * a
    BY <1>1
  <2> QED
    BY <1>1, <1>2, <2>3, <2>4, <2>5, <2>6
<1> QED
  BY <1>4, <1>5

-----------------------------------------------------------------------------
(* What a list of limbs makes.                                               *)

\* The weight of a limb, by the number of limbs below it.
W(k) == PowInt(BASE, k)

\* The limb at a place of a list of limbs, 0 beyond the last.
Digit(s, i) == IF i \in DOMAIN s THEN s[i] ELSE 0

\* The value of a sequence of limbs is a sum, one term for each limb.
SumOp(p, sum, term) == sum + term
Sums == INSTANCE HehRecursion WITH Op <- SumOp

\* What the limbs of the first k places make, and what all the limbs make.
Sum(s, k) == Sums!Run(0, 0, [i \in Nat |-> Digit(s, i) * W(i - 1)])[k]
Val(s) == Sum(s, Len(s))

\* The base of the limbs is even and at least two.
LEMMA BaseFacts ==
    /\ BASE \in Nat /\ BASE >= 2
    /\ \E h \in Nat : h >= 1 /\ BASE = 2 * h /\ h = PowInt(2, BITS - 1)
<1>1. PICK n \in Nat : BITS = n + 1
  <2>1. BITS \in Nat /\ BITS # 0
    BY BaseAssumption
  <2>2. BITS - 1 \in Nat /\ BITS = (BITS - 1) + 1
    BY <2>1
  <2> QED
    BY <2>2
<1>2. PICK h \in Nat : h = PowInt(2, n) /\ h >= 1
  <2>1. PowInt(2, n) \in Nat /\ PowInt(2, n) >= 1
    BY PowType
  <2> QED
    BY <2>1
<1>3. BASE = 2 * h
  BY <1>1, <1>2, BaseAssumption, PowStep
<1>4. BITS - 1 = n
  BY <1>1
<1> QED
  BY <1>2, <1>3, <1>4

\* It is a natural number.
LEMMA BaseNat == BASE \in Nat /\ BASE >= 2 /\ BASE > 0 /\ BASE \in Int
  BY BaseFacts

\* Each place weighs BASE times the place before it.
LEMMA WeightStep ==
    /\ W(0) = 1
    /\ \A k \in Nat : W(k) \in Nat /\ W(k) >= 1 /\ W(k + 1) = BASE * W(k)
<1>1. BASE \in Nat /\ BASE \in Int /\ BASE >= 1
  BY BaseFacts
<1> QED
  BY <1>1, PowStep, PowType DEF W

\* The second place weighs BASE.
LEMMA WeightOne == W(1) = BASE
<1>1. W(0 + 1) = BASE * 1
  BY WeightStep
<1> QED
  BY <1>1, BaseFacts

\* The weights of places multiply as their numbers add.
LEMMA WeightAdd ==
    ASSUME NEW j \in Nat, NEW k \in Nat
    PROVE  W(j + k) = W(j) * W(k)
<1>1. BASE \in Int
  BY BaseFacts
<1> QED
  BY <1>1, PowAdd DEF W

\* A higher place weighs at least BASE times as much.
LEMMA WeightOrder ==
    ASSUME NEW j \in Nat, NEW k \in Nat
    PROVE  /\ j <= k => W(j) <= W(k)
           /\ j < k => BASE * W(j) <= W(k) /\ W(j) < W(k)
<1>1. BASE \in Nat /\ BASE >= 2
  BY BaseFacts
<1>2. j < k => j <= k
  OBVIOUS
<1> QED
  BY <1>1, <1>2, PowMono DEF W

\* One more place adds its digit times its weight.
LEMMA SumStep ==
    ASSUME NEW s
    PROVE  /\ Sum(s, 0) = 0
           /\ \A k \in Nat : Sum(s, k + 1) = Sum(s, k) + Digit(s, k + 1) * W(k)
<1> DEFINE terms == [i \in Nat |-> Digit(s, i) * W(i - 1)]
<1>1. \A k \in Nat : terms[k + 1] = Digit(s, k + 1) * W(k)
  <2>1. \A k \in Nat : k + 1 \in Nat /\ (k + 1) - 1 = k
    OBVIOUS
  <2> QED
    BY <2>1
<1>2. \A k : Sum(s, k) = Sums!Run(0, 0, terms)[k]
  BY DEF Sum
<1> HIDE DEF terms
<1> QED
  <2>0. Sums!Induction
    BY AllNat DEF Sums!Induction
  <2> QED
    BY <1>1, <1>2, <2>0, Sums!RunStep DEF SumOp

\* A list of limbs.
LEMMA DigitFacts ==
    ASSUME NEW s, s \in Seq(Limb)
    PROVE  /\ DOMAIN s = 1..Len(s) /\ Len(s) \in Nat
           /\ \A i : Digit(s, i) \in Nat /\ Digit(s, i) < BASE /\ Digit(s, i) \in Limb
           /\ \A i \in 1..Len(s) : Digit(s, i) = s[i]
           /\ \A i \in Nat : i > Len(s) => Digit(s, i) = 0
<1>1. 0 \in Limb /\ \A d \in Limb : d \in Nat /\ d < BASE
  BY BaseFacts DEF Limb
<1>2. DOMAIN s = 1..Len(s) /\ Len(s) \in Nat /\ \A i \in 1..Len(s) : s[i] \in Limb
  OBVIOUS
<1>3. \A i : Digit(s, i) \in Limb
  BY <1>1, <1>2 DEF Digit
<1>4. \A i \in 1..Len(s) : Digit(s, i) = s[i]
  BY <1>2 DEF Digit
<1>5. \A i \in Nat : i > Len(s) => Digit(s, i) = 0
  BY <1>2 DEF Digit
<1> QED
  BY <1>1, <1>2, <1>3, <1>4, <1>5

\* The first places of two lists that agree there make the same.
LEMMA SumSame ==
    ASSUME NEW s, NEW t, NEW n \in Nat, \A i \in 1..n : Digit(s, i) = Digit(t, i)
    PROVE  \A k \in 0..n : Sum(s, k) = Sum(t, k)
<1> DEFINE S == {k \in Nat : k <= n => Sum(s, k) = Sum(t, k)}
<1>1. 0 \in S
  BY SumStep
<1>2. ASSUME NEW k \in Nat, k \in S PROVE k + 1 \in S
  <2>1. SUFFICES ASSUME k + 1 <= n PROVE Sum(s, k + 1) = Sum(t, k + 1)
    OBVIOUS
  <2>2. k + 1 \in 1..n /\ k <= n
    BY <2>1
  <2>3. Sum(s, k) = Sum(t, k) /\ Digit(s, k + 1) = Digit(t, k + 1)
    BY <1>2, <2>2
  <2> QED
    BY <2>3, SumStep
<1> HIDE DEF S
<1>3. \A k \in Nat : k \in S
  BY <1>1, <1>2, AllNat
<1> QED
  BY <1>3 DEF S

\* A limb and what is below it.
LEMMA DigitBound ==
    ASSUME NEW d \in Nat, NEW w \in Nat, NEW r \in Nat, NEW b \in Nat, d < b, r < w
    PROVE  r + d * w \in Nat /\ r + d * w < b * w /\ d * w \in Nat
<1>1. PICK k \in Nat : b = (d + 1) + k
  <2>1. b - d - 1 \in Nat /\ b = (d + 1) + (b - d - 1)
    OBVIOUS
  <2> QED
    BY <2>1
<1>2. b * w = d * w + w + k * w /\ d * w \in Nat /\ k * w \in Nat
  BY <1>1
<1> QED
  BY <1>2

\* The limbs of k places make less than the weight of the next place.
LEMMA SumBound ==
    ASSUME NEW s, s \in Seq(Limb)
    PROVE  \A k \in Nat : Sum(s, k) \in Nat /\ Sum(s, k) < W(k)
<1> DEFINE S == {k \in Nat : Sum(s, k) \in Nat /\ Sum(s, k) < W(k)}
<1>1. 0 \in S
  <2>1. Sum(s, 0) = 0 /\ W(0) = 1
    BY SumStep, WeightStep
  <2> QED
    BY <2>1
<1>2. ASSUME NEW k \in Nat, k \in S PROVE k + 1 \in S
  <2>1. PICK r \in Nat, w \in Nat, d \in Nat :
            r = Sum(s, k) /\ w = W(k) /\ d = Digit(s, k + 1) /\ r < w /\ d < BASE
    <3>1. Sum(s, k) \in Nat /\ Sum(s, k) < W(k) /\ W(k) \in Nat
      BY <1>2, WeightStep
    <3>2. Digit(s, k + 1) \in Nat /\ Digit(s, k + 1) < BASE
      BY DigitFacts
    <3> QED
      BY <3>1, <3>2
  <2>2. Sum(s, k + 1) = r + d * w /\ W(k + 1) = BASE * w
    BY <2>1, SumStep, WeightStep
  <2>3. r + d * w \in Nat /\ r + d * w < BASE * w
    BY <2>1, DigitBound, BaseFacts
  <2> QED
    BY <2>2, <2>3
<1> HIDE DEF S
<1>3. \A k \in Nat : k \in S
  BY <1>1, <1>2, AllNat
<1> QED
  BY <1>3 DEF S

\* More places make no less, and from the last limb on always the same.
LEMMA SumGrows ==
    ASSUME NEW s, s \in Seq(Limb), NEW j \in Nat
    PROVE  \A k \in Nat : /\ k >= j => Sum(s, j) <= Sum(s, k)
                          /\ k >= j /\ j >= Len(s) => Sum(s, k) = Sum(s, j)
<1> DEFINE S == {k \in Nat : /\ k >= j => Sum(s, j) <= Sum(s, k)
                             /\ k >= j /\ j >= Len(s) => Sum(s, k) = Sum(s, j)}
<1>0. \A k \in Nat : Sum(s, k) \in Nat
  BY SumBound
<1>1. 0 \in S
  <2>1. 0 >= j => j = 0
    OBVIOUS
  <2> QED
    BY <2>1, SumStep
<1>2. ASSUME NEW k \in Nat, k \in S PROVE k + 1 \in S
  <2>1. PICK r \in Nat, w \in Nat, d \in Nat, q \in Nat :
            r = Sum(s, k) /\ w = W(k) /\ d = Digit(s, k + 1) /\ q = Sum(s, j)
    <3>1. Sum(s, k) \in Nat /\ Sum(s, j) \in Nat /\ W(k) \in Nat
      BY <1>0, WeightStep
    <3>2. Digit(s, k + 1) \in Nat
      BY DigitFacts
    <3> QED
      BY <3>1, <3>2
  <2>2. Sum(s, k + 1) = r + d * w /\ d * w \in Nat
    <3>1. Sum(s, k + 1) = r + d * w
      BY <2>1, SumStep
    <3> QED
      BY <3>1, MulNat
  <2>3. k + 1 >= j => j = k + 1 \/ k >= j
    OBVIOUS
  <2>4. k >= j /\ j >= Len(s) => d = 0
    BY <2>1, DigitFacts
  <2>5. d = 0 => d * w = 0
    OBVIOUS
  <2>6. CASE k + 1 >= j
    <3>1. CASE j = k + 1
      BY <1>0, <3>1
    <3>2. CASE k >= j
      <4>1. q <= r /\ (j >= Len(s) => r = q)
        BY <1>2, <2>1, <3>2
      <4>2. PICK dw \in Nat : dw = d * w /\ Sum(s, k + 1) = r + dw
        BY <2>2
      <4>3. j >= Len(s) => dw = 0
        BY <2>4, <2>5, <3>2, <4>2
      <4>4. q <= r + dw /\ (j >= Len(s) => r + dw = q)
        BY <4>1, <4>2, <4>3
      <4>5. /\ Sum(s, j) <= Sum(s, k + 1)
            /\ j >= Len(s) => Sum(s, k + 1) = Sum(s, j)
        BY <2>1, <4>2, <4>4
      <4> QED
        BY <4>5
    <3> QED
      BY <2>3, <2>6, <3>1, <3>2
  <2> QED
    BY <2>6
<1> HIDE DEF S
<1>3. \A k \in Nat : k \in S
  BY <1>1, <1>2, AllNat
<1> QED
  BY <1>3 DEF S

-----------------------------------------------------------------------------
(* Lists without a leading zero limb.                                        *)

\* Limbs without a leading zero.
Canon(s) == s \in Seq(Limb) /\ (s # <<>> => s[Len(s)] # 0)

\* What the last limb and those below it make.
LEMMA ValStep ==
    ASSUME NEW s, s \in Seq(Limb), NEW n \in Nat, Len(s) = n + 1
    PROVE  Val(s) = Sum(s, n) + s[n + 1] * W(n)
<1>1. Digit(s, n + 1) = s[n + 1]
  BY DigitFacts
<1> QED
  BY <1>1, SumStep DEF Val

\* A list of limbs makes less than the weight of the place after it.
LEMMA ValBound ==
    ASSUME NEW s, s \in Seq(Limb)
    PROVE  Val(s) \in Nat /\ Val(s) < W(Len(s)) /\ (s = <<>> => Val(s) = 0)
<1>1. Len(s) \in Nat
  OBVIOUS
<1>2. s = <<>> => Len(s) = 0
  OBVIOUS
<1> QED
  BY <1>1, <1>2, SumBound, SumStep DEF Val

\* No limbs make zero.
LEMMA ValEmpty == Val(<<>>) = 0 /\ <<>> \in Seq(Limb) /\ Len(<<>>) = 0
<1>1. <<>> \in Seq(Limb) /\ Len(<<>>) = 0
  OBVIOUS
<1> QED
  BY <1>1, SumStep DEF Val

\* Without leading zero, it makes no less than the weight of its last place.
LEMMA CanonBound ==
    ASSUME NEW s, s \in Seq(Limb), NEW n \in Nat, Len(s) = n + 1
    PROVE  Canon(s) <=> W(n) <= Val(s)
<1>1. PICK r \in Nat, w \in Nat, d \in Nat :
          r = Sum(s, n) /\ w = W(n) /\ d = s[n + 1] /\ r < w
  <2>1. Sum(s, n) \in Nat /\ Sum(s, n) < W(n) /\ W(n) \in Nat
    BY SumBound, WeightStep
  <2>2. s[n + 1] \in Nat
    BY DigitFacts
  <2> QED
    BY <2>1, <2>2
<1>2. Val(s) = r + d * w
  BY <1>1, ValStep
<1>3. Canon(s) <=> d # 0
  BY <1>1 DEF Canon
<1>4. d # 0 => d * w >= w
  BY MulGrows
<1>5. d = 0 => d * w = 0
  OBVIOUS
<1>6. PICK y \in Nat : y = d * w
  BY MulNat
<1>7. W(n) <= Val(s) <=> w <= r + y
  BY <1>1, <1>2, <1>6
<1>8. w <= r + y <=> d # 0
  <2>1. CASE d = 0
    BY <1>1, <1>5, <1>6, <2>1
  <2>2. CASE d # 0
    BY <1>1, <1>4, <1>6, <2>2
  <2> QED
    BY <2>1, <2>2
<1> QED
  BY <1>3, <1>7, <1>8

\* No limbs is canonical, and so is the list whose last limb is not 0.
LEMMA CanonEmpty == Canon(<<>>)
  BY DEF Canon

\* Canonical limbs that make less than a weight are no longer than its place.
LEMMA CanonShort ==
    ASSUME NEW s, Canon(s), NEW n \in Nat, Val(s) < W(n)
    PROVE  Len(s) <= n /\ Sum(s, n) = Val(s)
<1>1. s \in Seq(Limb) /\ Len(s) \in Nat
  BY DEF Canon
<1>2. ASSUME Len(s) > n
      PROVE  FALSE
  <2>1. PICK k \in Nat : Len(s) = k + 1 /\ n <= k
    <3>1. Len(s) - 1 \in Nat /\ Len(s) = (Len(s) - 1) + 1 /\ n <= Len(s) - 1
      BY <1>1, <1>2
    <3> QED
      BY <3>1
  <2>2. W(k) <= Val(s)
    BY <1>1, <2>1, CanonBound
  <2>3. W(n) <= W(k) /\ W(n) \in Nat /\ W(k) \in Nat /\ Val(s) \in Nat
    BY <1>1, <2>1, WeightOrder, WeightStep, ValBound
  <2> QED
    BY <2>2, <2>3
<1>3. Sum(s, n) = Val(s)
  BY <1>1, <1>2, SumGrows DEF Val
<1> QED
  BY <1>1, <1>2, <1>3

\* The highest place where two lists differ decides which makes more.
LEMMA Highest ==
    ASSUME NEW s, s \in Seq(Limb), NEW t, t \in Seq(Limb), NEW n \in Nat, NEW k \in 1..n,
           Digit(s, k) < Digit(t, k),
           \A i \in 1..n : i > k => Digit(s, i) = Digit(t, i)
    PROVE  Sum(s, n) < Sum(t, n)
<1>1. PICK j \in Nat : k = j + 1
  <2>1. k - 1 \in Nat /\ k = (k - 1) + 1
    OBVIOUS
  <2> QED
    BY <2>1
<1>2. Sum(s, k) < Sum(t, k)
  <2>1. PICK r \in Nat, w \in Nat, d \in Nat, q \in Nat, e \in Nat :
            /\ r = Sum(s, j) /\ w = W(j) /\ d = Digit(s, k) /\ r < w
            /\ q = Sum(t, j) /\ e = Digit(t, k) /\ d < e
    <3>1. Sum(s, j) \in Nat /\ Sum(s, j) < W(j) /\ W(j) \in Nat /\ Sum(t, j) \in Nat
      BY SumBound, WeightStep
    <3>2. Digit(s, k) \in Nat /\ Digit(t, k) \in Nat
      BY DigitFacts
    <3> QED
      BY <3>1, <3>2
  <2>2. Sum(s, k) = r + d * w /\ Sum(t, k) = q + e * w
    BY <1>1, <2>1, SumStep
  <2>3. r + d * w < e * w /\ r + d * w \in Nat /\ e * w \in Nat
    BY <2>1, DigitBound, MulNat
  <2> QED
    BY <2>2, <2>3
<1> DEFINE S == {m \in Nat : m >= k /\ m <= n => Sum(s, m) < Sum(t, m)}
<1>3. 0 \in S
  OBVIOUS
<1>4. ASSUME NEW m \in Nat, m \in S PROVE m + 1 \in S
  <2>1. SUFFICES ASSUME m + 1 >= k, m + 1 <= n
                 PROVE  Sum(s, m + 1) < Sum(t, m + 1)
    OBVIOUS
  <2>2. CASE m + 1 = k
    BY <1>2, <2>2
  <2>3. CASE m + 1 # k
    <3>1. m >= k /\ m <= n /\ m + 1 > k /\ m + 1 \in 1..n
      BY <2>1, <2>3
    <3>2. PICK a \in Int, b \in Int, c \in Int :
              /\ a = Sum(s, m) /\ b = Sum(t, m) /\ c = Digit(s, m + 1) * W(m)
              /\ a < b
      <4>1. Sum(s, m) \in Nat /\ Sum(t, m) \in Nat /\ Sum(s, m) < Sum(t, m)
        BY <1>4, <3>1, SumBound
      <4>2. Digit(s, m + 1) \in Nat /\ W(m) \in Nat
        BY DigitFacts, WeightStep
      <4>3. Digit(s, m + 1) * W(m) \in Nat
        BY <4>2, MulNat
      <4> QED
        BY <4>1, <4>3
    <3>3. Sum(s, m + 1) = a + c /\ Sum(t, m + 1) = b + c
      <4>1. Digit(s, m + 1) = Digit(t, m + 1)
        BY <3>1
      <4> QED
        BY <3>2, <4>1, SumStep
    <3> QED
      BY <3>2, <3>3
  <2> QED
    BY <2>2, <2>3
<1> HIDE DEF S
<1>5. n \in S
  BY <1>3, <1>4, AllNat
<1> QED
  BY <1>5 DEF S

-----------------------------------------------------------------------------
(* Choosing the last place with a property.                                  *)

\* The greatest of a set of indexes, 0 when there is none.
LastIn(I) == IF I # {} THEN Sums!Top(I) ELSE 0

\* LastIn is the last element, 0 if there is none.
LEMMA LastInFacts ==
    ASSUME NEW n \in Nat, NEW I \in SUBSET (1..n)
    PROVE  /\ LastIn(I) \in 0..n
           /\ I = {} => LastIn(I) = 0
           /\ I # {} => LastIn(I) \in I
           /\ \A i \in 1..n : i > LastIn(I) => i \notin I
<1>1. CASE I = {}
  BY <1>1 DEF LastIn
<1>2. CASE I # {}
  <2>1. LastIn(I) \in I /\ \A i \in I : i <= LastIn(I)
    <3>0. Sums!Induction
      BY AllNat DEF Sums!Induction
    <3> QED
      BY <1>2, <3>0, Sums!EndsExist DEF LastIn
  <2>2. PICK l \in 1..n : l = LastIn(I) /\ l \in I /\ \A i \in I : i <= l
    BY <2>1
  <2>3. l \in 0..n /\ \A i \in 1..n : i > l => i \notin I
    BY <2>2
  <2> QED
    BY <1>2, <2>2, <2>3
<1> QED
  BY <1>1, <1>2

\* Trim takes the leading zeros away and keeps the number.
LEMMA TrimFacts ==
    ASSUME NEW s, s \in Seq(Limb)
    PROVE  Canon(Trim(s)) /\ Val(Trim(s)) = Val(s)
<1> DEFINE I == {i \in 1..Len(s) : s[i] # 0}
           k == LastIn(I)
<1>1. Trim(s) = [i \in 1..k |-> s[i]]
  BY DEF Trim, SelectLastInSeq, Max, LastIn, Sums!Top
<1>2. /\ Len(s) \in Nat /\ k \in 0..Len(s) /\ k \in Nat /\ k <= Len(s)
      /\ k # 0 => s[k] # 0
      /\ \A i \in 1..Len(s) : i > k => s[i] = 0
  <2>1. I \in SUBSET (1..Len(s)) /\ Len(s) \in Nat
    OBVIOUS
  <2>2. /\ k \in 0..Len(s) /\ (I = {} => k = 0) /\ (I # {} => k \in I)
        /\ \A i \in 1..Len(s) : i > k => i \notin I
    <3> HIDE DEF I
    <3> QED
      BY <2>1, LastInFacts
  <2> HIDE DEF k
  <2> QED
    BY <2>1, <2>2
<1> HIDE DEF k
<1> DEFINE t == [i \in 1..k |-> s[i]]
<1>3. t \in Seq(Limb) /\ Len(t) = k /\ \A i \in 1..k : t[i] = s[i]
  <2>1. \A i \in 1..k : s[i] \in Limb
    BY <1>2
  <2> QED
    BY <1>2, <2>1
<1> HIDE DEF t
<1>4. Canon(t)
  BY <1>2, <1>3 DEF Canon
<1>5. \A i \in 1..Len(s) : Digit(t, i) = Digit(s, i)
  <2>1. ASSUME NEW i \in 1..Len(s), i <= k
        PROVE  Digit(t, i) = Digit(s, i)
    <3>1. i \in 1..k
      BY <1>2, <2>1
    <3> QED
      BY <1>3, <3>1, DigitFacts
  <2>2. ASSUME NEW i \in 1..Len(s), i > k
        PROVE  Digit(t, i) = Digit(s, i)
    <3>1. Digit(t, i) = 0
      BY <1>2, <1>3, <2>2, DigitFacts
    <3>2. Digit(s, i) = 0
      BY <1>2, <2>2, DigitFacts
    <3> QED
      BY <3>1, <3>2
  <2> QED
    BY <1>2, <2>1, <2>2
<1>6. Sum(t, Len(s)) = Sum(s, Len(s))
  <2>1. Len(s) \in 0..Len(s)
    BY <1>2
  <2>2. \A i \in 0..Len(s) : Sum(t, i) = Sum(s, i)
    BY <1>2, <1>5, SumSame
  <2> QED
    BY <2>1, <2>2
<1>7. Sum(t, Len(s)) = Sum(t, k)
  BY <1>2, <1>3, SumGrows
<1> QED
  BY <1>1, <1>3, <1>4, <1>6, <1>7 DEF Val, t

-----------------------------------------------------------------------------
(* The order of magnitudes.                                                  *)

\* The places where two lists of the same length differ; the last of them decides.
Differ(s, t) == {i \in 1..Len(s) : s[i] # t[i]}

\* Between lists of one length the last place that differs decides.
LEMMA LastDecides ==
    ASSUME NEW s, s \in Seq(Limb), NEW t, t \in Seq(Limb), Len(s) = Len(t),
           NEW k, k = LastIn(Differ(s, t))
    PROVE  /\ k \in 0..Len(s)
           /\ k = 0 => s = t
           /\ k # 0 => s[k] # t[k]
           /\ k # 0 => (s[k] < t[k] => Val(s) < Val(t)) /\ (s[k] > t[k] => Val(s) > Val(t))
<1>1. PICK n \in Nat : n = Len(s) /\ n = Len(t)
  OBVIOUS
<1>2. /\ k \in 0..n /\ (k # 0 => k \in 1..n /\ s[k] # t[k])
      /\ \A i \in 1..n : i > k => s[i] = t[i]
  <2>1. Differ(s, t) \in SUBSET (1..n)
    BY <1>1 DEF Differ
  <2>2. /\ k \in 0..n /\ (Differ(s, t) = {} => k = 0) /\ (Differ(s, t) # {} => k \in Differ(s, t))
        /\ \A i \in 1..n : i > k => i \notin Differ(s, t)
    BY <2>1, LastInFacts
  <2>3. \A i \in 1..n : i \notin Differ(s, t) => s[i] = t[i]
    BY <1>1 DEF Differ
  <2>4. \A i \in Differ(s, t) : i \in 1..n /\ s[i] # t[i]
    BY <1>1 DEF Differ
  <2>5. k # 0 => k \in Differ(s, t)
    BY <2>2
  <2> QED
    BY <2>2, <2>3, <2>4, <2>5
<1>3. k = 0 => s = t
  <2>1. ASSUME k = 0 PROVE \A i \in 1..n : s[i] = t[i]
    BY <1>2, <2>1
  <2> QED
    BY <1>1, <2>1
<1>4. \A i \in 1..n : Digit(s, i) = s[i] /\ Digit(t, i) = t[i]
  BY <1>1, DigitFacts
<1>5. ASSUME k # 0, s[k] < t[k] PROVE Val(s) < Val(t)
  <2>1. k \in 1..n /\ Digit(s, k) < Digit(t, k)
    BY <1>2, <1>4, <1>5
  <2>2. \A i \in 1..n : i > k => Digit(s, i) = Digit(t, i)
    BY <1>2, <1>4
  <2>3. Sum(s, n) < Sum(t, n)
    BY <2>1, <2>2, Highest
  <2> QED
    BY <1>1, <2>3 DEF Val
<1>6. ASSUME k # 0, s[k] > t[k] PROVE Val(s) > Val(t)
  <2>1. k \in 1..n /\ Digit(t, k) < Digit(s, k)
    <3>1. k \in 1..n /\ Digit(t, k) = t[k] /\ Digit(s, k) = s[k]
      BY <1>2, <1>4, <1>6
    <3>2. Digit(t, k) \in Nat /\ Digit(s, k) \in Nat
      BY DigitFacts
    <3> QED
      BY <1>6, <3>1, <3>2
  <2>2. \A i \in 1..n : i > k => Digit(t, i) = Digit(s, i)
    BY <1>2, <1>4
  <2>3. Sum(t, n) < Sum(s, n)
    BY <2>1, <2>2, Highest
  <2>4. Sum(t, n) \in Nat /\ Sum(s, n) \in Nat
    BY SumBound
  <2> QED
    BY <1>1, <2>3, <2>4 DEF Val
<1> QED
  BY <1>1, <1>2, <1>3, <1>5, <1>6

\* Of two canonical lists the longer makes more.
LEMMA LongerIsLarger ==
    ASSUME NEW s, Canon(s), NEW t, Canon(t), Len(s) < Len(t)
    PROVE  Val(s) < Val(t)
<1>1. /\ s \in Seq(Limb) /\ t \in Seq(Limb) /\ Len(s) \in Nat /\ Len(t) \in Nat
  BY DEF Canon
<1>2. PICK n \in Nat : Len(t) = n + 1 /\ Len(s) <= n
  <2>1. Len(t) - 1 \in Nat /\ Len(t) = (Len(t) - 1) + 1 /\ Len(s) <= Len(t) - 1
    BY <1>1
  <2> QED
    BY <2>1
<1>3. W(n) <= Val(t) /\ Val(s) < W(Len(s)) /\ W(Len(s)) <= W(n)
  BY <1>1, <1>2, CanonBound, ValBound, WeightOrder
<1>4. W(n) \in Nat /\ W(Len(s)) \in Nat /\ Val(s) \in Nat /\ Val(t) \in Nat
  BY <1>1, WeightStep, ValBound
<1> QED
  BY <1>3, <1>4

\* cmp_abs orders magnitudes as numbers.
LEMMA CmpAbsIsOrder ==
    ASSUME NEW a, Canon(a.limbs), NEW b, Canon(b.limbs)
    PROVE  CmpAbs(a, b) = CmpInt(Val(a.limbs), Val(b.limbs))
<1> DEFINE s == a.limbs
           t == b.limbs
<1>1. /\ s \in Seq(Limb) /\ t \in Seq(Limb) /\ Len(s) \in Nat /\ Len(t) \in Nat
      /\ Val(s) \in Nat /\ Val(t) \in Nat
  BY ValBound DEF Canon
<1>2. ASSUME Len(s) # Len(t)
      PROVE  CmpAbs(a, b) = CmpInt(Val(s), Val(t))
  <2>1. CmpAbs(a, b) = CmpInt(Len(s), Len(t))
    BY <1>2 DEF CmpAbs
  <2>2. Len(s) < Len(t) => Val(s) < Val(t)
    BY LongerIsLarger
  <2>3. Len(t) < Len(s) => Val(t) < Val(s)
    BY LongerIsLarger
  <2> HIDE DEF s, t
  <2> QED
    BY <1>1, <1>2, <2>1, <2>2, <2>3 DEF CmpInt
<1>3. ASSUME Len(s) = Len(t)
      PROVE  CmpAbs(a, b) = CmpInt(Val(s), Val(t))
  <2> DEFINE k == LastIn(Differ(s, t))
  <2>1. CmpAbs(a, b) = CmpLimb(a, b, k)
    <3>1. CmpAbs(a, b) = CmpLimb(a, b, SelectLastInSeq(Zip(s, t), LAMBDA p : p[1] # p[2]))
      BY <1>3 DEF CmpAbs
    <3>2. Zip(s, t) = [i \in 1..Len(s) |-> <<s[i], t[i]>>]
      BY <1>1, <1>3 DEF Zip
    <3>3. SelectLastInSeq(Zip(s, t), LAMBDA p : p[1] # p[2]) = k
      <4>1. PICK z : z = [i \in 1..Len(s) |-> <<s[i], t[i]>>]
        OBVIOUS
      <4>2. Len(z) = Len(s)
        BY <1>1, <4>1
      <4>3. {i \in 1..Len(z) : z[i][1] # z[i][2]} = Differ(s, t)
        <5>1. \A i \in 1..Len(s) : z[i][1] = s[i] /\ z[i][2] = t[i]
          BY <4>1
        <5> QED
          BY <4>2, <5>1 DEF Differ
      <4>4. SelectLastInSeq(z, LAMBDA p : p[1] # p[2])
              = LET I == {i \in 1..Len(z) : z[i][1] # z[i][2]} IN IF I # {} THEN Max(I) ELSE 0
        BY DEF SelectLastInSeq
      <4>5. SelectLastInSeq(z, LAMBDA p : p[1] # p[2])
              = IF Differ(s, t) # {} THEN Max(Differ(s, t)) ELSE 0
        BY <4>3, <4>4
      <4>6. k = IF Differ(s, t) # {} THEN Max(Differ(s, t)) ELSE 0
        BY DEF LastIn, Max, Sums!Top
      <4> QED
        BY <3>2, <4>1, <4>5, <4>6
    <3> QED
      BY <3>1, <3>3
  <2>2. /\ k \in 0..Len(s) /\ (k = 0 => s = t) /\ (k # 0 => s[k] # t[k])
        /\ k # 0 => (s[k] < t[k] => Val(s) < Val(t)) /\ (s[k] > t[k] => Val(s) > Val(t))
    BY <1>1, <1>3, LastDecides
  <2>3. CmpLimb(a, b, k) = IF k = 0 THEN 0 ELSE CmpInt(s[k], t[k])
    BY DEF CmpLimb
  <2>4. k # 0 => s[k] \in Nat /\ t[k] \in Nat
    <3>1. k # 0 => k \in 1..Len(s)
      BY <1>1, <2>2
    <3> QED
      BY <1>1, <1>3, <3>1, DigitFacts
  <2> HIDE DEF s, t, k
  <2> QED
    BY <1>1, <2>1, <2>2, <2>3, <2>4 DEF CmpInt
<1> QED
  BY <1>2, <1>3

\* A number has one canonical list of limbs.
LEMMA Unique ==
    ASSUME NEW s, Canon(s), NEW t, Canon(t), Val(s) = Val(t)
    PROVE  s = t
<1>1. /\ s \in Seq(Limb) /\ t \in Seq(Limb) /\ Len(s) \in Nat /\ Len(t) \in Nat
      /\ Val(s) \in Nat /\ Val(t) \in Nat
  BY ValBound DEF Canon
<1>2. Len(s) = Len(t)
  BY <1>1, LongerIsLarger
<1>3. PICK k : k = LastIn(Differ(s, t))
  OBVIOUS
<1>4. /\ k \in 0..Len(s) /\ (k = 0 => s = t) /\ (k # 0 => s[k] # t[k])
      /\ k # 0 => (s[k] < t[k] => Val(s) < Val(t)) /\ (s[k] > t[k] => Val(s) > Val(t))
  BY <1>1, <1>2, <1>3, LastDecides
<1>5. k # 0 => s[k] \in Nat /\ t[k] \in Nat
  <2>1. k # 0 => k \in 1..Len(s)
    BY <1>1, <1>4
  <2> QED
    BY <1>1, <1>2, <2>1, DigitFacts
<1> QED
  BY <1>1, <1>4, <1>5

-----------------------------------------------------------------------------
(* Lists of limbs put together.                                              *)

\* A limb appended stands at the next place.
LEMMA ValAppend ==
    ASSUME NEW s, s \in Seq(Limb), NEW d \in Limb
    PROVE  /\ Append(s, d) \in Seq(Limb) /\ Len(Append(s, d)) = Len(s) + 1
           /\ Val(Append(s, d)) = Val(s) + d * W(Len(s))
<1>1. PICK n \in Nat : n = Len(s)
  OBVIOUS
<1>2. PICK t : t = Append(s, d)
  OBVIOUS
<1>3. t \in Seq(Limb) /\ Len(t) = n + 1 /\ t[n + 1] = d /\ \A i \in 1..n : t[i] = s[i]
  BY <1>1, <1>2
<1>4. \A i \in 1..n : Digit(t, i) = Digit(s, i)
  <2>1. \A i \in 1..n : i \in 1..n + 1
    BY <1>1
  <2> QED
    BY <1>1, <1>3, <2>1, DigitFacts
<1>5. Sum(t, n) = Sum(s, n)
  <2>1. n \in 0..n
    BY <1>1
  <2>2. \A i \in 0..n : Sum(t, i) = Sum(s, i)
    BY <1>4, SumSame
  <2> QED
    BY <2>1, <2>2
<1>6. Val(t) = Sum(t, n) + d * W(n)
  BY <1>3, ValStep
<1> QED
  BY <1>1, <1>2, <1>3, <1>5, <1>6 DEF Val

\* Limbs put before others raise the weight of those.
LEMMA ValConcat ==
    ASSUME NEW r, r \in Seq(Limb), NEW s, s \in Seq(Limb)
    PROVE  /\ r \o s \in Seq(Limb) /\ Len(r \o s) = Len(r) + Len(s)
           /\ Val(r \o s) = Val(r) + W(Len(r)) * Val(s)
<1>1. PICK n \in Nat, m \in Nat : n = Len(r) /\ m = Len(s)
  OBVIOUS
<1>2. PICK t : t = r \o s
  OBVIOUS
<1>3. /\ t \in Seq(Limb) /\ Len(t) = n + m
      /\ \A i \in 1..n : t[i] = r[i]
      /\ \A i \in 1..m : t[n + i] = s[i]
  BY <1>1, <1>2
<1>4. Sum(t, n) = Val(r)
  <2>1. \A i \in 1..n : Digit(t, i) = Digit(r, i)
    <3>1. \A i \in 1..n : i \in 1..n + m
      BY <1>1
    <3> QED
      BY <1>1, <1>3, <3>1, DigitFacts
  <2>2. n \in 0..n
    BY <1>1
  <2>3. \A i \in 0..n : Sum(t, i) = Sum(r, i)
    BY <2>1, SumSame
  <2> QED
    BY <1>1, <2>2, <2>3 DEF Val
<1>5. \A i \in 1..m : Digit(t, n + i) = Digit(s, i)
  <2>1. \A i \in 1..m : n + i \in 1..n + m
    BY <1>1
  <2>2. \A i \in 1..n + m : Digit(t, i) = t[i]
    BY <1>3, DigitFacts
  <2>3. \A i \in 1..m : Digit(s, i) = s[i]
    BY <1>1, DigitFacts
  <2> QED
    BY <1>3, <2>1, <2>2, <2>3
<1>6. PICK v \in Nat, w \in Nat : v = Val(r) /\ w = W(n)
  BY <1>1, ValBound, WeightStep
<1> DEFINE S == {k \in Nat : k <= m => Sum(t, n + k) = v + w * Sum(s, k)}
<1>7. 0 \in S
  <2>1. n + 0 = n /\ Sum(s, 0) = 0 /\ v + w * 0 = v
    BY SumStep, <1>6
  <2> QED
    BY <1>4, <1>6, <2>1
<1>8. ASSUME NEW k \in Nat, k \in S PROVE k + 1 \in S
  <2>1. SUFFICES ASSUME k + 1 <= m
                 PROVE  Sum(t, n + (k + 1)) = v + w * Sum(s, k + 1)
    OBVIOUS
  <2>2. n + (k + 1) = (n + k) + 1 /\ n + k \in Nat /\ k + 1 \in 1..m
    BY <2>1
  <2>3. PICK a \in Nat, d \in Nat, x \in Nat :
            a = Sum(s, k) /\ d = Digit(s, k + 1) /\ x = W(k)
    <3>1. Sum(s, k) \in Nat /\ W(k) \in Nat
      BY SumBound, WeightStep
    <3>2. Digit(s, k + 1) \in Nat
      BY DigitFacts
    <3> QED
      BY <3>1, <3>2
  <2>4. Sum(s, k + 1) = a + d * x
    BY <2>3, SumStep
  <2>5. Sum(t, n + k) = v + w * a
    BY <1>8, <2>1, <2>3
  <2>6. Sum(t, (n + k) + 1) = Sum(t, n + k) + d * W(n + k)
    <3>1. Digit(t, (n + k) + 1) = d
      BY <1>5, <2>2, <2>3
    <3> QED
      BY <2>2, <3>1, SumStep
  <2>7. W(n + k) = w * x
    BY <1>6, <2>3, WeightAdd
  <2>8. (v + w * a) + d * (w * x) = v + w * (a + d * x)
    <3>1. d * (w * x) = w * (d * x)
      <4>1. d \in Int /\ w \in Int /\ x \in Int
        OBVIOUS
      <4>2. d * (w * x) = (d * w) * x /\ w * (d * x) = (w * d) * x /\ d * w = w * d
        BY <4>1, MulAssoc
      <4> QED
        BY <4>2
    <3>2. w * (a + d * x) = w * a + w * (d * x)
      <4>1. d * x \in Int /\ w \in Int /\ a \in Int
        OBVIOUS
      <4> QED
        BY <4>1, MulDist
    <3>3. v \in Int /\ w * a \in Int /\ w * (d * x) \in Int
      OBVIOUS
    <3> QED
      BY <3>1, <3>2, <3>3
  <2> QED
    BY <2>2, <2>4, <2>5, <2>6, <2>7, <2>8
<1> HIDE DEF S
<1>9. m \in S
  BY <1>7, <1>8, AllNat
<1>10. Sum(t, n + m) = v + w * Sum(s, m)
  BY <1>9 DEF S
<1> QED
  BY <1>1, <1>2, <1>3, <1>6, <1>10 DEF Val

\* One limb makes itself.
LEMMA ValOne ==
    ASSUME NEW d \in Limb
    PROVE  /\ <<d>> \in Seq(Limb) /\ Len(<<d>>) = 1
           /\ Val(<<d>>) = d
<1>1. Append(<<>>, d) = <<d>> /\ <<>> \in Seq(Limb) /\ Len(<<>>) = 0
  OBVIOUS
<1>2. Val(<<>>) = 0 /\ W(0) = 1 /\ d \in Nat
  <2>1. Val(<<>>) = 0
    BY <1>1, ValBound
  <2>2. W(0) = 1
    BY WeightStep
  <2>3. d \in Nat
    BY BaseFacts DEF Limb
  <2> QED
    BY <2>1, <2>2, <2>3
<1>3. Val(Append(<<>>, d)) = 0 + d * 1
  BY <1>1, <1>2, ValAppend
<1> QED
  BY <1>1, <1>2, <1>3

\* A limb put before others.
LEMMA ValCons ==
    ASSUME NEW d \in Limb, NEW s, s \in Seq(Limb)
    PROVE  /\ <<d>> \o s \in Seq(Limb) /\ Len(<<d>> \o s) = Len(s) + 1
           /\ Val(<<d>> \o s) = d + BASE * Val(s)
           /\ Canon(s) /\ (s = <<>> => d # 0) => Canon(<<d>> \o s)
<1>1. /\ <<d>> \o s \in Seq(Limb) /\ Len(<<d>> \o s) = 1 + Len(s)
      /\ Val(<<d>> \o s) = d + BASE * Val(s)
  <2>1. <<d>> \in Seq(Limb) /\ Len(<<d>>) = 1 /\ Val(<<d>>) = d
    BY ValOne
  <2>2. PICK r : r = <<d>>
    OBVIOUS
  <2>3. /\ r \o s \in Seq(Limb) /\ Len(r \o s) = Len(r) + Len(s)
        /\ Val(r \o s) = Val(r) + W(Len(r)) * Val(s)
    BY <2>1, <2>2, ValConcat
  <2> QED
    BY <2>1, <2>2, <2>3, WeightOne
<1>2. Len(s) \in Nat
  OBVIOUS
<1>3. ASSUME Canon(s), s = <<>> => d # 0
      PROVE  Canon(<<d>> \o s)
  <2>1. CASE s = <<>>
    <3>1. <<d>> \o s = <<d>>
      BY <2>1
    <3> QED
      BY <1>1, <1>3, <2>1, <3>1 DEF Canon
  <2>2. CASE s # <<>>
    <3>1. Len(s) >= 1 /\ s[Len(s)] # 0
      BY <1>3, <2>2 DEF Canon
    <3>2. (<<d>> \o s)[1 + Len(s)] = s[Len(s)]
      BY <3>1
    <3> QED
      BY <1>1, <3>1, <3>2 DEF Canon
  <2> QED
    BY <2>1, <2>2
<1> QED
  BY <1>1, <1>2, <1>3

-----------------------------------------------------------------------------
(* Numbers in limbs.                                                         *)

\* A number in limbs: no leading zero, and zero has no sign; and what it is.
IsBig(b) ==
    /\ b \in [sign : BOOLEAN, limbs : Seq(Limb)]
    /\ Canon(b.limbs) /\ (b.sign => b.limbs # <<>>)

\* The integer a sign and limbs stand for.
IntOf(b) == IF b.sign THEN -Val(b.limbs) ELSE Val(b.limbs)

\* Division of a natural number by a positive one.
LEMMA DivMod ==
    ASSUME NEW t \in Nat, NEW d \in Nat, d > 0
    PROVE  /\ t \div d \in Nat
           /\ t % d \in 0..(d - 1)
           /\ t = d * (t \div d) + (t % d)
  OBVIOUS

\* A quotient by the base is smaller, and nothing is lost.
LEMMA LimbDiv ==
    ASSUME NEW t \in Nat
    PROVE  /\ t \div BASE \in Nat /\ t % BASE \in Limb /\ t % BASE \in Nat
           /\ t = (t % BASE) + BASE * (t \div BASE)
           /\ t # 0 => t \div BASE < t
<1>1. PICK q \in Nat, r \in Nat : q = t \div BASE /\ r = t % BASE /\ r < BASE /\ t = BASE * q + r
  <2>1. t \div BASE \in Nat /\ t % BASE \in 0..(BASE - 1) /\ t = BASE * (t \div BASE) + (t % BASE)
    BY BaseNat, DivMod
  <2> QED
    BY <2>1, BaseNat
<1>2. r \in Limb
  BY <1>1, BaseFacts DEF Limb
<1>3. PICK c \in Nat : BASE = 2 + c
  <2>1. BASE - 2 \in Nat /\ BASE = 2 + (BASE - 2)
    BY BaseFacts
  <2> QED
    BY <2>1
<1>4. BASE * q = 2 * q + c * q /\ c * q \in Nat
  BY <1>3
<1> QED
  BY <1>1, <1>2, <1>4

-----------------------------------------------------------------------------
(* The limbs of a number, by division.                                       *)

\* FromU64 as a loop: the limbs of a word, the lowest first.
PeelOp(p, peel, k) == IF k = 0 THEN <<>> ELSE <<k % BASE>> \o peel[k \div BASE]
Peels == INSTANCE HehRecursion WITH Op <- PeelOp

\* from_u64 gives the canonical limbs of a number.
LEMMA FromU64Facts ==
    ASSUME NEW m \in Nat
    PROVE  IsBig(FromU64(m)) /\ ~FromU64(m).sign /\ Val(FromU64(m).limbs) = m
<1>1. Identity \in [Nat -> Nat] /\ \A k \in Nat : Identity[k] = k
  BY DEF Identity
<1>2. Peels!Local(0, Nat, Identity)
  <2>1. SUFFICES ASSUME NEW f, NEW g, NEW k \in Nat,
                        \A y \in Nat : Identity[y] < Identity[k] => f[y] = g[y]
                 PROVE  PeelOp(0, f, k) = PeelOp(0, g, k)
    BY DEF Peels!Local
  <2>2. CASE k = 0
    BY <2>2 DEF PeelOp
  <2>3. CASE k # 0
    <3>1. k \div BASE \in Nat /\ k \div BASE < k
      BY <2>3, LimbDiv
    <3>2. f[k \div BASE] = g[k \div BASE]
      BY <1>1, <2>1, <3>1
    <3> QED
      BY <2>3, <3>2 DEF PeelOp
  <2> QED
    BY <2>2, <2>3
<1>3. \E f : f = [k \in Nat |-> PeelOp(0, f, k)]
  <2>0. Peels!Induction
    BY AllNat DEF Peels!Induction
  <2> QED
    BY <1>1, <1>2, <2>0, Peels!Solution
<1> DEFINE peel == CHOOSE f : f = [k \in Nat |-> IF k = 0 THEN <<>> ELSE <<k % BASE>> \o f[k \div BASE]]
<1>4. peel = [k \in Nat |-> IF k = 0 THEN <<>> ELSE <<k % BASE>> \o peel[k \div BASE]]
  <2>1. \E f : f = [k \in Nat |-> IF k = 0 THEN <<>> ELSE <<k % BASE>> \o f[k \div BASE]]
    BY <1>3 DEF PeelOp
  <2> QED
    BY <2>1
<1>5. FromU64(m) = [sign |-> FALSE, limbs |-> peel[m]]
  BY DEF FromU64
<1> HIDE DEF peel
<1> DEFINE S == {n \in Nat : \A k \in 0..n : Canon(peel[k]) /\ Val(peel[k]) = k}
<1>6. 0 \in S
  <2>1. peel[0] = <<>>
    BY <1>4
  <2>2. Canon(<<>>) /\ Val(<<>>) = 0
    BY CanonEmpty, ValEmpty
  <2>3. \A k \in 0..0 : k = 0
    OBVIOUS
  <2> QED
    BY <2>1, <2>2, <2>3
<1>7. ASSUME NEW n \in Nat, n \in S PROVE n + 1 \in S
  <2>1. PICK k \in Nat : k = n + 1
    OBVIOUS
  <2>2. PICK q \in Nat, r \in Limb :
            q = k \div BASE /\ r = k % BASE /\ k = r + BASE * q /\ q < k /\ q \in 0..n
    <3>1. k # 0
      BY <2>1
    <3>2. k \div BASE \in Nat /\ k % BASE \in Limb /\ k \div BASE < k
          /\ k = (k % BASE) + BASE * (k \div BASE)
      BY <3>1, LimbDiv
    <3>3. k \div BASE \in 0..n
      BY <2>1, <3>2
    <3> QED
      BY <3>2, <3>3
  <2>3. peel[k] = <<r>> \o peel[q]
    <3>1. k # 0
      BY <2>1
    <3> QED
      BY <1>4, <2>2, <3>1
  <2>4. Canon(peel[q]) /\ Val(peel[q]) = q
    BY <1>7, <2>2
  <2>5. peel[q] = <<>> => r # 0
    <3>1. ASSUME peel[q] = <<>>, r = 0 PROVE FALSE
      <4>1. q = 0
        BY <2>4, <3>1, ValEmpty
      <4>2. k = 0 + BASE * 0
        BY <2>2, <3>1, <4>1
      <4> QED
        BY <2>1, <4>2, BaseFacts
    <3> QED
      BY <3>1
  <2>6. Canon(peel[k]) /\ Val(peel[k]) = k
    <3>1. peel[q] \in Seq(Limb)
      BY <2>4 DEF Canon
    <3>2. Canon(<<r>> \o peel[q]) /\ Val(<<r>> \o peel[q]) = r + BASE * q
      BY <2>4, <2>5, <3>1, ValCons
    <3> QED
      BY <2>2, <2>3, <3>2
  <2>7. \A j \in 0..k : j \in 0..n \/ j = k
    BY <2>1
  <2> QED
    BY <1>7, <2>1, <2>6, <2>7
<1> HIDE DEF S
<1>8. m \in S /\ m \in 0..m
  BY <1>6, <1>7, AllNat
<1>9. Canon(peel[m]) /\ Val(peel[m]) = m
  BY <1>8 DEF S
<1> QED
  BY <1>5, <1>9 DEF IsBig, Canon

\* What a number in limbs is, and when it is zero.
LEMMA BigFacts ==
    ASSUME NEW b, IsBig(b)
    PROVE  /\ b = [sign |-> b.sign, limbs |-> b.limbs] /\ b.sign \in BOOLEAN
           /\ b.limbs \in Seq(Limb) /\ Canon(b.limbs) /\ Val(b.limbs) \in Nat
           /\ IntOf(b) \in Int
           /\ Val(b.limbs) = 0 <=> IsZero(b)
           /\ b.sign <=> IntOf(b) < 0
<1>1. /\ b = [sign |-> b.sign, limbs |-> b.limbs] /\ b.sign \in BOOLEAN
      /\ b.limbs \in Seq(Limb) /\ Canon(b.limbs)
  BY DEF IsBig
<1>2. Val(b.limbs) \in Nat
  BY <1>1, ValBound
<1>3. IsZero(b) => Val(b.limbs) = 0
  BY <1>1, ValBound DEF IsZero
<1>4. ASSUME Val(b.limbs) = 0 PROVE IsZero(b)
  <2>1. Val(<<>>) = 0
    BY ValEmpty
  <2>2. b.limbs = <<>>
    BY <1>1, <1>4, <2>1, CanonEmpty, Unique
  <2> QED
    BY <2>2 DEF IsZero
<1>5. b.sign => Val(b.limbs) > 0
  <2>1. b.sign => ~IsZero(b)
    BY DEF IsBig, IsZero
  <2> QED
    BY <1>2, <1>4, <2>1
<1> QED
  BY <1>1, <1>2, <1>3, <1>4, <1>5 DEF IntOf

\* from_i64 gives a number in limbs, and of a number in limbs the same one.
LEMMA FromI64Facts ==
    ASSUME NEW k \in Int
    PROVE  IsBig(FromI64(k)) /\ IntOf(FromI64(k)) = k
<1>1. PICK m \in Nat : m = IF k < 0 THEN -k ELSE k
  OBVIOUS
<1>2. FromI64(k) = [FromU64(m) EXCEPT !.sign = k < 0]
  BY <1>1 DEF FromI64
<1>3. PICK b : b = FromU64(m)
  OBVIOUS
<1>4. IsBig(b) /\ ~b.sign /\ Val(b.limbs) = m
  BY <1>3, FromU64Facts
<1>5. b = [sign |-> b.sign, limbs |-> b.limbs] /\ Canon(b.limbs) /\ b.limbs \in Seq(Limb)
  BY <1>4, BigFacts
<1>6. FromI64(k) = [sign |-> k < 0, limbs |-> b.limbs]
  BY <1>2, <1>3, <1>5
<1>7. k < 0 => b.limbs # <<>>
  <2>1. k < 0 => m # 0
    BY <1>1
  <2> QED
    BY <1>4, <2>1, ValEmpty
<1>8. IsBig(FromI64(k))
  <2>1. (k < 0) \in BOOLEAN
    OBVIOUS
  <2>2. FromI64(k).sign = (k < 0) /\ FromI64(k).limbs = b.limbs
    BY <1>6
  <2>3. FromI64(k) \in [sign : BOOLEAN, limbs : Seq(Limb)]
    BY <1>5, <1>6, <2>1
  <2> QED
    BY <1>5, <1>7, <2>2, <2>3 DEF IsBig
<1>9. IntOf(FromI64(k)) = k
  <2>1. FromI64(k).sign = (k < 0) /\ Val(FromI64(k).limbs) = m
    BY <1>4, <1>6
  <2>2. IntOf(FromI64(k)) = IF k < 0 THEN -m ELSE m
    BY <2>1 DEF IntOf
  <2> QED
    BY <1>1, <2>2
<1> QED
  BY <1>8, <1>9

\* A number has one representation in limbs.
LEMMA BigUnique ==
    ASSUME NEW a, IsBig(a), NEW b, IsBig(b), IntOf(a) = IntOf(b)
    PROVE  a = b
<1>1. /\ a = [sign |-> a.sign, limbs |-> a.limbs] /\ a.sign \in BOOLEAN
      /\ b = [sign |-> b.sign, limbs |-> b.limbs] /\ b.sign \in BOOLEAN
      /\ Canon(a.limbs) /\ Val(a.limbs) \in Nat /\ Canon(b.limbs) /\ Val(b.limbs) \in Nat
      /\ (a.sign <=> IntOf(a) < 0) /\ (b.sign <=> IntOf(b) < 0)
  BY BigFacts
<1>2. a.sign = b.sign
  BY <1>1
<1>3. Val(a.limbs) = Val(b.limbs)
  BY <1>1, <1>2 DEF IntOf
<1>4. a.limbs = b.limbs
  BY <1>1, <1>3, Unique
<1> QED
  BY <1>1, <1>2, <1>4

-----------------------------------------------------------------------------
(* The value of a representation.                                            *)

\* The value of limbs read from the highest down.
HornerOp(p, m, d) == d + BASE * m
Horner == INSTANCE HehRecursion WITH Op <- HornerOp

\* A round of the reading, as arithmetic.
LEMMA HornerArith ==
    ASSUME NEW a \in Nat, NEW d \in Nat, NEW x \in Nat, NEW h \in Nat, NEW b \in Nat
    PROVE  (a + d * x) + (b * x) * h = a + x * (d + b * h)
<1>1. b * h \in Int /\ x \in Int /\ d \in Int /\ b \in Int /\ h \in Int
  OBVIOUS
<1>2. x * (d + b * h) = x * d + x * (b * h) /\ x * d = d * x
  BY <1>1, MulDist, MulAssoc
<1>3. (b * x) * h = x * (b * h)
  <2>1. b * x = x * b /\ x * (b * h) = (x * b) * h
    BY <1>1, MulAssoc
  <2> QED
    BY <2>1
<1>4. d * x \in Int /\ x * (b * h) \in Int
  BY <1>1
<1> QED
  BY <1>2, <1>3, <1>4

\* ValueOf reads the limbs from the last to the first.
LEMMA ValueIsVal ==
    ASSUME NEW s, s \in Seq(Limb)
    PROVE  FoldRight(LAMBDA d, m : d + BASE * m, s, 0) = Val(s)
<1>1. PICK n \in Nat : n = Len(s) /\ DOMAIN s = 1..n
  OBVIOUS
<1>2. FoldRight(LAMBDA d, m : d + BASE * m, s, 0) = Horner!FoldR(0, 0, s, 1..n)
  BY <1>1 DEF FoldRight, MapThenFoldSet, Min, Horner!FoldR, Horner!Bottom, HornerOp
<1>3. PICK H : Horner!RightRounds(H, 0, 0, s, n) /\ Horner!FoldR(0, 0, s, 1..n) = H[n]
  <2>0. Horner!Induction
    BY AllNat DEF Horner!Induction
  <2> QED
    BY <2>0, Horner!RightFold
<1>4. H[0] = 0 /\ \A k \in Nat : H[k + 1] = s[n - k] + BASE * H[k]
  BY <1>3 DEF Horner!RightRounds, HornerOp
<1> DEFINE S == {k \in Nat : k <= n => H[k] \in Nat /\ Val(s) = Sum(s, n - k) + W(n - k) * H[k]}
<1>6. 0 \in S
  <2>1. n - 0 = n
    OBVIOUS
  <2>2. PICK v \in Nat, w \in Nat : v = Sum(s, n) /\ w = W(n)
    <3>1. Sum(s, n) \in Nat /\ W(n) \in Nat
      BY SumBound, WeightStep
    <3> QED
      BY <3>1
  <2>3. v = v + w * 0
    OBVIOUS
  <2>4. Val(s) = v
    BY <1>1, <2>2 DEF Val
  <2>5. H[0] \in Nat /\ Val(s) = Sum(s, n - 0) + W(n - 0) * H[0]
    BY <1>4, <2>1, <2>2, <2>3, <2>4
  <2> QED
    BY <2>5
<1>7. ASSUME NEW k \in Nat, k \in S PROVE k + 1 \in S
  <2>1. SUFFICES ASSUME k + 1 <= n
                 PROVE  /\ H[k + 1] \in Nat
                        /\ Val(s) = Sum(s, n - (k + 1)) + W(n - (k + 1)) * H[k + 1]
    OBVIOUS
  <2>2. PICK j \in Nat : j = n - (k + 1) /\ n - k = j + 1 /\ j + 1 \in 1..n
    <3>1. n - (k + 1) \in Nat /\ n - k = (n - (k + 1)) + 1
      BY <2>1
    <3> QED
      BY <2>1, <3>1
  <2>3. PICK h \in Nat, d \in Nat, x \in Nat, a \in Nat :
            h = H[k] /\ d = s[j + 1] /\ x = W(j) /\ a = Sum(s, j)
    <3>1. H[k] \in Nat
      BY <1>7, <2>1
    <3>2. s[j + 1] \in Nat
      BY <1>1, <2>2, DigitFacts
    <3>3. W(j) \in Nat /\ Sum(s, j) \in Nat
      BY WeightStep, SumBound
    <3> QED
      BY <3>1, <3>2, <3>3
  <2>4. H[k + 1] = d + BASE * h
    BY <1>4, <2>2, <2>3
  <2>5. Val(s) = Sum(s, j + 1) + W(j + 1) * h
    BY <1>7, <2>1, <2>2, <2>3
  <2>6. Sum(s, j + 1) = a + d * x /\ W(j + 1) = BASE * x
    <3>1. Digit(s, j + 1) = d
      BY <1>1, <2>2, <2>3, DigitFacts
    <3>2. Sum(s, j + 1) = a + d * x
      BY <2>3, <3>1, SumStep
    <3> QED
      BY <2>3, <3>2, WeightStep
  <2>7. (a + d * x) + (BASE * x) * h = a + x * (d + BASE * h)
    BY BaseNat, HornerArith
  <2>8. d + BASE * h \in Nat
    BY BaseNat, MulNat
  <2> QED
    BY <2>2, <2>3, <2>4, <2>5, <2>6, <2>7, <2>8
<1> HIDE DEF S
<1>8. n \in S
  BY <1>6, <1>7, AllNat
<1>9. H[n] \in Nat /\ Val(s) = Sum(s, 0) + W(0) * H[n]
  <2>1. n - n = 0 /\ n <= n
    OBVIOUS
  <2> QED
    BY <1>8, <2>1 DEF S
<1>10. Val(s) = H[n]
  <2>1. Sum(s, 0) = 0
    BY SumStep
  <2>2. W(0) = 1
    BY WeightStep
  <2>3. Val(s) = 0 + 1 * H[n]
    BY <1>9, <2>1, <2>2
  <2> QED
    BY <1>9, <2>3
<1> QED
  BY <1>2, <1>3, <1>10

\* A total below BASE * k gives a carry below k.
LEMMA CarryBound ==
    ASSUME NEW t \in Nat, NEW k \in Nat, t < BASE * k
    PROVE  t \div BASE \in Nat /\ t \div BASE < k
<1>1. PICK q \in Nat : q = t \div BASE /\ BASE * q <= t
  <2>1. t \div BASE \in Nat /\ t % BASE \in Nat /\ t = (t % BASE) + BASE * (t \div BASE)
    BY LimbDiv
  <2>2. BASE * (t \div BASE) \in Nat
    BY <2>1, BaseNat, MulNat
  <2>3. BASE * (t \div BASE) <= t
    BY <2>1, <2>2
  <2> QED
    BY <2>1, <2>3
<1>2. ASSUME q >= k PROVE FALSE
  <2>1. PICK c \in Nat : q = k + c
    <3>1. q - k \in Nat /\ q = k + (q - k)
      BY <1>2
    <3> QED
      BY <3>1
  <2>2. BASE * q = BASE * k + BASE * c
    BY <2>1, BaseNat, MulDist
  <2>3. BASE * c \in Nat /\ BASE * k \in Nat
    BY BaseNat, MulNat
  <2> QED
    BY <1>1, <2>2, <2>3
<1> QED
  BY <1>1, <1>2

-----------------------------------------------------------------------------
(* Loops that carry.                                                         *)

\* After j places the limbs pushed, and the carry at the next place, make T.
Carrying(st, j, T) ==
    /\ st.limbs \in Seq(Limb) /\ Len(st.limbs) = j /\ st.carry \in Nat
    /\ Val(st.limbs) + st.carry * W(j) = T

\* Before the first round nothing is pushed and nothing carried.
LEMMA NoCarryYet == Carrying(NoCarry, 0, 0)
<1>1. NoCarry.limbs = <<>> /\ NoCarry.carry = 0
  BY DEF NoCarry
<1>2. Val(<<>>) + 0 * W(0) = 0
  BY ValEmpty, WeightStep
<1> QED
  BY <1>1, <1>2, ValEmpty DEF Carrying

\* A round that carries adds x at its place.
LEMMA CarryLimbAdds ==
    ASSUME NEW st, NEW j \in Nat, NEW T \in Nat, Carrying(st, j, T), NEW x \in Nat,
           NEW next, next = CarryLimb(st, x + st.carry)
    PROVE  /\ Carrying(next, j + 1, T + x * W(j))
           /\ next.carry = (x + st.carry) \div BASE
<1>1. PICK t \in Nat, c \in Nat : t = x + c /\ c = st.carry
  <2>1. st.carry \in Nat
    BY DEF Carrying
  <2>2. x + st.carry \in Nat
    BY <2>1
  <2> QED
    BY <2>1, <2>2
<1>2. PICK q \in Nat, r \in Limb : q = t \div BASE /\ r = t % BASE /\ t = r + BASE * q
  BY LimbDiv
<1>3. next.limbs = Append(st.limbs, r) /\ next.carry = q
  BY <1>1, <1>2 DEF CarryLimb
<1>4. PICK w \in Nat, v \in Nat : w = W(j) /\ v = Val(st.limbs)
  <2>1. W(j) \in Nat
    BY WeightStep
  <2>2. Val(st.limbs) \in Nat
    BY ValBound DEF Carrying
  <2> QED
    BY <2>1, <2>2
<1>5. /\ next.limbs \in Seq(Limb) /\ Len(next.limbs) = j + 1
      /\ Val(next.limbs) = v + r * w
  BY <1>3, <1>4, ValAppend DEF Carrying
<1>6. W(j + 1) = BASE * w
  BY <1>4, WeightStep
<1>7. T = v + c * w
  BY <1>1, <1>4 DEF Carrying
<1>8. (v + r * w) + q * (BASE * w) = (v + c * w) + x * w
  <2>1. r \in Int /\ q \in Int /\ w \in Int /\ v \in Int /\ BASE \in Int /\ x \in Int /\ c \in Int
    BY BaseNat DEF Limb
  <2>2. q * (BASE * w) = (BASE * q) * w
    BY <2>1, MulAssoc
  <2>3. (r + BASE * q) * w = r * w + (BASE * q) * w /\ (x + c) * w = x * w + c * w
    <3>1. BASE * q \in Int
      BY <2>1
    <3> QED
      BY <2>1, <3>1, MulDist
  <2>4. r + BASE * q = x + c
    BY <1>1, <1>2
  <2>5. r * w \in Int /\ x * w \in Int /\ c * w \in Int /\ (BASE * q) * w \in Int
    BY <2>1
  <2> QED
    BY <2>1, <2>2, <2>3, <2>4, <2>5
<1>9. Val(next.limbs) + next.carry * W(j + 1) = T + x * W(j)
  BY <1>3, <1>4, <1>5, <1>6, <1>7, <1>8
<1>10. next.carry = (x + st.carry) \div BASE /\ next.carry \in Nat
  BY <1>1, <1>2, <1>3
<1> QED
  BY <1>5, <1>9, <1>10 DEF Carrying

\* The last carry is pushed: the limbs make the total.
LEMMA CarriedFacts ==
    ASSUME NEW st, NEW n \in Nat, NEW T \in Nat, Carrying(st, n, T), st.carry < BASE,
           n # 0 => W(n - 1) <= T
    PROVE  Canon(Carried(st)) /\ Val(Carried(st)) = T
<1>0. PICK s : s = st.limbs
  OBVIOUS
<1>1. PICK c \in Limb : s = st.limbs /\ c = st.carry
  <2>1. st.carry \in Limb
    BY BaseNat DEF Carrying, Limb
  <2> QED
    BY <1>0, <2>1
<1>2. /\ s \in Seq(Limb) /\ Len(s) = n
      /\ Val(s) + c * W(n) = T
  BY <1>1 DEF Carrying
<1>3. Val(s) \in Nat /\ W(n) \in Nat /\ c \in Nat
  BY <1>2, ValBound, WeightStep, BaseNat DEF Limb
<1>4. CASE c > 0
  <2>1. Carried(st) = Append(s, c)
    BY <1>1, <1>4 DEF Carried
  <2>2. Append(s, c) \in Seq(Limb) /\ Len(Append(s, c)) = n + 1 /\ Append(s, c)[n + 1] = c
    BY <1>2
  <2>3. Val(Append(s, c)) = T
    BY <1>2, ValAppend
  <2> QED
    BY <1>4, <2>1, <2>2, <2>3 DEF Canon
<1>5. CASE ~(c > 0)
  <2>1. Carried(st) = s /\ c = 0
    BY <1>1, <1>3, <1>5 DEF Carried
  <2>2. Val(s) = T
    BY <1>2, <1>3, <2>1
  <2>3. Canon(s)
    <3>1. CASE n = 0
      <4>1. s = <<>>
        BY <1>2, <3>1
      <4> QED
        BY <4>1, CanonEmpty
    <3>2. CASE n # 0
      <4>1. n - 1 \in Nat /\ n = (n - 1) + 1
        BY <3>2
      <4> QED
        BY <1>2, <2>2, <3>2, <4>1, CanonBound
    <3> QED
      BY <3>1, <3>2
  <2> QED
    BY <2>1, <2>2, <2>3
<1> QED
  BY <1>4, <1>5

\* The body of the loop of MulU32.
MulOp(v, st, d) == CarryLimb(st, d * v + st.carry)
MulRounds == INSTANCE HehRecursion WITH Op <- MulOp

\* The loop of MulU32: the limbs times v, and the carry left.
MulLoop(s, v) == FoldLeft(LAMBDA st, d : CarryLimb(st, d * v + st.carry), NoCarry, s)

\* The loop of mul_u32, and of shl_usize: limbs times a number that fits a limb.
LEMMA MulLoopFacts ==
    ASSUME NEW s, s \in Seq(Limb), NEW v \in Limb, v # 0
    PROVE  Carrying(MulLoop(s, v), Len(s), v * Val(s)) /\ MulLoop(s, v).carry < v
<1>1. PICK n \in Nat : n = Len(s) /\ DOMAIN s = 1..n
  OBVIOUS
<1>2. MulLoop(s, v) = MulRounds!FoldL(v, NoCarry, s, 1..n)
  BY <1>1 DEF MulLoop, FoldLeft, MapThenFoldSet, Max, MulRounds!FoldL, MulRounds!Top, MulOp
<1>3. PICK R : MulRounds!LeftRounds(R, v, NoCarry, s) /\ MulRounds!FoldL(v, NoCarry, s, 1..n) = R[n]
  <2>0. MulRounds!Induction
    BY AllNat DEF MulRounds!Induction
  <2> QED
    BY <2>0, MulRounds!LeftFold
<1>4. R[0] = NoCarry /\ \A k \in Nat : R[k + 1] = CarryLimb(R[k], s[k + 1] * v + R[k].carry)
  BY <1>3 DEF MulRounds!LeftRounds, MulOp
<1>5. v \in Nat /\ v < BASE /\ v >= 1 /\ v \in Int
  BY BaseNat DEF Limb
<1> DEFINE S == {k \in Nat : k <= n => Carrying(R[k], k, v * Sum(s, k)) /\ R[k].carry < v}
<1>6. 0 \in S
  <2>1. v * Sum(s, 0) = 0
    BY <1>5, SumStep
  <2>2. R[0].carry < v
    BY <1>4, <1>5 DEF NoCarry
  <2> QED
    BY <1>4, <2>1, <2>2, NoCarryYet
<1>7. ASSUME NEW k \in Nat, k \in S PROVE k + 1 \in S
  <2>1. SUFFICES ASSUME k + 1 <= n
                 PROVE  Carrying(R[k + 1], k + 1, v * Sum(s, k + 1)) /\ R[k + 1].carry < v
    OBVIOUS
  <2>2. Carrying(R[k], k, v * Sum(s, k)) /\ R[k].carry < v
    BY <1>7, <2>1
  <2>3. PICK a \in Nat, d \in Nat, w \in Nat, c \in Nat :
            /\ a = Sum(s, k) /\ d = s[k + 1] /\ w = W(k) /\ c = R[k].carry
            /\ d = Digit(s, k + 1) /\ d < BASE /\ c < v
    <3>1. k + 1 \in 1..n
      BY <2>1
    <3>2. s[k + 1] = Digit(s, k + 1) /\ Digit(s, k + 1) \in Nat /\ Digit(s, k + 1) < BASE
      BY <1>1, <3>1, DigitFacts
    <3>3. Sum(s, k) \in Nat /\ W(k) \in Nat
      BY SumBound, WeightStep
    <3>4. R[k].carry \in Nat
      BY <2>2 DEF Carrying
    <3> QED
      BY <2>2, <3>2, <3>3, <3>4
  <2>4. v * a \in Nat /\ d * v \in Nat
    BY <1>5, MulNat
  <2>5. R[k + 1] = CarryLimb(R[k], d * v + R[k].carry)
    BY <1>4, <2>3
  <2>6. /\ Carrying(R[k + 1], k + 1, v * a + (d * v) * w)
        /\ R[k + 1].carry = (d * v + c) \div BASE
    BY <2>2, <2>3, <2>4, <2>5, CarryLimbAdds
  <2>7. v * a + (d * v) * w = v * Sum(s, k + 1)
    <3>1. Sum(s, k + 1) = a + d * w
      BY <2>3, SumStep
    <3>2. v \in Int /\ a \in Int /\ d \in Int /\ w \in Int /\ d * w \in Int
      BY <1>5
    <3>3. v * (a + d * w) = v * a + v * (d * w) /\ v * (d * w) = (v * d) * w /\ v * d = d * v
      BY <3>2, MulDist, MulAssoc
    <3> QED
      BY <3>1, <3>3
  <2>8. (d * v + c) \div BASE < v
    <3>1. c + d * v < BASE * v /\ c + d * v \in Nat /\ d * v \in Nat
      BY <1>5, <2>3, BaseNat, DigitBound
    <3>2. d * v + c < BASE * v /\ d * v + c \in Nat
      BY <3>1
    <3> QED
      BY <1>5, <3>2, CarryBound
  <2> QED
    BY <2>6, <2>7, <2>8
<1> HIDE DEF S
<1>8. n \in S
  BY <1>6, <1>7, AllNat
<1> QED
  BY <1>1, <1>2, <1>3, <1>8 DEF S, Val

\* The body of the loop of AddU32, which carries v in.
AddOp(p, st, d) == CarryLimb(st, d + st.carry)
AddRounds == INSTANCE HehRecursion WITH Op <- AddOp

\* The loop of AddU32.
AddLoop(s, v) ==
    FoldLeft(LAMBDA st, d : CarryLimb(st, d + st.carry), [NoCarry EXCEPT !.carry = v], s)

\* The loop of add_u32: what is added is the first carry.
LEMMA AddLoopFacts ==
    ASSUME NEW s, s \in Seq(Limb), NEW v \in Limb
    PROVE  Carrying(AddLoop(s, v), Len(s), Val(s) + v) /\ AddLoop(s, v).carry < BASE
<1> DEFINE base == [NoCarry EXCEPT !.carry = v]
<1>1. PICK n \in Nat : n = Len(s) /\ DOMAIN s = 1..n
  OBVIOUS
<1>2. AddLoop(s, v) = AddRounds!FoldL(0, base, s, 1..n)
  BY <1>1 DEF AddLoop, FoldLeft, MapThenFoldSet, Max, AddRounds!FoldL, AddRounds!Top, AddOp
<1>3. PICK R : AddRounds!LeftRounds(R, 0, base, s) /\ AddRounds!FoldL(0, base, s, 1..n) = R[n]
  <2> HIDE DEF base
  <2> QED
    <3>0. AddRounds!Induction
      BY AllNat DEF AddRounds!Induction
    <3> QED
      BY <3>0, AddRounds!LeftFold
<1>4. R[0] = base /\ \A k \in Nat : R[k + 1] = CarryLimb(R[k], s[k + 1] + R[k].carry)
  <2> HIDE DEF base
  <2> QED
    BY <1>3 DEF AddRounds!LeftRounds, AddOp
<1>5. v \in Nat /\ v < BASE
  BY BaseNat DEF Limb
<1>b. base.limbs = <<>> /\ base.carry = v
  BY DEF NoCarry
<1> HIDE DEF base
<1> DEFINE S == {k \in Nat : k <= n => Carrying(R[k], k, Sum(s, k) + v) /\ R[k].carry < BASE}
<1>6. 0 \in S
  <2>1. Sum(s, 0) = 0 /\ Val(<<>>) = 0 /\ W(0) = 1 /\ <<>> \in Seq(Limb) /\ Len(<<>>) = 0
    BY SumStep, ValEmpty, WeightStep
  <2>2. 0 + v * 1 = 0 + v
    BY <1>5
  <2>3. Carrying(R[0], 0, Sum(s, 0) + v)
    BY <1>4, <1>5, <1>b, <2>1, <2>2 DEF Carrying
  <2> QED
    BY <1>4, <1>5, <1>b, <2>3
<1>7. ASSUME NEW k \in Nat, k \in S PROVE k + 1 \in S
  <2>1. SUFFICES ASSUME k + 1 <= n
                 PROVE  Carrying(R[k + 1], k + 1, Sum(s, k + 1) + v) /\ R[k + 1].carry < BASE
    OBVIOUS
  <2>2. Carrying(R[k], k, Sum(s, k) + v) /\ R[k].carry < BASE
    BY <1>7, <2>1
  <2>3. PICK a \in Nat, d \in Nat, w \in Nat, c \in Nat :
            /\ a = Sum(s, k) /\ d = s[k + 1] /\ w = W(k) /\ c = R[k].carry
            /\ d = Digit(s, k + 1) /\ d < BASE /\ c < BASE
    <3>1. k + 1 \in 1..n
      BY <2>1
    <3>2. s[k + 1] = Digit(s, k + 1) /\ Digit(s, k + 1) \in Nat /\ Digit(s, k + 1) < BASE
      BY <1>1, <3>1, DigitFacts
    <3>3. Sum(s, k) \in Nat /\ W(k) \in Nat
      BY SumBound, WeightStep
    <3>4. R[k].carry \in Nat
      BY <2>2 DEF Carrying
    <3> QED
      BY <2>2, <3>2, <3>3, <3>4
  <2>4. a + v \in Nat
    BY <1>5
  <2>5. R[k + 1] = CarryLimb(R[k], d + R[k].carry)
    BY <1>4, <2>3
  <2>6. /\ Carrying(R[k + 1], k + 1, (a + v) + d * w)
        /\ R[k + 1].carry = (d + c) \div BASE
    BY <2>2, <2>3, <2>4, <2>5, CarryLimbAdds
  <2>7. (a + v) + d * w = Sum(s, k + 1) + v
    <3>1. Sum(s, k + 1) = a + d * w
      BY <2>3, SumStep
    <3>2. d * w \in Nat
      BY MulNat
    <3> QED
      BY <1>5, <3>1, <3>2
  <2>8. (d + c) \div BASE < BASE
    <3>1. d + c < BASE * 2 /\ d + c \in Nat
      BY <2>3, BaseNat
    <3>2. (d + c) \div BASE < 2 /\ (d + c) \div BASE \in Nat
      BY <3>1, CarryBound
    <3> QED
      BY <3>2, BaseNat
  <2> QED
    BY <2>6, <2>7, <2>8
<1> HIDE DEF S
<1>8. n \in S
  BY <1>6, <1>7, AllNat
<1> QED
  BY <1>1, <1>2, <1>3, <1>8 DEF S, Val

-----------------------------------------------------------------------------
(* Multiplication by a limb and addition of one.                             *)

\* A list of limbs that is canonical makes no less than the weight of its last place.
LEMMA CanonWeight ==
    ASSUME NEW s, Canon(s)
    PROVE  /\ Len(s) \in Nat
           /\ Len(s) # 0 => Len(s) - 1 \in Nat /\ W(Len(s) - 1) <= Val(s)
<1>1. s \in Seq(Limb) /\ Len(s) \in Nat
  BY DEF Canon
<1>2. ASSUME Len(s) # 0
      PROVE  Len(s) - 1 \in Nat /\ W(Len(s) - 1) <= Val(s)
  <2>1. PICK n \in Nat : Len(s) = n + 1 /\ n = Len(s) - 1
    <3>1. Len(s) - 1 \in Nat /\ Len(s) = (Len(s) - 1) + 1
      BY <1>1, <1>2
    <3> QED
      BY <3>1
  <2> QED
    BY <1>1, <2>1, CanonBound
<1> QED
  BY <1>1, <1>2

\* Zero is zero.
LEMMA ZeroFacts == IsBig(Zero) /\ IntOf(Zero) = 0 /\ IsZero(Zero) /\ ~Zero.sign
<1>1. Zero.sign = FALSE /\ Zero.limbs = <<>> /\ Zero \in [sign : BOOLEAN, limbs : Seq(Limb)]
  BY ValEmpty DEF Zero
<1> QED
  BY <1>1, CanonEmpty, ValEmpty DEF IsBig, IntOf, IsZero

\* A record of a sign and canonical limbs that make a positive number.
LEMMA MakeBig ==
    ASSUME NEW sign \in BOOLEAN, NEW s, Canon(s), Val(s) > 0 \/ ~sign,
           NEW b, b = [sign |-> sign, limbs |-> s]
    PROVE  /\ IsBig(b) /\ b.sign = sign /\ b.limbs = s
           /\ IntOf(b) = IF sign THEN -Val(s) ELSE Val(s)
<1>1. s = <<>> => Val(s) = 0
  BY ValEmpty
<1>2. b.sign = sign /\ b.limbs = s /\ s \in Seq(Limb)
  BY DEF Canon
<1>3. sign => s # <<>>
  BY <1>1
<1> QED
  BY <1>2, <1>3 DEF IsBig, IntOf

\* Limbs times a number that fits a limb, with the carry of the last limb.
LEMMA MulCarried ==
    ASSUME NEW s, Canon(s), NEW v \in Limb, v # 0
    PROVE  Canon(Carried(MulLoop(s, v))) /\ Val(Carried(MulLoop(s, v))) = v * Val(s)
<1>1. s \in Seq(Limb) /\ Val(s) \in Nat
  BY ValBound DEF Canon
<1>2. v \in Nat /\ v >= 1 /\ v < BASE
  BY BaseNat DEF Limb
<1>3. PICK n \in Nat, t \in Nat : n = Len(s) /\ t = v * Val(s)
  <2>1. v * Val(s) \in Nat /\ Len(s) \in Nat
    BY <1>1, <1>2, MulNat
  <2> QED
    BY <2>1
<1>4. Carrying(MulLoop(s, v), n, t) /\ MulLoop(s, v).carry < BASE
  <2>1. Carrying(MulLoop(s, v), n, t) /\ MulLoop(s, v).carry < v
    BY <1>1, <1>3, MulLoopFacts
  <2>2. MulLoop(s, v).carry \in Nat
    BY <2>1 DEF Carrying
  <2> QED
    BY <1>2, <2>1, <2>2, BaseNat
<1>5. n # 0 => W(n - 1) <= t
  <2>1. n # 0 => n - 1 \in Nat /\ W(n - 1) <= Val(s)
    BY <1>3, CanonWeight
  <2>2. v * Val(s) >= Val(s)
    BY <1>1, <1>2, MulGrows
  <2>3. n # 0 => W(n - 1) \in Nat
    BY <2>1, WeightStep
  <2> QED
    BY <1>1, <1>3, <2>1, <2>2, <2>3
<1> QED
  BY <1>3, <1>4, <1>5, CarriedFacts

\* mul_u32 multiplies.
LEMMA MulU32Facts ==
    ASSUME NEW b, IsBig(b), ~b.sign, NEW v \in Limb
    PROVE  /\ IsBig(MulU32(b, v)) /\ ~MulU32(b, v).sign
           /\ Val(MulU32(b, v).limbs) = v * Val(b.limbs)
<1>1. /\ b = [sign |-> b.sign, limbs |-> b.limbs] /\ Canon(b.limbs) /\ b.limbs \in Seq(Limb)
      /\ Val(b.limbs) \in Nat /\ (Val(b.limbs) = 0 <=> IsZero(b))
  BY BigFacts
<1>2. v \in Nat /\ v < BASE
  BY BaseNat DEF Limb
<1>3. CASE v = 0 \/ IsZero(b)
  <2>1. MulU32(b, v) = Zero
    BY <1>3 DEF MulU32
  <2>2. v * Val(b.limbs) = 0
    BY <1>1, <1>2, <1>3
  <2>3. Val(Zero.limbs) = 0
    BY ValEmpty DEF Zero
  <2> QED
    BY <2>1, <2>2, <2>3, ZeroFacts
<1>4. CASE ~(v = 0 \/ IsZero(b))
  <2>1. PICK s : s = b.limbs
    OBVIOUS
  <2>3. MulU32(b, v) = [sign |-> FALSE, limbs |-> Carried(MulLoop(s, v))]
    <3>1. MulU32(b, v) = [b EXCEPT !.limbs = Carried(MulLoop(s, v))]
      BY <1>4, <2>1 DEF MulU32, MulLoop
    <3>2. b.sign = FALSE
      BY DEF IsBig
    <3> QED
      BY <1>1, <3>1, <3>2
  <2>4. Canon(Carried(MulLoop(s, v))) /\ Val(Carried(MulLoop(s, v))) = v * Val(s)
    BY <1>1, <1>4, <2>1, MulCarried
  <2> QED
    BY <2>1, <2>3, <2>4, MakeBig
<1> QED
  BY <1>3, <1>4

\* add_u32 adds.
LEMMA AddU32Facts ==
    ASSUME NEW b, IsBig(b), ~b.sign, NEW v \in Limb
    PROVE  /\ IsBig(AddU32(b, v)) /\ ~AddU32(b, v).sign
           /\ Val(AddU32(b, v).limbs) = Val(b.limbs) + v
<1>1. /\ b = [sign |-> b.sign, limbs |-> b.limbs] /\ Canon(b.limbs) /\ b.limbs \in Seq(Limb)
      /\ Val(b.limbs) \in Nat
  BY BigFacts
<1>2. v \in Nat /\ v < BASE
  BY BaseNat DEF Limb
<1>3. PICK s : s = b.limbs
  OBVIOUS
<1>4. PICK n \in Nat, t \in Nat : n = Len(s) /\ t = Val(s) + v
  <2>1. Val(s) + v \in Nat /\ Len(s) \in Nat
    BY <1>1, <1>2, <1>3
  <2> QED
    BY <2>1
<1>5. AddU32(b, v) = [sign |-> FALSE, limbs |-> Carried(AddLoop(s, v))]
  <2>1. AddU32(b, v) = [b EXCEPT !.limbs = Carried(AddLoop(s, v))]
    BY <1>3 DEF AddU32, AddLoop
  <2>2. b.sign = FALSE
    BY DEF IsBig
  <2> QED
    BY <1>1, <2>1, <2>2
<1>6. Carrying(AddLoop(s, v), n, t) /\ AddLoop(s, v).carry < BASE
  BY <1>1, <1>3, <1>4, AddLoopFacts
<1>7. n # 0 => W(n - 1) <= t
  <2>1. n # 0 => n - 1 \in Nat /\ W(n - 1) <= Val(s)
    BY <1>1, <1>3, <1>4, CanonWeight
  <2>2. n # 0 => W(n - 1) \in Nat
    BY <2>1, WeightStep
  <2> QED
    BY <1>1, <1>2, <1>3, <1>4, <2>1, <2>2
<1>8. Canon(Carried(AddLoop(s, v))) /\ Val(Carried(AddLoop(s, v))) = t
  BY <1>6, <1>7, CarriedFacts
<1> QED
  BY <1>3, <1>4, <1>5, <1>8, MakeBig

-----------------------------------------------------------------------------
(* Addition and subtraction of magnitudes.                                   *)

\* The body of the loop of AddAbs.
AddAbsOp(p, st, i) == CarryLimb(st, At(p[1], i) + At(p[2], i) + st.carry)
AddAbsRounds == INSTANCE HehRecursion WITH Op <- AddAbsOp

\* The loop of add_abs over the first n places.
AddAbsLoop(a, b, n) ==
    FoldLeft(LAMBDA st, i : CarryLimb(st, At(a, i) + At(b, i) + st.carry), NoCarry,
             [i \in 1..n |-> i])

\* The loop of add_abs adds the first n limbs.
LEMMA AddAbsLoopFacts ==
    ASSUME NEW a, a.limbs \in Seq(Limb), NEW b, b.limbs \in Seq(Limb), NEW n \in Nat
    PROVE  /\ Carrying(AddAbsLoop(a, b, n), n, Sum(a.limbs, n) + Sum(b.limbs, n))
           /\ AddAbsLoop(a, b, n).carry < BASE
<1>0. PICK s : s = a.limbs /\ s \in Seq(Limb)
  OBVIOUS
<1>t. PICK t : t = b.limbs /\ t \in Seq(Limb)
  OBVIOUS
<1>a. PICK q : q = [i \in 1..n |-> i]
  OBVIOUS
<1>1. q = [i \in 1..n |-> i] /\ DOMAIN q = 1..n
  BY <1>a
<1>2. AddAbsLoop(a, b, n) = AddAbsRounds!FoldL(<<a, b>>, NoCarry, q, 1..n)
  BY <1>1 DEF AddAbsLoop, FoldLeft, MapThenFoldSet, Max, AddAbsRounds!FoldL, AddAbsRounds!Top,
              AddAbsOp
<1>3. PICK R : /\ AddAbsRounds!LeftRounds(R, <<a, b>>, NoCarry, q)
               /\ AddAbsRounds!FoldL(<<a, b>>, NoCarry, q, 1..n) = R[n]
  <2>0. AddAbsRounds!Induction
    BY AllNat DEF AddAbsRounds!Induction
  <2> QED
    BY <2>0, AddAbsRounds!LeftFold
<1>4. /\ R[0] = NoCarry
      /\ \A k \in Nat : R[k + 1] = CarryLimb(R[k], At(a, q[k + 1]) + At(b, q[k + 1]) + R[k].carry)
  BY <1>3 DEF AddAbsRounds!LeftRounds, AddAbsOp
<1> DEFINE S == {k \in Nat : k <= n => Carrying(R[k], k, Sum(s, k) + Sum(t, k)) /\ R[k].carry < 2}
<1>6. 0 \in S
  <2>1. Sum(s, 0) = 0 /\ Sum(t, 0) = 0 /\ NoCarry.carry = 0
    BY SumStep DEF NoCarry
  <2>2. Carrying(R[0], 0, Sum(s, 0) + Sum(t, 0))
    BY <1>4, <2>1, NoCarryYet
  <2>3. R[0].carry = 0
    BY <1>4, <2>1
  <2>4. R[0].carry < 2
    BY <2>3
  <2> QED
    BY <2>2, <2>4
<1>7. ASSUME NEW k \in Nat, k \in S PROVE k + 1 \in S
  <2>1. SUFFICES ASSUME k + 1 <= n
                 PROVE  /\ Carrying(R[k + 1], k + 1, Sum(s, k + 1) + Sum(t, k + 1))
                        /\ R[k + 1].carry < 2
    OBVIOUS
  <2>2. Carrying(R[k], k, Sum(s, k) + Sum(t, k)) /\ R[k].carry < 2
    BY <1>7, <2>1
  <2>3. PICK x \in Nat, y \in Nat, w \in Nat, c \in Nat :
            /\ x = Sum(s, k) /\ y = Sum(t, k) /\ w = W(k) /\ c = R[k].carry /\ c < 2
    <3>1. Sum(s, k) \in Nat /\ Sum(t, k) \in Nat /\ W(k) \in Nat
      BY <1>0, <1>t, SumBound, WeightStep
    <3>2. R[k].carry \in Nat
      BY <2>2 DEF Carrying
    <3> QED
      BY <2>2, <3>1, <3>2
  <2>4. PICK d \in Nat, e \in Nat :
            d = Digit(s, k + 1) /\ e = Digit(t, k + 1) /\ d < BASE /\ e < BASE
    BY <1>0, <1>t, DigitFacts
  <2>5. R[k + 1] = CarryLimb(R[k], (d + e) + R[k].carry)
    <3>1. q[k + 1] = k + 1
      BY <1>1, <2>1
    <3>2. At(a, k + 1) = d /\ At(b, k + 1) = e
      BY <1>0, <1>t, <2>4 DEF At, Digit
    <3> QED
      BY <1>4, <3>1, <3>2
  <2>6. x + y \in Nat /\ d + e \in Nat
    OBVIOUS
  <2>7. /\ Carrying(R[k + 1], k + 1, (x + y) + (d + e) * w)
        /\ R[k + 1].carry = (d + e + c) \div BASE
    BY <2>2, <2>3, <2>5, <2>6, CarryLimbAdds
  <2>8. (x + y) + (d + e) * w = Sum(s, k + 1) + Sum(t, k + 1)
    <3>1. Sum(s, k + 1) = x + d * w /\ Sum(t, k + 1) = y + e * w
      BY <2>3, <2>4, SumStep
    <3>2. (d + e) * w = d * w + e * w /\ d * w \in Nat /\ e * w \in Nat
      BY MulDist, MulNat
    <3> QED
      BY <3>1, <3>2
  <2>9. (d + e + c) \div BASE \in Nat /\ (d + e + c) \div BASE < 2
    <3>1. d + e + c < BASE * 2 /\ d + e + c \in Nat
      <4>1. PICK m \in Nat : m = BASE
        BY BaseNat
      <4>2. d < m /\ e < m /\ c <= 1
        BY <2>3, <2>4, <4>1
      <4>3. d + e + c < m * 2 /\ d + e + c \in Nat
        BY <4>2
      <4> QED
        BY <4>1, <4>3
    <3> QED
      BY <3>1, CarryBound
  <2> QED
    BY <2>7, <2>8, <2>9
<1> HIDE DEF S
<1>8. n \in S
  BY <1>6, <1>7, AllNat
<1>9. Carrying(R[n], n, Sum(s, n) + Sum(t, n)) /\ R[n].carry < 2
  BY <1>8 DEF S
<1>10. R[n].carry < BASE
  BY <1>9, BaseNat DEF Carrying
<1> QED
  BY <1>0, <1>t, <1>2, <1>3, <1>9, <1>10

\* add_abs adds magnitudes.
LEMMA AddAbsFacts ==
    ASSUME NEW a, Canon(a.limbs), NEW b, Canon(b.limbs)
    PROVE  Canon(AddAbs(a, b)) /\ Val(AddAbs(a, b)) = Val(a.limbs) + Val(b.limbs)
<1>1. PICK l : l = IF Len(a.limbs) >= Len(b.limbs) THEN a ELSE b
  OBVIOUS
<1>2. PICK n \in Nat, x \in Nat, y \in Nat :
          /\ n = Len(l.limbs) /\ Len(a.limbs) <= n /\ Len(b.limbs) <= n
          /\ x = Val(a.limbs) /\ y = Val(b.limbs) /\ (n = Len(a.limbs) \/ n = Len(b.limbs))
  <2>1. /\ Len(a.limbs) \in Nat /\ Len(b.limbs) \in Nat
        /\ Val(a.limbs) \in Nat /\ Val(b.limbs) \in Nat
    BY ValBound DEF Canon
  <2> QED
    BY <1>1, <2>1
<1>3. AddAbs(a, b) = Carried(AddAbsLoop(a, b, n))
  <2>1. Places(l) = [i \in 1..n |-> i]
    BY <1>2 DEF Places
  <2>2. AddAbs(a, b) = Carried(FoldLeft(LAMBDA st, i : CarryLimb(st, At(a, i) + At(b, i) + st.carry),
                                        NoCarry, Places(l)))
    BY <1>1, Zenon DEF AddAbs
  <2> QED
    BY <2>1, <2>2 DEF AddAbsLoop
<1>4. Sum(a.limbs, n) = x /\ Sum(b.limbs, n) = y
  <2>1. /\ a.limbs \in Seq(Limb) /\ Len(a.limbs) \in Nat
        /\ b.limbs \in Seq(Limb) /\ Len(b.limbs) \in Nat
    BY DEF Canon
  <2>2. Sum(a.limbs, n) = Sum(a.limbs, Len(a.limbs))
    BY <1>2, <2>1, SumGrows
  <2>3. Sum(b.limbs, n) = Sum(b.limbs, Len(b.limbs))
    BY <1>2, <2>1, SumGrows
  <2> QED
    BY <1>2, <2>2, <2>3 DEF Val
<1>5. Carrying(AddAbsLoop(a, b, n), n, x + y) /\ AddAbsLoop(a, b, n).carry < BASE
  BY <1>4, AddAbsLoopFacts DEF Canon
<1>6. n # 0 => W(n - 1) <= x + y
  <2>1. n # 0 => n - 1 \in Nat /\ (W(n - 1) <= x \/ W(n - 1) <= y)
    BY <1>2, CanonWeight
  <2>2. n # 0 => W(n - 1) \in Nat
    BY <2>1, WeightStep
  <2> QED
    BY <2>1, <2>2
<1>7. x + y \in Nat
  OBVIOUS
<1>8. Canon(Carried(AddAbsLoop(a, b, n))) /\ Val(Carried(AddAbsLoop(a, b, n))) = x + y
  BY <1>5, <1>6, <1>7, CarriedFacts
<1> QED
  BY <1>2, <1>3, <1>8

\* After j places the limbs pushed, less what was borrowed from the next, make D.
Borrowing(st, j, D) ==
    /\ st.limbs \in Seq(Limb) /\ Len(st.limbs) = j /\ st.carry \in 0..1
    /\ Val(st.limbs) - st.carry * W(j) = D

\* A round that borrows takes the difference at its place.
LEMMA BorrowLimbTakes ==
    ASSUME NEW st, NEW j \in Nat, NEW D \in Int, Borrowing(st, j, D),
           NEW d \in Limb, NEW e \in Limb, NEW next, next = BorrowLimb(st, d - e - st.carry)
    PROVE  Borrowing(next, j + 1, D + (d - e) * W(j))
<1>0. PICK c \in 0..1 : c = st.carry
  BY DEF Borrowing
<1>1. PICK diff \in Int : diff = d - e - c
  <2>1. d \in Int /\ e \in Int
    BY BaseNat DEF Limb
  <2>2. d - e - c \in Int
    BY <2>1
  <2> QED
    BY <2>2
<1>2. PICK r \in Limb, f \in 0..1 :
          next = [limbs |-> Append(st.limbs, r), carry |-> f] /\ r = diff + BASE * f
  <2>1. CASE diff < 0
    <3>1. diff + BASE \in Limb /\ BASE * 1 = BASE
      BY <1>0, <1>1, <2>1, BaseNat DEF Limb
    <3>2. next = [limbs |-> Append(st.limbs, diff + BASE), carry |-> 1]
      BY <1>0, <1>1, <2>1 DEF BorrowLimb
    <3>3. diff + BASE = diff + BASE * 1 /\ 1 \in 0..1
      BY <3>1
    <3> QED
      BY <3>1, <3>2, <3>3
  <2>2. CASE ~(diff < 0)
    <3>1. diff \in Limb /\ BASE * 0 = 0
      BY <1>0, <1>1, <2>2, BaseNat DEF Limb
    <3>2. next = [limbs |-> Append(st.limbs, diff), carry |-> 0]
      BY <1>0, <1>1, <2>2 DEF BorrowLimb
    <3>3. diff = diff + BASE * 0 /\ 0 \in 0..1
      BY <3>1
    <3> QED
      BY <3>1, <3>2, <3>3
  <2> QED
    BY <2>1, <2>2
<1>3. PICK w \in Nat, v \in Nat : w = W(j) /\ v = Val(st.limbs)
  <2>1. W(j) \in Nat
    BY WeightStep
  <2>2. Val(st.limbs) \in Nat
    BY ValBound DEF Borrowing
  <2> QED
    BY <2>1, <2>2
<1>4. /\ next.limbs \in Seq(Limb) /\ Len(next.limbs) = j + 1 /\ next.carry = f
      /\ Val(next.limbs) = v + r * w
  <2>1. st.limbs \in Seq(Limb) /\ Len(st.limbs) = j
    BY DEF Borrowing
  <2>2. next.limbs = Append(st.limbs, r) /\ next.carry = f
    BY <1>2
  <2>3. Append(st.limbs, r) \in Seq(Limb) /\ Len(Append(st.limbs, r)) = j + 1
    BY <2>1
  <2>4. Val(Append(st.limbs, r)) = v + r * w
    BY <1>3, <2>1, ValAppend
  <2> QED
    BY <2>2, <2>3, <2>4
<1>5. W(j + 1) = BASE * w
  BY <1>3, WeightStep
<1>6. D = v - c * w
  BY <1>0, <1>3 DEF Borrowing
<1>7. (v + r * w) - f * (BASE * w) = (v - c * w) + (d - e) * w
  <2>1. /\ r \in Int /\ f \in Int /\ w \in Int /\ v \in Int /\ BASE \in Int /\ c \in Int
        /\ d \in Int /\ e \in Int
    BY BaseNat DEF Limb
  <2>2. f * (BASE * w) = (BASE * f) * w
    <3>1. f * (BASE * w) = (f * BASE) * w /\ f * BASE = BASE * f
      BY <2>1, MulAssoc
    <3> QED
      BY <3>1
  <2>3. PICK g \in Int : g = BASE * f
    BY <2>1
  <2>4. r = (d - e) - c + g
    BY <1>1, <1>2, <2>1, <2>3
  <2>5. r * w = (d - e) * w - c * w + g * w
    BY <2>1, <2>3, <2>4
  <2>6. (d - e) * w \in Int /\ c * w \in Int /\ g * w \in Int
    BY <2>1
  <2> QED
    BY <2>1, <2>2, <2>3, <2>5, <2>6
<1>8. Val(next.limbs) - next.carry * W(j + 1) = D + (d - e) * W(j)
  BY <1>3, <1>4, <1>5, <1>6, <1>7
<1> QED
  BY <1>4, <1>8 DEF Borrowing

\* The body of the loop of SubAbs.
SubAbsOp(p, st, i) == BorrowLimb(st, At(p[1], i) - At(p[2], i) - st.carry)
SubAbsRounds == INSTANCE HehRecursion WITH Op <- SubAbsOp

\* The loop of sub_abs over the first n places.
SubAbsLoop(a, b, n) ==
    FoldLeft(LAMBDA st, i : BorrowLimb(st, At(a, i) - At(b, i) - st.carry), NoCarry,
             [i \in 1..n |-> i])

\* The loop of sub_abs subtracts the first n limbs.
LEMMA SubAbsLoopFacts ==
    ASSUME NEW a, a.limbs \in Seq(Limb), NEW b, b.limbs \in Seq(Limb), NEW n \in Nat
    PROVE  Borrowing(SubAbsLoop(a, b, n), n, Sum(a.limbs, n) - Sum(b.limbs, n))
<1>0. PICK s : s = a.limbs /\ s \in Seq(Limb)
  OBVIOUS
<1>t. PICK t : t = b.limbs /\ t \in Seq(Limb)
  OBVIOUS
<1>a. PICK q : q = [i \in 1..n |-> i]
  OBVIOUS
<1>1. q = [i \in 1..n |-> i] /\ DOMAIN q = 1..n
  BY <1>a
<1>2. SubAbsLoop(a, b, n) = SubAbsRounds!FoldL(<<a, b>>, NoCarry, q, 1..n)
  BY <1>1 DEF SubAbsLoop, FoldLeft, MapThenFoldSet, Max, SubAbsRounds!FoldL, SubAbsRounds!Top,
              SubAbsOp
<1>3. PICK R : /\ SubAbsRounds!LeftRounds(R, <<a, b>>, NoCarry, q)
               /\ SubAbsRounds!FoldL(<<a, b>>, NoCarry, q, 1..n) = R[n]
  <2>0. SubAbsRounds!Induction
    BY AllNat DEF SubAbsRounds!Induction
  <2> QED
    BY <2>0, SubAbsRounds!LeftFold
<1>4. /\ R[0] = NoCarry
      /\ \A k \in Nat : R[k + 1] = BorrowLimb(R[k], At(a, q[k + 1]) - At(b, q[k + 1]) - R[k].carry)
  BY <1>3 DEF SubAbsRounds!LeftRounds, SubAbsOp
<1> DEFINE S == {k \in Nat : k <= n => Borrowing(R[k], k, Sum(s, k) - Sum(t, k))}
<1>6. 0 \in S
  <2>1. /\ Sum(s, 0) = 0 /\ Sum(t, 0) = 0
        /\ NoCarry.carry = 0 /\ NoCarry.limbs = <<>>
    BY SumStep DEF NoCarry
  <2>2. Val(<<>>) - 0 * W(0) = 0 - 0
    BY ValEmpty, WeightStep
  <2>3. 0 \in 0..1
    OBVIOUS
  <2> QED
    BY <1>4, <2>1, <2>2, <2>3, ValEmpty DEF Borrowing
<1>7. ASSUME NEW k \in Nat, k \in S PROVE k + 1 \in S
  <2>1. SUFFICES ASSUME k + 1 <= n
                 PROVE  Borrowing(R[k + 1], k + 1, Sum(s, k + 1) - Sum(t, k + 1))
    OBVIOUS
  <2>2. Borrowing(R[k], k, Sum(s, k) - Sum(t, k))
    BY <1>7, <2>1
  <2>3. PICK x \in Nat, y \in Nat, w \in Nat : x = Sum(s, k) /\ y = Sum(t, k) /\ w = W(k)
    <3>1. Sum(s, k) \in Nat /\ Sum(t, k) \in Nat /\ W(k) \in Nat
      BY <1>0, <1>t, SumBound, WeightStep
    <3> QED
      BY <3>1
  <2>4. PICK d \in Limb, e \in Limb : d = Digit(s, k + 1) /\ e = Digit(t, k + 1)
    BY <1>0, <1>t, DigitFacts
  <2>5. R[k + 1] = BorrowLimb(R[k], d - e - R[k].carry)
    <3>1. q[k + 1] = k + 1
      BY <1>1, <2>1
    <3>2. At(a, k + 1) = d /\ At(b, k + 1) = e
      BY <1>0, <1>t, <2>4 DEF At, Digit
    <3> QED
      BY <1>4, <3>1, <3>2
  <2>6. x - y \in Int
    OBVIOUS
  <2>7. Borrowing(R[k + 1], k + 1, (x - y) + (d - e) * w)
    BY <2>2, <2>3, <2>5, <2>6, BorrowLimbTakes
  <2>8. (x - y) + (d - e) * w = Sum(s, k + 1) - Sum(t, k + 1)
    <3>1. Sum(s, k + 1) = x + d * w /\ Sum(t, k + 1) = y + e * w
      BY <2>3, <2>4, SumStep
    <3>2. d \in Int /\ e \in Int
      BY BaseNat DEF Limb
    <3>3. (d - e) * w = d * w - e * w /\ d * w \in Int /\ e * w \in Int
      BY <3>2
    <3> QED
      BY <3>1, <3>3
  <2> QED
    BY <2>7, <2>8
<1> HIDE DEF S
<1>8. n \in S
  BY <1>6, <1>7, AllNat
<1>9. Borrowing(R[n], n, Sum(s, n) - Sum(t, n))
  BY <1>8 DEF S
<1> QED
  BY <1>0, <1>t, <1>2, <1>3, <1>9

\* sub_abs takes a magnitude from one that is no smaller: nothing is borrowed at
\* the end.
LEMMA SubAbsFacts ==
    ASSUME NEW a, Canon(a.limbs), NEW b, Canon(b.limbs), Val(b.limbs) <= Val(a.limbs)
    PROVE  Canon(SubAbs(a, b)) /\ Val(SubAbs(a, b)) = Val(a.limbs) - Val(b.limbs)
<1>1. PICK n \in Nat, x \in Nat, y \in Nat :
          n = Len(a.limbs) /\ x = Val(a.limbs) /\ y = Val(b.limbs)
  <2>1. Len(a.limbs) \in Nat /\ Val(a.limbs) \in Nat /\ Val(b.limbs) \in Nat
    BY ValBound DEF Canon
  <2> QED
    BY <2>1
<1>2. PICK st : st = SubAbsLoop(a, b, n)
  OBVIOUS
<1>3. SubAbs(a, b) = Trim(st.limbs)
  <2>1. Places(a) = [i \in 1..n |-> i]
    BY <1>1 DEF Places
  <2>2. SubAbs(a, b) = Trim(FoldLeft(LAMBDA u, i : BorrowLimb(u, At(a, i) - At(b, i) - u.carry),
                                     NoCarry, Places(a)).limbs)
    BY Zenon DEF SubAbs
  <2> QED
    BY <1>2, <2>1, <2>2 DEF SubAbsLoop
<1>4. Sum(a.limbs, n) = x /\ Sum(b.limbs, n) = y
  <2>1. x < W(n) /\ W(n) \in Nat
    BY <1>1, ValBound, WeightStep DEF Canon
  <2>2. y < W(n)
    BY <1>1, <2>1
  <2> QED
    BY <1>1, <2>1, <2>2, CanonShort
<1>5. Borrowing(st, n, x - y)
  BY <1>2, <1>4, SubAbsLoopFacts DEF Canon
<1>6. st.limbs \in Seq(Limb) /\ Val(st.limbs) = x - y
  <2>1. PICK v \in Nat, w \in Nat, c \in 0..1 :
            v = Val(st.limbs) /\ w = W(n) /\ c = st.carry /\ v < w /\ v - c * w = x - y
    <3>1. Val(st.limbs) \in Nat /\ W(n) \in Nat /\ Val(st.limbs) < W(n)
      BY <1>5, ValBound, WeightStep DEF Borrowing
    <3>2. st.carry \in 0..1 /\ Val(st.limbs) - st.carry * W(n) = x - y
      BY <1>5 DEF Borrowing
    <3> QED
      BY <3>1, <3>2
  <2>2. c = 0
    <3>1. ASSUME c = 1 PROVE FALSE
      <4>1. v - 1 * w = x - y
        BY <2>1, <3>1
      <4>2. x - y >= 0
        BY <1>1
      <4> QED
        BY <2>1, <4>1, <4>2
    <3> QED
      BY <3>1
  <2>3. v = x - y
    BY <2>1, <2>2
  <2> QED
    BY <1>5, <2>1, <2>3 DEF Borrowing
<1> QED
  BY <1>1, <1>3, <1>6, TrimFacts

-----------------------------------------------------------------------------
(* Addition and subtraction.                                                 *)

\* A natural number with a sign.
WithSign(sign, n) == IF sign THEN -n ELSE n

\* Of two numbers of opposite signs the smaller magnitude is taken from the larger.
LEMMA DifferenceFacts ==
    ASSUME NEW a, Canon(a.limbs), NEW b, Canon(b.limbs),
           NEW signA \in BOOLEAN, NEW signB \in BOOLEAN, signA # signB,
           NEW c, c = Difference(a, b, signA, signB, CmpAbs(a, b))
    PROVE  IsBig(c) /\ IntOf(c) = WithSign(signA, Val(a.limbs)) + WithSign(signB, Val(b.limbs))
<1>1. PICK x \in Nat, y \in Nat : x = Val(a.limbs) /\ y = Val(b.limbs)
  <2>1. Val(a.limbs) \in Nat /\ Val(b.limbs) \in Nat
    BY ValBound DEF Canon
  <2> QED
    BY <2>1
<1>2. PICK order : order = CmpAbs(a, b) /\ order = CmpInt(x, y)
  BY <1>1, CmpAbsIsOrder
<1>3. CASE x = y
  <2>1. order = 0
    BY <1>2, <1>3 DEF CmpInt
  <2>2. c = Zero
    BY <1>2, <2>1 DEF Difference
  <2>3. WithSign(signA, x) + WithSign(signB, y) = 0
    BY <1>3 DEF WithSign
  <2> QED
    BY <1>1, <2>2, <2>3, ZeroFacts
<1>4. CASE x > y
  <2>1. order = 1
    BY <1>2, <1>4 DEF CmpInt
  <2>2. c = [sign |-> signA, limbs |-> SubAbs(a, b)]
    BY <1>2, <2>1 DEF Difference
  <2>3. Canon(SubAbs(a, b)) /\ Val(SubAbs(a, b)) = x - y
    BY <1>1, <1>4, SubAbsFacts
  <2>4. IsBig(c) /\ IntOf(c) = IF signA THEN -(x - y) ELSE x - y
    <3>1. x - y > 0
      BY <1>4
    <3>2. Val(SubAbs(a, b)) > 0
      BY <2>3, <3>1
    <3> QED
      BY <2>2, <2>3, <3>2, MakeBig
  <2>5. WithSign(signA, x) + WithSign(signB, y) = IF signA THEN -(x - y) ELSE x - y
    BY DEF WithSign
  <2> QED
    BY <1>1, <2>4, <2>5
<1>5. CASE x < y
  <2>1. order = -1
    BY <1>2, <1>5 DEF CmpInt
  <2>2. c = [sign |-> signB, limbs |-> SubAbs(b, a)]
    BY <1>2, <2>1 DEF Difference
  <2>3. Canon(SubAbs(b, a)) /\ Val(SubAbs(b, a)) = y - x
    BY <1>1, <1>5, SubAbsFacts
  <2>4. IsBig(c) /\ IntOf(c) = IF signB THEN -(y - x) ELSE y - x
    <3>1. y - x > 0
      BY <1>5
    <3>2. Val(SubAbs(b, a)) > 0
      BY <2>3, <3>1
    <3> QED
      BY <2>2, <2>3, <3>2, MakeBig
  <2>5. WithSign(signA, x) + WithSign(signB, y) = IF signB THEN -(y - x) ELSE y - x
    BY DEF WithSign
  <2> QED
    BY <1>1, <2>4, <2>5
<1> QED
  BY <1>3, <1>4, <1>5

\* Magnitudes of numbers of the same sign are added.
LEMMA SameSignFacts ==
    ASSUME NEW a, IsBig(a), NEW b, IsBig(b), NEW c, c = [a EXCEPT !.limbs = AddAbs(a, b)]
    PROVE  IsBig(c) /\ IntOf(c) = WithSign(a.sign, Val(a.limbs)) + WithSign(a.sign, Val(b.limbs))
<1>1. PICK x \in Nat, y \in Nat : x = Val(a.limbs) /\ y = Val(b.limbs)
  BY BigFacts
<1>2. a = [sign |-> a.sign, limbs |-> a.limbs] /\ a.sign \in BOOLEAN
  BY BigFacts
<1>3. c = [sign |-> a.sign, limbs |-> AddAbs(a, b)]
  BY <1>2
<1>4. Canon(AddAbs(a, b)) /\ Val(AddAbs(a, b)) = x + y
  BY <1>1, AddAbsFacts DEF IsBig
<1>5. a.sign => x > 0
  <2>1. a.sign => IntOf(a) < 0
    BY BigFacts
  <2>2. a.sign => IntOf(a) = -x
    BY <1>1 DEF IntOf
  <2> QED
    BY <2>1, <2>2
<1>6. x + y > 0 \/ ~a.sign
  BY <1>5
<1>7. IsBig(c) /\ IntOf(c) = IF a.sign THEN -(x + y) ELSE x + y
  BY <1>2, <1>3, <1>4, <1>6, MakeBig
<1> QED
  BY <1>1, <1>7 DEF WithSign

\* Addition and subtraction of numbers in limbs.
LEMMA AddBigFacts ==
    ASSUME NEW a, IsBig(a), NEW b, IsBig(b)
    PROVE  IsBig(AddBig(a, b)) /\ IntOf(AddBig(a, b)) = IntOf(a) + IntOf(b)
<1>1. /\ a.sign \in BOOLEAN /\ b.sign \in BOOLEAN /\ Canon(a.limbs) /\ Canon(b.limbs)
      /\ IntOf(a) = WithSign(a.sign, Val(a.limbs)) /\ IntOf(b) = WithSign(b.sign, Val(b.limbs))
  BY DEF IsBig, IntOf, WithSign
<1>2. CASE a.sign = b.sign
  <2>1. AddBig(a, b) = [a EXCEPT !.limbs = AddAbs(a, b)]
    BY <1>2 DEF AddBig
  <2> QED
    BY <1>1, <1>2, <2>1, SameSignFacts
<1>3. CASE a.sign # b.sign
  <2>1. AddBig(a, b) = Difference(a, b, a.sign, b.sign, CmpAbs(a, b))
    BY <1>3 DEF AddBig
  <2> QED
    BY <1>1, <1>3, <2>1, DifferenceFacts
<1> QED
  BY <1>2, <1>3

\* sub subtracts, whatever the signs.
LEMMA SubBigFacts ==
    ASSUME NEW a, IsBig(a), NEW b, IsBig(b)
    PROVE  IsBig(SubBig(a, b)) /\ IntOf(SubBig(a, b)) = IntOf(a) - IntOf(b)
<1>1. /\ a.sign \in BOOLEAN /\ b.sign \in BOOLEAN /\ Canon(a.limbs) /\ Canon(b.limbs)
      /\ IntOf(a) = WithSign(a.sign, Val(a.limbs)) /\ IntOf(b) = WithSign(b.sign, Val(b.limbs))
  BY DEF IsBig, IntOf, WithSign
<1>2. PICK x \in Nat, y \in Nat : x = Val(a.limbs) /\ y = Val(b.limbs)
  BY BigFacts
<1>3. CASE a.sign # b.sign
  <2>1. SubBig(a, b) = [a EXCEPT !.limbs = AddAbs(a, b)]
    BY <1>3 DEF SubBig
  <2>2. IsBig(SubBig(a, b)) /\ IntOf(SubBig(a, b)) = WithSign(a.sign, x) + WithSign(a.sign, y)
    BY <1>2, <2>1, SameSignFacts
  <2>3. WithSign(a.sign, y) = -WithSign(b.sign, y)
    BY <1>1, <1>3 DEF WithSign
  <2>4. WithSign(a.sign, x) \in Int /\ WithSign(b.sign, y) \in Int
    BY DEF WithSign
  <2> QED
    BY <1>1, <1>2, <2>2, <2>3, <2>4
<1>4. CASE a.sign = TRUE /\ b.sign = TRUE
  <2>1. SubBig(a, b) = Difference(a, b, TRUE, FALSE, CmpAbs(a, b))
    BY <1>4 DEF SubBig
  <2>2. IsBig(SubBig(a, b)) /\ IntOf(SubBig(a, b)) = WithSign(TRUE, x) + WithSign(FALSE, y)
    <3>1. PICK p \in BOOLEAN, q \in BOOLEAN : p = TRUE /\ q = FALSE
      OBVIOUS
    <3>2. p # q
      BY <3>1
    <3>3. SubBig(a, b) = Difference(a, b, p, q, CmpAbs(a, b))
      BY <2>1, <3>1
    <3>4. IsBig(SubBig(a, b)) /\ IntOf(SubBig(a, b)) = WithSign(p, x) + WithSign(q, y)
      BY <1>1, <1>2, <3>2, <3>3, DifferenceFacts
    <3> QED
      BY <3>1, <3>4
  <2> QED
    BY <1>1, <1>2, <1>4, <2>2 DEF WithSign
<1>5. CASE a.sign = FALSE /\ b.sign = FALSE
  <2>1. SubBig(a, b) = Difference(a, b, FALSE, TRUE, CmpAbs(a, b))
    BY <1>5 DEF SubBig
  <2>2. IsBig(SubBig(a, b)) /\ IntOf(SubBig(a, b)) = WithSign(FALSE, x) + WithSign(TRUE, y)
    <3>1. PICK p \in BOOLEAN, q \in BOOLEAN : p = FALSE /\ q = TRUE
      OBVIOUS
    <3>2. p # q
      BY <3>1
    <3>3. SubBig(a, b) = Difference(a, b, p, q, CmpAbs(a, b))
      BY <2>1, <3>1
    <3>4. IsBig(SubBig(a, b)) /\ IntOf(SubBig(a, b)) = WithSign(p, x) + WithSign(q, y)
      BY <1>1, <1>2, <3>2, <3>3, DifferenceFacts
    <3> QED
      BY <3>1, <3>4
  <2> QED
    BY <1>1, <1>2, <1>5, <2>2 DEF WithSign
<1> QED
  BY <1>1, <1>3, <1>4, <1>5

-----------------------------------------------------------------------------
(* No accumulator of a loop overflows, and the word path of // is exact.     *)

\* Division with a remainder.
LEMMA IntDivMod ==
    ASSUME NEW t \in Int, NEW d \in Nat, d > 0
    PROVE  /\ t \div d \in Int
           /\ t % d \in 0..(d - 1)
           /\ t = d * (t \div d) + (t % d)
  OBVIOUS

\* Multiplication by a natural number keeps the order.
LEMMA MulMono ==
    ASSUME NEW i \in Nat, NEW j \in Nat, NEW m \in Nat, i <= j
    PROVE  m * i <= m * j /\ i * m <= j * m
  OBVIOUS

\* CarryLimb pushes a limb and keeps the rest of the total as the carry.
LEMMA CarryLimbStep ==
    ASSUME NEW st, st.limbs \in Seq(Limb), NEW total \in Nat
    PROVE  /\ CarryLimb(st, total).limbs \in Seq(Limb)
           /\ CarryLimb(st, total).carry = total \div BASE
<1>1. (total % BASE) \in Limb
  BY BaseNat, DivMod DEF Limb
<1>2. Append(st.limbs, total % BASE) \in Seq(Limb)
  BY <1>1
<1> QED
  BY <1>2, Zenon DEF CarryLimb

-----------------------------------------------------------------------------
\* add_abs: two limbs and the carry of the last place need less than two
\* limbs, and the carry stays 0 or 1 (so the limb pushed at the end is 1).
THEOREM AddNeverOverflows ==
    ASSUME NEW a \in Limb, NEW b \in Limb, NEW st,
           st.limbs \in Seq(Limb), st.carry \in 0..1
    PROVE  LET total == a + b + st.carry
           IN  /\ total < BASE * 2
               /\ CarryLimb(st, total).limbs \in Seq(Limb)
               /\ CarryLimb(st, total).carry \in 0..1
<1> DEFINE total == a + b + st.carry
<1>1. total \in Nat /\ total < BASE * 2
  BY BaseNat DEF Limb
<1> HIDE DEF total
<1>2. total \div BASE \in 0..1
  BY <1>1, CarryBound
<1> QED
  BY <1>1, <1>2, CarryLimbStep DEF total

\* sub_abs: the limb pushed is a limb whether or not it borrowed, the borrow is
\* 0 or 1, and together they are the difference.
THEOREM BorrowIsExact ==
    ASSUME NEW a \in Limb, NEW b \in Limb, NEW st,
           st.limbs \in Seq(Limb), st.carry \in 0..1
    PROVE  LET diff == a - b - st.carry
               next == BorrowLimb(st, diff)
           IN  \E d \in Limb : /\ next.limbs = Append(st.limbs, d)
                               /\ next.carry \in 0..1
                               /\ d = diff + BASE * next.carry
<1> DEFINE diff == a - b - st.carry
<1>1. diff \in Int /\ -BASE <= diff /\ diff < BASE
  BY BaseNat DEF Limb
<1> HIDE DEF diff
<1>2. CASE diff < 0
  <2>1. diff + BASE \in Limb
    BY <1>1, <1>2, BaseNat DEF Limb
  <2>2. BorrowLimb(st, diff) = [limbs |-> Append(st.limbs, diff + BASE), carry |-> 1]
    BY <1>2 DEF BorrowLimb
  <2> QED
    BY <2>1, <2>2, <1>1, BaseNat DEF diff
<1>3. CASE ~(diff < 0)
  <2>1. diff \in Limb
    BY <1>1, <1>3, BaseNat DEF Limb
  <2>2. BorrowLimb(st, diff) = [limbs |-> Append(st.limbs, diff), carry |-> 0]
    BY <1>3 DEF BorrowLimb
  <2> QED
    BY <2>1, <2>2, <1>1, BaseNat DEF diff
<1> QED
  BY <1>2, <1>3

\* Mul: the product of two limbs, the limb already at that place and the carry
\* fit two limbs, so the u64 of the code never wraps, and the carry is a limb,
\* so the `carry as u32` that ends a row loses nothing.
THEOREM MulNeverOverflows ==
    ASSUME NEW a \in Limb, NEW b \in Limb, NEW old \in Limb, NEW carry \in Limb
    PROVE  LET total == a * b + old + carry
           IN  /\ total < BASE * BASE
               /\ total \div BASE \in Limb
               /\ total % BASE \in Limb
<1> DEFINE M == BASE - 1
           total == a * b + old + carry
<1>1. M \in Nat /\ BASE = M + 1 /\ a \in Nat /\ b \in Nat /\ a <= M /\ b <= M
  BY BaseNat DEF Limb
<1>2. old \in Nat /\ carry \in Nat /\ old <= M /\ carry <= M
  BY BaseNat DEF Limb
<1> HIDE DEF M
<1>3. a * b \in Nat /\ M * M \in Nat /\ a * b <= M * M
  <2>1. a * b <= M * b /\ M * b <= M * M
    BY <1>1, MulMono
  <2>2. a * b \in Nat /\ M * b \in Nat /\ M * M \in Nat
    BY <1>1
  <2> QED
    BY <2>1, <2>2
<1>4. BASE * BASE = M * M + M + M + 1
  BY <1>1
<1>5. total \in Nat /\ total < BASE * BASE
  BY <1>1, <1>2, <1>3, <1>4
<1> HIDE DEF total
<1>6. total \div BASE \in Limb
  BY <1>5, BaseNat, CarryBound DEF Limb
<1>7. total % BASE \in Limb
  BY <1>5, BaseNat, DivMod DEF Limb
<1> QED
  BY <1>5, <1>6, <1>7 DEF total

\* div_mod_u32: with the remainder of the places above below the divisor, the
\* dividend of a place fits two limbs and its quotient is a limb.
THEOREM LongDivisionNeverOverflows ==
    ASSUME NEW div \in 1..(BASE - 1), NEW rem \in 0..(div - 1), NEW d \in Limb
    PROVE  LET cur == rem * BASE + d
           IN  /\ cur < BASE * BASE
               /\ cur \div div \in Limb
               /\ cur % div \in 0..(div - 1)
<1> DEFINE cur == rem * BASE + d
           q == cur \div div
<1>1. /\ BASE \in Nat /\ div \in Nat /\ div > 0 /\ div <= BASE
      /\ rem \in Nat /\ rem + 1 <= div /\ d \in Nat /\ d < BASE
  BY BaseNat DEF Limb
<1>2. /\ rem * BASE \in Nat
      /\ (rem + 1) * BASE = rem * BASE + BASE
      /\ (rem + 1) * BASE <= div * BASE
      /\ div * BASE <= BASE * BASE
      /\ div * BASE \in Nat /\ BASE * BASE \in Nat
  <2>1. (rem + 1) * BASE <= div * BASE /\ div * BASE <= BASE * BASE
    BY <1>1, MulMono
  <2> QED
    BY <2>1, <1>1
<1>3. cur \in Nat /\ cur < div * BASE /\ cur < BASE * BASE
  BY <1>1, <1>2
<1> HIDE DEF cur
<1>4. /\ q \in Nat
      /\ cur % div \in 0..(div - 1)
      /\ cur = div * q + (cur % div)
  BY <1>1, <1>3, DivMod
<1> HIDE DEF q
<1>5. ASSUME q >= BASE PROVE FALSE
  <2>1. div * BASE <= div * q
    BY <1>1, <1>4, <1>5, MulMono
  <2>2. div * q \in Nat /\ div * BASE \in Nat
    BY <1>1, <1>4
  <2> QED
    BY <2>1, <2>2, <1>1, <1>3, <1>4
<1> QED
  BY <1>1, <1>3, <1>4, <1>5, BaseNat DEF q, cur, Limb

\* div_mod_floor on two words: the Euclidean quotient and remainder, adjusted by
\* one step for a negative divisor, are those of SPEC 6.1: they reconstruct the
\* dividend, and the remainder is zero or has the sign of the divisor.
THEOREM WordDivisionFloors ==
    ASSUME NEW i \in Int, NEW j \in Int, j # 0
    PROVE  LET d == FloorAdjust(EuclidDiv(i, j), EuclidRem(i, j), j)
           IN  /\ i = j * d.q[2] + d.r[2]
               /\ j > 0 => 0 <= d.r[2] /\ d.r[2] < j
               /\ j < 0 => j < d.r[2] /\ d.r[2] <= 0
<1> DEFINE q == EuclidDiv(i, j)
           r == EuclidRem(i, j)
           m == IF j < 0 THEN -j ELSE j
<1>1. m \in Nat /\ m > 0
  OBVIOUS
<1>2. /\ i \div m \in Int
      /\ i % m \in 0..(m - 1)
      /\ i = m * (i \div m) + (i % m)
  BY <1>1, IntDivMod
<1>3. q \in Int /\ r \in 0..(m - 1) /\ i = j * q + r
  <2>1. CASE j < 0
    <3>1. m = -j /\ q = -(i \div m) /\ r = i % m
      BY <2>1 DEF EuclidDiv, EuclidRem
    <3> HIDE DEF q, r, m
    <3>2. j = -m /\ m \in Int
      BY <1>1, <3>1
    <3>3. j * q = m * (i \div m)
      BY <1>2, <3>1, <3>2
    <3> QED
      BY <1>2, <3>1, <3>3
  <2>2. CASE ~(j < 0)
    <3>1. m = j /\ q = i \div m /\ r = i % m
      BY <2>2 DEF EuclidDiv, EuclidRem
    <3> QED
      BY <1>2, <3>1
  <2> QED
    BY <2>1, <2>2
<1> HIDE DEF q, r
<1>4. CASE j < 0 /\ r # 0
  <2>1. FloorAdjust(q, r, j) = [q |-> Small(q - 1), r |-> Small(r + j)]
    BY <1>4 DEF FloorAdjust
  <2>2. i = j * (q - 1) + (r + j)
    BY <1>3
  <2> QED
    BY <2>1, <2>2, <1>3, <1>4 DEF Small, q, r
<1>5. CASE ~(j < 0 /\ r # 0)
  <2>1. FloorAdjust(q, r, j) = [q |-> Small(q), r |-> Small(r)]
    BY <1>5 DEF FloorAdjust
  <2> QED
    BY <2>1, <1>3, <1>5 DEF Small, q, r
<1> QED
  BY <1>4, <1>5

-----------------------------------------------------------------------------
(* Multiplication.                                                           *)

\* A limb replaced by another.
LEMMA SumUpdate ==
    ASSUME NEW s, s \in Seq(Limb), NEW k \in Nat, k + 1 \in 1..Len(s), NEW d \in Limb,
           NEW t, t = [s EXCEPT ![k + 1] = d]
    PROVE  /\ t \in Seq(Limb) /\ Len(t) = Len(s) /\ t[k + 1] = d
           /\ \A i \in 1..Len(s) : i # k + 1 => t[i] = s[i]
           /\ Val(t) = Val(s) + (d - s[k + 1]) * W(k)
<1>1. PICK n \in Nat : n = Len(s) /\ k + 1 \in 1..n /\ DOMAIN s = 1..n
  OBVIOUS
<1>2. /\ t \in Seq(Limb) /\ Len(t) = n /\ t[k + 1] = d
      /\ \A i \in 1..n : i # k + 1 => t[i] = s[i]
  <2>1. \A i \in 1..n : s[i] \in Limb
    BY <1>1
  <2>2. t = [i \in 1..n |-> IF i = k + 1 THEN d ELSE s[i]]
    BY <1>1
  <2> QED
    BY <1>1, <2>1, <2>2
<1>3. /\ \A i \in 1..n : Digit(s, i) = s[i] /\ Digit(t, i) = t[i]
      /\ \A i : Digit(s, i) \in Nat /\ Digit(t, i) \in Nat
  BY <1>1, <1>2, DigitFacts
<1>4. PICK x \in Int, w \in Nat, e \in Int, f \in Int :
          x = (f - e) * w /\ w = W(k) /\ e = s[k + 1] /\ f = d
  <2>1. s[k + 1] \in Int /\ d \in Int
    <3>1. s[k + 1] \in Limb
      BY <1>1
    <3> QED
      BY <3>1, BaseNat DEF Limb
  <2>2. W(k) \in Nat
    BY WeightStep
  <2>3. (d - s[k + 1]) * W(k) \in Int
    BY <2>1, <2>2
  <2> QED
    BY <2>1, <2>2, <2>3
<1>5. Sum(t, k) = Sum(s, k)
  <2>1. \A i \in 1..k : Digit(t, i) = Digit(s, i)
    <3>1. ASSUME NEW i \in 1..k
          PROVE  i \in 1..n /\ i # k + 1
      BY <1>1, <3>1
    <3> QED
      BY <1>2, <1>3, <3>1
  <2>2. k \in 0..k
    OBVIOUS
  <2>3. \A i \in 0..k : Sum(t, i) = Sum(s, i)
    BY <2>1, SumSame, Zenon
  <2> QED
    BY <2>2, <2>3
<1>6. Sum(t, k + 1) = Sum(s, k + 1) + x
  <2>1. PICK a \in Nat : a = Sum(s, k)
    BY SumBound
  <2>2. Digit(s, k + 1) = e /\ Digit(t, k + 1) = f
    BY <1>1, <1>2, <1>3, <1>4
  <2>3. Sum(s, k + 1) = a + e * w /\ Sum(t, k + 1) = a + f * w
    <3>1. /\ Sum(s, k + 1) = Sum(s, k) + Digit(s, k + 1) * W(k)
          /\ Sum(t, k + 1) = Sum(t, k) + Digit(t, k + 1) * W(k)
      BY SumStep
    <3> QED
      BY <1>4, <1>5, <2>1, <2>2, <3>1
  <2>4. f * w = e * w + (f - e) * w /\ e * w \in Int /\ f * w \in Int
    OBVIOUS
  <2>5. a + f * w = (a + e * w) + x
    <3>1. PICK fw \in Int, ew \in Int : fw = f * w /\ ew = e * w
      BY <2>4
    <3>2. fw = ew + x
      BY <1>4, <2>4, <3>1
    <3>3. a + fw = (a + ew) + x
      BY <3>2
    <3> QED
      BY <3>1, <3>3
  <2> QED
    BY <2>3, <2>5
<1> DEFINE S == {m \in Nat : m > k /\ m <= n => Sum(t, m) = Sum(s, m) + x}
<1>7. 0 \in S
  OBVIOUS
<1>8. ASSUME NEW m \in Nat, m \in S PROVE m + 1 \in S
  <2>1. SUFFICES ASSUME m + 1 > k, m + 1 <= n
                 PROVE  Sum(t, m + 1) = Sum(s, m + 1) + x
    OBVIOUS
  <2>2. CASE m = k
    BY <1>6, <2>2
  <2>3. CASE m # k
    <3>1. m > k /\ m <= n /\ m + 1 \in 1..n /\ m + 1 # k + 1
      BY <2>1, <2>3
    <3>2. Sum(t, m) = Sum(s, m) + x
      BY <1>8, <3>1
    <3>3. PICK a \in Nat, g \in Nat, v \in Nat :
              a = Sum(s, m) /\ g = Digit(s, m + 1) /\ g = Digit(t, m + 1) /\ v = W(m)
      <4>1. Sum(s, m) \in Nat /\ W(m) \in Nat
        BY SumBound, WeightStep
      <4>2. Digit(s, m + 1) = Digit(t, m + 1)
        BY <1>2, <1>3, <3>1
      <4> QED
        BY <1>3, <4>1, <4>2
    <3>4. Sum(s, m + 1) = a + g * v /\ Sum(t, m + 1) = (a + x) + g * v
      <4>1. Sum(t, m) = a + x
        BY <3>2, <3>3
      <4>2. /\ Sum(s, m + 1) = Sum(s, m) + Digit(s, m + 1) * W(m)
            /\ Sum(t, m + 1) = Sum(t, m) + Digit(t, m + 1) * W(m)
        BY SumStep
      <4> QED
        BY <3>3, <4>1, <4>2
    <3>5. PICK y \in Nat : y = g * v
      <4>1. g * v \in Nat
        BY MulNat
      <4> QED
        BY <4>1
    <3> QED
      BY <3>4, <3>5
  <2> QED
    BY <2>2, <2>3
<1> HIDE DEF S
<1>9. n \in S
  BY <1>7, <1>8, AllNat
<1>10. Sum(t, n) = Sum(s, n) + x
  <2>1. n > k /\ n <= n
    BY <1>1
  <2> QED
    BY <1>9, <2>1 DEF S
<1> QED
  BY <1>1, <1>2, <1>4, <1>10 DEF Val

\* The row of a product: p has the number, and the row, that is multiplied.
MulRowOp(p, st, j) ==
    MulLimb(st, p[3], j, p[1].limbs[p[3]] * p[2].limbs[j] + st.limbs[p[3] + j - 1] + st.carry)
\* The inner loop of MulBig, a row of the product.
MulRowRounds == INSTANCE HehRecursion WITH Op <- MulRowOp

\* The row of the product for limb i of a.
MulRowLoop(limbs, a, b, i) ==
    FoldLeft(LAMBDA st, j : MulLimb(st, i, j,
                                    a.limbs[i] * b.limbs[j] + st.limbs[i + j - 1] + st.carry),
             [limbs |-> limbs, carry |-> 0], Places(b))

\* After j limbs of the row that starts at place i + 1, of a product of n limbs: the limbs,
\* and the carry at the next place, make T; the places above hold what they did.
Multiplying(st, n, i, j, limbs, T) ==
    /\ st.limbs \in Seq(Limb) /\ Len(st.limbs) = n /\ st.carry \in Limb
    /\ \A k \in 1..n : k > i + j => st.limbs[k] = limbs[k]
    /\ Val(st.limbs) + st.carry * W(i + j) = T

\* A round adds the product of two limbs at its place.
LEMMA MulLimbAdds ==
    ASSUME NEW st, NEW n \in Nat, NEW i \in Nat, NEW j \in Nat, NEW limbs, NEW T \in Nat,
           Multiplying(st, n, i, j, limbs, T), i + j + 1 <= n,
           NEW x \in Limb, NEW y \in Limb, NEW next,
           next = MulLimb(st, i + 1, j + 1,
                          x * y + st.limbs[(i + 1) + (j + 1) - 1] + st.carry)
    PROVE  Multiplying(next, n, i, j + 1, limbs, T + (x * y) * W(i + j))
<1>1. PICK k \in Nat : k = i + j /\ k + 1 \in 1..n /\ (i + 1) + (j + 1) - 1 = k + 1
  OBVIOUS
<1>2. PICK s : s = st.limbs /\ s \in Seq(Limb) /\ Len(s) = n
  BY DEF Multiplying
<1>3. PICK old \in Limb, c \in Limb : old = s[k + 1] /\ c = st.carry
  <2>1. s[k + 1] \in Limb
    BY <1>1, <1>2
  <2> QED
    BY <2>1 DEF Multiplying
<1>4. PICK total \in Nat, q \in Limb, r \in Limb :
          /\ total = x * y + old + c /\ q = total \div BASE /\ r = total % BASE
          /\ total = r + BASE * q
  <2>1. PICK total \in Nat : total = x * y + old + c
    <3>1. x \in Nat /\ y \in Nat /\ old \in Nat /\ c \in Nat
      BY BaseNat DEF Limb
    <3>2. x * y + old + c \in Nat
      BY <3>1
    <3> QED
      BY <3>2
  <2>2. total \div BASE \in Limb /\ total % BASE \in Limb
    BY <2>1, MulNeverOverflows
  <2>3. total = (total % BASE) + BASE * (total \div BASE)
    BY LimbDiv
  <2> QED
    BY <2>1, <2>2, <2>3
<1>5. PICK t : t = [s EXCEPT ![k + 1] = r]
  OBVIOUS
<1>6. next = [limbs |-> t, carry |-> q]
  BY <1>1, <1>2, <1>3, <1>4, <1>5 DEF MulLimb
<1>7. /\ t \in Seq(Limb) /\ Len(t) = n
      /\ \A m \in 1..n : m # k + 1 => t[m] = s[m]
      /\ Val(t) = Val(s) + (r - s[k + 1]) * W(k)
  BY <1>1, <1>2, <1>5, SumUpdate
<1>8. \A m \in 1..n : m > i + (j + 1) => t[m] = limbs[m]
  <2>1. ASSUME NEW m \in 1..n, m > i + (j + 1)
        PROVE  t[m] = limbs[m]
    <3>1. m > i + j /\ m # k + 1
      BY <1>1, <2>1
    <3>2. s[m] = limbs[m]
      BY <1>2, <3>1 DEF Multiplying
    <3> QED
      BY <1>7, <3>1, <3>2
  <2> QED
    BY <2>1
<1>9. Val(t) + q * W(i + (j + 1)) = T + (x * y) * W(i + j)
  <2>1. PICK v \in Nat, w \in Nat, p \in Nat : v = Val(s) /\ w = W(k) /\ p = x * y
    <3>1. Val(s) \in Nat /\ W(k) \in Nat
      BY <1>2, ValBound, WeightStep
    <3>2. x \in Nat /\ y \in Nat
      BY BaseNat DEF Limb
    <3>3. x * y \in Nat
      BY <3>2
    <3> QED
      BY <3>1, <3>3
  <2>2. W(i + (j + 1)) = BASE * w
    <3>1. i + (j + 1) = k + 1
      BY <1>1
    <3> QED
      BY <2>1, <3>1, WeightStep
  <2>3. T = v + c * w
    BY <1>1, <1>2, <1>3, <2>1 DEF Multiplying
  <2>4. Val(t) = v + (r - old) * w
    BY <1>3, <1>7, <2>1
  <2>5. /\ r \in Int /\ q \in Int /\ old \in Int /\ c \in Int /\ w \in Int /\ v \in Int
        /\ p \in Int /\ BASE \in Int
    BY BaseNat DEF Limb
  <2>6. q * (BASE * w) = (BASE * q) * w
    BY <2>5, MulAssoc
  <2>7. PICK g \in Int : g = BASE * q
    BY <2>5
  <2>8. (r - old) + g = p + c
    BY <1>4, <2>1, <2>5, <2>7
  <2>9. (r - old) * w + g * w = p * w + c * w
    <3>1. ((r - old) + g) * w = (r - old) * w + g * w
      BY <2>5
    <3>2. (p + c) * w = p * w + c * w
      BY <2>5
    <3> QED
      BY <2>8, <3>1, <3>2
  <2>10. (r - old) * w \in Int /\ g * w \in Int /\ p * w \in Int /\ c * w \in Int
    BY <2>5
  <2>11. (v + (r - old) * w) + g * w = (v + c * w) + p * w
    BY <2>9, <2>10
  <2> QED
    BY <1>1, <2>1, <2>2, <2>3, <2>4, <2>6, <2>7, <2>11
<1>10. next.limbs = t /\ next.carry = q
  BY <1>6
<1> QED
  BY <1>7, <1>8, <1>9, <1>10 DEF Multiplying

\* A round of a row, as arithmetic.
LEMMA RowArith ==
    ASSUME NEW x \in Int, NEW y \in Int, NEW z \in Int, NEW u \in Int, NEW w \in Int
    PROVE  (x * z) * u + (x * y) * (u * w) = (x * (z + y * w)) * u
<1>1. PICK v \in Int : v = y * w
  OBVIOUS
<1>2. x * (z + v) = x * z + x * v /\ x * z \in Int /\ x * v \in Int
  OBVIOUS
<1>3. (x * z + x * v) * u = (x * z) * u + (x * v) * u
  BY <1>2, MulDist
<1>4. (x * v) * u = (x * y) * (u * w)
  <2>1. x * v = (x * y) * w /\ x * y \in Int
    BY <1>1, MulAssoc
  <2>2. PICK t \in Int : t = x * y
    BY <2>1
  <2>3. (t * w) * u = t * (u * w)
    OBVIOUS
  <2> QED
    BY <2>1, <2>2, <2>3
<1> QED
  BY <1>1, <1>2, <1>3, <1>4

\* A list of n limbs.
OfLength(s, n) == s \in Seq(Limb) /\ Len(s) = n

\* The limbs above place k are 0.
ZerosAbove(s, k, n) == \A j \in 1..n : j > k => s[j] = 0

\* The inner loop of Mul adds the product of a limb and a number.
LEMMA MulRowLoopFacts ==
    ASSUME NEW a, NEW l \in Nat, OfLength(a.limbs, l), NEW b, NEW m \in Nat, OfLength(b.limbs, m),
           NEW n \in Nat, n = l + m, NEW limbs, OfLength(limbs, n), NEW i \in Nat, i + 1 <= l
    PROVE  Multiplying(MulRowLoop(limbs, a, b, i + 1), n, i, m, limbs,
                       Val(limbs) + (a.limbs[i + 1] * Val(b.limbs)) * W(i))
<1>1. i + 1 + m <= n
  OBVIOUS
<1>s. PICK s : s = b.limbs /\ s \in Seq(Limb) /\ Len(s) = m
  BY DEF OfLength
<1>x. PICK x \in Limb : x = a.limbs[i + 1]
  <2>1. i + 1 \in 1..l
    OBVIOUS
  <2>2. a.limbs[i + 1] \in Limb
    BY <2>1 DEF OfLength
  <2> QED
    BY <2>2
<1>r. PICK p : p = <<a, b, i + 1>>
  OBVIOUS
<1>p. p[1] = a /\ p[2] = b /\ p[3] = i + 1
  BY <1>r
<1>q. PICK q : q = Places(b)
  OBVIOUS
<1>2. q = [k \in 1..m |-> k] /\ DOMAIN q = 1..m
  BY <1>s, <1>q DEF Places
<1>b. PICK base : base = [limbs |-> limbs, carry |-> 0]
  OBVIOUS
<1>3. MulRowLoop(limbs, a, b, i + 1) = MulRowRounds!FoldL(p, base, q, 1..m)
  BY <1>p, <1>q, <1>2, <1>b
     DEF MulRowLoop, FoldLeft, MapThenFoldSet, Max, MulRowRounds!FoldL, MulRowRounds!Top, MulRowOp
<1>4. PICK R : /\ MulRowRounds!LeftRounds(R, p, base, q)
               /\ MulRowRounds!FoldL(p, base, q, 1..m) = R[m]
  <2>0. MulRowRounds!Induction
    BY AllNat DEF MulRowRounds!Induction
  <2> QED
    BY <2>0, MulRowRounds!LeftFold
<1>5. /\ R[0] = base
      /\ \A k \in Nat : R[k + 1] = MulLimb(R[k], i + 1, q[k + 1],
                            x * s[q[k + 1]] + R[k].limbs[(i + 1) + q[k + 1] - 1] + R[k].carry)
  BY <1>4, <1>p, <1>x, <1>s DEF MulRowRounds!LeftRounds, MulRowOp
<1>6. PICK v \in Nat, u \in Nat : v = Val(limbs) /\ u = W(i)
  <2>1. Val(limbs) \in Nat /\ W(i) \in Nat
    BY ValBound, WeightStep DEF OfLength
  <2> QED
    BY <2>1
<1> DEFINE T(k) == v + (x * Sum(s, k)) * u
           P(k) == Multiplying(R[k], n, i, k, limbs, T(k))
           S == {k \in Nat : k <= m => P(k)}
<1>7. P(0)
  <2>1. 0 \in Limb /\ x \in Int
    BY BaseNat DEF Limb
  <2>2. R[0].limbs = limbs /\ R[0].carry = 0
    BY <1>5, <1>b
  <2>3. W(i + 0) \in Nat
    <3>1. i + 0 \in Nat
      OBVIOUS
    <3> QED
      BY <3>1, WeightStep
  <2>4. v + 0 * W(i + 0) = v + (x * 0) * u
    BY <2>1, <2>3
  <2>5. Sum(s, 0) = 0
    BY SumStep
  <2> QED
    BY <1>6, <2>1, <2>2, <2>4, <2>5 DEF Multiplying, OfLength
<1>8. ASSUME NEW k \in Nat, k + 1 <= m, P(k) PROVE P(k + 1)
  <2>1. k + 1 <= m
    BY <1>8
  <2>2. Multiplying(R[k], n, i, k, limbs, v + (x * Sum(s, k)) * u)
    BY <1>8
  <2>3. PICK y \in Limb : y = s[k + 1] /\ y = Digit(s, k + 1)
    <3>1. k + 1 \in 1..Len(s)
      BY <1>1, <1>s, <2>1
    <3>2. s[k + 1] \in Limb /\ s[k + 1] = Digit(s, k + 1)
      BY <1>s, <3>1, DigitFacts
    <3> QED
      BY <3>2
  <2>4. PICK z \in Nat, w \in Nat : z = Sum(s, k) /\ w = W(k)
    <3>1. Sum(s, k) \in Nat /\ W(k) \in Nat
      BY <1>s, SumBound, WeightStep
    <3> QED
      BY <3>1
  <2>5. PICK tot \in Nat : tot = v + (x * z) * u
    <3>1. x \in Nat
      BY BaseNat DEF Limb
    <3>2. x * z \in Nat
      BY <3>1, MulNat
    <3>3. (x * z) * u \in Nat
      BY <3>2, MulNat
    <3> QED
      BY <3>3
  <2>6. q[k + 1] = k + 1
    BY <1>2, <2>1
  <2>7. R[k + 1] = MulLimb(R[k], i + 1, k + 1,
                           x * y + R[k].limbs[(i + 1) + (k + 1) - 1] + R[k].carry)
    BY <1>5, <2>3, <2>6
  <2>8. i + k + 1 <= n
    <3>1. i + 1 + m <= n /\ k + 1 <= m
      BY <1>1, <2>1
    <3> QED
      BY <3>1
  <2>9. Multiplying(R[k], n, i, k, limbs, tot)
    BY <2>2, <2>4, <2>5
  <2>10. Multiplying(R[k + 1], n, i, k + 1, limbs, tot + (x * y) * W(i + k))
    BY <2>7, <2>8, <2>9, MulLimbAdds
  <2>11. tot + (x * y) * W(i + k) = v + (x * Sum(s, k + 1)) * u
    <3>1. W(i + k) = u * w
      BY <1>6, <2>4, WeightAdd
    <3>2. Sum(s, k + 1) = z + y * w
      BY <2>3, <2>4, SumStep
    <3>3. x \in Int /\ y \in Int /\ z \in Int /\ u \in Int /\ w \in Int /\ v \in Int
      BY BaseNat DEF Limb
    <3>4. (x * z) * u + (x * y) * (u * w) = (x * (z + y * w)) * u
      BY <3>3, RowArith
    <3>5. PICK g \in Int, h \in Int : g = (x * z) * u /\ h = (x * y) * (u * w)
      <4>1. (x * z) * u \in Int /\ (x * y) * (u * w) \in Int
        BY <3>3
      <4> QED
        BY <4>1
    <3>6. (v + g) + h = v + (g + h)
      BY <3>3
    <3> QED
      BY <2>5, <3>1, <3>2, <3>4, <3>5, <3>6
  <2> QED
    BY <2>10, <2>11
<1> HIDE DEF P
<1>9. 0 \in S /\ \A k \in Nat : k \in S => k + 1 \in S
  <2>1. 0 \in S
    BY <1>7
  <2>2. ASSUME NEW k \in Nat, k \in S PROVE k + 1 \in S
    <3>1. k + 1 <= m => k <= m
      OBVIOUS
    <3>2. k + 1 <= m => P(k + 1)
      BY <1>8, <2>2, <3>1
    <3> QED
      BY <3>2
  <2> HIDE DEF S
  <2> QED
    BY <2>1, <2>2
<1>10. P(m)
  <2>1. m \in S
    <3> HIDE DEF S
    <3> QED
      BY <1>9, AllNat
  <2> QED
    BY <2>1
<1>11. Multiplying(R[m], n, i, m, limbs, v + (x * Sum(s, m)) * u)
  BY <1>10 DEF P
<1> QED
  BY <1>1, <1>s, <1>x, <1>3, <1>4, <1>6, <1>11 DEF Val

\* A row: its last carry is put at the place after it, which held 0.
LEMMA MulRowFacts ==
    ASSUME NEW a, NEW l \in Nat, OfLength(a.limbs, l), NEW b, NEW m \in Nat, OfLength(b.limbs, m),
           NEW n \in Nat, n = l + m, NEW limbs, OfLength(limbs, n), NEW i \in Nat, i + 1 <= l,
           ZerosAbove(limbs, i + m, n),
           NEW t, t = MulRow(limbs, a, b, i + 1)
    PROVE  /\ OfLength(t, n)
           /\ ZerosAbove(t, (i + 1) + m, n)
           /\ Val(t) = Val(limbs) + (a.limbs[i + 1] * Val(b.limbs)) * W(i)
<1>1. m = Len(b.limbs)
  BY DEF OfLength
<1>k. PICK k \in Nat : k = i + m /\ k + 1 \in 1..n /\ (i + 1) + m = k + 1
  <2>1. i + m \in Nat /\ (i + m) + 1 \in 1..n /\ (i + 1) + m = (i + m) + 1
    OBVIOUS
  <2> QED
    BY <2>1
<1>2. PICK st : st = MulRowLoop(limbs, a, b, i + 1)
  OBVIOUS
<1>3. Multiplying(st, n, i, m, limbs, Val(limbs) + (a.limbs[i + 1] * Val(b.limbs)) * W(i))
  BY <1>1, <1>2, MulRowLoopFacts
<1>4. t = LastCarry(st, k + 1)
  <2>1. MulRow(limbs, a, b, i + 1) = LastCarry(st, (i + 1) + Len(b.limbs))
    <3>1. MulRow(limbs, a, b, i + 1) = LastCarry(MulRowLoop(limbs, a, b, i + 1), (i + 1) + Len(b.limbs))
      BY Zenon DEF MulRow, MulRowLoop
    <3> QED
      BY <1>2, <3>1
  <2> QED
    BY <1>1, <1>k, <2>1
<1>s. PICK s : s = st.limbs
  OBVIOUS
<1>5. PICK c \in Limb : s = st.limbs /\ c = st.carry
  BY <1>3, <1>s DEF Multiplying
<1>6. t = [s EXCEPT ![k + 1] = c]
  BY <1>4, <1>5 DEF LastCarry
<1>7. /\ s \in Seq(Limb) /\ Len(s) = n
      /\ ZerosAbove(s, k, n)
  <2>1. s \in Seq(Limb) /\ Len(s) = n /\ \A h \in 1..n : h > i + m => s[h] = limbs[h]
    BY <1>3, <1>5 DEF Multiplying
  <2> QED
    BY <1>k, <2>1 DEF ZerosAbove
<1>8. /\ t \in Seq(Limb) /\ Len(t) = n
      /\ \A h \in 1..n : h # k + 1 => t[h] = s[h]
      /\ Val(t) = Val(s) + (c - s[k + 1]) * W(k)
  <2>1. s \in Seq(Limb) /\ Len(s) = n /\ k + 1 \in 1..Len(s)
    BY <1>k, <1>7
  <2> QED
    BY <1>6, <2>1, SumUpdate
<1>9. ZerosAbove(t, (i + 1) + m, n)
  <2>1. ASSUME NEW h \in 1..n, h > (i + 1) + m
        PROVE  h > k /\ h # k + 1
    BY <1>k, <2>1
  <2> QED
    BY <1>7, <1>8, <2>1 DEF ZerosAbove
<1>10. Val(t) = Val(s) + c * W(k)
  <2>1. s[k + 1] = 0
    <3>1. k + 1 > k
      OBVIOUS
    <3> QED
      BY <1>k, <1>7, <3>1 DEF ZerosAbove
  <2>2. c - 0 = c
    BY BaseNat DEF Limb
  <2> QED
    BY <1>8, <2>1, <2>2
<1>11. Val(s) + c * W(k) = Val(limbs) + (a.limbs[i + 1] * Val(b.limbs)) * W(i)
  BY <1>3, <1>5, <1>k DEF Multiplying
<1> QED
  BY <1>1, <1>8, <1>9, <1>10, <1>11 DEF OfLength

\* Limbs that are all 0 make 0.
LEMMA ZerosFacts ==
    ASSUME NEW n \in Nat, NEW z, z = [i \in 1..n |-> 0]
    PROVE  OfLength(z, n) /\ Val(z) = 0 /\ \A i \in 1..n : z[i] = 0
<1>1. OfLength(z, n) /\ \A i \in 1..n : z[i] = 0
  <2>1. 0 \in Limb
    BY BaseNat DEF Limb
  <2> QED
    BY <2>1 DEF OfLength
<1>2. \A k \in Nat : Digit(z, k) = 0
  BY DEF Digit
<1> DEFINE S == {k \in Nat : Sum(z, k) = 0}
<1>3. 0 \in S
  BY SumStep
<1>4. ASSUME NEW k \in Nat, k \in S PROVE k + 1 \in S
  <2>1. Sum(z, k + 1) = 0 + 0 * W(k)
    <3>1. Digit(z, k + 1) = 0 /\ Sum(z, k) = 0
      BY <1>2, <1>4
    <3>2. Sum(z, k + 1) = Sum(z, k) + Digit(z, k + 1) * W(k)
      BY SumStep
    <3> QED
      BY <3>1, <3>2
  <2>2. W(k) \in Nat
    BY WeightStep
  <2> QED
    BY <2>1, <2>2
<1> HIDE DEF S
<1>5. n \in S
  BY <1>3, <1>4, AllNat
<1>6. Sum(z, n) = 0
  BY <1>5 DEF S
<1> QED
  BY <1>1, <1>6 DEF Val, OfLength

\* The outer loop of MulBig: each round adds a row.
MulBigOp(p, limbs, i) == MulRow(limbs, p[1], p[2], i)
MulBigRounds == INSTANCE HehRecursion WITH Op <- MulBigOp

\* The limbs MulBig has before it trims them.
MulBigLoop(a, b) ==
    FoldLeft(LAMBDA limbs, i : MulRow(limbs, a, b, i),
             [i \in 1..(Len(a.limbs) + Len(b.limbs)) |-> 0], Places(a))

\* After k rows: the places above hold 0, the others the product so far.
MulRows(limbs, a, b, k, m, n) ==
    /\ OfLength(limbs, n)
    /\ ZerosAbove(limbs, k + m, n)
    /\ Val(limbs) = Sum(a.limbs, k) * Val(b.limbs)

\* A row more.
LEMMA MulRowsStep ==
    ASSUME NEW a, NEW l \in Nat, OfLength(a.limbs, l), NEW b, NEW m \in Nat, OfLength(b.limbs, m),
           NEW n \in Nat, n = l + m, NEW i \in Nat, i + 1 <= l,
           NEW limbs, MulRows(limbs, a, b, i, m, n)
    PROVE  MulRows(MulRow(limbs, a, b, i + 1), a, b, i + 1, m, n)
<1>1. PICK t : t = MulRow(limbs, a, b, i + 1)
  OBVIOUS
<1>2. /\ OfLength(t, n)
      /\ ZerosAbove(t, (i + 1) + m, n)
      /\ Val(t) = Val(limbs) + (a.limbs[i + 1] * Val(b.limbs)) * W(i)
  <2>1. OfLength(limbs, n) /\ ZerosAbove(limbs, i + m, n)
    BY DEF MulRows
  <2> QED
    <3>1. ASSUME NEW r, r = MulRow(limbs, a, b, i + 1)
          PROVE  /\ OfLength(r, n) /\ ZerosAbove(r, (i + 1) + m, n)
                 /\ Val(r) = Val(limbs) + (a.limbs[i + 1] * Val(b.limbs)) * W(i)
      BY <2>1, <3>1, MulRowFacts
    <3> QED
      BY <1>1, <3>1
<1>3. PICK x \in Nat : x = a.limbs[i + 1] /\ x = Digit(a.limbs, i + 1)
  <2>1. i + 1 \in 1..l
    OBVIOUS
  <2>2. Digit(a.limbs, i + 1) = a.limbs[i + 1] /\ Digit(a.limbs, i + 1) \in Nat
    BY <2>1, DigitFacts DEF OfLength
  <2> QED
    BY <2>2
<1>4. PICK y \in Nat, z \in Nat, w \in Nat : y = Val(b.limbs) /\ z = Sum(a.limbs, i) /\ w = W(i)
  <2>1. Val(b.limbs) \in Nat /\ Sum(a.limbs, i) \in Nat /\ W(i) \in Nat
    BY ValBound, SumBound, WeightStep DEF OfLength
  <2> QED
    BY <2>1
<1>5. Val(t) = z * y + (x * y) * w
  BY <1>2, <1>3, <1>4 DEF MulRows
<1>6. Sum(a.limbs, i + 1) = z + x * w
  BY <1>3, <1>4, SumStep
<1>7. z * y + (x * y) * w = (z + x * w) * y
  <2>1. PICK v \in Int : v = x * w
    OBVIOUS
  <2>2. (z + v) * y = z * y + v * y
    OBVIOUS
  <2>3. v * y = (x * y) * w
    <3>1. (x * w) * y = x * (w * y) /\ w * y = y * w /\ x * (y * w) = (x * y) * w
      BY MulAssoc
    <3> QED
      BY <2>1, <3>1
  <2> QED
    BY <2>1, <2>2, <2>3
<1> QED
  BY <1>1, <1>2, <1>4, <1>5, <1>6, <1>7 DEF MulRows

\* The loops of Mul multiply magnitudes.
LEMMA MulBigLoopFacts ==
    ASSUME NEW a, NEW l \in Nat, OfLength(a.limbs, l), NEW b, NEW m \in Nat, OfLength(b.limbs, m)
    PROVE  /\ MulBigLoop(a, b) \in Seq(Limb)
           /\ Val(MulBigLoop(a, b)) = Val(a.limbs) * Val(b.limbs)
<1>n. PICK n \in Nat : n = l + m
  OBVIOUS
<1>r. PICK p : p = <<a, b>>
  OBVIOUS
<1>p. p[1] = a /\ p[2] = b
  BY <1>r
<1>q. PICK q : q = Places(a)
  OBVIOUS
<1>1. q = [k \in 1..l |-> k] /\ DOMAIN q = 1..l
  BY <1>q DEF Places, OfLength
<1>b. PICK base : base = [i \in 1..n |-> 0]
  OBVIOUS
<1>2. MulBigLoop(a, b) = FoldLeft(LAMBDA limbs, i : MulRow(limbs, a, b, i), base, q)
  BY <1>n, <1>q, <1>b DEF MulBigLoop, OfLength
<1>3. MulBigLoop(a, b) = MulBigRounds!FoldL(p, base, q, 1..l)
  BY <1>p, <1>2, <1>1
     DEF FoldLeft, MapThenFoldSet, Max, MulBigRounds!FoldL, MulBigRounds!Top, MulBigOp
<1>4. PICK R : /\ MulBigRounds!LeftRounds(R, p, base, q)
               /\ MulBigRounds!FoldL(p, base, q, 1..l) = R[l]
  <2>0. MulBigRounds!Induction
    BY AllNat DEF MulBigRounds!Induction
  <2> QED
    BY <2>0, MulBigRounds!LeftFold
<1>5. R[0] = base /\ \A k \in Nat : R[k + 1] = MulRow(R[k], a, b, q[k + 1])
  BY <1>4, <1>p DEF MulBigRounds!LeftRounds, MulBigOp
<1> DEFINE S == {k \in Nat : k <= l => MulRows(R[k], a, b, k, m, n)}
<1>6. 0 \in S
  <2>1. OfLength(base, n) /\ Val(base) = 0 /\ \A j \in 1..n : base[j] = 0
    BY <1>b, ZerosFacts
  <2>2. Sum(a.limbs, 0) = 0 /\ Val(b.limbs) \in Nat
    BY SumStep, ValBound DEF OfLength
  <2>3. 0 = 0 * Val(b.limbs)
    BY <2>2
  <2> QED
    BY <1>5, <2>1, <2>2, <2>3 DEF MulRows, ZerosAbove
<1>7. ASSUME NEW k \in Nat, k \in S PROVE k + 1 \in S
  <2>1. SUFFICES ASSUME k + 1 <= l PROVE MulRows(R[k + 1], a, b, k + 1, m, n)
    OBVIOUS
  <2>2. q[k + 1] = k + 1 /\ k <= l
    BY <1>1, <2>1
  <2>3. R[k + 1] = MulRow(R[k], a, b, k + 1)
    BY <1>5, <2>2
  <2>4. MulRows(R[k], a, b, k, m, n)
    BY <1>7, <2>2
  <2> QED
    BY <1>n, <2>1, <2>3, <2>4, MulRowsStep
<1> HIDE DEF S
<1>8. l \in S
  BY <1>6, <1>7, AllNat
<1>9. MulRows(R[l], a, b, l, m, n)
  BY <1>8 DEF S
<1> QED
  BY <1>3, <1>4, <1>9 DEF MulRows, OfLength, Val

\* Mul multiplies.
LEMMA MulBigFacts ==
    ASSUME NEW a, IsBig(a), NEW b, IsBig(b)
    PROVE  IsBig(MulBig(a, b)) /\ IntOf(MulBig(a, b)) = IntOf(a) * IntOf(b)
<1>1. PICK x \in Nat, y \in Nat :
          /\ x = Val(a.limbs) /\ y = Val(b.limbs) /\ (x = 0 <=> IsZero(a)) /\ (y = 0 <=> IsZero(b))
  BY BigFacts
<1>2. /\ a.sign \in BOOLEAN /\ b.sign \in BOOLEAN
      /\ IntOf(a) = WithSign(a.sign, x) /\ IntOf(b) = WithSign(b.sign, y)
  BY <1>1 DEF IsBig, IntOf, WithSign
<1>3. CASE IsZero(a) \/ IsZero(b)
  <2>1. MulBig(a, b) = Zero
    BY <1>3 DEF MulBig
  <2>2. IntOf(a) * IntOf(b) = 0
    <3>1. IntOf(a) = 0 \/ IntOf(b) = 0
      BY <1>1, <1>2, <1>3 DEF WithSign
    <3>2. IntOf(a) \in Int /\ IntOf(b) \in Int
      BY BigFacts
    <3> QED
      BY <3>1, <3>2
  <2> QED
    BY <2>1, <2>2, ZeroFacts
<1>4. CASE ~(IsZero(a) \/ IsZero(b))
  <2>1. PICK s : s = Trim(MulBigLoop(a, b))
    OBVIOUS
  <2>2. MulBig(a, b) = [sign |-> a.sign # b.sign, limbs |-> s]
    <3>1. MulBig(a, b) = [sign |-> a.sign # b.sign, limbs |-> Trim(MulBigLoop(a, b))]
      BY <1>4, Zenon DEF MulBig, MulBigLoop
    <3> QED
      BY <2>1, <3>1
  <2>3. Canon(s) /\ Val(s) = x * y
    <3>1. PICK l \in Nat : OfLength(a.limbs, l)
      BY DEF IsBig, OfLength
    <3>2. PICK m \in Nat : OfLength(b.limbs, m)
      BY DEF IsBig, OfLength
    <3>3. MulBigLoop(a, b) \in Seq(Limb) /\ Val(MulBigLoop(a, b)) = x * y
      BY <1>1, <3>1, <3>2, MulBigLoopFacts
    <3> QED
      BY <2>1, <3>3, TrimFacts
  <2>4. x * y > 0
    <3>1. x >= 1 /\ y >= 1
      BY <1>1, <1>4
    <3>2. x * y >= y /\ x * y \in Nat
      BY <3>1, MulGrows
    <3> QED
      BY <3>1, <3>2
  <2>5. PICK sign \in BOOLEAN : sign = (a.sign # b.sign)
    OBVIOUS
  <2>6. Val(s) > 0
    BY <2>3, <2>4
  <2>7. MulBig(a, b) = [sign |-> sign, limbs |-> s]
    BY <2>2, <2>5
  <2>8. IsBig(MulBig(a, b)) /\ IntOf(MulBig(a, b)) = IF sign THEN -(x * y) ELSE x * y
    BY <2>3, <2>6, <2>7, MakeBig
  <2>9. (IF sign THEN -(x * y) ELSE x * y) = WithSign(a.sign, x) * WithSign(b.sign, y)
    <3>1. (-x) * (-y) = x * y /\ (-x) * y = -(x * y) /\ x * (-y) = -(x * y)
      OBVIOUS
    <3> QED
      BY <1>2, <2>5, <3>1 DEF WithSign
  <2> QED
    BY <1>2, <2>8, <2>9
<1> QED
  BY <1>3, <1>4

-----------------------------------------------------------------------------
(* Division by a limb.                                                       *)

\* The body of the loop of DivModU32, from the highest limb down.
LongDivOp(div, st, d) ==
    LET cur == st.carry * BASE + d IN [limbs |-> <<cur \div div>> \o st.limbs, carry |-> cur % div]
LongDivRounds == INSTANCE HehRecursion WITH Op <- LongDivOp

\* After k limbs from the last: the quotient so far and the remainder make them up.
Dividing(st, s, div, k, n) ==
    /\ OfLength(st.limbs, k) /\ st.carry \in 0..(div - 1)
    /\ Val(s) = Sum(s, n - k) + W(n - k) * (Val(st.limbs) * div + st.carry)

\* A round of the division, as arithmetic.
LEMMA DivArith ==
    ASSUME NEW q \in Int, NEW r \in Int, NEW v \in Int, NEW div \in Int, NEW b \in Int,
           NEW rem \in Int, NEW d \in Int, rem * b + d = div * q + r
    PROVE  (q + b * v) * div + r = d + b * (v * div + rem)
<1>1. PICK p \in Int, u \in Int : p = v * div /\ u = b * v
  OBVIOUS
<1>2. (q + u) * div = q * div + u * div /\ q * div = div * q /\ q * div \in Int /\ u * div \in Int
  OBVIOUS
<1>3. u * div = b * p
  <2>1. (b * v) * div = b * (v * div)
    BY MulAssoc
  <2> QED
    BY <1>1, <2>1
<1>4. b * (p + rem) = b * p + b * rem /\ b * rem = rem * b /\ b * p \in Int /\ b * rem \in Int
  OBVIOUS
<1> QED
  BY <1>1, <1>2, <1>3, <1>4

\* A round of the division takes the next limb down.
LEMMA DividingStep ==
    ASSUME NEW s, NEW n \in Nat, OfLength(s, n), NEW div \in 1..(BASE - 1), NEW k \in Nat, k + 1 <= n,
           NEW st, Dividing(st, s, div, k, n)
    PROVE  Dividing(LongDivOp(div, st, s[n - k]), s, div, k + 1, n)
<1>1. PICK j \in Nat : j = n - (k + 1) /\ n - k = j + 1 /\ j + 1 \in 1..n
  <2>1. n - (k + 1) \in Nat /\ n - k = (n - (k + 1)) + 1
    OBVIOUS
  <2> QED
    BY <2>1
<1>2. PICK d \in Limb : d = s[j + 1] /\ d = Digit(s, j + 1)
  <2>1. Digit(s, j + 1) = s[j + 1] /\ Digit(s, j + 1) \in Limb
    BY <1>1, DigitFacts DEF OfLength
  <2> QED
    BY <2>1
<1>3. PICK rem \in 0..(div - 1), v \in Nat : rem = st.carry /\ v = Val(st.limbs)
  <2>1. Val(st.limbs) \in Nat
    BY ValBound DEF Dividing, OfLength
  <2> QED
    BY <2>1 DEF Dividing
<1>4. PICK q \in Limb, r \in 0..(div - 1) :
          /\ q = (rem * BASE + d) \div div /\ r = (rem * BASE + d) % div
          /\ rem * BASE + d = div * q + r
  <2>1. /\ (rem * BASE + d) \div div \in Limb
        /\ (rem * BASE + d) % div \in 0..(div - 1)
    BY LongDivisionNeverOverflows
  <2>2. rem * BASE + d \in Nat /\ div \in Nat /\ div > 0
    <3>1. rem \in Nat /\ d \in Nat /\ BASE \in Nat /\ div \in Nat /\ div > 0
      BY BaseNat DEF Limb
    <3>2. rem * BASE \in Nat
      BY <3>1, MulNat
    <3> QED
      BY <3>1, <3>2
  <2>3. rem * BASE + d = div * ((rem * BASE + d) \div div) + ((rem * BASE + d) % div)
    BY <2>2, DivMod
  <2> QED
    BY <2>1, <2>3
<1>5. PICK next : next = LongDivOp(div, st, s[n - k])
  OBVIOUS
<1>6. next = [limbs |-> <<q>> \o st.limbs, carry |-> r]
  BY <1>1, <1>2, <1>3, <1>4, <1>5 DEF LongDivOp
<1>7. next.limbs = <<q>> \o st.limbs /\ next.carry = r
  BY <1>6
<1>8. OfLength(next.limbs, k + 1) /\ Val(next.limbs) = q + BASE * v
  <2>1. st.limbs \in Seq(Limb) /\ Len(st.limbs) = k
    BY DEF Dividing, OfLength
  <2>2. <<q>> \o st.limbs \in Seq(Limb) /\ Len(<<q>> \o st.limbs) = Len(st.limbs) + 1
        /\ Val(<<q>> \o st.limbs) = q + BASE * Val(st.limbs)
    BY <2>1, ValCons
  <2> QED
    BY <1>3, <1>7, <2>1, <2>2 DEF OfLength
<1>9. Val(s) = Sum(s, j) + W(j) * ((q + BASE * v) * div + r)
  <2>1. PICK a \in Nat, x \in Nat : a = Sum(s, j) /\ x = W(j)
    <3>1. Sum(s, j) \in Nat /\ W(j) \in Nat
      BY SumBound, WeightStep DEF OfLength
    <3> QED
      BY <3>1
  <2>2. PICK h \in Nat : h = v * div + rem
    <3>1. v * div \in Nat
      BY MulNat, BaseNat
    <3> QED
      BY <3>1
  <2>3. Sum(s, j + 1) = a + d * x /\ W(j + 1) = BASE * x
    <3>1. Sum(s, j + 1) = Sum(s, j) + Digit(s, j + 1) * W(j)
      BY SumStep
    <3>2. W(j + 1) = BASE * W(j)
      BY WeightStep
    <3> QED
      BY <1>2, <2>1, <3>1, <3>2
  <2>4. Val(s) = Sum(s, j + 1) + W(j + 1) * h
    BY <1>1, <1>3, <2>2 DEF Dividing
  <2>5. (a + d * x) + (BASE * x) * h = a + x * (d + BASE * h)
    <3>1. d \in Nat
      BY BaseNat DEF Limb
    <3> QED
      BY <3>1, BaseNat, HornerArith
  <2>6. (q + BASE * v) * div + r = d + BASE * h
    <3>1. q \in Int /\ r \in Int /\ div \in Int /\ BASE \in Int /\ rem \in Int /\ d \in Int /\ v \in Int
      BY BaseNat DEF Limb
    <3>2. PICK b \in Int : b = BASE
      BY <3>1
    <3>3. rem * b + d = div * q + r
      BY <1>4, <3>2
    <3>4. (q + b * v) * div + r = d + b * (v * div + rem)
      BY <3>1, <3>3, DivArith
    <3> QED
      BY <2>2, <3>2, <3>4
  <2> QED
    BY <2>1, <2>3, <2>4, <2>5, <2>6
<1> QED
  BY <1>1, <1>5, <1>7, <1>8, <1>9 DEF Dividing

\* The loop of div_mod_u32 divides.
LEMMA LongDivisionFacts ==
    ASSUME NEW a, a.limbs \in Seq(Limb), NEW div \in 1..(BASE - 1)
    PROVE  /\ LongDivision(a, div).limbs \in Seq(Limb)
           /\ LongDivision(a, div).carry \in 0..(div - 1)
           /\ Val(a.limbs) = Val(LongDivision(a, div).limbs) * div + LongDivision(a, div).carry
<1>0. PICK s : s = a.limbs
  OBVIOUS
<1>1. PICK n \in Nat : OfLength(s, n) /\ DOMAIN s = 1..n
  BY <1>0 DEF OfLength
<1>2. LongDivision(a, div) = LongDivRounds!FoldR(div, NoCarry, s, 1..n)
  BY <1>0, <1>1
     DEF LongDivision, FoldRight, MapThenFoldSet, Min, LongDivRounds!FoldR, LongDivRounds!Bottom, LongDivOp
<1>3. PICK R : /\ LongDivRounds!RightRounds(R, div, NoCarry, s, n)
               /\ LongDivRounds!FoldR(div, NoCarry, s, 1..n) = R[n]
  <2>0. LongDivRounds!Induction
    BY AllNat DEF LongDivRounds!Induction
  <2> QED
    BY <2>0, LongDivRounds!RightFold
<1>4. R[0] = NoCarry /\ \A k \in Nat : R[k + 1] = LongDivOp(div, R[k], s[n - k])
  BY <1>3 DEF LongDivRounds!RightRounds
<1> DEFINE S == {k \in Nat : k <= n => Dividing(R[k], s, div, k, n)}
<1>5. 0 \in S
  <2>1. NoCarry.limbs = <<>> /\ NoCarry.carry = 0
    BY DEF NoCarry
  <2>2. OfLength(<<>>, 0) /\ Val(<<>>) = 0 /\ 0 \in 0..(div - 1)
    BY ValEmpty, BaseNat DEF OfLength
  <2>3. Val(s) = Sum(s, n - 0) + W(n - 0) * (0 * div + 0)
    <3>1. n - 0 = n /\ Sum(s, n) \in Nat /\ W(n) \in Nat /\ 0 * div + 0 = 0
      BY <1>1, SumBound, WeightStep, BaseNat DEF OfLength
    <3>2. Val(s) = Sum(s, n)
      BY <1>1 DEF Val, OfLength
    <3> QED
      BY <3>1, <3>2
  <2> QED
    BY <1>4, <2>1, <2>2, <2>3 DEF Dividing
<1>6. ASSUME NEW k \in Nat, k \in S PROVE k + 1 \in S
  <2>1. SUFFICES ASSUME k + 1 <= n PROVE Dividing(R[k + 1], s, div, k + 1, n)
    OBVIOUS
  <2>2. Dividing(R[k], s, div, k, n)
    BY <1>6, <2>1
  <2>3. R[k + 1] = LongDivOp(div, R[k], s[n - k])
    BY <1>4
  <2> QED
    BY <1>1, <2>1, <2>2, <2>3, DividingStep
<1> HIDE DEF S
<1>7. n \in S
  BY <1>5, <1>6, AllNat
<1>8. Dividing(R[n], s, div, n, n)
  BY <1>7 DEF S
<1>9. Val(s) = Val(R[n].limbs) * div + R[n].carry
  <2>1. n - n = 0 /\ Sum(s, 0) = 0 /\ W(0) = 1
    BY SumStep, WeightStep
  <2>2. PICK x \in Nat : x = Val(R[n].limbs) * div + R[n].carry
    <3>1. Val(R[n].limbs) \in Nat /\ R[n].carry \in Nat /\ div \in Nat
      BY <1>8, ValBound, BaseNat DEF Dividing, OfLength
    <3>2. Val(R[n].limbs) * div \in Nat
      BY <3>1, MulNat
    <3> QED
      BY <3>1, <3>2
  <2>3. Val(s) = 0 + 1 * x
    BY <1>8, <2>1, <2>2 DEF Dividing
  <2> QED
    BY <2>2, <2>3
<1> QED
  BY <1>0, <1>2, <1>3, <1>8, <1>9 DEF Dividing, OfLength

\* Other limbs in a number, and another sign.
LEMMA ReplaceLimbs ==
    ASSUME NEW b, b = [sign |-> b.sign, limbs |-> b.limbs], NEW t
    PROVE  [b EXCEPT !.limbs = t] = [sign |-> b.sign, limbs |-> t]
  OBVIOUS

\* A number with another sign keeps its limbs.
LEMMA ReplaceSign ==
    ASSUME NEW b, b = [sign |-> b.sign, limbs |-> b.limbs], NEW t
    PROVE  [b EXCEPT !.sign = t] = [sign |-> t, limbs |-> b.limbs]
  OBVIOUS

\* div_mod_u32 divides.
LEMMA DivModU32Facts ==
    ASSUME NEW b, IsBig(b), ~b.sign, NEW div \in 1..(BASE - 1)
    PROVE  /\ IsBig(DivModU32(b, div).q) /\ ~DivModU32(b, div).q.sign
           /\ DivModU32(b, div).r \in 0..(div - 1)
           /\ Val(b.limbs) = Val(DivModU32(b, div).q.limbs) * div + DivModU32(b, div).r
<1>1. PICK st : st = LongDivision(b, div)
  OBVIOUS
<1>2. /\ st.limbs \in Seq(Limb) /\ st.carry \in 0..(div - 1)
      /\ Val(b.limbs) = Val(st.limbs) * div + st.carry
  BY <1>1, BigFacts, LongDivisionFacts
<1>3. Canon(Trim(st.limbs)) /\ Val(Trim(st.limbs)) = Val(st.limbs)
  BY <1>2, TrimFacts
<1>4. PICK s, t : s = b.limbs /\ t = Trim(st.limbs)
  OBVIOUS
<1>5. b.sign = FALSE /\ b = [sign |-> b.sign, limbs |-> b.limbs]
  BY BigFacts DEF IsBig
<1>6. DivModU32(b, div).q = [sign |-> FALSE, limbs |-> t] /\ DivModU32(b, div).r = st.carry
  <2>1. [b EXCEPT !.limbs = t] = [sign |-> FALSE, limbs |-> t]
    BY <1>5, ReplaceLimbs
  <2>2. DivModU32(b, div) = [q |-> [b EXCEPT !.limbs = t], r |-> st.carry]
    BY <1>1, <1>4 DEF DivModU32
  <2> QED
    BY <2>1, <2>2
<1>7. Canon(t) /\ Val(t) = Val(st.limbs)
  BY <1>3, <1>4
<1>8. PICK q : q = DivModU32(b, div).q
  OBVIOUS
<1>9. IsBig(q) /\ q.sign = FALSE /\ q.limbs = t
  <2>1. q = [sign |-> FALSE, limbs |-> t]
    BY <1>6, <1>8
  <2> QED
    BY <1>7, <2>1, MakeBig
<1>10. Val(b.limbs) = Val(q.limbs) * div + st.carry
  BY <1>2, <1>7, <1>9
<1> QED
  BY <1>2, <1>6, <1>8, <1>9, <1>10

-----------------------------------------------------------------------------
(* Shifts and bits.                                                          *)

\* A base is even, and larger than two: a radix is between.
LEMMA BaseEven ==
    /\ 2 \in 1..(BASE - 1)
    /\ \E h \in Nat : BASE = 2 * h /\ h = BASE \div 2 /\ h >= 1
<1>1. 2 \in 1..(BASE - 1)
  BY BaseNat, RadixAssumption
<1>2. PICK h \in Nat : BASE = 2 * h /\ h >= 1
  BY BaseFacts
<1>3. h = BASE \div 2
  BY <1>2
<1> QED
  BY <1>1, <1>2, <1>3

\* The body of the loop that halves a magnitude.
HalfOp(p, st, d) ==
    [limbs |-> <<d \div 2 + st.carry>> \o st.limbs, carry |-> (d % 2) * (BASE \div 2)]
HalfRounds == INSTANCE HehRecursion WITH Op <- HalfOp

\* The limbs of half a magnitude, and the remainder carried down.
HalfLoop(s) ==
    FoldRight(LAMBDA d, st : [limbs |-> <<d \div 2 + st.carry>> \o st.limbs,
                              carry |-> (d % 2) * (BASE \div 2)],
              s, NoCarry)

\* The loop of shr1 is a division by two: it carries half a base for a remainder of one.
Halving(st, s, k, n) ==
    \E rem \in 0..1 : /\ st.carry = rem * (BASE \div 2)
                      /\ Dividing([limbs |-> st.limbs, carry |-> rem], s, 2, k, n)

\* A round of shr1 is a round of the division by two.
LEMMA HalvingStep ==
    ASSUME NEW s, NEW n \in Nat, OfLength(s, n), NEW k \in Nat, k + 1 <= n,
           NEW st, Halving(st, s, k, n)
    PROVE  Halving(HalfOp(0, st, s[n - k]), s, k + 1, n)
<1>1. PICK h \in Nat : BASE = 2 * h /\ h = BASE \div 2
  BY BaseEven
<1>2. PICK rem \in 0..1 :
          st.carry = rem * h /\ Dividing([limbs |-> st.limbs, carry |-> rem], s, 2, k, n)
  BY <1>1 DEF Halving
<1>3. PICK u : u = [limbs |-> st.limbs, carry |-> rem]
  OBVIOUS
<1>4. PICK d \in Nat : d = s[n - k]
  <2>1. n - k \in 1..n
    OBVIOUS
  <2>2. s[n - k] \in Limb
    BY <2>1 DEF OfLength
  <2> QED
    BY <2>2, BaseNat DEF Limb
<1>5. PICK c \in Nat : c = rem * h
  BY MulNat
<1>6. PICK t \in Nat, q \in Nat, r \in 0..1 :
          /\ t = rem * BASE + d /\ q = t \div 2 /\ r = t % 2 /\ q = d \div 2 + c /\ r = d % 2
  <2>1. rem * BASE + d = 2 * c + d
    <3>1. rem * (2 * h) = 2 * (rem * h)
      OBVIOUS
    <3> QED
      BY <1>1, <1>5, <3>1
  <2>2. /\ (2 * c + d) \div 2 \in Nat /\ (2 * c + d) % 2 \in 0..1 /\ 2 * c + d \in Nat
        /\ (2 * c + d) \div 2 = d \div 2 + c /\ (2 * c + d) % 2 = d % 2
    OBVIOUS
  <2> QED
    BY <2>1, <2>2
<1>7. Dividing(LongDivOp(2, u, d), s, 2, k + 1, n)
  BY <1>2, <1>3, <1>4, BaseEven, DividingStep
<1>8. LongDivOp(2, u, d) = [limbs |-> <<q>> \o st.limbs, carry |-> r]
  <2>1. u.limbs = st.limbs /\ u.carry = rem
    BY <1>3
  <2> QED
    BY <1>6, <2>1 DEF LongDivOp
<1>9. PICK next : next = HalfOp(0, st, d)
  OBVIOUS
<1>10. next.limbs = <<q>> \o st.limbs /\ next.carry = r * (BASE \div 2)
  <2>1. next = [limbs |-> <<d \div 2 + st.carry>> \o st.limbs, carry |-> (d % 2) * (BASE \div 2)]
    BY <1>9 DEF HalfOp
  <2>2. st.carry = c
    BY <1>2, <1>5
  <2> QED
    BY <1>6, <2>1, <2>2
<1>11. Dividing([limbs |-> next.limbs, carry |-> r], s, 2, k + 1, n)
  BY <1>7, <1>8, <1>10
<1>12. Halving(next, s, k + 1, n)
  BY <1>10, <1>11 DEF Halving
<1> QED
  BY <1>4, <1>9, <1>12

\* The loop of shr1 divides by two.
LEMMA HalfLoopFacts ==
    ASSUME NEW s, s \in Seq(Limb)
    PROVE  /\ HalfLoop(s).limbs \in Seq(Limb)
           /\ \E rem \in 0..1 : Val(s) = Val(HalfLoop(s).limbs) * 2 + rem
<1>1. PICK n \in Nat : OfLength(s, n) /\ DOMAIN s = 1..n
  BY DEF OfLength
<1>2. HalfLoop(s) = HalfRounds!FoldR(0, NoCarry, s, 1..n)
  BY <1>1 DEF HalfLoop, FoldRight, MapThenFoldSet, Min, HalfRounds!FoldR, HalfRounds!Bottom, HalfOp
<1>3. PICK R : /\ HalfRounds!RightRounds(R, 0, NoCarry, s, n)
               /\ HalfRounds!FoldR(0, NoCarry, s, 1..n) = R[n]
  <2>0. HalfRounds!Induction
    BY AllNat DEF HalfRounds!Induction
  <2> QED
    BY <2>0, HalfRounds!RightFold
<1>4. R[0] = NoCarry /\ \A k \in Nat : R[k + 1] = HalfOp(0, R[k], s[n - k])
  BY <1>3 DEF HalfRounds!RightRounds
<1> DEFINE S == {k \in Nat : k <= n => Halving(R[k], s, k, n)}
<1>5. 0 \in S
  <2>1. PICK u : u = [limbs |-> R[0].limbs, carry |-> 0]
    OBVIOUS
  <2>2. u.limbs = <<>> /\ u.carry = 0 /\ R[0].carry = 0
    BY <1>4, <2>1 DEF NoCarry
  <2>3. OfLength(<<>>, 0) /\ Val(<<>>) = 0 /\ 0 \in 0..(2 - 1)
    BY ValEmpty DEF OfLength
  <2>4. Val(s) = Sum(s, n - 0) + W(n - 0) * (0 * 2 + 0)
    <3>1. n - 0 = n /\ Sum(s, n) \in Nat /\ W(n) \in Nat /\ 0 * 2 + 0 = 0
      BY <1>1, SumBound, WeightStep DEF OfLength
    <3>2. Val(s) = Sum(s, n)
      BY <1>1 DEF Val, OfLength
    <3> QED
      BY <3>1, <3>2
  <2>5. Dividing(u, s, 2, 0, n)
    BY <2>2, <2>3, <2>4 DEF Dividing
  <2>6. 0 = 0 * (BASE \div 2) /\ 0 \in 0..1
    BY BaseEven
  <2> QED
    BY <2>1, <2>2, <2>5, <2>6 DEF Halving
<1>6. ASSUME NEW k \in Nat, k \in S PROVE k + 1 \in S
  <2>1. SUFFICES ASSUME k + 1 <= n PROVE Halving(R[k + 1], s, k + 1, n)
    OBVIOUS
  <2>2. Halving(R[k], s, k, n)
    BY <1>6, <2>1
  <2>3. R[k + 1] = HalfOp(0, R[k], s[n - k])
    BY <1>4
  <2> QED
    BY <1>1, <2>1, <2>2, <2>3, HalvingStep
<1> HIDE DEF S
<1>7. n \in S
  BY <1>5, <1>6, AllNat
<1>8. PICK rem \in 0..1 : Dividing([limbs |-> R[n].limbs, carry |-> rem], s, 2, n, n)
  BY <1>7 DEF S, Halving
<1>9. R[n].limbs \in Seq(Limb) /\ Val(s) = Val(R[n].limbs) * 2 + rem
  <2>1. PICK u : u = [limbs |-> R[n].limbs, carry |-> rem]
    OBVIOUS
  <2>2. u.limbs = R[n].limbs /\ u.carry = rem
    BY <2>1
  <2>3. n - n = 0 /\ Sum(s, 0) = 0 /\ W(0) = 1
    BY SumStep, WeightStep
  <2>4. R[n].limbs \in Seq(Limb)
    BY <1>8, <2>1, <2>2 DEF Dividing, OfLength
  <2>5. PICK v \in Nat : v = Val(R[n].limbs)
    BY <2>4, ValBound
  <2>6. Val(s) = 0 + 1 * (v * 2 + rem)
    BY <1>8, <2>1, <2>2, <2>3, <2>5 DEF Dividing
  <2> QED
    BY <2>4, <2>5, <2>6
<1> QED
  BY <1>2, <1>3, <1>9

\* shr1 halves a magnitude.
LEMMA Shr1Facts ==
    ASSUME NEW b, IsBig(b), ~b.sign
    PROVE  /\ IsBig(Shr1(b)) /\ ~Shr1(b).sign
           /\ \E rem \in 0..1 : Val(b.limbs) = 2 * Val(Shr1(b).limbs) + rem
<1>1. PICK st : st = HalfLoop(b.limbs)
  OBVIOUS
<1>2. PICK rem \in 0..1 : st.limbs \in Seq(Limb) /\ Val(b.limbs) = Val(st.limbs) * 2 + rem
  BY <1>1, BigFacts, HalfLoopFacts
<1>3. PICK t : t = Trim(st.limbs)
  OBVIOUS
<1>4. Canon(t) /\ Val(t) = Val(st.limbs)
  BY <1>2, <1>3, TrimFacts
<1>5. b.sign = FALSE /\ b = [sign |-> b.sign, limbs |-> b.limbs]
  BY BigFacts DEF IsBig
<1>6. Shr1(b) = [b EXCEPT !.limbs = t]
  <2>1. Shr1(b) = [b EXCEPT !.limbs = Trim(HalfLoop(b.limbs).limbs)]
    BY Zenon DEF Shr1, HalfLoop
  <2> QED
    BY <1>1, <1>3, <2>1
<1>7. [b EXCEPT !.limbs = t] = [sign |-> FALSE, limbs |-> t]
  BY <1>5, ReplaceLimbs
<1>8. PICK c : c = Shr1(b)
  OBVIOUS
<1>9. IsBig(c) /\ c.sign = FALSE /\ c.limbs = t
  <2>1. c = [sign |-> FALSE, limbs |-> t]
    BY <1>6, <1>7, <1>8
  <2> QED
    BY <1>4, <2>1, MakeBig
<1>10. Val(b.limbs) = 2 * Val(t) + rem
  <2>1. PICK v \in Nat : v = Val(st.limbs)
    BY <1>2, ValBound
  <2>2. v * 2 = 2 * v
    OBVIOUS
  <2> QED
    BY <1>2, <1>4, <2>1, <2>2
<1> QED
  BY <1>8, <1>9, <1>10

\* The lowest limb of a number has its parity.
LEMMA LowestLimb ==
    ASSUME NEW s, s \in Seq(Limb), s # <<>>
    PROVE  s[1] \in Limb /\ s[1] % 2 = Val(s) % 2
<1>n. PICK n \in Nat : Len(s) = n + 1 /\ DOMAIN s = 1..(n + 1)
  <2>1. PICK l \in Nat : l = Len(s) /\ DOMAIN s = 1..l
    OBVIOUS
  <2>2. l # 0
    BY <2>1
  <2>3. l - 1 \in Nat /\ l = (l - 1) + 1
    BY <2>2
  <2> QED
    BY <2>1, <2>3
<1>t. PICK t : t = [i \in 1..n |-> s[i + 1]]
  OBVIOUS
<1>1. t \in Seq(Limb) /\ Len(t) = n
  <2>1. \A i \in 1..n : s[i + 1] \in Limb
    <3>1. \A i \in 1..n : i + 1 \in 1..(n + 1)
      OBVIOUS
    <3> QED
      BY <1>n, <3>1
  <2> QED
    BY <1>t, <2>1
<1>2. PICK d \in Limb : d = s[1]
  OBVIOUS
<1>3. s = <<d>> \o t
  <2>1. Len(<<d>> \o t) = n + 1 /\ <<d>> \o t \in Seq(Limb)
    BY <1>1, ValCons
  <2>2. \A i \in 1..(n + 1) : (<<d>> \o t)[i] = s[i]
    <3>1. ASSUME NEW i \in 1..(n + 1)
          PROVE  (<<d>> \o t)[i] = s[i]
      <4>1. CASE i = 1
        BY <1>1, <1>2, <4>1
      <4>2. CASE i # 1
        <5>1. i - 1 \in 1..n /\ (i - 1) + 1 = i
          BY <4>2
        <5>2. (<<d>> \o t)[i] = t[i - 1]
          BY <1>1, <4>2
        <5> QED
          BY <1>t, <5>1, <5>2
      <4> QED
        BY <4>1, <4>2
    <3> QED
      BY <3>1
  <2> QED
    BY <1>n, <2>1, <2>2
<1>4. Val(s) = d + BASE * Val(t)
  BY <1>1, <1>3, ValCons
<1>5. PICK h \in Nat : BASE = 2 * h
  BY BaseEven
<1>6. PICK v \in Nat : v = Val(t)
  BY <1>1, ValBound
<1>7. PICK x \in Nat : x = h * v
  BY MulNat
<1>8. (2 * h) * v = 2 * x
  BY <1>7
<1>9. (d + 2 * x) % 2 = d % 2
  <2>1. d \in Nat
    BY BaseNat DEF Limb
  <2> QED
    BY <2>1
<1> QED
  BY <1>2, <1>4, <1>5, <1>6, <1>8, <1>9

\* Powers of two are positive.
LEMMA PowTwo == \A k \in Nat : PowInt(2, k) \in Nat /\ PowInt(2, k) >= 1
<1>1. 2 \in Int /\ 2 \in Nat /\ 2 >= 1
  OBVIOUS
<1> QED
  BY <1>1, PowType

\* Places are worth powers of two.
LEMMA WeightBits ==
    ASSUME NEW k \in Nat
    PROVE  W(k) = PowInt(2, BITS * k)
<1>1. BITS \in Nat /\ BASE = PowInt(2, BITS)
  BY BaseAssumption
<1>2. PowInt(PowInt(2, BITS), k) = PowInt(2, BITS * k)
  BY <1>1, PowMul
<1> QED
  BY <1>1, <1>2 DEF W

\* A power of two below the base is a limb.
LEMMA LimbPower ==
    ASSUME NEW j \in Nat, j < BITS
    PROVE  PowInt(2, j) \in Limb /\ PowInt(2, j) # 0
<1>1. BITS \in Nat /\ BASE = PowInt(2, BITS)
  BY BaseAssumption
<1>2. PowInt(2, j) \in Nat /\ PowInt(2, j) >= 1
  BY PowTwo
<1>3. PowInt(2, j) < PowInt(2, BITS)
  BY <1>1, PowMono
<1> QED
  BY <1>1, <1>2, <1>3, BaseNat DEF Limb

\* A shift is by limbs and bits.
LEMMA ShiftParts ==
    ASSUME NEW shift \in Nat
    PROVE  /\ shift \div BITS \in Nat /\ shift % BITS \in Nat /\ shift % BITS < BITS
           /\ PowInt(2, shift) = W(shift \div BITS) * PowInt(2, shift % BITS)
<1>1. BITS \in Nat /\ BITS > 0
  BY BaseAssumption
<1>2. PICK k \in Nat, j \in Nat :
          k = shift \div BITS /\ j = shift % BITS /\ j < BITS /\ shift = BITS * k + j
  <2>1. /\ shift \div BITS \in Nat /\ shift % BITS \in 0..(BITS - 1)
        /\ shift = BITS * (shift \div BITS) + (shift % BITS)
    BY <1>1, DivMod
  <2> QED
    BY <1>1, <2>1
<1>3. PICK m \in Nat : m = BITS * k
  BY <1>1, MulNat
<1>4. PowInt(2, m + j) = PowInt(2, m) * PowInt(2, j)
  BY PowAdd
<1>5. W(k) = PowInt(2, m)
  BY <1>3, WeightBits
<1> QED
  BY <1>2, <1>3, <1>4, <1>5

\* Zeros below a number multiply it by the weight of the place after them.
LEMMA ZerosBelow ==
    ASSUME NEW n \in Nat, NEW z, z = [i \in 1..n |-> 0], NEW s, Canon(s), s # <<>>
    PROVE  Canon(z \o s) /\ Val(z \o s) = W(n) * Val(s)
<1>1. z \in Seq(Limb) /\ Len(z) = n /\ Val(z) = 0
  BY ZerosFacts DEF OfLength
<1>2. s \in Seq(Limb)
  BY DEF Canon
<1>3. z \o s \in Seq(Limb) /\ Len(z \o s) = n + Len(s) /\ Val(z \o s) = 0 + W(n) * Val(s)
  BY <1>1, <1>2, ValConcat
<1>4. W(n) * Val(s) \in Nat
  BY <1>2, ValBound, WeightStep, MulNat
<1>5. PICK m \in Nat : m + 1 = Len(s) /\ W(m) <= Val(s)
  <2>1. Len(s) # 0 /\ Len(s) \in Nat
    BY <1>2
  <2>2. Len(s) - 1 \in Nat /\ W(Len(s) - 1) <= Val(s)
    BY <2>1, CanonWeight
  <2>3. (Len(s) - 1) + 1 = Len(s)
    BY <2>1
  <2> QED
    BY <2>2, <2>3
<1>6. W(n + m) <= W(n) * Val(s)
  <2>1. PICK w \in Nat, x \in Nat, v \in Nat : w = W(n) /\ x = W(m) /\ v = Val(s) /\ x <= v
    <3>1. W(n) \in Nat /\ W(m) \in Nat /\ Val(s) \in Nat
      BY <1>2, ValBound, WeightStep
    <3> QED
      BY <1>5, <3>1
  <2>2. w * x <= w * v
    BY <2>1, MulMono
  <2>3. W(n + m) = w * x
    BY <2>1, WeightAdd
  <2> QED
    BY <2>1, <2>2, <2>3
<1>7. Len(z \o s) = (n + m) + 1
  BY <1>3, <1>5
<1>8. Val(z \o s) = W(n) * Val(s)
  BY <1>3, <1>4
<1>9. Canon(z \o s)
  <2>1. n + m \in Nat /\ W(n + m) <= Val(z \o s)
    BY <1>6, <1>8
  <2> QED
    BY <1>3, <1>7, <2>1, CanonBound
<1> QED
  BY <1>8, <1>9

\* shl_usize multiplies a magnitude by a power of two.
LEMMA ShlFacts ==
    ASSUME NEW b, IsBig(b), ~b.sign, NEW shift \in Nat
    PROVE  /\ IsBig(Shl(b, shift)) /\ ~Shl(b, shift).sign
           /\ Val(Shl(b, shift).limbs) = PowInt(2, shift) * Val(b.limbs)
<1>1. /\ b.sign = FALSE /\ b = [sign |-> b.sign, limbs |-> b.limbs] /\ Canon(b.limbs)
      /\ Val(b.limbs) \in Nat /\ (Val(b.limbs) = 0 <=> IsZero(b))
  BY BigFacts DEF IsBig
<1>2. PICK k \in Nat, j \in Nat :
          /\ k = shift \div BITS /\ j = shift % BITS /\ j < BITS
          /\ PowInt(2, shift) = W(k) * PowInt(2, j)
  BY ShiftParts
<1>3. CASE IsZero(b)
  <2>1. Shl(b, shift) = b /\ Val(b.limbs) = 0
    BY <1>1, <1>3 DEF Shl
  <2>2. PowInt(2, shift) \in Nat
    BY PowTwo
  <2>3. PowInt(2, shift) * 0 = 0
    BY <2>2
  <2> QED
    BY <2>1, <2>3
<1>4. CASE ~IsZero(b)
  <2>1. PICK up \in Limb : up = PowInt(2, j) /\ up # 0
    BY <1>2, LimbPower
  <2>2. PICK s, z, t : s = b.limbs /\ z = [i \in 1..k |-> 0] /\ t = Carried(MulLoop(s, up))
    OBVIOUS
  <2>3. Canon(t) /\ Val(t) = up * Val(s)
    BY <1>1, <2>1, <2>2, MulCarried
  <2>4. Shl(b, shift) = [b EXCEPT !.limbs = z \o t]
    <3>1. Shl(b, shift) = [b EXCEPT !.limbs = [i \in 1..(shift \div BITS) |-> 0] \o
                                     Carried(MulLoop(b.limbs, PowInt(2, shift % BITS)))]
      BY <1>4, Zenon DEF Shl, MulLoop
    <3> QED
      BY <1>2, <2>1, <2>2, <3>1
  <2>5. up * Val(s) > 0
    <3>1. up \in Nat /\ up >= 1 /\ Val(s) \in Nat /\ Val(s) # 0
      BY <1>1, <1>4, <2>1, <2>2, BaseNat DEF Limb
    <3>2. up * Val(s) >= Val(s) /\ up * Val(s) \in Nat
      BY <3>1, MulGrows
    <3> QED
      BY <3>1, <3>2
  <2>6. t # <<>>
    BY <2>3, <2>5, ValEmpty
  <2>7. Canon(z \o t) /\ Val(z \o t) = W(k) * (up * Val(s))
    BY <2>2, <2>3, <2>6, ZerosBelow
  <2>8. PICK c, r : c = Shl(b, shift) /\ r = z \o t
    OBVIOUS
  <2>9. IsBig(c) /\ c.sign = FALSE /\ c.limbs = r
    <3>1. c = [sign |-> FALSE, limbs |-> r]
      BY <1>1, <2>4, <2>8, ReplaceLimbs
    <3> QED
      BY <2>7, <2>8, <3>1, MakeBig
  <2>10. W(k) * (up * Val(s)) = PowInt(2, shift) * Val(s)
    <3>1. W(k) \in Int /\ up \in Int /\ Val(s) \in Int
      BY <1>1, <2>2, WeightStep, BaseNat DEF Limb
    <3>2. W(k) * (up * Val(s)) = (W(k) * up) * Val(s)
      BY <3>1, MulAssoc
    <3> QED
      BY <1>2, <2>1, <3>2
  <2> QED
    BY <2>2, <2>7, <2>8, <2>9, <2>10
<1> QED
  BY <1>3, <1>4

\* set_bit of zero makes a power of two.
LEMMA SetBitFacts ==
    ASSUME NEW bit \in Nat
    PROVE  IsBig(SetBit(bit)) /\ IntOf(SetBit(bit)) = PowInt(2, bit)
<1>1. PICK k \in Nat, j \in Nat :
          /\ k = bit \div BITS /\ j = bit % BITS /\ j < BITS
          /\ PowInt(2, bit) = W(k) * PowInt(2, j)
  BY ShiftParts
<1>2. PICK d \in Limb : d = PowInt(2, j) /\ d # 0
  BY <1>1, LimbPower
<1>z. PICK z : z = [i \in 1..k |-> 0]
  OBVIOUS
<1>s. PICK s : s = <<d>>
  OBVIOUS
<1>3. z = [i \in 1..k |-> 0] /\ s = <<d>>
  BY <1>z, <1>s
<1>4. Canon(s) /\ s # <<>> /\ Val(s) = d
  <2>1. s \in Seq(Limb) /\ Len(s) = 1 /\ s[1] = d /\ Val(s) = d
    BY <1>3, ValOne
  <2>2. s # <<>>
    BY <1>3
  <2>3. s[Len(s)] # 0
    BY <1>2, <2>1
  <2> QED
    BY <2>1, <2>2, <2>3 DEF Canon
<1>5. Canon(z \o s) /\ Val(z \o s) = W(k) * d
  <2>1. Canon(z \o s) /\ Val(z \o s) = W(k) * Val(s)
    BY <1>z, <1>4, ZerosBelow
  <2> QED
    BY <1>4, <2>1
<1>6. SetBit(bit) = [sign |-> FALSE, limbs |-> z \o s]
  BY <1>1, <1>2, <1>3 DEF SetBit
<1>7. PICK c, r : c = SetBit(bit) /\ r = z \o s
  OBVIOUS
<1>8. IsBig(c) /\ IntOf(c) = Val(r)
  BY <1>5, <1>6, <1>7, MakeBig
<1> QED
  BY <1>1, <1>2, <1>5, <1>7, <1>8

\* The bits of a number that is not 0: the power of two just above it.
LEMMA BitLenFacts ==
    ASSUME NEW b, Canon(b.limbs), ~IsZero(b)
    PROVE  \E n \in Nat : /\ BitLen(b) = n + 1
                          /\ PowInt(2, n) <= Val(b.limbs) /\ Val(b.limbs) < PowInt(2, n + 1)
<1>1. PICK s : s = b.limbs /\ s \in Seq(Limb) /\ s # <<>>
  BY DEF Canon, IsZero
<1>2. PICK m \in Nat : Len(s) = m + 1
  <2>0. Len(s) \in Nat
    BY <1>1
  <2>1. PICK l \in Nat : l = Len(s)
    BY <2>0
  <2>2. l # 0
    BY <1>1, <2>1
  <2>3. l - 1 \in Nat /\ l = (l - 1) + 1
    BY <2>2
  <2> QED
    BY <2>1, <2>3
<1>3. PICK d \in Limb : d = s[m + 1] /\ d # 0 /\ d = Last(s)
  <2>1. Last(s) = s[m + 1] /\ m + 1 \in 1..Len(s)
    BY <1>2 DEF Last
  <2>2. s[m + 1] \in Limb
    BY <1>1, <2>1
  <2>3. s[m + 1] # 0
    BY <1>1, <1>2 DEF Canon
  <2> QED
    BY <2>1, <2>2, <2>3
<1>4. d \in Nat /\ d < BASE /\ d >= 1
  BY <1>3, BaseNat DEF Limb
<1>5. BITS \in Nat /\ BASE = PowInt(2, BITS)
  BY BaseAssumption
<1> DEFINE Fit(k) == PowInt(2, k - 1) <= d /\ d < PowInt(2, k)
<1>6. \E k \in 1..BITS : Fit(k)
  <2> DEFINE T == {k \in Nat : d < PowInt(2, k)}
  <2>1. T \in SUBSET Nat /\ BITS \in T
    BY <1>4, <1>5
  <2> HIDE DEF T
  <2>2. PICK k \in T : \A j \in T : k <= j
    <3>0. Sums!Induction
      BY AllNat DEF Sums!Induction
    <3> QED
      BY <2>1, <3>0, Sums!LeastNat
  <2>3. k \in Nat /\ k <= BITS /\ d < PowInt(2, k)
    BY <2>1, <2>2 DEF T
  <2>4. k # 0
    <3>1. PowInt(2, 0) = 1
      BY PowStep
    <3> QED
      BY <1>4, <2>3, <3>1
  <2>5. k - 1 \in Nat /\ ~(k <= k - 1)
    BY <2>3, <2>4
  <2>6. k - 1 \notin T
    BY <2>2, <2>5
  <2>7. PowInt(2, k - 1) <= d
    <3>1. ~(d < PowInt(2, k - 1))
      BY <2>5, <2>6 DEF T
    <3>2. PowInt(2, k - 1) \in Nat
      BY <2>5, PowTwo
    <3> QED
      BY <1>4, <3>1, <3>2
  <2> QED
    BY <1>5, <2>3, <2>4, <2>7
<1>7. PICK k : k = CHOOSE i \in 1..BITS : Fit(i)
  OBVIOUS
<1>8. k \in 1..BITS /\ Fit(k)
  <2> HIDE DEF Fit
  <2> QED
    BY <1>6, <1>7
<1>9. BitLen(b) = m * BITS + k
  <2>1. BitLen(b) = (Len(s) - 1) * BITS + CHOOSE i \in 1..BITS : Fit(i)
    BY <1>1, <1>3 DEF BitLen
  <2>2. Len(s) - 1 = m
    BY <1>2
  <2> QED
    BY <1>7, <2>1, <2>2
<1>10. PICK j \in Nat : k = j + 1
  <2>1. k - 1 \in Nat /\ k = (k - 1) + 1
    BY <1>5, <1>8
  <2> QED
    BY <2>1
<1>11. PICK e \in Nat : e = BITS * m /\ e = m * BITS
  <2>1. BITS * m \in Nat /\ BITS * m = m * BITS
    BY <1>5
  <2> QED
    BY <2>1
<1>12. PICK w \in Nat, p \in Nat, q \in Nat :
           /\ w = W(m) /\ w = PowInt(2, e) /\ p = PowInt(2, j) /\ q = PowInt(2, j + 1)
           /\ p <= d /\ d < q
  <2>1. W(m) \in Nat /\ W(m) = PowInt(2, e)
    BY <1>11, WeightStep, WeightBits
  <2>2. PowInt(2, j) \in Nat /\ PowInt(2, j + 1) \in Nat
    BY PowTwo
  <2>3. PowInt(2, j) <= d /\ d < PowInt(2, j + 1)
    <3>1. k - 1 = j
      BY <1>10
    <3> QED
      BY <1>8, <1>10, <3>1
  <2> QED
    BY <2>1, <2>2, <2>3
<1>13. PowInt(2, e + j) = p * w /\ PowInt(2, (e + j) + 1) = q * w
  <2>1. PowInt(2, e + j) = w * p /\ PowInt(2, e + (j + 1)) = w * q
    BY <1>12, PowAdd
  <2>2. e + (j + 1) = (e + j) + 1 /\ w * p = p * w /\ w * q = q * w
    OBVIOUS
  <2> QED
    BY <2>1, <2>2
<1>14. PICK r \in Nat : r = Sum(s, m) /\ r < w /\ Val(s) = r + d * w
  <2>1. Sum(s, m) \in Nat /\ Sum(s, m) < W(m)
    BY <1>1, SumBound
  <2> QED
    BY <1>1, <1>2, <1>3, <1>12, <2>1, ValStep
<1>15. p * w <= r + d * w
  <2>1. p * w <= d * w /\ p * w \in Nat /\ d * w \in Nat
    BY <1>4, <1>12, MulMono, MulNat
  <2> QED
    BY <2>1
<1>16. r + d * w < q * w
  BY <1>4, <1>12, <1>14, DigitBound
<1>17. BitLen(b) = (e + j) + 1
  BY <1>9, <1>10, <1>11
<1>18. e + j \in Nat /\ PowInt(2, e + j) <= Val(b.limbs) /\ Val(b.limbs) < PowInt(2, (e + j) + 1)
  BY <1>1, <1>13, <1>14, <1>15, <1>16
<1> QED
  BY <1>17, <1>18

-----------------------------------------------------------------------------
(* Division.                                                                 *)

\* A magnitude is the number without its sign.
LEMMA MagnitudeFacts ==
    ASSUME NEW b, IsBig(b)
    PROVE  /\ IsBig(Magnitude(b)) /\ Magnitude(b).sign = FALSE
           /\ Magnitude(b).limbs = b.limbs
<1>1. b = [sign |-> b.sign, limbs |-> b.limbs] /\ Canon(b.limbs)
  BY BigFacts
<1>2. PICK c : c = Magnitude(b)
  OBVIOUS
<1>3. c = [sign |-> FALSE, limbs |-> b.limbs]
  BY <1>1, <1>2, ReplaceSign DEF Magnitude
<1>4. IsBig(c) /\ c.sign = FALSE /\ c.limbs = b.limbs
  BY <1>1, <1>3, MakeBig
<1> QED
  BY <1>2, <1>4

\* A number that is not negative has no sign.
LEMMA NotNegative ==
    ASSUME NEW b, IsBig(b), IntOf(b) >= 0
    PROVE  b.sign = FALSE /\ IntOf(b) = Val(b.limbs)
<1>1. b.sign = FALSE
  BY BigFacts DEF IsBig
<1> QED
  BY <1>1 DEF IntOf

\* The number b under division so far, by B: what has been taken, and what is left.
Reducing(st, A, B) ==
    /\ IsBig(st.a) /\ st.a.sign = FALSE /\ IsBig(st.q) /\ st.q.sign = FALSE
    /\ A = Val(st.q.limbs) * B + Val(st.a.limbs)

\* The divisor has been shifted by s bits.
Shifted(st, B, s) ==
    IsBig(st.b) /\ st.b.sign = FALSE /\ Val(st.b.limbs) = PowInt(2, s) * B

\* A round takes the shifted divisor if it fits.
LEMMA DivRoundTakes ==
    ASSUME NEW st, NEW A \in Nat, NEW B \in Nat, NEW s \in Nat, Reducing(st, A, B),
           Shifted(st, B, s), Val(st.a.limbs) < 2 * (PowInt(2, s) * B)
    PROVE  /\ Reducing(DivRound(st, s), A, B)
           /\ Val(DivRound(st, s).a.limbs) < PowInt(2, s) * B
           /\ s # 0 => Shifted(DivRound(st, s), B, s - 1)
<1>1. PICK a, b, q : a = st.a /\ b = st.b /\ q = st.q
  OBVIOUS
<1>2. /\ IsBig(a) /\ a.sign = FALSE /\ IsBig(b) /\ b.sign = FALSE /\ IsBig(q) /\ q.sign = FALSE
      /\ A = Val(q.limbs) * B + Val(a.limbs) /\ Val(b.limbs) = PowInt(2, s) * B
  BY <1>1 DEF Reducing, Shifted
<1>3. PICK x \in Nat, y \in Nat, z \in Nat, p \in Nat :
          /\ x = Val(a.limbs) /\ y = Val(b.limbs) /\ z = Val(q.limbs) /\ p = PowInt(2, s)
          /\ y = p * B
  <2>1. Val(a.limbs) \in Nat /\ Val(b.limbs) \in Nat /\ Val(q.limbs) \in Nat
    BY <1>2, BigFacts
  <2> QED
    BY <1>2, <2>1, PowTwo
<1>4. x < 2 * y /\ A = z * B + x
  BY <1>1, <1>2, <1>3
<1> DEFINE fits == CmpAbs(a, b) >= 0
<1>5. fits <=> y <= x
  <2>1. CmpAbs(a, b) = CmpInt(x, y)
    BY <1>2, <1>3, CmpAbsIsOrder DEF IsBig
  <2>2. CmpInt(x, y) >= 0 <=> y <= x
    BY DEF CmpInt
  <2> QED
    BY <2>1, <2>2
<1>6. PICK next : next = DivRound(st, s)
  OBVIOUS
<1>7. next = [a |-> IF fits THEN SubBig(a, b) ELSE a,
              q |-> IF fits THEN AddBig(q, SetBit(s)) ELSE q,
              b |-> IF s = 0 THEN b ELSE Shr1(b)]
  BY <1>1, <1>6, Zenon DEF DivRound
<1> HIDE DEF fits
<1>8. /\ next.a = IF fits THEN SubBig(a, b) ELSE a
      /\ next.q = IF fits THEN AddBig(q, SetBit(s)) ELSE q
      /\ next.b = IF s = 0 THEN b ELSE Shr1(b)
  BY <1>7
<1>9. Reducing(next, A, B) /\ Val(next.a.limbs) < y
  <2>1. CASE fits
    <3>1. next.a = SubBig(a, b) /\ next.q = AddBig(q, SetBit(s)) /\ y <= x
      BY <1>5, <1>8, <2>1
    <3>2. IntOf(a) = x /\ IntOf(b) = y /\ IntOf(q) = z
      BY <1>2, <1>3 DEF IntOf
    <3>3. IsBig(next.a) /\ next.a.sign = FALSE /\ Val(next.a.limbs) = x - y
      <4>1. IsBig(next.a) /\ IntOf(next.a) = x - y
        BY <1>2, <3>1, <3>2, SubBigFacts
      <4>2. x - y >= 0
        BY <3>1
      <4> QED
        BY <4>1, <4>2, NotNegative
    <3>4. IsBig(next.q) /\ next.q.sign = FALSE /\ Val(next.q.limbs) = z + p
      <4>1. IsBig(SetBit(s)) /\ IntOf(SetBit(s)) = p
        BY <1>3, SetBitFacts
      <4>2. IsBig(next.q) /\ IntOf(next.q) = z + p
        BY <1>2, <3>1, <3>2, <4>1, AddBigFacts
      <4>3. z + p >= 0
        OBVIOUS
      <4> QED
        BY <4>2, <4>3, NotNegative
    <3>5. A = (z + p) * B + (x - y)
      <4>1. (z + p) * B = z * B + p * B /\ z * B \in Int
        OBVIOUS
      <4> QED
        BY <1>3, <1>4, <4>1
    <3>6. x - y < y
      BY <1>4
    <3> QED
      BY <3>3, <3>4, <3>5, <3>6 DEF Reducing
  <2>2. CASE ~fits
    <3>1. next.a = a /\ next.q = q /\ x < y
      BY <1>5, <1>8, <2>2
    <3> QED
      BY <1>2, <1>3, <1>4, <3>1 DEF Reducing
  <2> QED
    BY <2>1, <2>2
<1>10. ASSUME s # 0 PROVE Shifted(next, B, s - 1)
  <2>1. PICK j \in Nat : s = j + 1 /\ j = s - 1
    <3>1. s - 1 \in Nat /\ s = (s - 1) + 1
      BY <1>10
    <3> QED
      BY <3>1
  <2>2. next.b = Shr1(b)
    BY <1>8, <1>10
  <2>3. PICK rem \in 0..1 :
            /\ IsBig(Shr1(b)) /\ ~Shr1(b).sign
            /\ Val(b.limbs) = 2 * Val(Shr1(b).limbs) + rem
    BY <1>2, Shr1Facts
  <2>4. Shr1(b).sign = FALSE
    BY <2>3 DEF IsBig
  <2>5. PICK v \in Nat, w \in Nat : v = Val(Shr1(b).limbs) /\ w = PowInt(2, j)
    <3>1. Val(Shr1(b).limbs) \in Nat
      BY <2>3, BigFacts
    <3> QED
      BY <3>1, PowTwo
  <2>6. p = 2 * w
    BY <1>3, <2>1, <2>5, PowStep
  <2>7. PICK u \in Nat : u = w * B
    BY MulNat
  <2>8. (2 * w) * B = 2 * u
    BY <2>7
  <2>9. 2 * u = 2 * v + rem
    BY <1>3, <2>3, <2>5, <2>6, <2>8
  <2>10. v = u
    BY <2>9
  <2> QED
    BY <2>1, <2>2, <2>3, <2>4, <2>5, <2>7, <2>10 DEF Shifted
<1> QED
  BY <1>3, <1>6, <1>9, <1>10

\* The body of the loop of the division by limbs: one bit of the quotient.
DivBigOp(p, st, shift) == DivRound(st, shift)
DivBigRounds == INSTANCE HehRecursion WITH Op <- DivBigOp

\* The loop of div_mod, from the highest shift to 0.
DivLoop(x, y, top) ==
    FoldLeft(DivRound, [a |-> x, q |-> Zero, b |-> Shl(y, top)],
             [i \in 1..(top + 1) |-> top + 1 - i])

\* After all rounds of the loop of div_mod the remainder is below the divisor.
LEMMA DivLoopFacts ==
    ASSUME NEW x, IsBig(x), x.sign = FALSE, NEW y, IsBig(y), y.sign = FALSE, NEW top \in Nat,
           NEW A \in Nat, NEW B \in Nat, A = Val(x.limbs), B = Val(y.limbs),
           A < 2 * (PowInt(2, top) * B)
    PROVE  Reducing(DivLoop(x, y, top), A, B) /\ Val(DivLoop(x, y, top).a.limbs) < B
<1>n. PICK n \in Nat : n = top + 1
  OBVIOUS
<1>b. PICK base : base = [a |-> x, q |-> Zero, b |-> Shl(y, top)]
  OBVIOUS
<1>q. PICK q : q = [i \in 1..n |-> n - i]
  OBVIOUS
<1>1. DOMAIN q = 1..n /\ Len(q) = n /\ \A i \in 1..n : q[i] = n - i
  BY <1>q
<1>2. DivLoop(x, y, top) = FoldLeft(DivRound, base, q)
  BY <1>n, <1>b, <1>q DEF DivLoop
<1>3. DivLoop(x, y, top) = DivBigRounds!FoldL(0, base, q, 1..n)
  BY <1>1, <1>2 DEF FoldLeft, MapThenFoldSet, Max, DivBigRounds!FoldL, DivBigRounds!Top, DivBigOp
<1>4. PICK R : /\ DivBigRounds!LeftRounds(R, 0, base, q)
               /\ DivBigRounds!FoldL(0, base, q, 1..n) = R[n]
  <2>0. DivBigRounds!Induction
    BY AllNat DEF DivBigRounds!Induction
  <2> QED
    BY <2>0, DivBigRounds!LeftFold
<1>5. R[0] = base /\ \A k \in Nat : R[k + 1] = DivRound(R[k], q[k + 1])
  BY <1>4 DEF DivBigRounds!LeftRounds, DivBigOp
<1> DEFINE P(k) == /\ Reducing(R[k], A, B) /\ Shifted(R[k], B, top - k)
                   /\ Val(R[k].a.limbs) < 2 * (PowInt(2, top - k) * B)
           S == {k \in Nat : k <= top => P(k)}
<1>6. P(0)
  <2>1. base.a = x /\ base.q = Zero /\ base.b = Shl(y, top)
    BY <1>b
  <2>2. IsBig(Zero) /\ Zero.sign = FALSE /\ Val(Zero.limbs) = 0
    BY ZeroFacts, ValEmpty DEF Zero
  <2>3. A = 0 * B + A
    OBVIOUS
  <2>4. Reducing(base, A, B)
    BY <2>1, <2>2, <2>3 DEF Reducing
  <2>5. IsBig(Shl(y, top)) /\ ~Shl(y, top).sign /\ Val(Shl(y, top).limbs) = PowInt(2, top) * B
    BY ShlFacts
  <2>6. Shl(y, top).sign = FALSE
    BY <2>5 DEF IsBig
  <2>7. Shifted(base, B, top)
    BY <2>1, <2>5, <2>6 DEF Shifted
  <2>8. top - 0 = top
    OBVIOUS
  <2> QED
    BY <1>5, <2>1, <2>4, <2>7, <2>8
<1>7. ASSUME NEW k \in Nat, k + 1 <= top, P(k) PROVE P(k + 1)
  <2>1. PICK s \in Nat : s = top - k /\ s # 0 /\ s - 1 = top - (k + 1) /\ s - 1 \in Nat
    <3>1. /\ top - k \in Nat /\ top - k # 0 /\ (top - k) - 1 = top - (k + 1)
          /\ (top - k) - 1 \in Nat
      BY <1>7
    <3> QED
      BY <3>1
  <2>2. q[k + 1] = s
    <3>1. k + 1 \in 1..n /\ n - (k + 1) = s
      BY <1>n, <1>7, <2>1
    <3> QED
      BY <1>1, <3>1
  <2>3. R[k + 1] = DivRound(R[k], s)
    BY <1>5, <2>2
  <2>4. Reducing(R[k], A, B) /\ Shifted(R[k], B, s) /\ Val(R[k].a.limbs) < 2 * (PowInt(2, s) * B)
    BY <1>7, <2>1
  <2>5. /\ Reducing(R[k + 1], A, B) /\ Val(R[k + 1].a.limbs) < PowInt(2, s) * B
        /\ Shifted(R[k + 1], B, s - 1)
    <3>1. PICK u : u = R[k]
      OBVIOUS
    <3>2. /\ Reducing(DivRound(u, s), A, B) /\ Val(DivRound(u, s).a.limbs) < PowInt(2, s) * B
          /\ Shifted(DivRound(u, s), B, s - 1)
      BY <2>1, <2>4, <3>1, DivRoundTakes
    <3> QED
      BY <2>3, <3>1, <3>2
  <2>6. PowInt(2, s) * B = 2 * (PowInt(2, s - 1) * B)
    <3>1. PICK w \in Nat : w = PowInt(2, s - 1)
      BY <2>1, PowTwo
    <3>2. PowInt(2, s) = 2 * w
      <4>1. s = (s - 1) + 1
        BY <2>1
      <4> QED
        BY <2>1, <3>1, <4>1, PowStep
    <3>3. (2 * w) * B = 2 * (w * B)
      OBVIOUS
    <3> QED
      BY <3>1, <3>2, <3>3
  <2> QED
    BY <2>1, <2>5, <2>6
<1> HIDE DEF P
<1>8. P(top)
  <2>1. 0 \in S
    BY <1>6
  <2>2. ASSUME NEW k \in Nat, k \in S PROVE k + 1 \in S
    <3>1. k + 1 <= top => k <= top
      OBVIOUS
    <3>2. k + 1 <= top => P(k + 1)
      BY <1>7, <2>2, <3>1
    <3> QED
      BY <3>2
  <2>3. top \in S
    <3> HIDE DEF S
    <3> QED
      BY <2>1, <2>2, AllNat
  <2> QED
    BY <2>3
<1>9. /\ Reducing(R[top], A, B) /\ Shifted(R[top], B, 0)
      /\ Val(R[top].a.limbs) < 2 * (PowInt(2, 0) * B)
  <2>1. top - top = 0
    OBVIOUS
  <2> QED
    BY <1>8, <2>1 DEF P
<1>10. R[n] = DivRound(R[top], 0)
  <2>1. n \in 1..n /\ n - n = 0
    BY <1>n
  <2>2. q[top + 1] = 0
    BY <1>n, <1>1, <2>1
  <2> QED
    BY <1>n, <1>5, <2>2
<1>11. Reducing(R[n], A, B) /\ Val(R[n].a.limbs) < PowInt(2, 0) * B
  BY <1>9, <1>10, DivRoundTakes
<1>12. PowInt(2, 0) * B = B
  <2>1. PowInt(2, 0) = 1
    BY PowStep
  <2>2. 1 * B = B
    OBVIOUS
  <2> QED
    BY <2>1, <2>2
<1> QED
  BY <1>3, <1>4, <1>11, <1>12

-----------------------------------------------------------------------------
(* The signs of a quotient and a remainder.                                  *)

\* The opposite is the difference from zero.
LEMMA NegIsMinus == \A x \in Int : -x = 0 - x
  OBVIOUS

\* Zero is zero with either sign.
LEMMA ZeroWithSign ==
    ASSUME NEW t \in BOOLEAN, NEW x \in Int, x = 0
    PROVE  WithSign(t, x) = 0
<1>2. PICK z \in Int : z = -x
  OBVIOUS
<1>3. z = 0 - x
  BY <1>2, NegIsMinus, Zenon
<1>5. z = 0
  BY <1>3
<1>4. WithSign(t, x) = IF t THEN z ELSE x
  BY <1>2, Zenon DEF WithSign
<1> QED
  BY <1>4, <1>5, Zenon

\* A number that is not negative gets a sign, unless it is zero.
LEMMA SignedFacts ==
    ASSUME NEW c, IsBig(c), c.sign = FALSE, NEW t \in BOOLEAN,
           NEW v \in BOOLEAN, v <=> ~IsZero(c) /\ t, NEW d, d = [c EXCEPT !.sign = v]
    PROVE  /\ IsBig(d) /\ d.limbs = c.limbs /\ IntOf(d) = WithSign(t, Val(c.limbs))
           /\ IsZero(d) \/ d.sign = t
<1>1. c = [sign |-> c.sign, limbs |-> c.limbs] /\ Canon(c.limbs) /\ Val(c.limbs) \in Nat
      /\ (Val(c.limbs) = 0 <=> IsZero(c)) /\ c.limbs \in Seq(Limb)
  BY BigFacts
<1>2. d = [sign |-> v, limbs |-> c.limbs]
  BY <1>1, ReplaceSign
<1>3. /\ IsBig(d) /\ d.sign = v /\ d.limbs = c.limbs
      /\ IntOf(d) = IF v THEN -Val(c.limbs) ELSE Val(c.limbs)
  <2>1. Val(c.limbs) > 0 \/ ~v
    BY <1>1
  <2> QED
    BY <1>1, <1>2, <2>1, MakeBig
<1>4. IntOf(d) = WithSign(t, Val(c.limbs))
  <2>1. CASE IsZero(c)
    <3>1. Val(c.limbs) = 0
      BY <1>1, <2>1
    <3>2. ~v
      BY <2>1
    <3>3. IntOf(d) = 0
      BY <1>3, <3>1, <3>2
    <3>4. WithSign(t, Val(c.limbs)) = 0
      BY <3>1, ZeroWithSign
    <3> QED
      BY <3>3, <3>4
  <2>2. CASE ~IsZero(c)
    BY <1>3, <2>2 DEF WithSign
  <2> QED
    BY <2>1, <2>2
<1>5. IsZero(d) \/ d.sign = t
  <2>1. CASE IsZero(c)
    BY <1>3, <2>1 DEF IsZero
  <2>2. CASE ~IsZero(c)
    BY <1>3, <2>2
  <2> QED
    BY <2>1, <2>2
<1> QED
  BY <1>3, <1>4, <1>5

\* The shift at which the division of A by B starts: A is below twice the divisor there.
LEMMA TopBound ==
    ASSUME NEW A \in Nat, NEW B \in Nat, NEW n \in Nat, NEW m \in Nat, NEW top \in Nat,
           A < PowInt(2, n + 1), PowInt(2, m) <= B, n <= m + top
    PROVE  A < 2 * (PowInt(2, top) * B)
<1>1. PICK x \in Nat, y \in Nat, z \in Nat, u \in Nat :
          /\ x = PowInt(2, n + 1) /\ y = PowInt(2, m) /\ z = PowInt(2, top)
          /\ u = PowInt(2, (m + top) + 1)
  <2>1. n + 1 \in Nat /\ (m + top) + 1 \in Nat
    OBVIOUS
  <2>2. /\ PowInt(2, n + 1) \in Nat /\ PowInt(2, m) \in Nat /\ PowInt(2, top) \in Nat
        /\ PowInt(2, (m + top) + 1) \in Nat
    BY <2>1, PowTwo
  <2> QED
    BY <2>2
<1>2. x <= u
  <2>1. n + 1 \in Nat /\ (m + top) + 1 \in Nat /\ n + 1 <= (m + top) + 1
    OBVIOUS
  <2> QED
    BY <1>1, <2>1, PowMono
<1>3. u = 2 * (z * y)
  <2>1. PowInt(2, (m + top) + 1) = 2 * PowInt(2, m + top)
    BY PowStep
  <2>2. PowInt(2, m + top) = y * z /\ y * z = z * y
    BY <1>1, PowAdd
  <2> QED
    BY <1>1, <2>1, <2>2
<1>4. y * z <= B * z /\ y * z = z * y /\ B * z = z * B /\ z * y \in Nat /\ z * B \in Nat
  <2>1. y <= B
    BY <1>1
  <2>2. y * z <= B * z
    BY <2>1, MulMono
  <2> QED
    BY <2>2, MulNat
<1> QED
  BY <1>1, <1>2, <1>3, <1>4

\* The shift at which the code starts.
LEMMA TopFacts ==
    ASSUME NEW a, IsBig(a), NEW b, IsBig(b), ~IsZero(b), CmpAbs(a, b) >= 0
    PROVE  \E top \in Nat : /\ top = IF BitLen(a) > BitLen(b) THEN BitLen(a) - BitLen(b) ELSE 0
                            /\ Val(a.limbs) < 2 * (PowInt(2, top) * Val(b.limbs))
<1>1. PICK A \in Nat, B \in Nat : A = Val(a.limbs) /\ B = Val(b.limbs)
  <2>1. Val(a.limbs) \in Nat /\ Val(b.limbs) \in Nat
    BY BigFacts
  <2> QED
    BY <2>1
<1>2. B # 0 /\ B <= A
  <2>1. B # 0
    BY <1>1, BigFacts
  <2>2. CmpAbs(a, b) = CmpInt(A, B)
    BY <1>1, CmpAbsIsOrder DEF IsBig
  <2>3. ~(A < B)
    BY <2>2 DEF CmpInt
  <2> QED
    BY <2>1, <2>3
<1>3. Canon(a.limbs) /\ Canon(b.limbs) /\ ~IsZero(a)
  <2>1. Canon(a.limbs) /\ Canon(b.limbs) /\ (Val(a.limbs) = 0 <=> IsZero(a))
    BY BigFacts
  <2> QED
    BY <1>1, <1>2, <2>1
<1>4. PICK n \in Nat : BitLen(a) = n + 1 /\ A < PowInt(2, n + 1)
  BY <1>1, <1>3, BitLenFacts
<1>5. PICK m \in Nat : BitLen(b) = m + 1 /\ PowInt(2, m) <= B
  BY <1>1, <1>3, BitLenFacts
<1>6. PICK top \in Nat : top = (IF n > m THEN n - m ELSE 0) /\ n <= m + top
  <2>1. (IF n > m THEN n - m ELSE 0) \in Nat /\ n <= m + (IF n > m THEN n - m ELSE 0)
    OBVIOUS
  <2> QED
    BY <2>1
<1>7. top = IF BitLen(a) > BitLen(b) THEN BitLen(a) - BitLen(b) ELSE 0
  BY <1>4, <1>5, <1>6
<1>8. A < 2 * (PowInt(2, top) * B)
  BY <1>4, <1>5, <1>6, TopBound
<1> QED
  BY <1>1, <1>7, <1>8

\* The quotient and the remainder with their signs.
LEMMA SignsOfDivision ==
    ASSUME NEW s \in BOOLEAN, NEW t \in BOOLEAN, NEW u \in BOOLEAN, u <=> ~(s <=> t),
           NEW q \in Nat, NEW r \in Nat, NEW B \in Nat
    PROVE  WithSign(s, q * B + r) = WithSign(u, q) * WithSign(t, B) + WithSign(s, r)
<1>1. PICK p \in Nat : p = q * B
  BY MulNat
<1>2. (-q) * B = -p /\ q * (-B) = -p /\ (-q) * (-B) = p
  BY <1>1
<1>3. CASE s /\ t
  <2>1. ~u
    BY <1>3
  <2>2. WithSign(s, p + r) = -(p + r) /\ WithSign(s, r) = -r
    BY <1>3 DEF WithSign
  <2>3. WithSign(u, q) = q /\ WithSign(t, B) = -B
    BY <1>3, <2>1 DEF WithSign
  <2>4. -(p + r) = q * (-B) + (-r)
    BY <1>1, <1>2
  <2> QED
    BY <1>1, <2>2, <2>3, <2>4, Zenon
<1>4. CASE s /\ ~t
  <2>1. u
    BY <1>4
  <2>2. WithSign(s, p + r) = -(p + r) /\ WithSign(s, r) = -r
    BY <1>4 DEF WithSign
  <2>3. WithSign(u, q) = -q /\ WithSign(t, B) = B
    BY <1>4, <2>1 DEF WithSign
  <2>4. -(p + r) = (-q) * B + (-r)
    BY <1>1, <1>2
  <2> QED
    BY <1>1, <2>2, <2>3, <2>4, Zenon
<1>5. CASE ~s /\ t
  <2>1. u
    BY <1>5
  <2>2. WithSign(s, p + r) = p + r /\ WithSign(s, r) = r
    BY <1>5 DEF WithSign
  <2>3. WithSign(u, q) = -q /\ WithSign(t, B) = -B
    BY <1>5, <2>1 DEF WithSign
  <2>4. p + r = (-q) * (-B) + (r)
    BY <1>1, <1>2
  <2> QED
    BY <1>1, <2>2, <2>3, <2>4, Zenon
<1>6. CASE ~s /\ ~t
  <2>1. ~u
    BY <1>6
  <2>2. WithSign(s, p + r) = p + r /\ WithSign(s, r) = r
    BY <1>6 DEF WithSign
  <2>3. WithSign(u, q) = q /\ WithSign(t, B) = B
    BY <1>6, <2>1 DEF WithSign
  <2>4. p + r = q * B + (r)
    BY <1>1, <1>2
  <2> QED
    BY <1>1, <2>2, <2>3, <2>4, Zenon
<1> QED
  BY <1>3, <1>4, <1>5, <1>6

\* What a truncating division is: the remainder is below the divisor and takes the
\* sign of the dividend.
Divides(d, a, b) ==
    /\ IsBig(d.q) /\ IsBig(d.r) /\ IntOf(a) = IntOf(d.q) * IntOf(b) + IntOf(d.r)
    /\ Val(d.r.limbs) < Val(b.limbs) /\ (IsZero(d.r) \/ d.r.sign = a.sign)

\* div_mod divides; the remainder has the sign of the dividend.
LEMMA DivModBigFacts ==
    ASSUME NEW a, IsBig(a), NEW b, IsBig(b), ~IsZero(b)
    PROVE  Divides(DivModBig(a, b), a, b)
<1>1. PICK A \in Nat, B \in Nat : A = Val(a.limbs) /\ B = Val(b.limbs)
  <2>1. Val(a.limbs) \in Nat /\ Val(b.limbs) \in Nat
    BY BigFacts
  <2> QED
    BY <2>1
<1>2. CmpAbs(a, b) = CmpInt(A, B)
  BY <1>1, CmpAbsIsOrder DEF IsBig
<1>3. IntOf(a) \in Int /\ IntOf(b) \in Int
  BY BigFacts
<1>4. CASE CmpAbs(a, b) < 0
  <2>1. PICK d : d = DivModBig(a, b)
    OBVIOUS
  <2>2. d = [q |-> Zero, r |-> a]
    BY <1>4, <2>1 DEF DivModBig
  <2>3. d.q = Zero /\ d.r = a
    BY <2>2
  <2>4. A < B
    BY <1>2, <1>4 DEF CmpInt
  <2>5. IntOf(a) = 0 * IntOf(b) + IntOf(a)
    BY <1>3
  <2> QED
    BY <1>1, <2>1, <2>3, <2>4, <2>5, ZeroFacts DEF Divides
<1>5. CASE CmpAbs(a, b) >= 0
  <2>1. PICK top \in Nat : /\ top = IF BitLen(a) > BitLen(b) THEN BitLen(a) - BitLen(b) ELSE 0
                           /\ A < 2 * (PowInt(2, top) * B)
    BY <1>1, <1>5, TopFacts
  <2>2. PICK x, y : x = Magnitude(a) /\ y = Magnitude(b)
    OBVIOUS
  <2>3. /\ IsBig(x) /\ x.sign = FALSE /\ A = Val(x.limbs)
        /\ IsBig(y) /\ y.sign = FALSE /\ B = Val(y.limbs)
    BY <1>1, <2>2, MagnitudeFacts
  <2>4. PICK st : st = DivLoop(x, y, top)
    OBVIOUS
  <2>5. Reducing(st, A, B) /\ Val(st.a.limbs) < B
    BY <2>1, <2>3, <2>4, DivLoopFacts
  <2>6. PICK d : d = DivModBig(a, b)
    OBVIOUS
  <2>n. PICK v, w : v = (~IsZero(st.q) /\ a.sign # b.sign) /\ w = (~IsZero(st.a) /\ a.sign)
    OBVIOUS
  <2>7. d = [q |-> [st.q EXCEPT !.sign = v], r |-> [st.a EXCEPT !.sign = w]]
    <3>1. ~(CmpAbs(a, b) < 0)
      BY <1>2, <1>5 DEF CmpInt
    <3>2. st = FoldLeft(DivRound, [a |-> Magnitude(a), q |-> Zero, b |-> Shl(Magnitude(b), top)],
                        [i \in 1..(top + 1) |-> top + 1 - i])
      BY <2>2, <2>4 DEF DivLoop
    <3> QED
      BY <2>1, <2>6, <2>n, <3>1, <3>2, Zenon DEF DivModBig
  <2>8. d.q = [st.q EXCEPT !.sign = v] /\ d.r = [st.a EXCEPT !.sign = w]
    BY <2>7
  <2>9. /\ IsBig(st.a) /\ st.a.sign = FALSE /\ IsBig(st.q) /\ st.q.sign = FALSE
        /\ A = Val(st.q.limbs) * B + Val(st.a.limbs)
    BY <2>5 DEF Reducing
  <2>10. PICK s \in BOOLEAN, t \in BOOLEAN : s = a.sign /\ t = b.sign
    <3>1. a.sign \in BOOLEAN /\ b.sign \in BOOLEAN
      BY BigFacts
    <3> QED
      BY <3>1
  <2>11. PICK u \in BOOLEAN : u <=> ~(s <=> t)
    OBVIOUS
  <2>e. PICK c, e, f, g : c = st.q /\ e = d.q /\ f = st.a /\ g = d.r
    OBVIOUS
  <2>m. v \in BOOLEAN /\ w \in BOOLEAN /\ (v <=> ~IsZero(st.q) /\ u) /\ (w <=> ~IsZero(st.a) /\ s)
    BY <2>n, <2>10, <2>11
  <2>l. PICK i \in BOOLEAN, j \in BOOLEAN : /\ (i <=> ~IsZero(c) /\ u) /\ (j <=> ~IsZero(f) /\ s)
                                            /\ e = [c EXCEPT !.sign = i] /\ g = [f EXCEPT !.sign = j]
    <3>1. (v <=> ~IsZero(c) /\ u) /\ (w <=> ~IsZero(f) /\ s)
      BY <2>e, <2>m
    <3>2. e = [c EXCEPT !.sign = v] /\ g = [f EXCEPT !.sign = w]
      BY <2>8, <2>e, Zenon
    <3> QED
      BY <2>m, <3>1, <3>2, Zenon
  <2>12. IsBig(d.q) /\ IntOf(d.q) = WithSign(u, Val(st.q.limbs))
    <3>1. IsBig(e) /\ IntOf(e) = WithSign(u, Val(c.limbs))
      <4>1. IsBig(c) /\ c.sign = FALSE /\ IsBig(f) /\ f.sign = FALSE
        BY <2>9, <2>e
      <4> QED
        BY <2>l, <4>1, SignedFacts, Zenon
    <3> QED
      BY <2>e, <3>1
  <2>13. /\ IsBig(d.r) /\ d.r.limbs = st.a.limbs /\ IntOf(d.r) = WithSign(s, Val(st.a.limbs))
         /\ (IsZero(d.r) \/ d.r.sign = s)
    <3>1. /\ IsBig(g) /\ g.limbs = f.limbs /\ IntOf(g) = WithSign(s, Val(f.limbs))
          /\ (IsZero(g) \/ g.sign = s)
      <4>1. IsBig(c) /\ c.sign = FALSE /\ IsBig(f) /\ f.sign = FALSE
        BY <2>9, <2>e
      <4> QED
        BY <2>l, <4>1, SignedFacts, Zenon
    <3> QED
      BY <2>e, <3>1
  <2>14. IntOf(a) = WithSign(s, A) /\ IntOf(b) = WithSign(t, B)
    BY <1>1, <2>10 DEF IntOf, WithSign
  <2>15. Val(st.q.limbs) \in Nat /\ Val(st.a.limbs) \in Nat
    BY <2>9, BigFacts
  <2>16. WithSign(s, A) = WithSign(u, Val(st.q.limbs)) * WithSign(t, B)
                          + WithSign(s, Val(st.a.limbs))
    <3>1. PICK q \in Nat, r \in Nat : q = Val(st.q.limbs) /\ r = Val(st.a.limbs)
      BY <2>15
    <3>2. WithSign(s, q * B + r) = WithSign(u, q) * WithSign(t, B) + WithSign(s, r)
      BY <2>11, SignsOfDivision
    <3> QED
      BY <2>9, <3>1, <3>2
  <2> QED
    BY <1>1, <2>5, <2>6, <2>10, <2>12, <2>13, <2>14, <2>16 DEF Divides
<1> QED
  <2>1. CmpAbs(a, b) < 0 \/ CmpAbs(a, b) >= 0
    BY <1>2 DEF CmpInt
  <2> QED
    BY <1>4, <1>5, <2>1

\* q and r are the quotient and the remainder of the floor division of n by k.
Floored(n, k, q, r) ==
    /\ n = q * k + r
    /\ IF k > 0 THEN 0 <= r /\ r < k ELSE k < r /\ r <= 0

\* The sign of a number in limbs and its magnitude.
LEMMA SignOfBig ==
    ASSUME NEW b, IsBig(b)
    PROVE  /\ Val(b.limbs) \in Nat /\ IntOf(b) \in Int
           /\ b.sign => IntOf(b) = -Val(b.limbs) /\ IntOf(b) < 0
           /\ ~b.sign => IntOf(b) = Val(b.limbs)
           /\ IsZero(b) <=> IntOf(b) = 0
<1>1. /\ Val(b.limbs) \in Nat /\ IntOf(b) \in Int /\ (Val(b.limbs) = 0 <=> IsZero(b))
      /\ (b.sign <=> IntOf(b) < 0)
  BY BigFacts
<1>2. b.sign => IntOf(b) = -Val(b.limbs)
  BY DEF IntOf
<1>3. ~b.sign => IntOf(b) = Val(b.limbs)
  BY DEF IntOf
<1>4. IsZero(b) <=> IntOf(b) = 0
  <2>1. CASE b.sign
    BY <1>1, <1>2, <2>1
  <2>2. CASE ~b.sign
    BY <1>1, <1>3, <2>2
  <2> QED
    BY <2>1, <2>2
<1> QED
  BY <1>1, <1>2, <1>3, <1>4

\* div_mod_floor: one divisor is added to a remainder of the other sign.
LEMMA DivModFloorBigFacts ==
    ASSUME NEW a, IsBig(a), NEW b, IsBig(b), ~IsZero(b)
    PROVE  /\ IsBig(DivModFloorBig(a, b).q) /\ IsBig(DivModFloorBig(a, b).r)
           /\ Floored(IntOf(a), IntOf(b), IntOf(DivModFloorBig(a, b).q),
                      IntOf(DivModFloorBig(a, b).r))
<1>1. PICK d : d = DivModBig(a, b)
  OBVIOUS
<1>2. Divides(d, a, b)
  BY <1>1, DivModBigFacts
<1>3. /\ IsBig(d.q) /\ IsBig(d.r) /\ IntOf(a) = IntOf(d.q) * IntOf(b) + IntOf(d.r)
      /\ Val(d.r.limbs) < Val(b.limbs) /\ (IsZero(d.r) \/ d.r.sign = a.sign)
  BY <1>2 DEF Divides
<1>4. PICK B \in Nat, R \in Nat, k \in Int, q \in Int, r \in Int :
          /\ B = Val(b.limbs) /\ R = Val(d.r.limbs) /\ k = IntOf(b) /\ q = IntOf(d.q)
          /\ r = IntOf(d.r) /\ R < B
  BY <1>3, SignOfBig
<1>5. /\ b.sign => k = -B /\ k < 0
      /\ ~b.sign => k = B
      /\ d.r.sign => r = -R /\ r < 0
      /\ ~d.r.sign => r = R
      /\ (IsZero(d.r) <=> r = 0) /\ k # 0
  BY <1>3, <1>4, SignOfBig
<1>6. a.sign \in BOOLEAN /\ b.sign \in BOOLEAN /\ d.r.sign \in BOOLEAN
  BY <1>3, BigFacts
<1>7. PICK e : e = DivModFloorBig(a, b)
  OBVIOUS
<1>8. e = IF IsZero(d.r) \/ a.sign = b.sign THEN d
          ELSE [q |-> SubBig(d.q, FromU64(1)), r |-> AddBig(d.r, b)]
  BY <1>1, <1>7, Zenon DEF DivModFloorBig
<1>9. CASE IsZero(d.r) \/ a.sign = b.sign
  <2>1. e = d
    BY <1>8, <1>9
  <2>2. IF k > 0 THEN 0 <= r /\ r < k ELSE k < r /\ r <= 0
    <3>1. CASE IsZero(d.r)
      BY <1>4, <1>5, <3>1
    <3>2. CASE ~IsZero(d.r) /\ b.sign
      <4>1. d.r.sign
        BY <1>3, <1>6, <1>9, <3>2
      <4> QED
        BY <1>4, <1>5, <3>2, <4>1
    <3>3. CASE ~IsZero(d.r) /\ ~b.sign
      <4>1. ~d.r.sign
        BY <1>3, <1>6, <1>9, <3>3
      <4> QED
        BY <1>4, <1>5, <3>3, <4>1
    <3> QED
      BY <3>1, <3>2, <3>3
  <2> QED
    BY <1>3, <1>4, <1>7, <2>1, <2>2 DEF Floored
<1>10. CASE ~(IsZero(d.r) \/ a.sign = b.sign)
  <2>1. e = [q |-> SubBig(d.q, FromU64(1)), r |-> AddBig(d.r, b)]
    BY <1>8, <1>10
  <2>2. e.q = SubBig(d.q, FromU64(1)) /\ e.r = AddBig(d.r, b)
    BY <2>1
  <2>3. IsBig(FromU64(1)) /\ IntOf(FromU64(1)) = 1
    <3>1. IsBig(FromU64(1)) /\ ~FromU64(1).sign /\ Val(FromU64(1).limbs) = 1
      BY FromU64Facts
    <3> QED
      BY <3>1, SignOfBig
  <2>4. IsBig(e.q) /\ IntOf(e.q) = q - 1
    BY <1>3, <1>4, <2>2, <2>3, SubBigFacts
  <2>5. IsBig(e.r) /\ IntOf(e.r) = r + k
    BY <1>3, <1>4, <2>2, AddBigFacts
  <2>6. IntOf(a) = (q - 1) * k + (r + k)
    <3>1. (q - 1) * k = q * k - k
      OBVIOUS
    <3> QED
      BY <1>3, <1>4, <3>1
  <2>7. IF k > 0 THEN 0 <= r + k /\ r + k < k ELSE k < r + k /\ r + k <= 0
    <3>1. CASE b.sign
      <4>1. ~d.r.sign
        BY <1>3, <1>6, <1>10, <3>1
      <4>2. r = R /\ r # 0 /\ k = -B /\ k < 0
        BY <1>5, <1>10, <3>1, <4>1
      <4> QED
        BY <1>4, <4>2
    <3>2. CASE ~b.sign
      <4>1. d.r.sign
        BY <1>3, <1>6, <1>10, <3>2
      <4> QED
        BY <1>4, <1>5, <1>10, <3>2, <4>1
    <3> QED
      BY <3>1, <3>2
  <2> QED
    BY <1>4, <1>7, <2>4, <2>5, <2>6, <2>7 DEF Floored
<1> QED
  BY <1>9, <1>10

-----------------------------------------------------------------------------
(* Powers by squaring.                                                       *)

\* The body of the loop of the power by squaring.
SquareOp(p, st, i) ==
    [result |-> IF st.e.limbs[1] % 2 = 1 THEN MulBig(st.result, st.base) ELSE st.result,
     base   |-> IF IsZero(Shr1(st.e)) THEN st.base ELSE MulBig(st.base, st.base),
     e      |-> Shr1(st.e)]
Squares == INSTANCE HehRecursion WITH Op <- SquareOp

\* The power N being computed: what is done, and what the rest of the exponent asks for.
Powering(st, N) ==
    /\ IsBig(st.result) /\ IsBig(st.base) /\ IsBig(st.e) /\ st.e.sign = FALSE
    /\ IntOf(st.result) * PowInt(IntOf(st.base), Val(st.e.limbs)) = N

\* A power of an even or an odd exponent from the square.
LEMMA PowHalf ==
    ASSUME NEW b \in Int, NEW m \in Nat
    PROVE  /\ PowInt(b * b, m) = PowInt(b, 2 * m)
           /\ PowInt(b, 2 * m + 1) = b * PowInt(b * b, m)
<1>1. PowInt(b, 2) = b * b
  <2>1. PowInt(b, 0) = 1 /\ PowInt(b, 0 + 1) = b * PowInt(b, 0)
        /\ PowInt(b, 1 + 1) = b * PowInt(b, 1)
    BY PowStep
  <2>2. 0 + 1 = 1 /\ 1 + 1 = 2 /\ b * 1 = b
    OBVIOUS
  <2> QED
    BY <2>1, <2>2
<1>2. PowInt(b * b, m) = PowInt(b, 2 * m)
  BY <1>1, PowMul
<1>3. 2 * m \in Nat
  OBVIOUS
<1> QED
  BY <1>2, <1>3, PowStep

\* A round halves the exponent.
LEMMA PowRound ==
    ASSUME NEW st, NEW N \in Int, Powering(st, N), NEW i, Val(st.e.limbs) # 0
    PROVE  /\ Powering(SquareOp(0, st, i), N)
           /\ \E rem \in 0..1 : Val(st.e.limbs) = 2 * Val(SquareOp(0, st, i).e.limbs) + rem
<1>1. PICK x, y, e : x = st.result /\ y = st.base /\ e = st.e
  OBVIOUS
<1>2. /\ IsBig(x) /\ IsBig(y) /\ IsBig(e) /\ e.sign = FALSE
      /\ IntOf(x) * PowInt(IntOf(y), Val(e.limbs)) = N
  BY <1>1 DEF Powering
<1>3. PICK rem \in 0..1 :
          IsBig(Shr1(e)) /\ ~Shr1(e).sign /\ Val(e.limbs) = 2 * Val(Shr1(e).limbs) + rem
  BY <1>2, Shr1Facts
<1>4. PICK h : h = Shr1(e)
  OBVIOUS
<1>5. IsBig(h) /\ h.sign = FALSE /\ Val(h.limbs) \in Nat /\ (Val(h.limbs) = 0 <=> IsZero(h))
  <2>1. IsBig(h) /\ ~h.sign
    BY <1>3, <1>4
  <2>2. h.sign = FALSE
    BY <2>1 DEF IsBig
  <2> QED
    BY <2>1, <2>2, BigFacts
<1>6. PICK m \in Nat, u \in Int, b \in Int :
          m = Val(h.limbs) /\ u = IntOf(x) /\ b = IntOf(y) /\ Val(e.limbs) = 2 * m + rem
  <2>1. IntOf(x) \in Int /\ IntOf(y) \in Int
    BY <1>2, BigFacts
  <2> QED
    BY <1>3, <1>4, <1>5, <2>1
<1>7. e.limbs[1] % 2 = rem
  <2>1. Val(e.limbs) = 2 * m + rem
    BY <1>6
  <2>2. (2 * m + rem) % 2 = rem
    OBVIOUS
  <2>3. e.limbs \in Seq(Limb) /\ ~IsZero(e)
    BY <1>1, <1>2, BigFacts
  <2>4. e.limbs[1] % 2 = Val(e.limbs) % 2
    BY <2>3, LowestLimb DEF IsZero
  <2> QED
    BY <2>1, <2>2, <2>4
<1>8. PICK next : next = SquareOp(0, st, i)
  OBVIOUS
<1>9. next = [result |-> IF rem = 1 THEN MulBig(x, y) ELSE x,
              base |-> IF IsZero(h) THEN y ELSE MulBig(y, y), e |-> h]
  BY <1>1, <1>4, <1>7, <1>8 DEF SquareOp
<1>10. /\ next.result = IF rem = 1 THEN MulBig(x, y) ELSE x
       /\ next.base = IF IsZero(h) THEN y ELSE MulBig(y, y)
       /\ next.e = h
  BY <1>9
<1>11. PICK s \in Int : s = PowInt(b * b, m) /\ PowInt(b, 2 * m + rem) = IF rem = 1 THEN b * s ELSE s
  <2>1. b * b \in Int
    OBVIOUS
  <2>2. PowInt(b * b, m) \in Int
    BY <2>1, PowType
  <2>3. rem = 0 \/ rem = 1
    OBVIOUS
  <2>4. 2 * m + 0 = 2 * m
    OBVIOUS
  <2>5. PowInt(b * b, m) = PowInt(b, 2 * m) /\ PowInt(b, 2 * m + 1) = b * PowInt(b * b, m)
    BY PowHalf
  <2>6. PICK s \in Int : s = PowInt(b * b, m)
    BY <2>2
  <2>7. PowInt(b, 2 * m + rem) = IF rem = 1 THEN b * s ELSE s
    <3>1. CASE rem = 0
      BY <2>4, <2>5, <2>6, <3>1
    <3>2. CASE rem = 1
      BY <2>5, <2>6, <3>2
    <3> QED
      BY <2>3, <3>1, <3>2
  <2> QED
    BY <2>6, <2>7
<1>12. IsBig(next.result) /\ IntOf(next.result) = IF rem = 1 THEN u * b ELSE u
  BY <1>2, <1>6, <1>10, MulBigFacts
<1>13. IsBig(next.base) /\ PowInt(IntOf(next.base), m) = s
  <2>1. CASE IsZero(h)
    <3>1. next.base = y /\ m = 0
      BY <1>5, <1>6, <1>10, <2>1
    <3>2. PowInt(b, 0) = 1 /\ PowInt(b * b, 0) = 1
      BY PowStep
    <3> QED
      BY <1>2, <1>6, <1>11, <3>1, <3>2
  <2>2. CASE ~IsZero(h)
    <3>1. next.base = MulBig(y, y)
      BY <1>10, <2>2
    <3>2. IsBig(next.base) /\ IntOf(next.base) = b * b
      BY <1>2, <1>6, <3>1, MulBigFacts
    <3> QED
      BY <1>11, <3>2
  <2> QED
    BY <2>1, <2>2
<1>14. IntOf(next.result) * s = N
  <2>1. u * (IF rem = 1 THEN b * s ELSE s) = N
    BY <1>2, <1>6, <1>11
  <2>2. u * (b * s) = (u * b) * s
    BY MulAssoc
  <2> QED
    BY <1>12, <2>1, <2>2
<1>15. Powering(next, N)
  BY <1>5, <1>6, <1>10, <1>12, <1>13, <1>14 DEF Powering
<1> QED
  BY <1>1, <1>6, <1>8, <1>10, <1>15

\* The loop of pow, of n rounds.
PowLoop(a, exp, n) ==
    FoldLeft(LAMBDA st, i : SquareOp(0, st, i),
             [result |-> FromU64(1), base |-> a, e |-> Magnitude(exp)], [i \in 1..n |-> i])

\* Halving takes a number between two powers of two between the two below.
LEMMA HalfBetween ==
    ASSUME NEW j \in Nat, NEW v \in Nat, NEW w \in Nat, NEW rem \in 0..1, v = 2 * w + rem
    PROVE  /\ PowInt(2, j + 1) <= v => PowInt(2, j) <= w
           /\ v < PowInt(2, j + 1) => w < PowInt(2, j)
<1>1. PICK p \in Nat : p = PowInt(2, j) /\ PowInt(2, j + 1) = 2 * p
  <2>1. PowInt(2, j) \in Nat /\ PowInt(2, j + 1) = 2 * PowInt(2, j)
    BY PowTwo, PowStep
  <2> QED
    BY <2>1
<1>2. 2 * p <= 2 * w + rem => p <= w
  OBVIOUS
<1>3. 2 * w + rem < 2 * p => w < p
  OBVIOUS
<1> QED
  BY <1>1, <1>2, <1>3

\* n + 1 rounds empty an exponent of n + 1 bits.
LEMMA PowLoopFacts ==
    ASSUME NEW a, IsBig(a), NEW exp, IsBig(exp), NEW E \in Nat, E = Val(exp.limbs), NEW n \in Nat,
           PowInt(2, n) <= E, E < PowInt(2, n + 1)
    PROVE  /\ IsBig(PowLoop(a, exp, n + 1).result)
           /\ IntOf(PowLoop(a, exp, n + 1).result) = PowInt(IntOf(a), E)
<1>n. PICK l \in Nat : l = n + 1
  OBVIOUS
<1>b. PICK base : base = [result |-> FromU64(1), base |-> a, e |-> Magnitude(exp)]
  OBVIOUS
<1>q. PICK q : q = [i \in 1..l |-> i]
  OBVIOUS
<1>1. DOMAIN q = 1..l /\ Len(q) = l
  BY <1>q
<1>2. PowLoop(a, exp, n + 1) = FoldLeft(LAMBDA st, i : SquareOp(0, st, i), base, q)
  BY <1>n, <1>b, <1>q DEF PowLoop
<1>3. PowLoop(a, exp, n + 1) = Squares!FoldL(0, base, q, 1..l)
  BY <1>1, <1>2 DEF FoldLeft, MapThenFoldSet, Max, Squares!FoldL, Squares!Top
<1>4. PICK R : Squares!LeftRounds(R, 0, base, q) /\ Squares!FoldL(0, base, q, 1..l) = R[l]
  <2>0. Squares!Induction
    BY AllNat DEF Squares!Induction
  <2> QED
    BY <2>0, Squares!LeftFold
<1>5. R[0] = base /\ \A k \in Nat : R[k + 1] = SquareOp(0, R[k], q[k + 1])
  BY <1>4 DEF Squares!LeftRounds
<1>N. PICK N \in Int : N = PowInt(IntOf(a), E)
  <2>1. IntOf(a) \in Int
    BY BigFacts
  <2> QED
    BY <2>1, PowType
<1> DEFINE P(k) == /\ Powering(R[k], N) /\ PowInt(2, n - k) <= Val(R[k].e.limbs)
                   /\ Val(R[k].e.limbs) < PowInt(2, (n - k) + 1)
           S == {k \in Nat : k <= n => P(k)}
<1>6. P(0)
  <2>1. base.result = FromU64(1) /\ base.base = a /\ base.e = Magnitude(exp)
    BY <1>b
  <2>2. IsBig(FromU64(1)) /\ IntOf(FromU64(1)) = 1
    <3>1. IsBig(FromU64(1)) /\ ~FromU64(1).sign /\ Val(FromU64(1).limbs) = 1
      BY FromU64Facts
    <3> QED
      BY <3>1, SignOfBig
  <2>3. IsBig(base.e) /\ base.e.sign = FALSE /\ Val(base.e.limbs) = E
    BY <2>1, MagnitudeFacts
  <2>4. 1 * N = N
    OBVIOUS
  <2>5. Powering(base, N)
    BY <1>N, <2>1, <2>2, <2>3, <2>4 DEF Powering
  <2>6. n - 0 = n
    OBVIOUS
  <2> QED
    BY <1>5, <2>3, <2>5, <2>6
<1>s. ASSUME NEW k \in Nat, k <= n, P(k)
      PROVE  /\ Powering(R[k + 1], N) /\ Val(R[k + 1].e.limbs) \in Nat
             /\ \E rem \in 0..1 : Val(R[k].e.limbs) = 2 * Val(R[k + 1].e.limbs) + rem
  <2>1. Powering(R[k], N) /\ IsBig(R[k].e)
    BY <1>s DEF Powering
  <2>2. Val(R[k].e.limbs) # 0
    <3>1. n - k \in Nat
      BY <1>s
    <3>2. PICK p \in Nat : p = PowInt(2, n - k) /\ p >= 1
      BY <3>1, PowTwo
    <3>3. p <= Val(R[k].e.limbs)
      BY <1>s, <3>2
    <3>4. ~(p <= 0)
      BY <3>2
    <3> QED
      BY <3>3, <3>4
  <2>3. R[k + 1] = SquareOp(0, R[k], q[k + 1])
    BY <1>5
  <2>4. /\ Powering(R[k + 1], N)
        /\ \E rem \in 0..1 : Val(R[k].e.limbs) = 2 * Val(R[k + 1].e.limbs) + rem
    BY <2>1, <2>2, <2>3, PowRound
  <2>5. Val(R[k + 1].e.limbs) \in Nat
    <3>1. IsBig(R[k + 1].e)
      BY <2>4 DEF Powering
    <3> QED
      BY <3>1, BigFacts
  <2> QED
    BY <2>4, <2>5
<1>v. ASSUME NEW k \in Nat, P(k) PROVE Val(R[k].e.limbs) \in Nat
  <2>1. IsBig(R[k].e)
    BY <1>v DEF Powering
  <2> QED
    BY <2>1, BigFacts
<1>7. ASSUME NEW k \in Nat, k + 1 <= n, P(k) PROVE P(k + 1)
  <2>1. PICK j \in Nat : j = n - (k + 1) /\ j + 1 = n - k
    <3>1. n - (k + 1) \in Nat /\ (n - (k + 1)) + 1 = n - k
      BY <1>7
    <3> QED
      BY <3>1
  <2>2. PowInt(2, j + 1) <= Val(R[k].e.limbs) /\ Val(R[k].e.limbs) < PowInt(2, (j + 1) + 1)
    BY <1>7, <2>1
  <2>3. PICK v \in Nat : v = Val(R[k].e.limbs)
    BY <1>7, <1>v
  <2>4. k <= n
    BY <1>7
  <2>5. PICK w \in Nat, rem \in 0..1 :
            Powering(R[k + 1], N) /\ w = Val(R[k + 1].e.limbs) /\ v = 2 * w + rem
    BY <1>7, <1>s, <2>3, <2>4
  <2>6. PowInt(2, j) <= w
    BY <2>2, <2>3, <2>5, HalfBetween
  <2>7. w < PowInt(2, j + 1)
    BY <2>2, <2>3, <2>5, HalfBetween
  <2> QED
    BY <2>1, <2>5, <2>6, <2>7
<1> HIDE DEF P
<1>8. P(n)
  <2>1. 0 \in S
    BY <1>6
  <2>2. ASSUME NEW k \in Nat, k \in S PROVE k + 1 \in S
    <3>1. k + 1 <= n => k <= n
      OBVIOUS
    <3>2. k + 1 <= n => P(k + 1)
      BY <1>7, <2>2, <3>1
    <3> QED
      BY <3>2
  <2>3. n \in S
    <3> HIDE DEF S
    <3> QED
      BY <2>1, <2>2, AllNat
  <2> QED
    BY <2>3
<1>9. Powering(R[n + 1], N) /\ Val(R[n + 1].e.limbs) = 0
  <2>1. n <= n
    OBVIOUS
  <2>2. PICK v \in Nat : v = Val(R[n].e.limbs)
    BY <1>8, <1>v
  <2>3. PICK w \in Nat, rem \in 0..1 :
            Powering(R[n + 1], N) /\ w = Val(R[n + 1].e.limbs) /\ v = 2 * w + rem
    BY <1>8, <1>s, <2>1, <2>2
  <2>4. v < PowInt(2, (n - n) + 1)
    BY <1>8, <2>2 DEF P
  <2>5. PowInt(2, 0) = 1 /\ PowInt(2, 0 + 1) = 2 * PowInt(2, 0)
    BY PowStep
  <2>6. n - n = 0
    OBVIOUS
  <2>7. v < 2
    BY <2>4, <2>5, <2>6
  <2> QED
    BY <2>3, <2>7
<1>10. PICK st : st = PowLoop(a, exp, n + 1)
  OBVIOUS
<1>11. IsBig(st.result) /\ IntOf(st.result) * PowInt(IntOf(st.base), 0) = N
  BY <1>n, <1>3, <1>4, <1>9, <1>10 DEF Powering
<1>12. IntOf(st.result) = N
  <2>1. PowInt(IntOf(st.base), 0) = 1
    BY PowStep
  <2>2. IntOf(st.result) \in Int
    BY <1>11, BigFacts
  <2>3. IntOf(st.result) * 1 = N
    BY <1>11, <2>1
  <2> QED
    BY <2>2, <2>3
<1> QED
  BY <1>N, <1>10, <1>11, <1>12

\* pow is the power, 1 for the exponent 0.
LEMMA PowBigFacts ==
    ASSUME NEW a, IsBig(a), NEW exp, IsBig(exp)
    PROVE  IsBig(PowBig(a, exp)) /\ IntOf(PowBig(a, exp)) = PowInt(IntOf(a), Val(exp.limbs))
<1>1. PowBig(a, exp) = PowLoop(a, exp, BitLen(exp)).result
  BY DEF PowBig, PowLoop, SquareOp
<1>2. CASE IsZero(exp)
  <2>1. BitLen(exp) = 0
    BY <1>2 DEF BitLen
  <2>2. PICK base, q : /\ base = [result |-> FromU64(1), base |-> a, e |-> Magnitude(exp)]
                       /\ q = [i \in 1..0 |-> i]
    OBVIOUS
  <2>3. DOMAIN q = 1..0 /\ Len(q) = 0
    BY <2>2
  <2>4. PowLoop(a, exp, 0) = FoldLeft(LAMBDA st, i : SquareOp(0, st, i), base, q)
    BY <2>2 DEF PowLoop
  <2>5. PowLoop(a, exp, 0) = Squares!FoldL(0, base, q, 1..0)
    BY <2>3, <2>4 DEF FoldLeft, MapThenFoldSet, Max, Squares!FoldL, Squares!Top
  <2>6. PowLoop(a, exp, 0) = base
    <3>1. PICK R : Squares!LeftRounds(R, 0, base, q) /\ Squares!FoldL(0, base, q, 1..0) = R[0]
      <4>0. Squares!Induction
        BY AllNat DEF Squares!Induction
      <4> QED
        BY <4>0, Squares!LeftFold
    <3> QED
      BY <2>5, <3>1 DEF Squares!LeftRounds
  <2>7. PowBig(a, exp) = FromU64(1)
    BY <1>1, <2>1, <2>2, <2>6
  <2>8. IsBig(FromU64(1)) /\ IntOf(FromU64(1)) = 1
    <3>1. IsBig(FromU64(1)) /\ ~FromU64(1).sign /\ Val(FromU64(1).limbs) = 1
      BY FromU64Facts
    <3> QED
      BY <3>1, SignOfBig
  <2>9. Val(exp.limbs) = 0
    BY <1>2, BigFacts
  <2> QED
    BY <2>7, <2>8, <2>9, PowStep
<1>3. CASE ~IsZero(exp)
  <2>1. Canon(exp.limbs) /\ Val(exp.limbs) \in Nat
    BY BigFacts
  <2>2. PICK n \in Nat, E \in Nat : /\ E = Val(exp.limbs) /\ BitLen(exp) = n + 1
                                    /\ PowInt(2, n) <= E /\ E < PowInt(2, n + 1)
    BY <1>3, <2>1, BitLenFacts
  <2> QED
    BY <1>1, <2>2, PowLoopFacts
<1> QED
  BY <1>2, <1>3

-----------------------------------------------------------------------------
(* Numbers that are not negative.                                            *)

\* The unsigned numbers are those of no sign.
LEMMA UnsignedIsBig ==
    \A b : b \in Unsigned <=> IsBig(b) /\ b.sign = FALSE
<1>1. SUFFICES ASSUME NEW b PROVE b \in Unsigned <=> IsBig(b) /\ b.sign = FALSE
  OBVIOUS
<1>2. ASSUME b \in Unsigned PROVE IsBig(b) /\ b.sign = FALSE
  <2>1. /\ b \in [sign : {FALSE}, limbs : Seq(Limb)]
        /\ b.limbs # <<>> => b.limbs[Len(b.limbs)] # 0
    BY <1>2 DEF Unsigned, IsZero, Last
  <2>2. b.sign = FALSE /\ b.limbs \in Seq(Limb) /\ b \in [sign : BOOLEAN, limbs : Seq(Limb)]
    BY <2>1
  <2> QED
    BY <2>1, <2>2 DEF IsBig, Canon
<1>3. ASSUME IsBig(b), b.sign = FALSE PROVE b \in Unsigned
  <2>1. b \in [sign : {FALSE}, limbs : Seq(Limb)]
    BY <1>3 DEF IsBig
  <2>2. IsZero(b) \/ Last(b.limbs) # 0
    BY <1>3 DEF IsBig, Canon, IsZero, Last
  <2> QED
    BY <2>1, <2>2 DEF Unsigned
<1> QED
  BY <1>2, <1>3

\* Sums and products of numbers without a sign have none.
LEMMA UnsignedFacts ==
    ASSUME NEW b \in Unsigned
    PROVE  IsBig(b) /\ b.sign = FALSE /\ Val(b.limbs) \in Nat /\ IntOf(b) = Val(b.limbs)
<1>1. IsBig(b) /\ b.sign = FALSE
  BY UnsignedIsBig
<1> QED
  BY <1>1, BigFacts DEF IntOf

\* Zero is not negative.
LEMMA UnsignedZero == Zero \in Unsigned /\ Val(Zero.limbs) = 0
<1>1. Zero.sign = FALSE /\ Zero.limbs = <<>>
  BY DEF Zero
<1> QED
  BY <1>1, ZeroFacts, UnsignedIsBig, ValEmpty

\* A natural number in limbs is not negative.
LEMMA UnsignedFrom ==
    ASSUME NEW m \in Nat
    PROVE  FromU64(m) \in Unsigned /\ Val(FromU64(m).limbs) = m
<1>1. IsBig(FromU64(m)) /\ ~FromU64(m).sign /\ Val(FromU64(m).limbs) = m
  BY FromU64Facts
<1>2. FromU64(m).sign = FALSE
  BY <1>1 DEF IsBig
<1> QED
  BY <1>1, <1>2, UnsignedIsBig

\* Nor is a sum.
LEMMA UnsignedSum ==
    ASSUME NEW a \in Unsigned, NEW b \in Unsigned
    PROVE  AddBig(a, b) \in Unsigned /\ Val(AddBig(a, b).limbs) = Val(a.limbs) + Val(b.limbs)
<1>1. PICK x \in Nat, y \in Nat : x = Val(a.limbs) /\ y = Val(b.limbs)
  BY UnsignedFacts
<1>2. IsBig(a) /\ IntOf(a) = x /\ IsBig(b) /\ IntOf(b) = y
  BY <1>1, UnsignedFacts
<1>3. IsBig(AddBig(a, b)) /\ IntOf(AddBig(a, b)) = x + y
  BY <1>2, AddBigFacts
<1>4. x + y >= 0
  OBVIOUS
<1> QED
  BY <1>1, <1>3, <1>4, NotNegative, UnsignedIsBig

\* Nor is a product.
LEMMA UnsignedProduct ==
    ASSUME NEW a \in Unsigned, NEW b \in Unsigned
    PROVE  MulBig(a, b) \in Unsigned /\ Val(MulBig(a, b).limbs) = Val(a.limbs) * Val(b.limbs)
<1>1. PICK x \in Nat, y \in Nat : x = Val(a.limbs) /\ y = Val(b.limbs)
  BY UnsignedFacts
<1>2. IsBig(a) /\ IntOf(a) = x /\ IsBig(b) /\ IntOf(b) = y
  BY <1>1, UnsignedFacts
<1>3. IsBig(MulBig(a, b)) /\ IntOf(MulBig(a, b)) = x * y
  BY <1>2, MulBigFacts
<1>4. x * y >= 0
  <2>1. x * y \in Nat
    BY MulNat
  <2> QED
    BY <2>1
<1> QED
  BY <1>1, <1>3, <1>4, NotNegative, UnsignedIsBig

-----------------------------------------------------------------------------
(* Floats.                                                                   *)

\* What is left of the float, the weight of its lowest limb and the number so far.
Peeling == [mag : Nat, scale : Unsigned, out : Unsigned]

\* What is left of a float after one more limb is taken from it.
NextPeel(st) ==
    [mag   |-> st.mag \div BASE,
     scale |-> MulBig(st.scale, FromU64(BASE)),
     out   |-> AddBig(st.out, MulBig(FromU64(st.mag % BASE), st.scale))]

\* The limbs of a float, by the magnitude still to be taken apart.
FloatOp(p, f, st) == IF st.mag = 0 THEN st.out ELSE f[NextPeel(st)]
Floats == INSTANCE HehRecursion WITH Op <- FloatOp

\* What gets smaller with each limb taken from a float.
MagOf == [st \in Peeling |-> st.mag]

\* The number a state of the loop makes.
PeeledOff(st) == Val(st.out.limbs) + st.mag * Val(st.scale.limbs)

\* A round keeps what the number and the rest make.
LEMMA PeelRound ==
    ASSUME NEW st \in Peeling, st.mag # 0
    PROVE  /\ NextPeel(st) \in Peeling /\ NextPeel(st).mag < st.mag
           /\ PeeledOff(NextPeel(st)) = PeeledOff(st)
<1>1. PICK m \in Nat, scale \in Unsigned, out \in Unsigned :
          m = st.mag /\ scale = st.scale /\ out = st.out
  BY DEF Peeling
<1>2. PICK q \in Nat, r \in Nat : q = m \div BASE /\ r = m % BASE /\ m = r + BASE * q /\ q < m
  BY <1>1, LimbDiv
<1>3. PICK next : next = NextPeel(st)
  OBVIOUS
<1>4. /\ next.mag = q /\ next.scale = MulBig(scale, FromU64(BASE))
      /\ next.out = AddBig(out, MulBig(FromU64(r), scale))
      /\ next = [mag |-> next.mag, scale |-> next.scale, out |-> next.out]
  BY <1>1, <1>2, <1>3 DEF NextPeel
<1>5. PICK x \in Nat, y \in Nat, b \in Nat : x = Val(out.limbs) /\ y = Val(scale.limbs) /\ b = BASE
  BY UnsignedFacts, BaseNat
<1>6. next.scale \in Unsigned /\ Val(next.scale.limbs) = y * b
  BY <1>4, <1>5, UnsignedFrom, UnsignedProduct
<1>7. next.out \in Unsigned /\ Val(next.out.limbs) = x + r * y
  <2>1. PICK p : p = MulBig(FromU64(r), scale)
    OBVIOUS
  <2>2. p \in Unsigned /\ Val(p.limbs) = r * y
    BY <1>5, <2>1, UnsignedFrom, UnsignedProduct
  <2> QED
    BY <1>4, <1>5, <2>1, <2>2, UnsignedSum
<1>8. next \in Peeling /\ next.mag < st.mag
  BY <1>1, <1>2, <1>4, <1>6, <1>7 DEF Peeling
<1>9. (x + r * y) + q * (y * b) = x + m * y
  <2>1. q * (y * b) = (b * q) * y
    <3>1. y * b = b * y /\ q * (b * y) = (q * b) * y /\ q * b = b * q
      BY MulAssoc
    <3> QED
      BY <3>1
  <2>2. (r + b * q) * y = r * y + (b * q) * y
    BY MulDist
  <2>3. PICK u \in Nat, v \in Nat : u = r * y /\ v = (b * q) * y
    <3>1. b * q \in Nat
      BY MulNat
    <3> QED
      BY <3>1, MulNat
  <2>4. m * y = u + v
    BY <1>2, <1>5, <2>2, <2>3
  <2>5. (x + u) + v = x + (u + v)
    OBVIOUS
  <2> QED
    BY <2>1, <2>3, <2>4, <2>5
<1>10. PeeledOff(next) = (x + r * y) + q * (y * b)
  BY <1>4, <1>6, <1>7 DEF PeeledOff
<1>11. PeeledOff(st) = x + m * y
  BY <1>1, <1>5 DEF PeeledOff
<1> QED
  BY <1>3, <1>8, <1>9, <1>10, <1>11

\* The loop of from_f64 ends, and adds up what it peels off.
LEMMA PeelLoop ==
    ASSUME NEW peel,
           peel = [st \in Peeling |-> IF st.mag = 0 THEN st.out ELSE peel[NextPeel(st)]],
           NEW st \in Peeling
    PROVE  peel[st] \in Unsigned /\ Val(peel[st].limbs) = PeeledOff(st)
<1> DEFINE Made(x) == peel[x] \in Unsigned /\ Val(peel[x].limbs) = PeeledOff(x)
           S == {n \in Nat : \A x \in Peeling : x.mag <= n => Made(x)}
<1>1. ASSUME NEW x \in Peeling, x.mag = 0 PROVE Made(x)
  <2>1. peel[x] = x.out
    BY <1>1
  <2>2. PICK o \in Unsigned, s \in Unsigned : o = x.out /\ s = x.scale
    BY DEF Peeling
  <2>3. Val(o.limbs) \in Nat /\ Val(s.limbs) \in Nat
    BY UnsignedFacts
  <2>4. PeeledOff(x) = Val(o.limbs) + 0 * Val(s.limbs)
    BY <1>1, <2>2 DEF PeeledOff
  <2>5. PeeledOff(x) = Val(o.limbs)
    BY <2>3, <2>4
  <2> QED
    BY <2>1, <2>2, <2>5
<1>2. ASSUME NEW x \in Peeling, x.mag # 0, Made(NextPeel(x)) PROVE Made(x)
  <2>1. peel[x] = peel[NextPeel(x)]
    BY <1>2
  <2>2. PeeledOff(NextPeel(x)) = PeeledOff(x)
    BY <1>2, PeelRound
  <2> QED
    BY <1>2, <2>1, <2>2
<1> HIDE DEF Made
<1>3. 0 \in S
  <2>1. ASSUME NEW x \in Peeling, x.mag <= 0 PROVE Made(x)
    <3>1. x.mag \in Nat
      BY DEF Peeling
    <3>2. x.mag = 0
      BY <2>1, <3>1
    <3> QED
      BY <1>1, <3>2
  <2> QED
    BY <2>1
<1>4. ASSUME NEW n \in Nat, n \in S PROVE n + 1 \in S
  <2>1. ASSUME NEW x \in Peeling, x.mag <= n + 1 PROVE Made(x)
    <3>1. CASE x.mag = 0
      BY <1>1, <3>1
    <3>2. CASE x.mag # 0
      <4>1. PICK next : next = NextPeel(x)
        OBVIOUS
      <4>2. next \in Peeling /\ next.mag < x.mag
        BY <3>2, <4>1, PeelRound
      <4>3. next.mag \in Nat /\ x.mag \in Nat
        BY <4>2 DEF Peeling
      <4>4. next.mag <= n
        BY <2>1, <4>2, <4>3
      <4>5. Made(next)
        BY <1>4, <4>2, <4>4
      <4> QED
        BY <1>2, <3>2, <4>1, <4>5
    <3> QED
      BY <3>1, <3>2
  <2>2. n + 1 \in Nat
    OBVIOUS
  <2> QED
    BY <2>1, <2>2
<1>5. PICK n \in Nat : n = st.mag
  BY DEF Peeling
<1>6. n \in S
  <2> HIDE DEF S
  <2> QED
    BY <1>3, <1>4, AllNat
<1>7. Made(st)
  <2>1. st.mag <= n
    BY <1>5
  <2> QED
    BY <1>6, <2>1
<1> QED
  BY <1>7 DEF Made

\* from_f64_trunc makes the integer part of the float.
LEMMA FromFloatFacts ==
    ASSUME NEW k \in Int
    PROVE  IsBig(FromFloat(k)) /\ IntOf(FromFloat(k)) = k
<1>1. MagOf \in [Peeling -> Nat]
  BY DEF MagOf, Peeling
<1>2. Floats!Local(0, Peeling, MagOf)
  <2>1. SUFFICES ASSUME NEW f, NEW g, NEW st \in Peeling,
                        \A y \in Peeling : MagOf[y] < MagOf[st] => f[y] = g[y]
                 PROVE  FloatOp(0, f, st) = FloatOp(0, g, st)
    BY DEF Floats!Local
  <2>2. CASE st.mag = 0
    BY <2>2 DEF FloatOp
  <2>3. CASE st.mag # 0
    <3>1. NextPeel(st) \in Peeling /\ NextPeel(st).mag < st.mag
      BY <2>3, PeelRound
    <3>2. f[NextPeel(st)] = g[NextPeel(st)]
      BY <2>1, <3>1 DEF MagOf
    <3> QED
      BY <2>3, <3>2 DEF FloatOp
  <2> QED
    BY <2>2, <2>3
<1>3. \E f : f = [st \in Peeling |-> FloatOp(0, f, st)]
  <2>0. Floats!Induction
    BY AllNat DEF Floats!Induction
  <2> QED
    BY <1>1, <1>2, <2>0, Floats!Solution
<1> DEFINE peel == CHOOSE f : f = [st \in Peeling |-> IF st.mag = 0 THEN st.out ELSE f[NextPeel(st)]]
<1>4. peel = [st \in Peeling |-> IF st.mag = 0 THEN st.out ELSE peel[NextPeel(st)]]
  <2>1. \E f : f = [st \in Peeling |-> IF st.mag = 0 THEN st.out ELSE f[NextPeel(st)]]
    BY <1>3 DEF FloatOp
  <2> QED
    BY <2>1
<1>5. PICK m \in Nat : m = IF k < 0 THEN -k ELSE k
  OBVIOUS
<1>6. PICK st : st = [mag |-> m, scale |-> FromU64(1), out |-> Zero]
  OBVIOUS
<1>7. PICK out : out = peel[st]
  OBVIOUS
<1>8. FromFloat(k) = [out EXCEPT !.sign = k < 0 /\ ~IsZero(out)]
  BY <1>5, <1>6, <1>7, Zenon DEF FromFloat, Peeling, NextPeel
<1> HIDE DEF peel
<1>9. st \in Peeling /\ PeeledOff(st) = m
  <2>1. st.mag = m /\ st.scale = FromU64(1) /\ st.out = Zero
    BY <1>6
  <2>2. st \in Peeling
    BY <1>6, UnsignedZero, UnsignedFrom DEF Peeling
  <2>3. PeeledOff(st) = 0 + m * 1
    BY <2>1, UnsignedZero, UnsignedFrom DEF PeeledOff
  <2> QED
    BY <2>2, <2>3
<1>10. out \in Unsigned /\ Val(out.limbs) = m
  BY <1>4, <1>7, <1>9, PeelLoop
<1>11. IsBig(out) /\ out.sign = FALSE
  BY <1>10, UnsignedFacts
<1>12. PICK t \in BOOLEAN : t <=> k < 0
  OBVIOUS
<1>13. PICK d : d = FromFloat(k)
  OBVIOUS
<1>14. PICK v \in BOOLEAN : (v <=> ~IsZero(out) /\ t) /\ d = [out EXCEPT !.sign = v]
  <2>1. PICK v : v = (k < 0 /\ ~IsZero(out))
    OBVIOUS
  <2>2. v \in BOOLEAN /\ (v <=> ~IsZero(out) /\ t)
    BY <1>12, <2>1
  <2>3. d = [out EXCEPT !.sign = v]
    BY <1>8, <1>13, <2>1, Zenon
  <2> QED
    BY <2>2, <2>3, Zenon
<1>15. IsBig(d) /\ IntOf(d) = WithSign(t, m)
  BY <1>10, <1>11, <1>14, SignedFacts
<1>16. WithSign(t, m) = k
  BY <1>5, <1>12 DEF WithSign
<1> QED
  BY <1>13, <1>15, <1>16

-----------------------------------------------------------------------------
(* Numerals.                                                                 *)

\* The digits of a numeral.
Digits == 0..(RADIX - 1)

\* The number a numeral stands for, its digits from the highest down.
ReadOp(p, r, d) == RADIX * r + d
Numerals == INSTANCE HehRecursion WITH Op <- ReadOp
NumTo(s, k) == Numerals!Run(0, 0, s)[k]
Num(s) == NumTo(s, Len(s))

\* The radix is a limb, and its digits are.
LEMMA RadixFacts ==
    /\ RADIX \in Nat /\ RADIX >= 2 /\ RADIX \in Limb /\ Digits \subseteq Limb
    /\ \A d \in Digits : d \in Nat /\ d < RADIX
<1>1. BASE \in Nat /\ RADIX \in 2..(BASE - 1)
  BY BaseNat, RadixAssumption
<1>2. RADIX \in Nat /\ RADIX >= 2 /\ RADIX \in Limb
  BY <1>1 DEF Limb
<1>3. ASSUME NEW d \in Digits PROVE d \in Nat /\ d < RADIX /\ d \in Limb
  BY <1>1 DEF Digits, Limb
<1> QED
  BY <1>2, <1>3

\* Powers of the radix are positive.
LEMMA RadixPower == \A k \in Nat : PowInt(RADIX, k) \in Nat /\ PowInt(RADIX, k) >= 1
<1>1. PICK r \in Nat : r = RADIX /\ r >= 1 /\ r \in Int
  BY RadixFacts
<1> QED
  BY <1>1, PowType

\* One more digit multiplies by the radix and adds the digit.
LEMMA NumStep ==
    ASSUME NEW s
    PROVE  NumTo(s, 0) = 0 /\ \A k \in Nat : NumTo(s, k + 1) = RADIX * NumTo(s, k) + s[k + 1]
  <2>0. Numerals!Induction
    BY AllNat DEF Numerals!Induction
  <2> QED
    BY <2>0, Numerals!RunStep DEF NumTo, ReadOp

\* A numeral of n digits.
Numeral(s, n) == s \in Seq(Digits) /\ Len(s) = n

\* Each digit of a numeral is a digit.
LEMMA DigitOf ==
    ASSUME NEW s, NEW n \in Nat, Numeral(s, n), NEW k \in Nat, k < n
    PROVE  s[k + 1] \in Digits /\ s[k + 1] \in Nat
<1>1. k + 1 \in 1..Len(s)
  BY DEF Numeral
<1>2. s[k + 1] \in Digits
  BY <1>1 DEF Numeral
<1> QED
  BY <1>2, RadixFacts

\* A numeral stands for a natural number.
LEMMA NumType ==
    ASSUME NEW s, NEW n \in Nat, Numeral(s, n), NEW k \in Nat, k <= n
    PROVE  NumTo(s, k) \in Nat
<1> DEFINE S == {j \in Nat : j <= n => NumTo(s, j) \in Nat}
<1>1. 0 \in S
  BY NumStep
<1>2. ASSUME NEW j \in Nat, j \in S PROVE j + 1 \in S
  <2>1. ASSUME j + 1 <= n PROVE NumTo(s, j + 1) \in Nat
    <3>1. j < n /\ j <= n
      BY <2>1
    <3>2. PICK a \in Nat, d \in Nat : a = NumTo(s, j) /\ d = s[j + 1]
      BY <1>2, <3>1, DigitOf
    <3>3. RADIX * a \in Nat
      BY RadixFacts, MulNat
    <3> QED
      BY <3>2, <3>3, NumStep
  <2> QED
    BY <2>1
<1> HIDE DEF S
<1>3. k \in S
  BY <1>1, <1>2, AllNat
<1> QED
  BY <1>3 DEF S

\* Numerals that begin with the same k digits have the same value there.
LEMMA NumSame ==
    ASSUME NEW s, NEW t, NEW n \in Nat, \A i \in 1..n : s[i] = t[i], NEW k \in Nat, k <= n
    PROVE  NumTo(s, k) = NumTo(t, k)
<1> DEFINE S == {j \in Nat : j <= n => NumTo(s, j) = NumTo(t, j)}
<1>1. 0 \in S
  BY NumStep
<1>2. ASSUME NEW j \in Nat, j \in S PROVE j + 1 \in S
  <2>1. ASSUME j + 1 <= n PROVE NumTo(s, j + 1) = NumTo(t, j + 1)
    <3>1. j <= n /\ j + 1 \in 1..n
      BY <2>1
    <3>2. NumTo(s, j) = NumTo(t, j) /\ s[j + 1] = t[j + 1]
      BY <1>2, <3>1
    <3> QED
      BY <3>2, NumStep
  <2> QED
    BY <2>1
<1> HIDE DEF S
<1>3. k \in S
  BY <1>1, <1>2, AllNat
<1> QED
  BY <1>3 DEF S

\* Two numerals side by side.
LEMMA NumConcat ==
    ASSUME NEW s, NEW n \in Nat, Numeral(s, n), NEW t, NEW m \in Nat, Numeral(t, m)
    PROVE  /\ Numeral(s \o t, n + m)
           /\ Num(s \o t) = Num(s) * PowInt(RADIX, m) + Num(t)
<1>1. PICK u : u = s \o t
  OBVIOUS
<1>2. Numeral(u, n + m)
  <2>1. s \in Seq(Digits) /\ t \in Seq(Digits) /\ Len(s) = n /\ Len(t) = m
    BY DEF Numeral
  <2>2. s \o t \in Seq(Digits) /\ Len(s \o t) = Len(s) + Len(t)
    <3>1. s \in Seq(Digits) /\ t \in Seq(Digits)
      BY <2>1
    <3>2. s \o t \in Seq(Digits)
      BY <3>1
    <3>3. Len(s \o t) = Len(s) + Len(t)
      BY <3>1
    <3> QED
      BY <3>2, <3>3
  <2> QED
    BY <1>1, <2>1, <2>2 DEF Numeral
<1>3. (\A i \in 1..n : u[i] = s[i]) /\ \A i \in 1..m : u[n + i] = t[i]
  BY <1>1 DEF Numeral
<1>4. NumTo(u, n) = NumTo(s, n)
  BY <1>3, NumSame
<1>5. PICK a \in Nat : a = NumTo(s, n)
  BY NumType
<1> DEFINE S == {j \in Nat : j <= m => NumTo(u, n + j) = a * PowInt(RADIX, j) + NumTo(t, j)}
<1>6. 0 \in S
  <2>1. n + 0 = n /\ a = a * 1 + 0
    OBVIOUS
  <2>2. PowInt(RADIX, 0) = 1 /\ NumTo(t, 0) = 0
    BY PowStep, NumStep
  <2> QED
    BY <1>4, <1>5, <2>1, <2>2
<1>7. ASSUME NEW j \in Nat, j \in S PROVE j + 1 \in S
  <2>1. ASSUME j + 1 <= m
        PROVE  NumTo(u, n + (j + 1)) = a * PowInt(RADIX, j + 1) + NumTo(t, j + 1)
    <3>1. j < m /\ j <= m /\ j + 1 \in 1..m /\ n + (j + 1) = (n + j) + 1 /\ n + j \in Nat
      BY <2>1
    <3>2. PICK p \in Nat, b \in Nat, d \in Nat, r \in Nat :
              /\ p = PowInt(RADIX, j) /\ b = NumTo(t, j) /\ d = t[j + 1] /\ r = RADIX
      <4>1. NumTo(t, j) \in Nat /\ t[j + 1] \in Nat
        BY <3>1, NumType, DigitOf
      <4>2. PowInt(RADIX, j) \in Nat
        BY RadixPower
      <4> QED
        BY <4>1, <4>2, RadixFacts
    <3>3. NumTo(u, n + j) = a * p + b
      BY <1>7, <3>1, <3>2
    <3>4. NumTo(u, (n + j) + 1) = r * (a * p + b) + d
      <4>1. NumTo(u, (n + j) + 1) = RADIX * NumTo(u, n + j) + u[(n + j) + 1]
        BY <3>1, NumStep
      <4>2. u[n + (j + 1)] = t[j + 1]
        BY <1>3, <3>1
      <4> QED
        BY <3>1, <3>2, <3>3, <4>1, <4>2
    <3>5. NumTo(t, j + 1) = r * b + d /\ PowInt(RADIX, j + 1) = r * p
      BY <3>2, NumStep, PowStep
    <3>6. r * (a * p + b) = a * (r * p) + r * b
      <4>1. PICK x \in Nat : x = a * p
        BY MulNat
      <4>2. r * (x + b) = r * x + r * b
        OBVIOUS
      <4>3. r * (a * p) = a * (r * p)
        <5>1. r * (a * p) = (r * a) * p /\ r * a = a * r /\ a * (r * p) = (a * r) * p
          BY MulAssoc
        <5> QED
          BY <5>1
      <4> QED
        BY <4>1, <4>2, <4>3
    <3>7. PICK x \in Nat, y \in Nat : x = a * (r * p) /\ y = r * b
      <4>1. r * p \in Nat
        BY MulNat
      <4> QED
        BY <4>1, MulNat
    <3>8. (x + y) + d = x + (y + d)
      OBVIOUS
    <3> QED
      BY <3>1, <3>4, <3>5, <3>6, <3>7, <3>8
  <2>2. j + 1 \in Nat
    OBVIOUS
  <2> QED
    BY <2>1, <2>2
<1> HIDE DEF S
<1>8. m \in S
  BY <1>6, <1>7, AllNat
<1>9. NumTo(u, n + m) = a * PowInt(RADIX, m) + NumTo(t, m)
  BY <1>8 DEF S
<1>10. Num(u) = NumTo(u, n + m) /\ Num(s) = a /\ Num(t) = NumTo(t, m)
  BY <1>2, <1>5 DEF Num, Numeral
<1> QED
  BY <1>1, <1>2, <1>9, <1>10

\* A numeral of one digit.
LEMMA NumOne ==
    ASSUME NEW d \in Digits
    PROVE  Numeral(<<d>>, 1) /\ Num(<<d>>) = d
<1>1. PICK s : s = <<d>>
  OBVIOUS
<1>2. s \in Seq(Digits) /\ Len(s) = 1 /\ s[1] = d
  BY <1>1
<1>3. NumTo(s, 0 + 1) = RADIX * 0 + s[0 + 1]
  BY NumStep
<1>4. 0 + 1 = 1 /\ RADIX * 0 + d = d
  BY RadixFacts
<1> QED
  BY <1>1, <1>2, <1>3, <1>4 DEF Num, Numeral

\* Leading zeros change nothing.
LEMMA NumPadded ==
    ASSUME NEW n \in Nat, NEW z, z = [i \in 1..n |-> 0], NEW s, NEW m \in Nat, Numeral(s, m)
    PROVE  Numeral(z \o s, n + m) /\ Num(z \o s) = Num(s)
<1>1. Numeral(z, n)
  <2>1. 0 \in Digits
    BY RadixFacts DEF Digits
  <2> QED
    BY <2>1 DEF Numeral
<1>2. \A i \in 1..n : z[i] = 0
  OBVIOUS
<1> DEFINE S == {j \in Nat : j <= n => NumTo(z, j) = 0}
<1>3. 0 \in S
  BY NumStep
<1>4. ASSUME NEW j \in Nat, j \in S PROVE j + 1 \in S
  <2>1. ASSUME j + 1 <= n PROVE NumTo(z, j + 1) = 0
    <3>1. j <= n /\ j + 1 \in 1..n
      BY <2>1
    <3>2. NumTo(z, j) = 0 /\ z[j + 1] = 0
      BY <1>2, <1>4, <3>1
    <3>3. RADIX * 0 + 0 = 0
      BY RadixFacts
    <3> QED
      BY <3>2, <3>3, NumStep
  <2> QED
    BY <2>1
<1> HIDE DEF S
<1>5. n \in S
  BY <1>3, <1>4, AllNat
<1>6. Num(z) = 0
  BY <1>1, <1>5 DEF S, Num, Numeral
<1>7. PICK p \in Nat, v \in Nat : p = PowInt(RADIX, m) /\ v = Num(s)
  <2>1. PowInt(RADIX, m) \in Nat
    BY RadixPower
  <2>2. NumTo(s, m) \in Nat
    BY NumType
  <2> QED
    BY <2>1, <2>2 DEF Num, Numeral
<1>8. 0 * p + v = v
  OBVIOUS
<1> QED
  BY <1>1, <1>6, <1>7, <1>8, NumConcat

-----------------------------------------------------------------------------
(* The digits of a number.                                                   *)

\* Division by the radix.
LEMMA RadixDiv ==
    ASSUME NEW m \in Nat
    PROVE  /\ m \div RADIX \in Nat /\ m % RADIX \in Digits /\ m % RADIX \in Nat
           /\ m = (m \div RADIX) * RADIX + (m % RADIX)
           /\ m # 0 => m \div RADIX < m
<1>1. PICK b \in Nat : b = RADIX /\ b >= 2
  BY RadixFacts
<1>2. m \div b \in Nat /\ m % b \in 0..(b - 1) /\ m = b * (m \div b) + (m % b)
  BY <1>1, DivMod
<1>3. PICK q \in Nat, r \in Nat : q = m \div b /\ r = m % b
  BY <1>2
<1>4. b * q = q * b
  OBVIOUS
<1>5. ASSUME m # 0 PROVE q < m
  <2>1. PICK c \in Nat : b = c + 2
    <3>1. b - 2 \in Nat /\ b = (b - 2) + 2
      BY <1>1
    <3> QED
      BY <3>1
  <2>2. (c + 2) * q = c * q + 2 * q /\ c * q \in Nat
    BY MulNat
  <2>3. m >= 2 * q
    BY <1>2, <1>3, <2>1, <2>2
  <2> QED
    BY <1>5, <2>3
<1> QED
  BY <1>1, <1>2, <1>3, <1>4, <1>5 DEF Digits

\* A numeral of m: its digits make m, and there is no leading zero.
Writes(s, m) ==
    /\ Num(s) = m
    /\ \E j \in Nat : /\ Numeral(s, j + 1) /\ m < PowInt(RADIX, j + 1)
                      /\ (j = 0 \/ PowInt(RADIX, j) <= m)

\* The digits of a word, the highest first.
DigitOp(p, f, k) == IF k < RADIX THEN <<k>> ELSE f[k \div RADIX] \o <<k % RADIX>>
DigitRounds == INSTANCE HehRecursion WITH Op <- DigitOp

\* One more digit.
LEMMA WritesMore ==
    ASSUME NEW s, NEW q \in Nat, Writes(s, q), q # 0, NEW d \in Digits, NEW m, m = q * RADIX + d
    PROVE  Writes(s \o <<d>>, m)
<1>1. PICK j \in Nat : /\ Numeral(s, j + 1) /\ q < PowInt(RADIX, j + 1)
                       /\ (j = 0 \/ PowInt(RADIX, j) <= q) /\ Num(s) = q
  BY DEF Writes
<1>2. /\ Numeral(s \o <<d>>, (j + 1) + 1)
      /\ Num(s \o <<d>>) = Num(s) * PowInt(RADIX, 1) + Num(<<d>>)
  <2>1. j + 1 \in Nat /\ 1 \in Nat
    OBVIOUS
  <2> QED
    BY <1>1, <2>1, NumOne, NumConcat
<1>3. PowInt(RADIX, 1) = RADIX
  <2>1. PowInt(RADIX, 0 + 1) = RADIX * PowInt(RADIX, 0) /\ PowInt(RADIX, 0) = 1
    BY PowStep
  <2>2. 0 + 1 = 1 /\ RADIX * 1 = RADIX
    BY RadixFacts
  <2> QED
    BY <2>1, <2>2
<1>4. Num(s \o <<d>>) = m
  BY <1>1, <1>2, <1>3, NumOne
<1>5. PICK r \in Nat, e \in Nat, p \in Nat, u \in Nat :
          /\ r = RADIX /\ e = d /\ e < r /\ p = PowInt(RADIX, j + 1) /\ u = PowInt(RADIX, j)
  BY RadixFacts, RadixPower
<1>6. PowInt(RADIX, (j + 1) + 1) = r * p /\ p = r * u
  <2>1. j + 1 \in Nat
    OBVIOUS
  <2>2. /\ PowInt(RADIX, (j + 1) + 1) = RADIX * PowInt(RADIX, j + 1)
        /\ PowInt(RADIX, j + 1) = RADIX * PowInt(RADIX, j)
    BY <2>1, PowStep
  <2> QED
    BY <1>5, <2>2
<1>7. m = q * r + e
  BY <1>5
<1>8. m < r * p
  <2>1. q + 1 <= p
    BY <1>1, <1>5
  <2>2. (q + 1) * r <= p * r
    BY <2>1, MulMono
  <2>3. (q + 1) * r = q * r + r /\ p * r = r * p
    OBVIOUS
  <2>4. PICK x \in Nat, y \in Nat : x = q * r /\ y = r * p
    BY MulNat
  <2> QED
    BY <1>5, <1>7, <2>2, <2>3, <2>4
<1>9. p <= m
  <2>1. u <= q
    <3>1. CASE j = 0
      <4>1. u = 1
        BY <1>5, <3>1, PowStep
      <4> QED
        BY <4>1
    <3>2. CASE j # 0
      BY <1>1, <1>5, <3>2
    <3> QED
      BY <3>1, <3>2
  <2>2. u * r <= q * r
    BY <2>1, MulMono
  <2>3. PICK x \in Nat, y \in Nat : x = q * r /\ y = u * r /\ y = r * u
    <3>1. q * r \in Nat /\ u * r \in Nat /\ u * r = r * u
      BY MulNat
    <3> QED
      BY <3>1
  <2> QED
    BY <1>6, <1>7, <2>2, <2>3
<1>10. PICK i \in Nat : i = j + 1
  OBVIOUS
<1>11. /\ Numeral(s \o <<d>>, i + 1) /\ m < PowInt(RADIX, i + 1) /\ PowInt(RADIX, i) <= m
  BY <1>2, <1>5, <1>6, <1>8, <1>9, <1>10
<1> QED
  BY <1>4, <1>11 DEF Writes

\* DigitsOf writes a number.
LEMMA DigitsOfFacts ==
    ASSUME NEW m \in Nat
    PROVE  Writes(DigitsOf(m), m)
<1>1. Identity \in [Nat -> Nat] /\ \A k \in Nat : Identity[k] = k
  BY DEF Identity
<1>2. DigitRounds!Local(0, Nat, Identity)
  <2>1. SUFFICES ASSUME NEW f, NEW g, NEW k \in Nat,
                        \A y \in Nat : Identity[y] < Identity[k] => f[y] = g[y]
                 PROVE  DigitOp(0, f, k) = DigitOp(0, g, k)
    BY DEF DigitRounds!Local
  <2>2. CASE k < RADIX
    BY <2>2 DEF DigitOp
  <2>3. CASE ~(k < RADIX)
    <3>1. k # 0
      BY <2>3, RadixFacts
    <3>2. k \div RADIX \in Nat /\ k \div RADIX < k
      BY <3>1, RadixDiv
    <3>3. f[k \div RADIX] = g[k \div RADIX]
      BY <1>1, <2>1, <3>2
    <3> QED
      BY <2>3, <3>3 DEF DigitOp
  <2> QED
    BY <2>2, <2>3
<1>3. \E f : f = [k \in Nat |-> DigitOp(0, f, k)]
  <2>0. DigitRounds!Induction
    BY AllNat DEF DigitRounds!Induction
  <2> QED
    BY <1>1, <1>2, <2>0, DigitRounds!Solution
<1> DEFINE digits == CHOOSE f : f = [k \in Nat |-> IF k < RADIX THEN <<k>>
                                                   ELSE f[k \div RADIX] \o <<k % RADIX>>]
<1>4. digits = [k \in Nat |-> IF k < RADIX THEN <<k>> ELSE digits[k \div RADIX] \o <<k % RADIX>>]
  <2>1. \E f : f = [k \in Nat |-> IF k < RADIX THEN <<k>> ELSE f[k \div RADIX] \o <<k % RADIX>>]
    BY <1>3 DEF DigitOp
  <2> QED
    BY <2>1
<1>5. DigitsOf(m) = digits[m]
  BY DEF DigitsOf
<1> HIDE DEF digits
<1> DEFINE S == {n \in Nat : \A k \in 0..n : Writes(digits[k], k)}
<1>6. ASSUME NEW k \in Nat, k < RADIX PROVE Writes(digits[k], k)
  <2>1. digits[k] = <<k>>
    BY <1>4, <1>6
  <2>2. k \in Digits
    BY <1>6, RadixFacts DEF Digits
  <2>3. Num(<<k>>) = k /\ Numeral(<<k>>, 0 + 1)
    BY <2>2, NumOne
  <2>4. PowInt(RADIX, 0 + 1) = RADIX
    <3>1. PowInt(RADIX, 0 + 1) = RADIX * PowInt(RADIX, 0) /\ PowInt(RADIX, 0) = 1
      BY PowStep
    <3>2. RADIX * 1 = RADIX
      BY RadixFacts
    <3> QED
      BY <3>1, <3>2
  <2>5. k < PowInt(RADIX, 0 + 1)
    BY <1>6, <2>4
  <2> QED
    BY <2>1, <2>3, <2>5 DEF Writes
<1>7. ASSUME NEW k \in Nat, ~(k < RADIX), Writes(digits[k \div RADIX], k \div RADIX)
      PROVE  Writes(digits[k], k)
  <2>1. PICK q \in Nat, d \in Digits : q = k \div RADIX /\ d = k % RADIX /\ k = q * RADIX + d
    BY RadixDiv
  <2>2. q # 0
    <3>1. ASSUME q = 0 PROVE FALSE
      <4>1. k = d
        BY <2>1, <3>1, RadixFacts
      <4> QED
        BY <1>7, <4>1, RadixFacts
    <3> QED
      BY <3>1
  <2>3. digits[k] = digits[q] \o <<d>>
    BY <1>4, <1>7, <2>1
  <2>4. Writes(digits[q], q)
    BY <1>7, <2>1
  <2> QED
    BY <2>1, <2>2, <2>3, <2>4, WritesMore
<1>8. 0 \in S
  <2>1. 0 < RADIX /\ \A k \in 0..0 : k = 0
    BY RadixFacts
  <2> QED
    BY <1>6, <2>1
<1>9. ASSUME NEW n \in Nat, n \in S PROVE n + 1 \in S
  <2>1. ASSUME NEW k \in 0..(n + 1) PROVE Writes(digits[k], k)
    <3>1. CASE k < RADIX
      BY <1>6, <3>1
    <3>2. CASE ~(k < RADIX)
      <4>1. k # 0
        BY <3>2, RadixFacts
      <4>2. k \div RADIX \in Nat /\ k \div RADIX < k
        BY <4>1, RadixDiv
      <4>3. k \div RADIX \in 0..n
        BY <4>2
      <4>4. Writes(digits[k \div RADIX], k \div RADIX)
        BY <1>9, <4>3
      <4> QED
        BY <1>7, <3>2, <4>4
    <3> QED
      BY <3>1, <3>2
  <2> QED
    BY <2>1
<1> HIDE DEF S
<1>10. m \in S /\ m \in 0..m
  BY <1>8, <1>9, AllNat
<1>11. Writes(digits[m], m)
  BY <1>10 DEF S
<1> QED
  BY <1>5, <1>11

\* As many digits as a number below a power of the radix has at most.
LEMMA DigitCount ==
    ASSUME NEW s, NEW m \in Nat, Writes(s, m), NEW k \in Nat, k # 0, m < PowInt(RADIX, k)
    PROVE  /\ \E n \in Nat : Numeral(s, n) /\ n <= k
           /\ PowInt(RADIX, k - 1) <= m => Numeral(s, k)
<1>1. PICK j \in Nat : /\ Numeral(s, j + 1) /\ m < PowInt(RADIX, j + 1)
                       /\ (j = 0 \/ PowInt(RADIX, j) <= m)
  BY DEF Writes
<1>2. PICK i \in Nat : k = i + 1 /\ i = k - 1
  <2>1. k - 1 \in Nat /\ k = (k - 1) + 1
    OBVIOUS
  <2> QED
    BY <2>1
<1>3. PICK r \in Nat : r = RADIX /\ r >= 2
  BY RadixFacts
<1>4. \A n \in Nat : PowInt(r, n) \in Nat
  BY <1>3, RadixPower
<1>5. j < k
  <2>1. ASSUME k <= j PROVE FALSE
    <3>1. j # 0 /\ PowInt(r, j) <= m
      BY <1>1, <1>3, <2>1
    <3>2. PowInt(r, k) <= PowInt(r, j)
      BY <1>3, <2>1, PowMono
    <3>3. m < PowInt(r, k)
      BY <1>3
    <3>4. PICK x \in Nat, y \in Nat : x = PowInt(r, k) /\ y = PowInt(r, j)
      BY <1>4
    <3> QED
      BY <3>1, <3>2, <3>3, <3>4
  <2> QED
    BY <2>1
<1>6. ASSUME PowInt(RADIX, k - 1) <= m PROVE j = i
  <2>1. ASSUME j < i PROVE FALSE
    <3>1. j + 1 \in Nat /\ j + 1 <= i
      BY <2>1
    <3>2. PowInt(r, j + 1) <= PowInt(r, i)
      BY <1>3, <3>1, PowMono
    <3>3. m < PowInt(r, j + 1) /\ PowInt(r, i) <= m
      BY <1>1, <1>2, <1>3, <1>6
    <3>4. PICK x \in Nat, y \in Nat : x = PowInt(r, j + 1) /\ y = PowInt(r, i)
      BY <1>4, <3>1
    <3> QED
      BY <3>2, <3>3, <3>4
  <2> QED
    BY <1>2, <1>5, <2>1
<1>7. j + 1 \in Nat /\ j + 1 <= k
  BY <1>5
<1> QED
  BY <1>1, <1>2, <1>6, <1>7

\* A chunk has room for the digits of every number below it.
LEMMA ChunkFacts ==
    \E k \in Nat : /\ k # 0 /\ CHUNK = PowInt(RADIX, k) /\ CHUNK \in 2..(BASE - 1)
                   /\ Len(DigitsOf(CHUNK - 1)) = k
<1>1. PICK k \in Nat : k # 0 /\ CHUNK = PowInt(RADIX, k)
  BY RadixAssumption, BaseAssumption
<1>2. PICK i \in Nat : k = i + 1 /\ i = k - 1
  <2>1. k - 1 \in Nat /\ k = (k - 1) + 1
    BY <1>1
  <2> QED
    BY <2>1
<1>3. PICK r \in Nat, p \in Nat, c \in Nat :
          /\ r = RADIX /\ r >= 2 /\ p = PowInt(RADIX, i) /\ p >= 1 /\ c = CHUNK /\ c = r * p
  <2>1. PowInt(RADIX, i + 1) = RADIX * PowInt(RADIX, i)
    BY PowStep
  <2>2. CHUNK \in Nat
    BY RadixAssumption
  <2> QED
    BY <1>1, <1>2, <2>1, <2>2, RadixFacts, RadixPower
<1>4. 2 * p <= c
  <2>1. 2 * p <= r * p
    BY <1>3, MulMono
  <2> QED
    BY <1>3, <2>1
<1>5. c - 1 \in Nat /\ p <= c - 1 /\ c - 1 < c /\ c >= 2
  BY <1>3, <1>4
<1>6. PICK s : s = DigitsOf(CHUNK - 1)
  OBVIOUS
<1>7. Writes(s, c - 1)
  BY <1>3, <1>5, <1>6, DigitsOfFacts
<1>8. Numeral(s, k)
  <2>1. PICK m \in Nat : m = c - 1
    BY <1>5
  <2>2. m < PowInt(RADIX, k) /\ PowInt(RADIX, k - 1) <= m
    BY <1>1, <1>2, <1>3, <1>5, <2>1
  <2> QED
    BY <1>1, <1>7, <2>1, <2>2, DigitCount
<1>9. CHUNK \in 2..(BASE - 1)
  <2>1. CHUNK < BASE /\ BASE \in Nat
    BY RadixAssumption, BaseNat
  <2> QED
    BY <1>3, <1>5, <2>1
<1> QED
  BY <1>1, <1>6, <1>8, <1>9 DEF Numeral

\* A chunk is written with all its digits.
LEMMA PaddedFacts ==
    ASSUME NEW m \in Nat, m < CHUNK, NEW k \in Nat, k # 0, CHUNK = PowInt(RADIX, k),
           Len(DigitsOf(CHUNK - 1)) = k
    PROVE  Numeral(Padded(m), k) /\ Num(Padded(m)) = m
<1>1. PICK s : s = DigitsOf(m) /\ Writes(s, m)
  BY DigitsOfFacts
<1>2. PICK n \in Nat : Numeral(s, n) /\ n <= k
  BY <1>1, DigitCount
<1>3. Len(s) = n
  BY <1>2 DEF Numeral
<1>4. PICK j \in Nat : j = k - n /\ j + n = k
  <2>1. k - n \in Nat /\ (k - n) + n = k
    BY <1>2
  <2> QED
    BY <2>1
<1>5. PICK z : z = [i \in 1..j |-> 0]
  OBVIOUS
<1>6. Padded(m) = z \o s
  BY <1>1, <1>3, <1>4, <1>5 DEF Padded
<1>7. Numeral(z \o s, j + n) /\ Num(z \o s) = Num(s)
  BY <1>2, <1>5, NumPadded
<1> QED
  BY <1>1, <1>4, <1>6, <1>7 DEF Writes

-----------------------------------------------------------------------------
(* Reading.                                                                  *)

\* The body of the loop that reads a numeral into limbs.
ParseOp(p, b, d) == AddU32(MulU32(b, RADIX), d)
Parses == INSTANCE HehRecursion WITH Op <- ParseOp
ParseLoop(digits) == FoldLeft(LAMBDA b, d : AddU32(MulU32(b, RADIX), d), Zero, digits)

\* The loop of parse computes the number digit by digit.
LEMMA ParseLoopFacts ==
    ASSUME NEW s, NEW n \in Nat, Numeral(s, n)
    PROVE  ParseLoop(s) \in Unsigned /\ Val(ParseLoop(s).limbs) = Num(s)
<1>1. Len(s) = n /\ DOMAIN s = 1..n
  BY DEF Numeral
<1>2. ParseLoop(s) = Parses!FoldL(0, Zero, s, 1..n)
  BY <1>1 DEF ParseLoop, FoldLeft, MapThenFoldSet, Max, Parses!FoldL, Parses!Top, ParseOp
<1>3. PICK R : Parses!LeftRounds(R, 0, Zero, s) /\ Parses!FoldL(0, Zero, s, 1..n) = R[n]
  <2>0. Parses!Induction
    BY AllNat DEF Parses!Induction
  <2> QED
    BY <2>0, Parses!LeftFold
<1>4. R[0] = Zero /\ \A k \in Nat : R[k + 1] = AddU32(MulU32(R[k], RADIX), s[k + 1])
  BY <1>3 DEF Parses!LeftRounds, ParseOp
<1> DEFINE P(k) == R[k] \in Unsigned /\ Val(R[k].limbs) = NumTo(s, k)
           S == {k \in Nat : k <= n => P(k)}
<1>5. P(0)
  BY <1>4, UnsignedZero, NumStep
<1>6. ASSUME NEW k \in Nat, k + 1 <= n, P(k) PROVE P(k + 1)
  <2>1. k < n
    BY <1>6
  <2>2. PICK d \in Digits : d = s[k + 1] /\ d \in Limb
    BY <2>1, DigitOf, RadixFacts
  <2>3. PICK b : b = R[k] /\ IsBig(b) /\ ~b.sign /\ Val(b.limbs) = NumTo(s, k)
    BY <1>6, UnsignedFacts
  <2>4. PICK c : c = MulU32(b, RADIX) /\ IsBig(c) /\ ~c.sign /\ Val(c.limbs) = RADIX * NumTo(s, k)
    BY <2>3, RadixFacts, MulU32Facts
  <2>5. PICK e : e = AddU32(c, d) /\ IsBig(e) /\ ~e.sign /\ Val(e.limbs) = RADIX * NumTo(s, k) + d
    BY <2>2, <2>4, AddU32Facts
  <2>6. e.sign = FALSE
    BY <2>5 DEF IsBig
  <2>7. R[k + 1] = e
    BY <1>4, <2>2, <2>3, <2>4, <2>5
  <2>8. NumTo(s, k + 1) = RADIX * NumTo(s, k) + d
    BY <2>2, NumStep
  <2> QED
    BY <2>5, <2>6, <2>7, <2>8, UnsignedIsBig
<1> HIDE DEF P
<1>7. P(n)
  <2>1. 0 \in S
    BY <1>5
  <2>2. ASSUME NEW k \in Nat, k \in S PROVE k + 1 \in S
    <3>1. k + 1 <= n => k <= n
      OBVIOUS
    <3>2. k + 1 <= n => P(k + 1)
      BY <1>6, <2>2, <3>1
    <3> QED
      BY <3>2
  <2>3. n \in S
    <3> HIDE DEF S
    <3> QED
      BY <2>1, <2>2, AllNat
  <2> QED
    BY <2>3
<1> QED
  BY <1>1, <1>2, <1>3, <1>7 DEF P, Num

\* A numeral is read as the number it stands for.
LEMMA ParseFacts ==
    ASSUME NEW neg \in BOOLEAN, NEW s, NEW n \in Nat, Numeral(s, n)
    PROVE  IsBig(Parse(neg, s)) /\ IntOf(Parse(neg, s)) = WithSign(neg, Num(s))
<1>1. PICK out : out = ParseLoop(s)
  OBVIOUS
<1>2. out \in Unsigned /\ Val(out.limbs) = Num(s)
  BY <1>1, ParseLoopFacts
<1>3. IsBig(out) /\ out.sign = FALSE
  BY <1>2, UnsignedFacts
<1>4. PICK d : d = Parse(neg, s)
  OBVIOUS
<1>5. PICK v \in BOOLEAN : (v <=> ~IsZero(out) /\ neg) /\ d = [out EXCEPT !.sign = v]
  <2>1. PICK v : v = (neg /\ ~IsZero(out))
    OBVIOUS
  <2>2. v \in BOOLEAN /\ (v <=> ~IsZero(out) /\ neg)
    BY <2>1
  <2>3. d = [out EXCEPT !.sign = v]
    BY <1>1, <1>4, <2>1, Zenon DEF Parse, ParseLoop
  <2> QED
    BY <2>2, <2>3, Zenon
<1>6. IsBig(d) /\ IntOf(d) = WithSign(neg, Val(out.limbs))
  BY <1>3, <1>5, SignedFacts
<1> QED
  BY <1>2, <1>4, <1>6

-----------------------------------------------------------------------------
(* Printing.                                                                 *)

\* The digits of a magnitude: those of what CHUNK leaves, after those of the rest.
ShowOp(p, f, b) ==
    IF IsZero(b) THEN <<>>
    ELSE IF IsZero(DivModU32(b, CHUNK).q) THEN DigitsOf(DivModU32(b, CHUNK).r)
    ELSE f[DivModU32(b, CHUNK).q] \o Padded(DivModU32(b, CHUNK).r)
Shows == INSTANCE HehRecursion WITH Op <- ShowOp

\* What gets smaller with each chunk printed.
ValOf == [b \in Unsigned |-> Val(b.limbs)]

\* A chunk is taken off the number.
LEMMA ChunkTaken ==
    ASSUME NEW b \in Unsigned, ~IsZero(b)
    PROVE  \E q \in Unsigned, r \in Nat :
               /\ q = DivModU32(b, CHUNK).q /\ r = DivModU32(b, CHUNK).r /\ r < CHUNK
               /\ Val(b.limbs) = Val(q.limbs) * CHUNK + r /\ Val(q.limbs) < Val(b.limbs)
<1>1. PICK c \in Nat : c = CHUNK /\ c >= 2 /\ c \in 1..(BASE - 1)
  <2>1. CHUNK \in 2..(BASE - 1) /\ BASE \in Nat
    BY ChunkFacts, BaseNat
  <2> QED
    BY <2>1
<1>2. IsBig(b) /\ b.sign = FALSE /\ ~b.sign
  BY UnsignedFacts
<1>3. PICK q, r : q = DivModU32(b, CHUNK).q /\ r = DivModU32(b, CHUNK).r
  OBVIOUS
<1>4. IsBig(q) /\ ~q.sign /\ r \in 0..(c - 1) /\ Val(b.limbs) = Val(q.limbs) * c + r
  BY <1>1, <1>2, <1>3, DivModU32Facts
<1>5. q \in Unsigned
  <2>1. q.sign = FALSE
    BY <1>4 DEF IsBig
  <2> QED
    BY <1>4, <2>1, UnsignedIsBig
<1>6. PICK v \in Nat, w \in Nat, e \in Nat :
          v = Val(b.limbs) /\ w = Val(q.limbs) /\ e = r /\ v = w * c + e /\ v # 0 /\ e < c
  <2>1. Val(b.limbs) \in Nat /\ Val(q.limbs) \in Nat /\ (Val(b.limbs) = 0 <=> IsZero(b))
    BY <1>2, <1>5, BigFacts, UnsignedFacts
  <2>2. r \in Nat /\ r < c
    BY <1>1, <1>4
  <2> QED
    BY <1>4, <2>1, <2>2
<1>7. w < v
  <2>1. 2 * w <= c * w
    BY <1>1, MulMono
  <2>2. PICK x \in Nat : x = w * c /\ x = c * w
    <3>1. w * c \in Nat /\ w * c = c * w
      BY MulNat
    <3> QED
      BY <3>1
  <2>3. 2 * w <= v
    BY <1>6, <2>1, <2>2
  <2> QED
    BY <1>6, <2>3
<1> QED
  BY <1>1, <1>3, <1>5, <1>6, <1>7

\* What is printed of a number stands for it.
Prints(s, b) == Num(s) = Val(b.limbs) /\ \E n \in Nat : Numeral(s, n)

\* The loop of Display prints a number chunk by chunk.
LEMMA ShowLoop ==
    ASSUME NEW chunks, chunks = [b \in Unsigned |-> ShowOp(0, chunks, b)], NEW a \in Unsigned
    PROVE  Prints(chunks[a], a)
<1> DEFINE S == {n \in Nat : \A b \in Unsigned : Val(b.limbs) <= n => Prints(chunks[b], b)}
<1>1. ASSUME NEW b \in Unsigned, IsZero(b) PROVE Prints(chunks[b], b)
  <2>1. chunks[b] = <<>>
    BY <1>1 DEF ShowOp
  <2>2. Val(b.limbs) = 0
    BY <1>1, UnsignedFacts, BigFacts
  <2>3. Numeral(<<>>, 0) /\ Num(<<>>) = 0
    <3>1. Len(<<>>) = 0 /\ <<>> \in Seq(Digits)
      OBVIOUS
    <3> QED
      BY <3>1, NumStep DEF Numeral, Num
  <2> QED
    BY <2>1, <2>2, <2>3 DEF Prints
<1>2. ASSUME NEW b \in Unsigned, ~IsZero(b), ~IsZero(DivModU32(b, CHUNK).q) =>
                 Prints(chunks[DivModU32(b, CHUNK).q], DivModU32(b, CHUNK).q)
      PROVE  Prints(chunks[b], b)
  <2>1. PICK q \in Unsigned, r \in Nat :
            /\ q = DivModU32(b, CHUNK).q /\ r = DivModU32(b, CHUNK).r /\ r < CHUNK
            /\ Val(b.limbs) = Val(q.limbs) * CHUNK + r
    BY <1>2, ChunkTaken
  <2>2. chunks[b] = IF IsZero(q) THEN DigitsOf(r) ELSE chunks[q] \o Padded(r)
    BY <1>2, <2>1 DEF ShowOp
  <2>3. PICK k \in Nat : /\ k # 0 /\ CHUNK = PowInt(RADIX, k) /\ CHUNK \in Nat
                         /\ Len(DigitsOf(CHUNK - 1)) = k
    <3>1. CHUNK \in Nat
      BY RadixAssumption
    <3> QED
      BY <3>1, ChunkFacts
  <2>4. CASE IsZero(q)
    <3>1. chunks[b] = DigitsOf(r) /\ Writes(DigitsOf(r), r)
      BY <2>2, <2>4, DigitsOfFacts
    <3>2. Val(q.limbs) = 0
      BY <2>4, UnsignedFacts, BigFacts
    <3>3. 0 * CHUNK + r = r
      BY <2>3
    <3>4. Val(b.limbs) = r
      BY <2>1, <3>2, <3>3
    <3>5. \E n \in Nat : Numeral(DigitsOf(r), n)
      <4>1. PICK j \in Nat : Numeral(DigitsOf(r), j + 1)
        BY <3>1 DEF Writes
      <4>2. j + 1 \in Nat
        OBVIOUS
      <4> QED
        BY <4>1, <4>2
    <3> QED
      BY <3>1, <3>4, <3>5 DEF Prints, Writes
  <2>5. CASE ~IsZero(q)
    <3>1. PICK s, t : s = chunks[q] /\ t = Padded(r)
      OBVIOUS
    <3>2. PICK n \in Nat : Numeral(s, n) /\ Num(s) = Val(q.limbs)
      BY <1>2, <2>1, <2>5, <3>1 DEF Prints
    <3>3. Numeral(t, k) /\ Num(t) = r
      BY <2>1, <2>3, <3>1, PaddedFacts
    <3>4. Numeral(s \o t, n + k) /\ Num(s \o t) = Num(s) * PowInt(RADIX, k) + Num(t)
      BY <3>2, <3>3, NumConcat
    <3>5. chunks[b] = s \o t
      BY <2>2, <2>5, <3>1
    <3>6. Num(s \o t) = Val(b.limbs)
      BY <2>1, <2>3, <3>2, <3>3, <3>4
    <3>7. n + k \in Nat
      OBVIOUS
    <3> QED
      BY <3>4, <3>5, <3>6, <3>7 DEF Prints
  <2> QED
    BY <2>4, <2>5
<1>3. 0 \in S
  <2>1. ASSUME NEW b \in Unsigned, Val(b.limbs) <= 0 PROVE Prints(chunks[b], b)
    <3>1. Val(b.limbs) \in Nat /\ (Val(b.limbs) = 0 <=> IsZero(b))
      BY UnsignedFacts, BigFacts
    <3>2. IsZero(b)
      BY <2>1, <3>1
    <3> QED
      BY <1>1, <3>2
  <2> QED
    BY <2>1
<1>4. ASSUME NEW n \in Nat, n \in S PROVE n + 1 \in S
  <2>1. ASSUME NEW b \in Unsigned, Val(b.limbs) <= n + 1 PROVE Prints(chunks[b], b)
    <3>1. CASE IsZero(b)
      BY <1>1, <3>1
    <3>2. CASE ~IsZero(b)
      <4>1. PICK q \in Unsigned : q = DivModU32(b, CHUNK).q /\ Val(q.limbs) < Val(b.limbs)
        BY <3>2, ChunkTaken
      <4>2. Val(q.limbs) \in Nat /\ Val(b.limbs) \in Nat
        BY UnsignedFacts
      <4>3. Val(q.limbs) <= n
        BY <2>1, <4>1, <4>2
      <4>4. Prints(chunks[q], q)
        BY <1>4, <4>3
      <4> QED
        BY <1>2, <3>2, <4>1, <4>4
    <3> QED
      BY <3>1, <3>2
  <2>2. n + 1 \in Nat
    OBVIOUS
  <2> QED
    BY <2>1, <2>2
<1>5. PICK n \in Nat : n = Val(a.limbs)
  BY UnsignedFacts
<1>6. n \in S
  <2> HIDE DEF S
  <2> QED
    BY <1>3, <1>4, AllNat
<1>7. Val(a.limbs) <= n
  BY <1>5
<1> QED
  BY <1>6, <1>7

\* Display prints the number.
LEMMA ShowFacts ==
    ASSUME NEW a, IsBig(a)
    PROVE  /\ Show(a).neg \in BOOLEAN
           /\ \E n \in Nat : Numeral(Show(a).digits, n)
           /\ WithSign(Show(a).neg, Num(Show(a).digits)) = IntOf(a)
<1>1. PICK shown : shown = Show(a)
  OBVIOUS
<1>2. CASE IsZero(a)
  <2>1. shown = [neg |-> FALSE, digits |-> <<0>>]
    BY <1>1, <1>2 DEF Show
  <2>2. shown.neg = FALSE /\ shown.digits = <<0>>
    BY <2>1
  <2>3. Numeral(<<0>>, 1) /\ Num(<<0>>) = 0
    <3>1. 0 \in Digits
      BY RadixFacts DEF Digits
    <3> QED
      BY <3>1, NumOne
  <2>4. IntOf(a) = 0
    BY <1>2, SignOfBig
  <2>5. WithSign(FALSE, 0) = 0
    BY DEF WithSign
  <2> QED
    BY <1>1, <2>2, <2>3, <2>4, <2>5
<1>3. CASE ~IsZero(a)
  <2>1. ValOf \in [Unsigned -> Nat]
    BY UnsignedFacts DEF ValOf
  <2>2. Shows!Local(0, Unsigned, ValOf)
    <3>1. SUFFICES ASSUME NEW f, NEW g, NEW b \in Unsigned,
                          \A y \in Unsigned : ValOf[y] < ValOf[b] => f[y] = g[y]
                   PROVE  ShowOp(0, f, b) = ShowOp(0, g, b)
      BY DEF Shows!Local
    <3>2. CASE IsZero(b)
      BY <3>2 DEF ShowOp
    <3>3. CASE ~IsZero(b)
      <4>1. PICK q \in Unsigned : q = DivModU32(b, CHUNK).q /\ Val(q.limbs) < Val(b.limbs)
        BY <3>3, ChunkTaken
      <4>2. f[q] = g[q]
        BY <3>1, <4>1 DEF ValOf
      <4> QED
        BY <3>3, <4>1, <4>2 DEF ShowOp
    <3> QED
      BY <3>2, <3>3
  <2>3. \E f : f = [b \in Unsigned |-> ShowOp(0, f, b)]
    <3>0. Shows!Induction
      BY AllNat DEF Shows!Induction
    <3> QED
      BY <2>1, <2>2, <3>0, Shows!Solution
  <2> DEFINE chunks == CHOOSE f : f = [b \in Unsigned |-> ShowOp(0, f, b)]
  <2>4. chunks = [b \in Unsigned |-> ShowOp(0, chunks, b)]
    BY <2>3
  <2>5. shown = [neg |-> a.sign, digits |-> chunks[Magnitude(a)]]
    BY <1>1, <1>3, Zenon DEF Show, ShowOp
  <2> HIDE DEF chunks
  <2>6. shown.neg = a.sign /\ shown.digits = chunks[Magnitude(a)]
    BY <2>5
  <2>7. Magnitude(a) \in Unsigned /\ Magnitude(a).limbs = a.limbs
    BY MagnitudeFacts, UnsignedIsBig
  <2>8. Prints(chunks[Magnitude(a)], Magnitude(a))
    BY <2>4, <2>7, ShowLoop
  <2>9. a.sign \in BOOLEAN
    BY BigFacts
  <2>10. WithSign(a.sign, Val(a.limbs)) = IntOf(a)
    BY DEF WithSign, IntOf
  <2> QED
    BY <1>1, <2>6, <2>7, <2>8, <2>9, <2>10 DEF Prints
<1> QED
  BY <1>2, <1>3

-----------------------------------------------------------------------------
(* Words and limbs.                                                          *)

\* The words end halfway below two limbs.
LEMMA HalfFacts == HALF \in Nat /\ HALF >= 1 /\ 2 * HALF = BASE * BASE
<1>1. PICK b \in Nat, h \in Nat : b = BASE /\ h >= 1 /\ b = 2 * h
  BY BaseFacts
<1>2. PICK x \in Nat : x = h * b
  BY MulNat
<1>3. b * b = 2 * x
  <2>1. (2 * h) * b = 2 * (h * b)
    OBVIOUS
  <2> QED
    BY <1>1, <1>2, <2>1
<1>4. (2 * x) \div 2 = x
  OBVIOUS
<1>5. HALF = x
  BY <1>1, <1>3, <1>4 DEF HALF
<1>6. x >= 1
  <2>1. h * b >= b
    BY <1>1, MulGrows
  <2> QED
    BY <1>1, <1>2, <2>1
<1> QED
  BY <1>1, <1>2, <1>3, <1>5, <1>6

\* The words are the integers from -HALF to HALF - 1.
LEMMA WordFacts == \A k \in Int : k \in Word <=> -HALF <= k /\ k < HALF
<1>1. PICK h \in Nat : h = HALF
  BY HalfFacts
<1>2. \A k \in Int : k \in (-h)..(h - 1) <=> -h <= k /\ k < h
  OBVIOUS
<1> QED
  BY <1>1, <1>2 DEF Word

\* The natural numbers up to two.
LEMMA UpToTwo == \A n \in Nat : n <= 2 => n = 0 \/ n = 1 \/ n = 2
  OBVIOUS

\* At most two limbs, as to_i64 puts them together.
LEMMA LowLimbs ==
    ASSUME NEW b, b.limbs \in Seq(Limb), Len(b.limbs) <= 2
    PROVE  At(b, 1) + BASE * At(b, 2) = Val(b.limbs)
<1>s. PICK s : s = b.limbs /\ s \in Seq(Limb)
  OBVIOUS
<1>n. PICK n \in Nat : n = Len(s) /\ DOMAIN s = 1..n
  BY <1>s
<1>1. s = b.limbs /\ n = Len(s) /\ n <= 2 /\ s \in Seq(Limb) /\ DOMAIN s = 1..n
  BY <1>s, <1>n
<1>2. At(b, 1) = Digit(s, 1) /\ At(b, 2) = Digit(s, 2)
  BY <1>1 DEF At, Digit
<1>3. PICK x \in Nat, y \in Nat : x = Digit(s, 1) /\ y = Digit(s, 2)
  BY <1>1, DigitFacts
<1>4. Sum(s, 0) = 0 /\ Sum(s, 0 + 1) = Sum(s, 0) + Digit(s, 0 + 1) * W(0)
      /\ Sum(s, 1 + 1) = Sum(s, 1) + Digit(s, 1 + 1) * W(1)
  BY SumStep
<1>5. W(0) = 1 /\ W(1) = BASE /\ BASE \in Nat
  BY WeightStep, WeightOne, BaseNat
<1>6. Sum(s, 1) = x
  <2>1. 0 + 1 = 1 /\ 0 + x * 1 = x
    OBVIOUS
  <2> QED
    BY <1>3, <1>4, <1>5, <2>1
<1>7. Sum(s, 2) = x + y * BASE
  <2>1. 1 + 1 = 2
    OBVIOUS
  <2> QED
    BY <1>3, <1>4, <1>5, <1>6, <2>1
<1>8. y * BASE = BASE * y
  BY <1>5
<1>9. CASE n = 2
  BY <1>1, <1>2, <1>3, <1>7, <1>8, <1>9 DEF Val
<1>10. CASE n = 1
  <2>1. y = 0
    BY <1>1, <1>3, <1>10 DEF Digit
  <2>2. x + BASE * 0 = x
    BY <1>5
  <2> QED
    BY <1>1, <1>2, <1>3, <1>6, <1>10, <2>1, <2>2 DEF Val
<1>11. CASE n = 0
  <2>1. x = 0 /\ y = 0
    BY <1>1, <1>3, <1>11 DEF Digit
  <2>2. 0 + BASE * 0 = 0
    BY <1>5
  <2> QED
    BY <1>1, <1>2, <1>3, <1>4, <1>11, <2>1, <2>2 DEF Val
<1>12. n = 0 \/ n = 1 \/ n = 2
  <2>1. n <= 2
    BY <1>1
  <2> QED
    BY <2>1, UpToTwo, Zenon
<1> QED
  BY <1>9, <1>10, <1>11, <1>12

\* A number in limbs fits a word exactly if it is one.
LEMMA FitsFacts ==
    ASSUME NEW b, IsBig(b)
    PROVE  /\ Fits(b) <=> IntOf(b) \in Word
           /\ Fits(b) => ToI64(b) = IntOf(b)
<1>1. PICK h \in Nat, v \in Nat, i \in Int :
          h = HALF /\ h >= 1 /\ v = Val(b.limbs) /\ i = IntOf(b) /\ 2 * h = BASE * BASE
  BY HalfFacts, BigFacts
<1>2. i \in Word <=> -h <= i /\ i < h
  BY <1>1, WordFacts
<1>3. (b.sign => i = -v /\ i < 0) /\ (~b.sign => i = v) /\ b.sign \in BOOLEAN
  BY <1>1, SignOfBig, BigFacts
<1>4. i \in Word <=> v < h \/ (b.sign /\ v = h)
  <2>1. CASE b.sign
    BY <1>1, <1>2, <1>3, <2>1
  <2>2. CASE ~b.sign
    BY <1>1, <1>2, <1>3, <2>2
  <2> QED
    BY <1>3, <2>1, <2>2
<1>5. b.limbs \in Seq(Limb) /\ Canon(b.limbs)
  BY BigFacts
<1>6. CASE Len(b.limbs) <= 2
  <2>1. At(b, 1) + BASE * At(b, 2) = v
    BY <1>1, <1>5, <1>6, LowLimbs
  <2>2. Fits(b) <=> v < h \/ (b.sign /\ v = h)
    BY <1>1, <1>6, <2>1 DEF Fits
  <2>3. ToI64(b) = IF b.sign THEN -v ELSE v
    BY <2>1 DEF ToI64
  <2>4. ToI64(b) = IntOf(b)
    BY <1>1, <2>3 DEF IntOf
  <2> QED
    BY <1>1, <1>4, <2>2, <2>4
<1>7. CASE ~(Len(b.limbs) <= 2)
  <2>1. ~Fits(b)
    BY <1>7 DEF Fits
  <2>2. PICK n \in Nat : n = Len(b.limbs) - 1 /\ W(n) <= v /\ 2 <= n
    <3>1. PICK l \in Nat : l = Len(b.limbs)
      BY <1>5, CanonWeight
    <3>2. ~(l <= 2)
      BY <1>7, <3>1
    <3>3. l - 1 \in Nat /\ 2 <= l - 1 /\ l # 0
      BY <3>2
    <3> QED
      BY <1>1, <1>5, <3>1, <3>3, CanonWeight
  <2>3. W(2) = BASE * BASE
    <3>1. 1 + 1 = 2 /\ W(1 + 1) = BASE * W(1)
      BY WeightStep
    <3> QED
      BY <3>1, WeightOne
  <2>4. W(2) <= W(n) /\ W(n) \in Nat
    BY <2>2, WeightOrder, WeightStep
  <2>5. 2 * h <= v
    BY <1>1, <2>2, <2>3, <2>4
  <2>6. h < v
    BY <1>1, <2>5
  <2>7. i \notin Word
    BY <1>4, <2>6
  <2> QED
    BY <1>1, <2>1, <2>7
<1> QED
  BY <1>6, <1>7

\* The integers of a program are in their one representation after norm.
LEMMA NormFacts ==
    ASSUME NEW b, IsBig(b)
    PROVE  Norm(b) = Representation(IntOf(b))
<1>1. IntOf(b) \in Int
  BY BigFacts
<1>2. CASE Fits(b)
  <2>1. IntOf(b) \in Word /\ ToI64(b) = IntOf(b)
    BY <1>2, FitsFacts
  <2> QED
    BY <1>2, <2>1 DEF Norm, Representation
<1>3. CASE ~Fits(b)
  <2>1. IntOf(b) \notin Word
    BY <1>3, FitsFacts
  <2>2. FromI64(IntOf(b)) = b
    BY <1>1, FromI64Facts, BigUnique
  <2> QED
    BY <1>3, <2>1, <2>2 DEF Norm, Representation
<1> QED
  BY <1>2, <1>3

\* The two forms of an integer.
LEMMA RepresentationFacts ==
    ASSUME NEW k \in Int
    PROVE  /\ IsSmall(Representation(k)) <=> k \in Word
           /\ k \in Word => Representation(k) = Small(k) /\ Representation(k)[2] = k
           /\ k \notin Word => /\ Representation(k)[2] = FromI64(k)
                               /\ Representation(k) = Large(FromI64(k))
           /\ IsBig(Big(Representation(k))) /\ IntOf(Big(Representation(k))) = k
           /\ ValueOf(Representation(k)) = k
           /\ IsZeroInt(Representation(k)) <=> k = 0
<1>1. PICK b : b = FromI64(k) /\ IsBig(b) /\ IntOf(b) = k
  BY FromI64Facts
<1>2. CASE k \in Word
  <2>1. PICK x : x = Representation(k) /\ x = <<"Small", k>>
    BY <1>2 DEF Representation, Small
  <2>2. x[1] = "Small" /\ x[2] = k
    BY <2>1
  <2>3. IsSmall(x) /\ Big(x) = b /\ ValueOf(x) = k /\ (IsZeroInt(x) <=> k = 0)
    BY <1>1, <2>2 DEF IsSmall, Big, ValueOf, IsZeroInt
  <2> QED
    BY <1>1, <1>2, <2>1, <2>2, <2>3 DEF Small
<1>3. CASE k \notin Word
  <2>1. PICK x : x = Representation(k) /\ x = <<"Large", b>>
    BY <1>1, <1>3 DEF Representation, Large
  <2>2. x[1] = "Large" /\ x[2] = b
    BY <2>1
  <2>3. ~IsSmall(x) /\ Big(x) = b
    BY <2>2 DEF IsSmall, Big
  <2>4. ValueOf(x) = k
    <3>1. b.limbs \in Seq(Limb)
      BY <1>1, BigFacts
    <3>2. FoldRight(LAMBDA d, s : d + BASE * s, b.limbs, 0) = Val(b.limbs)
      BY <3>1, ValueIsVal
    <3>3. ValueOf(x) = LET m == FoldRight(LAMBDA d, s : d + BASE * s, b.limbs, 0)
                       IN  IF b.sign THEN -m ELSE m
      BY <2>2, <2>3 DEF ValueOf
    <3>4. ValueOf(x) = IntOf(b)
      BY <3>2, <3>3 DEF IntOf
    <3> QED
      BY <1>1, <3>4
  <2>5. IsZeroInt(x) <=> k = 0
    BY <1>1, <2>2, <2>3, SignOfBig DEF IsZeroInt
  <2> QED
    BY <1>1, <1>3, <2>1, <2>2, <2>3, <2>4, <2>5 DEF Large
<1> QED
  BY <1>2, <1>3

-----------------------------------------------------------------------------
(* The operators on integers in their one representation.                    *)

\* Add adds, on words and on limbs.
LEMMA AddExact ==
    ASSUME NEW n \in Int, NEW k \in Int
    PROVE  Add(Representation(n), Representation(k)) = Representation(n + k)
<1>1. PICK x, y : x = Representation(n) /\ y = Representation(k)
  OBVIOUS
<1>2. CASE IsSmall(x) /\ IsSmall(y) /\ x[2] + y[2] \in Word
  <2>1. x[2] = n /\ y[2] = k
    BY <1>1, <1>2, RepresentationFacts
  <2>2. Add(x, y) = Small(n + k) /\ n + k \in Word
    BY <1>2, <2>1 DEF Add
  <2> QED
    BY <1>1, <2>2 DEF Representation
<1>3. CASE ~(IsSmall(x) /\ IsSmall(y) /\ x[2] + y[2] \in Word)
  <2>1. PICK a, b : a = Big(x) /\ b = Big(y)
    OBVIOUS
  <2>2. IsBig(a) /\ IntOf(a) = n /\ IsBig(b) /\ IntOf(b) = k
    BY <1>1, <2>1, RepresentationFacts
  <2>3. IsBig(AddBig(a, b)) /\ IntOf(AddBig(a, b)) = n + k
    BY <2>2, AddBigFacts
  <2>4. Add(x, y) = Norm(AddBig(a, b))
    BY <1>3, <2>1 DEF Add
  <2> QED
    BY <1>1, <2>3, <2>4, NormFacts
<1> QED
  BY <1>2, <1>3

\* Sub subtracts, on words and on limbs.
LEMMA SubExact ==
    ASSUME NEW n \in Int, NEW k \in Int
    PROVE  Sub(Representation(n), Representation(k)) = Representation(n - k)
<1>1. PICK x, y : x = Representation(n) /\ y = Representation(k)
  OBVIOUS
<1>2. CASE IsSmall(x) /\ IsSmall(y) /\ x[2] - y[2] \in Word
  <2>1. x[2] = n /\ y[2] = k
    BY <1>1, <1>2, RepresentationFacts
  <2>2. Sub(x, y) = Small(n - k) /\ n - k \in Word
    BY <1>2, <2>1 DEF Sub
  <2> QED
    BY <1>1, <2>2 DEF Representation
<1>3. CASE ~(IsSmall(x) /\ IsSmall(y) /\ x[2] - y[2] \in Word)
  <2>1. PICK a, b : a = Big(x) /\ b = Big(y)
    OBVIOUS
  <2>2. IsBig(a) /\ IntOf(a) = n /\ IsBig(b) /\ IntOf(b) = k
    BY <1>1, <2>1, RepresentationFacts
  <2>3. IsBig(SubBig(a, b)) /\ IntOf(SubBig(a, b)) = n - k
    BY <2>2, SubBigFacts
  <2>4. Sub(x, y) = Norm(SubBig(a, b))
    BY <1>3, <2>1 DEF Sub
  <2> QED
    BY <1>1, <2>3, <2>4, NormFacts
<1> QED
  BY <1>2, <1>3

\* Mul multiplies, on words and on limbs.
LEMMA MulExact ==
    ASSUME NEW n \in Int, NEW k \in Int
    PROVE  Mul(Representation(n), Representation(k)) = Representation(n * k)
<1>1. PICK x, y : x = Representation(n) /\ y = Representation(k)
  OBVIOUS
<1>2. CASE IsSmall(x) /\ IsSmall(y) /\ x[2] * y[2] \in Word
  <2>1. x[2] = n /\ y[2] = k
    BY <1>1, <1>2, RepresentationFacts
  <2>2. Mul(x, y) = Small(n * k) /\ n * k \in Word
    BY <1>2, <2>1 DEF Mul
  <2> QED
    BY <1>1, <2>2 DEF Representation
<1>3. CASE ~(IsSmall(x) /\ IsSmall(y) /\ x[2] * y[2] \in Word)
  <2>1. PICK a, b : a = Big(x) /\ b = Big(y)
    OBVIOUS
  <2>2. IsBig(a) /\ IntOf(a) = n /\ IsBig(b) /\ IntOf(b) = k
    BY <1>1, <2>1, RepresentationFacts
  <2>3. IsBig(MulBig(a, b)) /\ IntOf(MulBig(a, b)) = n * k
    BY <2>2, MulBigFacts
  <2>4. Mul(x, y) = Norm(MulBig(a, b))
    BY <1>3, <2>1 DEF Mul
  <2> QED
    BY <1>1, <2>3, <2>4, NormFacts
<1> QED
  BY <1>2, <1>3

\* int(f) of a float is its integer part.
LEMMA FromFloatExact ==
    ASSUME NEW k \in Int
    PROVE  FromFloatInt(k) = Representation(k)
<1>1. CASE k \in Word
  BY <1>1 DEF FromFloatInt, Representation
<1>2. CASE k \notin Word
  BY <1>2, FromFloatFacts, NormFacts DEF FromFloatInt
<1> QED
  BY <1>1, <1>2

\* A numeral is read as the integer it stands for.
LEMMA ReadExact ==
    ASSUME NEW k \in Int
    PROVE  Norm(Parse(k < 0, DigitsOf(IF k < 0 THEN -k ELSE k))) = Representation(k)
<1>1. PICK m \in Nat : m = IF k < 0 THEN -k ELSE k
  OBVIOUS
<1>2. PICK neg \in BOOLEAN : neg = (k < 0)
  <2>1. (k < 0) \in BOOLEAN
    OBVIOUS
  <2> QED
    BY <2>1, Zenon
<1>3. neg <=> k < 0
  BY <1>2, Zenon
<1>4. PICK t : t = DigitsOf(m) /\ Writes(t, m)
  BY DigitsOfFacts
<1>5. \E l \in Nat : Numeral(t, l)
  <2>1. PICK j \in Nat : Numeral(t, j + 1)
    BY <1>4 DEF Writes
  <2>2. j + 1 \in Nat
    OBVIOUS
  <2> QED
    BY <2>1, <2>2
<1>6. IsBig(Parse(neg, t)) /\ IntOf(Parse(neg, t)) = WithSign(neg, m)
  BY <1>4, <1>5, ParseFacts DEF Writes
<1>7. WithSign(neg, m) = k
  BY <1>1, <1>3 DEF WithSign
<1>8. Norm(Parse(neg, t)) = Representation(k)
  BY <1>6, <1>7, NormFacts
<1> QED
  BY <1>1, <1>2, <1>4, <1>8, Zenon

\* An integer that is printed and read again is the same.
LEMMA PrintedReadsBack ==
    ASSUME NEW n \in Int
    PROVE  Norm(Parse(Show(Big(Representation(n))).neg, Show(Big(Representation(n))).digits))
           = Representation(n)
<1>1. PICK b : b = Big(Representation(n)) /\ IsBig(b) /\ IntOf(b) = n
  BY RepresentationFacts
<1>2. PICK shown : shown = Show(b)
  OBVIOUS
<1>3. PICK neg, s : neg \in BOOLEAN /\ neg = shown.neg /\ s = shown.digits
  <2>1. shown.neg \in BOOLEAN
    BY <1>1, <1>2, ShowFacts
  <2> QED
    BY <2>1, Zenon
<1>4. (\E l \in Nat : Numeral(s, l)) /\ WithSign(neg, Num(s)) = n
  BY <1>1, <1>2, <1>3, ShowFacts
<1>5. IsBig(Parse(neg, s)) /\ IntOf(Parse(neg, s)) = n
  BY <1>3, <1>4, ParseFacts
<1>6. Norm(Parse(neg, s)) = Representation(n)
  BY <1>5, NormFacts
<1> QED
  BY <1>1, <1>2, <1>3, <1>6

\* Negation, of the least word too.
LEMMA NegateExact ==
    ASSUME NEW n \in Int
    PROVE  Negate(Representation(n)) = Representation(-n)
<1>0. PICK k \in Int : k = -n
  OBVIOUS
<1>1. PICK x : x = Representation(n)
  OBVIOUS
<1>2. CASE n \in Word
  <2>1. IsSmall(x) /\ x[2] = n
    BY <1>1, <1>2, RepresentationFacts
  <2>2. Negate(x) = IF k \in Word THEN Small(k) ELSE Large(Magnitude(FromI64(n)))
    BY <1>0, <2>1 DEF Negate
  <2>3. CASE k \in Word
    BY <1>0, <1>1, <2>2, <2>3 DEF Representation
  <2>4. CASE k \notin Word
    <3>1. PICK b : b = FromI64(n) /\ IsBig(b) /\ IntOf(b) = n
      BY FromI64Facts
    <3>2. n < 0 /\ k >= 0
      <4>1. PICK h \in Nat : h = HALF
        BY HalfFacts
      <4>2. -h <= n /\ n < h /\ ~(-h <= k /\ k < h)
        BY <1>2, <2>4, <4>1, WordFacts
      <4> QED
        BY <1>0, <4>2
    <3>3. IsBig(Magnitude(b)) /\ IntOf(Magnitude(b)) = k
      <4>1. IsBig(Magnitude(b)) /\ Magnitude(b).sign = FALSE /\ Magnitude(b).limbs = b.limbs
        BY <3>1, MagnitudeFacts
      <4>2. b.sign /\ n = -Val(b.limbs) /\ Val(b.limbs) \in Nat
        BY <3>1, <3>2, SignOfBig, BigFacts
      <4>3. IntOf(Magnitude(b)) = Val(b.limbs)
        BY <4>1 DEF IntOf
      <4> QED
        BY <1>0, <4>1, <4>2, <4>3
    <3>4. Magnitude(b) = FromI64(k)
      BY <3>3, FromI64Facts, BigUnique
    <3> QED
      BY <1>0, <1>1, <2>2, <2>4, <3>1, <3>4 DEF Representation
  <2> QED
    BY <2>3, <2>4
<1>3. CASE n \notin Word
  <2>1. PICK b : b = FromI64(n) /\ IsBig(b) /\ IntOf(b) = n
    BY FromI64Facts
  <2>2. ~IsSmall(x) /\ x[2] = b
    BY <1>1, <1>3, <2>1, RepresentationFacts
  <2>3. n # 0
    BY <1>3, HalfFacts, WordFacts
  <2>4. b = [sign |-> b.sign, limbs |-> b.limbs] /\ Canon(b.limbs) /\ b.sign \in BOOLEAN
        /\ Val(b.limbs) \in Nat /\ Val(b.limbs) > 0
    BY <2>1, <2>3, BigFacts, SignOfBig
  <2>5. PICK t \in BOOLEAN : t <=> ~b.sign
    OBVIOUS
  <2>6. PICK c : c = [b EXCEPT !.sign = ~@]
    OBVIOUS
  <2>7. c = [sign |-> t, limbs |-> b.limbs]
    BY <2>4, <2>5, <2>6
  <2>8. IsBig(c) /\ IntOf(c) = IF t THEN -Val(b.limbs) ELSE Val(b.limbs)
    BY <2>4, <2>7, MakeBig
  <2>9. IntOf(c) = k
    <3>1. (b.sign => n = -Val(b.limbs)) /\ (~b.sign => n = Val(b.limbs))
      BY <2>1, SignOfBig
    <3>2. CASE b.sign
      BY <1>0, <2>4, <2>5, <2>8, <3>1, <3>2
    <3>3. CASE ~b.sign
      BY <1>0, <2>4, <2>5, <2>8, <3>1, <3>3
    <3> QED
      BY <3>2, <3>3
  <2>10. Negate(x) = Norm(c)
    BY <2>2, <2>6, Zenon DEF Negate
  <2> QED
    BY <1>0, <1>1, <2>8, <2>9, <2>10, NormFacts
<1> QED
  BY <1>2, <1>3

-----------------------------------------------------------------------------
(* Floor division and powers.                                                *)

\* The quotient and the remainder of floor division are the only ones.
LEMMA FlooredOnce ==
    ASSUME NEW n \in Int, NEW k \in Int, k # 0, NEW q \in Int, NEW r \in Int,
           NEW u \in Int, NEW v \in Int, Floored(n, k, q, r), Floored(n, k, u, v)
    PROVE  q = u /\ r = v
<1>1. q * k + r = u * k + v
  BY DEF Floored
<1>2. PICK c \in Int : c = q - u
  OBVIOUS
<1>3. c * k = v - r
  <2>1. (q - u) * k = q * k - u * k
    OBVIOUS
  <2>2. PICK x \in Int, y \in Int : x = q * k /\ y = u * k
    OBVIOUS
  <2> QED
    BY <1>1, <1>2, <2>1, <2>2
<1>4. PICK m \in Nat : m = (IF k > 0 THEN k ELSE -k) /\ m >= 1
  OBVIOUS
<1>5. -m < v - r /\ v - r < m
  <2>1. CASE k > 0
    BY <1>4, <2>1 DEF Floored
  <2>2. CASE ~(k > 0)
    BY <1>4, <2>2 DEF Floored
  <2> QED
    BY <2>1, <2>2
<1>6. PICK d \in Int : d * m = v - r /\ (d = 0 <=> c = 0)
  <2>1. CASE k > 0
    BY <1>3, <1>4, <2>1
  <2>2. CASE ~(k > 0)
    <3>1. (-c) * m = c * k
      BY <1>4, <2>2
    <3>2. -c \in Int /\ (-c = 0 <=> c = 0)
      OBVIOUS
    <3> QED
      BY <1>3, <3>1, <3>2
  <2> QED
    BY <2>1, <2>2
<1>7. d = 0
  <2>1. ASSUME d >= 1 PROVE FALSE
    <3>1. PICK e \in Nat : d = e + 1
      <4>1. d - 1 \in Nat /\ d = (d - 1) + 1
        BY <2>1
      <4> QED
        BY <4>1
    <3>2. (e + 1) * m = e * m + m /\ e * m \in Nat
      BY MulNat
    <3> QED
      BY <1>5, <1>6, <3>1, <3>2
  <2>2. ASSUME d <= -1 PROVE FALSE
    <3>1. PICK e \in Nat : d = -(e + 1)
      <4>1. -d - 1 \in Nat /\ d = -((-d - 1) + 1)
        BY <2>2
      <4> QED
        BY <4>1
    <3>2. (-(e + 1)) * m = -(e * m + m) /\ e * m \in Nat
      BY MulNat
    <3> QED
      BY <1>5, <1>6, <3>1, <3>2
  <2> QED
    BY <2>1, <2>2
<1>8. c = 0 /\ v - r = 0
  <2>1. 0 * m = 0
    OBVIOUS
  <2> QED
    BY <1>6, <1>7, <2>1
<1> QED
  BY <1>2, <1>8

\* The quotient and the remainder of words are words, the adjusted ones too.
LEMMA FlooredWords ==
    ASSUME NEW n \in Word, NEW k \in Word, k # 0, NEW q \in Int, NEW r \in Int,
           Floored(n, k, q, r), q \in Word \/ (q + 1 \in Word /\ k < 0 /\ r # 0)
    PROVE  q \in Word /\ r \in Word
<1>1. PICK h \in Nat : h = HALF /\ h >= 1
  BY HalfFacts
<1>2. n \in Int /\ k \in Int
  BY <1>1 DEF Word
<1>3. -h <= n /\ n < h /\ -h <= k /\ k < h
  BY <1>1, <1>2, WordFacts
<1>4. r \in Word
  <2>1. -h <= r /\ r < h
    <3>1. CASE k > 0
      BY <1>2, <1>3, <3>1 DEF Floored
    <3>2. CASE ~(k > 0)
      BY <1>2, <1>3, <3>2 DEF Floored
    <3> QED
      BY <3>1, <3>2
  <2> QED
    BY <1>1, <2>1, WordFacts
<1>5. q \in Word
  <2>1. SUFFICES ASSUME q + 1 \in Word, k < 0, q < -h PROVE FALSE
    <3>1. q + 1 \in Word => q + 1 < h
      BY <1>1, WordFacts
    <3>2. q + 1 \in Word /\ ~(q < -h) => -h <= q /\ q < h
      BY <1>1, <3>1
    <3> QED
      BY <1>1, <3>2, WordFacts
  <2>2. PICK a \in Nat, b \in Nat : k = -(a + 1) /\ q = -(h + 1 + b)
    <3>1. -k - 1 \in Nat /\ k = -((-k - 1) + 1)
      BY <1>2, <2>1
    <3>2. -q - h - 1 \in Nat /\ q = -(h + 1 + (-q - h - 1))
      BY <2>1
    <3> QED
      BY <3>1, <3>2
  <2>3. q * k = a * (h + b) + a + (h + 1 + b)
    <3>1. (-(h + 1 + b)) * (-(a + 1)) = a * (h + b) + a + (h + 1 + b)
      OBVIOUS
    <3> QED
      BY <2>2, <3>1
  <2>4. r > -(a + 1)
    BY <1>2, <2>1, <2>2 DEF Floored
  <2>5. PICK x \in Nat : x = a * (h + b)
    <3>1. h + b \in Nat
      OBVIOUS
    <3> QED
      BY <3>1, MulNat
  <2>6. n = (x + a + (h + 1 + b)) + r
    BY <2>3, <2>5 DEF Floored
  <2>7. n >= h
    BY <2>4, <2>6
  <2> QED
    BY <1>2, <1>3, <2>7
<1> QED
  BY <1>4, <1>5

\* div_mod_floor floors, on words and on limbs.
LEMMA DivModFloorExact ==
    ASSUME NEW n \in Int, NEW k \in Int, k # 0
    PROVE  \E q \in Int, r \in Int :
               /\ Floored(n, k, q, r)
               /\ DivModFloor(Representation(n), Representation(k))
                  = [q |-> Representation(q), r |-> Representation(r)]
<1>1. PICK x, y : x = Representation(n) /\ y = Representation(k)
  OBVIOUS
<1>2. CASE IsSmall(x) /\ IsSmall(y) /\ EuclidDiv(x[2], y[2]) \in Word
  <2>1. x[2] = n /\ y[2] = k /\ n \in Word /\ k \in Word
    BY <1>1, <1>2, RepresentationFacts
  <2>2. PICK d : d = DivModFloor(x, y)
    OBVIOUS
  <2>3. d = FloorAdjust(EuclidDiv(n, k), EuclidRem(n, k), k) /\ EuclidDiv(n, k) \in Word
    BY <1>2, <2>1, <2>2 DEF DivModFloor
  <2>4. /\ n = k * d.q[2] + d.r[2]
        /\ k > 0 => 0 <= d.r[2] /\ d.r[2] < k
        /\ k < 0 => k < d.r[2] /\ d.r[2] <= 0
    BY <2>3, WordDivisionFloors
  <2>5. PICK a \in Int, b \in Int : a = EuclidDiv(n, k) /\ b = EuclidRem(n, k)
    <3>1. PICK m \in Nat : m = (IF k < 0 THEN -k ELSE k) /\ m > 0
      OBVIOUS
    <3>2. n \div m \in Int /\ n % m \in 0..(m - 1)
      BY <3>1, IntDivMod
    <3>3. EuclidRem(n, k) \in Int
      BY <3>1, <3>2 DEF EuclidRem
    <3>4. EuclidDiv(n, k) \in Int
      BY <3>1, <3>2 DEF EuclidDiv
    <3> QED
      BY <3>3, <3>4
  <2>6. PICK q \in Int, r \in Int :
            /\ d = [q |-> Small(q), r |-> Small(r)] /\ (q = a \/ (q + 1 = a /\ k < 0 /\ r # 0))
    <3>1. CASE k < 0 /\ b # 0
      <4>1. d = [q |-> Small(a - 1), r |-> Small(b + k)]
        BY <2>3, <2>5, <3>1 DEF FloorAdjust
      <4>2. b + k # 0
        <5>1. b < -k
          <6>1. n % (-k) \in 0..((-k) - 1)
            BY <3>1, IntDivMod
          <6>2. b = n % (-k)
            BY <2>5, <3>1 DEF EuclidRem
          <6> QED
            BY <6>1, <6>2
        <5> QED
          BY <5>1
      <4>3. (a - 1) + 1 = a /\ a - 1 \in Int /\ b + k \in Int
        OBVIOUS
      <4> QED
        BY <3>1, <4>1, <4>2, <4>3
    <3>2. CASE ~(k < 0 /\ b # 0)
      BY <2>3, <2>5, <3>2 DEF FloorAdjust
    <3> QED
      BY <3>1, <3>2
  <2>7. d.q[2] = q /\ d.r[2] = r
    BY <2>6 DEF Small
  <2>8. Floored(n, k, q, r)
    <3>1. n = k * q + r /\ k * q = q * k
      BY <2>4, <2>7
    <3>2. CASE k > 0
      BY <2>4, <2>7, <3>1, <3>2 DEF Floored
    <3>3. CASE k < 0
      BY <2>4, <2>7, <3>1, <3>3 DEF Floored
    <3> QED
      BY <3>2, <3>3
  <2>9. q \in Word /\ r \in Word
    <3>1. a \in Word
      BY <2>3, <2>5
    <3>2. q \in Word \/ (q + 1 \in Word /\ k < 0 /\ r # 0)
      BY <2>6, <3>1
    <3> QED
      BY <2>1, <2>8, <3>2, FlooredWords
  <2>10. d = [q |-> Representation(q), r |-> Representation(r)]
    BY <2>6, <2>9 DEF Representation
  <2> QED
    BY <1>1, <2>2, <2>8, <2>10
<1>3. CASE ~(IsSmall(x) /\ IsSmall(y) /\ EuclidDiv(x[2], y[2]) \in Word)
  <2>1. PICK a, b : a = Big(x) /\ b = Big(y)
    OBVIOUS
  <2>2. IsBig(a) /\ IntOf(a) = n /\ IsBig(b) /\ IntOf(b) = k
    BY <1>1, <2>1, RepresentationFacts
  <2>3. PICK d : d = DivModFloorBig(a, b)
    OBVIOUS
  <2>4. IsBig(d.q) /\ IsBig(d.r) /\ Floored(n, k, IntOf(d.q), IntOf(d.r))
    <3>1. ~IsZero(b)
      BY <2>2, SignOfBig
    <3> QED
      BY <2>2, <2>3, <3>1, DivModFloorBigFacts
  <2>5. DivModFloor(x, y) = [q |-> Norm(d.q), r |-> Norm(d.r)]
    BY <1>3, <2>1, <2>3 DEF DivModFloor
  <2>6. PICK q \in Int, r \in Int : q = IntOf(d.q) /\ r = IntOf(d.r)
    BY <2>4, BigFacts
  <2>7. Norm(d.q) = Representation(q) /\ Norm(d.r) = Representation(r)
    BY <2>4, <2>6, NormFacts
  <2> QED
    BY <1>1, <2>4, <2>5, <2>6, <2>7
<1> QED
  BY <1>2, <1>3

\* pow is the power, on words and on limbs.
LEMMA PowExact ==
    ASSUME NEW n \in Int, NEW e \in Nat
    PROVE  Pow(Representation(n), Representation(e)) = Representation(PowInt(n, e))
<1>1. PICK x, y : x = Representation(n) /\ y = Representation(e)
  OBVIOUS
<1>2. CASE IsSmall(x) /\ IsSmall(y) /\ y[2] < BASE /\ PowInt(x[2], y[2]) \in Word
  <2>1. x[2] = n /\ y[2] = e
    BY <1>1, <1>2, RepresentationFacts
  <2>2. Pow(x, y) = Small(PowInt(n, e)) /\ PowInt(n, e) \in Word
    BY <1>2, <2>1 DEF Pow
  <2> QED
    BY <1>1, <2>2 DEF Representation
<1>3. CASE ~(IsSmall(x) /\ IsSmall(y) /\ y[2] < BASE /\ PowInt(x[2], y[2]) \in Word)
  <2>1. PICK a, b : a = Big(x) /\ b = Big(y)
    OBVIOUS
  <2>2. IsBig(a) /\ IntOf(a) = n /\ IsBig(b) /\ IntOf(b) = e
    BY <1>1, <2>1, RepresentationFacts
  <2>3. Val(b.limbs) = e
    <3>1. e >= 0
      OBVIOUS
    <3> QED
      BY <2>2, <3>1, NotNegative
  <2>4. IsBig(PowBig(a, b)) /\ IntOf(PowBig(a, b)) = PowInt(n, e)
    BY <2>2, <2>3, PowBigFacts
  <2>5. Pow(x, y) = Norm(PowBig(a, b))
    BY <1>3, <2>1 DEF Pow
  <2> QED
    BY <1>1, <2>4, <2>5, NormFacts
<1> QED
  BY <1>2, <1>3

-----------------------------------------------------------------------------
(* Order and equality.                                                       *)

\* Of two numbers below zero the one of smaller magnitude is the larger.
LEMMA CmpBigIsOrder ==
    ASSUME NEW a, IsBig(a), NEW b, IsBig(b)
    PROVE  CmpBig(a, b) = CmpInt(IntOf(a), IntOf(b))
<1>1. PICK x \in Nat, y \in Nat, i \in Int, j \in Int :
          x = Val(a.limbs) /\ y = Val(b.limbs) /\ i = IntOf(a) /\ j = IntOf(b)
  BY BigFacts
<1>2. /\ (a.sign => i = -x /\ i < 0) /\ (~a.sign => i = x) /\ (IsZero(a) <=> i = 0)
      /\ (b.sign => j = -y /\ j < 0) /\ (~b.sign => j = y) /\ (IsZero(b) <=> j = 0)
  BY <1>1, SignOfBig
<1>3. a.sign \in BOOLEAN /\ b.sign \in BOOLEAN
  BY BigFacts
<1>4. CmpAbs(a, b) = CmpInt(x, y) /\ CmpAbs(b, a) = CmpInt(y, x)
  BY <1>1, CmpAbsIsOrder DEF IsBig
<1>5. CASE IsZero(a) /\ IsZero(b)
  <2>1. CmpBig(a, b) = 0 /\ i = 0 /\ j = 0
    BY <1>2, <1>5 DEF CmpBig
  <2> QED
    BY <1>1, <2>1 DEF CmpInt
<1>6. CASE ~(IsZero(a) /\ IsZero(b)) /\ a.sign /\ ~b.sign
  <2>1. CmpBig(a, b) = -1
    BY <1>3, <1>6 DEF CmpBig
  <2>2. i < j
    BY <1>2, <1>6
  <2> QED
    BY <1>1, <2>1, <2>2 DEF CmpInt
<1>7. CASE ~(IsZero(a) /\ IsZero(b)) /\ ~a.sign /\ b.sign
  <2>1. CmpBig(a, b) = 1
    BY <1>3, <1>7 DEF CmpBig
  <2>2. i > j
    BY <1>2, <1>7
  <2> QED
    BY <1>1, <2>1, <2>2 DEF CmpInt
<1>8. CASE ~(IsZero(a) /\ IsZero(b)) /\ a.sign /\ b.sign
  <2>1. CmpBig(a, b) = CmpInt(y, x)
    BY <1>3, <1>4, <1>8 DEF CmpBig
  <2>2. (i < j <=> y < x) /\ (i > j <=> y > x)
    BY <1>2, <1>8
  <2> QED
    BY <1>1, <2>1, <2>2 DEF CmpInt
<1>9. CASE ~(IsZero(a) /\ IsZero(b)) /\ ~a.sign /\ ~b.sign
  <2>1. CmpBig(a, b) = CmpInt(x, y)
    BY <1>3, <1>4, <1>9 DEF CmpBig
  <2>2. i = x /\ j = y
    BY <1>2, <1>9
  <2> QED
    BY <1>1, <2>1, <2>2
<1> QED
  BY <1>3, <1>5, <1>6, <1>7, <1>8, <1>9

\* An integer outside the words is beyond them all on its side.
LEMMA LargeSide ==
    ASSUME NEW n \in Int, n \notin Word
    PROVE  \E b : /\ ~IsSmall(Representation(n)) /\ Representation(n)[2] = b
                  /\ IsBig(b) /\ IntOf(b) = n /\ b.sign \in BOOLEAN
                  /\ b.sign => \A k \in Word : n < k
                  /\ ~b.sign => \A k \in Word : k < n
<1>1. PICK b : b = FromI64(n) /\ IsBig(b) /\ IntOf(b) = n
  BY FromI64Facts
<1>2. ~IsSmall(Representation(n)) /\ Representation(n)[2] = b
  BY <1>1, RepresentationFacts
<1>3. b.sign \in BOOLEAN /\ (b.sign <=> n < 0)
  BY <1>1, BigFacts
<1>4. PICK h \in Nat : h = HALF
  BY HalfFacts
<1>5. ~(-h <= n /\ n < h)
  BY <1>4, WordFacts
<1>6. ASSUME NEW k \in Word PROVE k \in Int /\ -h <= k /\ k < h
  <2>1. k \in Int
    BY <1>4 DEF Word
  <2> QED
    BY <1>4, <2>1, WordFacts
<1>7. n < 0 => \A k \in Word : n < k
  BY <1>5, <1>6
<1>8. ~(n < 0) => \A k \in Word : k < n
  BY <1>5, <1>6
<1> QED
  BY <1>1, <1>2, <1>3, <1>7, <1>8

\* cmp orders integers as numbers, in each of its four cases.
LEMMA CmpExact ==
    ASSUME NEW n \in Int, NEW k \in Int
    PROVE  Cmp(Representation(n), Representation(k)) = CmpInt(n, k)
<1>1. PICK x, y : x = Representation(n) /\ y = Representation(k)
  OBVIOUS
<1>2. CASE n \in Word /\ k \in Word
  <2>1. IsSmall(x) /\ IsSmall(y) /\ x[2] = n /\ y[2] = k
    BY <1>1, <1>2, RepresentationFacts
  <2> QED
    BY <1>1, <2>1 DEF Cmp
<1>3. CASE n \notin Word /\ k \in Word
  <2>1. IsSmall(y)
    BY <1>1, <1>3, RepresentationFacts
  <2>2. PICK b : /\ ~IsSmall(x) /\ x[2] = b /\ b.sign \in BOOLEAN
                 /\ (b.sign => n < k) /\ (~b.sign => k < n)
    BY <1>1, <1>3, LargeSide
  <2>3. Cmp(x, y) = IF b.sign THEN -1 ELSE 1
    BY <2>1, <2>2 DEF Cmp
  <2>4. CASE b.sign
    BY <1>1, <2>2, <2>3, <2>4 DEF CmpInt
  <2>5. CASE ~b.sign
    BY <1>1, <2>2, <2>3, <2>5 DEF CmpInt
  <2> QED
    BY <2>4, <2>5
<1>4. CASE n \in Word /\ k \notin Word
  <2>1. IsSmall(x)
    BY <1>1, <1>4, RepresentationFacts
  <2>2. PICK b : /\ ~IsSmall(y) /\ y[2] = b /\ b.sign \in BOOLEAN
                 /\ (b.sign => k < n) /\ (~b.sign => n < k)
    BY <1>1, <1>4, LargeSide
  <2>3. Cmp(x, y) = IF b.sign THEN 1 ELSE -1
    BY <2>1, <2>2 DEF Cmp
  <2>4. CASE b.sign
    BY <1>1, <2>2, <2>3, <2>4 DEF CmpInt
  <2>5. CASE ~b.sign
    BY <1>1, <2>2, <2>3, <2>5 DEF CmpInt
  <2> QED
    BY <2>4, <2>5
<1>5. CASE n \notin Word /\ k \notin Word
  <2>1. PICK a : ~IsSmall(x) /\ x[2] = a /\ IsBig(a) /\ IntOf(a) = n
    BY <1>1, <1>5, LargeSide
  <2>2. PICK b : ~IsSmall(y) /\ y[2] = b /\ IsBig(b) /\ IntOf(b) = k
    BY <1>1, <1>5, LargeSide
  <2>3. Cmp(x, y) = CmpBig(a, b)
    BY <2>1, <2>2 DEF Cmp
  <2> QED
    BY <1>1, <2>1, <2>2, <2>3, CmpBigIsOrder
<1> QED
  BY <1>2, <1>3, <1>4, <1>5

\* eq identifies integers as numbers.
LEMMA EqualExact ==
    ASSUME NEW n \in Int, NEW k \in Int
    PROVE  Equal(Representation(n), Representation(k)) <=> n = k
<1>1. PICK x, y : x = Representation(n) /\ y = Representation(k)
  OBVIOUS
<1>2. CASE n \in Word /\ k \in Word
  <2>1. IsSmall(x) /\ IsSmall(y) /\ x[2] = n /\ y[2] = k
    BY <1>1, <1>2, RepresentationFacts
  <2> QED
    BY <1>1, <2>1 DEF Equal
<1>3. CASE n \in Word /\ k \notin Word
  <2>1. IsSmall(x) /\ ~IsSmall(y) /\ n # k
    BY <1>1, <1>3, RepresentationFacts
  <2> QED
    BY <1>1, <2>1 DEF Equal
<1>4. CASE n \notin Word /\ k \in Word
  <2>1. ~IsSmall(x) /\ IsSmall(y) /\ n # k
    BY <1>1, <1>4, RepresentationFacts
  <2> QED
    BY <1>1, <2>1 DEF Equal
<1>5. CASE n \notin Word /\ k \notin Word
  <2>1. PICK a : ~IsSmall(x) /\ x[2] = a /\ IsBig(a) /\ IntOf(a) = n
    BY <1>1, <1>5, LargeSide
  <2>2. PICK b : ~IsSmall(y) /\ y[2] = b /\ IsBig(b) /\ IntOf(b) = k
    BY <1>1, <1>5, LargeSide
  <2>3. Equal(x, y) <=> EqBig(a, b)
    BY <2>1, <2>2 DEF Equal
  <2>4. EqBig(a, b) <=> n = k
    <3>1. (IsZero(a) <=> n = 0) /\ (IsZero(b) <=> k = 0)
      BY <2>1, <2>2, SignOfBig
    <3>2. n = k => a = b
      BY <2>1, <2>2, BigUnique
    <3>3. a = b => n = k
      BY <2>1, <2>2
    <3> QED
      BY <3>1, <3>2, <3>3 DEF EqBig
  <2> QED
    BY <1>1, <2>3, <2>4
<1> QED
  BY <1>2, <1>3, <1>4, <1>5

-----------------------------------------------------------------------------
(* The program: the register always holds the one representation of an       *)
(* integer, and each step is the operator on the number it stands for.       *)

\* The inductive invariant.
Represented ==
    /\ \E n \in Int : acc = Representation(n)
    /\ fault \in {"none", "E0200", "E0201"}

\* Zero is a word.
LEMMA ZeroIsWord == Small(0) = Representation(0)
  BY HalfFacts, WordFacts DEF Representation

\* HehIntegers and HehBigInt bound what is explored alike.
LEMMA ExploredSame ==
    ASSUME NEW n \in Int
    PROVE  /\ Explored(n) <=> Numbers!Explored(n)
           /\ \A e \in Nat : /\ PowInt(n, e) \in Int
                             /\ Numbers!PowInt(n, e) = PowInt(n, e)
                             /\ ExploredPow(n, e) <=> Numbers!ExploredPow(n, e)
<1>1. ASSUME NEW i \in Int
      PROVE  Explored(i) <=> Numbers!Explored(i)
  BY <1>1, OperandsAssumption DEF Explored, Numbers!Explored, Numbers!Abs
<1>2. \A e \in Nat : PowInt(n, e) \in Int
  BY PowType
<1>3. \A e : Numbers!PowInt(n, e) = PowInt(n, e)
  BY DEF PowInt, Numbers!PowInt
<1>4. ASSUME NEW e \in Nat
      PROVE  ExploredPow(n, e) <=> Numbers!ExploredPow(n, e)
  <2>1. PICK p \in Int : p = PowInt(n, e) /\ p = Numbers!PowInt(n, e)
    BY <1>2, <1>3
  <2>2. Explored(p) <=> Numbers!Explored(p)
    BY <1>1
  <2>3. n \in -2..2 <=> Numbers!Abs(n) <= 2
    BY DEF Numbers!Abs
  <2> QED
    BY <2>1, <2>2, <2>3 DEF ExploredPow, Numbers!ExploredPow
<1> QED
  BY <1>1, <1>2, <1>3, <1>4

\* The quotient and the remainder of HehIntegers.
LEMMA FloorFacts ==
    ASSUME NEW n \in Int, NEW k \in Int, k # 0
    PROVE  /\ Numbers!FloorDiv(n, k) \in Int /\ Numbers!FloorMod(n, k) \in Int
           /\ Floored(n, k, Numbers!FloorDiv(n, k), Numbers!FloorMod(n, k))
<1>1. CASE k > 0
  <2>1. k \in Nat
    BY <1>1
  <2>2. PICK q \in Int, r \in Int : q = n \div k /\ r \in 0..(k - 1) /\ n = k * q + r
    BY <1>1, <2>1, IntDivMod
  <2>3. Numbers!FloorDiv(n, k) = q
    BY <1>1, <2>2 DEF Numbers!FloorDiv
  <2>4. PICK p \in Int : p = k * q /\ p = q * k /\ n = p + r /\ 0 <= r /\ r < k
    BY <2>1, <2>2
  <2>5. Numbers!FloorMod(n, k) = r
    BY <2>3, <2>4 DEF Numbers!FloorMod
  <2> QED
    BY <1>1, <2>3, <2>4, <2>5 DEF Floored
<1>2. CASE ~(k > 0)
  <2>1. PICK m \in Nat : m = -k /\ m > 0
    BY <1>2
  <2>2. PICK q \in Int, r \in Int : q = (-n) \div m /\ r \in 0..(m - 1) /\ -n = m * q + r
    BY <2>1, IntDivMod
  <2>3. Numbers!FloorDiv(n, k) = q
    BY <1>2, <2>1, <2>2 DEF Numbers!FloorDiv
  <2>4. PICK p \in Int : p = m * q
    OBVIOUS
  <2>5. k * q = -p /\ q * k = -p
    <3>1. (-m) * q = -(m * q) /\ q * (-m) = -(m * q) /\ k = -m
      BY <2>1
    <3> QED
      BY <2>4, <3>1
  <2>6. n = -p + (-r) /\ -r \in Int /\ k < -r /\ -r <= 0
    BY <2>1, <2>2, <2>4
  <2>7. Numbers!FloorMod(n, k) = -r
    BY <2>3, <2>5, <2>6 DEF Numbers!FloorMod
  <2> QED
    BY <1>2, <2>3, <2>5, <2>6, <2>7 DEF Floored
<1> QED
  BY <1>1, <1>2

\* A step that yields an integer keeps the invariant and is one of HehIntegers.
LEMMA YieldStep ==
    ASSUME NEW m \in Int, fault = "none", Yields(Representation(m))
    PROVE  Represented' /\ Numbers!Yields(m)
<1>1. acc' = Representation(m) /\ fault' = fault
  BY DEF Yields
<1>2. ValueOf(acc)' = m
  <2>1. ValueOf(Representation(m)) = m
    BY RepresentationFacts
  <2> QED
    BY <1>1, <2>1
<1> QED
  BY <1>1, <1>2 DEF Represented, Numbers!Yields, Numbers!Running

\* So does one that faults.
LEMMA FaultStep ==
    ASSUME Represented, fault = "none", NEW code \in {"E0200", "E0201"}, Faults(code)
    PROVE  Represented' /\ Numbers!Faults(code)
<1>1. acc' = acc /\ fault' = code
  BY DEF Faults
<1>2. ValueOf(acc)' = ValueOf(acc)
  BY <1>1
<1> QED
  BY <1>1, <1>2 DEF Represented, Numbers!Faults, Numbers!Running

\* Every step keeps the invariant and is the step of HehIntegers it should be.
LEMMA NextStep ==
    ASSUME Represented, Next
    PROVE  Represented' /\ Numbers!Next
<1>0. fault = "none" /\ Operands \subseteq Int /\ Exponents \subseteq Int
  BY OperandsAssumption DEF Next
<1>1. PICK n \in Int : acc = Representation(n) /\ ValueOf(acc) = n
  BY RepresentationFacts DEF Represented
<1>2. ASSUME NEW k \in Operands, Read(k)
      PROVE  Represented' /\ Numbers!Next
  <2>1. k \in Int /\ Yields(Representation(k))
    BY <1>0, <1>2, ReadExact DEF Read
  <2> QED
    BY <1>0, <2>1, YieldStep DEF Numbers!Next
<1>3. ASSUME NEW k \in Operands, Truncate(k)
      PROVE  Represented' /\ Numbers!Next
  <2>1. k \in Int /\ Yields(Representation(k))
    BY <1>0, <1>3, FromFloatExact DEF Truncate
  <2> QED
    BY <1>0, <2>1, YieldStep DEF Numbers!Next
<1>4. ASSUME NEW k \in Operands, Plus(k)
      PROVE  Represented' /\ Numbers!Next
  <2>1. k \in Int
    BY <1>0
  <2>2. PICK m \in Int : m = n + k
    BY <2>1
  <2>3. Explored(m) /\ Yields(Representation(m))
    BY <1>1, <1>4, <2>1, <2>2, AddExact DEF Plus
  <2>4. Represented' /\ Numbers!Yields(m) /\ Numbers!Explored(m)
    BY <1>0, <2>3, YieldStep, ExploredSame
  <2> QED
    BY <1>1, <2>2, <2>4 DEF Numbers!Next
<1>5. ASSUME NEW k \in Operands, Minus(k)
      PROVE  Represented' /\ Numbers!Next
  <2>1. k \in Int
    BY <1>0
  <2>2. PICK m \in Int : m = n - k
    BY <2>1
  <2>3. Explored(m) /\ Yields(Representation(m))
    BY <1>1, <1>5, <2>1, <2>2, SubExact DEF Minus
  <2>4. Represented' /\ Numbers!Yields(m) /\ Numbers!Explored(m)
    BY <1>0, <2>3, YieldStep, ExploredSame
  <2> QED
    BY <1>1, <2>2, <2>4 DEF Numbers!Next
<1>6. ASSUME NEW k \in Operands, Times(k)
      PROVE  Represented' /\ Numbers!Next
  <2>1. k \in Int
    BY <1>0
  <2>2. PICK m \in Int : m = n * k
    BY <2>1
  <2>3. Explored(m) /\ Yields(Representation(m))
    BY <1>1, <1>6, <2>1, <2>2, MulExact DEF Times
  <2>4. Represented' /\ Numbers!Yields(m) /\ Numbers!Explored(m)
    BY <1>0, <2>3, YieldStep, ExploredSame
  <2> QED
    BY <1>1, <2>2, <2>4 DEF Numbers!Next
<1>7. ASSUME NEW k \in Operands, Divide(k)
      PROVE  Represented' /\ Numbers!Next
  <2>1. k \in Int /\ (IsZeroInt(Representation(k)) <=> k = 0)
    BY <1>0, RepresentationFacts
  <2>2. CASE k = 0
    <3>1. Faults("E0200")
      BY <1>7, <2>1, <2>2 DEF Divide
    <3>2. Represented' /\ Numbers!Faults("E0200")
      BY <1>0, <3>1, FaultStep
    <3> QED
      BY <2>2, <3>2 DEF Numbers!Next
  <2>3. CASE k # 0
    <3>1. PICK q \in Int, r \in Int :
              /\ Floored(n, k, q, r)
              /\ DivModFloor(acc, Representation(k))
                 = [q |-> Representation(q), r |-> Representation(r)]
      BY <1>1, <2>1, <2>3, DivModFloorExact
    <3>2. PICK d : d = DivModFloor(acc, Representation(k))
      OBVIOUS
    <3>3. Yields(d.q) \/ Yields(d.r)
      BY <1>7, <2>1, <2>3, <3>2 DEF Divide
    <3>4. d.q = Representation(q) /\ d.r = Representation(r)
      BY <3>1, <3>2
    <3>5. q = Numbers!FloorDiv(n, k) /\ r = Numbers!FloorMod(n, k)
      BY <2>1, <2>3, <3>1, FloorFacts, FlooredOnce
    <3>6. CASE Yields(d.q)
      <4>1. Represented' /\ Numbers!Yields(q)
        BY <1>0, <3>4, <3>6, YieldStep
      <4> QED
        BY <1>1, <2>3, <3>5, <4>1 DEF Numbers!Next
    <3>7. CASE Yields(d.r)
      <4>1. Represented' /\ Numbers!Yields(r)
        BY <1>0, <3>4, <3>7, YieldStep
      <4> QED
        BY <1>1, <2>3, <3>5, <4>1 DEF Numbers!Next
    <3> QED
      BY <3>3, <3>6, <3>7
  <2> QED
    BY <2>2, <2>3
<1>8. ASSUME NEW e \in Exponents, Power(e)
      PROVE  Represented' /\ Numbers!Next
  <2>1. e \in Int /\ Cmp(Representation(e), Small(0)) = CmpInt(e, 0)
    BY <1>0, CmpExact, ZeroIsWord
  <2>2. CmpInt(e, 0) < 0 <=> e < 0
    BY <2>1 DEF CmpInt
  <2>3. CASE e < 0
    <3>1. Faults("E0201")
      BY <1>8, <2>1, <2>2, <2>3 DEF Power
    <3>2. Represented' /\ Numbers!Faults("E0201")
      BY <1>0, <3>1, FaultStep
    <3> QED
      BY <2>3, <3>2 DEF Numbers!Next
  <2>4. CASE ~(e < 0)
    <3>1. e \in Nat
      BY <2>1, <2>4
    <3>2. PICK m \in Int : m = PowInt(n, e) /\ m = Numbers!PowInt(n, e)
      BY <3>1, ExploredSame
    <3>3. ExploredPow(n, e) /\ Yields(Representation(m))
      BY <1>1, <1>8, <2>1, <2>2, <2>4, <3>1, <3>2, PowExact DEF Power
    <3>4. Represented' /\ Numbers!Yields(m) /\ Numbers!ExploredPow(n, e)
      BY <1>0, <3>1, <3>3, YieldStep, ExploredSame
    <3> QED
      BY <1>1, <2>4, <3>2, <3>4 DEF Numbers!Next
  <2> QED
    BY <2>3, <2>4
<1>9. ASSUME Negative
      PROVE  Represented' /\ Numbers!Next
  <2>1. PICK m \in Int : m = -n
    OBVIOUS
  <2>2. Yields(Representation(m))
    BY <1>1, <1>9, <2>1, NegateExact DEF Negative
  <2>3. Represented' /\ Numbers!Yields(m)
    BY <1>0, <2>2, YieldStep
  <2> QED
    BY <1>1, <2>1, <2>3 DEF Numbers!Next
<1> QED
  BY <1>2, <1>3, <1>4, <1>5, <1>6, <1>7, <1>8, <1>9 DEF Next

-----------------------------------------------------------------------------
(* The properties of the runs, for limbs of every width.                     *)

\* The invariant holds of the initial states.
LEMMA InitRepresented == Init => Represented
<1> SUFFICES ASSUME Init PROVE Represented
  OBVIOUS
<1>1. Operands \subseteq Int
  BY OperandsAssumption
<1> QED
  BY <1>1 DEF Init, Represented

\* A step of the program, or none, keeps the invariant.
LEMMA StepRepresented == Represented /\ [Next]_vars => Represented'
<1> SUFFICES ASSUME Represented, [Next]_vars PROVE Represented'
  OBVIOUS
<1>1. CASE Next
  BY <1>1, NextStep
<1>2. CASE UNCHANGED vars
  BY <1>2 DEF vars, Represented
<1> QED
  BY <1>1, <1>2

\* The register always holds the one representation of an integer.
LEMMA AlwaysRepresented == Spec => []Represented
<1> QED
  BY InitRepresented, StepRepresented, PTL DEF Spec

\* The register is a word, or a sign and limbs.
THEOREM TypeCorrect == Spec => []TypeOK
<1>1. Represented => TypeOK
  <2> SUFFICES ASSUME Represented PROVE TypeOK
    OBVIOUS
  <2>1. PICK n \in Int : acc = Representation(n)
    BY DEF Represented
  <2>2. CASE n \in Word
    BY <2>1, <2>2, RepresentationFacts DEF TypeOK, Represented
  <2>3. CASE n \notin Word
    <3>1. ~IsSmall(acc) /\ acc[2] = FromI64(n)
      BY <2>1, <2>3, RepresentationFacts
    <3>2. acc[2].sign \in BOOLEAN /\ acc[2].limbs \in Seq(Limb)
      BY <3>1, FromI64Facts, BigFacts
    <3> QED
      BY <3>1, <3>2 DEF TypeOK, Represented
  <2> QED
    BY <2>2, <2>3
<1> QED
  BY <1>1, AlwaysRepresented, PTL

\* Whatever operators made it, an integer has exactly one representation: a
\* Large fits no word, has no leading zero limb, and zero has no sign.
THEOREM RepresentedOnce == Spec => []OneRepresentation
<1>1. Represented => OneRepresentation
  BY RepresentationFacts DEF Represented, OneRepresentation
<1> QED
  BY <1>1, AlwaysRepresented, PTL

\* cmp orders, and eq identifies, integers of either form as numbers.
THEOREM OrderCorrect == Spec => []OrderedAsNumbers
<1>1. Represented => OrderedAsNumbers
  <2> SUFFICES ASSUME Represented PROVE OrderedAsNumbers
    OBVIOUS
  <2>1. PICK n \in Int : acc = Representation(n) /\ ValueOf(acc) = n
    BY RepresentationFacts DEF Represented
  <2>2. Operands \subseteq Int
    BY OperandsAssumption
  <2> QED
    BY <2>1, <2>2, CmpExact, EqualExact DEF OrderedAsNumbers
<1> QED
  BY <1>1, AlwaysRepresented, PTL

\* An integer that is printed and read again is the same integer.
THEOREM PrintingCorrect == Spec => []ReadsBack
<1>1. Represented => ReadsBack
  <2> SUFFICES ASSUME Represented PROVE ReadsBack
    OBVIOUS
  <2>1. PICK n \in Int : acc = Representation(n)
    BY DEF Represented
  <2>2. PICK shown : shown = Show(Big(acc))
    OBVIOUS
  <2>3. Norm(Parse(shown.neg, shown.digits)) = acc
    BY <2>1, <2>2, PrintedReadsBack
  <2> QED
    BY <2>2, <2>3, Zenon DEF ReadsBack
<1> QED
  BY <1>1, AlwaysRepresented, PTL

\* Each operator gives the integer it should, whatever integers it is given.
THEOREM ArithmeticCorrect == Spec => []Exact
<1>1. Represented => Exact
  <2> SUFFICES ASSUME Represented PROVE Exact
    OBVIOUS
  <2>1. PICK n \in Int : acc = Representation(n) /\ ValueOf(acc) = n
    BY RepresentationFacts DEF Represented
  <2>2. Operands \subseteq Int /\ Exponents \subseteq Int
    BY OperandsAssumption
  <2>3. \A m \in Int : ValueOf(Representation(m)) = m
    BY RepresentationFacts
  <2>4. ASSUME NEW k \in Operands
        PROVE  /\ ValueOf(Add(acc, Representation(k))) = n + k
               /\ ValueOf(Sub(acc, Representation(k))) = n - k
               /\ ValueOf(Mul(acc, Representation(k))) = n * k
    <3>1. k \in Int /\ n + k \in Int /\ n - k \in Int /\ n * k \in Int
      BY <2>2
    <3>2. ValueOf(Add(acc, Representation(k))) = n + k
      BY <2>1, <2>3, <3>1, AddExact
    <3>3. ValueOf(Sub(acc, Representation(k))) = n - k
      BY <2>1, <2>3, <3>1, SubExact
    <3>4. ValueOf(Mul(acc, Representation(k))) = n * k
      BY <2>1, <2>3, <3>1, MulExact
    <3> QED
      BY <3>2, <3>3, <3>4
  <2>5. ASSUME NEW k \in Operands, k # 0, NEW d, d = DivModFloor(acc, Representation(k))
        PROVE  /\ ValueOf(d.q) * k + ValueOf(d.r) = n
               /\ ValueOf(d.r) \in IF k > 0 THEN 0..(k - 1) ELSE (k + 1)..0
    <3>1. k \in Int
      BY <2>2
    <3>2. PICK q \in Int, r \in Int :
              Floored(n, k, q, r) /\ d = [q |-> Representation(q), r |-> Representation(r)]
      BY <2>1, <2>5, <3>1, DivModFloorExact
    <3>3. ValueOf(d.q) = q /\ ValueOf(d.r) = r
      BY <2>3, <3>2
    <3>4. n = q * k + r /\ r \in IF k > 0 THEN 0..(k - 1) ELSE (k + 1)..0
      BY <3>1, <3>2 DEF Floored
    <3> QED
      BY <3>3, <3>4
  <2>6. ASSUME NEW e \in Exponents, e >= 0
        PROVE  ValueOf(Pow(acc, Representation(e))) = PowInt(n, e)
    <3>1. e \in Nat
      BY <2>2, <2>6
    <3> QED
      BY <2>1, <2>3, <3>1, PowExact, PowType
  <2>7. ValueOf(Negate(acc)) = -n
    BY <2>1, <2>3, NegateExact
  <2> QED
    BY <2>1, <2>4, <2>5, <2>6, <2>7, Zenon DEF Exact
<1> QED
  BY <1>1, AlwaysRepresented, PTL

\* A program on words and limbs is a program on the mathematical integers: the
\* initial state is one of HehIntegers, and each step a step of it or none.
THEOREM ComputesIntegers == Spec => ComputesNumbers
<1>1. Init => Numbers!Init
  <2> SUFFICES ASSUME Init PROVE Numbers!Init
    OBVIOUS
  <2>1. PICK k \in Operands : acc = Representation(k)
    BY DEF Init
  <2>2. ValueOf(acc) = k
    BY <2>1, OperandsAssumption, RepresentationFacts
  <2> QED
    BY <2>2 DEF Init, Numbers!Init
<1>2. Represented /\ [Next]_vars => [Numbers!Next]_<<ValueOf(acc), fault>>
  <2> SUFFICES ASSUME Represented, [Next]_vars
               PROVE  Numbers!Next \/ UNCHANGED <<ValueOf(acc), fault>>
    OBVIOUS
  <2>1. CASE Next
    BY <2>1, NextStep
  <2>2. CASE UNCHANGED vars
    BY <2>2 DEF vars
  <2> QED
    BY <2>1, <2>2
<1> QED
  BY <1>1, <1>2, AlwaysRepresented, PTL DEF Spec, ComputesNumbers, Numbers!Spec
=============================================================================
