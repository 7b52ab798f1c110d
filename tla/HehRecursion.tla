---------------------------- MODULE HehRecursion ----------------------------
(***************************************************************************)
(* What a fold computes, by induction over the number of its rounds.  The  *)
(* loops over the limbs of a number in HehBigNum are folds; Op is the body *)
(* of such a loop, and a module of its own for each body is an instance of *)
(* this one.  Run(p, base, seq)[n] is the result after n rounds.           *)
(***************************************************************************)
EXTENDS Integers, TLAPS

\* Op(p, r, d) is the result of a round, from the result r so far and the element d;
\* p is what does not change from one round to the next.
CONSTANT Op(_, _, _)

-----------------------------------------------------------------------------
(* Induction.                                                                *)

\* The lemmas of this module rest on it; the module that has instances of this
\* one proves it once (from WellFoundedInduction) instead of in each instance.
Induction ==
    \A S : 0 \in S /\ (\A i \in Nat : i \in S => i + 1 \in S) => \A i \in Nat : i \in S

\* A set of natural numbers that holds 0, and with a number the next, holds them all.
LEMMA AllNat ==
    ASSUME Induction, NEW S, 0 \in S, \A i \in Nat : i \in S => i + 1 \in S
    PROVE  \A i \in Nat : i \in S
  BY DEF Induction

\* A set of natural numbers that is not empty has a least element.
LEMMA LeastNat ==
    ASSUME Induction, NEW T \in SUBSET Nat, T # {}
    PROVE  \E n \in T : \A m \in T : n <= m
<1> DEFINE S == {k \in Nat : \A m \in T : k <= m}
<1>1. SUFFICES ASSUME \A n \in T : \E m \in T : ~(n <= m)
               PROVE  FALSE
  OBVIOUS
<1>2. 0 \in S
  OBVIOUS
<1>3. ASSUME NEW k \in Nat, k \in S
      PROVE  k + 1 \in S
  <2>1. k \notin T
    BY <1>1, <1>3
  <2>2. ASSUME NEW m \in T PROVE k + 1 <= m
    <3>1. k <= m /\ k # m /\ m \in Nat
      BY <1>3, <2>1
    <3> QED
      BY <3>1
  <2> QED
    BY <2>2
<1>4. \A k \in Nat : k \in S
  <2> HIDE DEF S
  <2> QED
    BY <1>2, <1>3, AllNat
<1>5. PICK m \in T : m \in Nat
  OBVIOUS
<1>6. m + 1 \in S
  BY <1>4, <1>5
<1>7. m + 1 <= m
  BY <1>6
<1> QED
  BY <1>5, <1>7

-----------------------------------------------------------------------------
(* The results of the rounds.                                                *)

Results(acc, p, base, seq, n) ==
    /\ acc = [i \in 0..n |-> acc[i]]
    /\ acc[0] = base
    /\ \A i \in 1..n : acc[i] = Op(p, acc[i - 1], seq[i])

Run(p, base, seq) == [n \in Nat |-> (CHOOSE acc : Results(acc, p, base, seq, n))[n]]

\* After any number of rounds there are results.
LEMMA ResultsExist ==
    ASSUME Induction, NEW p, NEW base, NEW seq, NEW n \in Nat
    PROVE  \E acc : Results(acc, p, base, seq, n)
<1> DEFINE S == {k \in Nat : \E acc : Results(acc, p, base, seq, k)}
<1>1. 0 \in S
  <2>1. PICK acc : acc = [i \in 0..0 |-> base]
    OBVIOUS
  <2>2. Results(acc, p, base, seq, 0)
    BY <2>1 DEF Results
  <2> QED
    BY <2>2
<1>2. ASSUME NEW k \in Nat, k \in S
      PROVE  k + 1 \in S
  <2>1. PICK acc : Results(acc, p, base, seq, k)
    BY <1>2
  <2>2. PICK j \in Nat : j = k + 1
    OBVIOUS
  <2>3. PICK next : next = [i \in 0..j |-> IF i = j THEN Op(p, acc[k], seq[j]) ELSE acc[i]]
    OBVIOUS
  <2>4. ASSUME NEW i \in 1..j
        PROVE  next[i] = Op(p, next[i - 1], seq[i])
    <3>1. CASE i = j
      <4>1. j \in 0..j /\ j - 1 = k /\ k \in 0..j /\ k # j
        BY <2>2
      <4> QED
        BY <2>3, <3>1, <4>1
    <3>2. CASE i # j
      <4>1. i \in 1..k /\ i \in 0..j /\ i - 1 \in 0..j /\ i - 1 # j
        BY <2>2, <3>2
      <4> QED
        BY <2>1, <2>3, <3>2, <4>1 DEF Results
    <3> QED
      BY <3>1, <3>2
  <2>5. next[0] = base
    <3>1. 0 \in 0..j /\ 0 # j
      BY <2>2
    <3> QED
      BY <2>1, <2>3, <3>1 DEF Results
  <2>6. next = [i \in 0..j |-> next[i]]
    BY <2>3
  <2>7. Results(next, p, base, seq, j)
    BY <2>4, <2>5, <2>6 DEF Results
  <2> QED
    BY <2>2, <2>7
<1> HIDE DEF S
<1>3. n \in S
  BY <1>1, <1>2, AllNat
<1> QED
  BY <1>3 DEF S

\* They are determined.
LEMMA ResultsAgree ==
    ASSUME Induction, NEW p, NEW base, NEW seq, NEW n \in Nat, NEW m \in Nat, n <= m, NEW acc, NEW bcc,
           Results(acc, p, base, seq, n), Results(bcc, p, base, seq, m)
    PROVE  \A i \in 0..n : acc[i] = bcc[i]
<1> DEFINE S == {i \in Nat : i <= n => acc[i] = bcc[i]}
<1>1. 0 \in S
  BY DEF Results
<1>2. ASSUME NEW i \in Nat, i \in S
      PROVE  i + 1 \in S
  <2>1. SUFFICES ASSUME i + 1 <= n
                 PROVE  acc[i + 1] = bcc[i + 1]
    OBVIOUS
  <2>2. PICK j \in Nat : j = i + 1
    OBVIOUS
  <2>3. j \in 1..n /\ j \in 1..m /\ j - 1 = i /\ acc[i] = bcc[i]
    BY <1>2, <2>1, <2>2
  <2> QED
    BY <2>2, <2>3 DEF Results
<1> HIDE DEF S
<1>3. \A i \in Nat : i \in S
  BY <1>1, <1>2, AllNat
<1> QED
  BY <1>3 DEF S

\* The result after one round more.
LEMMA RunStep ==
    ASSUME Induction, NEW p, NEW base, NEW seq
    PROVE  /\ DOMAIN Run(p, base, seq) = Nat
           /\ Run(p, base, seq)[0] = base
           /\ \A n \in Nat :
                 Run(p, base, seq)[n + 1] = Op(p, Run(p, base, seq)[n], seq[n + 1])
<1> DEFINE Acc(n) == CHOOSE acc : Results(acc, p, base, seq, n)
<1>1. \A n \in Nat : Results(Acc(n), p, base, seq, n)
  BY ResultsExist
<1>2. DOMAIN Run(p, base, seq) = Nat /\ \A n \in Nat : Run(p, base, seq)[n] = Acc(n)[n]
  BY DEF Run
<1> HIDE DEF Acc
<1>3. Run(p, base, seq)[0] = base
  <2>1. Results(Acc(0), p, base, seq, 0)
    BY <1>1
  <2> QED
    BY <1>2, <2>1 DEF Results
<1>4. ASSUME NEW n \in Nat
      PROVE  Run(p, base, seq)[n + 1] = Op(p, Run(p, base, seq)[n], seq[n + 1])
  <2>1. PICK m \in Nat : m = n + 1
    OBVIOUS
  <2>2. Results(Acc(n), p, base, seq, n) /\ Results(Acc(m), p, base, seq, m)
    BY <1>1
  <2>3. n <= m /\ n \in 0..n /\ m \in 1..m /\ m - 1 = n
    BY <2>1
  <2>4. Acc(n)[n] = Acc(m)[n]
    BY <2>2, <2>3, ResultsAgree
  <2>5. Acc(m)[m] = Op(p, Acc(m)[n], seq[m])
    BY <2>2, <2>3 DEF Results
  <2> QED
    BY <1>2, <2>1, <2>4, <2>5
<1> QED
  BY <1>2, <1>3, <1>4

-----------------------------------------------------------------------------
(* The folds of the community modules.  Their definition takes the elements  *)
(* of a set of places away one by one, the last place first or the first.    *)

Top(s) == CHOOSE x \in s : \A y \in s : x >= y
Bottom(s) == CHOOSE x \in s : \A y \in s : x <= y

FoldL(p, base, seq, D) ==
    LET iter[s \in SUBSET D] ==
            IF s = {} THEN base ELSE Op(p, iter[s \ {Top(s)}], seq[Top(s)])
    IN  iter[D]

FoldR(p, base, seq, D) ==
    LET iter[s \in SUBSET D] ==
            IF s = {} THEN base ELSE Op(p, iter[s \ {Bottom(s)}], seq[Bottom(s)])
    IN  iter[D]

\* The definition of a fold as an equation of the function it chooses: from the
\* left over the first n places, and from the right over those from m on.
LeftEqn(iter, p, base, seq, n) ==
    iter = [s \in SUBSET (1..n) |->
                IF s = {} THEN base ELSE Op(p, iter[s \ {Top(s)}], seq[Top(s)])]

RightEqn(iter, p, base, seq, m, n) ==
    iter = [s \in SUBSET (m..n) |->
                IF s = {} THEN base ELSE Op(p, iter[s \ {Bottom(s)}], seq[Bottom(s)])]

\* What the two choose is the largest number, and the smallest.
LEMMA Ends ==
    ASSUME NEW s \in SUBSET Nat, NEW k \in s
    PROVE  /\ (\A i \in s : i <= k) => Top(s) = k
           /\ (\A i \in s : k <= i) => Bottom(s) = k
<1>1. ASSUME \A i \in s : i <= k
      PROVE  Top(s) = k
  <2>1. \A x \in s : (\A y \in s : x >= y) => x = k
    BY <1>1
  <2>2. \A y \in s : k >= y
    BY <1>1
  <2> QED
    BY <2>1, <2>2 DEF Top
<1>2. ASSUME \A i \in s : k <= i
      PROVE  Bottom(s) = k
  <2>1. \A x \in s : (\A y \in s : x <= y) => x = k
    BY <1>2
  <2>2. \A y \in s : k <= y
    BY <1>2
  <2> QED
    BY <2>1, <2>2 DEF Bottom
<1> QED
  BY <1>1, <1>2

\* A set of natural numbers up to n that is not empty has a least and a largest one.
LEMMA EndsExist ==
    ASSUME Induction, NEW n \in Nat, NEW s \in SUBSET (1..n), s # {}
    PROVE  /\ Top(s) \in s /\ \A i \in s : i <= Top(s)
           /\ Bottom(s) \in s /\ \A i \in s : Bottom(s) <= i
<1>1. s \in SUBSET Nat
  OBVIOUS
<1>2. PICK k \in s : \A i \in s : k <= i
  BY <1>1, LeastNat
<1> DEFINE T == {n - i : i \in s}
<1>3. T \in SUBSET Nat /\ T # {}
  <2>1. \A i \in s : n - i \in Nat
    OBVIOUS
  <2> QED
    BY <2>1
<1>4. PICK t \in T : \A i \in T : t <= i
  <2> HIDE DEF T
  <2> QED
    BY <1>3, LeastNat
<1>5. PICK l \in s : t = n - l
  OBVIOUS
<1>6. ASSUME NEW i \in s
      PROVE  i <= l
  <2>1. n - i \in T
    OBVIOUS
  <2>2. n - l <= n - i
    BY <1>4, <1>5, <2>1
  <2>3. i \in Nat /\ l \in Nat
    OBVIOUS
  <2> QED
    BY <2>2, <2>3
<1> QED
  BY <1>1, <1>2, <1>6, Ends

\* There is such a function.
LEMMA LeftSolved ==
    ASSUME Induction, NEW p, NEW base, NEW seq, NEW n \in Nat
    PROVE  \E iter : LeftEqn(iter, p, base, seq, n)
<1> DEFINE S == {k \in Nat : \E iter : LeftEqn(iter, p, base, seq, k)}
<1>1. 0 \in S
  <2>1. PICK g : g = [s \in SUBSET (1..0) |-> base]
    OBVIOUS
  <2>2. \A s \in SUBSET (1..0) : s = {}
    OBVIOUS
  <2>3. LeftEqn(g, p, base, seq, 0)
    BY <2>1, <2>2 DEF LeftEqn
  <2> QED
    BY <2>3
<1>2. ASSUME NEW j \in Nat, j \in S
      PROVE  j + 1 \in S
  <2>1. PICK g : LeftEqn(g, p, base, seq, j)
    BY <1>2
  <2>2. PICK k \in Nat : k = j + 1
    OBVIOUS
  <2>3. PICK h : h = [s \in SUBSET (1..k) |->
                        IF k \in s THEN Op(p, g[s \ {k}], seq[k]) ELSE g[s]]
    OBVIOUS
  <2>4. ASSUME NEW s \in SUBSET (1..k)
        PROVE  h[s] = IF s = {} THEN base ELSE Op(p, h[s \ {Top(s)}], seq[Top(s)])
    <3>1. CASE k \in s
      <4>1. Top(s) = k
        <5>1. s \in SUBSET Nat /\ \A i \in s : i <= k
          BY <2>2
        <5> QED
          BY <3>1, <5>1, Ends
      <4>2. s \ {k} \in SUBSET (1..k) /\ k \notin s \ {k}
        OBVIOUS
      <4>3. h[s \ {k}] = g[s \ {k}]
        BY <2>3, <4>2
      <4>4. h[s] = Op(p, g[s \ {k}], seq[k])
        BY <2>3, <3>1
      <4> QED
        BY <3>1, <4>1, <4>3, <4>4
    <3>2. CASE k \notin s
      <4>1. s \in SUBSET (1..j)
        BY <2>2, <3>2
      <4>2. s \ {Top(s)} \in SUBSET (1..k) /\ k \notin s \ {Top(s)}
        BY <3>2
      <4>3. g[s] = IF s = {} THEN base ELSE Op(p, g[s \ {Top(s)}], seq[Top(s)])
        BY <2>1, <4>1 DEF LeftEqn
      <4>4. h[s] = g[s] /\ h[s \ {Top(s)}] = g[s \ {Top(s)}]
        BY <2>3, <3>2, <4>1, <4>2
      <4> QED
        BY <4>3, <4>4
    <3> QED
      BY <3>1, <3>2
  <2>5. LeftEqn(h, p, base, seq, k)
    <3>1. h = [s \in SUBSET (1..k) |-> h[s]]
      BY <2>3
    <3> QED
      BY <2>4, <3>1 DEF LeftEqn
  <2> QED
    BY <2>2, <2>5
<1> HIDE DEF S
<1>3. n \in S
  BY <1>1, <1>2, AllNat
<1> QED
  BY <1>3 DEF S

\* A fold from the left is a round per place, the first place first.
LEMMA LeftIsRun ==
    ASSUME Induction, NEW p, NEW base, NEW seq, NEW n \in Nat
    PROVE  FoldL(p, base, seq, 1..n) = Run(p, base, seq)[n]
<1> DEFINE iter == CHOOSE g : LeftEqn(g, p, base, seq, n)
<1>1. LeftEqn(iter, p, base, seq, n)
  BY LeftSolved
<1>2. FoldL(p, base, seq, 1..n) = iter[1..n]
  BY DEF FoldL, LeftEqn
<1> HIDE DEF iter
<1> DEFINE S == {k \in Nat : k <= n => iter[1..k] = Run(p, base, seq)[k]}
<1>3. 0 \in S
  <2>1. 1..0 = {} /\ {} \in SUBSET (1..n)
    OBVIOUS
  <2>2. iter[{}] = base
    BY <1>1, <2>1 DEF LeftEqn
  <2> QED
    BY <2>1, <2>2, RunStep
<1>4. ASSUME NEW j \in Nat, j \in S
      PROVE  j + 1 \in S
  <2>1. PICK k \in Nat : k = j + 1
    OBVIOUS
  <2>2. SUFFICES ASSUME k <= n
                 PROVE  iter[1..k] = Run(p, base, seq)[k]
    BY <2>1
  <2>3. 1..k \in SUBSET (1..n) /\ 1..k # {} /\ k \in 1..k /\ \A m \in 1..k : m <= k
    BY <2>1, <2>2
  <2>4. Top(1..k) = k
    BY <2>3, Ends
  <2>5. (1..k) \ {k} = 1..j
    BY <2>1
  <2>6. iter[1..k] = Op(p, iter[1..j], seq[k])
    BY <1>1, <2>3, <2>4, <2>5 DEF LeftEqn
  <2>7. iter[1..j] = Run(p, base, seq)[j]
    BY <1>4, <2>1, <2>2
  <2> QED
    BY <2>1, <2>6, <2>7, RunStep
<1> HIDE DEF S
<1>5. n \in S
  BY <1>3, <1>4, AllNat
<1> QED
  BY <1>2, <1>5 DEF S

\* There is such a function for a fold from the right, too.
LEMMA RightSolved ==
    ASSUME Induction, NEW p, NEW base, NEW seq, NEW n \in Nat, NEW k \in Nat, k <= n
    PROVE  \E iter : RightEqn(iter, p, base, seq, n + 1 - k, n)
<1> DEFINE S == {i \in Nat : i <= n => \E iter : RightEqn(iter, p, base, seq, n + 1 - i, n)}
<1>1. 0 \in S
  <2>1. PICK m \in Nat : m = n + 1 - 0
    OBVIOUS
  <2>2. PICK g : g = [s \in SUBSET (m..n) |-> base]
    OBVIOUS
  <2>3. \A s \in SUBSET (m..n) : s = {}
    BY <2>1
  <2>4. RightEqn(g, p, base, seq, m, n)
    BY <2>2, <2>3 DEF RightEqn
  <2> QED
    BY <2>1, <2>4
<1>2. ASSUME NEW j \in Nat, j \in S
      PROVE  j + 1 \in S
  <2>1. SUFFICES ASSUME j + 1 <= n
                 PROVE  \E iter : RightEqn(iter, p, base, seq, n + 1 - (j + 1), n)
    BY <1>2
  <2>2. PICK lo \in Nat, hi \in Nat : lo = n + 1 - (j + 1) /\ hi = n + 1 - j /\ hi = lo + 1
    <3>1. n + 1 - (j + 1) \in Nat /\ n + 1 - j \in Nat /\ n + 1 - j = (n + 1 - (j + 1)) + 1
      BY <2>1
    <3> QED
      BY <3>1
  <2>3. PICK g : RightEqn(g, p, base, seq, hi, n)
    BY <1>2, <2>1, <2>2
  <2>4. PICK h : h = [s \in SUBSET (lo..n) |->
                        IF lo \in s THEN Op(p, g[s \ {lo}], seq[lo]) ELSE g[s]]
    OBVIOUS
  <2>5. ASSUME NEW s \in SUBSET (lo..n)
        PROVE  h[s] = IF s = {} THEN base ELSE Op(p, h[s \ {Bottom(s)}], seq[Bottom(s)])
    <3>1. CASE lo \in s
      <4>1. Bottom(s) = lo
        <5>1. s \in SUBSET Nat /\ \A i \in s : lo <= i
          BY <2>2
        <5> QED
          BY <3>1, <5>1, Ends
      <4>2. s \ {lo} \in SUBSET (lo..n) /\ lo \notin s \ {lo}
        OBVIOUS
      <4>3. h[s \ {lo}] = g[s \ {lo}]
        BY <2>4, <4>2
      <4>4. h[s] = Op(p, g[s \ {lo}], seq[lo])
        BY <2>4, <3>1
      <4> QED
        BY <3>1, <4>1, <4>3, <4>4
    <3>2. CASE lo \notin s
      <4>1. s \in SUBSET (hi..n)
        BY <2>2, <3>2
      <4>2. s \ {Bottom(s)} \in SUBSET (lo..n) /\ lo \notin s \ {Bottom(s)}
        BY <3>2
      <4>3. g[s] = IF s = {} THEN base ELSE Op(p, g[s \ {Bottom(s)}], seq[Bottom(s)])
        BY <2>3, <4>1 DEF RightEqn
      <4>4. h[s] = g[s] /\ h[s \ {Bottom(s)}] = g[s \ {Bottom(s)}]
        BY <2>4, <3>2, <4>1, <4>2
      <4> QED
        BY <4>3, <4>4
    <3> QED
      BY <3>1, <3>2
  <2>6. RightEqn(h, p, base, seq, lo, n)
    <3>1. h = [s \in SUBSET (lo..n) |-> h[s]]
      BY <2>4
    <3> QED
      BY <2>5, <3>1 DEF RightEqn
  <2> QED
    BY <2>2, <2>6
<1> HIDE DEF S
<1>3. k \in S
  BY <1>1, <1>2, AllNat
<1> QED
  BY <1>3 DEF S

\* A fold from the right is a round per place, the last place first.
LEMMA RightIsRun ==
    ASSUME Induction, NEW p, NEW base, NEW seq, NEW n \in Nat
    PROVE  FoldR(p, base, seq, 1..n) = Run(p, base, [i \in Nat |-> seq[n + 1 - i]])[n]
<1> DEFINE iter == CHOOSE g : RightEqn(g, p, base, seq, 1, n)
           back == [i \in Nat |-> seq[n + 1 - i]]
<1>1. RightEqn(iter, p, base, seq, 1, n)
  <2>1. n + 1 - n = 1 /\ n <= n
    OBVIOUS
  <2>2. \E g : RightEqn(g, p, base, seq, n + 1 - n, n)
    BY <2>1, RightSolved
  <2>3. \E g : RightEqn(g, p, base, seq, 1, n)
    BY <2>1, <2>2
  <2> QED
    BY <2>3
<1>2. FoldR(p, base, seq, 1..n) = iter[1..n]
  BY DEF FoldR, RightEqn
<1>3. \A i \in Nat : back[i] = seq[n + 1 - i]
  OBVIOUS
<1> HIDE DEF iter, back
<1> DEFINE S == {k \in Nat : k <= n => iter[(n + 1 - k)..n] = Run(p, base, back)[k]}
<1>4. 0 \in S
  <2>1. (n + 1 - 0)..n = {} /\ {} \in SUBSET (1..n)
    OBVIOUS
  <2>2. iter[{}] = base
    BY <1>1, <2>1 DEF RightEqn
  <2> QED
    BY <2>1, <2>2, RunStep
<1>5. ASSUME NEW j \in Nat, j \in S
      PROVE  j + 1 \in S
  <2>1. SUFFICES ASSUME j + 1 <= n
                 PROVE  iter[(n + 1 - (j + 1))..n] = Run(p, base, back)[j + 1]
    BY <1>5
  <2>2. PICK lo \in Nat : lo = n + 1 - (j + 1)
    <3>1. n + 1 - (j + 1) \in Nat
      BY <2>1
    <3> QED
      BY <3>1
  <2>3. /\ lo..n \in SUBSET (1..n) /\ lo..n # {} /\ lo \in lo..n
        /\ lo..n \in SUBSET Nat /\ \A m \in lo..n : lo <= m
    BY <2>1, <2>2
  <2>4. Bottom(lo..n) = lo
    BY <2>3, Ends
  <2>5. (lo..n) \ {lo} = (n + 1 - j)..n
    BY <2>1, <2>2
  <2>6. iter[lo..n] = Op(p, iter[(n + 1 - j)..n], seq[lo])
    BY <1>1, <2>3, <2>4, <2>5 DEF RightEqn
  <2>7. iter[(n + 1 - j)..n] = Run(p, base, back)[j]
    BY <1>5, <2>1
  <2>8. back[j + 1] = seq[lo]
    BY <1>3, <2>2
  <2> QED
    BY <2>2, <2>6, <2>7, <2>8, RunStep
<1> HIDE DEF S
<1>6. n \in S
  BY <1>4, <1>5, AllNat
<1>7. (n + 1 - n)..n = 1..n
  OBVIOUS
<1> QED
  BY <1>2, <1>6, <1>7 DEF S, back

\* R has the results of the rounds from the left, and from the right of n places.
LeftRounds(R, p, base, seq) ==
    R[0] = base /\ \A k \in Nat : R[k + 1] = Op(p, R[k], seq[k + 1])

RightRounds(R, p, base, seq, n) ==
    R[0] = base /\ \A k \in Nat : R[k + 1] = Op(p, R[k], seq[n - k])

\* A fold is the result of the last round.
LEMMA LeftFold ==
    ASSUME Induction, NEW p, NEW base, NEW seq, NEW n \in Nat
    PROVE  \E R : LeftRounds(R, p, base, seq) /\ FoldL(p, base, seq, 1..n) = R[n]
<1> DEFINE R == Run(p, base, seq)
<1>1. LeftRounds(R, p, base, seq)
  BY RunStep DEF LeftRounds
<1>2. FoldL(p, base, seq, 1..n) = R[n]
  BY LeftIsRun
<1> HIDE DEF R
<1> QED
  BY <1>1, <1>2

\* And from the right.
LEMMA RightFold ==
    ASSUME Induction, NEW p, NEW base, NEW seq, NEW n \in Nat
    PROVE  \E R : RightRounds(R, p, base, seq, n) /\ FoldR(p, base, seq, 1..n) = R[n]
<1> DEFINE back == [i \in Nat |-> seq[n + 1 - i]]
           R == Run(p, base, back)
<1>1. RightRounds(R, p, base, seq, n)
  <2>1. \A k \in Nat : back[k + 1] = seq[n - k]
    <3>1. \A k \in Nat : k + 1 \in Nat /\ n + 1 - (k + 1) = n - k
      OBVIOUS
    <3> QED
      BY <3>1
  <2> HIDE DEF back
  <2>2. R[0] = base /\ \A k \in Nat : R[k + 1] = Op(p, R[k], back[k + 1])
    BY RunStep
  <2> HIDE DEF R
  <2> QED
    BY <2>1, <2>2 DEF RightRounds
<1>2. FoldR(p, base, seq, 1..n) = R[n]
  BY RightIsRun
<1> HIDE DEF R
<1> QED
  BY <1>1, <1>2

-----------------------------------------------------------------------------
(* Recursive functions.  Op(p, f, x) is the value at x of a function on D,   *)
(* from its values f at arguments of a smaller measure m.                    *)

Local(p, D, m) ==
    \A f, g : \A x \in D :
        (\A y \in D : m[y] < m[x] => f[y] = g[y]) => Op(p, f, x) = Op(p, g, x)

\* f is right at the arguments of a measure below n.
Right(f, p, D, m, n) ==
    /\ f = [x \in D |-> f[x]]
    /\ \A x \in D : m[x] < n => f[x] = Op(p, f, x)

\* Two functions that are right below a measure agree there.
LEMMA RightAgree ==
    ASSUME Induction, NEW p, NEW D, NEW m \in [D -> Nat], Local(p, D, m),
           NEW n \in Nat, NEW k \in Nat, n <= k, NEW f, NEW g,
           Right(f, p, D, m, n), Right(g, p, D, m, k)
    PROVE  \A x \in D : m[x] < n => f[x] = g[x]
<1> DEFINE S == {i \in Nat : i <= n => \A x \in D : m[x] < i => f[x] = g[x]}
<1>1. 0 \in S
  <2>1. \A x \in D : ~(m[x] < 0)
    OBVIOUS
  <2> QED
    BY <2>1
<1>2. ASSUME NEW i \in Nat, i \in S
      PROVE  i + 1 \in S
  <2>1. SUFFICES ASSUME i + 1 <= n, NEW x \in D, m[x] < i + 1
                 PROVE  f[x] = g[x]
    OBVIOUS
  <2>2. m[x] \in Nat /\ m[x] < n /\ m[x] < k
    BY <2>1
  <2>3. \A y \in D : m[y] < m[x] => f[y] = g[y]
    <3>1. ASSUME NEW y \in D, m[y] < m[x]
          PROVE  m[y] < i /\ i <= n
      <4>1. m[y] \in Nat
        OBVIOUS
      <4> QED
        BY <2>1, <2>2, <3>1, <4>1
    <3> QED
      BY <1>2, <3>1
  <2>4. Op(p, f, x) = Op(p, g, x)
    BY <2>3 DEF Local
  <2> QED
    BY <2>2, <2>4 DEF Right
<1> HIDE DEF S
<1>3. n \in S
  BY <1>1, <1>2, AllNat
<1> QED
  BY <1>3 DEF S

\* For every measure there is a function that is right below it.
LEMMA RightExists ==
    ASSUME Induction, NEW p, NEW D, NEW m \in [D -> Nat], Local(p, D, m), NEW n \in Nat
    PROVE  \E f : Right(f, p, D, m, n)
<1> DEFINE S == {i \in Nat : \E f : Right(f, p, D, m, i)}
<1>1. 0 \in S
  <2>1. PICK f : f = [x \in D |-> 0]
    OBVIOUS
  <2>2. \A x \in D : ~(m[x] < 0)
    OBVIOUS
  <2>3. f = [x \in D |-> f[x]]
    BY <2>1
  <2>4. Right(f, p, D, m, 0)
    BY <2>2, <2>3 DEF Right
  <2> QED
    BY <2>4
<1>2. ASSUME NEW i \in Nat, i \in S
      PROVE  i + 1 \in S
  <2>1. PICK f : Right(f, p, D, m, i)
    BY <1>2
  <2>2. PICK g : g = [x \in D |-> Op(p, f, x)]
    OBVIOUS
  <2>3. \A x \in D : m[x] < i => g[x] = f[x]
    BY <2>1, <2>2 DEF Right
  <2>4. ASSUME NEW x \in D, m[x] < i + 1
        PROVE  g[x] = Op(p, g, x)
    <3>1. \A y \in D : m[y] < m[x] => g[y] = f[y]
      <4>1. ASSUME NEW y \in D, m[y] < m[x]
            PROVE  m[y] < i
        <5>1. m[y] \in Nat /\ m[x] \in Nat
          OBVIOUS
        <5> QED
          BY <2>4, <4>1, <5>1
      <4> QED
        BY <2>3, <4>1
    <3>2. Op(p, g, x) = Op(p, f, x)
      BY <3>1 DEF Local
    <3> QED
      BY <2>2, <3>2
  <2>5. g = [x \in D |-> g[x]]
    BY <2>2
  <2>6. Right(g, p, D, m, i + 1)
    BY <2>4, <2>5 DEF Right
  <2> QED
    BY <2>6
<1> HIDE DEF S
<1>3. n \in S
  BY <1>1, <1>2, AllNat
<1> QED
  BY <1>3 DEF S

\* The equation of a recursive function has a solution.
LEMMA Solution ==
    ASSUME Induction, NEW p, NEW D, NEW m \in [D -> Nat], Local(p, D, m)
    PROVE  \E f : f = [x \in D |-> Op(p, f, x)]
<1> DEFINE Approx(n) == CHOOSE f : Right(f, p, D, m, n)
<1>1. \A n \in Nat : Right(Approx(n), p, D, m, n)
  BY RightExists
<1> HIDE DEF Approx
<1>2. PICK f : f = [x \in D |-> Approx(m[x] + 1)[x]]
  OBVIOUS
<1>3. ASSUME NEW n \in Nat, NEW x \in D, m[x] < n
      PROVE  f[x] = Approx(n)[x]
  <2>1. PICK k \in Nat : k = m[x] + 1
    OBVIOUS
  <2>2. k <= n /\ m[x] < k
    BY <1>3, <2>1
  <2>3. Right(Approx(k), p, D, m, k) /\ Right(Approx(n), p, D, m, n)
    BY <1>1
  <2>4. Approx(k)[x] = Approx(n)[x]
    BY <2>2, <2>3, RightAgree
  <2> QED
    BY <1>2, <2>1, <2>4
<1>4. ASSUME NEW x \in D
      PROVE  f[x] = Op(p, f, x)
  <2>1. PICK k \in Nat : k = m[x] + 1
    OBVIOUS
  <2>2. m[x] < k /\ \A y \in D : m[y] < m[x] => m[y] < k
    <3>1. \A y \in D : m[y] \in Nat
      OBVIOUS
    <3> QED
      BY <2>1, <3>1
  <2>3. f[x] = Approx(k)[x] /\ \A y \in D : m[y] < m[x] => f[y] = Approx(k)[y]
    BY <1>3, <2>2
  <2>4. Approx(k)[x] = Op(p, Approx(k), x)
    BY <1>1, <2>2 DEF Right
  <2>5. Op(p, f, x) = Op(p, Approx(k), x)
    BY <2>3 DEF Local
  <2> QED
    BY <2>3, <2>4, <2>5
<1>5. f = [x \in D |-> Op(p, f, x)]
  BY <1>2, <1>4
<1> QED
  BY <1>5
=============================================================================
