-------------------------- MODULE HehCompile_proofs -------------------------
(***************************************************************************)
(* The compiler emits verified code for every program.                     *)
(*                                                                         *)
(* Every construct is shown to add, to code with consistent heights, code  *)
(* with consistent heights, that leaves what the construct promises on the *)
(* operand stack, whose pending jumps wait for a height the one who will   *)
(* patch them provides.  The syntax trees are arbitrary, so the proof is   *)
(* by induction over their depth, and for each fold of the compiler over   *)
(* the number of its rounds.                                               *)
(***************************************************************************)
EXTENDS HehCompile, HehOps, SequenceTheorems, WellFoundedInduction, TLAPS

-----------------------------------------------------------------------------
(* Sequences. *)

\* Whatever is a sequence of anything is a sequence.
LEMMA SeqIsSeq ==
    ASSUME NEW S, NEW s \in Seq(S)
    PROVE  IsSeq(s)
<1>1. s \in [1..Len(s) -> {s[i] : i \in DOMAIN s}]
  OBVIOUS
<1> QED
  BY <1>1 DEF IsSeq

\* The length and the domain of a sequence of any values.
LEMMA IsSeqDomain ==
    ASSUME NEW s, IsSeq(s)
    PROVE  /\ Len(s) \in Nat
           /\ DOMAIN s = 1..Len(s)
           /\ s # <<>> <=> Len(s) > 0
<1> DEFINE S == {s[i] : i \in DOMAIN s}
<1>1. s \in Seq(S)
  BY DEF IsSeq
<1> HIDE DEF S
<1> QED
  BY <1>1

\* Appending adds one element and keeps the others (Vec::push).
LEMMA IsSeqAppend ==
    ASSUME NEW s, IsSeq(s), NEW v
    PROVE  /\ IsSeq(Append(s, v))
           /\ Len(Append(s, v)) = Len(s) + 1
           /\ \A i \in 1..Len(s) : Append(s, v)[i] = s[i]
           /\ Append(s, v)[Len(s) + 1] = v
<1> DEFINE S == {s[i] : i \in DOMAIN s}
           T == S \cup {v}
<1>1. s \in Seq(S)
  BY DEF IsSeq
<1> HIDE DEF S
<1>2. s \in Seq(T) /\ v \in T
  BY <1>1, SeqMonotonic
<1> HIDE DEF T
<1>3. Append(s, v) \in Seq(T)
  BY <1>2
<1>4. IsSeq(Append(s, v))
  BY <1>3, SeqIsSeq
<1>5. /\ Len(Append(s, v)) = Len(s) + 1
      /\ \A i \in 1..Len(s) : Append(s, v)[i] = s[i]
      /\ Append(s, v)[Len(s) + 1] = v
  BY <1>2, AppendProperties
<1> QED
  BY <1>4, <1>5

\* The n first elements (Vec::truncate).
LEMMA IsSeqPrefix ==
    ASSUME NEW s, IsSeq(s), NEW n \in 0..Len(s)
    PROVE  /\ IsSeq(SubSeq(s, 1, n))
           /\ Len(SubSeq(s, 1, n)) = n
           /\ \A i \in 1..n : SubSeq(s, 1, n)[i] = s[i]
<1> DEFINE S == {s[i] : i \in DOMAIN s}
<1>1. s \in Seq(S)
  BY DEF IsSeq
<1> HIDE DEF S
<1>2. n \in Nat /\ n <= Len(s)
  BY <1>1
<1>3. \A i \in 1..n : s[i] \in S
  BY <1>1, <1>2
<1>4. SubSeq(s, 1, n) \in Seq(S)
  BY <1>1, <1>2, <1>3
<1>5. IsSeq(SubSeq(s, 1, n))
  BY <1>4, SeqIsSeq
<1>6. /\ Len(SubSeq(s, 1, n)) = n
      /\ \A i \in 1..n : SubSeq(s, 1, n)[i] = s[i]
  BY <1>2, <1>3, SubSeqProperties
<1> QED
  BY <1>5, <1>6

\* Concatenation adds the lengths.
LEMMA IsSeqConcat ==
    ASSUME NEW s, IsSeq(s), NEW t, IsSeq(t)
    PROVE  /\ IsSeq(s \o t)
           /\ Len(s \o t) = Len(s) + Len(t)
           /\ \A i \in 1..Len(s) : (s \o t)[i] = s[i]
           /\ \A i \in 1..Len(t) : (s \o t)[Len(s) + i] = t[i]
<1> DEFINE S == {s[i] : i \in DOMAIN s}
           T == {t[i] : i \in DOMAIN t}
           U == S \cup T
<1>1. s \in Seq(S) /\ t \in Seq(T)
  BY DEF IsSeq
<1> HIDE DEF S, T
<1>2. s \in Seq(U) /\ t \in Seq(U)
  BY <1>1, SeqMonotonic
<1> HIDE DEF U
<1>3. s \o t \in Seq(U)
  BY <1>2
<1>4. IsSeq(s \o t)
  BY <1>3, SeqIsSeq
<1>5. Len(s \o t) = Len(s) + Len(t)
  BY <1>2
<1>6. /\ \A i \in 1..Len(s) : (s \o t)[i] = s[i]
      /\ \A i \in 1..Len(t) : (s \o t)[Len(s) + i] = t[i]
  <2>1. ASSUME NEW i \in 1..Len(t)
        PROVE  (s \o t)[Len(s) + i] = t[i]
    <3>1. Len(s) + i \in 1..Len(s) + Len(t) /\ ~(Len(s) + i <= Len(s)) /\ (Len(s) + i) - Len(s) = i
      BY <1>2
    <3> QED
      BY <1>2, <3>1, ConcatProperties
  <2> QED
    BY <1>2, <2>1, ConcatProperties
<1> QED
  BY <1>4, <1>5, <1>6

\* The n last elements.
LEMMA IsSeqSuffix ==
    ASSUME NEW s, IsSeq(s), NEW n \in 0..Len(s)
    PROVE  /\ IsSeq(SubSeq(s, Len(s) - n + 1, Len(s)))
           /\ Len(SubSeq(s, Len(s) - n + 1, Len(s))) = n
<1> DEFINE S == {s[i] : i \in DOMAIN s}
<1>1. s \in Seq(S)
  BY DEF IsSeq
<1> HIDE DEF S
<1>2. n \in Nat /\ n <= Len(s) /\ Len(s) - n + 1 \in 1..Len(s) + 1
  BY <1>1
<1>3. \A i \in Len(s) - n + 1..Len(s) : s[i] \in S
  BY <1>1, <1>2
<1>4. SubSeq(s, Len(s) - n + 1, Len(s)) \in Seq(S)
  BY <1>1, <1>2, <1>3, SubSeqProperties
<1>5. Len(SubSeq(s, Len(s) - n + 1, Len(s))) = n
  BY <1>1, <1>2, SubSeqProperties
<1>6. IsSeq(SubSeq(s, Len(s) - n + 1, Len(s)))
  BY <1>4, SeqIsSeq
<1> QED
  BY <1>5, <1>6

\* Replacing an element keeps a sequence and its length.
LEMMA IsSeqUpdate ==
    ASSUME NEW s, IsSeq(s), NEW i \in 1..Len(s), NEW v, NEW t,
           t = [s EXCEPT ![i] = v]
    PROVE  /\ IsSeq(t)
           /\ Len(t) = Len(s)
           /\ t[i] = v
           /\ \A j \in 1..Len(s) : j # i => t[j] = s[j]
<1> DEFINE S == {s[j] : j \in DOMAIN s}
           T == S \cup {v}
<1>1. s \in Seq(S)
  BY DEF IsSeq
<1> HIDE DEF S
<1>2. s \in Seq(T) /\ v \in T
  BY <1>1, SeqMonotonic
<1> HIDE DEF T
<1>3. t \in Seq(T)
  BY <1>2
<1>4. IsSeq(t)
  BY <1>3, SeqIsSeq
<1>5. Len(t) = Len(s)
  BY <1>2, <1>3
<1>6. /\ t[i] = v
      /\ \A j \in 1..Len(s) : j # i => t[j] = s[j]
  BY <1>2
<1> QED
  BY <1>4, <1>5, <1>6

-----------------------------------------------------------------------------
(* Induction. *)

\* A set of natural numbers that is not empty has a least element.
LEMMA LeastNat ==
    ASSUME NEW T \in SUBSET Nat, T # {}
    PROVE  \E n \in T : \A m \in T : n <= m
<1> DEFINE R == OpToRel(<, Nat)
<1>1. \E x \in T : \A y \in T : ~ (<<y, x>> \in R)
  <2>1. IsWellFoundedOn(R, Nat)
    BY NatLessThanWellFounded
  <2> HIDE DEF R
  <2> QED
    BY <2>1, WFMin
<1>2. ASSUME NEW y \in Nat, NEW x \in Nat, y < x
      PROVE  <<y, x>> \in R
  BY <1>2 DEF OpToRel
<1> HIDE DEF R
<1>3. PICK x \in T : \A y \in T : ~ (<<y, x>> \in R)
  BY <1>1
<1>4. ASSUME NEW y \in T
      PROVE  x <= y
  <2>1. x \in Nat /\ y \in Nat
    BY <1>3, <1>4
  <2>2. ~(<<y, x>> \in R)
    BY <1>3, <1>4
  <2>3. y < x => <<y, x>> \in R
    BY <2>1, <1>2
  <2> QED
    BY <2>1, <2>2, <2>3
<1> QED
  BY <1>4

\* A set of natural numbers that holds 0, and with a number the next, holds them all.
LEMMA AllNat ==
    ASSUME NEW S, 0 \in S, \A i \in Nat : i \in S => i + 1 \in S
    PROVE  \A i \in Nat : i \in S
<1> DEFINE T == {i \in Nat : i \notin S}
<1>1. SUFFICES ASSUME T # {}
               PROVE  FALSE
  OBVIOUS
<1>2. PICK n \in T : \A m \in T : n <= m
  <2>1. T \in SUBSET Nat
    OBVIOUS
  <2> HIDE DEF T
  <2> QED
    BY <1>1, <2>1, LeastNat
<1>3. n \in Nat /\ n # 0
  OBVIOUS
<1>4. PICK m \in Nat : n = m + 1
  <2>1. n - 1 \in Nat /\ n = (n - 1) + 1
    BY <1>3
  <2> QED
    BY <2>1
<1>5. m \in S
  <2>1. ~(n <= m)
    BY <1>4
  <2> QED
    BY <1>2, <2>1
<1> QED
  BY <1>4, <1>5

-----------------------------------------------------------------------------
(* Heights, and code they fit.  H gives the heights at every address; what *)
(* it says beyond the code does not matter.                                *)

Height == [stack : Nat, iters : Nat, scopes : Nat \ {0}]

\* n operands more.
Up(x, n) == [x EXCEPT !.stack = @ + n]

\* What every state of the compiler is.
Shaped(c) ==
    /\ c = [at |-> c.at, ops |-> c.ops, loops |-> c.loops, scopes |-> c.scopes, fns |-> c.fns]
    /\ c.at \in Nat /\ IsSeq(c.ops) /\ c.loops \in Seq(OpenLoop) /\ c.scopes \in Nat

\* The op at the address i.
OpAt(c, i) == c.ops[i - c.at]

\* The op o may be executed at the heights x, in a program of the functions fns.
Works(o, x, fns) ==
    /\ Takes(o) \in Nat /\ Takes(o) <= x.stack
    /\ o.op \in {"ForNext", "PopIter"} => x.iters > 0
    /\ o.op = "TruncScopes" => o.n \in Nat
    /\ o.op = "CallUser" => \E f \in DOMAIN fns : o.fn = fns[f]

\* The op o at i also leaves the heights where it leads to, which is before top:
\* a jump may be pending, and W has the pending jumps with the heights they leave.
Fits(o, i, G, W, top, fns) ==
    /\ Works(o, G[i], fns)
    /\ Falls(o) => G[i + 1] = After(o, G[i])
    /\ Jumps(o) => \/ <<i, AfterJump(o, G[i])>> \in W
                   \/ (o.t \in 1..top /\ G[o.t] = AfterJump(o, G[i]))

\* A jump that can be patched.
Jumper(o) == Jumps(o) /\ o = [f \in DOMAIN o |-> o[f]] /\ {"op", "t"} \subseteq DOMAIN o

\* Code c of the heights H goes on as code d of the heights G.
Extends(c, H, d, G) ==
    /\ Shaped(d) /\ G \in [Nat -> Height]
    /\ d.at = c.at /\ d.fns = c.fns /\ Len(c.ops) <= Len(d.ops)
    /\ \A i \in 1..Len(c.ops) : d.ops[i] = c.ops[i]
    /\ \A i \in 0..Here(c) : G[i] = H[i]

\* ... of ops that fit, where W has the pending jumps among them.
Adds(c, H, d, G, W) ==
    /\ Extends(c, H, d, G)
    /\ \A i \in Here(c)..(Here(d) - 1) : Fits(OpAt(d, i), i, G, W, Here(d), d.fns)
    /\ \A w \in W : \E i \in Here(c)..(Here(d) - 1) :
          Jumper(OpAt(d, i)) /\ w = <<i, AfterJump(OpAt(d, i), G[i])>>

\* ... in the same loops and scopes, where N are the breaks out of the innermost loop.
Keeps(c, d, N) ==
    /\ d.scopes = c.scopes
    /\ Len(d.loops) = Len(c.loops)
    /\ \A i \in 1..Len(c.loops) :
          d.loops[i] = IF i = Len(c.loops) THEN [c.loops[i] EXCEPT !.breaks = @ \cup N]
                       ELSE c.loops[i]
    /\ c.loops = <<>> => N = {}

Leads(c, H, d, G, W, N, y) == Adds(c, H, d, G, W) /\ Keeps(c, d, N) /\ G[Here(d)] = y

\* What fits still fits when the code is longer.
LEMMA FitsOn ==
    ASSUME NEW o, NEW top \in Nat, NEW i \in 0..top - 1, NEW G, NEW W, NEW fns,
           NEW K, NEW V, NEW end \in Nat, top <= end, \A j \in 0..top : K[j] = G[j], W \subseteq V,
           Fits(o, i, G, W, top, fns)
    PROVE  Fits(o, i, K, V, end, fns)
<1>1. i \in 0..top /\ i + 1 \in 0..top /\ i \in Nat
  OBVIOUS
<1>2. K[i] = G[i] /\ K[i + 1] = G[i + 1]
  BY <1>1
<1>3. ASSUME o.t \in 1..top
      PROVE  o.t \in 1..end /\ K[o.t] = G[o.t]
  BY <1>3
<1> QED
  BY <1>2, <1>3 DEF Fits

\* Here is an address.
LEMMA HereNat ==
    ASSUME NEW c, Shaped(c)
    PROVE  /\ Len(c.ops) \in Nat /\ c.at \in Nat
           /\ Here(c) \in Nat /\ Here(c) >= 1 /\ Here(c) = c.at + Len(c.ops) + 1
           /\ DOMAIN c.ops = 1..Len(c.ops) /\ IsSeq(c.ops)
           /\ c.loops \in Seq(OpenLoop) /\ c.scopes \in Nat
  BY IsSeqDomain DEF Shaped, Here

\* Code goes on and on.
LEMMA ExtendsOn ==
    ASSUME NEW c, Shaped(c), NEW H, NEW d, NEW G, NEW e, NEW K,
           Extends(c, H, d, G), Extends(d, G, e, K)
    PROVE  /\ Extends(c, H, e, K)
           /\ Here(c) <= Here(d) /\ Here(d) <= Here(e)
<1>1. Shaped(d) /\ Shaped(e)
  BY DEF Extends
<1>2. Here(c) <= Here(d) /\ Here(d) <= Here(e) /\ Len(c.ops) <= Len(d.ops) /\ Len(d.ops) <= Len(e.ops)
  <2>1. d.at = c.at /\ e.at = d.at /\ Len(c.ops) <= Len(d.ops) /\ Len(d.ops) <= Len(e.ops)
    BY DEF Extends
  <2>2. /\ Here(c) = c.at + Len(c.ops) + 1 /\ Here(d) = d.at + Len(d.ops) + 1
        /\ Here(e) = e.at + Len(e.ops) + 1
    BY DEF Here
  <2>3. c.at \in Nat /\ Len(c.ops) \in Nat /\ Len(d.ops) \in Nat /\ Len(e.ops) \in Nat
    BY <1>1, HereNat
  <2> QED
    BY <2>1, <2>2, <2>3
<1>3. Len(c.ops) <= Len(e.ops)
  BY <1>1, <1>2, HereNat
<1>4. \A i \in 1..Len(c.ops) : e.ops[i] = c.ops[i]
  <2>1. \A i \in 1..Len(c.ops) : i \in 1..Len(d.ops)
    BY <1>1, <1>2, HereNat
  <2> QED
    BY <2>1 DEF Extends
<1>5. \A i \in 0..Here(c) : K[i] = H[i]
  <2>1. \A i \in 0..Here(c) : i \in 0..Here(d)
    BY <1>1, <1>2, HereNat
  <2> QED
    BY <2>1 DEF Extends
<1> QED
  BY <1>2, <1>3, <1>4, <1>5 DEF Extends

\* The op at an address stays when the code goes on.
LEMMA OpStays ==
    ASSUME NEW c, Shaped(c), NEW H, NEW d, NEW G, Extends(c, H, d, G),
           NEW i \in (c.at + 1)..(Here(c) - 1)
    PROVE  OpAt(d, i) = OpAt(c, i)
<1>1. i - c.at \in 1..Len(c.ops)
  BY HereNat
<1> QED
  BY <1>1 DEF Extends, OpAt

\* So do additions.
LEMMA AddsOn ==
    ASSUME NEW c, Shaped(c), NEW H, NEW d, NEW G, NEW e, NEW K, NEW W, NEW V,
           Adds(c, H, d, G, W), Adds(d, G, e, K, V)
    PROVE  Adds(c, H, e, K, W \cup V)
<1>1. Extends(c, H, d, G) /\ Extends(d, G, e, K)
  BY DEF Adds
<1>2. Shaped(d) /\ Shaped(e) /\ d.at = c.at /\ e.fns = d.fns
  BY <1>1 DEF Extends
<1>3. Extends(c, H, e, K) /\ Here(c) <= Here(d) /\ Here(d) <= Here(e)
  BY <1>1, ExtendsOn
<1>4. Here(c) \in Nat /\ Here(d) \in Nat /\ Here(e) \in Nat /\ Here(c) >= d.at + 1
  <2>1. PICK h, a, l \in Nat : h = Here(c) /\ a = c.at /\ h = a + l + 1
    BY HereNat
  <2>2. h >= a + 1
    BY <2>1
  <2>3. Here(c) \in Nat /\ Here(d) \in Nat /\ Here(e) \in Nat
    BY <1>2, HereNat
  <2> QED
    BY <1>2, <2>1, <2>2, <2>3
<1>5. ASSUME NEW i \in Here(c)..(Here(d) - 1)
      PROVE  /\ i \in Here(c)..(Here(e) - 1) /\ OpAt(e, i) = OpAt(d, i) /\ K[i] = G[i]
             /\ i \in 0..(Here(d) - 1)
  <2>1. i \in (d.at + 1)..(Here(d) - 1) /\ i \in Here(c)..(Here(e) - 1) /\ i \in 0..(Here(d) - 1)
    BY <1>2, <1>3, <1>4, HereNat
  <2>2. K[i] = G[i]
    BY <1>1, <1>4, <2>1 DEF Extends
  <2> QED
    BY <1>1, <1>2, <2>1, <2>2, OpStays
<1>6. ASSUME NEW i \in Here(c)..(Here(e) - 1)
      PROVE  Fits(OpAt(e, i), i, K, W \cup V, Here(e), e.fns)
  <2>1. CASE i < Here(d)
    <3>1. i \in Here(c)..(Here(d) - 1)
      BY <1>4, <2>1
    <3>2. Fits(OpAt(d, i), i, G, W, Here(d), d.fns)
      BY <3>1 DEF Adds
    <3>3. \A j \in 0..Here(d) : K[j] = G[j]
      BY <1>1 DEF Extends
    <3> HIDE DEF Here
    <3>4. Fits(OpAt(d, i), i, K, W \cup V, Here(e), d.fns)
      BY <1>3, <1>4, <1>5, <3>1, <3>2, <3>3, FitsOn
    <3> QED
      BY <1>2, <1>5, <3>1, <3>4
  <2>2. CASE ~(i < Here(d))
    <3>1. i \in Here(d)..(Here(e) - 1)
      BY <1>4, <2>2
    <3>2. Fits(OpAt(e, i), i, K, V, Here(e), e.fns)
      BY <3>1 DEF Adds
    <3> QED
      BY <3>2 DEF Fits
  <2> QED
    BY <2>1, <2>2
<1>7. ASSUME NEW w \in W \cup V
      PROVE  \E i \in Here(c)..(Here(e) - 1) :
                Jumper(OpAt(e, i)) /\ w = <<i, AfterJump(OpAt(e, i), K[i])>>
  <2>1. CASE w \in W
    <3>1. PICK i \in Here(c)..(Here(d) - 1) :
              Jumper(OpAt(d, i)) /\ w = <<i, AfterJump(OpAt(d, i), G[i])>>
      BY <2>1 DEF Adds
    <3> QED
      BY <1>5, <3>1
  <2>2. CASE w \in V
    <3>1. PICK i \in Here(d)..(Here(e) - 1) :
              Jumper(OpAt(e, i)) /\ w = <<i, AfterJump(OpAt(e, i), K[i])>>
      BY <2>2 DEF Adds
    <3>2. i \in Here(c)..(Here(e) - 1)
      BY <1>3, <1>4, <3>1
    <3> QED
      BY <3>1, <3>2
  <2> QED
    BY <2>1, <2>2
<1> QED
  BY <1>3, <1>6, <1>7 DEF Adds

\* What the loops and the scopes are does not matter to code.
LEMMA SameCode ==
    ASSUME NEW c, NEW d, Shaped(d), c.at = d.at, c.ops = d.ops, c.fns = d.fns
    PROVE  /\ Here(c) = Here(d)
           /\ \A i : OpAt(c, i) = OpAt(d, i)
           /\ \A H, e, G, W : Adds(d, H, e, G, W) => Adds(c, H, e, G, W)
           /\ Shaped(c) => \A a, H, G, W : Adds(a, H, d, G, W) => Adds(a, H, c, G, W)
<1>1. Here(c) = Here(d) /\ \A i : OpAt(c, i) = OpAt(d, i)
  BY DEF Here, OpAt
<1>2. \A H, e, G : Extends(d, H, e, G) => Extends(c, H, e, G)
  BY <1>1 DEF Extends
<1>3. Shaped(c) => \A a, H, G : Extends(a, H, d, G) => Extends(a, H, c, G)
  BY <1>1 DEF Extends
<1>4. \A H, e, G, W : Adds(d, H, e, G, W) => Adds(c, H, e, G, W)
  BY <1>1, <1>2 DEF Adds
<1>5. Shaped(c) => \A a, H, G, W : Adds(a, H, d, G, W) => Adds(a, H, c, G, W)
  BY <1>1, <1>3 DEF Adds
<1> QED
  BY <1>1, <1>4, <1>5

-----------------------------------------------------------------------------
(* The steps of the compiler. *)

\* The heights every op leaves are heights.
LEMMA AfterHeight ==
    ASSUME NEW o, NEW x \in Height, Takes(o) \in Nat, Takes(o) <= x.stack, Gives(o) \in Nat,
           o.op \in {"ForNext", "PopIter"} => x.iters > 0, o.op # "PopScope",
           o.op = "TruncScopes" => o.n \in Nat
    PROVE  After(o, x) \in Height /\ AfterJump(o, x) \in Height
<1>1. ItersAfter(o, x.iters) \in Nat /\ (o.op = "ForNext" => x.iters - 1 \in Nat)
  BY DEF ItersAfter, Height
<1>2. ScopesAfter(o, x.scopes) \in Nat \ {0}
  BY DEF ScopesAfter, Height
<1>3. x.stack - Takes(o) + Gives(o) \in Nat
  BY DEF Height
<1>4. After(o, x) \in Height
  BY <1>1, <1>2, <1>3 DEF After, Height
<1>5. o.op = "ForNext" => After(o, x).iters = x.iters
  BY DEF After, ItersAfter
<1>6. AfterJump(o, x) \in Height
  BY <1>1, <1>4, <1>5 DEF AfterJump, Height
<1> QED
  BY <1>4, <1>6

\* An op more, in the fields of a compiler state.
LEMMA EmitFields ==
    ASSUME NEW a, NEW s, NEW l, NEW n, NEW f, NEW o, NEW c,
           c = [at |-> a, ops |-> s, loops |-> l, scopes |-> n, fns |-> f]
    PROVE  Emit(c, o) = [at |-> a, ops |-> Append(s, o), loops |-> l, scopes |-> n, fns |-> f]
<1>1. PICK t : t = Append(s, o)
  OBVIOUS
<1>2. c.ops = s
  OBVIOUS
<1>3. Emit(c, o) = [c EXCEPT !.ops = t]
  BY <1>1, <1>2 DEF Emit
<1>4. [c EXCEPT !.ops = t] = [at |-> a, ops |-> t, loops |-> l, scopes |-> n, fns |-> f]
  OBVIOUS
<1> QED
  BY <1>1, <1>3, <1>4

\* An op is appended.
LEMMA EmitShape ==
    ASSUME NEW c, Shaped(c), NEW o
    PROVE  /\ Shaped(Emit(c, o)) /\ Here(Emit(c, o)) = Here(c) + 1
           /\ Emit(c, o).at = c.at /\ Emit(c, o).fns = c.fns
           /\ Emit(c, o).loops = c.loops /\ Emit(c, o).scopes = c.scopes
           /\ Len(Emit(c, o).ops) = Len(c.ops) + 1
           /\ \A i \in 1..Len(c.ops) : Emit(c, o).ops[i] = c.ops[i]
           /\ OpAt(Emit(c, o), Here(c)) = o
<1>1. Emit(c, o) = [at |-> c.at, ops |-> Append(c.ops, o), loops |-> c.loops,
                    scopes |-> c.scopes, fns |-> c.fns]
  <2>1. PICK a, s, l, n, f : c = [at |-> a, ops |-> s, loops |-> l, scopes |-> n, fns |-> f]
    BY DEF Shaped
  <2>2. Emit(c, o) = [at |-> a, ops |-> Append(s, o), loops |-> l, scopes |-> n, fns |-> f]
    BY <2>1, EmitFields
  <2>3. c.at = a /\ c.ops = s /\ c.loops = l /\ c.scopes = n /\ c.fns = f
    BY <2>1
  <2> QED
    BY <2>2, <2>3
<1>2. /\ IsSeq(Append(c.ops, o)) /\ Len(Append(c.ops, o)) = Len(c.ops) + 1
      /\ \A i \in 1..Len(c.ops) : Append(c.ops, o)[i] = c.ops[i]
      /\ Append(c.ops, o)[Len(c.ops) + 1] = o
  BY HereNat, IsSeqAppend
<1>3. Shaped(Emit(c, o))
  BY <1>1, <1>2 DEF Shaped
<1>4. Here(Emit(c, o)) = Here(c) + 1
  <2>1. PICK a, l \in Nat : a = c.at /\ l = Len(c.ops) /\ Here(c) = a + l + 1
    BY HereNat
  <2>2. Emit(c, o).at = a /\ Len(Emit(c, o).ops) = l + 1
    BY <1>1, <1>2, <2>1
  <2>3. Here(Emit(c, o)) = a + (l + 1) + 1
    BY <2>2 DEF Here
  <2>4. a + (l + 1) + 1 = (a + l + 1) + 1
    BY <2>1
  <2> QED
    BY <2>1, <2>3, <2>4
<1>5. Here(c) - c.at = Len(c.ops) + 1
  BY HereNat
<1> QED
  BY <1>1, <1>2, <1>3, <1>4, <1>5 DEF OpAt

\* The loops and scopes of a state are the same.
LEMMA KeepsItself ==
    ASSUME NEW c, Shaped(c), NEW d, d.loops = c.loops, d.scopes = c.scopes
    PROVE  Keeps(c, d, {})
<1>1. ASSUME NEW i \in 1..Len(c.loops)
      PROVE  [c.loops[i] EXCEPT !.breaks = @ \cup {}] = c.loops[i]
  <2>1. c.loops[i] \in OpenLoop
    BY HereNat
  <2> QED
    BY <2>1 DEF OpenLoop
<1> QED
  BY <1>1 DEF Keeps

\* Loops and scopes are kept step by step.
LEMMA KeepsOn ==
    ASSUME NEW c, Shaped(c), NEW d, Shaped(d), NEW e, NEW N, NEW M,
           Keeps(c, d, N), Keeps(d, e, M)
    PROVE  Keeps(c, e, N \cup M)
<1>1. e.scopes = c.scopes /\ Len(e.loops) = Len(c.loops) /\ Len(c.loops) = Len(d.loops)
  BY DEF Keeps
<1>2. c.loops = <<>> => d.loops = <<>>
  BY HereNat DEF Keeps
<1>3. ASSUME NEW i \in 1..Len(c.loops)
      PROVE  e.loops[i] = IF i = Len(c.loops)
                          THEN [c.loops[i] EXCEPT !.breaks = @ \cup (N \cup M)]
                          ELSE c.loops[i]
  <2>1. c.loops[i] \in OpenLoop
    BY HereNat
  <2>2. i \in 1..Len(d.loops)
    BY <1>1
  <2>3. CASE i = Len(c.loops)
    <3>1. d.loops[i] = [c.loops[i] EXCEPT !.breaks = @ \cup N]
      BY <2>3 DEF Keeps
    <3>2. e.loops[i] = [d.loops[i] EXCEPT !.breaks = @ \cup M]
      BY <1>1, <2>2, <2>3 DEF Keeps
    <3>3. (c.loops[i].breaks \cup N) \cup M = c.loops[i].breaks \cup (N \cup M)
      OBVIOUS
    <3> QED
      BY <2>1, <2>3, <3>1, <3>2, <3>3 DEF OpenLoop
  <2>4. CASE i # Len(c.loops)
    BY <1>1, <2>2, <2>4 DEF Keeps
  <2> QED
    BY <2>3, <2>4
<1>4. c.loops = <<>> => N \cup M = {}
  BY <1>2 DEF Keeps
<1> QED
  BY <1>1, <1>3, <1>4 DEF Keeps

\* One construct behind the other.
LEMMA LeadsOn ==
    ASSUME NEW c, Shaped(c), NEW H, NEW d, NEW G, NEW e, NEW K, NEW W, NEW V, NEW N, NEW M,
           NEW y, NEW z, Leads(c, H, d, G, W, N, y), Leads(d, G, e, K, V, M, z)
    PROVE  Leads(c, H, e, K, W \cup V, N \cup M, z)
<1>1. Shaped(d)
  BY DEF Leads, Adds, Extends
<1>2. Adds(c, H, e, K, W \cup V)
  BY AddsOn DEF Leads
<1>3. Keeps(c, e, N \cup M)
  BY <1>1, KeepsOn DEF Leads
<1> QED
  BY <1>2, <1>3 DEF Leads

\* No code.
LEMMA LeadsNowhere ==
    ASSUME NEW c, Shaped(c), NEW H \in [Nat -> Height]
    PROVE  Leads(c, H, c, H, {}, {}, H[Here(c)])
<1>1. Here(c)..(Here(c) - 1) = {}
  BY HereNat
<1>2. Len(c.ops) <= Len(c.ops)
  BY HereNat
<1>3. Extends(c, H, c, H)
  BY <1>2 DEF Extends
<1>4. Adds(c, H, c, H, {})
  BY <1>1, <1>3 DEF Adds
<1> QED
  BY <1>4, KeepsItself DEF Leads

\* An op whose jump, if it is one, goes back, or is pending in W; z are the heights
\* behind it, whatever they are if the op does not get there.
LEMMA EmitLeads ==
    ASSUME NEW c, Shaped(c), NEW H \in [Nat -> Height], NEW o, NEW z \in Height, NEW W,
           Works(o, H[Here(c)], c.fns),
           Falls(o) => z = After(o, H[Here(c)]),
           Jumps(o) => \/ <<Here(c), AfterJump(o, H[Here(c)])>> \in W
                       \/ (o.t \in 1..Here(c) /\ H[o.t] = AfterJump(o, H[Here(c)])),
           \A w \in W : Jumper(o) /\ w = <<Here(c), AfterJump(o, H[Here(c)])>>
    PROVE  \E G : Leads(c, H, Emit(c, o), G, W, {}, z)
<1> DEFINE d == Emit(c, o)
<1>1. PICK h \in Nat, top \in Nat : h = Here(c) /\ top = Here(d) /\ top = h + 1 /\ h >= 1
  BY EmitShape, HereNat
<1>2. PICK G : G = [i \in Nat |-> IF i = top THEN z ELSE H[i]]
  OBVIOUS
<1>3. G \in [Nat -> Height] /\ G[top] = z /\ \A i \in 0..h : G[i] = H[i]
  BY <1>1, <1>2
<1>4. Extends(c, H, d, G)
  <2>1. Len(c.ops) <= Len(c.ops) + 1
    BY HereNat
  <2> QED
    BY <1>1, <1>3, <2>1, EmitShape DEF Extends
<1>5. h..(top - 1) = {h} /\ G[h] = H[h] /\ OpAt(d, h) = o /\ d.fns = c.fns
  BY <1>1, <1>3, EmitShape
<1>6. Fits(o, h, G, W, top, c.fns)
  <2>1. Falls(o) => G[h + 1] = After(o, H[h])
    BY <1>1, <1>3
  <2>2. ASSUME o.t \in 1..h
        PROVE  o.t \in 1..top /\ G[o.t] = H[o.t]
    BY <1>1, <1>3, <2>2
  <2> QED
    BY <1>1, <1>5, <2>1, <2>2 DEF Fits
<1>7. Adds(c, H, d, G, W)
  BY <1>1, <1>4, <1>5, <1>6 DEF Adds
<1>8. Keeps(c, d, {})
  BY EmitShape, KeepsItself
<1> QED
  BY <1>1, <1>3, <1>7, <1>8 DEF Leads

\* An op that is no jump.
LEMMA PlainLeads ==
    ASSUME NEW c, Shaped(c), NEW H \in [Nat -> Height], NEW o, NEW z \in Height,
           Works(o, H[Here(c)], c.fns), ~Jumps(o), Falls(o) => z = After(o, H[Here(c)])
    PROVE  \E G : Leads(c, H, Emit(c, o), G, {}, {}, z)
  BY EmitLeads

\* A jump to what will be behind the code to come.
LEMMA PendingLeads ==
    ASSUME NEW c, Shaped(c), NEW H \in [Nat -> Height], NEW o, NEW z \in Height,
           Works(o, H[Here(c)], c.fns), Jumper(o), Falls(o) => z = After(o, H[Here(c)]),
           NEW x, x = AfterJump(o, H[Here(c)])
    PROVE  \E G : Leads(c, H, Emit(c, o), G, {<<Here(c), x>>}, {}, z)
  BY EmitLeads

\* A jump to an address of the code.
LEMMA BackLeads ==
    ASSUME NEW c, Shaped(c), NEW H \in [Nat -> Height], NEW o, NEW z \in Height,
           Works(o, H[Here(c)], c.fns), Falls(o) => z = After(o, H[Here(c)]),
           o.t \in 1..Here(c), H[o.t] = AfterJump(o, H[Here(c)])
    PROVE  \E G : Leads(c, H, Emit(c, o), G, {}, {}, z)
  BY EmitLeads

\* A jump with another target is the same in everything else.
LEMMA Retarget ==
    ASSUME NEW o, Jumper(o), NEW t, NEW p, p = [o EXCEPT !.t = t]
    PROVE  /\ Jumper(p) /\ p.t = t /\ p.op = o.op
           /\ \A x : After(p, x) = After(o, x) /\ AfterJump(p, x) = AfterJump(o, x)
           /\ \A x, fns : Works(o, x, fns) => Works(p, x, fns)
           /\ Falls(p) <=> Falls(o)
<1>1. p.op = o.op /\ p.t = t /\ DOMAIN p = DOMAIN o
  BY DEF Jumper
<1>2. p = [f \in DOMAIN p |-> p[f]]
  BY DEF Jumper
<1>3. Jumps(p) /\ o.op \in {"Jump", "Branch", "ForNext", "MatchArm"}
  BY <1>1 DEF Jumper, Jumps
<1>4. Takes(p) = Takes(o) /\ Gives(p) = Gives(o)
  BY <1>1, <1>3 DEF Takes, Gives
<1>5. \A n : ItersAfter(p, n) = ItersAfter(o, n) /\ ScopesAfter(p, n) = ScopesAfter(o, n)
  BY <1>1, <1>3 DEF ItersAfter, ScopesAfter
<1>6. \A x : After(p, x) = After(o, x)
  BY <1>4, <1>5 DEF After
<1>7. \A x : AfterJump(p, x) = AfterJump(o, x)
  BY <1>1, <1>6 DEF AfterJump
<1>8. \A x, fns : Works(o, x, fns) => Works(p, x, fns)
  BY <1>1, <1>3, <1>4 DEF Works
<1>9. Falls(p) <=> Falls(o)
  BY <1>1 DEF Falls
<1>10. Jumper(p)
  BY <1>1, <1>2, <1>3 DEF Jumper
<1> QED
  BY <1>1, <1>6, <1>7, <1>8, <1>9, <1>10

\* Jumps are patched in place.
LEMMA PatchShape ==
    ASSUME NEW c, Shaped(c), NEW A, NEW t
    PROVE  /\ Shaped(Patch(c, A, t)) /\ Here(Patch(c, A, t)) = Here(c)
           /\ Patch(c, A, t).at = c.at /\ Patch(c, A, t).fns = c.fns
           /\ Patch(c, A, t).loops = c.loops /\ Patch(c, A, t).scopes = c.scopes
           /\ Len(Patch(c, A, t).ops) = Len(c.ops)
           /\ \A i \in 1..Len(c.ops) :
                 Patch(c, A, t).ops[i] = IF c.at + i \in A THEN [c.ops[i] EXCEPT !.t = t]
                                         ELSE c.ops[i]
<1>1. PICK s : s = [i \in DOMAIN c.ops |-> IF c.at + i \in A THEN [c.ops[i] EXCEPT !.t = t]
                                           ELSE c.ops[i]]
  OBVIOUS
<1>2. Patch(c, A, t) = [at |-> c.at, ops |-> s, loops |-> c.loops, scopes |-> c.scopes,
                        fns |-> c.fns]
  <2>1. PICK a, q, l, n, f : c = [at |-> a, ops |-> q, loops |-> l, scopes |-> n, fns |-> f]
    BY DEF Shaped
  <2> QED
    BY <1>1, <2>1 DEF Patch
<1>3. IsSeq(s) /\ Len(s) = Len(c.ops)
  <2>1. DOMAIN c.ops = 1..Len(c.ops) /\ Len(c.ops) \in Nat
    BY HereNat
  <2>2. s \in [1..Len(c.ops) -> {s[i] : i \in DOMAIN s}]
    BY <1>1, <2>1
  <2>3. s \in Seq({s[i] : i \in DOMAIN s})
    BY <2>1, <2>2, IsASeq
  <2>4. Len(s) = Len(c.ops)
    BY <2>1, <2>2, <2>3, LenProperties
  <2> QED
    BY <2>3, <2>4 DEF IsSeq
<1>4. Shaped(Patch(c, A, t))
  BY <1>2, <1>3, HereNat DEF Shaped
<1>5. Here(Patch(c, A, t)) = Here(c)
  BY <1>2, <1>3 DEF Here
<1>6. \A i \in 1..Len(c.ops) : s[i] = IF c.at + i \in A THEN [c.ops[i] EXCEPT !.t = t]
                                      ELSE c.ops[i]
  BY <1>1, HereNat
<1> QED
  BY <1>2, <1>3, <1>4, <1>5, <1>6

\* Pending jumps that wait for the heights here are patched to lead here.
LEMMA PatchLeads ==
    ASSUME NEW c, Shaped(c), NEW H, NEW d, NEW G, NEW V, NEW A, NEW N, NEW y,
           Leads(c, H, d, G, V \cup (A \X {y}), N, y)
    PROVE  Leads(c, H, Patch(d, A, Here(d)), G, V, N, y)
<1> DEFINE p == Patch(d, A, Here(d))
           W == V \cup (A \X {y})
<1>1. /\ Extends(c, H, d, G) /\ Shaped(d) /\ d.at = c.at /\ d.fns = c.fns
      /\ G[Here(d)] = y /\ Keeps(c, d, N)
  BY DEF Leads, Adds, Extends
<1>2. /\ Shaped(p) /\ Here(p) = Here(d) /\ p.at = d.at /\ p.fns = d.fns /\ p.loops = d.loops
      /\ p.scopes = d.scopes /\ Len(p.ops) = Len(d.ops)
      /\ \A i \in 1..Len(d.ops) :
            p.ops[i] = IF d.at + i \in A THEN [d.ops[i] EXCEPT !.t = Here(d)] ELSE d.ops[i]
  BY <1>1, PatchShape
<1> HIDE DEF p
<1>3. Here(c) \in Nat /\ Here(d) \in Nat /\ Here(c) >= c.at + 1 /\ c.at \in Nat /\ Here(d) >= 1
  BY <1>1, HereNat
<1>4. ASSUME NEW w \in W
      PROVE  \E i \in Here(c)..(Here(d) - 1) :
                Jumper(OpAt(d, i)) /\ w = <<i, AfterJump(OpAt(d, i), G[i])>>
  BY DEF Leads, Adds
<1>5. ASSUME NEW a \in A
      PROVE  /\ a \in Here(c)..(Here(d) - 1) /\ Jumper(OpAt(d, a))
             /\ AfterJump(OpAt(d, a), G[a]) = y
  <2>1. <<a, y>> \in W
    OBVIOUS
  <2>2. PICK i \in Here(c)..(Here(d) - 1) :
            Jumper(OpAt(d, i)) /\ <<a, y>> = <<i, AfterJump(OpAt(d, i), G[i])>>
    BY <1>4, <2>1
  <2> QED
    BY <2>2
<1>6. Extends(c, H, p, G)
  <2>1. ASSUME NEW i \in 1..Len(c.ops)
        PROVE  p.ops[i] = c.ops[i]
    <3>1. c.at + i < Here(c) /\ i \in 1..Len(d.ops)
      <4>1. Len(c.ops) <= Len(d.ops)
        BY <1>1 DEF Extends
      <4>2. PICK h, a, l, m \in Nat : /\ h = Here(c) /\ a = c.at /\ l = Len(c.ops)
                                      /\ m = Len(d.ops) /\ h = a + l + 1
        BY <1>1, HereNat
      <4>3. i \in 1..l /\ l <= m
        BY <4>1, <4>2
      <4>4. a + i < h /\ i \in 1..m
        BY <4>2, <4>3
      <4> QED
        BY <4>2, <4>4
    <3>2. d.at + i \notin A
      BY <1>1, <1>3, <1>5, <3>1
    <3>3. p.ops[i] = d.ops[i]
      BY <1>2, <3>1, <3>2
    <3> QED
      BY <1>1, <3>3 DEF Extends
  <2> QED
    BY <1>1, <1>2, <2>1 DEF Extends
<1>7. ASSUME NEW i \in Here(c)..(Here(d) - 1)
      PROVE  OpAt(p, i) = IF i \in A THEN [OpAt(d, i) EXCEPT !.t = Here(d)] ELSE OpAt(d, i)
  <2>1. i - d.at \in 1..Len(d.ops) /\ d.at + (i - d.at) = i
    BY <1>1, <1>3, HereNat
  <2> QED
    BY <1>2, <2>1 DEF OpAt
<1>8. ASSUME NEW i \in Here(c)..(Here(d) - 1)
      PROVE  Fits(OpAt(p, i), i, G, V, Here(d), d.fns)
  <2>1. Fits(OpAt(d, i), i, G, W, Here(d), d.fns)
    BY DEF Leads, Adds
  <2>2. CASE i \in A
    <3>1. PICK o : o = OpAt(d, i) /\ Jumper(o) /\ AfterJump(o, G[i]) = y
      BY <1>5, <2>2
    <3>2. PICK q : q = OpAt(p, i) /\ q = [o EXCEPT !.t = Here(d)]
      BY <1>7, <2>2, <3>1
    <3>3. Works(q, G[i], d.fns) /\ (Falls(q) => G[i + 1] = After(q, G[i]))
      BY <2>1, <3>1, <3>2, Retarget DEF Fits
    <3>4. q.t \in 1..Here(d) /\ G[q.t] = AfterJump(q, G[i])
      <4>1. q.t = Here(d) /\ AfterJump(q, G[i]) = y
        BY <3>1, <3>2, Retarget
      <4> QED
        BY <1>1, <1>3, <4>1
    <3> QED
      BY <3>2, <3>3, <3>4 DEF Fits
  <2>3. CASE i \notin A
    <3>1. \A x : <<i, x>> \in W => <<i, x>> \in V
      BY <2>3
    <3> QED
      BY <1>7, <2>1, <2>3, <3>1 DEF Fits
  <2> QED
    BY <2>2, <2>3
<1>9. ASSUME NEW w \in V
      PROVE  \E i \in Here(c)..(Here(p) - 1) :
                Jumper(OpAt(p, i)) /\ w = <<i, AfterJump(OpAt(p, i), G[i])>>
  <2>1. PICK i \in Here(c)..(Here(d) - 1) :
            Jumper(OpAt(d, i)) /\ w = <<i, AfterJump(OpAt(d, i), G[i])>>
    BY <1>4
  <2>2. Jumper(OpAt(p, i)) /\ AfterJump(OpAt(p, i), G[i]) = AfterJump(OpAt(d, i), G[i])
    BY <1>7, <2>1, Retarget
  <2> QED
    BY <1>2, <2>1, <2>2
<1>10. Adds(c, H, p, G, V)
  BY <1>2, <1>6, <1>8, <1>9 DEF Adds
<1>11. Keeps(c, p, N)
  BY <1>1, <1>2 DEF Keeps
<1> QED
  BY <1>1, <1>2, <1>10, <1>11 DEF Leads, p

\* Behind code a node's code starts afresh.
LEMMA BehindShape ==
    ASSUME NEW c, Shaped(c)
    PROVE  /\ Shaped(Behind(c)) /\ Behind(c) \in Fresh(c.fns) /\ Here(Behind(c)) = Here(c)
           /\ Behind(c).at = c.at + Len(c.ops) /\ Behind(c).ops = <<>> /\ Behind(c).fns = c.fns
           /\ Behind(c).loops = c.loops /\ Behind(c).scopes = c.scopes
<1>1. Behind(c) = [at |-> c.at + Len(c.ops), ops |-> <<>>, loops |-> c.loops,
                   scopes |-> c.scopes, fns |-> c.fns]
  <2>1. PICK a, s, l, n, f : c = [at |-> a, ops |-> s, loops |-> l, scopes |-> n, fns |-> f]
    BY DEF Shaped
  <2>2. c.at = a /\ c.ops = s /\ c.loops = l /\ c.scopes = n /\ c.fns = f
    BY <2>1
  <2>3. PICK k : k = c.at + Len(c.ops)
    OBVIOUS
  <2>4. Behind(c) = [c EXCEPT !.at = k, !.ops = <<>>]
    BY <2>3 DEF Behind
  <2>5. Behind(c) = [at |-> k, ops |-> <<>>, loops |-> l, scopes |-> n, fns |-> f]
    BY <2>1, <2>4
  <2> QED
    BY <2>2, <2>3, <2>5
<1>2. IsSeq(<<>>) /\ Len(<<>>) = 0
  BY DEF IsSeq
<1>3. c.at + Len(c.ops) \in Nat /\ Here(c) = c.at + Len(c.ops) + 1
  BY HereNat
<1>4. Shaped(Behind(c))
  BY <1>1, <1>2, <1>3, HereNat DEF Shaped
<1>5. Behind(c) \in Fresh(c.fns)
  BY <1>1, <1>3, HereNat DEF Fresh
<1>6. Here(Behind(c)) = Here(c)
  BY <1>1, <1>2, <1>3 DEF Here
<1> QED
  BY <1>1, <1>4, <1>5, <1>6

\* A state with no code yet is one.
LEMMA FreshShape ==
    ASSUME NEW fns, NEW b \in Fresh(fns)
    PROVE  Shaped(b) /\ b.fns = fns
<1>1. IsSeq(<<>>)
  BY DEF IsSeq
<1> QED
  BY <1>1 DEF Fresh, Shaped

\* A node's code is put behind the code.
LEMMA JoinLeads ==
    ASSUME NEW c, Shaped(c), NEW H, NEW d, NEW G, NEW W, NEW N, NEW y,
           Leads(Behind(c), H, d, G, W, N, y)
    PROVE  Leads(c, H, Join(c, d), G, W, N, y)
<1> DEFINE j == Join(c, d)
<1>1. /\ Extends(Behind(c), H, d, G) /\ Shaped(d) /\ d.at = c.at + Len(c.ops) /\ d.fns = c.fns
      /\ G[Here(d)] = y /\ Keeps(Behind(c), d, N) /\ G \in [Nat -> Height]
      /\ \A i \in 0..Here(c) : G[i] = H[i]
  BY BehindShape DEF Leads, Adds, Extends
<1>2. PICK s, t, q : s = c.ops /\ t = d.ops /\ q = s \o t
  OBVIOUS
<1>3. /\ IsSeq(q) /\ Len(q) = Len(s) + Len(t)
      /\ \A i \in 1..Len(s) : q[i] = s[i]
      /\ \A i \in 1..Len(t) : q[Len(s) + i] = t[i]
  <2>1. IsSeq(s) /\ IsSeq(t)
    BY <1>1, <1>2, HereNat
  <2>2. q = s \o t
    BY <1>2
  <2>3. IsSeq(q) /\ Len(q) = Len(s) + Len(t)
    BY <2>1, <2>2, IsSeqConcat
  <2>4. \A i \in 1..Len(s) : q[i] = s[i]
    BY <2>1, <2>2, IsSeqConcat
  <2>5. \A i \in 1..Len(t) : q[Len(s) + i] = t[i]
    BY <2>1, <2>2, IsSeqConcat
  <2> QED
    BY <2>3, <2>4, <2>5
<1>4. PICK at \in Nat, m \in Nat, n \in Nat, top \in Nat :
          /\ at = c.at /\ m = Len(c.ops) /\ n = Len(d.ops) /\ top = at + m + n + 1
  BY <1>1, HereNat
<1>5. Here(c) = at + m + 1 /\ Here(d) = top /\ d.at = at + m
  <2>1. d.at = at + m
    BY <1>1, <1>4
  <2>2. Here(c) = at + m + 1
    BY <1>4 DEF Here
  <2>3. Here(d) = (at + m) + n + 1
    BY <1>4, <2>1 DEF Here
  <2> HIDE DEF Here
  <2>4. (at + m) + n + 1 = top
    BY <1>4
  <2> QED
    BY <2>1, <2>2, <2>3, <2>4
<1>6. /\ j.at = c.at /\ j.ops = q /\ j.loops = d.loops /\ j.scopes = d.scopes /\ j.fns = d.fns
      /\ Shaped(j)
  <2>1. PICK a, l, k, f : d = [at |-> a, ops |-> t, loops |-> l, scopes |-> k, fns |-> f]
    BY <1>1, <1>2 DEF Shaped
  <2>2. d.loops = l /\ d.scopes = k /\ d.fns = f
    BY <2>1
  <2>3. j = [d EXCEPT !.at = c.at, !.ops = q]
    BY <1>2 DEF Join
  <2>4. j = [at |-> c.at, ops |-> q, loops |-> l, scopes |-> k, fns |-> f]
    BY <2>1, <2>3
  <2>5. /\ j.at = c.at /\ j.ops = q /\ j.loops = d.loops /\ j.scopes = d.scopes
        /\ j.fns = d.fns
    BY <2>2, <2>4
  <2>6. j = [at |-> j.at, ops |-> j.ops, loops |-> j.loops, scopes |-> j.scopes, fns |-> j.fns]
    BY <2>4
  <2>7. d.loops \in Seq(OpenLoop) /\ d.scopes \in Nat /\ c.at \in Nat
    BY <1>1, HereNat
  <2> QED
    BY <1>3, <2>5, <2>6, <2>7 DEF Shaped
<1> HIDE DEF j
<1>7. PICK k \in Nat : k = Len(j.ops) /\ k = m + n
  <2>1. Len(j.ops) = m + n
    BY <1>2, <1>3, <1>4, <1>6
  <2>2. m + n \in Nat
    OBVIOUS
  <2> QED
    BY <2>1, <2>2
<1>8. Here(j) = Here(d)
  <2>1. Here(j) = at + k + 1
    BY <1>4, <1>6, <1>7 DEF Here
  <2>2. at + (m + n) + 1 = at + m + n + 1
    OBVIOUS
  <2> QED
    BY <1>4, <1>5, <1>7, <2>1, <2>2
<1>9. Extends(c, H, j, G)
  <2>1. m <= m + n
    OBVIOUS
  <2>2. Len(c.ops) <= Len(j.ops)
    BY <1>4, <1>7, <2>1
  <2> QED
    BY <1>1, <1>2, <1>3, <1>6, <2>2 DEF Extends
<1>10. ASSUME NEW i \in Here(c)..(Here(d) - 1)
      PROVE  OpAt(j, i) = OpAt(d, i)
  <2>1. PICK l \in 1..n : l = i - d.at /\ i - c.at = m + l
    <3>1. i \in (at + m + 1)..(top - 1)
      BY <1>5
    <3>2. i - (at + m) \in 1..n /\ i - at = m + (i - (at + m))
      <4>1. top = at + m + n + 1
        BY <1>4
      <4> QED
        BY <3>1, <4>1
    <3> QED
      BY <1>4, <1>5, <3>2
  <2>2. j.ops[m + l] = d.ops[l]
    BY <1>2, <1>3, <1>4, <1>6, <2>1
  <2> QED
    BY <1>6, <2>1, <2>2 DEF OpAt
<1>11. /\ \A i \in Here(c)..(Here(d) - 1) : Fits(OpAt(d, i), i, G, W, Here(d), d.fns)
      /\ \A w \in W : \E i \in Here(c)..(Here(d) - 1) :
            Jumper(OpAt(d, i)) /\ w = <<i, AfterJump(OpAt(d, i), G[i])>>
  BY BehindShape DEF Leads, Adds
<1>12. Adds(c, H, j, G, W)
  BY <1>6, <1>8, <1>9, <1>10, <1>11 DEF Adds
<1>13. Keeps(c, j, N)
  BY <1>1, <1>6, BehindShape DEF Keeps
<1> QED
  BY <1>1, <1>8, <1>12, <1>13 DEF Leads, j

-----------------------------------------------------------------------------
(* Expressions. *)

\* The code d behind c leaves n operands more.
Pushes(c, H, d, n) == \E G : Leads(c, H, d, G, {}, {}, Up(H[Here(c)], n))

\* What exprs has for the expressions of S leaves their values.
ExprsFit(exprs, S, fns) ==
    \A e \in S : \A b \in Fresh(fns) : \A H \in [Nat -> Height] : Pushes(b, H, exprs[e][b], 1)

\* The op o makes g operands of k, and does nothing else to the heights.
Computes(o, k, g) ==
    /\ Takes(o) = k /\ Gives(o) = g
    /\ o.op \notin {"Return", "MatchFail", "Jump", "Branch", "ForStart", "ForNext", "PopIter",
                    "MatchArm", "PushScope", "PopScope", "TruncScopes"}

\* More operands, and more of them.
LEMMA UpUp ==
    ASSUME NEW x \in Height, NEW m \in Nat, NEW n \in Nat
    PROVE  /\ Up(x, m) \in Height /\ Up(x, 0) = x /\ Up(Up(x, m), n) = Up(x, m + n)
           /\ Up(x, m).stack = x.stack + m /\ Up(x, m).iters = x.iters
           /\ Up(x, m).scopes = x.scopes
<1>1. PICK s \in Nat, i \in Nat, c \in Nat \ {0} : x = [stack |-> s, iters |-> i, scopes |-> c]
  BY DEF Height
<1>2. /\ Up(x, m) = [stack |-> s + m, iters |-> i, scopes |-> c]
      /\ Up(x, 0) = [stack |-> s + 0, iters |-> i, scopes |-> c]
      /\ Up(x, m + n) = [stack |-> s + (m + n), iters |-> i, scopes |-> c]
  BY <1>1 DEF Up
<1>3. Up(Up(x, m), n) = [stack |-> (s + m) + n, iters |-> i, scopes |-> c]
  <2>1. PICK y, k : k = s + m /\ y = Up(x, m) /\ y = [stack |-> k, iters |-> i, scopes |-> c]
    BY <1>2
  <2>2. y = [stack |-> k, iters |-> i, scopes |-> c]
    BY <2>1
  <2>3. Up(y, n) = [stack |-> k + n, iters |-> i, scopes |-> c]
    BY <2>2 DEF Up
  <2> QED
    BY <2>1, <2>3
<1>4. s + 0 = s /\ s + (m + n) = (s + m) + n /\ s + m \in Nat
  OBVIOUS
<1> QED
  BY <1>1, <1>2, <1>3, <1>4 DEF Height

\* The result of a construct is code, and its heights are heights.
LEMMA LeadsShape ==
    ASSUME NEW c, NEW H, NEW d, NEW G, NEW W, NEW N, NEW y, Leads(c, H, d, G, W, N, y)
    PROVE  /\ Shaped(d) /\ G \in [Nat -> Height] /\ d.fns = c.fns /\ G[Here(d)] = y
           /\ d.scopes = c.scopes /\ y \in Height /\ d.at = c.at
           /\ \A i \in 0..Here(c) : G[i] = H[i]
<1>1. Shaped(d) /\ G \in [Nat -> Height] /\ d.fns = c.fns /\ G[Here(d)] = y /\ d.scopes = c.scopes
      /\ d.at = c.at /\ \A i \in 0..Here(c) : G[i] = H[i]
  BY DEF Leads, Adds, Extends, Keeps
<1>2. y \in Height
  <2>1. Here(d) \in Nat
    BY <1>1, HereNat
  <2> QED
    BY <1>1, <2>1
<1> QED
  BY <1>1, <1>2

\* Code that leaves m operands more, and behind it code that leaves n.
LEMMA PushesOn ==
    ASSUME NEW c, Shaped(c), NEW H \in [Nat -> Height], NEW d, NEW m \in Nat, NEW n \in Nat,
           Pushes(c, H, d, m),
           NEW e, \A G \in [Nat -> Height] : Shaped(d) => Pushes(d, G, e, n)
    PROVE  Pushes(c, H, e, m + n)
<1>1. PICK x \in Height : x = H[Here(c)]
  BY HereNat
<1>2. PICK G : Leads(c, H, d, G, {}, {}, Up(x, m))
  BY <1>1 DEF Pushes
<1>3. Shaped(d) /\ G \in [Nat -> Height] /\ G[Here(d)] = Up(x, m)
  BY <1>2, LeadsShape
<1>4. PICK K : Leads(d, G, e, K, {}, {}, Up(Up(x, m), n))
  BY <1>3 DEF Pushes
<1>5. Leads(c, H, e, K, {} \cup {}, {} \cup {}, Up(Up(x, m), n))
  BY <1>2, <1>4, LeadsOn
<1>6. Leads(c, H, e, K, {}, {}, Up(x, m + n))
  BY <1>5, UpUp
<1> QED
  BY <1>1, <1>6 DEF Pushes

\* An op that computes.
LEMMA ComputeLeads ==
    ASSUME NEW c, Shaped(c), NEW H \in [Nat -> Height], NEW o, NEW x \in Height,
           NEW k \in Nat, NEW g \in Nat, Computes(o, k, g), H[Here(c)] = Up(x, k),
           o.op = "CallUser" => \E f \in DOMAIN c.fns : o.fn = c.fns[f]
    PROVE  \E G : Leads(c, H, Emit(c, o), G, {}, {}, Up(x, g))
<1>1. ~Jumps(o) /\ Falls(o)
  BY DEF Computes, Jumps, Falls
<1>2. Works(o, Up(x, k), c.fns)
  <2>1. k <= x.stack + k
    BY DEF Height
  <2> QED
    BY <2>1, UpUp DEF Works, Computes
<1>3. After(o, Up(x, k)) = Up(x, g)
  <2>1. PICK s \in Nat, i \in Nat, p \in Nat \ {0} : x = [stack |-> s, iters |-> i, scopes |-> p]
    BY DEF Height
  <2>2. /\ Up(x, k) = [stack |-> s + k, iters |-> i, scopes |-> p]
        /\ Up(x, g) = [stack |-> s + g, iters |-> i, scopes |-> p]
    BY <2>1 DEF Up
  <2>3. ItersAfter(o, i) = i /\ ScopesAfter(o, p) = p
    BY DEF Computes, ItersAfter, ScopesAfter
  <2>4. After(o, Up(x, k)) = [stack |-> (s + k) - k + g, iters |-> i, scopes |-> p]
    BY <2>2, <2>3 DEF After, Computes
  <2>5. (s + k) - k + g = s + g
    OBVIOUS
  <2> QED
    BY <2>2, <2>4, <2>5
<1> QED
  BY <1>1, <1>2, <1>3, UpUp, PlainLeads

\* ... behind code that leaves its operands.
LEMMA ComputePushes ==
    ASSUME NEW c, Shaped(c), NEW H \in [Nat -> Height], NEW d, NEW k \in Nat, NEW m \in Nat,
           Pushes(c, H, d, m + k), NEW o, NEW g \in Nat, Computes(o, k, g),
           o.op = "CallUser" => \E f \in DOMAIN c.fns : o.fn = c.fns[f]
    PROVE  Pushes(c, H, Emit(d, o), m + g)
<1>1. PICK x \in Height : x = H[Here(c)]
  BY HereNat
<1>2. PICK G : Leads(c, H, d, G, {}, {}, Up(x, m + k))
  BY <1>1 DEF Pushes
<1>3. Shaped(d) /\ G \in [Nat -> Height] /\ d.fns = c.fns /\ G[Here(d)] = Up(x, m + k)
  BY <1>2, LeadsShape
<1>4. PICK K : Leads(d, G, Emit(d, o), K, {}, {}, Up(Up(x, m), g))
  <2>1. PICK z \in Height : z = Up(x, m)
    BY UpUp
  <2>2. G[Here(d)] = Up(z, k)
    BY <1>3, <2>1, UpUp
  <2>3. o.op = "CallUser" => \E f \in DOMAIN d.fns : o.fn = d.fns[f]
    BY <1>3
  <2>4. \E K : Leads(d, G, Emit(d, o), K, {}, {}, Up(z, g))
    BY <1>3, <2>2, <2>3, ComputeLeads
  <2> QED
    BY <2>1, <2>4
<1>5. Leads(c, H, Emit(d, o), K, {} \cup {}, {} \cup {}, Up(Up(x, m), g))
  BY <1>2, <1>4, LeadsOn
<1>6. Leads(c, H, Emit(d, o), K, {}, {}, Up(x, m + g))
  BY <1>5, UpUp
<1> QED
  BY <1>1, <1>6 DEF Pushes

\* One expression.
LEMMA SubExprPushes ==
    ASSUME NEW c, Shaped(c), NEW H \in [Nat -> Height], NEW parts, NEW S, NEW e \in S,
           ExprsFit(parts, S, c.fns)
    PROVE  Pushes(c, H, SubExpr(parts, c, e), 1)
<1>1. Behind(c) \in Fresh(c.fns) /\ Here(Behind(c)) = Here(c)
  BY BehindShape
<1>2. PICK G : Leads(Behind(c), H, parts[e][Behind(c)], G, {}, {}, Up(H[Here(c)], 1))
  <2>1. Pushes(Behind(c), H, parts[e][Behind(c)], 1)
    BY <1>1 DEF ExprsFit
  <2> QED
    BY <1>1, <2>1 DEF Pushes
<1>3. Leads(c, H, SubExpr(parts, c, e), G, {}, {}, Up(H[Here(c)], 1))
  BY <1>2, JoinLeads DEF SubExpr
<1> QED
  BY <1>3 DEF Pushes

\* The loop over the operands of an expression.
SubExprRounds == INSTANCE HehRecursion WITH Op <- SubExpr

\* Expressions one after the other.
LEMMA SubExprsPushes ==
    ASSUME NEW c, Shaped(c), NEW H \in [Nat -> Height], NEW parts, NEW S, NEW es \in Seq(S),
           ExprsFit(parts, S, c.fns)
    PROVE  Pushes(c, H, SubExprs(parts, c, es), Len(es))
<1>1. PICK n \in Nat : n = Len(es) /\ DOMAIN es = 1..n
  OBVIOUS
<1>2. SubExprs(parts, c, es) = SubExprRounds!FoldL(parts, c, es, 1..n)
  BY <1>1 DEF SubExprs, FoldLeft, MapThenFoldSet, Max, SubExprRounds!FoldL, SubExprRounds!Top
<1>3. PICK R : /\ SubExprRounds!LeftRounds(R, parts, c, es)
               /\ SubExprRounds!FoldL(parts, c, es, 1..n) = R[n]
  <2>1. SubExprRounds!Induction
    BY AllNat DEF SubExprRounds!Induction
  <2> QED
    BY <2>1, SubExprRounds!LeftFold
<1>4. R[0] = c /\ \A k \in Nat : R[k + 1] = SubExpr(parts, R[k], es[k + 1])
  BY <1>3 DEF SubExprRounds!LeftRounds
<1> DEFINE T == {k \in Nat : k <= n => Pushes(c, H, R[k], k)}
<1>5. 0 \in T
  <2>1. Leads(c, H, c, H, {}, {}, Up(H[Here(c)], 0))
    <3>1. H[Here(c)] \in Height
      BY HereNat
    <3> QED
      BY <3>1, LeadsNowhere, UpUp
  <2> QED
    BY <1>4, <2>1 DEF Pushes
<1>6. ASSUME NEW k \in Nat, k \in T
      PROVE  k + 1 \in T
  <2>1. SUFFICES ASSUME k + 1 <= n
                 PROVE  Pushes(c, H, R[k + 1], k + 1)
    OBVIOUS
  <2>2. Pushes(c, H, R[k], k)
    BY <1>6, <2>1
  <2>3. es[k + 1] \in S
    BY <1>1, <2>1
  <2>4. R[k].fns = c.fns
    BY <2>2, LeadsShape DEF Pushes
  <2>5. ASSUME NEW G \in [Nat -> Height], Shaped(R[k])
        PROVE  Pushes(R[k], G, R[k + 1], 1)
    BY <1>4, <2>3, <2>4, <2>5, SubExprPushes
  <2> QED
    BY <2>2, <2>5, PushesOn
<1> HIDE DEF T
<1>7. n \in T
  BY <1>5, <1>6, AllNat
<1> QED
  BY <1>1, <1>2, <1>3, <1>7 DEF T

\* A branch, whose jump is pending.
LEMMA TestLeads ==
    ASSUME NEW c, Shaped(c), NEW H \in [Nat -> Height], NEW x \in Height, H[Here(c)] = Up(x, 1),
           NEW on
    PROVE  \E G : Leads(c, H, Emit(c, BranchOp(on)), G, {<<Here(c), x>>}, {}, x)
<1> DEFINE o == BranchOp(on)
<1>1. o.op = "Branch" /\ Jumper(o)
  BY DEF BranchOp, Jumper, Jumps
<1>2. Takes(o) = 1 /\ Gives(o) = 0 /\ Falls(o)
  BY <1>1 DEF Takes, Gives, Falls
<1>3. Works(o, Up(x, 1), c.fns)
  <2>1. 1 <= x.stack + 1
    BY DEF Height
  <2> QED
    BY <1>1, <1>2, <2>1, UpUp DEF Works
<1>4. After(o, Up(x, 1)) = x /\ AfterJump(o, Up(x, 1)) = x
  BY <1>1, <1>2 DEF After, AfterJump, ItersAfter, ScopesAfter, Up, Height
<1> HIDE DEF o
<1> QED
  BY <1>1, <1>3, <1>4, PendingLeads DEF o

\* A pending jump; what is behind it is reached some other way, if at all.
LEMMA JumpLeads ==
    ASSUME NEW c, Shaped(c), NEW H \in [Nat -> Height], NEW x \in Height, H[Here(c)] = x,
           NEW z \in Height
    PROVE  \E G : Leads(c, H, Emit(c, JumpOp(0)), G, {<<Here(c), x>>}, {}, z)
<1> DEFINE o == JumpOp(0)
<1>1. o.op = "Jump" /\ Jumper(o)
  BY DEF JumpOp, Jumper, Jumps
<1>2. Takes(o) = 0 /\ Gives(o) = 0 /\ ~Falls(o)
  BY <1>1 DEF Takes, Gives, Falls
<1>3. Works(o, x, c.fns)
  <2>1. 0 <= x.stack
    BY DEF Height
  <2> QED
    BY <1>1, <1>2, <2>1 DEF Works
<1>4. AfterJump(o, x) = x
  <2>1. PICK s \in Nat, i \in Nat, p \in Nat \ {0} : x = [stack |-> s, iters |-> i, scopes |-> p]
    BY DEF Height
  <2>2. After(o, x) = [stack |-> s - 0 + 0, iters |-> i, scopes |-> p]
    BY <1>1, <1>2, <2>1 DEF After, ItersAfter, ScopesAfter
  <2>3. s - 0 + 0 = s
    OBVIOUS
  <2> QED
    BY <1>1, <2>1, <2>2, <2>3 DEF AfterJump
<1> HIDE DEF o
<1> QED
  BY <1>1, <1>2, <1>3, <1>4, PendingLeads DEF o

\* `and` and `or`: the branch behind the left operand and the jump behind the right
\* one meet with one operand more.
LEMMA LogicPushes ==
    ASSUME NEW c, Shaped(c), NEW H \in [Nat -> Height], NEW parts, NEW S, NEW e,
           e.l \in S, e.r \in S, NEW on, ExprsFit(parts, S, c.fns)
    PROVE  Pushes(c, H, CompileLogic(parts, c, e, on), 1)
<1>1. PICK x \in Height : x = H[Here(c)]
  BY HereNat
<1> DEFINE left   == SubExpr(parts, c, e.l)
           tested == Emit(left, BranchOp(on))
           other  == SubExpr(parts, tested, e.r)
           right  == Emit(other, OpOf("ToBool"))
           jumped == Emit(right, JumpOp(0))
           closed == Close(jumped, Here(left))
           pushed == Emit(closed, PushConstOp(<<"bool", on>>))
<1>2. PICK G1 : Leads(c, H, left, G1, {}, {}, Up(x, 1))
  BY <1>1, SubExprPushes DEF Pushes
<1>3. Shaped(left) /\ G1 \in [Nat -> Height] /\ G1[Here(left)] = Up(x, 1) /\ left.fns = c.fns
  BY <1>2, LeadsShape
<1> HIDE DEF left
<1>4. PICK G2 : Leads(left, G1, tested, G2, {<<Here(left), x>>}, {}, x)
  BY <1>3, TestLeads
<1>5. Shaped(tested) /\ G2 \in [Nat -> Height] /\ G2[Here(tested)] = x /\ tested.fns = c.fns
  BY <1>3, <1>4, LeadsShape
<1> HIDE DEF tested
<1>6. PICK G3 : Leads(tested, G2, right, G3, {}, {}, Up(x, 1))
  <2>1. Pushes(tested, G2, other, 0 + 1)
    BY <1>5, SubExprPushes
  <2>2. Computes(OpOf("ToBool"), 1, 1) /\ OpOf("ToBool").op # "CallUser"
    BY DEF Computes, OpOf, Takes, Gives
  <2> HIDE DEF other
  <2>3. Pushes(tested, G2, right, 0 + 1)
    BY <1>5, <2>1, <2>2, ComputePushes
  <2> QED
    BY <1>5, <2>3 DEF Pushes
<1>7. Shaped(right) /\ G3 \in [Nat -> Height] /\ G3[Here(right)] = Up(x, 1) /\ right.fns = c.fns
  BY <1>5, <1>6, LeadsShape
<1> HIDE DEF right
<1>8. PICK G4 : Leads(right, G3, jumped, G4, {<<Here(right), Up(x, 1)>>}, {}, x)
  BY <1>7, UpUp, JumpLeads
<1> DEFINE W == {<<Here(right), Up(x, 1)>>}
<1>9. Leads(left, G1, jumped, G4, W \cup ({Here(left)} \X {x}), {}, x)
  <2>1. Leads(left, G1, right, G3, {<<Here(left), x>>} \cup {}, {} \cup {}, Up(x, 1))
    BY <1>3, <1>4, <1>6, LeadsOn
  <2>2. Leads(left, G1, right, G3, {<<Here(left), x>>}, {}, Up(x, 1))
    BY <2>1
  <2>3. Leads(left, G1, jumped, G4, {<<Here(left), x>>} \cup W, {} \cup {}, x)
    BY <1>3, <1>8, <2>2, LeadsOn
  <2>4. {<<Here(left), x>>} \cup W = W \cup ({Here(left)} \X {x}) /\ {} \cup {} = {}
    OBVIOUS
  <2> HIDE DEF W, jumped
  <2> QED
    BY <2>3, <2>4
<1>10. Leads(left, G1, closed, G4, W, {}, x)
  <2> HIDE DEF W, jumped
  <2> QED
    BY <1>3, <1>9, PatchLeads DEF Close
<1>11. Shaped(closed) /\ G4 \in [Nat -> Height] /\ G4[Here(closed)] = x
  BY <1>10, LeadsShape
<1> HIDE DEF closed
<1>12. PICK G5 : Leads(closed, G4, pushed, G5, {}, {}, Up(x, 1))
  <2> DEFINE o == PushConstOp(<<"bool", on>>)
  <2>1. Computes(o, 0, 1) /\ o.op # "CallUser"
    BY DEF Computes, PushConstOp, Takes, Gives
  <2>2. G4[Here(closed)] = Up(x, 0)
    BY <1>11, UpUp
  <2> HIDE DEF o
  <2> QED
    BY <1>11, <2>1, <2>2, ComputeLeads DEF o
<1>13. Leads(left, G1, pushed, G5, {} \cup ({Here(right)} \X {Up(x, 1)}), {}, Up(x, 1))
  <2>1. Leads(left, G1, pushed, G5, W \cup {}, {} \cup {}, Up(x, 1))
    <3> HIDE DEF W, pushed
    <3> QED
      BY <1>3, <1>10, <1>12, LeadsOn
  <2>2. W \cup {} = {} \cup ({Here(right)} \X {Up(x, 1)}) /\ {} \cup {} = {}
    OBVIOUS
  <2> HIDE DEF W, pushed
  <2> QED
    BY <2>1, <2>2
<1> HIDE DEF pushed
<1>14. Leads(left, G1, Close(pushed, Here(right)), G5, {}, {}, Up(x, 1))
  BY <1>3, <1>13, PatchLeads DEF Close
<1>15. Leads(c, H, Close(pushed, Here(right)), G5, {} \cup {}, {} \cup {}, Up(x, 1))
  BY <1>2, <1>14, LeadsOn
<1>16. CompileLogic(parts, c, e, on) = Close(pushed, Here(right))
  BY DEF CompileLogic, CompileRight, Decided, pushed, closed, right, tested, left
<1>17. Leads(c, H, CompileLogic(parts, c, e, on), G5, {}, {}, Up(x, 1))
  BY <1>15, <1>16
<1> QED
  BY <1>1, <1>17 DEF Pushes

\* The op of an expression takes the values of the operands.
LEMMA ExprOpComputes ==
    ASSUME NEW e \in Exprs, NEW S, Operands(e) \in Seq(S), e.k = "call" => e.es \in Seq(S)
    PROVE  Computes(ExprOp(e), Len(Operands(e)), 1) /\ ExprOp(e).op # "CallUser"
<1>1. e.k \in {"lit", "id", "closure", "unary", "field", "try", "binary", "index",
               "list", "map", "record", "interp", "call"}
  BY ExprAssumption
<1>2. CASE e.k \in {"lit", "id", "closure"}
  <2>1. Len(Operands(e)) = 0
    BY <1>2 DEF Operands
  <2>2. ExprOp(e).op \in {"PushConst", "Load", "MakeClosure"}
    BY <1>2 DEF ExprOp, PushConstOp, NameOp
  <2> QED
    BY <2>1, <2>2 DEF Computes, Takes, Gives
<1>3. CASE e.k \in {"unary", "field", "try"}
  <2>1. Len(Operands(e)) = 1
    BY <1>3 DEF Operands
  <2>2. ExprOp(e).op \in {"Unop", "Field", "Try"}
    BY <1>3 DEF ExprOp, NameOp
  <2> QED
    BY <2>1, <2>2 DEF Computes, Takes, Gives
<1>4. CASE e.k \in {"binary", "index"}
  <2>1. Len(Operands(e)) = 2
    BY <1>4 DEF Operands
  <2>2. ExprOp(e).op \in {"Binop", "Index"}
    BY <1>4 DEF ExprOp, OpOf
  <2> QED
    BY <2>1, <2>2 DEF Computes, Takes, Gives
<1>5. CASE e.k \in {"list", "map", "record", "interp"}
  <2>1. Operands(e) = e.es
    BY <1>5 DEF Operands
  <2>2. ExprOp(e).op \in {"MakeList", "MakeMap", "MakeRecord", "ConcatStr"}
        /\ ExprOp(e).n = Len(e.es)
    BY <1>5 DEF ExprOp, NameOp
  <2> QED
    BY <2>1, <2>2 DEF Computes, Takes, Gives
<1>6. CASE e.k = "call" /\ IsWrap(e)
  <2>1. Operands(e) = e.es /\ Len(e.es) = 1
    BY <1>6 DEF Operands, IsWrap
  <2>2. ExprOp(e).op = "Wrap"
    BY <1>6 DEF ExprOp
  <2> QED
    BY <2>1, <2>2 DEF Computes, Takes, Gives
<1>7. CASE e.k = "call" /\ ~IsWrap(e)
  <2>1. Operands(e) = <<e.callee>> \o e.es
    BY <1>7 DEF Operands
  <2>2. PICK s, t : s = <<e.callee>> /\ t = e.es /\ IsSeq(s) /\ IsSeq(t) /\ Len(s) = 1
    <3>1. <<e.callee>> \in Seq({e.callee}) /\ Len(<<e.callee>>) = 1
      OBVIOUS
    <3>2. IsSeq(<<e.callee>>) /\ IsSeq(e.es)
      BY <1>7, <3>1, SeqIsSeq
    <3> QED
      BY <3>1, <3>2
  <2>3. Len(s \o t) = Len(s) + Len(t) /\ Len(t) \in Nat
    BY <2>2, IsSeqConcat, IsSeqDomain
  <2>4. Len(Operands(e)) = Len(e.es) + 1
    <3>1. PICK n \in Nat : n = Len(t)
      BY <2>3
    <3>2. Len(s \o t) = n + 1
      BY <2>2, <2>3, <3>1
    <3> QED
      BY <2>1, <2>2, <3>1, <3>2
  <2>5. ExprOp(e).op = "CallValue" /\ ExprOp(e).n = Len(e.es)
    BY <1>7 DEF ExprOp
  <2> QED
    BY <2>4, <2>5 DEF Computes, Takes, Gives
<1> QED
  BY <1>1, <1>2, <1>3, <1>4, <1>5, <1>6, <1>7

\* The code of an expression leaves its value, if that of its operands does.
LEMMA ExprBodyPushes ==
    ASSUME NEW c, Shaped(c), NEW H \in [Nat -> Height], NEW parts, NEW S, NEW e \in Exprs,
           Operands(e) \in Seq(S), e.k = "call" => e.es \in Seq(S), ExprsFit(parts, S, c.fns)
    PROVE  Pushes(c, H, ExprBody(parts, c, e), 1)
<1>1. CASE IsLogic(e)
  <2>1. Operands(e) = <<e.l, e.r>>
    BY <1>1 DEF IsLogic, Operands
  <2>2. e.l \in S /\ e.r \in S
    BY <2>1
  <2>3. Pushes(c, H, CompileLogic(parts, c, e, e.op = "or"), 1)
    BY <2>2, LogicPushes
  <2> QED
    BY <1>1, <2>3 DEF ExprBody
<1>2. CASE ~IsLogic(e) /\ IsDirect(c, e)
  <2> DEFINE d == SubExprs(parts, c, e.es)
             o == [op |-> "CallUser", fn |-> c.fns[e.callee.n], n |-> Len(e.es)]
  <2>1. e.es \in Seq(S) /\ e.callee.n \in DOMAIN c.fns
    BY <1>2 DEF IsDirect
  <2>2. PICK n \in Nat : n = Len(e.es)
    BY <2>1
  <2>3. Pushes(c, H, d, 0 + n)
    BY <2>1, <2>2, SubExprsPushes
  <2>4. Computes(o, n, 1)
    BY <2>2 DEF Computes, Takes, Gives
  <2>5. \E f \in DOMAIN c.fns : o.fn = c.fns[f]
    BY <2>1
  <2> HIDE DEF d, o
  <2>6. Pushes(c, H, Emit(d, o), 0 + 1)
    BY <2>3, <2>4, <2>5, ComputePushes
  <2> QED
    BY <1>2, <2>6 DEF ExprBody, d, o
<1>3. CASE ~IsLogic(e) /\ ~IsDirect(c, e)
  <2> DEFINE d == SubExprs(parts, c, Operands(e))
             o == ExprOp(e)
  <2>1. PICK n \in Nat : n = Len(Operands(e))
    OBVIOUS
  <2>2. Pushes(c, H, d, 0 + n)
    BY <2>1, SubExprsPushes
  <2>3. Computes(o, n, 1) /\ o.op # "CallUser"
    BY <2>1, ExprOpComputes
  <2> HIDE DEF d, o
  <2>4. Pushes(c, H, Emit(d, o), 0 + 1)
    BY <2>2, <2>3, ComputePushes
  <2> QED
    BY <1>3, <2>4 DEF ExprBody, d, o
<1> QED
  BY <1>1, <1>2, <1>3

\* The recursion over the depth of the expressions.
Depths == [n \in Nat |-> n]

ExprLevel(fns, code, n) ==
    IF n = 0 THEN <<>>
    ELSE [e \in Exprs |-> [c \in Fresh(fns) |-> ExprBody(code[n - 1], c, e)]]

ExprLevels == INSTANCE HehRecursion WITH Op <- ExprLevel

\* The recursion over the depth of expressions is one: each level is made of the
\* one below.
LEMMA ExprCodeStep ==
    ASSUME NEW fns
    PROVE  \A n \in Nat : ExprCode(fns)[n] = ExprLevel(fns, ExprCode(fns), n)
<1>1. Depths \in [Nat -> Nat] /\ \A k \in Nat : Depths[k] = k
  BY DEF Depths
<1>2. ExprLevels!Local(fns, Nat, Depths)
  <2>1. SUFFICES ASSUME NEW f, NEW g, NEW k \in Nat,
                        \A y \in Nat : Depths[y] < Depths[k] => f[y] = g[y]
                 PROVE  ExprLevel(fns, f, k) = ExprLevel(fns, g, k)
    BY DEF ExprLevels!Local
  <2>2. CASE k = 0
    BY <2>2 DEF ExprLevel
  <2>3. CASE k # 0
    <3>1. k - 1 \in Nat /\ k - 1 < k
      BY <2>3
    <3>2. f[k - 1] = g[k - 1]
      BY <1>1, <2>1, <3>1
    <3> QED
      BY <2>3, <3>2 DEF ExprLevel
  <2> QED
    BY <2>2, <2>3
<1>3. \E f : f = [k \in Nat |-> ExprLevel(fns, f, k)]
  <2>1. ExprLevels!Induction
    BY AllNat DEF ExprLevels!Induction
  <2> QED
    BY <1>1, <1>2, <2>1, ExprLevels!Solution
<1> DEFINE code == CHOOSE f : f = [k \in Nat |->
                IF k = 0 THEN <<>>
                ELSE [e \in Exprs |-> [c \in Fresh(fns) |-> ExprBody(f[k - 1], c, e)]]]
<1>4. code = [k \in Nat |->
                IF k = 0 THEN <<>>
                ELSE [e \in Exprs |-> [c \in Fresh(fns) |-> ExprBody(code[k - 1], c, e)]]]
  <2>1. \E f : f = [k \in Nat |->
                IF k = 0 THEN <<>>
                ELSE [e \in Exprs |-> [c \in Fresh(fns) |-> ExprBody(f[k - 1], c, e)]]]
    BY <1>3 DEF ExprLevel
  <2> QED
    BY <2>1
<1>5. ExprCode(fns) = code
  BY DEF ExprCode
<1> HIDE DEF code
<1>6. code = [k \in Nat |-> ExprLevel(fns, code, k)]
  BY <1>4 DEF ExprLevel
<1>7. \A k \in Nat : code[k] = ExprLevel(fns, code, k)
  BY <1>6
<1> QED
  BY <1>5, <1>7

\* The nodes inside a node are of a smaller depth.
LEMMA InsideShallow ==
    ASSUME NEW x, NEW n \in Nat, Depth(x) \in Nat, Depth(x) <= n + 1, NEW nodes, NEW S,
           Inside(x, nodes, S), \A y \in S : Depth(y) \in Nat
    PROVE  nodes \in Seq({y \in S : Depth(y) <= n})
<1>1. nodes \in Seq(S) /\ \A i \in 1..Len(nodes) : nodes[i] \in S /\ Depth(nodes[i]) < Depth(x)
  BY DEF Inside, Range
<1>2. ASSUME NEW i \in 1..Len(nodes)
      PROVE  nodes[i] \in S /\ Depth(nodes[i]) <= n
  BY <1>1
<1>3. nodes = [i \in 1..Len(nodes) |-> nodes[i]] /\ Len(nodes) \in Nat
  BY <1>1
<1> DEFINE T == {y \in S : Depth(y) <= n}
<1>4. \A i \in 1..Len(nodes) : nodes[i] \in T
  BY <1>2
<1> HIDE DEF T
<1>5. nodes \in [1..Len(nodes) -> T]
  BY <1>3, <1>4
<1> QED
  BY <1>3, <1>5, IsASeq DEF T

\* The code of every expression leaves its value.
LEMMA ExprsCompiled ==
    ASSUME NEW fns
    PROVE  ExprsFit(CompileExpr(fns), Exprs, fns)
<1> DEFINE Upto(n) == {e \in Exprs : Depth(e) <= n}
           T == {n \in Nat : ExprsFit(ExprCode(fns)[n], Upto(n), fns)}
<1>1. 0 \in T
  <2>1. Upto(0) = {}
    <3>1. ASSUME NEW e \in Exprs
          PROVE  ~(Depth(e) <= 0)
      <4>1. Depth(e) \in Nat \ {0}
        BY ExprAssumption
      <4> QED
        BY <4>1
    <3> QED
      BY <3>1
  <2> QED
    BY <2>1 DEF ExprsFit
<1>2. ASSUME NEW n \in Nat, n \in T
      PROVE  n + 1 \in T
  <2>1. PICK parts : parts = ExprCode(fns)[n] /\ ExprsFit(parts, Upto(n), fns)
    BY <1>2
  <2>2. ASSUME NEW e \in Upto(n + 1), NEW b \in Fresh(fns), NEW H \in [Nat -> Height]
        PROVE  Pushes(b, H, ExprCode(fns)[n + 1][e][b], 1)
    <3>1. e \in Exprs /\ Depth(e) \in Nat /\ Depth(e) <= n + 1
      BY ExprAssumption
    <3>2. \A y \in Exprs : Depth(y) \in Nat
      BY ExprAssumption
    <3>3. Operands(e) \in Seq(Upto(n))
      <4>1. Inside(e, Operands(e), Exprs)
        BY <3>1, ExprAssumption
      <4> QED
        BY <3>1, <3>2, <4>1, InsideShallow
    <3>4. e.k = "call" => e.es \in Seq(Upto(n))
      <4>1. e.k = "call" => Inside(e, e.es, Exprs)
        BY <3>1, ExprAssumption
      <4> QED
        BY <3>1, <3>2, <4>1, InsideShallow
    <3>5. Shaped(b) /\ b.fns = fns
      BY FreshShape
    <3>6. Pushes(b, H, ExprBody(parts, b, e), 1)
      <4> HIDE DEF Upto
      <4> QED
        BY <2>1, <3>1, <3>3, <3>4, <3>5, ExprBodyPushes
    <3>7. ExprCode(fns)[n + 1][e][b] = ExprBody(parts, b, e)
      <4>1. n + 1 \in Nat /\ n + 1 # 0 /\ (n + 1) - 1 = n
        OBVIOUS
      <4>2. ExprCode(fns)[n + 1] = ExprLevel(fns, ExprCode(fns), n + 1)
        BY <4>1, ExprCodeStep
      <4>3. ExprCode(fns)[n + 1] = [e1 \in Exprs |-> [c \in Fresh(fns) |-> ExprBody(parts, c, e1)]]
        BY <2>1, <4>1, <4>2 DEF ExprLevel
      <4> QED
        BY <3>1, <4>3
    <3> QED
      BY <3>6, <3>7
  <2> HIDE DEF Upto
  <2> QED
    BY <2>2 DEF ExprsFit
<1>3. \A n \in Nat : n \in T
  <2> HIDE DEF T
  <2> QED
    BY <1>1, <1>2, AllNat
<1>4. ASSUME NEW e \in Exprs, NEW b \in Fresh(fns), NEW H \in [Nat -> Height]
      PROVE  Pushes(b, H, CompileExpr(fns)[e][b], 1)
  <2>1. Depth(e) \in Nat /\ e \in Upto(Depth(e))
    BY ExprAssumption
  <2>2. ExprsFit(ExprCode(fns)[Depth(e)], Upto(Depth(e)), fns)
    BY <1>3, <2>1
  <2>3. CompileExpr(fns)[e] = ExprCode(fns)[Depth(e)][e]
    BY DEF CompileExpr
  <2> HIDE DEF Upto
  <2>4. Pushes(b, H, ExprCode(fns)[Depth(e)][e][b], 1)
    BY <2>1, <2>2 DEF ExprsFit
  <2> QED
    BY <2>3, <2>4
<1> QED
  BY <1>4 DEF ExprsFit

-----------------------------------------------------------------------------
(* Statements.  Between two statements the operand stack is empty. *)

\* The heights between two statements, with n iterators active.
Base(c, n) == [stack |-> 0, iters |-> n, scopes |-> c.scopes + 1]

\* What a statement leaves, in value position or not.
Left(c, n, value) == IF value THEN Up(Base(c, n), 1) ELSE Base(c, n)

\* The heights to which `break` and `continue` restore.
OutOf(c, n) == [stack |-> 0, iters |-> n, scopes |-> Last(c.loops).scopes + 1]

\* With n iterators active, `continue` finds the heights where it goes.
InLoop(c, H, n) ==
    /\ Shaped(c) /\ H \in [Nat -> Height] /\ n \in Nat
    /\ c.loops # <<>> => /\ Last(c.loops).scopes <= c.scopes
                         /\ Last(c.loops).again \in 1..Here(c)
                         /\ H[Last(c.loops).again] = OutOf(c, n)

Ready(c, H, n) == InLoop(c, H, n) /\ H[Here(c)] = Base(c, n)

\* The code d behind c leaves y, and its breaks wait for what they restore.
Effect(c, H, n, d, y) == \E G, N : Leads(c, H, d, G, N \X {OutOf(c, n)}, N, y)

\* The statements of S that can stand where c is, where those of O need no loop.
Place(c, S, O) == {s \in S : c.loops = <<>> => s \in O}

\* What parts has for every expression, and for the statements of S.
PartsFit(parts, S, O, fns) ==
    /\ ExprsFit(parts.exprs, Exprs, fns)
    /\ \A s \in S : \A value \in BOOLEAN : \A b \in Fresh(fns) : \A H, n :
          (Ready(b, H, n) /\ s \in Place(b, S, O) /\ (value => LeavesValue(s))) =>
              Effect(b, H, n, parts.stmts[s][value][b], Left(b, n, value))

\* Heights between statements are heights.
LEMMA BaseHeight ==
    ASSUME NEW c, Shaped(c), NEW n \in Nat
    PROVE  /\ Base(c, n) \in Height /\ Up(Base(c, n), 1) \in Height
           /\ \A value \in BOOLEAN : Left(c, n, value) \in Height
           /\ Left(c, n, TRUE) = Up(Base(c, n), 1) /\ Left(c, n, FALSE) = Base(c, n)
           /\ c.loops # <<>> => OutOf(c, n) \in Height
<1>1. Base(c, n) \in Height
  BY HereNat DEF Base, Height
<1>2. c.loops # <<>> => OutOf(c, n) \in Height
  <2>1. c.loops # <<>> => Last(c.loops) \in OpenLoop
    BY HereNat DEF Last
  <2> QED
    BY <2>1 DEF OutOf, OpenLoop, Height
<1>3. Up(Base(c, n), 1) \in Height
  BY <1>1, UpUp
<1> QED
  BY <1>1, <1>2, <1>3 DEF Left

\* Code stays in its loop.
LEMMA InLoopOn ==
    ASSUME NEW c, NEW H, NEW n, InLoop(c, H, n), NEW d, NEW G, NEW W, NEW N, NEW y,
           Leads(c, H, d, G, W, N, y)
    PROVE  /\ InLoop(d, G, n) /\ OutOf(d, n) = OutOf(c, n) /\ Base(d, n) = Base(c, n)
           /\ \A value : Left(d, n, value) = Left(c, n, value)
           /\ \A S, O : Place(d, S, O) = Place(c, S, O)
           /\ Shaped(d) /\ G \in [Nat -> Height] /\ G[Here(d)] = y /\ d.fns = c.fns
<1>1. /\ Shaped(d) /\ G \in [Nat -> Height] /\ d.fns = c.fns /\ G[Here(d)] = y
      /\ d.scopes = c.scopes /\ \A i \in 0..Here(c) : G[i] = H[i]
  BY LeadsShape
<1>2. Shaped(c) /\ n \in Nat
  BY DEF InLoop
<1>3. c.loops = <<>> <=> d.loops = <<>>
  <2>1. Len(d.loops) = Len(c.loops)
    BY DEF Leads, Keeps
  <2> QED
    BY <1>1, <1>2, <2>1, HereNat
<1>4. Base(d, n) = Base(c, n) /\ \A value : Left(d, n, value) = Left(c, n, value)
  BY <1>1 DEF Base, Left
<1>5. \A S, O : Place(d, S, O) = Place(c, S, O)
  BY <1>3 DEF Place
<1>6. CASE c.loops = <<>>
  <2>1. OutOf(d, n) = OutOf(c, n)
    BY <1>3, <1>6 DEF OutOf
  <2>2. InLoop(d, G, n)
    BY <1>1, <1>2, <1>3, <1>6 DEF InLoop
  <2> QED
    BY <1>1, <1>4, <1>5, <2>1, <2>2
<1>7. CASE c.loops # <<>>
  <2>1. PICK l : l = Last(c.loops) /\ l \in OpenLoop
    BY <1>2, <1>7, HereNat DEF Last
  <2>2. Last(d.loops) = [l EXCEPT !.breaks = @ \cup N]
    <3>1. Len(c.loops) \in 1..Len(c.loops) /\ Len(d.loops) = Len(c.loops)
      BY <1>2, <1>7, HereNat DEF Leads, Keeps
    <3> QED
      BY <2>1, <3>1 DEF Leads, Keeps, Last
  <2>3. Last(d.loops).scopes = l.scopes /\ Last(d.loops).again = l.again
    BY <2>1, <2>2 DEF OpenLoop
  <2>4. OutOf(d, n) = OutOf(c, n)
    BY <2>1, <2>3 DEF OutOf
  <2>5. l.scopes <= c.scopes /\ l.again \in 1..Here(c) /\ H[l.again] = OutOf(c, n)
    BY <1>7, <2>1 DEF InLoop
  <2>6. Here(c) <= Here(d) /\ Here(c) \in Nat /\ Here(d) \in Nat
    <3>1. Extends(c, H, c, H) /\ Extends(c, H, d, G)
      <4>1. Leads(c, H, c, H, {}, {}, H[Here(c)])
        BY <1>2, LeadsNowhere DEF InLoop
      <4> QED
        BY <4>1 DEF Leads, Adds
    <3> QED
      BY <1>1, <1>2, <3>1, ExtendsOn, HereNat
  <2>7. l.again \in 1..Here(d) /\ G[l.again] = OutOf(d, n)
    <3>1. l.again \in 0..Here(c) /\ l.again \in 1..Here(d)
      BY <2>5, <2>6
    <3> QED
      BY <1>1, <2>4, <2>5, <3>1
  <2>8. InLoop(d, G, n)
    BY <1>1, <1>2, <2>3, <2>5, <2>7 DEF InLoop
  <2> QED
    BY <1>1, <1>4, <1>5, <2>4, <2>8
<1> QED
  BY <1>6, <1>7

\* One effect after the other.
LEMMA EffectOn ==
    ASSUME NEW c, NEW H, NEW n, InLoop(c, H, n), NEW d, NEW y, Effect(c, H, n, d, y),
           NEW e, NEW z,
           \A G : (InLoop(d, G, n) /\ G[Here(d)] = y /\ d.fns = c.fns /\ Base(d, n) = Base(c, n)
                    /\ \A S, O : Place(d, S, O) = Place(c, S, O)) =>
                      Effect(d, G, n, e, z)
    PROVE  Effect(c, H, n, e, z)
<1>1. PICK G, N : Leads(c, H, d, G, N \X {OutOf(c, n)}, N, y)
  BY DEF Effect
<1>2. Effect(d, G, n, e, z) /\ OutOf(d, n) = OutOf(c, n)
  BY <1>1, InLoopOn
<1>3. PICK K, M : Leads(d, G, e, K, M \X {OutOf(c, n)}, M, z)
  BY <1>2 DEF Effect
<1>4. Leads(c, H, e, K, (N \X {OutOf(c, n)}) \cup (M \X {OutOf(c, n)}), N \cup M, z)
  BY <1>1, <1>3, LeadsOn DEF InLoop
<1>5. (N \X {OutOf(c, n)}) \cup (M \X {OutOf(c, n)}) = (N \cup M) \X {OutOf(c, n)}
  OBVIOUS
<1>6. Leads(c, H, e, K, (N \cup M) \X {OutOf(c, n)}, N \cup M, z)
  BY <1>4, <1>5
<1> QED
  BY <1>6 DEF Effect

\* Code without breaks.
LEMMA LeadsEffect ==
    ASSUME NEW c, NEW H, NEW n, NEW d, NEW y, \E G : Leads(c, H, d, G, {}, {}, y)
    PROVE  Effect(c, H, n, d, y)
<1>1. PICK G : Leads(c, H, d, G, {}, {}, y)
  OBVIOUS
<1>2. {} \X {OutOf(c, n)} = {}
  OBVIOUS
<1>3. Leads(c, H, d, G, {} \X {OutOf(c, n)}, {}, y)
  BY <1>1, <1>2
<1> QED
  BY <1>3 DEF Effect

\* An op that computes, behind code.
LEMMA ComputeEffect ==
    ASSUME NEW c, NEW H, NEW n, InLoop(c, H, n), NEW d, NEW x \in Height, NEW k \in Nat,
           NEW g \in Nat, Effect(c, H, n, d, Up(x, k)), NEW o, Computes(o, k, g),
           o.op # "CallUser"
    PROVE  Effect(c, H, n, Emit(d, o), Up(x, g))
<1>1. ASSUME NEW G, InLoop(d, G, n), G[Here(d)] = Up(x, k)
      PROVE  Effect(d, G, n, Emit(d, o), Up(x, g))
  <2>1. Shaped(d) /\ G \in [Nat -> Height]
    BY <1>1 DEF InLoop
  <2>2. \E K : Leads(d, G, Emit(d, o), K, {}, {}, Up(x, g))
    BY <1>1, <2>1, ComputeLeads
  <2> QED
    BY <2>2, LeadsEffect
<1> QED
  BY <1>1, EffectOn

\* An expression, behind code.
LEMMA ExprEffect ==
    ASSUME NEW c, NEW H, NEW n, InLoop(c, H, n), NEW d, NEW x \in Height,
           Effect(c, H, n, d, x), NEW parts, NEW e \in Exprs, ExprsFit(parts, Exprs, c.fns)
    PROVE  Effect(c, H, n, SubExpr(parts, d, e), Up(x, 1))
<1>1. ASSUME NEW G, InLoop(d, G, n), G[Here(d)] = x, d.fns = c.fns
      PROVE  Effect(d, G, n, SubExpr(parts, d, e), Up(x, 1))
  <2>1. Shaped(d) /\ G \in [Nat -> Height] /\ ExprsFit(parts, Exprs, d.fns)
    BY <1>1 DEF InLoop
  <2>2. \E K : Leads(d, G, SubExpr(parts, d, e), K, {}, {}, Up(x, 1))
    BY <1>1, <2>1, SubExprPushes DEF Pushes
  <2> QED
    BY <2>2, LeadsEffect
<1> QED
  BY <1>1, EffectOn

\* No code.
LEMMA EffectNowhere ==
    ASSUME NEW c, NEW H, NEW n, InLoop(c, H, n)
    PROVE  Effect(c, H, n, c, H[Here(c)])
<1>1. Leads(c, H, c, H, {}, {}, H[Here(c)])
  BY LeadsNowhere DEF InLoop
<1> QED
  BY <1>1, LeadsEffect

\* One statement.
LEMMA SubStmtEffect ==
    ASSUME NEW c, NEW H, NEW n, Ready(c, H, n), NEW parts, NEW S, NEW O,
           PartsFit(parts, S, O, c.fns), NEW s \in Place(c, S, O), NEW value \in BOOLEAN,
           value => LeavesValue(s)
    PROVE  Effect(c, H, n, SubStmt(parts, c, s, value), Left(c, n, value))
<1> DEFINE b == Behind(c)
<1>1. Shaped(c) /\ n \in Nat
  BY DEF Ready, InLoop
<1>2. /\ Shaped(b) /\ b \in Fresh(c.fns) /\ Here(b) = Here(c)
      /\ b.loops = c.loops /\ b.scopes = c.scopes
  BY <1>1, BehindShape
<1> HIDE DEF b
<1>3. Base(b, n) = Base(c, n) /\ OutOf(b, n) = OutOf(c, n) /\ Left(b, n, value) = Left(c, n, value)
  BY <1>2 DEF Base, OutOf, Left
<1>4. Ready(b, H, n) /\ Place(b, S, O) = Place(c, S, O)
  BY <1>2, <1>3 DEF Ready, InLoop, Place
<1>5. s \in S
  BY DEF Place
<1>6. Effect(b, H, n, parts.stmts[s][value][b], Left(b, n, value))
  BY <1>2, <1>4, <1>5 DEF PartsFit
<1>7. PICK G, N : Leads(b, H, parts.stmts[s][value][b], G, N \X {OutOf(c, n)}, N, Left(c, n, value))
  BY <1>3, <1>6 DEF Effect
<1>8. Leads(c, H, SubStmt(parts, c, s, value), G, N \X {OutOf(c, n)}, N, Left(c, n, value))
  BY <1>1, <1>7, JoinLeads DEF SubStmt, b
<1> QED
  BY <1>8 DEF Effect

\* The loop over the statements of a block.
SubStmtRound(parts, c, s) == SubStmt(parts, c, s, FALSE)
SubStmtRounds == INSTANCE HehRecursion WITH Op <- SubStmtRound

\* Statements one after the other.
LEMMA SubStmtsEffect ==
    ASSUME NEW c, NEW H, NEW n, Ready(c, H, n), NEW parts, NEW S, NEW O,
           PartsFit(parts, S, O, c.fns), NEW body \in Seq(Place(c, S, O))
    PROVE  Effect(c, H, n, SubStmts(parts, c, body), Base(c, n))
<1>1. PICK m \in Nat : m = Len(body) /\ DOMAIN body = 1..m
  OBVIOUS
<1>2. SubStmts(parts, c, body) = SubStmtRounds!FoldL(parts, c, body, 1..m)
  BY <1>1 DEF SubStmts, FoldLeft, MapThenFoldSet, Max, SubStmtRounds!FoldL,
              SubStmtRounds!Top, SubStmtRound
<1>3. PICK R : /\ SubStmtRounds!LeftRounds(R, parts, c, body)
               /\ SubStmtRounds!FoldL(parts, c, body, 1..m) = R[m]
  <2>1. SubStmtRounds!Induction
    BY AllNat DEF SubStmtRounds!Induction
  <2> QED
    BY <2>1, SubStmtRounds!LeftFold
<1>4. R[0] = c /\ \A k \in Nat : R[k + 1] = SubStmt(parts, R[k], body[k + 1], FALSE)
  BY <1>3 DEF SubStmtRounds!LeftRounds, SubStmtRound
<1> DEFINE T == {k \in Nat : k <= m => Effect(c, H, n, R[k], Base(c, n))}
<1>5. 0 \in T
  BY <1>4, EffectNowhere DEF Ready
<1>6. ASSUME NEW k \in Nat, k \in T
      PROVE  k + 1 \in T
  <2>1. SUFFICES ASSUME k + 1 <= m
                 PROVE  Effect(c, H, n, R[k + 1], Base(c, n))
    OBVIOUS
  <2>2. Effect(c, H, n, R[k], Base(c, n))
    BY <1>6, <2>1
  <2>3. body[k + 1] \in Place(c, S, O)
    BY <1>1, <2>1
  <2>4. ASSUME NEW G, InLoop(R[k], G, n), G[Here(R[k])] = Base(c, n), R[k].fns = c.fns,
               Base(R[k], n) = Base(c, n), Place(R[k], S, O) = Place(c, S, O)
        PROVE  Effect(R[k], G, n, R[k + 1], Base(c, n))
    <3>1. Ready(R[k], G, n)
      BY <2>4 DEF Ready
    <3>2. Left(R[k], n, FALSE) = Base(c, n)
      BY <2>4 DEF Left
    <3>3. Effect(R[k], G, n, SubStmt(parts, R[k], body[k + 1], FALSE), Base(c, n))
      BY <2>3, <2>4, <3>1, <3>2, SubStmtEffect
    <3> QED
      BY <1>4, <3>3
  <2> QED
    BY <2>2, <2>4, EffectOn DEF Ready
<1> HIDE DEF T
<1>7. m \in T
  BY <1>5, <1>6, AllNat
<1> QED
  BY <1>1, <1>2, <1>3, <1>7 DEF T

\* A value that is pushed.
LEMMA PushEffect ==
    ASSUME NEW c, NEW H, NEW n, InLoop(c, H, n), NEW d, NEW x \in Height, Effect(c, H, n, d, x),
           NEW v
    PROVE  Effect(c, H, n, Emit(d, PushConstOp(v)), Up(x, 1))
<1> DEFINE o == PushConstOp(v)
<1>1. Computes(o, 0, 1) /\ o.op # "CallUser"
  BY DEF Computes, PushConstOp, Takes, Gives
<1>2. Effect(c, H, n, d, Up(x, 0))
  BY UpUp
<1> HIDE DEF o
<1>3. Effect(c, H, n, Emit(d, o), Up(x, 1))
  BY <1>1, <1>2, ComputeEffect
<1> QED
  BY <1>3 DEF o

\* A block leaves a value where it is asked for one.
LEMMA BlockEffect ==
    ASSUME NEW c, NEW H, NEW n, Ready(c, H, n), NEW parts, NEW S, NEW O,
           PartsFit(parts, S, O, c.fns), NEW body \in Seq(Place(c, S, O)), NEW value \in BOOLEAN
    PROVE  Effect(c, H, n, CompileBlock(parts, c, body, value), Left(c, n, value))
<1>1. InLoop(c, H, n) /\ Shaped(c) /\ n \in Nat
  BY DEF Ready, InLoop
<1>2. CASE ~value
  <2>1. value = FALSE
    BY <1>2
  <2>2. CompileBlock(parts, c, body, value) = SubStmts(parts, c, body) /\ Left(c, n, value) = Base(c, n)
    BY <2>1 DEF CompileBlock, Left
  <2> QED
    BY <2>2, SubStmtsEffect
<1>3. CASE value /\ body # <<>> /\ LeavesValue(Last(body))
  <2> DEFINE d == SubStmts(parts, c, Front(body))
             e == SubStmt(parts, d, Last(body), TRUE)
  <2>1. Front(body) \in Seq(Place(c, S, O)) /\ Last(body) \in Place(c, S, O)
    BY <1>3 DEF Front, Last
  <2>2. Effect(c, H, n, d, Base(c, n))
    BY <2>1, SubStmtsEffect
  <2>3. CompileBlock(parts, c, body, value) = e /\ Left(c, n, value) = Up(Base(c, n), 1)
    BY <1>3 DEF CompileBlock, Left
  <2> HIDE DEF d
  <2>4. ASSUME NEW G, InLoop(d, G, n), G[Here(d)] = Base(c, n), d.fns = c.fns,
               Base(d, n) = Base(c, n), Place(d, S, O) = Place(c, S, O)
        PROVE  Effect(d, G, n, e, Up(Base(c, n), 1))
    <3>1. Ready(d, G, n) /\ Left(d, n, TRUE) = Up(Base(c, n), 1)
      BY <2>4 DEF Ready, Left
    <3> QED
      BY <1>3, <2>1, <2>4, <3>1, SubStmtEffect
  <2> HIDE DEF e
  <2>5. Effect(c, H, n, e, Up(Base(c, n), 1))
    BY <1>1, <2>2, <2>4, EffectOn
  <2> QED
    BY <2>3, <2>5
<1>4. CASE value /\ ~(body # <<>> /\ LeavesValue(Last(body)))
  <2>1. Effect(c, H, n, SubStmts(parts, c, body), Base(c, n))
    BY SubStmtsEffect
  <2>2. Effect(c, H, n, Emit(SubStmts(parts, c, body), PushConstOp(None)), Up(Base(c, n), 1))
    BY <1>1, <2>1, BaseHeight, PushEffect
  <2>3. /\ CompileBlock(parts, c, body, value) = Emit(SubStmts(parts, c, body), PushConstOp(None))
        /\ Left(c, n, value) = Up(Base(c, n), 1)
    BY <1>4 DEF CompileBlock, Left
  <2> QED
    BY <2>2, <2>3
<1> QED
  BY <1>2, <1>3, <1>4


-----------------------------------------------------------------------------
(* Assignments to what a value holds. *)

\* The steps of a tail.
Steps(tail) == {step \in Range(tail) : IsStep(step)}

\* What a step takes and gives, its index counted.
LEMMA StepOps ==
    ASSUME NEW step
    PROVE  /\ IsStep(step) => Computes(ReadOp(step), 1, 1) /\ Computes(WriteOp(step), 2, 0)
           /\ ~IsStep(step) => Computes(ReadOp(step), 2, 1) /\ Computes(WriteOp(step), 3, 0)
           /\ ReadOp(step).op # "CallUser" /\ WriteOp(step).op # "CallUser"
<1>1. CASE IsStep(step)
  <2>1. ReadOp(step) = NameOp("Field", step.f) /\ WriteOp(step) = NameOp("SetField", step.f)
    BY <1>1 DEF ReadOp, WriteOp
  <2>2. ReadOp(step).op = "Field" /\ WriteOp(step).op = "SetField"
    BY <2>1 DEF NameOp
  <2> QED
    BY <1>1, <2>2 DEF Computes, Takes, Gives
<1>2. CASE ~IsStep(step)
  <2>1. ReadOp(step).op = "Index" /\ WriteOp(step).op = "SetIndex"
    BY <1>2 DEF ReadOp, WriteOp, OpOf
  <2> QED
    BY <1>2, <2>1 DEF Computes, Takes, Gives
<1> QED
  BY <1>1, <1>2

\* The index of a step.
LEMMA IndexEffect ==
    ASSUME NEW c, NEW H, NEW n, InLoop(c, H, n), NEW d, NEW x \in Height,
           Effect(c, H, n, d, x), NEW parts, ExprsFit(parts.exprs, Exprs, c.fns),
           NEW step, step \in Exprs \/ IsStep(step)
    PROVE  Effect(c, H, n, CompileIndex(parts, d, step), IF IsStep(step) THEN x ELSE Up(x, 1))
<1>1. CASE IsStep(step)
  BY <1>1 DEF CompileIndex
<1>2. CASE ~IsStep(step)
  <2>1. step \in Exprs /\ CompileIndex(parts, d, step) = SubExpr(parts.exprs, d, step)
    BY <1>2 DEF CompileIndex
  <2>2. Effect(c, H, n, SubExpr(parts.exprs, d, step), Up(x, 1))
    BY <2>1, ExprEffect
  <2> QED
    BY <1>2, <2>1, <2>2
<1> QED
  BY <1>1, <1>2

\* A container is replaced by what it holds.
LEMMA StepEffect ==
    ASSUME NEW c, NEW H, NEW n, InLoop(c, H, n), NEW d, NEW x \in Height,
           Effect(c, H, n, d, Up(x, 1)), NEW parts, ExprsFit(parts.exprs, Exprs, c.fns),
           NEW step, step \in Exprs \/ IsStep(step)
    PROVE  Effect(c, H, n, CompileStep(parts, d, step), Up(x, 1))
<1> DEFINE e == CompileIndex(parts, d, step)
           o == ReadOp(step)
<1>1. Up(x, 1) \in Height /\ Up(Up(x, 1), 1) = Up(x, 2)
  BY UpUp
<1>2. Effect(c, H, n, e, IF IsStep(step) THEN Up(x, 1) ELSE Up(x, 2))
  BY <1>1, IndexEffect
<1>3. CompileStep(parts, d, step) = Emit(e, o)
  BY DEF CompileStep
<1>4. /\ IsStep(step) => Computes(o, 1, 1)
      /\ ~IsStep(step) => Computes(o, 2, 1)
      /\ o.op # "CallUser"
  BY StepOps
<1> HIDE DEF e, o
<1>5. CASE IsStep(step)
  <2>1. Effect(c, H, n, e, Up(x, 1)) /\ Computes(o, 1, 1)
    BY <1>2, <1>4, <1>5
  <2>2. Effect(c, H, n, Emit(e, o), Up(x, 1))
    BY <1>4, <2>1, ComputeEffect
  <2> QED
    BY <1>3, <2>2
<1>6. CASE ~IsStep(step)
  <2>1. Effect(c, H, n, e, Up(x, 2)) /\ Computes(o, 2, 1)
    BY <1>2, <1>4, <1>6
  <2>2. Effect(c, H, n, Emit(e, o), Up(x, 1))
    BY <1>4, <2>1, ComputeEffect
  <2> QED
    BY <1>3, <2>2
<1> QED
  BY <1>5, <1>6

\* The loop over the steps of a tail.
StepRounds == INSTANCE HehRecursion WITH Op <- CompileStep

\* The container of the last step.
LEMMA StepsEffect ==
    ASSUME NEW c, NEW H, NEW n, InLoop(c, H, n), NEW d, NEW x \in Height,
           Effect(c, H, n, d, Up(x, 1)), NEW parts, ExprsFit(parts.exprs, Exprs, c.fns),
           NEW T, \A t \in T : IsStep(t), NEW steps \in Seq(Exprs \cup T)
    PROVE  Effect(c, H, n, CompileSteps(parts, d, steps), Up(x, 1))
<1>1. PICK m \in Nat : m = Len(steps) /\ DOMAIN steps = 1..m
  OBVIOUS
<1>2. CompileSteps(parts, d, steps) = StepRounds!FoldL(parts, d, steps, 1..m)
  BY <1>1 DEF CompileSteps, FoldLeft, MapThenFoldSet, Max, StepRounds!FoldL, StepRounds!Top
<1>3. PICK R : /\ StepRounds!LeftRounds(R, parts, d, steps)
               /\ StepRounds!FoldL(parts, d, steps, 1..m) = R[m]
  <2>1. StepRounds!Induction
    BY AllNat DEF StepRounds!Induction
  <2> QED
    BY <2>1, StepRounds!LeftFold
<1>4. R[0] = d /\ \A k \in Nat : R[k + 1] = CompileStep(parts, R[k], steps[k + 1])
  BY <1>3 DEF StepRounds!LeftRounds
<1> DEFINE U == {k \in Nat : k <= m => Effect(c, H, n, R[k], Up(x, 1))}
<1>5. 0 \in U
  BY <1>4
<1>6. ASSUME NEW k \in Nat, k \in U
      PROVE  k + 1 \in U
  <2>1. SUFFICES ASSUME k + 1 <= m
                 PROVE  Effect(c, H, n, R[k + 1], Up(x, 1))
    OBVIOUS
  <2>2. Effect(c, H, n, R[k], Up(x, 1))
    BY <1>6, <2>1
  <2>3. steps[k + 1] \in Exprs \/ IsStep(steps[k + 1])
    BY <1>1, <2>1
  <2>4. Effect(c, H, n, CompileStep(parts, R[k], steps[k + 1]), Up(x, 1))
    BY <2>2, <2>3, StepEffect
  <2> QED
    BY <1>4, <2>4
<1> HIDE DEF U
<1>7. m \in U
  BY <1>5, <1>6, AllNat
<1> QED
  BY <1>1, <1>2, <1>3, <1>7 DEF U

\* An assignment through a tail leaves nothing.
LEMMA TailAssignEffect ==
    ASSUME NEW c, NEW H, NEW n, Ready(c, H, n), NEW parts, ExprsFit(parts.exprs, Exprs, c.fns),
           NEW s \in Stmts, s.k = "assign", s.tail # <<>>
    PROVE  Effect(c, H, n, CompileTailAssign(parts, c, s), Base(c, n))
<1> DEFINE x == Base(c, n)
           last == Last(s.tail)
           load == Emit(c, NameOp("Load", s.n))
           held == CompileSteps(parts, load, Front(s.tail))
           slot == CompileIndex(parts, held, last)
           read == CompileRead(slot, s, last)
           rhs  == SubExpr(parts.exprs, read, s.e)
           sum  == Combined(rhs, s)
           k    == IF IsStep(last) THEN 1 ELSE 2
<1>1. InLoop(c, H, n) /\ Shaped(c) /\ n \in Nat /\ x \in Height /\ H[Here(c)] = x
  BY BaseHeight DEF Ready, InLoop
<1>2. PICK T : /\ \A t \in T : IsStep(t)
               /\ s.tail \in Seq(Exprs \cup T)
  BY StmtAssumption
<1>3. Front(s.tail) \in Seq(Exprs \cup T) /\ (last \in Exprs \/ IsStep(last))
  <2>1. Front(s.tail) \in Seq(Exprs \cup T) /\ last \in Exprs \cup T
    BY <1>2 DEF Front, Last
  <2> QED
    BY <1>2, <2>1
<1>4. s.e \in Exprs
  <2>1. Heads(s) = <<s.e>>
    BY DEF Heads
  <2>2. Heads(s) \in Seq(Exprs)
    BY StmtAssumption
  <2>3. PICK h \in Seq(Exprs) : h = <<s.e>>
    BY <2>1, <2>2
  <2>4. Len(h) = 1 /\ h[1] = s.e
    BY <2>3
  <2>5. 1 \in 1..Len(h)
    BY <2>4
  <2>6. h[1] \in Exprs
    BY <2>3, <2>5
  <2> QED
    BY <2>4, <2>6
<1>5. CompileTailAssign(parts, c, s) = Emit(sum, WriteOp(last))
  BY DEF CompileTailAssign, CompileSlot
<1> HIDE DEF x, last
<1>6. \A i \in Nat : /\ Up(x, i) \in Height
                    /\ \A j \in Nat : Up(Up(x, i), j) = Up(x, i + j)
  BY <1>1, UpUp
<1>7. k \in {1, 2} /\ (IsStep(last) <=> k = 1)
  <2>1. CASE IsStep(last)
    BY <2>1
  <2>2. CASE ~IsStep(last)
    <3>1. k = 2
      BY <2>2
    <3> QED
      BY <2>2, <3>1
  <2> QED
    BY <2>1, <2>2
<1>71. ASSUME NEW j, j = k
      PROVE  /\ j \in Nat /\ Up(x, j) \in Height /\ Up(x, j + 1) \in Height
             /\ Up(Up(x, j), 1) = Up(x, j + 1) /\ Up(Up(x, j), 2) = Up(x, j + 2)
             /\ Up(Up(x, j), j) = Up(x, j + j) /\ Up(Up(x, j + 1), 1) = Up(x, j + 2)
  <2>1. j \in Nat /\ j + 1 \in Nat /\ (j + 1) + 1 = j + 2
    BY <1>7, <1>71
  <2>2. Up(Up(x, j + 1), 1) = Up(x, (j + 1) + 1)
    BY <1>6, <2>1
  <2> QED
    BY <1>6, <2>1, <2>2
<1>72. PICK j : j = k
  OBVIOUS
<1>8. Effect(c, H, n, load, Up(x, 1))
  <2>1. Computes(NameOp("Load", s.n), 0, 1) /\ NameOp("Load", s.n).op # "CallUser"
    BY DEF Computes, NameOp, Takes, Gives
  <2>2. Effect(c, H, n, c, Up(x, 0))
    <3>1. Up(x, 0) = H[Here(c)]
      BY <1>1, UpUp
    <3> QED
      BY <1>1, <3>1, EffectNowhere
  <2> QED
    BY <1>1, <2>1, <2>2, ComputeEffect
<1>9. Effect(c, H, n, held, Up(x, 1))
  <2> HIDE DEF load
  <2> QED
    BY <1>1, <1>2, <1>3, <1>8, StepsEffect
<1> HIDE DEF held
<1>10. Effect(c, H, n, slot, Up(x, k))
  <2>1. Effect(c, H, n, slot, IF IsStep(last) THEN Up(x, 1) ELSE Up(Up(x, 1), 1))
    BY <1>1, <1>3, <1>6, <1>9, IndexEffect
  <2>2. Up(Up(x, 1), 1) = Up(x, 2)
    <3>1. Up(Up(x, 1), 1) = Up(x, 1 + 1)
      BY <1>6
    <3> QED
      BY <3>1
  <2> QED
    BY <2>1, <2>2
<1> HIDE DEF slot
<1>11. CASE s.op = ""
  <2>1. read = slot /\ sum = rhs
    BY <1>11 DEF CompileRead, Combined
  <2> HIDE DEF k, read
  <2>2. Effect(c, H, n, rhs, Up(x, k + 1))
    <3>1. Effect(c, H, n, read, Up(x, k)) /\ Up(x, k) \in Height /\ Up(Up(x, k), 1) = Up(x, k + 1)
      BY <1>6, <1>7, <1>10, <2>1
    <3> QED
      BY <1>1, <1>4, <3>1, ExprEffect
  <2>3. Computes(WriteOp(last), k + 1, 0) /\ WriteOp(last).op # "CallUser"
    BY <1>7, StepOps
  <2> HIDE DEF rhs, sum
  <2>4. Effect(c, H, n, Emit(sum, WriteOp(last)), Up(x, 0))
    BY <1>1, <1>7, <2>1, <2>2, <2>3, ComputeEffect
  <2> QED
    BY <1>1, <1>5, <2>4, UpUp DEF x
<1>12. CASE s.op # ""
  <2> DEFINE dup == Emit(slot, NameOp("Dup", k))
  <2>1. read = Emit(dup, ReadOp(last)) /\ sum = Emit(rhs, [op |-> "Binop", b |-> s.op])
    BY <1>12 DEF CompileRead, Combined
  <2> HIDE DEF k, read
  <2>2. Effect(c, H, n, dup, Up(x, k + k))
    <3>1. Computes(NameOp("Dup", k), k, k + k) /\ NameOp("Dup", k).op # "CallUser"
      BY <1>7 DEF Computes, NameOp, Takes, Gives
    <3> QED
      BY <1>1, <1>7, <1>10, <3>1, ComputeEffect
  <2> HIDE DEF dup
  <2>3. Effect(c, H, n, read, Up(x, k + 1))
    <3>1. Up(x, k + k) = Up(Up(x, k), k) /\ Up(x, k + 1) = Up(Up(x, k), 1) /\ Up(x, k) \in Height
      BY <1>71, <1>72
    <3>2. Computes(ReadOp(last), k, 1) /\ ReadOp(last).op # "CallUser"
      BY <1>7, StepOps
    <3>3. Effect(c, H, n, Emit(dup, ReadOp(last)), Up(Up(x, k), 1))
      BY <1>1, <1>7, <2>2, <3>1, <3>2, ComputeEffect
    <3> QED
      BY <2>1, <3>1, <3>3
  <2>4. Effect(c, H, n, rhs, Up(Up(x, k), 2))
    <3>1. /\ Up(x, k + 1) \in Height /\ Up(x, k) \in Height
          /\ Up(Up(x, k + 1), 1) = Up(x, k + 2) /\ Up(Up(x, k), 2) = Up(x, k + 2)
      BY <1>71, <1>72
    <3> QED
      BY <1>1, <1>4, <2>3, <3>1, ExprEffect
  <2> HIDE DEF rhs
  <2>5. Effect(c, H, n, sum, Up(x, k + 1))
    <3>1. Up(x, k) \in Height /\ Up(Up(x, k), 1) = Up(x, k + 1)
      BY <1>71, <1>72
    <3> DEFINE o == [op |-> "Binop", b |-> s.op]
    <3>2. Computes(o, 2, 1) /\ o.op # "CallUser"
      BY DEF Computes, Takes, Gives
    <3> HIDE DEF o
    <3>3. Effect(c, H, n, Emit(rhs, o), Up(Up(x, k), 1))
      BY <1>1, <2>4, <3>1, <3>2, ComputeEffect
    <3> QED
      BY <2>1, <3>1, <3>3 DEF o
  <2> HIDE DEF sum
  <2>6. Computes(WriteOp(last), k + 1, 0) /\ WriteOp(last).op # "CallUser"
    BY <1>7, StepOps
  <2>7. Effect(c, H, n, Emit(sum, WriteOp(last)), Up(x, 0))
    BY <1>1, <1>7, <2>5, <2>6, ComputeEffect
  <2> QED
    BY <1>1, <1>5, <2>7, UpUp DEF x
<1> QED
  BY <1>11, <1>12

-----------------------------------------------------------------------------
(* Ifs and matches. *)

\* The then-block of a test for presence has a scope of its own.
LEMMA ThenEffect ==
    ASSUME NEW c, NEW H, NEW n, Ready(c, H, n), NEW parts, NEW S, NEW O,
           PartsFit(parts, S, O, c.fns), NEW s, s.body \in Seq(Place(c, S, O)),
           NEW value \in BOOLEAN
    PROVE  Effect(c, H, n, CompileThen(parts, c, s, value), Left(c, n, value))
<1>1. /\ InLoop(c, H, n) /\ Shaped(c) /\ n \in Nat /\ H \in [Nat -> Height]
      /\ H[Here(c)] = Base(c, n) /\ c.scopes \in Nat
  BY HereNat DEF Ready, InLoop
<1>2. CASE ~TestsPresence(s.e)
  <2>1. CompileThen(parts, c, s, value) = CompileBlock(parts, c, s.body, value)
    BY <1>2 DEF CompileThen, OpenNarrowed, CloseNarrowed
  <2> QED
    BY <2>1, BlockEffect
<1>3. CASE TestsPresence(s.e)
  <2> DEFINE c1 == Emit(c, OpOf("PushScope"))
             c2 == [c1 EXCEPT !.scopes = @ + 1]
             c3 == Emit(c2, NameOp("NarrowOption", NoneTested(s.e)))
             d  == CompileBlock(parts, c3, s.body, value)
             e  == [d EXCEPT !.scopes = @ - 1]
  <2>1. CompileThen(parts, c, s, value) = Emit(e, OpOf("PopScope"))
    BY <1>3 DEF CompileThen, OpenNarrowed, CloseNarrowed
  <2>2. PICK G1 : Leads(c, H, c1, G1, {}, {}, [stack |-> 0, iters |-> n, scopes |-> c.scopes + 2])
    <3> DEFINE o == OpOf("PushScope")
               z == [stack |-> 0, iters |-> n, scopes |-> c.scopes + 2]
    <3>1. o.op = "PushScope" /\ Takes(o) = 0 /\ Gives(o) = 0 /\ ~Jumps(o)
      BY DEF OpOf, Takes, Gives, Jumps
    <3>2. z \in Height
      <4>1. n \in Nat /\ c.scopes + 2 \in Nat \ {0}
        BY <1>1
      <4> QED
        BY <4>1 DEF Height
    <3>3. After(o, H[Here(c)]) = z
      <4>1. H[Here(c)] = [stack |-> 0, iters |-> n, scopes |-> c.scopes + 1]
        BY <1>1 DEF Base
      <4>2. After(o, [stack |-> 0, iters |-> n, scopes |-> c.scopes + 1]) =
              [stack |-> 0 - 0 + 0, iters |-> n, scopes |-> (c.scopes + 1) + 1]
        BY <3>1 DEF After, ItersAfter, ScopesAfter
      <4> QED
        BY <1>1, <4>1, <4>2
    <3>4. Works(o, H[Here(c)], c.fns)
      BY <1>1, <3>1 DEF Works, Base
    <3> HIDE DEF o, z
    <3> QED
      BY <1>1, <3>1, <3>2, <3>3, <3>4, PlainLeads DEF o, z
  <2>3. /\ Shaped(c1) /\ G1 \in [Nat -> Height] /\ c1.fns = c.fns /\ c1.scopes = c.scopes
        /\ c1.loops = c.loops /\ InLoop(c1, G1, n) /\ OutOf(c1, n) = OutOf(c, n)
        /\ G1[Here(c1)] = [stack |-> 0, iters |-> n, scopes |-> c.scopes + 2]
    BY <1>1, <2>2, InLoopOn, EmitShape
  <2> HIDE DEF c1
  <2>4. /\ Shaped(c2) /\ c2.at = c1.at /\ c2.ops = c1.ops /\ c2.fns = c1.fns
        /\ c2.loops = c1.loops /\ c2.scopes = c1.scopes + 1
    <3>1. PICK a, o, l, k, f : c1 = [at |-> a, ops |-> o, loops |-> l, scopes |-> k, fns |-> f]
      BY <2>3 DEF Shaped
    <3>2. c2 = [at |-> a, ops |-> o, loops |-> l, scopes |-> k + 1, fns |-> f]
      BY <3>1
    <3>3. k \in Nat /\ a \in Nat /\ IsSeq(o) /\ l \in Seq(OpenLoop)
      BY <2>3, <3>1 DEF Shaped
    <3> HIDE DEF c2
    <3> QED
      BY <3>1, <3>2, <3>3 DEF Shaped
  <2> HIDE DEF c2
  <2>5. Here(c2) = Here(c1) /\ Adds(c, H, c2, G1, {})
    <3>1. Adds(c, H, c1, G1, {})
      BY <2>2 DEF Leads
    <3> QED
      BY <2>3, <2>4, <3>1, SameCode
  <2>6. OutOf(c2, n) = OutOf(c, n) /\ Base(c2, n) = [stack |-> 0, iters |-> n, scopes |-> c.scopes + 2]
    <3>1. c2.scopes + 1 = c.scopes + 2
      BY <1>1, <2>3, <2>4
    <3> QED
      BY <2>3, <2>4, <3>1 DEF OutOf, Base
  <2>7. Ready(c2, G1, n)
    <3>1. c2.loops # <<>> => /\ Last(c2.loops).scopes <= c2.scopes
                             /\ Last(c2.loops).again \in 1..Here(c2)
                             /\ G1[Last(c2.loops).again] = OutOf(c2, n)
      <4> SUFFICES ASSUME c2.loops # <<>>
                   PROVE  /\ Last(c2.loops).scopes <= c2.scopes
                          /\ Last(c2.loops).again \in 1..Here(c2)
                          /\ G1[Last(c2.loops).again] = OutOf(c2, n)
        OBVIOUS
      <4>1. /\ Last(c1.loops).scopes <= c1.scopes /\ Last(c1.loops).again \in 1..Here(c1)
            /\ G1[Last(c1.loops).again] = OutOf(c1, n)
        BY <2>3, <2>4 DEF InLoop
      <4>2. Last(c1.loops).scopes \in Nat
        <5>1. c.loops \in Seq(OpenLoop) /\ c.loops # <<>> /\ c1.loops = c.loops
          BY <1>1, <2>3, <2>4, HereNat
        <5>2. Last(c.loops) \in OpenLoop
          BY <5>1 DEF Last
        <5> QED
          BY <5>1, <5>2 DEF OpenLoop
      <4>3. Last(c1.loops).scopes <= c1.scopes + 1
        BY <1>1, <2>3, <4>1, <4>2
      <4> QED
        BY <2>3, <2>4, <2>5, <2>6, <4>1, <4>3
    <3> QED
      BY <1>1, <2>3, <2>4, <2>5, <2>6, <3>1 DEF Ready, InLoop
  <2>8. Effect(c2, G1, n, d, Left(c2, n, value)) /\ d.fns = d.fns
    <3> DEFINE o == NameOp("NarrowOption", NoneTested(s.e))
    <3>1. Computes(o, 0, 0) /\ o.op # "CallUser"
      BY DEF Computes, NameOp, Takes, Gives
    <3>2. InLoop(c2, G1, n) /\ Base(c2, n) \in Height /\ Up(Base(c2, n), 0) = Base(c2, n)
      BY <1>1, <2>4, <2>7, BaseHeight, UpUp DEF Ready
    <3>3. Effect(c2, G1, n, c2, Up(Base(c2, n), 0))
      BY <2>7, <3>2, EffectNowhere DEF Ready
    <3> HIDE DEF o
    <3>4. Effect(c2, G1, n, Emit(c2, o), Base(c2, n))
      BY <3>1, <3>2, <3>3, ComputeEffect
    <3>5. Effect(c2, G1, n, c3, Base(c2, n))
      BY <3>4 DEF o
    <3> HIDE DEF c3
    <3>6. Place(c2, S, O) = Place(c, S, O)
      BY <2>3, <2>4 DEF Place
    <3>7. ASSUME NEW G, InLoop(c3, G, n), G[Here(c3)] = Base(c2, n), c3.fns = c2.fns,
                 Base(c3, n) = Base(c2, n), Place(c3, S, O) = Place(c2, S, O)
          PROVE  Effect(c3, G, n, d, Left(c2, n, value))
      <4>1. Ready(c3, G, n) /\ Left(c3, n, value) = Left(c2, n, value)
        BY <3>7 DEF Ready, Left
      <4>2. PartsFit(parts, S, O, c3.fns) /\ s.body \in Seq(Place(c3, S, O))
        BY <2>3, <2>4, <3>6, <3>7
      <4>3. Effect(c3, G, n, CompileBlock(parts, c3, s.body, value), Left(c3, n, value))
        BY <4>1, <4>2, BlockEffect
      <4> QED
        BY <4>1, <4>3
    <3> HIDE DEF d
    <3> QED
      BY <3>2, <3>5, <3>7, EffectOn
  <2> HIDE DEF c3
  <2>9. PICK G, N : Leads(c2, G1, d, G, N \X {OutOf(c, n)}, N, Left(c2, n, value))
    BY <2>6, <2>8 DEF Effect
  <2> HIDE DEF d
  <2>10. /\ Shaped(d) /\ G \in [Nat -> Height] /\ d.fns = c.fns /\ d.scopes = c.scopes + 1
         /\ G[Here(d)] = Left(c2, n, value)
    BY <2>3, <2>4, <2>9, LeadsShape
  <2>11. /\ Shaped(e) /\ e.at = d.at /\ e.ops = d.ops /\ e.fns = d.fns
         /\ e.loops = d.loops /\ e.scopes = c.scopes
    <3>1. PICK a, o, l, k, f : d = [at |-> a, ops |-> o, loops |-> l, scopes |-> k, fns |-> f]
      BY <2>10 DEF Shaped
    <3>2. e = [at |-> a, ops |-> o, loops |-> l, scopes |-> k - 1, fns |-> f]
      BY <3>1
    <3>3. k = c.scopes + 1 /\ a \in Nat /\ IsSeq(o) /\ l \in Seq(OpenLoop)
      BY <2>10, <3>1 DEF Shaped
    <3>4. k - 1 = c.scopes
      BY <1>1, <3>3
    <3> HIDE DEF e
    <3> QED
      BY <1>1, <3>1, <3>2, <3>3, <3>4 DEF Shaped
  <2> HIDE DEF e
  <2> DEFINE W == N \X {OutOf(c, n)}
             r == Left(c2, n, value)
  <2>12. Leads(c, H, e, G, W, N, r)
    <3>1. Adds(c2, G1, d, G, W) /\ Keeps(c2, d, N)
      BY <2>9 DEF Leads
    <3>2. Here(e) = Here(d) /\ Adds(c2, G1, e, G, W)
      <4> HIDE DEF W
      <4> QED
        BY <2>10, <2>11, <3>1, SameCode
    <3>3. Adds(c, H, e, G, W)
      <4>1. {} \cup W = W
        OBVIOUS
      <4> HIDE DEF W
      <4>2. Adds(c, H, e, G, {} \cup W)
        BY <1>1, <2>5, <3>2, AddsOn
      <4> QED
        BY <4>1, <4>2
    <3>4. Keeps(c, e, N)
      BY <2>3, <2>4, <2>11, <3>1 DEF Keeps
    <3> QED
      BY <2>10, <3>2, <3>3, <3>4 DEF Leads
  <2>13. PICK K : Leads(e, G, Emit(e, OpOf("PopScope")), K, {}, {}, Left(c, n, value))
    <3> DEFINE o == OpOf("PopScope")
               z == Left(c, n, value)
    <3>1. o.op = "PopScope" /\ Takes(o) = 0 /\ Gives(o) = 0 /\ ~Jumps(o)
      BY DEF OpOf, Takes, Gives, Jumps
    <3>2. z \in Height
      BY <1>1, BaseHeight
    <3>3. PICK k \in Nat : /\ r = [stack |-> k, iters |-> n, scopes |-> c.scopes + 2]
                           /\ z = [stack |-> k, iters |-> n, scopes |-> c.scopes + 1]
      <4>1. Base(c, n) = [stack |-> 0, iters |-> n, scopes |-> c.scopes + 1]
        BY DEF Base
      <4>2. CASE value
        <5>1. r = [stack |-> 1, iters |-> n, scopes |-> c.scopes + 2]
          BY <2>6, <4>2 DEF Left, Up
        <5>2. z = [stack |-> 1, iters |-> n, scopes |-> c.scopes + 1]
          BY <4>1, <4>2 DEF Left, Up
        <5> QED
          BY <5>1, <5>2
      <4>3. CASE ~value
        BY <2>6, <4>1, <4>3 DEF Left
      <4> QED
        BY <4>2, <4>3
    <3>4. G[Here(e)] = r
      BY <2>12 DEF Leads
    <3>5. After(o, r) = z
      <4>1. After(o, [stack |-> k, iters |-> n, scopes |-> c.scopes + 2]) =
              [stack |-> k - 0 + 0, iters |-> n, scopes |-> (c.scopes + 2) - 1]
        BY <3>1 DEF After, ItersAfter, ScopesAfter
      <4>2. k - 0 + 0 = k /\ (c.scopes + 2) - 1 = c.scopes + 1
        BY <1>1
      <4> QED
        BY <3>3, <4>1, <4>2
    <3>6. Works(o, r, e.fns)
      BY <3>1, <3>3 DEF Works
    <3> HIDE DEF o, z, r
    <3> QED
      BY <2>10, <2>11, <3>1, <3>2, <3>4, <3>5, <3>6, PlainLeads DEF o, z
  <2>14. Leads(c, H, Emit(e, OpOf("PopScope")), K, W \cup {}, N \cup {}, Left(c, n, value))
    <3> HIDE DEF W, r
    <3> QED
      BY <1>1, <2>11, <2>12, <2>13, LeadsOn
  <2>15. W \cup {} = W /\ N \cup {} = N
    OBVIOUS
  <2>16. Leads(c, H, Emit(e, OpOf("PopScope")), K, W, N, Left(c, n, value))
    BY <2>14, <2>15
  <2> QED
    BY <2>1, <2>16 DEF Effect
<1> QED
  BY <1>2, <1>3

\* An if or a match in the making: the jumps to its end wait for y, and its code
\* leads to w.
Making(c, H, n, acc, value, y, w) ==
    /\ acc = [c |-> acc.c, ends |-> acc.ends, value |-> value]
    /\ \E G, N : Leads(c, H, acc.c, G, (N \X {OutOf(c, n)}) \cup (acc.ends \X {y}), N, w)

\* The code d has come from c, and the heights behind it are x.
Came(c, n, d, G, x) ==
    /\ InLoop(d, G, n) /\ G[Here(d)] = x
    /\ Base(d, n) = Base(c, n) /\ OutOf(d, n) = OutOf(c, n) /\ d.fns = c.fns
    /\ \A value : Left(d, n, value) = Left(c, n, value)
    /\ \A S, O : Place(d, S, O) = Place(c, S, O)

\* What code leads to has come from where it starts.
LEMMA LeadsCame ==
    ASSUME NEW c, NEW H, NEW n, InLoop(c, H, n), NEW d, NEW G, NEW W, NEW N, NEW y,
           Leads(c, H, d, G, W, N, y)
    PROVE  Came(c, n, d, G, y)
  BY InLoopOn DEF Came

\* What has come from there on, too.
LEMMA CameOn ==
    ASSUME NEW c, NEW n, NEW d, NEW G, NEW x, Came(c, n, d, G, x),
           NEW e, NEW K, NEW y, Came(d, n, e, K, y)
    PROVE  Came(c, n, e, K, y)
  BY DEF Came

\* A guarded block more, in the fields of a construct in the making.
LEMMA GuardedFields ==
    ASSUME NEW c, NEW H, NEW n, NEW acc, NEW value, NEW y, NEW w,
           Making(c, H, n, acc, value, y, w), NEW at, NEW block
    PROVE  Guarded(acc, at, block) = [c     |-> Close(Emit(block, JumpOp(0)), at),
                                      ends  |-> acc.ends \cup {Here(block)},
                                      value |-> value]
<1>1. acc = [c |-> acc.c, ends |-> acc.ends, value |-> value]
  BY DEF Making
<1>2. PICK b, a : a = acc.ends /\ acc = [c |-> b, ends |-> a, value |-> value]
  BY <1>1
<1>3. PICK t, u : t = Close(Emit(block, JumpOp(0)), at) /\ u = a \cup {Here(block)}
  OBVIOUS
<1>4. PICK more : more = [acc EXCEPT !.c = t, !.ends = u]
  OBVIOUS
<1>5. more = [c |-> t, ends |-> u, value |-> value]
  <2>1. PICK r, s : r = acc /\ s = more
    OBVIOUS
  <2>2. r = [c |-> b, ends |-> a, value |-> value]
    BY <1>2, <2>1
  <2>3. s = [r EXCEPT !.c = t, !.ends = u]
    BY <1>4, <2>1
  <2>4. s = [c |-> t, ends |-> u, value |-> value]
    BY <2>2, <2>3
  <2> QED
    BY <2>1, <2>4
<1>6. Guarded(acc, at, block) = more
  BY <1>2, <1>3, <1>4 DEF Guarded
<1> QED
  BY <1>2, <1>3, <1>5, <1>6

\* Nothing but the code of the test.
LEMMA BranchesMaking ==
    ASSUME NEW c, NEW H, NEW n, InLoop(c, H, n), NEW value, NEW y
    PROVE  Making(c, H, n, Branches(c, value), value, y, H[Here(c)])
<1> DEFINE acc == Branches(c, value)
<1>1. acc = [c |-> c, ends |-> {}, value |-> value]
  BY DEF Branches
<1>2. acc.c = c /\ acc.ends = {}
  BY <1>1
<1>3. ({} \X {OutOf(c, n)}) \cup (acc.ends \X {y}) = {}
  BY <1>2
<1>4. Leads(c, H, c, H, {}, {}, H[Here(c)])
  BY LeadsNowhere DEF InLoop
<1>5. Leads(c, H, acc.c, H, ({} \X {OutOf(c, n)}) \cup (acc.ends \X {y}), {}, H[Here(c)])
  BY <1>2, <1>3, <1>4
<1> QED
  BY <1>1, <1>2, <1>5 DEF Making

\* Code that belongs to no block.
LEMMA MakingOn ==
    ASSUME NEW c, NEW H, NEW n, InLoop(c, H, n), NEW acc, NEW value, NEW y, NEW w,
           Making(c, H, n, acc, value, y, w), NEW e, NEW z,
           \A G : Came(c, n, acc.c, G, w) => Effect(acc.c, G, n, e, z)
    PROVE  Making(c, H, n, [acc EXCEPT !.c = e], value, y, z)
<1> DEFINE new == [acc EXCEPT !.c = e]
<1>1. PICK G, N : Leads(c, H, acc.c, G, (N \X {OutOf(c, n)}) \cup (acc.ends \X {y}), N, w)
  BY DEF Making
<1>2. Came(c, n, acc.c, G, w)
  BY <1>1, LeadsCame
<1>3. PICK K, M : Leads(acc.c, G, e, K, M \X {OutOf(c, n)}, M, z)
  BY <1>2 DEF Effect, Came
<1>4. Leads(c, H, e, K, ((N \X {OutOf(c, n)}) \cup (acc.ends \X {y})) \cup (M \X {OutOf(c, n)}),
            N \cup M, z)
  BY <1>1, <1>2, <1>3, LeadsOn DEF InLoop, Came
<1>5. new = [c |-> e, ends |-> acc.ends, value |-> value]
  <2>1. acc = [c |-> acc.c, ends |-> acc.ends, value |-> value]
    BY DEF Making
  <2>2. PICK a, b : a = acc.c /\ b = acc.ends /\ acc = [c |-> a, ends |-> b, value |-> value]
    BY <2>1
  <2> QED
    BY <2>2
<1>6. new.c = e /\ new.ends = acc.ends
  BY <1>5
<1>7. ((N \X {OutOf(c, n)}) \cup (acc.ends \X {y})) \cup (M \X {OutOf(c, n)})
        = ((N \cup M) \X {OutOf(c, n)}) \cup (new.ends \X {y})
  <2>1. PICK a, q : a = acc.ends /\ q = OutOf(c, n)
    OBVIOUS
  <2>2. ((N \X {q}) \cup (a \X {y})) \cup (M \X {q}) = ((N \cup M) \X {q}) \cup (a \X {y})
    OBVIOUS
  <2> HIDE DEF new
  <2> QED
    BY <1>6, <2>1, <2>2
<1> HIDE DEF new
<1>8. Leads(c, H, new.c, K, ((N \cup M) \X {OutOf(c, n)}) \cup (new.ends \X {y}), N \cup M, z)
  BY <1>4, <1>6, <1>7
<1> QED
  BY <1>5, <1>6, <1>8 DEF Making, new

\* One more guarded block: a failed test finds z behind the block.
LEMMA GuardMaking ==
    ASSUME NEW c, NEW H, NEW n, InLoop(c, H, n), NEW acc, NEW value, NEW y \in Height,
           NEW z \in Height, NEW w, Making(c, H, n, acc, value, y, w),
           NEW at, NEW branch, NEW x, NEW block,
           \A G : Came(c, n, acc.c, G, w) =>
               \E K : Leads(acc.c, G, branch, K, {<<at, z>>}, {}, x),
           \A K : Came(c, n, branch, K, x) => Effect(branch, K, n, block, y)
    PROVE  Making(c, H, n, Guarded(acc, at, block), value, y, z)
<1> DEFINE q   == OutOf(c, n)
           new == Guarded(acc, at, block)
           end == Here(block)
           jumped == Emit(block, JumpOp(0))
<1>1. PICK G, N : Leads(c, H, acc.c, G, (N \X {q}) \cup (acc.ends \X {y}), N, w)
  BY DEF Making
<1>2. Came(c, n, acc.c, G, w)
  BY <1>1, LeadsCame
<1>3. PICK K : Leads(acc.c, G, branch, K, {<<at, z>>}, {}, x)
  BY <1>2
<1>4. Came(c, n, branch, K, x)
  <2>1. Came(acc.c, n, branch, K, x)
    BY <1>2, <1>3, LeadsCame DEF Came
  <2> QED
    BY <1>2, <2>1, CameOn
<1>5. PICK L, M : Leads(branch, K, block, L, M \X {q}, M, y)
  BY <1>4 DEF Effect, Came
<1>6. Shaped(acc.c) /\ Shaped(branch) /\ Shaped(block) /\ L \in [Nat -> Height]
      /\ L[Here(block)] = y /\ Shaped(c)
  BY <1>2, <1>4, <1>5, LeadsShape DEF InLoop, Came
<1>7. PICK J : Leads(block, L, jumped, J, {<<end, y>>}, {}, z)
  BY <1>6, JumpLeads
<1>8. Shaped(jumped)
  BY <1>7, LeadsShape
<1> HIDE DEF q, jumped, end
<1> DEFINE V == (N \X {q}) \cup (acc.ends \X {y})
<1>9. Leads(c, H, branch, K, V \cup {<<at, z>>}, N \cup {}, x)
  <2> HIDE DEF V
  <2> QED
    BY <1>1, <1>3, <1>6, LeadsOn DEF V
<1>10. Leads(c, H, block, L, (V \cup {<<at, z>>}) \cup (M \X {q}), (N \cup {}) \cup M, y)
  <2> HIDE DEF V
  <2> QED
    BY <1>5, <1>6, <1>9, LeadsOn
<1>11. Leads(c, H, jumped, J, ((V \cup {<<at, z>>}) \cup (M \X {q})) \cup {<<end, y>>},
             ((N \cup {}) \cup M) \cup {}, z)
  <2> HIDE DEF V
  <2> QED
    BY <1>6, <1>7, <1>10, LeadsOn
<1>12. PICK a : a = acc.ends
  OBVIOUS
<1>13. /\ ((V \cup {<<at, z>>}) \cup (M \X {q})) \cup {<<end, y>>}
            = (((N \cup M) \X {q}) \cup ((a \cup {end}) \X {y})) \cup ({at} \X {z})
       /\ ((N \cup {}) \cup M) \cup {} = N \cup M
  BY <1>12
<1>14. Leads(c, H, jumped, J,
             (((N \cup M) \X {q}) \cup ((a \cup {end}) \X {y})) \cup ({at} \X {z}), N \cup M, z)
  <2> HIDE DEF V
  <2> QED
    BY <1>11, <1>13
<1>15. Leads(c, H, Patch(jumped, {at}, Here(jumped)), J,
             ((N \cup M) \X {q}) \cup ((a \cup {end}) \X {y}), N \cup M, z)
  BY <1>6, <1>14, PatchLeads
<1>16. new = [c |-> Patch(jumped, {at}, Here(jumped)), ends |-> a \cup {end}, value |-> value]
  BY <1>12, GuardedFields DEF Close, jumped, end
<1> HIDE DEF new
<1>17. new.c = Patch(jumped, {at}, Here(jumped)) /\ new.ends = a \cup {end}
  BY <1>16
<1>18. Leads(c, H, new.c, J, ((N \cup M) \X {q}) \cup (new.ends \X {y}), N \cup M, z)
  BY <1>15, <1>17
<1>19. Making(c, H, n, new, value, y, z)
  BY <1>16, <1>17, <1>18 DEF Making, q
<1> QED
  BY <1>19 DEF new

\* All its blocks end where it ends.
LEMMA JoinedEffect ==
    ASSUME NEW c, NEW H, NEW n, InLoop(c, H, n), NEW acc, NEW value, NEW y,
           Making(c, H, n, acc, value, y, y)
    PROVE  Effect(c, H, n, Joined(acc), y)
<1>1. PICK G, N : Leads(c, H, acc.c, G, (N \X {OutOf(c, n)}) \cup (acc.ends \X {y}), N, y)
  BY DEF Making
<1>2. Leads(c, H, Patch(acc.c, acc.ends, Here(acc.c)), G, N \X {OutOf(c, n)}, N, y)
  BY <1>1, PatchLeads DEF InLoop
<1> QED
  BY <1>2 DEF Effect, Joined

\* The block of a test: a then-block, or that of an `else if`.
LEMMA TestBranch ==
    ASSUME NEW c, Shaped(c), NEW G \in [Nat -> Height], NEW z \in Height, G[Here(c)] = z,
           NEW parts, NEW e \in Exprs, ExprsFit(parts, Exprs, c.fns), NEW on
    PROVE  \E K : Leads(c, G, Emit(SubExpr(parts, c, e), BranchOp(on)), K,
                        {<<Here(SubExpr(parts, c, e)), z>>}, {}, z)
<1> DEFINE test   == SubExpr(parts, c, e)
           branch == Emit(test, BranchOp(on))
<1>1. PICK J : Leads(c, G, test, J, {}, {}, Up(z, 1))
  BY SubExprPushes DEF Pushes
<1> HIDE DEF test
<1>2. Shaped(test) /\ J \in [Nat -> Height] /\ J[Here(test)] = Up(z, 1)
  BY <1>1, LeadsShape
<1>3. PICK K : Leads(test, J, branch, K, {<<Here(test), z>>}, {}, z)
  BY <1>2, TestLeads
<1> HIDE DEF branch
<1>4. Leads(c, G, branch, K, {} \cup {<<Here(test), z>>}, {} \cup {}, z)
  BY <1>1, <1>2, <1>3, LeadsOn
<1>5. {} \cup {<<Here(test), z>>} = {<<Here(test), z>>} /\ {} \cup {} = {}
  OBVIOUS
<1>6. Leads(c, G, branch, K, {<<Here(test), z>>}, {}, z)
  BY <1>4, <1>5
<1> QED
  BY <1>6 DEF branch, test

\* A block where only expressions and ops have been before.
LEMMA CameBlock ==
    ASSUME NEW c, NEW n, NEW parts, NEW S, NEW O,
           PartsFit(parts, S, O, c.fns), NEW body \in Seq(Place(c, S, O)), NEW value \in BOOLEAN,
           NEW d, NEW K, Came(c, n, d, K, Base(c, n))
    PROVE  Effect(d, K, n, CompileBlock(parts, d, body, value), Left(c, n, value))
<1>1. /\ Ready(d, K, n) /\ PartsFit(parts, S, O, d.fns) /\ body \in Seq(Place(d, S, O))
      /\ Left(d, n, value) = Left(c, n, value)
  BY DEF Came, Ready
<1>2. Effect(d, K, n, CompileBlock(parts, d, body, value), Left(d, n, value))
  BY <1>1, BlockEffect
<1> QED
  BY <1>1, <1>2

\* An `else if`.
LEMMA ElifMaking ==
    ASSUME NEW c, NEW H, NEW n, InLoop(c, H, n), NEW parts, NEW S, NEW O,
           PartsFit(parts, S, O, c.fns), NEW acc, NEW value \in BOOLEAN,
           Making(c, H, n, acc, value, Left(c, n, value), Base(c, n)),
           NEW elif, elif.cond \in Exprs, elif.body \in Seq(Place(c, S, O))
    PROVE  Making(c, H, n, CompileElif(parts, acc, elif), value, Left(c, n, value), Base(c, n))
<1> DEFINE z == Base(c, n)
           y == Left(c, n, value)
           test == SubExpr(parts.exprs, acc.c, elif.cond)
           at == Here(test)
           branch == Emit(test, BranchOp(FALSE))
           block == CompileBlock(parts, branch, elif.body, value)
<1>1. z \in Height /\ y \in Height
  BY BaseHeight DEF InLoop
<1>2. acc.value = value
  <2>1. PICK a, b : acc = [c |-> a, ends |-> b, value |-> value]
    BY DEF Making
  <2> QED
    BY <2>1
<1>3. CompileElif(parts, acc, elif) = Guarded(acc, at, block)
  BY <1>2 DEF CompileElif, GuardedBy
<1>4. ASSUME NEW G, Came(c, n, acc.c, G, z)
      PROVE  \E K : Leads(acc.c, G, branch, K, {<<at, z>>}, {}, z)
  <2>1. Shaped(acc.c) /\ G \in [Nat -> Height] /\ G[Here(acc.c)] = z /\ acc.c.fns = c.fns
    BY <1>4 DEF Came, InLoop
  <2>2. ExprsFit(parts.exprs, Exprs, acc.c.fns)
    BY <2>1 DEF PartsFit
  <2> QED
    BY <1>1, <2>1, <2>2, TestBranch
<1>5. ASSUME NEW K, Came(c, n, branch, K, z)
      PROVE  Effect(branch, K, n, block, y)
  BY <1>5, CameBlock
<1> HIDE DEF z, y, at, branch, block
<1>6. Making(c, H, n, acc, value, y, z)
  BY DEF y, z
<1>7. Making(c, H, n, Guarded(acc, at, block), value, y, z)
  BY <1>1, <1>4, <1>5, <1>6, GuardMaking
<1> QED
  BY <1>3, <1>7 DEF y, z

\* The loop over them, as a fold.
ElifRounds == INSTANCE HehRecursion WITH Op <- CompileElif

\* The elifs of an if, whose blocks leave what its other blocks leave.
LEMMA ElifsMaking ==
    ASSUME NEW c, NEW H, NEW n, InLoop(c, H, n), NEW parts, NEW S, NEW O,
           PartsFit(parts, S, O, c.fns), NEW acc, NEW value \in BOOLEAN,
           Making(c, H, n, acc, value, Left(c, n, value), Base(c, n)),
           NEW elifs, Len(elifs) \in Nat, DOMAIN elifs = 1..Len(elifs),
           \A i \in DOMAIN elifs :
               elifs[i].cond \in Exprs /\ elifs[i].body \in Seq(Place(c, S, O))
    PROVE  Making(c, H, n, CompileElifs(parts, acc, elifs), value, Left(c, n, value), Base(c, n))
<1>1. PICK m \in Nat : m = Len(elifs) /\ DOMAIN elifs = 1..m
  OBVIOUS
<1>2. CompileElifs(parts, acc, elifs) = ElifRounds!FoldL(parts, acc, elifs, 1..m)
  BY <1>1 DEF CompileElifs, FoldLeft, MapThenFoldSet, Max, ElifRounds!FoldL, ElifRounds!Top
<1>3. PICK R : /\ ElifRounds!LeftRounds(R, parts, acc, elifs)
               /\ ElifRounds!FoldL(parts, acc, elifs, 1..m) = R[m]
  <2>1. ElifRounds!Induction
    BY AllNat DEF ElifRounds!Induction
  <2> QED
    BY <2>1, ElifRounds!LeftFold
<1>4. R[0] = acc /\ \A k \in Nat : R[k + 1] = CompileElif(parts, R[k], elifs[k + 1])
  BY <1>3 DEF ElifRounds!LeftRounds
<1> DEFINE P(r) == Making(c, H, n, r, value, Left(c, n, value), Base(c, n))
           T == {k \in Nat : k <= m => P(R[k])}
<1>5. 0 \in T
  BY <1>4
<1>6. ASSUME NEW k \in Nat, k \in T
      PROVE  k + 1 \in T
  <2>1. SUFFICES ASSUME k + 1 <= m
                 PROVE  P(R[k + 1])
    OBVIOUS
  <2>2. P(R[k])
    BY <1>6, <2>1
  <2>3. elifs[k + 1].cond \in Exprs /\ elifs[k + 1].body \in Seq(Place(c, S, O))
    BY <1>1, <2>1
  <2>4. P(CompileElif(parts, R[k], elifs[k + 1]))
    BY <2>2, <2>3, ElifMaking
  <2> QED
    BY <1>4, <2>4
<1> HIDE DEF T
<1>7. m \in T
  BY <1>5, <1>6, AllNat
<1>8. P(R[m])
  BY <1>7 DEF T
<1> QED
  BY <1>1, <1>2, <1>3, <1>8

\* The test of the first block, that block, and what is known behind it.
LEMMA TestedMaking ==
    ASSUME NEW c, NEW H, NEW n, InLoop(c, H, n), H[Here(c)] = Up(Base(c, n), 1),
           NEW parts, NEW S, NEW O, PartsFit(parts, S, O, c.fns), NEW s,
           s.body \in Seq(Place(c, S, O)), NEW value \in BOOLEAN
    PROVE  Making(c, H, n, CompileTested(parts, c, s, value), value, Left(c, n, value), Base(c, n))
<1> DEFINE z == Base(c, n)
           y == Left(c, n, value)
           w == Up(z, 1)
           at == Here(c)
           branch == Emit(c, BranchOp(FALSE))
           block == CompileThen(parts, branch, s, value)
           first == Branches(c, value)
           acc == Guarded(first, at, block)
<1>1. z \in Height /\ y \in Height /\ w \in Height /\ Shaped(c) /\ n \in Nat
  BY BaseHeight DEF InLoop
<1>2. Making(c, H, n, first, value, y, w) /\ first.c = c
  BY BranchesMaking DEF Branches
<1>3. CompileTested(parts, c, s, value) = NarrowBehind(acc, s)
  BY DEF CompileTested
<1>4. ASSUME NEW G, Came(c, n, first.c, G, w)
      PROVE  \E K : Leads(first.c, G, branch, K, {<<at, z>>}, {}, z)
  <2>1. G \in [Nat -> Height] /\ G[Here(c)] = w
    BY <1>2, <1>4 DEF Came, InLoop
  <2> HIDE DEF first, z
  <2> QED
    BY <1>1, <1>2, <2>1, TestLeads
<1>5. ASSUME NEW K, Came(c, n, branch, K, z)
      PROVE  Effect(branch, K, n, block, y)
  <2>1. /\ Ready(branch, K, n) /\ PartsFit(parts, S, O, branch.fns)
        /\ s.body \in Seq(Place(branch, S, O)) /\ Left(branch, n, value) = y
    BY <1>5 DEF Came, Ready
  <2> HIDE DEF branch, y
  <2>2. Effect(branch, K, n, block, Left(branch, n, value))
    BY <2>1, ThenEffect
  <2> QED
    BY <2>1, <2>2
<1> HIDE DEF z, y, w, at, branch, block, first
<1>6. Making(c, H, n, acc, value, y, z)
  BY <1>1, <1>2, <1>4, <1>5, GuardMaking
<1> HIDE DEF acc
<1>7. CASE ~TestsAbsence(s.e)
  BY <1>3, <1>6, <1>7 DEF NarrowBehind, y, z
<1>8. CASE TestsAbsence(s.e)
  <2> DEFINE o == NameOp("NarrowOption", NoneTested(s.e))
             e == Emit(acc.c, o)
  <2>1. Computes(o, 0, 0) /\ o.op # "CallUser"
    BY DEF Computes, NameOp, Takes, Gives
  <2>2. NarrowBehind(acc, s) = [acc EXCEPT !.c = e]
    BY <1>8 DEF NarrowBehind
  <2> HIDE DEF o
  <2>3. ASSUME NEW G, Came(c, n, acc.c, G, z)
        PROVE  Effect(acc.c, G, n, e, z)
    <3>1. InLoop(acc.c, G, n) /\ G[Here(acc.c)] = z /\ Up(z, 0) = z
      BY <1>1, <2>3, UpUp DEF Came
    <3>2. Effect(acc.c, G, n, acc.c, Up(z, 0))
      BY <3>1, EffectNowhere
    <3>3. Effect(acc.c, G, n, e, Up(z, 0))
      BY <1>1, <2>1, <3>1, <3>2, ComputeEffect
    <3> QED
      BY <3>1, <3>3
  <2> HIDE DEF e
  <2>4. Making(c, H, n, [acc EXCEPT !.c = e], value, y, z)
    BY <1>6, <2>3, MakingOn
  <2> QED
    BY <1>3, <2>2, <2>4 DEF y, z
<1> QED
  BY <1>7, <1>8

\* What runs if no test holds.
LEMMA ElseMaking ==
    ASSUME NEW c, NEW H, NEW n, InLoop(c, H, n), NEW parts, NEW S, NEW O,
           PartsFit(parts, S, O, c.fns), NEW acc, NEW value \in BOOLEAN,
           Making(c, H, n, acc, value, Left(c, n, value), Base(c, n)),
           NEW s, s.otherwise # <<>> => s.otherwise[1] \in Seq(Place(c, S, O))
    PROVE  Making(c, H, n, CompileElse(parts, acc, s), value, Left(c, n, value), Left(c, n, value))
<1> DEFINE z == Base(c, n)
           y == Left(c, n, value)
           e == IF s.otherwise # <<>> THEN CompileBlock(parts, acc.c, s.otherwise[1], value)
                ELSE IF value THEN Emit(acc.c, PushConstOp(None))
                ELSE acc.c
<1>1. acc.value = value
  <2>1. PICK a, b : acc = [c |-> a, ends |-> b, value |-> value]
    BY DEF Making
  <2> QED
    BY <2>1
<1>2. CompileElse(parts, acc, s) = [acc EXCEPT !.c = e]
  <2>1. CompileElse(parts, acc, s) =
          [acc EXCEPT !.c = IF s.otherwise # <<>>
                            THEN CompileBlock(parts, acc.c, s.otherwise[1], acc.value)
                            ELSE IF acc.value THEN Emit(acc.c, PushConstOp(None))
                            ELSE acc.c]
    BY DEF CompileElse
  <2> QED
    BY <1>1, <2>1
<1>3. z \in Height /\ y \in Height
  BY BaseHeight DEF InLoop
<1>4. ASSUME NEW G, Came(c, n, acc.c, G, z)
      PROVE  Effect(acc.c, G, n, e, y)
  <2>1. InLoop(acc.c, G, n) /\ G[Here(acc.c)] = z
    BY <1>4 DEF Came
  <2>2. CASE s.otherwise # <<>>
    <3>1. Effect(acc.c, G, n, CompileBlock(parts, acc.c, s.otherwise[1], value), Left(c, n, value))
      BY <1>4, <2>2, CameBlock
    <3> QED
      BY <2>2, <3>1
  <2>3. CASE s.otherwise = <<>> /\ value
    <3>1. Effect(acc.c, G, n, acc.c, z)
      BY <2>1, EffectNowhere
    <3>2. Effect(acc.c, G, n, Emit(acc.c, PushConstOp(None)), Up(z, 1))
      BY <1>3, <2>1, <3>1, PushEffect
    <3> QED
      BY <2>3, <3>2 DEF Left
  <2>4. CASE s.otherwise = <<>> /\ ~value
    <3>1. Effect(acc.c, G, n, acc.c, z)
      BY <2>1, EffectNowhere
    <3> QED
      BY <2>4, <3>1 DEF Left
  <2> QED
    BY <2>2, <2>3, <2>4
<1> HIDE DEF e, y, z
<1>5. Making(c, H, n, acc, value, y, z)
  BY DEF y, z
<1>6. Making(c, H, n, [acc EXCEPT !.c = e], value, y, y)
  BY <1>4, <1>5, MakingOn
<1> QED
  BY <1>2, <1>6 DEF y

\* An if, behind the code of its condition.
LEMMA IfEffect ==
    ASSUME NEW c, NEW H, NEW n, InLoop(c, H, n), H[Here(c)] = Up(Base(c, n), 1),
           NEW parts, NEW S, NEW O, PartsFit(parts, S, O, c.fns), NEW s \in Stmts, s.k = "if",
           \A block \in Blocks(s) : block \in Seq(Place(c, S, O)), NEW value \in BOOLEAN
    PROVE  Effect(c, H, n, CompileIf(parts, c, s, value), Left(c, n, value))
<1> DEFINE y == Left(c, n, value)
           z == Base(c, n)
           tested == CompileTested(parts, c, s, value)
           elifs  == CompileElifs(parts, tested, s.elifs)
           all    == CompileElse(parts, elifs, s)
<1>1. /\ Len(s.elifs) \in Nat /\ DOMAIN s.elifs = 1..Len(s.elifs)
      /\ \A i \in DOMAIN s.elifs : s.elifs[i].cond \in Exprs
      /\ Len(s.otherwise) \in {0, 1} /\ DOMAIN s.otherwise = 1..Len(s.otherwise)
      /\ s.otherwise \in Seq(Range(s.otherwise))
  <2>1. /\ s.elifs \in Seq(Range(s.elifs)) /\ \A elif \in Range(s.elifs) : elif.cond \in Exprs
        /\ s.otherwise \in Seq(Range(s.otherwise)) /\ Len(s.otherwise) <= 1
    BY StmtAssumption
  <2>2. \A i \in DOMAIN s.elifs : s.elifs[i] \in Range(s.elifs)
    BY DEF Range
  <2>3. Len(s.elifs) \in Nat /\ DOMAIN s.elifs = 1..Len(s.elifs)
    BY <2>1
  <2>4. Len(s.otherwise) \in Nat /\ DOMAIN s.otherwise = 1..Len(s.otherwise)
    BY <2>1
  <2>5. Len(s.otherwise) \in {0, 1}
    <3>1. PICK k \in Nat : k = Len(s.otherwise) /\ k <= 1
      BY <2>1, <2>4
    <3>2. \A i \in Nat : i <= 1 => i = 0 \/ i = 1
      OBVIOUS
    <3> QED
      BY <3>1, <3>2
  <2>6. \A i \in DOMAIN s.elifs : s.elifs[i].cond \in Exprs
    BY <2>1, <2>2
  <2> QED
    BY <2>1, <2>3, <2>4, <2>5, <2>6
<1>2. Blocks(s) = {s.body} \cup {s.elifs[i].body : i \in DOMAIN s.elifs}
                  \cup {s.otherwise[i] : i \in DOMAIN s.otherwise}
  BY DEF Blocks
<1>3. s.body \in Seq(Place(c, S, O))
  BY <1>2
<1>4. \A i \in DOMAIN s.elifs :
          s.elifs[i].cond \in Exprs /\ s.elifs[i].body \in Seq(Place(c, S, O))
  BY <1>1, <1>2
<1>5. s.otherwise # <<>> => s.otherwise[1] \in Seq(Place(c, S, O))
  <2>1. CASE Len(s.otherwise) = 1
    <3>1. 1 \in DOMAIN s.otherwise
      BY <1>1, <2>1
    <3> QED
      BY <1>2, <3>1
  <2>2. CASE Len(s.otherwise) = 0
    BY <1>1, <2>2
  <2> QED
    BY <1>1, <2>1, <2>2
<1>6. Making(c, H, n, tested, value, y, z)
  BY <1>3, TestedMaking
<1> HIDE DEF tested
<1>7. Making(c, H, n, elifs, value, y, z)
  BY <1>1, <1>4, <1>6, ElifsMaking
<1> HIDE DEF elifs
<1>8. Making(c, H, n, all, value, y, y)
  BY <1>5, <1>7, ElseMaking
<1>9. Effect(c, H, n, Joined(all), y)
  <2> HIDE DEF all, y
  <2> QED
    BY <1>8, JoinedEffect
<1> QED
  BY <1>9 DEF CompileIf, all, elifs, tested

\* An arm, which the scrutinee goes past if it does not match.
LEMMA ArmMaking ==
    ASSUME NEW c, NEW H, NEW n, InLoop(c, H, n), NEW parts, NEW S, NEW O,
           PartsFit(parts, S, O, c.fns), NEW acc, NEW value \in BOOLEAN,
           Making(c, H, n, acc, value, Left(c, n, value), Up(Base(c, n), 1)),
           NEW arm, arm.body \in Seq(Place(c, S, O))
    PROVE  Making(c, H, n, CompileArm(parts, acc, arm), value, Left(c, n, value),
                  Up(Base(c, n), 1))
<1> DEFINE x == Base(c, n)
           z == Up(x, 1)
           y == Left(c, n, value)
           at == Here(acc.c)
           test == Emit(acc.c, MatchArmOp(arm.pat))
           branch == Emit(test, OpOf("Pop"))
           block == CompileBlock(parts, branch, arm.body, value)
<1>1. x \in Height /\ z \in Height /\ y \in Height /\ n \in Nat
  BY BaseHeight DEF InLoop
<1>2. acc.value = value
  <2>1. PICK a, b : acc = [c |-> a, ends |-> b, value |-> value]
    BY DEF Making
  <2> QED
    BY <2>1
<1>3. CompileArm(parts, acc, arm) = Guarded(acc, at, block)
  BY <1>2 DEF CompileArm
<1>4. ASSUME NEW G, Came(c, n, acc.c, G, z)
      PROVE  \E K : Leads(acc.c, G, branch, K, {<<at, z>>}, {}, x)
  <2>1. Shaped(acc.c) /\ G \in [Nat -> Height] /\ G[Here(acc.c)] = z /\ acc.c.fns = c.fns
    BY <1>4 DEF Came, InLoop
  <2> DEFINE o == MatchArmOp(arm.pat)
             p == OpOf("Pop")
  <2>2. o.op = "MatchArm" /\ Jumper(o)
    BY DEF MatchArmOp, Jumper, Jumps
  <2>3. Takes(o) = 1 /\ Gives(o) = 1 /\ Falls(o)
    BY <2>2 DEF Takes, Gives, Falls
  <2>4. z.stack = x.stack + 1 /\ x.stack \in Nat /\ z.stack \in Nat /\ 1 <= z.stack
    <3>1. z.stack = x.stack + 1 /\ x.stack \in Nat
      BY <1>1, UpUp DEF Height
    <3> QED
      BY <3>1
  <2>5. Works(o, z, acc.c.fns)
    BY <2>2, <2>3, <2>4 DEF Works
  <2>6. After(o, z) = z /\ AfterJump(o, z) = z
    <3>1. PICK s, i, k : z = [stack |-> s, iters |-> i, scopes |-> k] /\ s \in Nat
      BY <1>1 DEF Height
    <3>2. After(o, [stack |-> s, iters |-> i, scopes |-> k]) =
            [stack |-> s - 1 + 1, iters |-> i, scopes |-> k]
      BY <2>2, <2>3 DEF After, ItersAfter, ScopesAfter
    <3>3. s - 1 + 1 = s
      BY <3>1
    <3>4. After(o, z) = z
      BY <3>1, <3>2, <3>3
    <3> QED
      BY <2>2, <3>4 DEF AfterJump
  <2>7. Computes(p, 1, 0) /\ p.op # "CallUser"
    BY DEF Computes, OpOf, Takes, Gives
  <2> HIDE DEF o, p, x, z, at
  <2>8. PICK J : Leads(acc.c, G, Emit(acc.c, o), J, {<<Here(acc.c), z>>}, {}, z)
    BY <1>1, <2>1, <2>2, <2>5, <2>6, PendingLeads
  <2>9. Leads(acc.c, G, test, J, {<<at, z>>}, {}, z)
    BY <2>8 DEF at, o
  <2> HIDE DEF test
  <2>10. Shaped(test) /\ J \in [Nat -> Height] /\ J[Here(test)] = z
    BY <2>9, LeadsShape
  <2>11. PICK K : Leads(test, J, branch, K, {}, {}, x)
    <3>1. \E K : Leads(test, J, Emit(test, p), K, {}, {}, Up(x, 0))
      BY <1>1, <2>7, <2>10, ComputeLeads DEF z
    <3>2. Up(x, 0) = x
      BY <1>1, UpUp
    <3> QED
      BY <3>1, <3>2 DEF p
  <2> HIDE DEF branch
  <2>12. Leads(acc.c, G, branch, K, {<<at, z>>} \cup {}, {} \cup {}, x)
    BY <2>1, <2>9, <2>10, <2>11, LeadsOn
  <2>13. {<<at, z>>} \cup {} = {<<at, z>>} /\ {} \cup {} = {}
    OBVIOUS
  <2>14. Leads(acc.c, G, branch, K, {<<at, z>>}, {}, x)
    BY <2>12, <2>13
  <2> QED
    BY <2>14
<1>5. ASSUME NEW K, Came(c, n, branch, K, x)
      PROVE  Effect(branch, K, n, block, y)
  BY <1>5, CameBlock
<1> HIDE DEF x, z, y, at, branch, block
<1>6. Making(c, H, n, acc, value, y, z)
  BY DEF x, y, z
<1>7. Making(c, H, n, Guarded(acc, at, block), value, y, z)
  BY <1>1, <1>4, <1>5, <1>6, GuardMaking
<1> QED
  BY <1>3, <1>7 DEF x, y, z

\* The loop over them, as a fold.
ArmRounds == INSTANCE HehRecursion WITH Op <- CompileArm

\* The arms of a match, each of which leaves the scrutinee to the next one.
LEMMA ArmsMaking ==
    ASSUME NEW c, NEW H, NEW n, InLoop(c, H, n), NEW parts, NEW S, NEW O,
           PartsFit(parts, S, O, c.fns), NEW acc, NEW value \in BOOLEAN,
           Making(c, H, n, acc, value, Left(c, n, value), Up(Base(c, n), 1)),
           NEW arms, Len(arms) \in Nat, DOMAIN arms = 1..Len(arms),
           \A i \in DOMAIN arms : arms[i].body \in Seq(Place(c, S, O))
    PROVE  Making(c, H, n, CompileArms(parts, acc, arms), value, Left(c, n, value),
                  Up(Base(c, n), 1))
<1>1. PICK m \in Nat : m = Len(arms) /\ DOMAIN arms = 1..m
  OBVIOUS
<1>2. CompileArms(parts, acc, arms) = ArmRounds!FoldL(parts, acc, arms, 1..m)
  BY <1>1 DEF CompileArms, FoldLeft, MapThenFoldSet, Max, ArmRounds!FoldL, ArmRounds!Top
<1>3. PICK R : /\ ArmRounds!LeftRounds(R, parts, acc, arms)
               /\ ArmRounds!FoldL(parts, acc, arms, 1..m) = R[m]
  <2>1. ArmRounds!Induction
    BY AllNat DEF ArmRounds!Induction
  <2> QED
    BY <2>1, ArmRounds!LeftFold
<1>4. R[0] = acc /\ \A k \in Nat : R[k + 1] = CompileArm(parts, R[k], arms[k + 1])
  BY <1>3 DEF ArmRounds!LeftRounds
<1> DEFINE P(r) == Making(c, H, n, r, value, Left(c, n, value), Up(Base(c, n), 1))
           T == {k \in Nat : k <= m => P(R[k])}
<1>5. 0 \in T
  BY <1>4
<1>6. ASSUME NEW k \in Nat, k \in T
      PROVE  k + 1 \in T
  <2>1. SUFFICES ASSUME k + 1 <= m
                 PROVE  P(R[k + 1])
    OBVIOUS
  <2>2. P(R[k])
    BY <1>6, <2>1
  <2>3. arms[k + 1].body \in Seq(Place(c, S, O))
    BY <1>1, <2>1
  <2>4. P(CompileArm(parts, R[k], arms[k + 1]))
    BY <2>2, <2>3, ArmMaking
  <2> QED
    BY <1>4, <2>4
<1> HIDE DEF T
<1>7. m \in T
  BY <1>5, <1>6, AllNat
<1>8. P(R[m])
  BY <1>7 DEF T
<1> QED
  BY <1>1, <1>2, <1>3, <1>8

\* A match, behind the code of its scrutinee.
LEMMA MatchEffect ==
    ASSUME NEW c, NEW H, NEW n, InLoop(c, H, n), H[Here(c)] = Up(Base(c, n), 1),
           NEW parts, NEW S, NEW O, PartsFit(parts, S, O, c.fns), NEW s \in Stmts,
           s.k = "match", \A block \in Blocks(s) : block \in Seq(Place(c, S, O)),
           NEW value \in BOOLEAN
    PROVE  Effect(c, H, n, CompileMatch(parts, c, s, value), Left(c, n, value))
<1> DEFINE y == Left(c, n, value)
           z == Up(Base(c, n), 1)
           first == Branches(c, value)
           arms  == CompileArms(parts, first, s.arms)
           o     == OpOf("MatchFail")
           all   == [arms EXCEPT !.c = Emit(arms.c, o)]
<1>1. /\ Len(s.arms) \in Nat /\ DOMAIN s.arms = 1..Len(s.arms)
      /\ \A i \in DOMAIN s.arms : s.arms[i].body \in Seq(Place(c, S, O))
  <2>1. s.arms \in Seq(Range(s.arms))
    BY StmtAssumption
  <2>2. Blocks(s) = {s.arms[i].body : i \in DOMAIN s.arms}
    BY DEF Blocks
  <2> QED
    BY <2>1, <2>2
<1>2. z \in Height /\ y \in Height
  BY BaseHeight DEF InLoop
<1>3. Making(c, H, n, first, value, y, z)
  BY BranchesMaking
<1> HIDE DEF first
<1>4. Making(c, H, n, arms, value, y, z)
  BY <1>1, <1>3, ArmsMaking
<1> HIDE DEF arms, z, y
<1>5. ASSUME NEW G, Came(c, n, arms.c, G, z)
      PROVE  Effect(arms.c, G, n, Emit(arms.c, o), y)
  <2>1. Shaped(arms.c) /\ G \in [Nat -> Height] /\ G[Here(arms.c)] = z
    BY <1>5 DEF Came, InLoop
  <2>2. ~Jumps(o) /\ ~Falls(o) /\ Works(o, z, arms.c.fns)
    <3>1. o.op = "MatchFail" /\ Takes(o) = 0
      BY DEF OpOf, Takes
    <3> QED
      BY <1>2, <3>1 DEF Jumps, Falls, Works, Height
  <2> HIDE DEF o
  <2>3. \E K : Leads(arms.c, G, Emit(arms.c, o), K, {}, {}, y)
    BY <1>2, <2>1, <2>2, PlainLeads
  <2> QED
    BY <2>3, LeadsEffect
<1> HIDE DEF o
<1>6. Making(c, H, n, all, value, y, y)
  BY <1>4, <1>5, MakingOn
<1>7. CompileMatch(parts, c, s, value) = Joined(all)
  BY DEF CompileMatch, MatchClosed, arms, first, o
<1> HIDE DEF all
<1>8. Effect(c, H, n, Joined(all), y)
  BY <1>6, JoinedEffect
<1> QED
  BY <1>7, <1>8 DEF y

-----------------------------------------------------------------------------
(* Loops, and what leaves them. *)

\* A loop body goes back to where the heights are those at its entry, and so are
\* those its breaks leave; z is what is behind it, which only they can reach.
LEMMA BodyLeads ==
    ASSUME NEW c, Shaped(c), NEW H \in [Nat -> Height], NEW n \in Nat, H[Here(c)] = Base(c, n),
           NEW parts, NEW S, NEW O, PartsFit(parts, S, O, c.fns), NEW body \in Seq(S),
           NEW again \in 1..Here(c), H[again] = Base(c, n), NEW z \in Height
    PROVE  \E G : Leads(c, H, CompileBody(parts, c, body, again).c, G,
                        CompileBody(parts, c, body, again).breaks \X {Base(c, n)}, {}, z)
<1> DEFINE loop == [again |-> again, breaks |-> {}, scopes |-> c.scopes]
           c0 == [c EXCEPT !.loops = Append(@, loop)]
           d  == CompileBlock(parts, c0, body, FALSE)
           e1 == Emit(d, JumpOp(again))
           e  == [e1 EXCEPT !.loops = Front(@)]
           x  == Base(c, n)
<1>1. /\ CompileBody(parts, c, body, again).c = e
      /\ CompileBody(parts, c, body, again).breaks = Last(d.loops).breaks
  BY DEF CompileBody, LoopClosed
<1>2. /\ Here(c) \in Nat /\ c.scopes \in Nat /\ c.loops \in Seq(OpenLoop) /\ x \in Height
      /\ again \in Nat
  BY HereNat, BaseHeight
<1>3. loop \in OpenLoop
  BY <1>2 DEF OpenLoop
<1>4. PICK m \in Nat : m = Len(c.loops)
  BY <1>2
<1>5. PICK ls : /\ ls = Append(c.loops, loop) /\ ls \in Seq(OpenLoop) /\ ls # <<>>
                /\ Len(ls) = m + 1 /\ ls[m + 1] = loop /\ Last(ls) = loop
                /\ \A i \in 1..m : ls[i] = c.loops[i]
  <2>1. Append(c.loops, loop) \in Seq(OpenLoop) /\ Len(Append(c.loops, loop)) = m + 1
    BY <1>2, <1>3, <1>4
  <2>2. /\ Append(c.loops, loop)[m + 1] = loop
        /\ \A i \in 1..m : Append(c.loops, loop)[i] = c.loops[i]
    BY <1>2, <1>3, <1>4
  <2>3. PICK ls : ls = Append(c.loops, loop)
    OBVIOUS
  <2> HIDE DEF loop
  <2>4. ls \in Seq(OpenLoop) /\ Len(ls) = m + 1 /\ ls[m + 1] = loop /\ \A i \in 1..m : ls[i] = c.loops[i]
    BY <2>1, <2>2, <2>3
  <2>5. Last(ls) = loop
    BY <2>4 DEF Last
  <2>6. ls # <<>>
    BY <2>4
  <2> QED
    BY <2>3, <2>4, <2>5, <2>6
<1>6. /\ loop.again = again /\ loop.breaks = {} /\ loop.scopes = c.scopes
  OBVIOUS
<1> HIDE DEF loop
<1>7. /\ Shaped(c0) /\ c0.at = c.at /\ c0.ops = c.ops /\ c0.fns = c.fns
      /\ c0.loops = ls /\ c0.scopes = c.scopes
  <2>1. PICK a, o, l, k, f : c = [at |-> a, ops |-> o, loops |-> l, scopes |-> k, fns |-> f]
    BY DEF Shaped
  <2>2. c0 = [at |-> a, ops |-> o, loops |-> ls, scopes |-> k, fns |-> f]
    <3>1. c0 = [c EXCEPT !.loops = Append(c.loops, loop)]
      BY <2>1
    <3>2. c0 = [c EXCEPT !.loops = ls]
      BY <1>5, <3>1
    <3> HIDE DEF c0
    <3> QED
      BY <2>1, <3>2
  <2>3. k \in Nat /\ a \in Nat /\ IsSeq(o)
    BY <2>1 DEF Shaped
  <2> HIDE DEF c0
  <2> QED
    BY <1>5, <2>1, <2>2, <2>3 DEF Shaped
<1> HIDE DEF c0
<1>8. /\ Here(c0) = Here(c) /\ \A G, f, W, K : Adds(c0, G, f, K, W) => Adds(c, G, f, K, W)
  BY <1>7, SameCode
<1>9. Base(c0, n) = x /\ OutOf(c0, n) = x /\ Left(c0, n, FALSE) = x
  BY <1>5, <1>6, <1>7 DEF Base, OutOf, Left
<1>10. Ready(c0, H, n)
  BY <1>2, <1>5, <1>6, <1>7, <1>8, <1>9 DEF Ready, InLoop
<1>11. PartsFit(parts, S, O, c0.fns) /\ body \in Seq(Place(c0, S, O))
  <2>1. Place(c0, S, O) = S
    BY <1>5, <1>7 DEF Place
  <2> QED
    BY <1>7, <2>1
<1>12. PICK G, N : Leads(c0, H, d, G, N \X {x}, N, x)
  <2>1. Effect(c0, H, n, d, Left(c0, n, FALSE))
    BY <1>10, <1>11, BlockEffect
  <2> HIDE DEF d
  <2> QED
    BY <1>9, <2>1 DEF Effect
<1> HIDE DEF d, x
<1>13. /\ Shaped(d) /\ G \in [Nat -> Height] /\ G[Here(d)] = x /\ d.fns = c.fns
       /\ d.scopes = c.scopes /\ \A i \in 0..Here(c) : G[i] = H[i]
  BY <1>7, <1>8, <1>12, LeadsShape
<1>14. Here(c) <= Here(d) /\ Here(d) \in Nat
  <2>1. Extends(c0, H, d, G) /\ Extends(c0, H, c0, H)
    <3>1. Leads(c0, H, c0, H, {}, {}, H[Here(c0)])
      BY <1>7, LeadsNowhere
    <3> QED
      BY <1>12, <3>1 DEF Leads, Adds
  <2> QED
    BY <1>7, <1>8, <1>13, <2>1, ExtendsOn, HereNat
<1>15. /\ d.loops \in Seq(OpenLoop) /\ Len(d.loops) = m + 1
       /\ \A i \in 1..m : d.loops[i] = c.loops[i]
       /\ d.loops[m + 1].breaks = N
  <2>1. Keeps(c0, d, N) /\ d.loops \in Seq(OpenLoop)
    BY <1>12, <1>13, HereNat DEF Leads
  <2>2. /\ Len(d.loops) = m + 1
        /\ \A i \in 1..m + 1 :
              d.loops[i] = IF i = m + 1 THEN [ls[i] EXCEPT !.breaks = @ \cup N] ELSE ls[i]
    BY <1>5, <1>7, <2>1 DEF Keeps
  <2>3. ASSUME NEW i \in 1..m
        PROVE  d.loops[i] = c.loops[i]
    <3>1. i \in 1..m + 1 /\ i # m + 1
      OBVIOUS
    <3>2. d.loops[i] = ls[i]
      BY <2>2, <3>1
    <3> QED
      BY <1>5, <3>2
  <2>4. d.loops[m + 1] = [loop EXCEPT !.breaks = @ \cup N]
    <3>1. m + 1 \in 1..m + 1
      OBVIOUS
    <3>2. d.loops[m + 1] = [ls[m + 1] EXCEPT !.breaks = @ \cup N]
      BY <2>2, <3>1
    <3> QED
      BY <1>5, <3>2
  <2>5. d.loops[m + 1].breaks = N
    BY <1>3, <1>6, <2>4 DEF OpenLoop
  <2> QED
    BY <2>1, <2>2, <2>3, <2>5
<1>16. Last(d.loops).breaks = N
  BY <1>15 DEF Last
<1>17. PICK K : Leads(d, G, e1, K, {}, {}, z)
  <2> DEFINE o == JumpOp(again)
  <2>1. o.op = "Jump" /\ o.t = again
    BY DEF JumpOp
  <2>2. Takes(o) = 0 /\ Gives(o) = 0 /\ ~Falls(o)
    BY <2>1 DEF Takes, Gives, Falls
  <2>3. Works(o, x, d.fns)
    BY <1>2, <2>1, <2>2 DEF Works, Height
  <2>4. AfterJump(o, x) = x
    BY <1>2, <2>1, <2>2 DEF After, AfterJump, ItersAfter, ScopesAfter, Height
  <2>5. o.t \in 1..Here(d) /\ G[o.t] = x
    <3>1. again \in 1..Here(d) /\ again \in 0..Here(c)
      BY <1>2, <1>14
    <3> QED
      BY <1>13, <2>1, <3>1 DEF x
  <2> HIDE DEF o
  <2>6. \E K : Leads(d, G, Emit(d, o), K, {}, {}, z)
    BY <1>13, <2>2, <2>3, <2>4, <2>5, BackLeads
  <2> QED
    BY <2>6 DEF o
<1>18. Leads(c0, H, e1, K, (N \X {x}) \cup {}, N \cup {}, z)
  BY <1>7, <1>12, <1>13, <1>17, LeadsOn
<1>19. (N \X {x}) \cup {} = N \X {x}
  OBVIOUS
<1>20. Adds(c0, H, e1, K, N \X {x}) /\ K[Here(e1)] = z
  BY <1>18, <1>19 DEF Leads
<1>21. Shaped(e1) /\ e1.loops = d.loops /\ e1.scopes = c.scopes
  BY <1>13, EmitShape
<1> HIDE DEF e1
<1>22. Front(e1.loops) = c.loops
  <2>1. PICK s \in Seq(OpenLoop), t \in Seq(OpenLoop) :
           s = d.loops /\ t = c.loops
    BY <1>2, <1>15
  <2>2. Len(s) = m + 1 /\ Len(t) = m /\ \A i \in 1..m : s[i] = t[i]
    BY <1>4, <1>15, <2>1
  <2>3. Front(s) = SubSeq(s, 1, m)
    BY <2>2 DEF Front
  <2>4. SubSeq(s, 1, m) = t
    <3>1. SubSeq(s, 1, m) \in Seq(OpenLoop) /\ Len(SubSeq(s, 1, m)) = m
          /\ \A i \in 1..m : SubSeq(s, 1, m)[i] = s[i]
      BY <2>2, SubSeqProperties
    <3> QED
      BY <2>2, <3>1, SeqEqual
  <2> QED
    BY <1>21, <2>1, <2>3, <2>4
<1>23. /\ Shaped(e) /\ e.at = e1.at /\ e.ops = e1.ops /\ e.fns = e1.fns
       /\ e.loops = c.loops /\ e.scopes = c.scopes
  <2>1. PICK a, o, l, k, f : e1 = [at |-> a, ops |-> o, loops |-> l, scopes |-> k, fns |-> f]
    BY <1>21 DEF Shaped
  <2>2. e = [at |-> a, ops |-> o, loops |-> c.loops, scopes |-> k, fns |-> f]
    BY <1>22, <2>1
  <2>3. k \in Nat /\ a \in Nat /\ IsSeq(o)
    BY <1>21, <2>1 DEF Shaped
  <2> HIDE DEF e
  <2> QED
    BY <1>2, <1>21, <2>1, <2>2, <2>3 DEF Shaped
<1> HIDE DEF e
<1>24. Here(e) = Here(e1) /\ Adds(c0, H, e, K, N \X {x})
  BY <1>20, <1>21, <1>23, SameCode
<1>25. Adds(c, H, e, K, N \X {x})
  BY <1>8, <1>24
<1>26. Keeps(c, e, {})
  BY <1>23, KeepsItself
<1>27. Leads(c, H, e, K, N \X {x}, {}, z)
  BY <1>20, <1>24, <1>25, <1>26 DEF Leads
<1> QED
  BY <1>1, <1>16, <1>27 DEF x

\* A while.
LEMMA WhileEffect ==
    ASSUME NEW c, NEW H, NEW n, Ready(c, H, n), NEW parts, NEW S, NEW O,
           PartsFit(parts, S, O, c.fns), NEW s, s.e \in Exprs, s.body \in Seq(S)
    PROVE  Effect(c, H, n, CompileWhile(parts, c, s), Base(c, n))
<1> DEFINE x == Base(c, n)
           test == SubExpr(parts.exprs, c, s.e)
           branch == Emit(test, BranchOp(FALSE))
           body == CompileBody(parts, branch, s.body, Here(c))
<1>1. /\ InLoop(c, H, n) /\ Shaped(c) /\ n \in Nat /\ H \in [Nat -> Height]
      /\ H[Here(c)] = x /\ x \in Height /\ Here(c) \in Nat /\ Here(c) >= 1
  BY HereNat, BaseHeight DEF Ready, InLoop
<1>2. CompileWhile(parts, c, s) = Patch(body.c, body.breaks \cup {Here(test)}, Here(body.c))
  BY DEF CompileWhile, CompileWhileBody, WhileClosed
<1>3. PICK K : Leads(c, H, branch, K, {<<Here(test), x>>}, {}, x)
  <2> HIDE DEF x
  <2>1. ExprsFit(parts.exprs, Exprs, c.fns)
    BY DEF PartsFit
  <2> QED
    BY <1>1, <2>1, TestBranch
<1> HIDE DEF test, branch
<1>4. Came(c, n, branch, K, x) /\ Shaped(branch) /\ \A i \in 0..Here(c) : K[i] = H[i]
  BY <1>1, <1>3, LeadsCame, LeadsShape
<1>5. Here(c) \in 1..Here(branch)
  <2>1. Extends(c, H, branch, K) /\ Extends(c, H, c, H)
    <3>1. Leads(c, H, c, H, {}, {}, H[Here(c)])
      BY <1>1, LeadsNowhere
    <3> QED
      BY <1>3, <3>1 DEF Leads, Adds
  <2> QED
    BY <1>1, <1>4, <2>1, ExtendsOn, HereNat
<1>6. /\ K \in [Nat -> Height] /\ K[Here(branch)] = Base(branch, n) /\ Base(branch, n) = x
      /\ PartsFit(parts, S, O, branch.fns)
  BY <1>4 DEF Came, InLoop
<1>7. K[Here(c)] = Base(branch, n)
  <2>1. Here(c) \in 0..Here(c)
    BY <1>1
  <2> QED
    BY <1>1, <1>4, <1>6, <2>1
<1> HIDE DEF x
<1>8. PICK G : Leads(branch, K, body.c, G, body.breaks \X {Base(branch, n)}, {}, x)
  BY <1>1, <1>4, <1>5, <1>6, <1>7, BodyLeads
<1>9. Leads(branch, K, body.c, G, body.breaks \X {x}, {}, x)
  BY <1>6, <1>8
<1> HIDE DEF body
<1>10. Leads(c, H, body.c, G, {<<Here(test), x>>} \cup (body.breaks \X {x}), {} \cup {}, x)
  BY <1>1, <1>3, <1>4, <1>9, LeadsOn
<1>11. /\ {<<Here(test), x>>} \cup (body.breaks \X {x})
            = {} \cup ((body.breaks \cup {Here(test)}) \X {x})
       /\ {} \cup {} = {}
  OBVIOUS
<1>12. Leads(c, H, body.c, G, {} \cup ((body.breaks \cup {Here(test)}) \X {x}), {}, x)
  BY <1>10, <1>11
<1>13. Leads(c, H, Patch(body.c, body.breaks \cup {Here(test)}, Here(body.c)), G, {}, {}, x)
  BY <1>1, <1>12, PatchLeads
<1> QED
  BY <1>2, <1>13, LeadsEffect DEF x

\* A for, behind the code of what it iterates: its breaks leave an iterator more
\* than its exhaustion.
LEMMA ForEffect ==
    ASSUME NEW c, NEW H, NEW n, InLoop(c, H, n), H[Here(c)] = Up(Base(c, n), 1),
           NEW parts, NEW S, NEW O, PartsFit(parts, S, O, c.fns), NEW s, s.body \in Seq(S)
    PROVE  Effect(c, H, n, CompileFor(parts, c, s), Base(c, n))
<1> DEFINE x == Base(c, n)
           x1 == Base(c, n + 1)
           start == Emit(c, OpOf("ForStart"))
           at == Here(start)
           next == Emit(start, ForNextOp(s.n))
           body == CompileBody(parts, next, s.body, at)
           out == BreakOut(body)
<1>1. /\ Shaped(c) /\ n \in Nat /\ n + 1 \in Nat /\ H \in [Nat -> Height] /\ c.scopes \in Nat
      /\ x \in Height /\ x1 \in Height
      /\ x = [stack |-> 0, iters |-> n, scopes |-> c.scopes + 1]
      /\ x1 = [stack |-> 0, iters |-> n + 1, scopes |-> c.scopes + 1]
      /\ Up(x, 1) = [stack |-> 1, iters |-> n, scopes |-> c.scopes + 1]
  <2>1. /\ Shaped(c) /\ n \in Nat /\ n + 1 \in Nat /\ H \in [Nat -> Height] /\ c.scopes \in Nat
    BY HereNat DEF InLoop
  <2>2. x \in Height /\ x1 \in Height
    BY <2>1, BaseHeight
  <2> QED
    BY <2>1, <2>2 DEF Base, Up
<1>2. CompileFor(parts, c, s) = Patch(out, {at}, Here(out))
  BY DEF CompileFor, CompileForBody, Close
<1>3. PICK G1 : Leads(c, H, start, G1, {}, {}, x1)
  <2> DEFINE o == OpOf("ForStart")
  <2>1. o.op = "ForStart" /\ Takes(o) = 1 /\ Gives(o) = 0 /\ ~Jumps(o)
    BY DEF OpOf, Takes, Gives, Jumps
  <2>2. Works(o, H[Here(c)], c.fns)
    BY <1>1, <2>1 DEF Works
  <2>3. After(o, H[Here(c)]) = x1
    <3>1. After(o, [stack |-> 1, iters |-> n, scopes |-> c.scopes + 1]) =
            [stack |-> 1 - 1 + 0, iters |-> n + 1, scopes |-> c.scopes + 1]
      BY <2>1 DEF After, ItersAfter, ScopesAfter
    <3> QED
      BY <1>1, <3>1
  <2> HIDE DEF o, x, x1
  <2> QED
    BY <1>1, <2>1, <2>2, <2>3, PlainLeads DEF o
<1> HIDE DEF start
<1>4. /\ Shaped(start) /\ G1 \in [Nat -> Height] /\ G1[at] = x1 /\ start.fns = c.fns
      /\ start.scopes = c.scopes
  BY <1>3, LeadsShape
<1>5. PICK G2 : Leads(start, G1, next, G2, {<<at, x>>}, {}, x1)
  <2> DEFINE o == ForNextOp(s.n)
  <2>1. o.op = "ForNext" /\ Jumper(o)
    BY DEF ForNextOp, Jumper, Jumps
  <2>2. Takes(o) = 0 /\ Gives(o) = 0 /\ Falls(o)
    BY <2>1 DEF Takes, Gives, Falls
  <2>3. Works(o, x1, start.fns)
    BY <1>1, <2>1, <2>2 DEF Works
  <2>4. After(o, x1) = x1
    <3>1. After(o, [stack |-> 0, iters |-> n + 1, scopes |-> c.scopes + 1]) =
            [stack |-> 0 - 0 + 0, iters |-> n + 1, scopes |-> c.scopes + 1]
      BY <2>1, <2>2 DEF After, ItersAfter, ScopesAfter
    <3> QED
      BY <1>1, <3>1
  <2>5. AfterJump(o, x1) = x
    <3>1. AfterJump(o, x1) = [x1 EXCEPT !.iters = @ - 1]
      BY <2>1, <2>4 DEF AfterJump
    <3>2. [x1 EXCEPT !.iters = @ - 1] = [stack |-> 0, iters |-> (n + 1) - 1, scopes |-> c.scopes + 1]
      BY <1>1
    <3>3. (n + 1) - 1 = n
      BY <1>1
    <3> QED
      BY <1>1, <3>1, <3>2, <3>3
  <2> HIDE DEF o, x, x1
  <2> QED
    BY <1>1, <1>4, <2>1, <2>3, <2>4, <2>5, PendingLeads DEF o
<1> HIDE DEF next
<1>6. /\ Shaped(next) /\ G2 \in [Nat -> Height] /\ G2[Here(next)] = x1 /\ next.fns = c.fns
      /\ next.scopes = c.scopes /\ \A i \in 0..at : G2[i] = G1[i]
  BY <1>4, <1>5, LeadsShape
<1>7. at \in 1..Here(next) /\ G2[at] = x1 /\ at \in Nat
  <2>1. Extends(start, G1, next, G2) /\ Extends(start, G1, start, G1)
    <3>1. Leads(start, G1, start, G1, {}, {}, G1[Here(start)])
      BY <1>4, LeadsNowhere
    <3> QED
      BY <1>5, <3>1 DEF Leads, Adds
  <2>2. at \in Nat /\ at >= 1 /\ at <= Here(next) /\ Here(next) \in Nat
    BY <1>4, <1>6, <2>1, ExtendsOn, HereNat
  <2> QED
    BY <1>4, <1>6, <2>2
<1>8. Base(next, n + 1) = x1 /\ PartsFit(parts, S, O, next.fns)
  BY <1>1, <1>6 DEF Base
<1> HIDE DEF at, x, x1
<1>9. ASSUME NEW z \in Height
      PROVE  \E G : Leads(next, G2, body.c, G, body.breaks \X {x1}, {}, z)
  <2>1. G2[Here(next)] = Base(next, n + 1) /\ G2[at] = Base(next, n + 1)
    BY <1>6, <1>7, <1>8
  <2>2. \E G : Leads(next, G2, body.c, G, body.breaks \X {Base(next, n + 1)}, {}, z)
    BY <1>1, <1>6, <1>7, <1>8, <2>1, BodyLeads
  <2> QED
    BY <1>8, <2>2
<1> HIDE DEF body
<1>10. \E G : Leads(next, G2, out, G, {}, {}, x)
  <2>1. CASE body.breaks = {}
    <3>1. PICK G : Leads(next, G2, body.c, G, body.breaks \X {x1}, {}, x)
      BY <1>1, <1>9
    <3>2. body.breaks \X {x1} = {} /\ out = body.c
      BY <2>1 DEF BreakOut
    <3>3. Leads(next, G2, out, G, {}, {}, x)
      BY <3>1, <3>2
    <3> QED
      BY <3>3
  <2>2. CASE body.breaks # {}
    <3> DEFINE p == Patch(body.c, body.breaks, Here(body.c))
               o == OpOf("PopIter")
    <3>1. PICK G : Leads(next, G2, body.c, G, body.breaks \X {x1}, {}, x1)
      BY <1>1, <1>9
    <3>2. {} \cup (body.breaks \X {x1}) = body.breaks \X {x1}
      OBVIOUS
    <3>3. Leads(next, G2, body.c, G, {} \cup (body.breaks \X {x1}), {}, x1)
      BY <3>1, <3>2
    <3>4. Leads(next, G2, p, G, {}, {}, x1)
      BY <1>6, <3>3, PatchLeads
    <3>5. out = Emit(p, o)
      BY <2>2 DEF BreakOut
    <3> HIDE DEF p
    <3>6. Shaped(p) /\ G \in [Nat -> Height] /\ G[Here(p)] = x1
      BY <3>4, LeadsShape
    <3>7. PICK K : Leads(p, G, Emit(p, o), K, {}, {}, x)
      <4>1. o.op = "PopIter" /\ Takes(o) = 0 /\ Gives(o) = 0 /\ ~Jumps(o)
        BY DEF OpOf, Takes, Gives, Jumps
      <4>2. Works(o, x1, p.fns)
        BY <1>1, <4>1 DEF Works
      <4>3. After(o, x1) = x
        <5>1. After(o, [stack |-> 0, iters |-> n + 1, scopes |-> c.scopes + 1]) =
                [stack |-> 0 - 0 + 0, iters |-> (n + 1) - 1, scopes |-> c.scopes + 1]
          BY <4>1 DEF After, ItersAfter, ScopesAfter
        <5>2. (n + 1) - 1 = n
          BY <1>1
        <5> QED
          BY <1>1, <5>1, <5>2
      <4> HIDE DEF o
      <4> QED
        BY <1>1, <3>6, <4>1, <4>2, <4>3, PlainLeads
    <3> HIDE DEF o
    <3>8. Leads(next, G2, Emit(p, o), K, {} \cup {}, {} \cup {}, x)
      BY <1>6, <3>4, <3>6, <3>7, LeadsOn
    <3>9. {} \cup {} = {}
      OBVIOUS
    <3>10. Leads(next, G2, out, K, {}, {}, x)
      BY <3>5, <3>8, <3>9
    <3> QED
      BY <3>10
  <2> QED
    BY <2>1, <2>2
<1> HIDE DEF out
<1>11. PICK G : Leads(next, G2, out, G, {}, {}, x)
  BY <1>10
<1>12. Leads(start, G1, out, G, {<<at, x>>} \cup {}, {} \cup {}, x)
  BY <1>4, <1>5, <1>6, <1>11, LeadsOn
<1>13. Leads(c, H, out, G, {} \cup ({<<at, x>>} \cup {}), {} \cup ({} \cup {}), x)
  BY <1>1, <1>3, <1>4, <1>12, LeadsOn
<1>14. {} \cup ({<<at, x>>} \cup {}) = {} \cup ({at} \X {x}) /\ {} \cup ({} \cup {}) = {}
  OBVIOUS
<1>15. Leads(c, H, out, G, {} \cup ({at} \X {x}), {}, x)
  BY <1>13, <1>14
<1>16. Leads(c, H, Patch(out, {at}, Here(out)), G, {}, {}, x)
  BY <1>1, <1>15, PatchLeads
<1> QED
  BY <1>2, <1>16, LeadsEffect DEF x

\* Leaving the loop body restores the scopes at the loop's entry.
LEMMA LeaveLeads ==
    ASSUME NEW c, NEW H, NEW n, Ready(c, H, n), c.loops # <<>>
    PROVE  /\ \E G : Leads(c, H, CompileLeave(c), G, {}, {}, OutOf(c, n))
           /\ CompileLeave(c).loops = c.loops
<1> DEFINE entry == Last(c.loops).scopes
           o == NameOp("TruncScopes", entry)
<1>1. /\ InLoop(c, H, n) /\ Shaped(c) /\ n \in Nat /\ H \in [Nat -> Height]
      /\ H[Here(c)] = Base(c, n) /\ c.scopes \in Nat /\ OutOf(c, n) \in Height
      /\ entry <= c.scopes
  BY HereNat, BaseHeight DEF Ready, InLoop
<1>2. entry \in Nat
  <2>1. Last(c.loops) \in OpenLoop
    BY <1>1, HereNat DEF Last
  <2> QED
    BY <2>1 DEF OpenLoop
<1>3. /\ Base(c, n) = [stack |-> 0, iters |-> n, scopes |-> c.scopes + 1]
      /\ OutOf(c, n) = [stack |-> 0, iters |-> n, scopes |-> entry + 1]
  BY DEF Base, OutOf
<1>4. CompileLeave(c) = IF c.scopes > entry THEN Emit(c, o) ELSE c
  BY DEF CompileLeave
<1>5. o.op = "TruncScopes" /\ o.n = entry
  BY DEF NameOp
<1> HIDE DEF entry, o
<1>6. CASE c.scopes > entry
  <2>1. Takes(o) = 0 /\ Gives(o) = 0 /\ ~Jumps(o)
    BY <1>5 DEF Takes, Gives, Jumps
  <2>2. Works(o, Base(c, n), c.fns)
    BY <1>2, <1>3, <1>5, <2>1 DEF Works
  <2>3. After(o, Base(c, n)) = OutOf(c, n)
    <3>1. entry + 1 < c.scopes + 1
      BY <1>1, <1>2, <1>6
    <3>2. After(o, [stack |-> 0, iters |-> n, scopes |-> c.scopes + 1]) =
            [stack |-> 0 - 0 + 0, iters |-> n, scopes |-> entry + 1]
      BY <1>5, <2>1, <3>1 DEF After, ItersAfter, ScopesAfter
    <3> QED
      BY <1>3, <3>2
  <2>4. \E G : Leads(c, H, Emit(c, o), G, {}, {}, OutOf(c, n))
    BY <1>1, <2>1, <2>2, <2>3, PlainLeads
  <2> QED
    BY <1>1, <1>4, <1>6, <2>4, EmitShape
<1>7. CASE ~(c.scopes > entry)
  <2>1. c.scopes = entry
    BY <1>1, <1>2, <1>7
  <2>2. OutOf(c, n) = H[Here(c)]
    BY <1>1, <1>3, <2>1
  <2>3. Leads(c, H, c, H, {}, {}, OutOf(c, n))
    BY <1>1, <2>2, LeadsNowhere
  <2> QED
    BY <1>4, <1>7, <2>3
<1> QED
  BY <1>6, <1>7

\* A break; nothing gets behind it.
LEMMA BreakEffect ==
    ASSUME NEW c, NEW H, NEW n, Ready(c, H, n), c.loops # <<>>, NEW z \in Height
    PROVE  Effect(c, H, n, CompileBreak(c), z)
<1> DEFINE q == OutOf(c, n)
           left == CompileLeave(c)
           left2 == [left EXCEPT !.loops[Len(left.loops)].breaks = @ \cup {Here(left)}]
           o == JumpOp(0)
           j == Emit(left, o)
           d == Emit(left2, o)
           N == {Here(left)}
<1>1. Shaped(c) /\ H \in [Nat -> Height] /\ q \in Height /\ c.loops \in Seq(OpenLoop)
  BY HereNat, BaseHeight DEF Ready, InLoop
<1>2. CompileBreak(c) = d
  BY DEF CompileBreak
<1>3. PICK G : Leads(c, H, left, G, {}, {}, q)
  BY LeaveLeads
<1>4. left.loops = c.loops
  BY LeaveLeads
<1> HIDE DEF q, left
<1>5. /\ Shaped(left) /\ G \in [Nat -> Height] /\ G[Here(left)] = q
      /\ left.scopes = c.scopes /\ Here(left) \in Nat
  BY <1>3, LeadsShape, HereNat
<1>6. PICK K : Leads(left, G, j, K, {<<Here(left), q>>}, {}, z)
  BY <1>1, <1>5, JumpLeads
<1>7. PICK m \in Nat : m = Len(c.loops) /\ m \in 1..Len(c.loops) /\ c.loops[m] \in OpenLoop
  BY <1>1
<1>8. PICK b : b = [c.loops[m] EXCEPT !.breaks = c.loops[m].breaks \cup N] /\ b \in OpenLoop
  <2>1. N \subseteq Nat
    BY <1>5
  <2> HIDE DEF N
  <2>2. PICK l : l = c.loops[m] /\ l \in OpenLoop
    BY <1>7
  <2>3. PICK g, h, k : l = [again |-> g, breaks |-> h, scopes |-> k]
                       /\ g \in Nat /\ h \subseteq Nat /\ k \in Nat
    BY <2>2 DEF OpenLoop
  <2>4. PICK t : t = h \cup N /\ t \subseteq Nat
    BY <2>1, <2>3
  <2>5. l.breaks \cup N = t
    BY <2>3, <2>4
  <2>6. [l EXCEPT !.breaks = t] \in OpenLoop
    BY <2>2, <2>4 DEF OpenLoop
  <2> QED
    BY <2>2, <2>5, <2>6
<1>81. PICK ls : /\ ls = [c.loops EXCEPT ![m] = b]
                 /\ ls \in Seq(OpenLoop) /\ Len(ls) = m
                 /\ \A i \in 1..m : ls[i] = IF i = m THEN b ELSE c.loops[i]
  <2>1. PICK ls : ls = [c.loops EXCEPT ![m] = b]
    OBVIOUS
  <2>2. ls \in Seq(OpenLoop) /\ Len(ls) = m
    <3>1. Len(c.loops) = m /\ m \in 1..m
      BY <1>7
    <3> QED
      BY <1>1, <1>8, <2>1, <3>1, ExceptSeq
  <2>3. \A i \in 1..m : ls[i] = IF i = m THEN b ELSE c.loops[i]
    BY <1>1, <1>7, <2>1
  <2> QED
    BY <2>1, <2>2, <2>3
<1>82. \A i \in 1..m : ls[i] = IF i = m THEN [c.loops[i] EXCEPT !.breaks = @ \cup N]
                              ELSE c.loops[i]
  <2> HIDE DEF N
  <2> QED
    BY <1>8, <1>81
<1>9. /\ Shaped(left2) /\ left2.at = left.at /\ left2.ops = left.ops /\ left2.fns = left.fns
      /\ left2.loops = ls /\ left2.scopes = c.scopes
  <2>1. PICK a, p, l, k, f : left = [at |-> a, ops |-> p, loops |-> l, scopes |-> k, fns |-> f]
    BY <1>5 DEF Shaped
  <2>2. l = c.loops
    BY <1>4, <2>1
  <2>3. left2 = [at |-> a, ops |-> p, loops |-> ls, scopes |-> k, fns |-> f]
    <3>1. left2 = [left EXCEPT !.loops = ls]
      BY <1>4, <1>7, <1>8, <1>81
    <3> HIDE DEF left2
    <3> QED
      BY <2>1, <3>1
  <2>4. k = c.scopes /\ k \in Nat /\ a \in Nat /\ IsSeq(p)
    BY <1>5, <2>1 DEF Shaped
  <2> HIDE DEF left2
  <2> QED
    BY <1>81, <2>1, <2>3, <2>4 DEF Shaped
<1> HIDE DEF left2
<1>10. /\ Shaped(d) /\ d.at = j.at /\ d.ops = j.ops /\ d.fns = j.fns /\ d.loops = ls
       /\ d.scopes = c.scopes /\ Shaped(j)
  <2>1. Shaped(d) /\ Shaped(j) /\ d.at = left.at /\ j.at = left.at /\ d.fns = left.fns
        /\ j.fns = left.fns /\ d.loops = ls /\ d.scopes = c.scopes
    BY <1>5, <1>9, EmitShape
  <2>2. PICK a, p, l, k, f : left = [at |-> a, ops |-> p, loops |-> l, scopes |-> k, fns |-> f]
    BY <1>5 DEF Shaped
  <2>3. PICK a2, p2, l2, k2, f2 :
           left2 = [at |-> a2, ops |-> p2, loops |-> l2, scopes |-> k2, fns |-> f2]
    BY <1>9 DEF Shaped
  <2>4. p = p2
    BY <1>9, <2>2, <2>3
  <2>5. j.ops = Append(p, o) /\ d.ops = Append(p2, o)
    BY <2>2, <2>3 DEF Emit
  <2> QED
    BY <2>1, <2>4, <2>5
<1> HIDE DEF d, j
<1>11. Here(d) = Here(j) /\ Adds(left, G, d, K, {<<Here(left), q>>})
  <2>1. Adds(left, G, j, K, {<<Here(left), q>>})
    BY <1>6 DEF Leads
  <2> QED
    BY <1>10, <2>1, SameCode
<1>12. Keeps(left, d, N)
  <2>1. left.loops = c.loops /\ Len(left.loops) = m /\ Len(d.loops) = m
    BY <1>4, <1>7, <1>81, <1>10
  <2> HIDE DEF N
  <2> QED
    BY <1>4, <1>5, <1>82, <1>10, <2>1 DEF Keeps
<1>13. {<<Here(left), q>>} = N \X {q}
  OBVIOUS
<1>14. Leads(left, G, d, K, N \X {q}, N, z)
  <2>1. K[Here(j)] = z
    BY <1>6 DEF Leads
  <2> QED
    BY <1>11, <1>12, <1>13, <2>1 DEF Leads
<1> HIDE DEF N
<1>15. Leads(c, H, d, K, {} \cup (N \X {q}), {} \cup N, z)
  BY <1>1, <1>3, <1>5, <1>14, LeadsOn
<1>16. {} \cup (N \X {q}) = N \X {q} /\ {} \cup N = N
  OBVIOUS
<1>17. Leads(c, H, d, K, N \X {q}, N, z)
  BY <1>15, <1>16
<1> QED
  BY <1>2, <1>17 DEF Effect, q

\* A continue.
LEMMA ContinueEffect ==
    ASSUME NEW c, NEW H, NEW n, Ready(c, H, n), c.loops # <<>>, NEW z \in Height
    PROVE  Effect(c, H, n, CompileContinue(c), z)
<1> DEFINE q == OutOf(c, n)
           left == CompileLeave(c)
           o == JumpOp(Last(c.loops).again)
<1>1. Shaped(c) /\ H \in [Nat -> Height] /\ q \in Height /\ InLoop(c, H, n)
  BY BaseHeight DEF Ready, InLoop
<1>2. PICK G : Leads(c, H, left, G, {}, {}, q)
  BY LeaveLeads
<1>3. left.loops = c.loops
  BY LeaveLeads
<1>4. CompileContinue(c) = Emit(left, o)
  BY DEF CompileContinue
<1> HIDE DEF left
<1>5. /\ Shaped(left) /\ G \in [Nat -> Height] /\ G[Here(left)] = q
      /\ InLoop(left, G, n) /\ OutOf(left, n) = q
  BY <1>1, <1>2, InLoopOn
<1>6. o.t \in 1..Here(left) /\ G[o.t] = q
  <2>1. o.t = Last(left.loops).again
    BY <1>3 DEF JumpOp
  <2> QED
    BY <1>3, <1>5, <2>1 DEF InLoop
<1>7. o.op = "Jump"
  BY DEF JumpOp
<1>8. Takes(o) = 0 /\ Gives(o) = 0 /\ ~Falls(o)
  BY <1>7 DEF Takes, Gives, Falls
<1> HIDE DEF o, q
<1>9. Works(o, q, left.fns)
  BY <1>1, <1>7, <1>8 DEF Works, Height
<1>10. AfterJump(o, q) = q
  BY <1>1, <1>7, <1>8 DEF After, AfterJump, ItersAfter, ScopesAfter, Height
<1>11. PICK K : Leads(left, G, Emit(left, o), K, {}, {}, z)
  BY <1>5, <1>6, <1>8, <1>9, <1>10, BackLeads
<1>12. Leads(c, H, Emit(left, o), K, {} \cup {}, {} \cup {}, z)
  BY <1>1, <1>2, <1>5, <1>11, LeadsOn
<1>13. {} \cup {} = {}
  OBVIOUS
<1>14. Leads(c, H, Emit(left, o), K, {}, {}, z)
  BY <1>12, <1>13
<1> QED
  BY <1>4, <1>14, LeadsEffect

\* A return, behind the code of what it returns.
LEMMA ReturnEffect ==
    ASSUME NEW c, NEW H, NEW n, InLoop(c, H, n), H[Here(c)] \in Height, NEW s, NEW z \in Height
    PROVE  Effect(c, H, n, CompileReturn(c, s), z)
<1> DEFINE d == IF s.es = <<>> THEN Emit(c, PushConstOp(None)) ELSE c
           o == OpOf("Return")
<1>1. \E x \in Height : Effect(c, H, n, d, x)
  <2>1. Effect(c, H, n, c, H[Here(c)])
    BY EffectNowhere
  <2>2. Effect(c, H, n, Emit(c, PushConstOp(None)), Up(H[Here(c)], 1))
    BY <2>1, PushEffect
  <2>3. Up(H[Here(c)], 1) \in Height
    BY UpUp
  <2> QED
    BY <2>1, <2>2, <2>3
<1>2. CompileReturn(c, s) = Emit(d, o)
  BY DEF CompileReturn
<1> HIDE DEF d
<1>3. PICK x \in Height : Effect(c, H, n, d, x)
  BY <1>1
<1>4. ASSUME NEW G, InLoop(d, G, n), G[Here(d)] = x
      PROVE  Effect(d, G, n, Emit(d, o), z)
  <2>1. Shaped(d) /\ G \in [Nat -> Height]
    BY <1>4 DEF InLoop
  <2>2. o.op = "Return" /\ Takes(o) = 0 /\ ~Jumps(o) /\ ~Falls(o)
    BY DEF OpOf, Takes, Jumps, Falls
  <2>3. Works(o, x, d.fns)
    BY <2>2 DEF Works, Height
  <2> HIDE DEF o
  <2>4. \E K : Leads(d, G, Emit(d, o), K, {}, {}, z)
    BY <1>4, <2>1, <2>2, <2>3, PlainLeads
  <2> QED
    BY <2>4, LeadsEffect
<1> HIDE DEF o
<1> QED
  BY <1>2, <1>3, <1>4, EffectOn

-----------------------------------------------------------------------------
(* Every statement. *)

\* The blocks of a statement may stand where it stands, those of a loop in it.
LEMMA BlocksPlace ==
    ASSUME NEW c, NEW S, NEW O, OutsideLoops(O), NEW s, c.loops = <<>> => s \in O,
           s.k \in {"if", "match"}, NEW block \in Blocks(s), block \in Seq(S)
    PROVE  block \in Seq(Place(c, S, O))
<1>1. CASE c.loops # <<>>
  <2>1. Place(c, S, O) = S
    BY <1>1 DEF Place
  <2> QED
    BY <2>1
<1>2. CASE c.loops = <<>>
  <2>1. block \in Seq(O)
    BY <1>2 DEF OutsideLoops
  <2>2. \A i \in 1..Len(block) : block[i] \in S /\ block[i] \in O
    BY <2>1
  <2>3. \A i \in 1..Len(block) : block[i] \in Place(c, S, O)
    BY <1>2, <2>2 DEF Place
  <2>4. Len(block) \in Nat /\ block = [i \in 1..Len(block) |-> block[i]]
    OBVIOUS
  <2>5. block \in [1..Len(block) -> Place(c, S, O)]
    BY <2>3, <2>4
  <2> QED
    BY <2>4, <2>5, IsASeq
<1> QED
  BY <1>1, <1>2

\* A statement behind what it evaluates first.
LEMMA BehindEffect ==
    ASSUME NEW c, NEW H, NEW n, Ready(c, H, n), NEW parts, NEW S, NEW O, OutsideLoops(O),
           PartsFit(parts, S, O, c.fns), NEW s \in Stmts, c.loops = <<>> => s \in O,
           \A block \in Blocks(s) : block \in Seq(S),
           NEW value \in BOOLEAN, value => LeavesValue(s),
           s.k \in {"expr", "let", "assign", "if", "for", "match", "return"}
    PROVE  Effect(c, H, n, CompileBehind(parts, CompileHead(parts, c, s), s, value),
                  Left(c, n, value))
<1> DEFINE x == Base(c, n)
           y == Left(c, n, value)
           d == CompileHead(parts, c, s)
<1>1. /\ InLoop(c, H, n) /\ H[Here(c)] = x /\ x \in Height /\ y \in Height /\ n \in Nat
      /\ ExprsFit(parts.exprs, Exprs, c.fns) /\ Up(x, 1) \in Height
  BY BaseHeight DEF Ready, InLoop, PartsFit
<1>2. Heads(s) \in Seq(Exprs) /\ Len(Heads(s)) <= 1
  BY StmtAssumption
<1>3. Effect(c, H, n, c, x)
  BY <1>1, EffectNowhere
<1>4. Heads(s) # <<>> => Effect(c, H, n, d, Up(x, 1))
  <2>1. SUFFICES ASSUME Heads(s) # <<>>
                 PROVE  Effect(c, H, n, d, Up(x, 1))
    OBVIOUS
  <2>2. Heads(s)[1] \in Exprs
    BY <1>2, <2>1
  <2>3. Effect(c, H, n, SubExpr(parts.exprs, c, Heads(s)[1]), Up(x, 1))
    BY <1>1, <1>3, <2>2, ExprEffect
  <2> QED
    BY <2>1, <2>3 DEF CompileHead
<1>5. Heads(s) = <<>> => d = c
  BY DEF CompileHead
<1>6. s.k # "return" => Effect(c, H, n, d, Up(x, 1))
  <2>1. SUFFICES ASSUME s.k # "return"
                 PROVE  Effect(c, H, n, d, Up(x, 1))
    OBVIOUS
  <2>2. Heads(s) = <<s.e>>
    BY <2>1 DEF Heads
  <2>3. Heads(s) # <<>>
    BY <2>2
  <2> QED
    BY <1>4, <2>3
<1> HIDE DEF d
<1>7. \A block \in Blocks(s) : s.k \in {"if", "match"} => block \in Seq(Place(c, S, O))
  BY BlocksPlace
<1>8. CASE s.k = "expr"
  <2>1. CASE value
    <3>1. CompileBehind(parts, d, s, value) = d /\ y = Up(x, 1)
      BY <1>8, <2>1 DEF CompileBehind, Left
    <3> QED
      BY <1>6, <1>8, <3>1 DEF d
  <2>2. CASE ~value
    <3> DEFINE o == OpOf("Pop")
    <3>1. CompileBehind(parts, d, s, value) = Emit(d, o) /\ y = x
      BY <1>8, <2>2 DEF CompileBehind, Left
    <3>2. Computes(o, 1, 0) /\ o.op # "CallUser"
      BY DEF Computes, OpOf, Takes, Gives
    <3> HIDE DEF o, x, y
    <3>3. Effect(c, H, n, d, Up(x, 1))
      BY <1>6, <1>8
    <3>4. Effect(c, H, n, Emit(d, o), Up(x, 0))
      BY <1>1, <3>2, <3>3, ComputeEffect
    <3>5. Effect(c, H, n, CompileBehind(parts, d, s, value), y)
      BY <1>1, <3>1, <3>4, UpUp
    <3> QED
      BY <3>5 DEF d, y
  <2> QED
    BY <2>1, <2>2
<1>9. CASE s.k \in {"let", "assign"}
  <2>1. PICK o : /\ CompileBehind(parts, d, s, value) = Emit(d, o)
                 /\ Computes(o, 1, 0) /\ o.op # "CallUser"
    <3>1. CASE s.k = "let"
      <4> DEFINE o == [op |-> "Define", n |-> s.n, mut |-> s.mut]
      <4>1. Computes(o, 1, 0) /\ o.op # "CallUser"
        BY DEF Computes, Takes, Gives
      <4>2. CompileBehind(parts, d, s, value) = Emit(d, o)
        BY <3>1 DEF CompileBehind
      <4> QED
        BY <4>1, <4>2
    <3>2. CASE s.k = "assign"
      <4> DEFINE o == IF s.op = "" THEN NameOp("Assign", s.n)
                      ELSE [op |-> "OpAssign", n |-> s.n, b |-> s.op]
      <4>1. o.op \in {"Assign", "OpAssign"}
        BY DEF NameOp
      <4>2. CompileBehind(parts, d, s, value) = Emit(d, o)
        BY <3>2 DEF CompileBehind, CompileAssign
      <4> HIDE DEF o
      <4>3. Computes(o, 1, 0) /\ o.op # "CallUser"
        BY <4>1 DEF Computes, Takes, Gives
      <4> QED
        BY <4>2, <4>3
    <3> QED
      BY <1>9, <3>1, <3>2
  <2>2. y = x
    BY <1>9 DEF LeavesValue, Left
  <2> HIDE DEF x, y
  <2>3. Effect(c, H, n, d, Up(x, 1))
    BY <1>6, <1>9
  <2>4. Effect(c, H, n, Emit(d, o), Up(x, 0))
    BY <1>1, <2>1, <2>3, ComputeEffect
  <2>5. Effect(c, H, n, CompileBehind(parts, d, s, value), y)
    BY <1>1, <2>1, <2>2, <2>4, UpUp
  <2> QED
    BY <2>5 DEF d, y
<1>10. CASE s.k \in {"if", "for", "match"}
  <2> DEFINE e == CompileBehind(parts, d, s, value)
  <2>1. Effect(c, H, n, d, Up(x, 1))
    BY <1>6, <1>10
  <2>2. ASSUME NEW G, InLoop(d, G, n), G[Here(d)] = Up(x, 1), d.fns = c.fns, Base(d, n) = x,
               \A S1, O1 : Place(d, S1, O1) = Place(c, S1, O1)
        PROVE  Effect(d, G, n, e, y)
    <3>1. /\ G[Here(d)] = Up(Base(d, n), 1) /\ PartsFit(parts, S, O, d.fns)
          /\ Left(d, n, value) = y /\ Place(d, S, O) = Place(c, S, O)
      BY <2>2 DEF Left
    <3>2. CASE s.k = "if"
      <4>1. e = CompileIf(parts, d, s, value)
        BY <3>2 DEF CompileBehind
      <4>2. \A block \in Blocks(s) : block \in Seq(Place(d, S, O))
        BY <1>7, <3>1, <3>2
      <4> HIDE DEF e, y, x
      <4>3. Effect(d, G, n, CompileIf(parts, d, s, value), Left(d, n, value))
        BY <2>2, <3>1, <3>2, <4>2, IfEffect
      <4> QED
        BY <3>1, <4>1, <4>3
    <3>3. CASE s.k = "match"
      <4>1. e = CompileMatch(parts, d, s, value)
        BY <3>3 DEF CompileBehind
      <4>2. \A block \in Blocks(s) : block \in Seq(Place(d, S, O))
        BY <1>7, <3>1, <3>3
      <4> HIDE DEF e, y, x
      <4>3. Effect(d, G, n, CompileMatch(parts, d, s, value), Left(d, n, value))
        BY <2>2, <3>1, <3>3, <4>2, MatchEffect
      <4> QED
        BY <3>1, <4>1, <4>3
    <3>4. CASE s.k = "for"
      <4>1. e = CompileFor(parts, d, s) /\ y = Base(d, n)
        BY <2>2, <3>4 DEF CompileBehind, LeavesValue, Left
      <4>2. s.body \in Seq(S)
        <5>1. s.body \in Blocks(s)
          BY <3>4 DEF Blocks
        <5> QED
          BY <5>1
      <4> HIDE DEF e, y, x
      <4>3. Effect(d, G, n, CompileFor(parts, d, s), Base(d, n))
        BY <2>2, <3>1, <4>2, ForEffect
      <4> QED
        BY <4>1, <4>3
    <3> QED
      BY <1>10, <3>2, <3>3, <3>4
  <2> HIDE DEF e, x, y
  <2>3. Effect(c, H, n, e, y)
    <3>1. \A G : (InLoop(d, G, n) /\ G[Here(d)] = Up(x, 1) /\ d.fns = c.fns
                  /\ Base(d, n) = Base(c, n)
                  /\ \A S1, O1 : Place(d, S1, O1) = Place(c, S1, O1)) => Effect(d, G, n, e, y)
      BY <2>2 DEF x
    <3> QED
      BY <1>1, <2>1, <3>1, EffectOn
  <2> QED
    BY <2>3 DEF e, d, y
<1>11. CASE s.k = "return"
  <2> DEFINE e == CompileReturn(d, s)
  <2>1. CompileBehind(parts, d, s, value) = e
    BY <1>11 DEF CompileBehind
  <2>2. PICK w \in Height : Effect(c, H, n, d, w)
    BY <1>1, <1>3, <1>4, <1>5
  <2>3. ASSUME NEW G, InLoop(d, G, n), G[Here(d)] = w
        PROVE  Effect(d, G, n, e, y)
    <3>1. G[Here(d)] \in Height
      BY <2>3
    <3> HIDE DEF y
    <3> QED
      BY <1>1, <2>3, <3>1, ReturnEffect
  <2> HIDE DEF e, x, y
  <2>4. Effect(c, H, n, e, y)
    BY <1>1, <2>2, <2>3, EffectOn
  <2> QED
    BY <2>1, <2>4 DEF d, y
<1> QED
  BY <1>8, <1>9, <1>10, <1>11

\* What a statement is made of it puts together.
LEMMA StmtBodyEffect ==
    ASSUME NEW c, NEW H, NEW n, Ready(c, H, n), NEW parts, NEW S, NEW O, OutsideLoops(O),
           PartsFit(parts, S, O, c.fns), NEW s \in Stmts, c.loops = <<>> => s \in O,
           \A block \in Blocks(s) : block \in Seq(S),
           NEW value \in BOOLEAN, value => LeavesValue(s)
    PROVE  Effect(c, H, n, StmtBody(parts, c, s, value), Left(c, n, value))
<1>1. s.k \in {"expr", "let", "assign", "if", "for", "match", "return",
               "while", "break", "continue"}
  BY StmtAssumption
<1>2. Left(c, n, value) \in Height /\ ExprsFit(parts.exprs, Exprs, c.fns)
  BY BaseHeight DEF Ready, InLoop, PartsFit
<1>3. s.k \in {"break", "continue"} => c.loops # <<>>
  BY DEF OutsideLoops
<1>4. s.k \in {"while", "assign"} => Left(c, n, value) = Base(c, n)
  BY DEF LeavesValue, Left
<1>5. CASE s.k = "while"
  <2>1. StmtBody(parts, c, s, value) = CompileWhile(parts, c, s)
    BY <1>5 DEF StmtBody
  <2>2. s.e \in Exprs /\ s.body \in Seq(S)
    <3>1. s.body \in Blocks(s)
      BY <1>5 DEF Blocks
    <3> QED
      BY <1>5, <3>1, StmtAssumption
  <2>3. Effect(c, H, n, CompileWhile(parts, c, s), Base(c, n))
    BY <2>2, WhileEffect
  <2> QED
    BY <1>4, <1>5, <2>1, <2>3
<1>6. CASE s.k = "break"
  <2>1. StmtBody(parts, c, s, value) = CompileBreak(c)
    BY <1>6 DEF StmtBody
  <2> QED
    BY <1>2, <1>3, <1>6, <2>1, BreakEffect
<1>7. CASE s.k = "continue"
  <2>1. StmtBody(parts, c, s, value) = CompileContinue(c)
    BY <1>7 DEF StmtBody
  <2> QED
    BY <1>2, <1>3, <1>7, <2>1, ContinueEffect
<1>8. CASE s.k = "assign" /\ s.tail # <<>>
  <2>1. StmtBody(parts, c, s, value) = CompileTailAssign(parts, c, s)
    BY <1>8 DEF StmtBody
  <2>2. Effect(c, H, n, CompileTailAssign(parts, c, s), Base(c, n))
    BY <1>2, <1>8, TailAssignEffect
  <2> QED
    BY <1>4, <1>8, <2>1, <2>2
<1>9. CASE /\ s.k \in {"expr", "let", "assign", "if", "for", "match", "return"}
           /\ ~(s.k = "assign" /\ s.tail # <<>>)
  <2>1. StmtBody(parts, c, s, value) = CompileBehind(parts, CompileHead(parts, c, s), s, value)
    BY <1>9 DEF StmtBody
  <2>2. Effect(c, H, n, CompileBehind(parts, CompileHead(parts, c, s), s, value),
               Left(c, n, value))
    BY <1>9, BehindEffect
  <2> QED
    BY <2>1, <2>2
<1> QED
  BY <1>1, <1>5, <1>6, <1>7, <1>8, <1>9

\* The recursion over the depth of the statements; p has the code of the expressions
\* and the functions of the file.
StmtLevel(p, code, n) ==
    IF n = 0 THEN <<>>
    ELSE [s \in Stmts |-> [value \in BOOLEAN |-> [c \in Fresh(p[2]) |->
             StmtBody([exprs |-> p[1], stmts |-> code[n - 1]], c, s, value)]]]

StmtLevels == INSTANCE HehRecursion WITH Op <- StmtLevel

\* The recursion over the depth of statements is one: each level is made of the
\* one below.
LEMMA StmtCodeStep ==
    ASSUME NEW exprs, NEW fns
    PROVE  \A n \in Nat : StmtCode(exprs, fns)[n] = StmtLevel(<<exprs, fns>>, StmtCode(exprs, fns), n)
<1> DEFINE p == <<exprs, fns>>
<1>1. Depths \in [Nat -> Nat] /\ \A k \in Nat : Depths[k] = k
  BY DEF Depths
<1>2. p[1] = exprs /\ p[2] = fns
  OBVIOUS
<1> HIDE DEF p
<1>3. StmtLevels!Local(p, Nat, Depths)
  <2>1. SUFFICES ASSUME NEW f, NEW g, NEW k \in Nat,
                        \A y \in Nat : Depths[y] < Depths[k] => f[y] = g[y]
                 PROVE  StmtLevel(p, f, k) = StmtLevel(p, g, k)
    BY DEF StmtLevels!Local
  <2>2. CASE k = 0
    BY <2>2 DEF StmtLevel
  <2>3. CASE k # 0
    <3>1. k - 1 \in Nat /\ k - 1 < k
      BY <2>3
    <3>2. f[k - 1] = g[k - 1]
      BY <1>1, <2>1, <3>1
    <3> QED
      BY <2>3, <3>2 DEF StmtLevel
  <2> QED
    BY <2>2, <2>3
<1>4. \E f : f = [k \in Nat |-> StmtLevel(p, f, k)]
  <2>1. StmtLevels!Induction
    BY AllNat DEF StmtLevels!Induction
  <2> QED
    BY <1>1, <1>3, <2>1, StmtLevels!Solution
<1> DEFINE code == CHOOSE f : f = [k \in Nat |->
                IF k = 0 THEN <<>>
                ELSE [s \in Stmts |-> [value \in BOOLEAN |-> [c \in Fresh(fns) |->
                         StmtBody([exprs |-> exprs, stmts |-> f[k - 1]], c, s, value)]]]]
<1>5. code = [k \in Nat |->
                IF k = 0 THEN <<>>
                ELSE [s \in Stmts |-> [value \in BOOLEAN |-> [c \in Fresh(fns) |->
                         StmtBody([exprs |-> exprs, stmts |-> code[k - 1]], c, s, value)]]]]
  <2>1. \E f : f = [k \in Nat |->
                IF k = 0 THEN <<>>
                ELSE [s \in Stmts |-> [value \in BOOLEAN |-> [c \in Fresh(fns) |->
                         StmtBody([exprs |-> exprs, stmts |-> f[k - 1]], c, s, value)]]]]
    BY <1>2, <1>4 DEF StmtLevel
  <2> QED
    BY <2>1
<1>6. StmtCode(exprs, fns) = code
  BY DEF StmtCode
<1> HIDE DEF code
<1> DEFINE b(k) == IF k = 0 THEN <<>>
                   ELSE [s \in Stmts |-> [value \in BOOLEAN |-> [c \in Fresh(fns) |->
                            StmtBody([exprs |-> exprs, stmts |-> code[k - 1]], c, s, value)]]]
<1>7. code = [k \in Nat |-> b(k)]
  BY <1>5
<1>8. ASSUME NEW k \in Nat
      PROVE  code[k] = StmtLevel(p, code, k)
  <2>1. b(k) = StmtLevel(p, code, k)
    BY DEF StmtLevel, p
  <2>2. code[k] = b(k)
    <3> HIDE DEF b
    <3> QED
      BY <1>7
  <2> QED
    BY <2>1, <2>2
<1> QED
  BY <1>6, <1>8 DEF p

\* The code of every statement leaves what it should.
LEMMA StmtsCompiled ==
    ASSUME NEW fns, NEW exprs, ExprsFit(exprs, Exprs, fns), NEW O, OutsideLoops(O)
    PROVE  PartsFit(CompileParts(exprs, fns), Stmts, O, fns)
<1> DEFINE Upto(n) == {s \in Stmts : Depth(s) <= n}
           Code(n) == [exprs |-> exprs, stmts |-> StmtCode(exprs, fns)[n]]
           T == {n \in Nat : PartsFit(Code(n), Upto(n), O, fns)}
<1>1. 0 \in T
  <2>1. Upto(0) = {}
    <3>1. ASSUME NEW s \in Stmts
          PROVE  ~(Depth(s) <= 0)
      <4>1. Depth(s) \in Nat \ {0}
        BY StmtAssumption
      <4> QED
        BY <4>1
    <3> QED
      BY <3>1
  <2>2. Code(0).exprs = exprs
    OBVIOUS
  <2> HIDE DEF Upto, Code
  <2>3. PartsFit(Code(0), Upto(0), O, fns)
    BY <2>1, <2>2 DEF PartsFit
  <2> QED
    BY <2>3
<1>2. ASSUME NEW n \in Nat, n \in T
      PROVE  n + 1 \in T
  <2>1. PICK parts : parts = Code(n) /\ PartsFit(parts, Upto(n), O, fns)
    BY <1>2
  <2>2. ASSUME NEW s \in Upto(n + 1), NEW value \in BOOLEAN, NEW b \in Fresh(fns), NEW H, NEW m,
               Ready(b, H, m), s \in Place(b, Upto(n + 1), O), value => LeavesValue(s)
        PROVE  Effect(b, H, m, StmtCode(exprs, fns)[n + 1][s][value][b], Left(b, m, value))
    <3>1. s \in Stmts /\ Depth(s) \in Nat /\ Depth(s) <= n + 1
      BY StmtAssumption
    <3>2. \A y \in Stmts : Depth(y) \in Nat
      BY StmtAssumption
    <3>3. \A block \in Blocks(s) : block \in Seq(Upto(n))
      <4>1. SUFFICES ASSUME NEW block \in Blocks(s)
                     PROVE  block \in Seq(Upto(n))
        OBVIOUS
      <4>2. Inside(s, block, Stmts)
        BY <3>1, StmtAssumption
      <4> QED
        BY <3>1, <3>2, <4>2, InsideShallow
    <3>4. Shaped(b) /\ b.fns = fns
      BY FreshShape
    <3>5. b.loops = <<>> => s \in O
      BY <2>2 DEF Place
    <3>6. Effect(b, H, m, StmtBody(parts, b, s, value), Left(b, m, value))
      <4> HIDE DEF Upto
      <4> QED
        BY <2>1, <2>2, <3>1, <3>3, <3>4, <3>5, StmtBodyEffect
    <3>7. StmtCode(exprs, fns)[n + 1][s][value][b] = StmtBody(parts, b, s, value)
      <4>1. n + 1 \in Nat /\ n + 1 # 0 /\ (n + 1) - 1 = n
        OBVIOUS
      <4>2. StmtCode(exprs, fns)[n + 1] = StmtLevel(<<exprs, fns>>, StmtCode(exprs, fns), n + 1)
        BY <4>1, StmtCodeStep
      <4>3. StmtCode(exprs, fns)[n + 1] =
              [t \in Stmts |-> [v \in BOOLEAN |-> [c \in Fresh(fns) |-> StmtBody(parts, c, t, v)]]]
        BY <2>1, <4>1, <4>2 DEF StmtLevel
      <4> HIDE DEF Upto
      <4> QED
        BY <3>1, <4>3
    <3> QED
      BY <3>6, <3>7
  <2>3. Code(n + 1).exprs = exprs /\ Code(n + 1).stmts = StmtCode(exprs, fns)[n + 1]
    OBVIOUS
  <2> HIDE DEF Upto, Code
  <2>4. PartsFit(Code(n + 1), Upto(n + 1), O, fns)
    BY <2>2, <2>3 DEF PartsFit
  <2> QED
    BY <2>4
<1>3. \A n \in Nat : n \in T
  <2> HIDE DEF T
  <2> QED
    BY <1>1, <1>2, AllNat
<1> DEFINE all == CompileParts(exprs, fns)
<1>4. all.exprs = exprs /\ \A s \in Stmts : all.stmts[s] = StmtCode(exprs, fns)[Depth(s)][s]
  BY DEF CompileParts, CompileStmt
<1> HIDE DEF all
<1>5. ASSUME NEW s \in Stmts, NEW value \in BOOLEAN, NEW b \in Fresh(fns), NEW H, NEW m,
             Ready(b, H, m), s \in Place(b, Stmts, O), value => LeavesValue(s)
      PROVE  Effect(b, H, m, all.stmts[s][value][b], Left(b, m, value))
  <2>1. PICK n \in Nat : n = Depth(s) /\ s \in Upto(n)
    <3>1. PICK n : n = Depth(s) /\ n \in Nat
      BY StmtAssumption
    <3>2. s \in Upto(n)
      BY <3>1
    <3> QED
      BY <3>1, <3>2
  <2>2. PartsFit(Code(n), Upto(n), O, fns)
    BY <1>3
  <2>3. s \in Place(b, Upto(n), O)
    BY <1>5, <2>1 DEF Place
  <2>4. Code(n).stmts = StmtCode(exprs, fns)[n]
    OBVIOUS
  <2> HIDE DEF Upto, Code
  <2>5. Effect(b, H, m, Code(n).stmts[s][value][b], Left(b, m, value))
    BY <1>5, <2>1, <2>2, <2>3 DEF PartsFit
  <2> QED
    BY <1>4, <2>1, <2>4, <2>5
<1> QED
  BY <1>4, <1>5 DEF PartsFit, all

-----------------------------------------------------------------------------
(* Every chunk, and every file. *)

\* The heights where a chunk begins.
AtStart == [i \in Nat |-> [stack |-> 0, iters |-> 0, scopes |-> 1]]

\* It begins between two statements, outside of loops.
LEMMA StartReady ==
    ASSUME NEW fns
    PROVE  /\ Ready(Start(fns), AtStart, 0) /\ Start(fns).loops = <<>> /\ Start(fns).fns = fns
           /\ Start(fns).at = 0 /\ Start(fns).ops = <<>> /\ Here(Start(fns)) = 1
           /\ Base(Start(fns), 0) = [stack |-> 0, iters |-> 0, scopes |-> 1]
<1> DEFINE c == Start(fns)
           x == [stack |-> 0, iters |-> 0, scopes |-> 1]
<1>1. /\ c = [at |-> 0, ops |-> <<>>, loops |-> <<>>, scopes |-> 0, fns |-> fns]
      /\ c.at = 0 /\ c.ops = <<>> /\ c.loops = <<>> /\ c.scopes = 0 /\ c.fns = fns
  BY DEF Start
<1>2. IsSeq(<<>>) /\ <<>> \in Seq(OpenLoop)
  BY DEF IsSeq
<1>3. Shaped(c)
  <2> HIDE DEF c
  <2> QED
    BY <1>1, <1>2 DEF Shaped
<1>4. x \in Height
  BY DEF Height
<1>5. AtStart \in [Nat -> Height]
  BY <1>4 DEF AtStart
<1>6. Here(c) = 1
  <2>1. Len(c.ops) = 0
    BY <1>1
  <2> HIDE DEF c
  <2> QED
    BY <1>1, <2>1 DEF Here
<1>7. Base(c, 0) = x /\ AtStart[1] = x
  <2>1. c.scopes + 1 = 1
    BY <1>1
  <2> HIDE DEF c
  <2> QED
    BY <2>1 DEF Base, AtStart
<1> HIDE DEF c
<1>8. Ready(c, AtStart, 0)
  BY <1>1, <1>3, <1>5, <1>6, <1>7 DEF Ready, InLoop
<1> QED
  BY <1>1, <1>6, <1>7, <1>8 DEF c

\* A chunk of code with an effect, and the Return at its end, is annotated.
LEMMA ChunkAnnotated ==
    ASSUME NEW fns, NEW n \in Nat, \A f \in DOMAIN fns : fns[f] \in 1..n,
           NEW c, NEW y, Effect(Start(fns), AtStart, 0, c, y), NEW ps
    PROVE  \E H : Annotates(H, Finished(ps, c).ops, n)
<1> DEFINE s == Start(fns)
           o == OpOf("Return")
           x == [stack |-> 0, iters |-> 0, scopes |-> 1]
<1>1. PICK G, N : Leads(s, AtStart, c, G, N \X {OutOf(s, 0)}, N, y)
  BY DEF Effect
<1>2. s.loops = <<>> /\ s.fns = fns /\ s.at = 0 /\ s.ops = <<>> /\ Here(s) = 1
  BY StartReady
<1> HIDE DEF s
<1>3. N = {}
  BY <1>1, <1>2 DEF Leads, Keeps
<1>4. N \X {OutOf(s, 0)} = {}
  BY <1>3
<1>5. Adds(s, AtStart, c, G, {})
  BY <1>1, <1>4 DEF Leads
<1>6. /\ Shaped(c) /\ G \in [Nat -> Height] /\ c.fns = fns /\ c.at = 0
      /\ \A i \in 0..1 : G[i] = AtStart[i]
  BY <1>1, <1>2, LeadsShape
<1>7. PICK m \in Nat : m = Len(c.ops) /\ Here(c) = m + 1 /\ IsSeq(c.ops)
  <2>1. Here(c) = c.at + Len(c.ops) + 1 /\ Len(c.ops) \in Nat /\ IsSeq(c.ops)
    BY <1>6, HereNat
  <2> QED
    BY <1>6, <2>1
<1>8. PICK ops : /\ ops = Append(c.ops, o) /\ Len(ops) = m + 1 /\ ops[m + 1] = o
                 /\ \A i \in 1..m : ops[i] = c.ops[i]
  <2>1. IsSeq(Append(c.ops, o)) /\ Len(Append(c.ops, o)) = m + 1
    BY <1>7, IsSeqAppend
  <2>2. /\ Append(c.ops, o)[m + 1] = o
        /\ \A i \in 1..m : Append(c.ops, o)[i] = c.ops[i]
    BY <1>7 DEF IsSeq
  <2> QED
    BY <2>1, <2>2
<1>9. Finished(ps, c).ops = ops
  <2>1. PICK a, p, l, k, f : c = [at |-> a, ops |-> p, loops |-> l, scopes |-> k, fns |-> f]
    BY <1>6 DEF Shaped
  <2>2. Emit(c, o).ops = Append(p, o)
    BY <2>1 DEF Emit
  <2> QED
    BY <1>8, <2>1, <2>2 DEF Finished
<1>10. ASSUME NEW i \in 1..m
       PROVE  Fits(ops[i], i, G, {}, m + 1, fns)
  <2>1. i \in 1..(m + 1) - 1
    OBVIOUS
  <2>2. Fits(OpAt(c, i), i, G, {}, m + 1, fns)
    BY <1>2, <1>5, <1>6, <1>7, <2>1 DEF Adds
  <2>3. OpAt(c, i) = c.ops[i]
    <3>1. i - 0 = i
      OBVIOUS
    <3> QED
      BY <1>6, <3>1 DEF OpAt
  <2> QED
    BY <1>8, <2>2, <2>3
<1> DEFINE H == [i \in 1..m + 1 |-> G[i]]
<1>11. DOMAIN H = 1..m + 1 /\ 1 \in 1..m + 1 /\ \A i \in 1..m + 1 : H[i] = G[i] /\ G[i] \in Height
  BY <1>6
<1> HIDE DEF H
<1>12. H[1] = x
  <2>1. G[1] = AtStart[1]
    BY <1>6
  <2> QED
    BY <1>11, <2>1 DEF AtStart
<1> DEFINE Held(ip) ==
          /\ H[ip] \in Height
          /\ Takes(ops[ip]) \in Nat /\ Takes(ops[ip]) <= H[ip].stack
          /\ ops[ip].op \in {"ForNext", "PopIter"} => H[ip].iters > 0
          /\ ops[ip].op = "TruncScopes" => ops[ip].n \in Nat
          /\ ops[ip].op = "CallUser" => ops[ip].fn \in 1..n
          /\ Falls(ops[ip]) => ip + 1 \in DOMAIN H /\ H[ip + 1] = After(ops[ip], H[ip])
          /\ Jumps(ops[ip]) => ops[ip].t \in DOMAIN H /\ H[ops[ip].t] = AfterJump(ops[ip], H[ip])
<1>13. ASSUME NEW ip \in 1..m
       PROVE  Held(ip)
  <2>1. Fits(ops[ip], ip, G, {}, m + 1, fns)
    BY <1>10
  <2>2. ip \in 1..m + 1 /\ ip + 1 \in 1..m + 1
    OBVIOUS
  <2>3. H[ip] = G[ip] /\ H[ip + 1] = G[ip + 1] /\ G[ip] \in Height
    BY <1>11, <2>2
  <2>4. Works(ops[ip], H[ip], fns)
    BY <2>1, <2>3 DEF Fits
  <2>5. Falls(ops[ip]) => ip + 1 \in DOMAIN H /\ H[ip + 1] = After(ops[ip], H[ip])
    BY <1>11, <2>1, <2>2, <2>3 DEF Fits
  <2>6. Jumps(ops[ip]) => ops[ip].t \in 1..m + 1 /\ G[ops[ip].t] = AfterJump(ops[ip], G[ip])
    BY <2>1 DEF Fits
  <2>7. Jumps(ops[ip]) => ops[ip].t \in DOMAIN H /\ H[ops[ip].t] = AfterJump(ops[ip], H[ip])
    BY <1>11, <2>3, <2>6
  <2> QED
    BY <2>3, <2>4, <2>5, <2>7 DEF Works
<1>14. Held(m + 1)
  <2>1. ops[m + 1] = o /\ o.op = "Return"
    BY <1>8 DEF OpOf
  <2>2. Takes(o) = 0 /\ ~Falls(o) /\ ~Jumps(o)
    BY <2>1 DEF Takes, Falls, Jumps
  <2>3. H[m + 1] \in Height /\ 0 <= H[m + 1].stack
    BY <1>11 DEF Height
  <2> HIDE DEF o
  <2> QED
    BY <2>1, <2>2, <2>3
<1>15. \A ip \in DOMAIN H : Held(ip)
  <2>1. \A ip \in 1..m + 1 : ip \in 1..m \/ ip = m + 1
    OBVIOUS
  <2> HIDE DEF Held
  <2> QED
    BY <1>11, <1>13, <1>14, <2>1
<1>16. Annotates(H, ops, n)
  <2>1. DOMAIN H \subseteq 1..Len(ops) /\ 1 \in DOMAIN H
    BY <1>8, <1>11
  <2>2. \A ip \in DOMAIN H :
          LET op == ops[ip]
              z == H[ip]
          IN  /\ z \in [stack : Nat, iters : Nat, scopes : Nat \ {0}]
              /\ Takes(op) \in Nat /\ Takes(op) <= z.stack
              /\ op.op \in {"ForNext", "PopIter"} => z.iters > 0
              /\ op.op = "TruncScopes" => op.n \in Nat
              /\ op.op = "CallUser" => op.fn \in 1..n
              /\ Falls(op) => /\ ip + 1 \in DOMAIN H
                              /\ H[ip + 1] = After(op, z)
              /\ Jumps(op) => /\ op.t \in DOMAIN H
                              /\ H[op.t] = AfterJump(op, z)
    BY <1>15 DEF Height
  <2> QED
    BY <1>12, <2>1, <2>2 DEF Annotates
<1> QED
  BY <1>9, <1>16

\* The loop over the top level.
ItemRounds == INSTANCE HehRecursion WITH Op <- CompileItem

\* Its statements one after the other, those left out aside.
LEMMA TopEffect ==
    ASSUME NEW c, NEW H, NEW n, Ready(c, H, n), NEW parts, NEW S, NEW O,
           PartsFit(parts, S, O, c.fns), NEW tops \in Seq(Place(c, S, O))
    PROVE  Effect(c, H, n, CompileItems(parts, c, tops), Base(c, n))
<1>1. PICK m \in Nat : m = Len(tops) /\ DOMAIN tops = 1..m
  OBVIOUS
<1>2. CompileItems(parts, c, tops) = ItemRounds!FoldL(parts, c, tops, 1..m)
  BY <1>1 DEF CompileItems, FoldLeft, MapThenFoldSet, Max, ItemRounds!FoldL, ItemRounds!Top
<1>3. PICK R : /\ ItemRounds!LeftRounds(R, parts, c, tops)
               /\ ItemRounds!FoldL(parts, c, tops, 1..m) = R[m]
  <2>1. ItemRounds!Induction
    BY AllNat DEF ItemRounds!Induction
  <2> QED
    BY <2>1, ItemRounds!LeftFold
<1>4. R[0] = c /\ \A k \in Nat : R[k + 1] = CompileItem(parts, R[k], tops[k + 1])
  BY <1>3 DEF ItemRounds!LeftRounds
<1> DEFINE T == {k \in Nat : k <= m => Effect(c, H, n, R[k], Base(c, n))}
<1>5. 0 \in T
  BY <1>4, EffectNowhere DEF Ready
<1>6. ASSUME NEW k \in Nat, k \in T
      PROVE  k + 1 \in T
  <2>1. SUFFICES ASSUME k + 1 <= m
                 PROVE  Effect(c, H, n, R[k + 1], Base(c, n))
    OBVIOUS
  <2>2. Effect(c, H, n, R[k], Base(c, n))
    BY <1>6, <2>1
  <2>3. tops[k + 1] \in Place(c, S, O)
    BY <1>1, <2>1
  <2>4. R[k + 1] = R[k] \/ R[k + 1] = SubStmt(parts, R[k], tops[k + 1], FALSE)
    BY <1>4 DEF CompileItem
  <2>5. ASSUME NEW G, InLoop(R[k], G, n), G[Here(R[k])] = Base(c, n), R[k].fns = c.fns,
               Base(R[k], n) = Base(c, n), Place(R[k], S, O) = Place(c, S, O)
        PROVE  Effect(R[k], G, n, SubStmt(parts, R[k], tops[k + 1], FALSE), Base(c, n))
    <3>1. Ready(R[k], G, n)
      BY <2>5 DEF Ready
    <3>2. Left(R[k], n, FALSE) = Base(c, n)
      BY <2>5 DEF Left
    <3>3. Effect(R[k], G, n, SubStmt(parts, R[k], tops[k + 1], FALSE), Left(R[k], n, FALSE))
      BY <2>3, <2>5, <3>1, SubStmtEffect
    <3> QED
      BY <3>2, <3>3
  <2>6. Effect(c, H, n, SubStmt(parts, R[k], tops[k + 1], FALSE), Base(c, n))
    <3>1. PICK d, e : d = R[k] /\ e = SubStmt(parts, R[k], tops[k + 1], FALSE)
      OBVIOUS
    <3>2. \A G : (InLoop(d, G, n) /\ G[Here(d)] = Base(c, n) /\ d.fns = c.fns
                  /\ Base(d, n) = Base(c, n)
                  /\ \A S1, O1 : Place(d, S1, O1) = Place(c, S1, O1)) =>
                      Effect(d, G, n, e, Base(c, n))
      BY <2>5, <3>1
    <3>3. InLoop(c, H, n)
      BY DEF Ready
    <3>4. Effect(c, H, n, d, Base(c, n))
      BY <2>2, <3>1
    <3> HIDE DEF T
    <3>5. Effect(c, H, n, e, Base(c, n))
      BY <3>2, <3>3, <3>4, EffectOn
    <3> QED
      BY <3>1, <3>5
  <2> QED
    BY <2>2, <2>4, <2>6
<1> HIDE DEF T
<1>7. m \in T
  BY <1>5, <1>6, AllNat
<1> QED
  BY <1>1, <1>2, <1>3, <1>7 DEF T

\* The index of a function is the place of one of that name.
LEMMA IndexPlaces ==
    ASSUME NEW fns
    PROVE  \A f \in DOMAIN FnIndex(fns) : FnIndex(fns)[f] \in DOMAIN fns
<1>1. ASSUME NEW f \in DOMAIN FnIndex(fns)
      PROVE  FnIndex(fns)[f] \in DOMAIN fns
  <2>1. f \in {fns[i].n : i \in DOMAIN fns} /\ FnIndex(fns)[f] = CHOOSE i \in DOMAIN fns : fns[i].n = f
    BY DEF FnIndex
  <2>2. \E i \in DOMAIN fns : fns[i].n = f
    BY <2>1
  <2> QED
    BY <2>1, <2>2
<1> QED
  BY <1>1

\* The code the compiler makes of any file that reaches it has consistent heights:
\* no op takes an operand, an iterator or a scope that is not there, no jump leaves
\* its chunk, and every call is of a function of the program.
THEOREM CompiledVerified ==
    ASSUME NEW file, NEW outer, IsFile(file, outer)
    PROVE  \E H : Verified(Compile(file), H)
<1> DEFINE index == FnIndex(file.fns)
           exprs == CompileExpr(index)
           parts == CompileParts(exprs, index)
           p == Compile(file)
           Ops(i) == IF i = 0 THEN p.top.ops ELSE p.fns[i].ops
<1>1. /\ outer \subseteq Stmts /\ OutsideLoops(outer) /\ file.tops \in Seq(outer)
      /\ file.fns \in Seq(Range(file.fns))
      /\ \A i \in DOMAIN file.fns : file.fns[i].body \in Seq(outer)
  BY DEF IsFile
<1>2. PICK n \in Nat : n = Len(file.fns) /\ DOMAIN file.fns = 1..n
  BY <1>1
<1>3. \A f \in DOMAIN index : index[f] \in 1..n
  BY <1>2, IndexPlaces
<1>4. PartsFit(parts, Stmts, outer, index)
  BY <1>1, ExprsCompiled, StmtsCompiled
<1> HIDE DEF index
<1>5. /\ p.fns = [i \in 1..n |-> CompileFn(parts, index, file.fns[i])]
      /\ p.main = IF "main" \in DOMAIN index THEN index["main"] ELSE 0
      /\ p.top = CompileTop(parts, index, file.tops)
  BY <1>2 DEF Compile, CompileWith, CompileFile, index
<1> HIDE DEF p, parts
<1>6. Place(Start(index), Stmts, outer) = outer
  BY <1>1, StartReady DEF Place
<1>7. /\ Ready(Start(index), AtStart, 0) /\ PartsFit(parts, Stmts, outer, Start(index).fns)
  BY <1>4, StartReady
<1>8. ASSUME NEW i \in 1..n
      PROVE  \E H : Annotates(H, Ops(i), n)
  <2> DEFINE c == CompileBlock(parts, Start(index), file.fns[i].body, TRUE)
  <2>1. file.fns[i].body \in Seq(Place(Start(index), Stmts, outer))
    BY <1>1, <1>2, <1>6
  <2>2. Effect(Start(index), AtStart, 0, c, Left(Start(index), 0, TRUE))
    BY <1>7, <2>1, BlockEffect
  <2>3. Ops(i) = Finished(file.fns[i].ps, c).ops
    <3>1. p.fns[i] = CompileFn(parts, index, file.fns[i])
      BY <1>5
    <3>2. Ops(i) = p.fns[i].ops
      OBVIOUS
    <3> QED
      BY <3>1, <3>2 DEF CompileFn
  <2> HIDE DEF c, Ops
  <2>4. \E H : Annotates(H, Finished(file.fns[i].ps, c).ops, n)
    BY <1>3, <2>2, ChunkAnnotated
  <2> QED
    BY <2>3, <2>4
<1>9. \E H : Annotates(H, Ops(0), n)
  <2> DEFINE c == CompileItems(parts, Start(index), file.tops)
  <2>1. file.tops \in Seq(Place(Start(index), Stmts, outer))
    BY <1>1, <1>6
  <2>2. Effect(Start(index), AtStart, 0, c, Base(Start(index), 0))
    BY <1>7, <2>1, TopEffect
  <2>3. Ops(0) = Finished(<<>>, c).ops
    BY <1>5 DEF CompileTop
  <2> HIDE DEF c, Ops
  <2>4. \E H : Annotates(H, Finished(<<>>, c).ops, n)
    BY <1>3, <2>2, ChunkAnnotated
  <2> QED
    BY <2>3, <2>4
<1>10. Len(p.fns) = n
  <2> DEFINE f == [i \in 1..n |-> CompileFn(parts, index, file.fns[i])]
             T == {f[i] : i \in 1..n}
  <2>1. f \in [1..n -> T]
    OBVIOUS
  <2> HIDE DEF f, T
  <2>2. f \in Seq(T) /\ DOMAIN f = 1..n
    BY <2>1
  <2>3. Len(f) = n
    BY <2>2
  <2> QED
    BY <1>5, <2>3 DEF f
<1>11. p.main \in 0..n
  <2>1. CASE "main" \in DOMAIN index
    BY <1>3, <1>5, <2>1
  <2>2. CASE "main" \notin DOMAIN index
    BY <1>5, <2>2
  <2> QED
    BY <2>1, <2>2
<1> HIDE DEF Ops
<1>12. PICK H : H = [i \in 0..n |-> CHOOSE h : Annotates(h, Ops(i), n)]
  OBVIOUS
<1>13. ASSUME NEW i \in 0..n
       PROVE  Annotates(H[i], Ops(i), n)
  <2>1. \E h : Annotates(h, Ops(i), n)
    <3>1. i = 0 \/ i \in 1..n
      OBVIOUS
    <3> QED
      BY <1>8, <1>9, <3>1
  <2>2. H[i] = CHOOSE h : Annotates(h, Ops(i), n)
    BY <1>12
  <2> QED
    BY <2>1, <2>2
<1>14. Verified(p, H)
  BY <1>10, <1>11, <1>13 DEF Verified, Ops
<1> QED
  BY <1>14 DEF p
=============================================================================
