---------------------------- MODULE HehIntegers -----------------------------
(***************************************************************************)
(* What Heh promises of its integers: they are the mathematical ones, `//` *)
(* rounds towards negative infinity, `%` takes the sign of the divisor and *)
(* `**` is exact.  A program holds a number n and applies operators to it. *)
(***************************************************************************)
EXTENDS HehArithmetic, FiniteSetsExt

CONSTANTS Operands,   \* the other operand of an operator
          Exponents,  \* the right operand of **
          MaxAbs      \* results larger than this are not explored

VARIABLES n, fault

Abs(i) == IF i < 0 THEN -i ELSE i
Explored(i) == Abs(i) <= MaxAbs

ExploredPow(i, e) == IF e <= 3 THEN Explored(PowInt(i, e)) ELSE Abs(i) <= 2

Running == fault = "none"

Yields(i) ==
    /\ Running
    /\ n' = i
    /\ UNCHANGED fault

Faults(code) ==
    /\ Running
    /\ fault' = code
    /\ UNCHANGED n

Init == n \in Operands /\ fault = "none"

Next ==
    \/ \E k \in Operands : \/ Yields(k)
                           \/ Explored(n + k) /\ Yields(n + k)
                           \/ Explored(n - k) /\ Yields(n - k)
                           \/ Explored(n * k) /\ Yields(n * k)
                           \/ k # 0 /\ Yields(FloorDiv(n, k))
                           \/ k # 0 /\ Yields(FloorMod(n, k))
                           \/ k = 0 /\ Faults("E0200")
    \/ \E e \in Exponents : IF e < 0 THEN Faults("E0201")
                              ELSE ExploredPow(n, e) /\ Yields(PowInt(n, e))
    \/ Yields(-n)

Spec == Init /\ [][Next]_<<n, fault>>
=============================================================================
