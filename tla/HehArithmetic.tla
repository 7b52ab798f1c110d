--------------------------- MODULE HehArithmetic ----------------------------
(***************************************************************************)
(* The operators of Heh's integers that TLA+ does not have.                *)
(***************************************************************************)
EXTENDS Integers

\* 0 ** 0 is 1.
PowInt(i, e) ==
    LET pow[k \in Nat] == IF k = 0 THEN 1 ELSE i * pow[k - 1] IN pow[e]

\* Floor division, of any sign (\div is TLA+'s own, for a positive divisor).
FloorDiv(i, j) == IF j > 0 THEN i \div j ELSE (-i) \div (-j)
FloorMod(i, j) == i - j * FloorDiv(i, j)
=============================================================================
