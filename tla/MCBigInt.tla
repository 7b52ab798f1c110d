------------------------------ MODULE MCBigInt ------------------------------
(***************************************************************************)
(* HehBigInt with limbs of 3 bits: words are -32..31, three limbs start at *)
(* 64.  The operands sit at the borders of a limb, of the word and of two  *)
(* limbs, on either side of zero.                                          *)
(***************************************************************************)
EXTENDS HehBigInt

Borders == {0, 1, 2, 3, 7, 8, 9, 31, 32, 33, 63, 64, 70, 511, 512}
BorderOperands == Borders \cup {-k : k \in Borders}

SomeExponents == {-1, 0, 1, 2, 3, 9}
=============================================================================
