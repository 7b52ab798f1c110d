------------------------------ MODULE MCVendor ------------------------------
(* A file and a clone of two files for TLC.                                 *)
EXTENDS HehVendor

MCPlace == [u \in Urls |-> IF u \in Clones THEN {1, 3} ELSE {2}]
=============================================================================
