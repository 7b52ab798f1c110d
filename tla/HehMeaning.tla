----------------------------- MODULE HehMeaning -----------------------------
(***************************************************************************)
(* What running a checked program promises, whichever engine runs it: the  *)
(* lines it means are printed one after the other and in order, and then   *)
(* it ends the way it means to.  vm.rs and compile.rs promise it of the    *)
(* bytecode engine, with the tree-walking evaluator for the reference.     *)
(***************************************************************************)
EXTENDS Integers, Sequences

CONSTANT Meanings   \* [out, ending] of each program, a function over their ids

VARIABLES
    prog,    \* the program running
    out,     \* the lines printed so far
    ending   \* how it ended, or <<"run">>

vars == <<prog, out, ending>>

Meant == Meanings[prog]

Init ==
    /\ prog \in DOMAIN Meanings
    /\ out = <<>>
    /\ ending = <<"run">>

\* One call into a library function may print several lines.
Output ==
    /\ ending = <<"run">>
    /\ \E n \in (Len(out) + 1)..Len(Meant.out) : out' = SubSeq(Meant.out, 1, n)
    /\ UNCHANGED <<prog, ending>>

End ==
    /\ ending = <<"run">>
    /\ out = Meant.out
    /\ ending' = Meant.ending
    /\ UNCHANGED <<prog, out>>

Next == Output \/ End

Spec == Init /\ [][Next]_vars
=============================================================================
