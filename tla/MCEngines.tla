----------------------------- MODULE MCEngines -----------------------------
(***************************************************************************)
(* Both engines on small programs, for TLC: the VM runs what the compiler  *)
(* makes of each program of Cases, and is held against what the evaluator  *)
(* makes of the program itself.                                            *)
(***************************************************************************)
EXTENDS MCCode, HehVerify

CONSTANT
    MaxIter   \* a loop of the evaluator that iterates more often hangs

TreeWalk == INSTANCE HehTreeWalk

\* What Programs, ApplyInEvaluator, Heights, Exprs, Stmts and Depth are in a
\* cfg.  (TLC keeps the value of
\* a constant definition it has evaluated once, but not of one that a declared
\* constant stands for, and evaluates those of the first module extended first.)
MCPrograms == Compiled

MCApplyCallee(h, callee, args, names, d) == TreeWalk!ApplyCallee(h, callee, args, names, d)

MCHeights == HeightsOfAll

MCExprs == AllExprs

MCStmts == AllStmts

MCDepth(x) == NodeDepth(x)

-----------------------------------------------------------------------------
Meanings == Table([c \in Cases |-> TreeWalk!Meaning(ProgramOf(c))])

Reference == INSTANCE HehMeaning WITH
    out    <- heap.out,
    ending <- IF Halted THEN status ELSE Running

\* The bytecode engine implements the meaning of the program (the promise of
\* vm.rs:3-6): it prints the evaluator's lines in the evaluator's order, and if
\* it ends, it has printed them all and ends the way the evaluator does.
Implements == Reference!Spec

\* ... and it does end, as none of these programs loops in the evaluator.
Terminates == <>Halted

AgreesWith(meant) ==
    /\ Len(heap.out) <= Len(meant.out)
    /\ heap.out = SubSeq(meant.out, 1, Len(heap.out))
    /\ Halted => heap.out = meant.out /\ status = meant.ending

\* The promise as an invariant: what is printed is a beginning of what the
\* evaluator prints, and a program that has ended has ended like there.
EnginesAgree == AgreesWith(Meanings[prog])
=============================================================================
