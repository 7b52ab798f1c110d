------------------------------- MODULE HehOps -------------------------------
(***************************************************************************)
(* What each op of the VM does to the height of the operand stack and to   *)
(* the numbers of active iterators and open scopes, as vm.rs executes it   *)
(* (compile.rs keeps no such table: it follows these numbers by hand).     *)
(***************************************************************************)
EXTENDS Integers, Sequences

\* The operands an op removes and the operands it pushes.
Takes(o) ==
    CASE o.op \in {"Pop", "Define", "Assign", "OpAssign", "Unop", "ToBool", "Wrap",
                   "Field", "Try", "Branch", "ForStart", "MatchArm"} -> 1
      [] o.op \in {"Binop", "Index", "SetField"} -> 2
      [] o.op = "SetIndex" -> 3
      [] o.op \in {"MakeList", "MakeMap", "MakeRecord", "ConcatStr", "Dup", "CallUser"} -> o.n
      [] o.op = "CallValue" -> o.n + 1
      [] OTHER -> 0

Gives(o) ==
    CASE o.op \in {"PushConst", "Load", "Unop", "ToBool", "Wrap", "Field", "Try",
                   "MatchArm", "Binop", "Index", "MakeList", "MakeMap", "MakeRecord",
                   "ConcatStr", "MakeClosure", "CallUser", "CallValue"} -> 1
      [] o.op = "Dup" -> 2 * o.n
      [] OTHER -> 0

ItersAfter(o, n) ==
    CASE o.op = "ForStart" -> n + 1
      [] o.op = "PopIter"  -> n - 1
      [] OTHER -> n

ScopesAfter(o, n) ==
    CASE o.op = "PushScope" -> n + 1
      [] o.op = "PopScope"  -> n - 1
      [] o.op = "TruncScopes" -> IF o.n + 1 < n THEN o.n + 1 ELSE n
      [] OTHER -> n

\* The heights x become on the way to the next instruction.
After(o, x) ==
    [stack  |-> x.stack - Takes(o) + Gives(o),
     iters  |-> ItersAfter(o, x.iters),
     scopes |-> ScopesAfter(o, x.scopes)]

Falls(o) == o.op \notin {"Return", "MatchFail", "Jump"}
Jumps(o) == o.op \in {"Jump", "Branch", "ForNext", "MatchArm"}

\* Jumping out of ForNext leaves its iterator behind.
AfterJump(o, x) ==
    IF o.op = "ForNext" THEN [After(o, x) EXCEPT !.iters = @ - 1] ELSE After(o, x)

-----------------------------------------------------------------------------
(* Code whose heights are consistent. *)

IsSeq(s) == s \in Seq({s[i] : i \in DOMAIN s})

\* H annotates a chunk of a program of n functions.
Annotates(H, ops, n) ==
    /\ DOMAIN H \subseteq 1..Len(ops)
    /\ 1 \in DOMAIN H
    /\ H[1] = [stack |-> 0, iters |-> 0, scopes |-> 1]
    /\ \A ip \in DOMAIN H :
          LET o == ops[ip]
              x == H[ip]
          IN  /\ x \in [stack : Nat, iters : Nat, scopes : Nat \ {0}]
              /\ Takes(o) \in Nat /\ Takes(o) <= x.stack
              /\ o.op \in {"ForNext", "PopIter"} => x.iters > 0
              /\ o.op = "TruncScopes" => o.n \in Nat
              /\ o.op = "CallUser" => o.fn \in 1..n
              /\ Falls(o) => /\ ip + 1 \in DOMAIN H
                             /\ H[ip + 1] = After(o, x)
              /\ Jumps(o) => /\ o.t \in DOMAIN H
                             /\ H[o.t] = AfterJump(o, x)

\* H annotates every chunk of a program.
Verified(program, H) ==
    /\ Len(program.fns) \in Nat
    /\ program.main \in 0..Len(program.fns)
    /\ \A i \in 0..Len(program.fns) :
          Annotates(H[i], IF i = 0 THEN program.top.ops ELSE program.fns[i].ops,
                    Len(program.fns))
=============================================================================
