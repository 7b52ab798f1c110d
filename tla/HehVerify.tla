----------------------------- MODULE HehVerify -----------------------------
(***************************************************************************)
(* What keeps the VM's unwraps from panicking.  vm.rs pops operands,       *)
(* iterators and scopes without looking whether there are any, and trusts  *)
(* the compiler for it.  The contract between the two is that every        *)
(* instruction is reached with one operand-stack height, one number of     *)
(* active iterators and one number of open scopes, whichever way control   *)
(* got there.  Heights gives those numbers for each chunk; CodeVerified    *)
(* says they fit the code, and the invariants say the VM then keeps them.  *)
(***************************************************************************)
EXTENDS HehVM, HehOps

CONSTANT
    \* For each program and each chunk of it (from 0): the heights [stack, iters,
    \* scopes] at each reachable instruction, a function over those.
    Heights

\* The compiler's part of the contract, for every program.
CodeVerified == \A p \in DOMAIN Programs : Verified(Programs[p], Heights[p])

\* ... and for the program running (compile.rs): every chunk the compiler emits
\* has consistent heights, so a `break` or `continue` that leaves a narrowed
\* block or a loop restores what the code behind the loop expects.
CodeFits == Verified(code, Heights[prog])

-----------------------------------------------------------------------------
\* Frame f stands where the annotation H of its chunk says, but for the operands
\* it waits for.
FrameOK(f, H, waiting) ==
    /\ f.chunk \in 0..Len(code.fns)
    /\ f.ip \in DOMAIN H[f.chunk]
    /\ IsSeq(f.stack) /\ IsSeq(f.iters) /\ IsSeq(f.scopes)
    /\ [stack  |-> Len(f.stack) + waiting,
        iters  |-> Len(f.iters),
        scopes |-> Len(f.scopes)] = H[f.chunk][f.ip]

FrameTypeOK(f) ==
    /\ f.chunk \in 0..Len(code.fns)
    /\ f.ip \in Nat \ {0}
    /\ IsSeq(f.stack) /\ IsSeq(f.iters) /\ IsSeq(f.scopes)
    /\ f.scopes # <<>>

\* A type invariant: the frames are live activations of the program's chunks.
TypeOK ==
    /\ Runs(Programs)
    /\ depth \in Nat
    /\ IsSeq(frames) /\ frames # <<>>
    /\ \A i \in DOMAIN frames : FrameTypeOK(frames[i])

FramesOK(H) ==
    /\ \A i \in 1..(Len(frames) - 1) : FrameOK(frames[i], H, 1)
    /\ status = Running => FrameOK(Top, H, 0)

\* The inductive invariant behind StackSafe: a frame that waits for a call has
\* one operand less than its annotation, and the running frame has them all.
Balanced == FramesOK(Heights[prog])

\* No op of a running program panics: its operands, the iterator and the scope
\* it uses are there (the `unwrap`s, `pop_n` and `expect` of exec_chunk), and
\* the function it calls exists.
StackSafe ==
    status = Running =>
        /\ Top.ip \in DOMAIN Chunk(Top.chunk).ops
        /\ Takes(Op) <= Len(Top.stack)
        /\ Op.op \in {"ForNext", "PopIter"} => Len(Top.iters) > 0
        /\ Len(Top.scopes) > 0
        /\ Op.op = "CallUser" => Op.fn \in 1..Len(code.fns)

\* Evaluator.call_depth counts exactly the calls in progress, also after a
\* fault has unwound some of them, and the limit bounds the frames.
CallDepthOK ==
    /\ depth = Len(frames) - 1
    /\ depth <= MaxCallDepth
=============================================================================
