--------------------------- MODULE HehVM_proofs ---------------------------
(***************************************************************************)
(* No op of the VM ever panics on verified code.                           *)
(*                                                                         *)
(* The invariants of HehVerify together are inductive: Balanced says which *)
(* operands, iterators and scopes each frame has, CodeVerified that the    *)
(* next op fits them and leaves what the op after it expects, and          *)
(* CallDepthOK that a call ends in the frame it began in.  The values in   *)
(* the heap and on the stack do not matter, so nothing is assumed of them, *)
(* nor of what the evaluator answers to a call.                            *)
(*                                                                         *)
(* And what the compiler emits is verified code (HehCompile_proofs), so    *)
(* none panics on a compiled program.                                      *)
(***************************************************************************)
EXTENDS HehVerify, HehCompile_proofs, TLAPS

IInv == TypeOK /\ Balanced /\ CallDepthOK

-----------------------------------------------------------------------------
(* What the annotation says of the running frame. *)

Annotation == Heights[prog]

TopHeights ==
    [stack |-> Len(Top.stack), iters |-> Len(Top.iters), scopes |-> Len(Top.scopes)]

\* Every chunk of the running program has its annotation (CodeVerified).
LEMMA ChunkVerified ==
    ASSUME CodeVerified, IInv, NEW i \in 0..Len(code.fns)
    PROVE  /\ Annotates(Annotation[i], Chunk(i).ops, Len(code.fns))
           /\ Len(code.fns) \in Nat
           /\ code.main \in 0..Len(code.fns)
<1>1. Verified(code, Annotation)
  BY DEF CodeVerified, IInv, TypeOK, Annotation, Runs
<1>2. Chunk(i).ops = IF i = 0 THEN code.top.ops ELSE code.fns[i].ops
  BY DEF Chunk
<1> QED
  BY <1>1, <1>2 DEF Verified

\* A frame at its annotation is well-typed.
LEMMA FrameOKTyped ==
    ASSUME CodeVerified, IInv, NEW f, NEW w, FrameOK(f, Annotation, w)
    PROVE  FrameTypeOK(f)
<1>1. Annotates(Annotation[f.chunk], Chunk(f.chunk).ops, Len(code.fns))
  BY ChunkVerified DEF FrameOK
<1>2. f.ip \in 1..Len(Chunk(f.chunk).ops)
  BY <1>1 DEF Annotates, FrameOK
<1>3. f.ip \in Nat \ {0}
  BY <1>2
<1>4. Annotation[f.chunk][f.ip].scopes \in Nat \ {0}
  BY <1>1 DEF Annotates, FrameOK
<1>5. Len(f.scopes) \in Nat \ {0}
  BY <1>4 DEF FrameOK
<1>6. f.scopes # <<>>
  BY <1>5
<1> QED
  BY <1>3, <1>6 DEF FrameOK, FrameTypeOK

\* There is a frame, so Top is one.
LEMMA SomeFrames ==
    ASSUME IInv
    PROVE  /\ Len(frames) \in Nat \ {0}
           /\ DOMAIN frames = 1..Len(frames)
           /\ IsSeq(frames)
           /\ FrameTypeOK(Top)
<1>1. IsSeq(frames) /\ frames # <<>>
  BY DEF IInv, TypeOK
<1>2. Len(frames) \in Nat \ {0} /\ DOMAIN frames = 1..Len(frames)
  BY <1>1, IsSeqDomain
<1>3. FrameTypeOK(frames[Len(frames)])
  BY <1>2 DEF IInv, TypeOK
<1> QED
  BY <1>1, <1>2, <1>3 DEF Top, Final

\* The next op finds what it takes, and the ops after it are annotated with
\* what it leaves.
LEMMA Annotated ==
    ASSUME CodeVerified, IInv, status = Running
    PROVE  /\ Top.chunk \in 0..Len(code.fns)
           /\ Top.ip \in 1..Len(Chunk(Top.chunk).ops)
           /\ IsSeq(Top.stack) /\ IsSeq(Top.iters) /\ IsSeq(Top.scopes)
           /\ Len(Top.stack) \in Nat
           /\ Len(Top.iters) \in Nat
           /\ Len(Top.scopes) \in Nat \ {0}
           /\ Takes(Op) \in 0..Len(Top.stack)
           /\ Op.op \in {"ForNext", "PopIter"} => Len(Top.iters) > 0
           /\ Op.op = "TruncScopes" => Op.n \in Nat
           /\ Op.op = "CallUser" => Op.fn \in 1..Len(code.fns)
           /\ Falls(Op) => /\ Top.ip + 1 \in DOMAIN Annotation[Top.chunk]
                           /\ Annotation[Top.chunk][Top.ip + 1] = After(Op, TopHeights)
           /\ Jumps(Op) => /\ Op.t \in DOMAIN Annotation[Top.chunk]
                           /\ Annotation[Top.chunk][Op.t] = AfterJump(Op, TopHeights)
<1>1. FrameOK(Top, Annotation, 0)
  BY DEF IInv, Balanced, FramesOK, Annotation
<1>2. /\ Top.chunk \in 0..Len(code.fns)
      /\ Top.ip \in DOMAIN Annotation[Top.chunk]
      /\ IsSeq(Top.stack) /\ IsSeq(Top.iters) /\ IsSeq(Top.scopes)
  BY <1>1 DEF FrameOK
<1>3. Len(Top.stack) \in Nat /\ Len(Top.iters) \in Nat /\ Len(Top.scopes) \in Nat
  BY <1>2, IsSeqDomain
<1>4. Annotation[Top.chunk][Top.ip] = TopHeights
  <2>1. [stack  |-> Len(Top.stack) + 0,
         iters  |-> Len(Top.iters),
         scopes |-> Len(Top.scopes)] = Annotation[Top.chunk][Top.ip]
    BY <1>1 DEF FrameOK
  <2>2. Len(Top.stack) + 0 = Len(Top.stack)
    BY <1>3
  <2> QED
    BY <2>1, <2>2 DEF TopHeights
<1>5. Annotates(Annotation[Top.chunk], Chunk(Top.chunk).ops, Len(code.fns))
  BY <1>2, ChunkVerified
<1>6. Op = Chunk(Top.chunk).ops[Top.ip]
  BY DEF Op
<1>7. /\ Top.ip \in 1..Len(Chunk(Top.chunk).ops)
      /\ TopHeights \in [stack : Nat, iters : Nat, scopes : Nat \ {0}]
      /\ Takes(Op) \in Nat /\ Takes(Op) <= TopHeights.stack
      /\ Op.op \in {"ForNext", "PopIter"} => TopHeights.iters > 0
      /\ Op.op = "TruncScopes" => Op.n \in Nat
      /\ Op.op = "CallUser" => Op.fn \in 1..Len(code.fns)
      /\ Falls(Op) => /\ Top.ip + 1 \in DOMAIN Annotation[Top.chunk]
                      /\ Annotation[Top.chunk][Top.ip + 1] = After(Op, TopHeights)
      /\ Jumps(Op) => /\ Op.t \in DOMAIN Annotation[Top.chunk]
                      /\ Annotation[Top.chunk][Op.t] = AfterJump(Op, TopHeights)
  BY <1>2, <1>4, <1>5, <1>6 DEF Annotates
<1>8. /\ TopHeights.stack = Len(Top.stack)
      /\ TopHeights.iters = Len(Top.iters)
      /\ TopHeights.scopes = Len(Top.scopes)
  BY DEF TopHeights
<1>9. /\ Takes(Op) \in 0..Len(Top.stack)
      /\ Op.op \in {"ForNext", "PopIter"} => Len(Top.iters) > 0
      /\ Len(Top.scopes) \in Nat \ {0}
  BY <1>3, <1>7, <1>8
<1> QED
  BY <1>2, <1>3, <1>7, <1>9

-----------------------------------------------------------------------------
(* The ways a step changes the frames. *)

\* A step that changes no frame, and starts nothing that was not running.
LEMMA Unmoved ==
    ASSUME IInv, UNCHANGED <<prog, code, frames, depth>>,
           status' = Running => status = Running
    PROVE  IInv'
<1>1. TypeOK'
  BY DEF IInv, TypeOK, FrameTypeOK, Runs
<1>2. Top' = Top
  BY DEF Top, Final
<1>3. Balanced'
  BY <1>2 DEF IInv, Balanced, FramesOK, FrameOK
<1>4. CallDepthOK'
  BY DEF IInv, CallDepthOK
<1> QED
  BY <1>1, <1>3, <1>4 DEF IInv

\* The running frame becomes f.
LEMMA Replaced ==
    ASSUME CodeVerified, IInv, NEW STATE f, FrameOK(f, Annotation, 0),
           Replace(f), UNCHANGED <<prog, code, depth>>
    PROVE  IInv'
<1>1. FrameTypeOK(f)
  BY FrameOKTyped
<1>2. /\ IsSeq(frames')
      /\ Len(frames') = Len(frames)
      /\ frames'[Len(frames)] = f
      /\ \A i \in 1..Len(frames) : i # Len(frames) => frames'[i] = frames[i]
  <2>1. IsSeq(frames) /\ Len(frames) \in 1..Len(frames)
    BY SomeFrames
  <2>2. frames' = [frames EXCEPT ![Len(frames)] = f]
    BY DEF Replace
  <2>3. IsSeq(frames')
    BY <2>1, <2>2, IsSeqUpdate
  <2>4. Len(frames') = Len(frames)
    BY <2>1, <2>2, IsSeqUpdate
  <2>5. frames'[Len(frames)] = f
    BY <2>1, <2>2, IsSeqUpdate
  <2>6. \A i \in 1..Len(frames) : i # Len(frames) => frames'[i] = frames[i]
    BY <2>1, <2>2, IsSeqUpdate
  <2> QED
    BY <2>3, <2>4, <2>5, <2>6
<1>3. Len(frames) \in Nat \ {0} /\ DOMAIN frames = 1..Len(frames)
  BY SomeFrames
<1>4. DOMAIN frames' = 1..Len(frames) /\ frames' # <<>>
  BY <1>2, <1>3, IsSeqDomain
<1>5. TypeOK'
  <2>1. \A i \in DOMAIN frames' : FrameTypeOK(frames'[i])
    BY <1>1, <1>2, <1>3, <1>4 DEF IInv, TypeOK
  <2> QED
    BY <1>2, <1>4, <2>1 DEF IInv, TypeOK, FrameTypeOK, Runs
<1>6. Balanced'
  <2>1. \A i \in 1..(Len(frames') - 1) : FrameOK(frames'[i], Annotation, 1)
    BY <1>2, <1>3 DEF IInv, Balanced, FramesOK, Annotation
  <2>2. Top' = f
    BY <1>2 DEF Top, Final
  <2> QED
    BY <2>1, <2>2 DEF Balanced, FramesOK, FrameOK, Annotation
<1>7. CallDepthOK'
  BY <1>2 DEF IInv, CallDepthOK
<1> QED
  BY <1>5, <1>6, <1>7 DEF IInv

\* An op that goes on behind itself, still to be given w operands.
LEMMA Fallen ==
    ASSUME CodeVerified, IInv, status = Running, Falls(Op), NEW w \in {0, 1},
           NEW STATE stack, IsSeq(stack),
           Len(stack) + w = Len(Top.stack) - Takes(Op) + Gives(Op),
           NEW STATE iters, IsSeq(iters), Len(iters) = ItersAfter(Op, Len(Top.iters)),
           NEW STATE scopes, IsSeq(scopes), Len(scopes) = ScopesAfter(Op, Len(Top.scopes))
    PROVE  FrameOK(Moved(Top.ip + 1, stack, iters, scopes), Annotation, w)
<1> DEFINE f == Moved(Top.ip + 1, stack, iters, scopes)
<1>1. /\ f.chunk = Top.chunk /\ f.ip = Top.ip + 1
      /\ f.stack = stack /\ f.iters = iters /\ f.scopes = scopes
  BY DEF Moved, Frame
<1>2. After(Op, TopHeights) =
        [stack |-> Len(stack) + w, iters |-> Len(iters), scopes |-> Len(scopes)]
  BY DEF After, TopHeights
<1>3. /\ Top.chunk \in 0..Len(code.fns)
      /\ Top.ip + 1 \in DOMAIN Annotation[Top.chunk]
      /\ Annotation[Top.chunk][Top.ip + 1] = After(Op, TopHeights)
  BY Annotated
<1> QED
  BY <1>1, <1>2, <1>3 DEF FrameOK

\* An op that jumps.
LEMMA Jumped ==
    ASSUME CodeVerified, IInv, status = Running, Jumps(Op),
           NEW STATE stack, IsSeq(stack),
           Len(stack) = Len(Top.stack) - Takes(Op) + Gives(Op),
           NEW STATE iters, IsSeq(iters),
           Len(iters) = IF Op.op = "ForNext" THEN Len(Top.iters) - 1 ELSE Len(Top.iters)
    PROVE  FrameOK(Moved(Op.t, stack, iters, Top.scopes), Annotation, 0)
<1> DEFINE f == Moved(Op.t, stack, iters, Top.scopes)
<1>1. /\ f.chunk = Top.chunk /\ f.ip = Op.t
      /\ f.stack = stack /\ f.iters = iters /\ f.scopes = Top.scopes
  BY DEF Moved, Frame
<1>2. AfterJump(Op, TopHeights) =
        [stack |-> Len(stack), iters |-> Len(iters), scopes |-> Len(Top.scopes)]
  BY DEF AfterJump, After, TopHeights, Jumps, ItersAfter, ScopesAfter
<1>3. Len(stack) + 0 = Len(stack)
  BY IsSeqDomain
<1>4. /\ Top.chunk \in 0..Len(code.fns)
      /\ IsSeq(Top.scopes)
      /\ Op.t \in DOMAIN Annotation[Top.chunk]
      /\ Annotation[Top.chunk][Op.t] = AfterJump(Op, TopHeights)
  BY Annotated
<1> QED
  BY <1>1, <1>2, <1>3, <1>4 DEF FrameOK

-----------------------------------------------------------------------------
(* The steps. *)

\* The operands an op leaves alone, and those it copies.
LEMMA OperandsSplit ==
    ASSUME CodeVerified, IInv, status = Running, NEW STATE n, n \in 0..Len(Top.stack)
    PROVE  /\ IsSeq(Below(n)) /\ Len(Below(n)) = Len(Top.stack) - n
           /\ IsSeq(Args(n)) /\ Len(Args(n)) = n
<1>1. IsSeq(Top.stack) /\ Len(Top.stack) \in Nat
  BY Annotated
<1>2. Len(Top.stack) - n \in 0..Len(Top.stack)
  BY <1>1
<1> QED
  BY <1>1, <1>2, IsSeqPrefix, IsSeqSuffix DEF Below, Args

\* An op that touches neither the iterators nor the scopes, and falls through.
Plain(o) == o.op \notin {"ForStart", "PopIter", "PushScope", "PopScope",
                         "TruncScopes", "Return", "MatchFail", "Jump"}

\* An op that moves no iterator and no scope and goes on behind itself, still
\* to be given w operands.
LEMMA PlainFallen ==
    ASSUME CodeVerified, IInv, status = Running, Plain(Op), NEW w \in {0, 1},
           NEW STATE stack, IsSeq(stack),
           Len(stack) + w = Len(Top.stack) - Takes(Op) + Gives(Op)
    PROVE  FrameOK(Stacked(Top.ip + 1, stack), Annotation, w)
<1>1. Falls(Op)
  BY DEF Plain, Falls
<1>2. /\ ItersAfter(Op, Len(Top.iters)) = Len(Top.iters)
      /\ ScopesAfter(Op, Len(Top.scopes)) = Len(Top.scopes)
  BY DEF Plain, ItersAfter, ScopesAfter
<1>3. IsSeq(Top.iters) /\ IsSeq(Top.scopes)
  BY Annotated
<1> QED
  BY <1>1, <1>2, <1>3, Fallen DEF Stacked

\* An op that takes its n operands and pushes one.
LEMMA Pushed ==
    ASSUME CodeVerified, IInv, status = Running, Plain(Op), NEW STATE n,
           Takes(Op) = n, Gives(Op) = 1, NEW STATE r, Push(r, n)
    PROVE  IInv'
<1>1. CASE r.tag = "val"
  <2> DEFINE stack == Append(Below(n), r.v)
  <2>1. n \in 0..Len(Top.stack) /\ Len(Top.stack) \in Nat
    BY Annotated
  <2>2. IsSeq(Below(n)) /\ Len(Below(n)) = Len(Top.stack) - n
    BY <2>1, OperandsSplit
  <2>3. IsSeq(stack) /\ Len(stack) = Len(Top.stack) - n + 1
    BY <2>2, IsSeqAppend
  <2>4. Replace(Stacked(Top.ip + 1, stack)) /\ UNCHANGED <<prog, code, depth>>
    BY <1>1 DEF Push, Compute
  <2> HIDE DEF stack
  <2>5. Len(stack) + 0 = Len(Top.stack) - Takes(Op) + Gives(Op)
    BY <2>1, <2>3
  <2>6. FrameOK(Stacked(Top.ip + 1, stack), Annotation, 0)
    BY <2>3, <2>5, PlainFallen
  <2> QED
    BY <2>4, <2>6, Replaced
<1>2. CASE r.tag # "val"
  BY <1>2, Unmoved DEF Push, Compute
<1> QED
  BY <1>1, <1>2

\* An op that takes its n operands and pushes none.
LEMMA Consumed ==
    ASSUME CodeVerified, IInv, status = Running, Plain(Op), NEW STATE n,
           Takes(Op) = n, Gives(Op) = 0, NEW STATE r, Consume(r, n)
    PROVE  IInv'
<1>1. CASE r.tag = "val"
  <2>1. n \in 0..Len(Top.stack) /\ Len(Top.stack) \in Nat
    BY Annotated
  <2>2. IsSeq(Below(n)) /\ Len(Below(n)) = Len(Top.stack) - n
    BY <2>1, OperandsSplit
  <2>3. Replace(Stacked(Top.ip + 1, Below(n))) /\ UNCHANGED <<prog, code, depth>>
    BY <1>1 DEF Consume, Compute
  <2>4. Len(Below(n)) + 0 = Len(Top.stack) - Takes(Op) + Gives(Op)
    BY <2>1, <2>2
  <2>5. FrameOK(Stacked(Top.ip + 1, Below(n)), Annotation, 0)
    BY <2>2, <2>4, PlainFallen
  <2> QED
    BY <2>3, <2>5, Replaced
<1>2. CASE r.tag # "val"
  BY <1>2, Unmoved DEF Consume, Compute
<1> QED
  BY <1>1, <1>2

\* The ops that compute with operands and variables.
LEMMA DataOpStep ==
    ASSUME CodeVerified, IInv, DataOp
    PROVE  IInv'
<1> USE DEF At, Plain, Takes, Gives
<1>1. CASE PushConst
  BY <1>1, Pushed DEF PushConst
<1>2. CASE Pop
  BY <1>2, Consumed DEF Pop
<1>3. CASE Load
  BY <1>3, Pushed DEF Load
<1>4. CASE DefineVar
  BY <1>4, Consumed DEF DefineVar
<1>5. CASE AssignVar
  BY <1>5, Consumed DEF AssignVar
<1>6. CASE OpAssign
  <2> DEFINE cur == Lookup(heap, Scope, Op.n)
             res == BinOp(heap, Op.b, cur, Operand(1))
             r   == IF ~Defined(heap, Scope, Op.n) THEN Diag(heap, "E0103")
                    ELSE IF res.tag # "val" THEN res
                    ELSE SetVar(heap, Scope, Op.n, res.v)
  <2>1. status = Running /\ Op.op = "OpAssign" /\ Consume(r, 1)
    BY <1>6 DEF OpAssign
  <2> HIDE DEF r
  <2> QED
    BY <2>1, Consumed
<1>7. CASE Binop
  BY <1>7, Pushed DEF Binop
<1>8. CASE Unop
  BY <1>8, Pushed DEF Unop
<1>9. CASE ToBool
  BY <1>9, Pushed DEF ToBool
<1>10. CASE MakeList
  BY <1>10, Pushed DEF MakeList
<1>11. CASE WrapValue
  BY <1>11, Pushed DEF WrapValue
<1>12. CASE Dup
  <2>1. /\ status = Running /\ Op.op = "Dup"
        /\ Replace(Stacked(Top.ip + 1, Top.stack \o Args(Op.n)))
        /\ UNCHANGED <<prog, code, depth>>
    BY <1>12 DEF Dup
  <2>2. Op.n \in 0..Len(Top.stack) /\ IsSeq(Top.stack) /\ Len(Top.stack) \in Nat
    BY <2>1, Annotated
  <2>3. IsSeq(Args(Op.n)) /\ Len(Args(Op.n)) = Op.n
    BY <2>1, <2>2, OperandsSplit
  <2>4. /\ IsSeq(Top.stack \o Args(Op.n))
        /\ Len(Top.stack \o Args(Op.n)) = Len(Top.stack) + Op.n
    <3>1. PICK s, t : /\ s = Top.stack /\ t = Args(Op.n) /\ IsSeq(s) /\ IsSeq(t)
                      /\ Len(t) = Op.n
      BY <2>2, <2>3
    <3>2. IsSeq(s \o t) /\ Len(s \o t) = Len(s) + Len(t)
      BY <3>1, IsSeqConcat
    <3> QED
      BY <3>1, <3>2
  <2>5. Len(Top.stack \o Args(Op.n)) + 0 = Len(Top.stack) - Takes(Op) + Gives(Op)
    BY <2>1, <2>2, <2>4
  <2>6. FrameOK(Stacked(Top.ip + 1, Top.stack \o Args(Op.n)), Annotation, 0)
    BY <2>1, <2>4, <2>5, PlainFallen
  <2> QED
    BY <2>1, <2>6, Replaced
<1>13. CASE Field
  BY <1>13, Pushed DEF Field
<1>14. CASE Index
  BY <1>14, Pushed DEF Index
<1>15. CASE SetIndex
  BY <1>15, Consumed DEF SetIndex
<1>16. CASE MakeClosure
  BY <1>16, Pushed DEF MakeClosure
<1>17. CASE Try
  BY <1>17, Pushed DEF Try
<1>18. CASE MakeMap
  BY <1>18, Pushed DEF MakeMap
<1>19. CASE MakeRecord
  BY <1>19, Pushed DEF MakeRecord
<1>20. CASE ConcatStr
  BY <1>20, Pushed DEF ConcatStr
<1>21. CASE SetField
  BY <1>21, Consumed DEF SetField
<1> QED
  BY <1>1, <1>2, <1>3, <1>4, <1>5, <1>6, <1>7, <1>8, <1>9, <1>10, <1>11, <1>12,
     <1>13, <1>14, <1>15, <1>16, <1>17, <1>18, <1>19, <1>20, <1>21 DEF DataOp

\* The ops that open and close the scopes of a block.
LEMMA ScopeOpStep ==
    ASSUME CodeVerified, IInv, ScopeOp
    PROVE  IInv'
<1>1. ASSUME NEW STATE scopes, IsSeq(scopes), status = Running,
             Op.op \in {"PushScope", "PopScope", "TruncScopes"},
             Len(scopes) = ScopesAfter(Op, Len(Top.scopes)),
             Replace(Scoped(scopes)), UNCHANGED <<prog, code, depth>>
      PROVE  IInv'
  <2>1. /\ IsSeq(Top.stack) /\ Len(Top.stack) \in Nat
        /\ IsSeq(Top.iters)
    BY <1>1, Annotated
  <2>2. Falls(Op)
    BY <1>1 DEF Falls
  <2>3. Takes(Op) = 0 /\ Gives(Op) = 0 /\ ItersAfter(Op, Len(Top.iters)) = Len(Top.iters)
    BY <1>1 DEF Takes, Gives, ItersAfter
  <2>4. Len(Top.stack) + 0 = Len(Top.stack) - Takes(Op) + Gives(Op)
    BY <2>1, <2>3
  <2>5. FrameOK(Scoped(scopes), Annotation, 0)
    BY <1>1, <2>1, <2>2, <2>3, <2>4, Fallen DEF Scoped
  <2> QED
    BY <1>1, <2>5, Replaced
<1>2. ASSUME status = Running
      PROVE  IsSeq(Top.scopes) /\ Len(Top.scopes) \in Nat \ {0}
  BY <1>2, Annotated
<1>3. ASSUME NEW STATE n, n \in Nat, status = Running
      PROVE  /\ IsSeq(Truncate(Top.scopes, n))
             /\ Len(Truncate(Top.scopes, n)) = IF n < Len(Top.scopes) THEN n
                                               ELSE Len(Top.scopes)
  <2>1. CASE n < Len(Top.scopes)
    <3>1. n \in 0..Len(Top.scopes)
      BY <1>2, <1>3, <2>1
    <3> QED
      BY <1>2, <1>3, <2>1, <3>1, IsSeqPrefix DEF Truncate
  <2>2. CASE ~(n < Len(Top.scopes))
    BY <1>2, <1>3, <2>2 DEF Truncate
  <2> QED
    BY <2>1, <2>2
<1>4. CASE PushScope
  <2> DEFINE scopes == Append(Top.scopes, LastScope(NewScope(heap, Scope)))
  <2>1. /\ status = Running /\ Op.op = "PushScope"
        /\ Replace(Scoped(scopes))
        /\ UNCHANGED <<prog, code, depth>>
    BY <1>4 DEF PushScope, At
  <2>2. IsSeq(scopes) /\ Len(scopes) = Len(Top.scopes) + 1
    BY <1>2, <2>1, IsSeqAppend
  <2> HIDE DEF scopes
  <2>3. Len(scopes) = ScopesAfter(Op, Len(Top.scopes))
    BY <2>1, <2>2 DEF ScopesAfter
  <2> QED
    BY <1>1, <2>1, <2>2, <2>3
<1>5. CASE PopScope
  <2> DEFINE scopes == Truncate(Top.scopes, Len(Top.scopes) - 1)
  <2>1. /\ status = Running /\ Op.op = "PopScope"
        /\ Replace(Scoped(scopes))
        /\ UNCHANGED <<prog, code, depth>>
    BY <1>5 DEF PopScope, CloseScopes, At
  <2>2. Len(Top.scopes) - 1 \in Nat /\ Len(Top.scopes) - 1 < Len(Top.scopes)
    BY <1>2, <2>1
  <2>3. IsSeq(scopes) /\ Len(scopes) = Len(Top.scopes) - 1
    BY <1>3, <2>1, <2>2
  <2> HIDE DEF scopes
  <2>4. Len(scopes) = ScopesAfter(Op, Len(Top.scopes))
    BY <2>1, <2>3 DEF ScopesAfter
  <2> QED
    BY <1>1, <2>1, <2>3, <2>4
<1>6. CASE TruncScopes
  <2> DEFINE scopes == Truncate(Top.scopes, Op.n + 1)
  <2>1. /\ status = Running /\ Op.op = "TruncScopes"
        /\ Replace(Scoped(scopes))
        /\ UNCHANGED <<prog, code, depth>>
    BY <1>6 DEF TruncScopes, CloseScopes, At
  <2>2. Op.n + 1 \in Nat
    BY <2>1, Annotated
  <2>3. /\ IsSeq(scopes)
        /\ Len(scopes) = IF Op.n + 1 < Len(Top.scopes) THEN Op.n + 1
                         ELSE Len(Top.scopes)
    BY <1>3, <2>1, <2>2
  <2> HIDE DEF scopes
  <2>4. Len(scopes) = ScopesAfter(Op, Len(Top.scopes))
    BY <2>1, <2>3 DEF ScopesAfter
  <2> QED
    BY <1>1, <2>1, <2>3, <2>4
<1>7. CASE NarrowOption
  BY <1>7, Consumed DEF NarrowOption, At, Plain, Takes, Gives
<1> QED
  BY <1>4, <1>5, <1>6, <1>7 DEF ScopeOp

\* All elements but the last (Vec::pop).
LEMMA ButlastIsSeq ==
    ASSUME NEW STATE s, IsSeq(s), Len(s) > 0
    PROVE  IsSeq(Butlast(s)) /\ Len(Butlast(s)) = Len(s) - 1
<1>1. Len(s) \in Nat
  BY IsSeqDomain
<1>2. Len(s) - 1 \in 0..Len(s)
  BY <1>1
<1> QED
  BY <1>2, IsSeqPrefix DEF Butlast

\* The ops of branches, loops and matches.
LEMMA FlowOpStep ==
    ASSUME CodeVerified, IInv, FlowOp
    PROVE  IInv'
<1>1. ASSUME status = Running
      PROVE  /\ IsSeq(Top.stack) /\ Len(Top.stack) \in Nat
             /\ IsSeq(Top.iters) /\ Len(Top.iters) \in Nat
             /\ IsSeq(Top.scopes)
             /\ Takes(Op) \in 0..Len(Top.stack)
  BY <1>1, Annotated
<1>2. CASE Jump
  <2>1. /\ status = Running /\ Op.op = "Jump"
        /\ Replace(Stacked(Op.t, Top.stack))
        /\ UNCHANGED <<prog, code, depth>>
    BY <1>2 DEF Jump, At
  <2>2. Len(Top.stack) = Len(Top.stack) - Takes(Op) + Gives(Op)
    BY <1>1, <2>1 DEF Takes, Gives
  <2>3. FrameOK(Stacked(Op.t, Top.stack), Annotation, 0)
    BY <1>1, <2>1, <2>2, Jumped DEF Jumps, Stacked
  <2> QED
    BY <2>1, <2>3, Replaced
<1>3. CASE Branch
  <2> DEFINE r == ExpectBool(heap, Operand(1))
             goes == r.v = BoolV(Op.on)
  <2>1. status = Running /\ Op.op = "Branch"
    BY <1>3 DEF Branch, At
  <2>2. CASE r.tag = "val"
    <3>1. /\ Replace(Stacked(IF goes THEN Op.t ELSE Top.ip + 1, Below(1)))
          /\ UNCHANGED <<prog, code, depth>>
      BY <1>3, <2>2 DEF Branch, Compute
    <3> HIDE DEF goes
    <3>2. 1 \in 0..Len(Top.stack)
      BY <1>1, <2>1 DEF Takes
    <3>3. IsSeq(Below(1)) /\ Len(Below(1)) = Len(Top.stack) - 1
      BY <2>1, <3>2, OperandsSplit
    <3>4. Takes(Op) = 1 /\ Gives(Op) = 0
      BY <2>1 DEF Takes, Gives
    <3>5. CASE goes
      <4>1. Len(Below(1)) = Len(Top.stack) - Takes(Op) + Gives(Op)
        BY <1>1, <2>1, <3>3, <3>4
      <4>2. FrameOK(Stacked(Op.t, Below(1)), Annotation, 0)
        BY <1>1, <2>1, <3>3, <4>1, Jumped DEF Jumps, Stacked
      <4> QED
        BY <3>1, <3>5, <4>2, Replaced
    <3>6. CASE ~goes
      <4>1. Len(Below(1)) + 0 = Len(Top.stack) - Takes(Op) + Gives(Op)
        BY <1>1, <2>1, <3>3, <3>4
      <4>2. FrameOK(Stacked(Top.ip + 1, Below(1)), Annotation, 0)
        BY <2>1, <3>3, <4>1, PlainFallen DEF Plain
      <4> QED
        BY <3>1, <3>6, <4>2, Replaced
    <3> QED
      BY <3>5, <3>6
  <2>3. CASE r.tag # "val"
    BY <1>3, <2>1, <2>3, Unmoved DEF Branch, Compute
  <2> QED
    BY <2>2, <2>3
<1>4. CASE ForStart
  <2> DEFINE r == Iterator(heap, Operand(1))
             iters == Append(Top.iters, r.v)
  <2>1. status = Running /\ Op.op = "ForStart"
    BY <1>4 DEF ForStart, At
  <2>2. CASE r.tag = "val"
    <3>1. /\ Replace(Moved(Top.ip + 1, Below(1), iters, Top.scopes))
          /\ UNCHANGED <<prog, code, depth>>
      BY <1>4, <2>2 DEF ForStart, Compute
    <3>2. 1 \in 0..Len(Top.stack)
      BY <1>1, <2>1 DEF Takes
    <3>3. IsSeq(Below(1)) /\ Len(Below(1)) = Len(Top.stack) - 1
      BY <2>1, <3>2, OperandsSplit
    <3>4. IsSeq(iters) /\ Len(iters) = Len(Top.iters) + 1
      BY <1>1, <2>1, IsSeqAppend
    <3> HIDE DEF iters
    <3>5. /\ Falls(Op) /\ Takes(Op) = 1 /\ Gives(Op) = 0
          /\ ItersAfter(Op, Len(Top.iters)) = Len(Top.iters) + 1
          /\ ScopesAfter(Op, Len(Top.scopes)) = Len(Top.scopes)
      BY <2>1 DEF Falls, Takes, Gives, ItersAfter, ScopesAfter
    <3>6. Len(Below(1)) + 0 = Len(Top.stack) - Takes(Op) + Gives(Op)
      BY <1>1, <2>1, <3>3, <3>5
    <3>7. FrameOK(Moved(Top.ip + 1, Below(1), iters, Top.scopes), Annotation, 0)
      BY <1>1, <2>1, <3>3, <3>4, <3>5, <3>6, Fallen
    <3> QED
      BY <3>1, <3>7, Replaced
  <2>3. CASE r.tag # "val"
    BY <1>4, <2>1, <2>3, Unmoved DEF ForStart, Compute
  <2> QED
    BY <2>2, <2>3
<1>5. CASE ForNext
  <2> DEFINE iters == [Top.iters EXCEPT ![Len(Top.iters)] = Advance(Final(Top.iters))]
  <2>1. /\ status = Running /\ Op.op = "ForNext"
        /\ Replace(Iterating(Top.ip + 1, iters))
        /\ UNCHANGED <<prog, code, depth>>
    BY <1>5 DEF ForNext, At
  <2>2. Len(Top.iters) \in 1..Len(Top.iters)
    BY <1>1, <2>1, Annotated
  <2>3. IsSeq(iters) /\ Len(iters) = Len(Top.iters)
    BY <1>1, <2>1, <2>2, IsSeqUpdate
  <2> HIDE DEF iters
  <2>4. /\ Falls(Op)
        /\ ItersAfter(Op, Len(Top.iters)) = Len(Top.iters)
        /\ ScopesAfter(Op, Len(Top.scopes)) = Len(Top.scopes)
    BY <2>1 DEF Falls, ItersAfter, ScopesAfter
  <2>5. Len(Top.stack) + 0 = Len(Top.stack) - Takes(Op) + Gives(Op)
    BY <1>1, <2>1 DEF Takes, Gives
  <2>6. FrameOK(Iterating(Top.ip + 1, iters), Annotation, 0)
    BY <1>1, <2>1, <2>3, <2>4, <2>5, Fallen DEF Iterating
  <2> QED
    BY <2>1, <2>6, Replaced
<1>6. CASE ForEnd
  <2>1. /\ status = Running /\ Op.op = "ForNext"
        /\ Replace(Iterating(Op.t, Butlast(Top.iters)))
        /\ UNCHANGED <<prog, code, depth>>
    BY <1>6 DEF ForEnd, At
  <2>2. IsSeq(Butlast(Top.iters)) /\ Len(Butlast(Top.iters)) = Len(Top.iters) - 1
    BY <1>1, <2>1, Annotated, ButlastIsSeq
  <2>3. Len(Top.stack) = Len(Top.stack) - Takes(Op) + Gives(Op)
    BY <1>1, <2>1 DEF Takes, Gives
  <2>4. FrameOK(Iterating(Op.t, Butlast(Top.iters)), Annotation, 0)
    BY <1>1, <2>1, <2>2, <2>3, Jumped DEF Jumps, Iterating
  <2> QED
    BY <2>1, <2>4, Replaced
<1>7. CASE PopIter
  <2>1. /\ status = Running /\ Op.op = "PopIter"
        /\ Replace(Iterating(Top.ip + 1, Butlast(Top.iters)))
        /\ UNCHANGED <<prog, code, depth>>
    BY <1>7 DEF PopIter, At
  <2>2. IsSeq(Butlast(Top.iters)) /\ Len(Butlast(Top.iters)) = Len(Top.iters) - 1
    BY <1>1, <2>1, Annotated, ButlastIsSeq
  <2>3. /\ Falls(Op)
        /\ ItersAfter(Op, Len(Top.iters)) = Len(Top.iters) - 1
        /\ ScopesAfter(Op, Len(Top.scopes)) = Len(Top.scopes)
    BY <2>1 DEF Falls, ItersAfter, ScopesAfter
  <2>4. Len(Top.stack) + 0 = Len(Top.stack) - Takes(Op) + Gives(Op)
    BY <1>1, <2>1 DEF Takes, Gives
  <2>5. FrameOK(Iterating(Top.ip + 1, Butlast(Top.iters)), Annotation, 0)
    BY <1>1, <2>1, <2>2, <2>3, <2>4, Fallen DEF Iterating
  <2> QED
    BY <2>1, <2>5, Replaced
<1>8. CASE MatchArm
  <2>1. /\ status = Running /\ Op.op = "MatchArm"
        /\ \/ Replace(Stacked(Top.ip + 1, Top.stack))
           \/ Replace(Stacked(Op.t, Top.stack))
        /\ UNCHANGED <<prog, code, depth>>
    BY <1>8 DEF MatchArm, At
  <2>2. Takes(Op) = 1 /\ Gives(Op) = 1
    BY <2>1 DEF Takes, Gives
  <2>3. FrameOK(Stacked(Top.ip + 1, Top.stack), Annotation, 0)
    <3>1. Len(Top.stack) + 0 = Len(Top.stack) - Takes(Op) + Gives(Op)
      BY <1>1, <2>1, <2>2
    <3> QED
      BY <1>1, <2>1, <3>1, PlainFallen DEF Plain
  <2>4. FrameOK(Stacked(Op.t, Top.stack), Annotation, 0)
    <3>1. Len(Top.stack) = Len(Top.stack) - Takes(Op) + Gives(Op)
      BY <1>1, <2>1, <2>2
    <3> QED
      BY <1>1, <2>1, <3>1, Jumped DEF Jumps, Stacked
  <2> QED
    BY <2>1, <2>3, <2>4, Replaced
<1>9. CASE MatchFail
  <2>1. UNCHANGED <<prog, code, frames, depth>> /\ status = Running
    BY <1>9 DEF MatchFail, Consume, Compute, Diag, Res, At
  <2> QED
    BY <2>1, Unmoved
<1> QED
  BY <1>2, <1>3, <1>4, <1>5, <1>6, <1>7, <1>8, <1>9 DEF FlowOp

\* A chunk is entered as its annotation begins.
LEMMA EnteringAnnotated ==
    ASSUME Verified(code, Annotation), NEW STATE i, i \in 0..Len(code.fns), NEW STATE scope
    PROVE  /\ FrameOK(Entering(i, scope), Annotation, 0)
           /\ FrameTypeOK(Entering(i, scope))
<1>1. 1 \in DOMAIN Annotation[i] /\ Annotation[i][1] = [stack |-> 0, iters |-> 0, scopes |-> 1]
  BY DEF Verified, Annotates
<1>2. IsSeq(<<>>) /\ Len(<<>>) = 0
  BY DEF IsSeq
<1>3. IsSeq(<<scope>>) /\ Len(<<scope>>) = 1 /\ <<scope>> # <<>>
  BY <<scope>> \in Seq({scope}), SeqIsSeq
<1>4. Entering(i, scope) =
        [chunk |-> i, ip |-> 1, stack |-> <<>>, iters |-> <<>>, scopes |-> <<scope>>]
  BY DEF Entering, Frame
<1>5. FrameOK(Entering(i, scope), Annotation, 0)
  BY <1>1, <1>2, <1>3, <1>4 DEF FrameOK
<1>6. FrameTypeOK(Entering(i, scope))
  BY <1>2, <1>3, <1>4 DEF FrameTypeOK
<1> QED
  BY <1>5, <1>6

\* A frame entering a chunk fits the annotation and is well-typed.
LEMMA EnteringOK ==
    ASSUME CodeVerified, IInv, NEW STATE i, i \in 0..Len(code.fns), NEW STATE scope
    PROVE  /\ FrameOK(Entering(i, scope), Annotation, 0)
           /\ FrameTypeOK(Entering(i, scope))
<1>1. Verified(code, Annotation)
  BY DEF CodeVerified, IInv, TypeOK, Annotation, Runs
<1> QED
  BY <1>1, EnteringAnnotated

\* The running frame waits as `caller` for the call that runs in `callee`.
LEMMA Called ==
    ASSUME CodeVerified, IInv,
           NEW STATE caller, FrameOK(caller, Annotation, 1),
           NEW STATE callee, FrameOK(callee, Annotation, 0),
           frames' = Append([frames EXCEPT ![Len(frames)] = caller], callee),
           depth < MaxCallDepth, depth' = depth + 1, UNCHANGED <<prog, code>>
    PROVE  IInv'
<1> DEFINE below == [frames EXCEPT ![Len(frames)] = caller]
<1>1. IsSeq(frames) /\ Len(frames) \in Nat \ {0} /\ Len(frames) \in 1..Len(frames)
  BY SomeFrames
<1>2. below = [frames EXCEPT ![Len(frames)] = caller] /\ frames' = Append(below, callee)
  OBVIOUS
<1> HIDE DEF below
<1>3. /\ IsSeq(below) /\ Len(below) = Len(frames)
      /\ below[Len(frames)] = caller
      /\ \A i \in 1..Len(frames) : i # Len(frames) => below[i] = frames[i]
  <2>1. IsSeq(below)
    BY <1>1, <1>2, IsSeqUpdate
  <2>2. Len(below) = Len(frames)
    BY <1>1, <1>2, IsSeqUpdate
  <2>3. below[Len(frames)] = caller
    BY <1>1, <1>2, IsSeqUpdate
  <2>4. \A i \in 1..Len(frames) : i # Len(frames) => below[i] = frames[i]
    BY <1>1, <1>2, IsSeqUpdate
  <2> QED
    BY <2>1, <2>2, <2>3, <2>4
<1>4. /\ IsSeq(frames') /\ Len(frames') = Len(frames) + 1
      /\ frames'[Len(frames) + 1] = callee
      /\ \A i \in 1..Len(frames) : frames'[i] = below[i]
  <2>1. /\ IsSeq(Append(below, callee)) /\ Len(Append(below, callee)) = Len(below) + 1
        /\ \A i \in 1..Len(below) : Append(below, callee)[i] = below[i]
        /\ Append(below, callee)[Len(below) + 1] = callee
    BY <1>3, IsSeqAppend
  <2> QED
    BY <1>2, <1>3, <2>1
<1>5. /\ \A i \in 1..(Len(frames) - 1) : frames'[i] = frames[i]
      /\ frames'[Len(frames)] = caller
  BY <1>1, <1>3, <1>4
<1>6. DOMAIN frames' = 1..Len(frames) + 1 /\ frames' # <<>>
  BY <1>1, <1>4, IsSeqDomain
<1>7. TypeOK'
  <2>1. FrameTypeOK(caller) /\ FrameTypeOK(callee)
    BY FrameOKTyped
  <2>2. \A i \in 1..(Len(frames) - 1) : FrameTypeOK(frames[i])
    BY <1>1, SomeFrames DEF IInv, TypeOK
  <2>3. \A i \in DOMAIN frames' : FrameTypeOK(frames'[i])
    BY <1>1, <1>4, <1>5, <1>6, <2>1, <2>2
  <2>4. depth' \in Nat
    BY DEF IInv, TypeOK
  <2> QED
    BY <1>4, <1>6, <2>3, <2>4 DEF IInv, TypeOK, FrameTypeOK, Runs
<1>8. Balanced'
  <2>1. \A i \in 1..(Len(frames) - 1) : FrameOK(frames[i], Annotation, 1)
    BY DEF IInv, Balanced, FramesOK, Annotation
  <2>2. \A i \in 1..Len(frames) : FrameOK(frames'[i], Annotation, 1)
    BY <1>1, <1>5, <2>1
  <2>3. Len(frames') - 1 = Len(frames) /\ Top' = callee
    BY <1>1, <1>4 DEF Top, Final
  <2> QED
    BY <2>2, <2>3 DEF Balanced, FramesOK, FrameOK, Annotation
<1>9. CallDepthOK'
  BY <1>1, <1>4, MaxCallDepthAssumption DEF IInv, TypeOK, CallDepthOK
<1> QED
  BY <1>7, <1>8, <1>9 DEF IInv

\* The callee is gone: the frames are the others, the last one now f.
LEMMA CallLeft ==
    ASSUME CodeVerified, IInv, Len(frames) > 1,
           NEW STATE f, FrameTypeOK(f), status' = Running => FrameOK(f, Annotation, 0),
           IsSeq(frames'), Len(frames') = Len(frames) - 1,
           \A i \in 1..(Len(frames) - 2) : frames'[i] = frames[i],
           frames'[Len(frames) - 1] = f,
           depth' = depth - 1, UNCHANGED <<prog, code>>
    PROVE  IInv'
<1>1. IsSeq(frames) /\ Len(frames) \in Nat \ {0} /\ DOMAIN frames = 1..Len(frames)
  BY SomeFrames
<1>2. DOMAIN frames' = 1..(Len(frames) - 1) /\ frames' # <<>>
  BY <1>1, IsSeqDomain
<1>3. CallDepthOK' /\ depth' \in Nat
  BY <1>1, MaxCallDepthAssumption DEF IInv, TypeOK, CallDepthOK
<1>4. TypeOK'
  <2>1. \A i \in 1..(Len(frames) - 2) : FrameTypeOK(frames[i])
    BY <1>1 DEF IInv, TypeOK
  <2>2. \A i \in DOMAIN frames' : FrameTypeOK(frames'[i])
    BY <1>1, <1>2, <2>1
  <2> QED
    BY <1>2, <1>3, <2>2 DEF IInv, TypeOK, FrameTypeOK, Runs
<1>5. Balanced'
  <2>1. \A i \in 1..(Len(frames) - 1) : FrameOK(frames[i], Annotation, 1)
    BY DEF IInv, Balanced, FramesOK, Annotation
  <2>2. \A i \in 1..(Len(frames) - 2) : FrameOK(frames'[i], Annotation, 1)
    BY <1>1, <2>1
  <2>3. Len(frames') - 1 = Len(frames) - 2 /\ Top' = f
    BY <1>1 DEF Top, Final
  <2> QED
    BY <2>2, <2>3 DEF Balanced, FramesOK, FrameOK, Annotation
<1> QED
  BY <1>3, <1>4, <1>5 DEF IInv

\* The caller goes on with the result it waited for.
LEMMA Resumed ==
    ASSUME CodeVerified, IInv, Len(frames) > 1, NEW STATE v, frames' = Resume(v),
           depth' = depth - 1, UNCHANGED <<prog, code>>
    PROVE  IInv'
<1> DEFINE c == frames[Len(frames) - 1]
           f == Frame(c.chunk, c.ip, Append(c.stack, v), c.iters, c.scopes)
           below == Butlast(frames)
<1>1. IsSeq(frames) /\ Len(frames) \in Nat \ {0} /\ Len(frames) - 1 \in 1..(Len(frames) - 1)
  BY SomeFrames
<1>2. FrameOK(c, Annotation, 1)
  BY <1>1 DEF IInv, Balanced, FramesOK, Annotation
<1>3. FrameOK(f, Annotation, 0)
  <2>1. /\ f.chunk = c.chunk /\ f.ip = c.ip /\ f.stack = Append(c.stack, v)
        /\ f.iters = c.iters /\ f.scopes = c.scopes
    BY DEF Frame
  <2>2. IsSeq(c.stack)
    BY <1>2 DEF FrameOK
  <2>3. IsSeq(f.stack) /\ Len(f.stack) = Len(c.stack) + 1
    BY <2>1, <2>2, IsSeqAppend
  <2>4. Len(f.stack) + 0 = Len(c.stack) + 1
    BY <2>2, <2>3, IsSeqDomain
  <2> HIDE DEF f, c
  <2> QED
    BY <1>2, <2>1, <2>3, <2>4 DEF FrameOK
<1>4. FrameTypeOK(f)
  BY <1>3, FrameOKTyped
<1>5. frames' = [below EXCEPT ![Len(frames) - 1] = f]
  BY DEF Resume
<1>6. /\ IsSeq(below) /\ Len(below) = Len(frames) - 1
      /\ \A i \in 1..(Len(frames) - 1) : below[i] = frames[i]
  <2>1. Len(frames) - 1 \in 0..Len(frames)
    BY <1>1
  <2> QED
    BY <1>1, <2>1, IsSeqPrefix DEF Butlast
<1> DEFINE k == Len(frames) - 1
           resumed == [below EXCEPT ![k] = f]
<1> HIDE DEF below, f
<1>7. k \in 1..Len(below) /\ frames' = [below EXCEPT ![k] = f]
  BY <1>1, <1>5, <1>6
<1> HIDE DEF k
<1>8. IsSeq(frames')
  <2>1. resumed = [below EXCEPT ![k] = f]
    OBVIOUS
  <2> HIDE DEF resumed
  <2>2. IsSeq(resumed)
    BY <1>6, <1>7, <2>1, IsSeqUpdate
  <2> QED
    BY <1>7, <2>1, <2>2, Zenon
<1>9. Len(frames') = Len(frames) - 1
  BY <1>6, <1>7, IsSeqUpdate
<1>10. frames'[Len(frames) - 1] = f
  BY <1>6, <1>7, IsSeqUpdate DEF k
<1>11. \A i \in 1..(Len(frames) - 2) : frames'[i] = frames[i]
  <2>1. \A i \in 1..Len(below) : i # k => frames'[i] = below[i]
    BY <1>6, <1>7, IsSeqUpdate
  <2> QED
    BY <1>1, <1>6, <2>1 DEF k
<1> QED
  BY <1>3, <1>4, <1>8, <1>9, <1>10, <1>11, CallLeft

\* Calls, returns, unwinding and the ends of a run.
LEMMA CallOpStep ==
    ASSUME CodeVerified, IInv, CallOp
    PROVE  IInv'
<1>1. CASE CallUser
  <2> DEFINE called == NewScope(heap, Global)
             caller == Stacked(Top.ip + 1, Below(Op.n))
             callee == Entering(Op.fn, LastScope(called))
  <2>1. status = Running /\ Op.op = "CallUser" /\ UNCHANGED <<prog, code>>
    BY <1>1 DEF CallUser, At
  <2>2. CASE CallUserFault(Op.fn, Op.n) # ""
    BY <1>1, <2>1, <2>2, Unmoved DEF CallUser
  <2>3. CASE CallUserFault(Op.fn, Op.n) = ""
    <3>1. /\ frames' = Append([frames EXCEPT ![Len(frames)] = caller], callee)
          /\ depth' = depth + 1
      BY <1>1, <2>3 DEF CallUser
    <3>2. depth < MaxCallDepth
      BY <2>3, MaxCallDepthAssumption DEF CallUserFault, IInv, TypeOK
    <3>3. FrameOK(caller, Annotation, 1)
      <4>1. Takes(Op) = Op.n /\ Gives(Op) = 1
        BY <2>1 DEF Takes, Gives
      <4>2. Op.n \in 0..Len(Top.stack) /\ Len(Top.stack) \in Nat
        BY <2>1, <4>1, Annotated
      <4>3. IsSeq(Below(Op.n)) /\ Len(Below(Op.n)) = Len(Top.stack) - Op.n
        BY <2>1, <4>2, OperandsSplit
      <4>4. Len(Below(Op.n)) + 1 = Len(Top.stack) - Takes(Op) + Gives(Op)
        BY <4>1, <4>2, <4>3
      <4> QED
        BY <2>1, <4>3, <4>4, PlainFallen DEF Plain
    <3>4. FrameOK(callee, Annotation, 0)
      <4>1. Op.fn \in 0..Len(code.fns)
        BY <2>1, Annotated, ChunkVerified
      <4> QED
        BY <4>1, EnteringOK
    <3> HIDE DEF caller, callee
    <3> QED
      BY <2>1, <3>1, <3>2, <3>3, <3>4, Called
  <2> QED
    BY <2>2, <2>3
<1>2. CASE CallValue
  BY <1>2, Pushed DEF CallValue, At, Plain, Takes, Gives
<1>3. CASE ReturnToCaller
  <2> DEFINE v == IF Top.stack = <<>> THEN NoneV ELSE Operand(1)
  <2>1. Len(frames) > 1 /\ frames' = Resume(v) /\ depth' = depth - 1 /\ UNCHANGED <<prog, code>>
    BY <1>3 DEF ReturnToCaller
  <2> HIDE DEF v
  <2> QED
    BY <2>1, Resumed
<1>4. CASE StartMain
  <2>1. PICK scope : frames' = <<Entering(code.main, scope)>>
    BY <1>4 DEF StartMain
  <2>2. UNCHANGED <<prog, code, depth>> /\ Len(frames) = 1
    BY <1>4 DEF StartMain
  <2>3. FrameOK(Entering(code.main, scope), Annotation, 0)
    BY ChunkVerified, EnteringOK
  <2>4. FrameTypeOK(Entering(code.main, scope))
    BY <2>3, FrameOKTyped
  <2>5. IsSeq(frames') /\ Len(frames') = 1 /\ frames'[1] = Entering(code.main, scope)
    BY <2>1, <<Entering(code.main, scope)>> \in Seq({Entering(code.main, scope)}), SeqIsSeq
  <2>6. DOMAIN frames' = 1..1 /\ frames' # <<>>
    BY <2>5, IsSeqDomain
  <2>7. TypeOK'
    <3>1. \A i \in DOMAIN frames' : FrameTypeOK(frames'[i])
      BY <2>4, <2>5, <2>6
    <3> QED
      BY <2>2, <2>5, <2>6, <3>1 DEF IInv, TypeOK, FrameTypeOK, Runs
  <2>8. Balanced'
    <3>1. Top' = Entering(code.main, scope)
      BY <2>5 DEF Top, Final
    <3> QED
      BY <2>2, <2>3, <2>5, <3>1 DEF Balanced, FramesOK, FrameOK, Annotation
  <2>9. CallDepthOK'
    BY <2>2, <2>5 DEF IInv, CallDepthOK
  <2> QED
    BY <2>7, <2>8, <2>9 DEF IInv
<1>5. CASE Finish
  BY <1>5, Unmoved DEF Finish, At
<1>6. CASE CatchTry
  <2>1. /\ Len(frames) > 1 /\ frames' = Resume(ErrV(status[3]))
        /\ depth' = depth - 1 /\ UNCHANGED <<prog, code>>
    BY <1>6 DEF CatchTry
  <2> QED
    BY <2>1, Resumed
<1>7. CASE Unwind
  <2> DEFINE c == frames[Len(frames) - 1]
  <2>1. /\ Len(frames) > 1 /\ frames' = Butlast(frames) /\ depth' = depth - 1
        /\ UNCHANGED <<prog, code, status>>
    BY <1>7 DEF Unwind
  <2>2. status' # Running
    <3>1. status[1] = "raise"
      BY <1>7 DEF Unwind, Raising
    <3> QED
      BY <2>1, <3>1 DEF Running
  <2>3. IsSeq(frames) /\ Len(frames) \in Nat \ {0} /\ DOMAIN frames = 1..Len(frames)
    BY SomeFrames
  <2>4. /\ IsSeq(frames') /\ Len(frames') = Len(frames) - 1
        /\ \A i \in 1..(Len(frames) - 1) : frames'[i] = frames[i]
    <3>1. Len(frames) - 1 \in 0..Len(frames)
      BY <2>3
    <3> QED
      BY <2>1, <2>3, <3>1, IsSeqPrefix DEF Butlast
  <2>5. Len(frames) - 1 \in DOMAIN frames
    BY <2>1, <2>3
  <2>6. FrameTypeOK(c)
    BY <2>5 DEF IInv, TypeOK
  <2>7. frames'[Len(frames) - 1] = c
    BY <2>1, <2>3, <2>4
  <2>8. \A i \in 1..(Len(frames) - 2) : frames'[i] = frames[i]
    BY <2>3, <2>4
  <2> HIDE DEF c
  <2> QED
    BY <2>1, <2>2, <2>4, <2>6, <2>7, <2>8, CallLeft
<1>8. CASE Abort
  <2>1. UNCHANGED <<prog, code, frames, depth>>
    BY <1>8 DEF Abort
  <2>2. status'[1] = "fault"
    BY <1>8 DEF Abort
  <2>3. status' # Running
    BY <2>2 DEF Running
  <2> QED
    BY <2>1, <2>3, Unmoved
<1> QED
  BY <1>1, <1>2, <1>3, <1>4, <1>5, <1>6, <1>7, <1>8 DEF CallOp

-----------------------------------------------------------------------------
(* The theorems. *)

\* The top-level chunk is entered at its annotation, outside every call.
LEMMA InitIInv ==
    ASSUME CodeVerified, Init
    PROVE  IInv
<1>1. /\ prog \in DOMAIN Programs /\ code = Programs[prog]
      /\ frames = <<Entering(0, Global)>>
      /\ depth = 0
  BY DEF Init, Runs
<1>2. Verified(code, Annotation)
  BY <1>1 DEF CodeVerified, Annotation
<1>3. 0 \in 0..Len(code.fns)
  BY <1>2 DEF Verified
<1>4. FrameOK(Entering(0, Global), Annotation, 0)
  BY <1>2, <1>3, EnteringAnnotated
<1>5. FrameTypeOK(Entering(0, Global))
  BY <1>2, <1>3, EnteringAnnotated
<1>6. IsSeq(frames) /\ Len(frames) = 1 /\ frames[1] = Entering(0, Global)
  BY <1>1, <<Entering(0, Global)>> \in Seq({Entering(0, Global)}), SeqIsSeq
<1>7. DOMAIN frames = 1..1 /\ frames # <<>>
  BY <1>6, IsSeqDomain
<1>8. TypeOK
  <2>1. \A i \in DOMAIN frames : FrameTypeOK(frames[i])
    BY <1>5, <1>6, <1>7
  <2> QED
    BY <1>1, <1>6, <1>7, <2>1 DEF TypeOK, Runs
<1>9. Balanced
  <2>1. Top = Entering(0, Global)
    BY <1>6 DEF Top, Final
  <2> QED
    BY <1>4, <1>6, <2>1 DEF Balanced, FramesOK, Annotation
<1>10. CallDepthOK
  BY <1>1, <1>6, MaxCallDepthAssumption DEF CallDepthOK
<1> QED
  BY <1>8, <1>9, <1>10 DEF IInv

\* Every step keeps the invariant: one lemma per family of ops.
LEMMA NextIInv ==
    ASSUME CodeVerified, IInv, [Next]_vars
    PROVE  IInv'
<1>1. CASE DataOp
  BY <1>1, DataOpStep
<1>2. CASE ScopeOp
  BY <1>2, ScopeOpStep
<1>3. CASE FlowOp
  BY <1>3, FlowOpStep
<1>4. CASE CallOp
  BY <1>4, CallOpStep
<1>5. CASE Gone \/ UNCHANGED vars
  BY <1>5, Unmoved DEF Gone, vars
<1> QED
  BY <1>1, <1>2, <1>3, <1>4, <1>5 DEF Next

\* At its annotation, an op finds all that it takes.
LEMMA StackSafeIInv ==
    ASSUME CodeVerified, IInv
    PROVE  StackSafe
<1>1. SUFFICES ASSUME status = Running
               PROVE  /\ Top.ip \in DOMAIN Chunk(Top.chunk).ops
                      /\ Takes(Op) <= Len(Top.stack)
                      /\ Op.op \in {"ForNext", "PopIter"} => Len(Top.iters) > 0
                      /\ Len(Top.scopes) > 0
                      /\ Op.op = "CallUser" => Op.fn \in 1..Len(code.fns)
  BY DEF StackSafe
<1>2. Top.ip \in 1..Len(Chunk(Top.chunk).ops)
  BY <1>1, Annotated
<1> QED
  BY <1>1, Annotated

\* The invariants of HehVerify are inductive together, whatever the programs,
\* the call depth allowed and the answers of the evaluator (exec_chunk).
THEOREM Invariance ==
    ASSUME CodeVerified
    PROVE  Spec => []IInv
<1>1. Init => IInv
  BY InitIInv
<1>2. IInv /\ [Next]_vars => IInv'
  BY NextIInv
<1> QED
  BY <1>1, <1>2, PTL DEF Spec

\* The frames are always live activations of the program's own chunks.
THEOREM TypeCorrect ==
    ASSUME CodeVerified
    PROVE  Spec => []TypeOK
<1>1. IInv => TypeOK
  BY DEF IInv
<1> QED
  BY <1>1, Invariance, PTL

\* Every frame has the operands, iterators and scopes its instruction expects, one
\* operand less while it waits for a call: at a join of branches, behind a loop left by
\* break, in a caller that a fault or a propagated error comes back to.
THEOREM HeightsKept ==
    ASSUME CodeVerified
    PROVE  Spec => []Balanced
<1>1. IInv => Balanced
  BY DEF IInv
<1> QED
  BY <1>1, Invariance, PTL

\* No op of verified code finds an operand, an iterator, a scope or a function
\* missing: none of the unwraps of exec_chunk panics, after whatever sequence of
\* calls, faults, loop exits and returns.
THEOREM NoPanic ==
    ASSUME CodeVerified
    PROVE  Spec => []StackSafe
<1>1. IInv => StackSafe
  BY StackSafeIInv
<1> QED
  BY <1>1, Invariance, PTL

\* Evaluator.call_depth counts the calls in progress and never passes the limit,
\* also where a fault or a propagated error leaves calls early.
THEOREM CallDepthCounted ==
    ASSUME CodeVerified
    PROVE  Spec => []CallDepthOK
<1>1. IInv => CallDepthOK
  BY DEF IInv
<1> QED
  BY <1>1, Invariance, PTL

-----------------------------------------------------------------------------
(* What the compiler emits. *)

\* Every program is what the compiler makes of a file that the checker lets
\* through (main.rs: check, then compile, then run).
ProgramsCompiled ==
    \A p \in DOMAIN Programs :
        \E file, outer : IsFile(file, outer) /\ Programs[p] = Compile(file)

\* Heights says the heights of a program that has some.
HeightsChosen ==
    \A p \in DOMAIN Programs :
        (\E H : Verified(Programs[p], H)) => Verified(Programs[p], Heights[p])

\* There are such heights, whatever the programs are.
LEMMA HeightsExist ==
    \E heights : \A p \in DOMAIN Programs :
        (\E H : Verified(Programs[p], H)) => Verified(Programs[p], heights[p])
<1>1. PICK heights : heights = [p \in DOMAIN Programs |-> CHOOSE H : Verified(Programs[p], H)]
  OBVIOUS
<1>2. ASSUME NEW p \in DOMAIN Programs, \E H : Verified(Programs[p], H)
      PROVE  Verified(Programs[p], heights[p])
  <2>1. heights[p] = CHOOSE H : Verified(Programs[p], H)
    BY <1>1
  <2> QED
    BY <1>2, <2>1
<1> QED
  BY <1>2

\* Every compiled program is verified code (compile.rs).
LEMMA CompiledCodeVerified ==
    ASSUME ProgramsCompiled, HeightsChosen
    PROVE  CodeVerified
<1>1. ASSUME NEW p \in DOMAIN Programs
      PROVE  Verified(Programs[p], Heights[p])
  <2>1. PICK file, outer : IsFile(file, outer) /\ Programs[p] = Compile(file)
    BY DEF ProgramsCompiled
  <2>2. \E H : Verified(Compile(file), H)
    BY <2>1, CompiledVerified
  <2> QED
    BY <2>1, <2>2 DEF HeightsChosen
<1> QED
  BY <1>1 DEF CodeVerified

\* The code that runs fits its annotation, for every file that the checker lets
\* through: whichever way control reaches an instruction, through branches,
\* loops, breaks out of narrowed blocks or arms of a match, it finds the same
\* operands, iterators and scopes (compile.rs).
THEOREM CompiledCodeFits ==
    ASSUME ProgramsCompiled, HeightsChosen
    PROVE  Spec => []CodeFits
<1>1. CodeVerified
  BY CompiledCodeVerified
<1>2. TypeOK => CodeFits
  BY <1>1 DEF TypeOK, Runs, CodeVerified, CodeFits
<1>3. Spec => []TypeOK
  BY <1>1, TypeCorrect, PTL
<1> QED
  BY <1>2, <1>3, PTL

\* No op of a compiled program panics: compiler and VM together keep every
\* operand, iterator, scope and function in place that exec_chunk unwraps.
THEOREM CompiledStackSafe ==
    ASSUME ProgramsCompiled, HeightsChosen
    PROVE  Spec => []StackSafe
<1>1. CodeVerified
  BY CompiledCodeVerified
<1> QED
  BY <1>1, NoPanic, PTL
=============================================================================
