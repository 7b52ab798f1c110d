------------------------------- MODULE HehVM -------------------------------
(***************************************************************************)
(* The stack VM (vm.rs) as a state machine: one action per op, or per      *)
(* family of ops that move the frame alike.                                *)
(*                                                                         *)
(* A frame is one activation of exec_chunk: its chunk (0 is the top-level  *)
(* chunk, i the i-th function), its instruction pointer (from 1), operand  *)
(* stack, iterators and open block scopes.  The frames stand for the Rust  *)
(* stack.  A frame that has called another already points past the call,   *)
(* waiting for the result.                                                 *)
(*                                                                         *)
(* An op whose operands are missing panics in the code (`unwrap` on None)  *)
(* and is not enabled here; HehVerify!StackSafe says it never happens.     *)
(***************************************************************************)
EXTENDS HehValues

CONSTANTS
    Programs,       \* the compiled programs to run, a function over their ids
    MaxCallDepth,   \* MAX_CALL_DEPTH
    \* Call a value that is not a function known to the compiler with arguments
    \* and their names, in a heap and at a call depth: the shared evaluator's
    \* apply_callee.
    ApplyInEvaluator(_, _, _, _, _)

ASSUME MaxCallDepthAssumption == MaxCallDepth \in Nat

VARIABLES
    prog,    \* the id of the program running
    code,    \* and its code, Programs[prog]
    frames,
    heap,
    depth,   \* Evaluator.call_depth
    status   \* <<"run">>, <<"raise", code, msg>>, <<"done">>,
             \* <<"fault", code>>, <<"exit">> or <<"hang">>

vars == <<prog, code, frames, heap, depth, status>>

Running == <<"run">>

Chunk(i) == IF i = 0 THEN code.top ELSE code.fns[i]

Frame(i, ip, stack, iters, scopes) ==
    [chunk |-> i, ip |-> ip, stack |-> stack, iters |-> iters, scopes |-> scopes]

\* A frame about to run chunk i in a scope of its own.
Entering(i, scope) == Frame(i, 1, <<>>, <<>>, <<scope>>)

Final(s) == s[Len(s)]
Top      == Final(frames)
Op       == Chunk(Top.chunk).ops[Top.ip]
At(ops)  == status = Running /\ Op.op \in ops
Scope    == Final(Top.scopes)

\* The n-th operand from the top of the stack, the stack without its n top
\* operands, and those operands in push order.
Operand(n) == Top.stack[Len(Top.stack) + 1 - n]
Below(n)   == SubSeq(Top.stack, 1, Len(Top.stack) - n)
Args(n)    == SubSeq(Top.stack, Len(Top.stack) - n + 1, Len(Top.stack))

\* The top frame at ip, with the given operands, iterators and scopes.
Moved(ip, stack, iters, scopes) == Frame(Top.chunk, ip, stack, iters, scopes)
Stacked(ip, stack)              == Moved(ip, stack, Top.iters, Top.scopes)
Iterating(ip, iters)            == Moved(ip, Top.stack, iters, Top.scopes)
Scoped(scopes)                  == Moved(Top.ip + 1, Top.stack, Top.iters, scopes)

Replace(frame) == frames' = [frames EXCEPT ![Len(frames)] = frame]

Butlast(s) == SubSeq(s, 1, Len(s) - 1)

\* What a result that is no value does to the VM.
Signal(r) == IF r.tag = "diag" THEN <<"raise", r.v[1], r.v[2]>> ELSE <<r.tag>>

\* An op that takes n operands and computes r: on a value, the frame becomes
\* frame(value); otherwise the op returns the diagnostic.
Compute(r, frame(_)) ==
    /\ heap' = r.h
    /\ IF r.tag = "val"
       THEN Replace(frame(r.v)) /\ UNCHANGED status
       ELSE status' = Signal(r) /\ UNCHANGED frames
    /\ UNCHANGED <<prog, code, depth>>

\* ... and pushes the value, or pushes nothing.
Push(r, n) ==
    Compute(r, LAMBDA v : Stacked(Top.ip + 1, Append(Below(n), v)))
Consume(r, n) ==
    Compute(r, LAMBDA v : Stacked(Top.ip + 1, Below(n)))

-----------------------------------------------------------------------------
(* Operands and variables. *)

PushConst == At({"PushConst"}) /\ Push(Val(heap, Op.v), 0)

Pop == At({"Pop"}) /\ Consume(Val(heap, NoneV), 1)

Load == At({"Load"}) /\ Push(Val(heap, Resolve(heap, Scope, Op.n)), 0)

DefineVar ==
    /\ At({"Define"})
    /\ Consume(Val(Define(heap, Scope, Op.n, Operand(1), Op.mut), NoneV), 1)

AssignVar == At({"Assign"}) /\ Consume(SetVar(heap, Scope, Op.n, Operand(1)), 1)

OpAssign ==
    /\ At({"OpAssign"})
    /\ LET cur == Lookup(heap, Scope, Op.n)
           res == BinOp(heap, Op.b, cur, Operand(1))
       IN  Consume(IF ~Defined(heap, Scope, Op.n) THEN Diag(heap, "E0103")
                   ELSE IF res.tag # "val" THEN res
                   ELSE SetVar(heap, Scope, Op.n, res.v), 1)

Binop == At({"Binop"}) /\ Push(BinOp(heap, Op.b, Operand(2), Operand(1)), 2)

Unop == At({"Unop"}) /\ Push(UnOp(heap, Op.u, Operand(1)), 1)

ToBool == At({"ToBool"}) /\ Push(ExpectBool(heap, Operand(1)), 1)

MakeList == At({"MakeList"}) /\ Push(NewList(heap, Args(Op.n)), Op.n)

\* The operands of a map are keys and values by turns.
MakeMap == At({"MakeMap"}) /\ Push(NewMap(heap, Args(Op.n)), Op.n)

MakeRecord ==
    At({"MakeRecord"}) /\ Push(NewRecord(heap, Op.name, Op.ns, Args(Op.n)), Op.n)

ConcatStr == At({"ConcatStr"}) /\ Push(Val(heap, Concat(Args(Op.n))), Op.n)

WrapValue == At({"Wrap"}) /\ Push(Val(heap, Wrap(Op.ctor, Operand(1))), 1)

\* Dup and Dup2 copy the top n operands.
Dup ==
    /\ At({"Dup"})
    /\ Replace(Stacked(Top.ip + 1, Top.stack \o Args(Op.n)))
    /\ UNCHANGED <<prog, code, heap, depth, status>>

Field == At({"Field"}) /\ Push(FieldGet(heap, Operand(1), Op.n), 1)

Index == At({"Index"}) /\ Push(IndexGet(heap, Operand(2), Operand(1)), 2)

SetField ==
    At({"SetField"}) /\ Consume(FieldSet(heap, Operand(2), Op.n, Operand(1)), 2)

SetIndex ==
    /\ At({"SetIndex"})
    /\ Consume(IndexSet(heap, Operand(3), Operand(2), Operand(1)), 3)

MakeClosure == At({"MakeClosure"}) /\ Push(Val(heap, FnV(Op.ps, Op.body, Scope)), 0)

Try == At({"Try"}) /\ Push(TryValue(heap, Operand(1), Op.exits), 1)

-----------------------------------------------------------------------------
(* Block scopes. *)

PushScope ==
    /\ At({"PushScope"})
    /\ heap' = NewScope(heap, Scope)
    /\ Replace(Scoped(Append(Top.scopes, LastScope(heap'))))
    /\ UNCHANGED <<prog, code, depth, status>>

\* Vec::truncate keeps at most n elements.
Truncate(s, n) == IF n < Len(s) THEN SubSeq(s, 1, n) ELSE s

CloseScopes(n) ==
    /\ Replace(Scoped(Truncate(Top.scopes, n)))
    /\ UNCHANGED <<prog, code, heap, depth, status>>

PopScope == At({"PopScope"}) /\ CloseScopes(Len(Top.scopes) - 1)

\* A bug to detect: the function's own scope is not counted.
TruncOwnScope == At({"TruncScopes"}) /\ CloseScopes(Op.n)

TruncScopes == At({"TruncScopes"}) /\ CloseScopes(Op.n + 1)

NarrowOption ==
    /\ At({"NarrowOption"})
    /\ Consume(Val(Narrow(heap, Scope, Op.n), NoneV), 0)

-----------------------------------------------------------------------------
(* Jumps, loops and match. *)

Jump ==
    /\ At({"Jump"})
    /\ Replace(Stacked(Op.t, Top.stack))
    /\ UNCHANGED <<prog, code, heap, depth, status>>

\* JumpIfFalse and TestBoolJumpFalse; TestBoolJumpTrue jumps when `on` holds.
Branch ==
    /\ At({"Branch"})
    /\ Compute(ExpectBool(heap, Operand(1)),
               LAMBDA v : Stacked(IF v = BoolV(Op.on) THEN Op.t ELSE Top.ip + 1,
                                  Below(1)))

ForStart ==
    /\ At({"ForStart"})
    /\ Compute(Iterator(heap, Operand(1)),
               LAMBDA it : Moved(Top.ip + 1, Below(1), Append(Top.iters, it), Top.scopes))

\* The iterator advances before the body runs.
ForNext ==
    /\ At({"ForNext"})
    /\ LET it == Final(Top.iters) IN
       /\ HasItem(it)
       /\ heap' = Define(heap, Scope, Op.n, Item(it), FALSE)
       /\ Replace(Iterating(Top.ip + 1, [Top.iters EXCEPT ![Len(Top.iters)] = Advance(it)]))
    /\ UNCHANGED <<prog, code, depth, status>>

\* A bug to detect: an exhausted loop keeps its iterator.
ForEndKeepsIterator ==
    /\ At({"ForNext"})
    /\ ~HasItem(Final(Top.iters))
    /\ Replace(Stacked(Op.t, Top.stack))
    /\ UNCHANGED <<prog, code, heap, depth, status>>

ForEnd ==
    /\ At({"ForNext"})
    /\ ~HasItem(Final(Top.iters))
    /\ Replace(Iterating(Op.t, Butlast(Top.iters)))
    /\ UNCHANGED <<prog, code, heap, depth, status>>

PopIter ==
    /\ At({"PopIter"})
    /\ Replace(Iterating(Top.ip + 1, Butlast(Top.iters)))
    /\ UNCHANGED <<prog, code, heap, depth, status>>

\* The scrutinee stays on the stack whether the pattern matches it or not.
MatchArm ==
    /\ At({"MatchArm"})
    /\ IF Matches(Op.pat, Operand(1), heap)
       THEN /\ heap' = BindPattern(heap, Scope, Op.pat, Operand(1))
            /\ Replace(Stacked(Top.ip + 1, Top.stack))
       ELSE /\ Replace(Stacked(Op.t, Top.stack))
            /\ UNCHANGED heap
    /\ UNCHANGED <<prog, code, depth, status>>

MatchFail == At({"MatchFail"}) /\ Consume(Diag(heap, "E0020"), 0)

-----------------------------------------------------------------------------
(* Calls, returns and unwinding. *)

CallUserFault(i, argc) ==
    CASE Len(Chunk(i).ps) # argc -> "E0109"
      [] depth >= MaxCallDepth /\ Len(Chunk(i).ps) = argc -> "E0202"
      [] OTHER -> ""

CallUser ==
    /\ At({"CallUser"})
    /\ LET fault  == CallUserFault(Op.fn, Op.n)
           called == NewScope(heap, Global)
           caller == Stacked(Top.ip + 1, Below(Op.n))
           callee == Entering(Op.fn, LastScope(called))
       IN  IF fault # ""
           THEN /\ status' = <<"raise", fault, "">>
                /\ UNCHANGED <<frames, heap, depth>>
           ELSE /\ heap' = DefineAll(called, LastScope(called),
                                     Chunk(Op.fn).ps, Args(Op.n))
                /\ frames' = Append([frames EXCEPT ![Len(frames)] = caller], callee)
                /\ depth' = depth + 1
                /\ UNCHANGED status
    /\ UNCHANGED <<prog, code>>

CallValue ==
    /\ At({"CallValue"})
    /\ Push(ApplyInEvaluator(heap, Operand(Op.n + 1), Args(Op.n), Op.names, depth),
            Op.n + 1)

\* The frame below the top one, given v as the result it waits for.
Resume(v) ==
    LET c == frames[Len(frames) - 1] IN
    [Butlast(frames) EXCEPT ![Len(frames) - 1] =
        Frame(c.chunk, c.ip, Append(c.stack, v), c.iters, c.scopes)]

ReturnToCaller ==
    /\ At({"Return"})
    /\ Len(frames) > 1
    /\ frames' = Resume(IF Top.stack = <<>> THEN NoneV ELSE Operand(1))
    /\ depth' = depth - 1
    /\ UNCHANGED <<prog, code, heap, status>>

\* The top-level chunk is done: main runs, given sys if it takes a parameter.
StartMain ==
    /\ At({"Return"})
    /\ Len(frames) = 1 /\ Top.chunk = 0 /\ code.main # 0
    /\ heap' = LET h == NewScope(heap, Global)
                   ps == Chunk(code.main).ps
               IN  IF ps = <<>> THEN h
                   ELSE Define(h, LastScope(h), ps[1], Lookup(h, Global, "sys"), FALSE)
    /\ frames' = <<Entering(code.main, LastScope(heap'))>>
    /\ UNCHANGED <<prog, code, depth, status>>

Finish ==
    /\ At({"Return"})
    /\ Len(frames) = 1 /\ (Top.chunk # 0 \/ code.main = 0)
    /\ status' = <<"done">>
    /\ UNCHANGED <<prog, code, frames, heap, depth>>

Raising == status[1] = "raise"

\* A bug to detect: a propagated error leaves its call counted.
CatchKeepsDepth ==
    /\ Raising /\ status[2] = "E_TRY_PROPAGATE"
    /\ Len(frames) > 1
    /\ frames' = Resume(ErrV(status[3]))
    /\ status' = Running
    /\ UNCHANGED <<prog, code, heap, depth>>

\* A propagated error becomes the err(..) its function returns.
CatchTry ==
    /\ Raising /\ status[2] = "E_TRY_PROPAGATE"
    /\ Len(frames) > 1
    /\ frames' = Resume(ErrV(status[3]))
    /\ depth' = depth - 1
    /\ status' = Running
    /\ UNCHANGED <<prog, code, heap>>

\* Every other diagnostic leaves the callee and goes on in its caller.
Unwind ==
    /\ Raising /\ status[2] # "E_TRY_PROPAGATE"
    /\ Len(frames) > 1
    /\ frames' = Butlast(frames)
    /\ depth' = depth - 1
    /\ UNCHANGED <<prog, code, heap, status>>

\* A bug to detect: a propagation that leaves main is reported as it is.
AbortAsRaised ==
    /\ Raising
    /\ Len(frames) = 1
    /\ status' = <<"fault", status[2]>>
    /\ UNCHANGED <<prog, code, frames, heap, depth>>

\* A propagation that leaves main is E0114; one that leaves the top level is
\* reported as it is.
Abort ==
    /\ Raising
    /\ Len(frames) = 1
    /\ status' = IF /\ Top.chunk # 0
                    /\ status[2] \in {"E_TRY_PROPAGATE", "E_TRY_PROPAGATE_NONE"}
                 THEN <<"fault", "E0114">>
                 ELSE <<"fault", status[2]>>
    /\ UNCHANGED <<prog, code, frames, heap, depth>>

-----------------------------------------------------------------------------
\* One of the programs runs.
Runs(programs) == prog \in DOMAIN programs /\ code = programs[prog]

Init ==
    /\ Runs(Programs)
    /\ frames = <<Entering(0, Global)>>
    /\ heap = InitialHeap(code.decls)
    /\ depth = 0
    /\ status = Running

DataOp  == \/ PushConst \/ Pop \/ Load \/ DefineVar \/ AssignVar \/ OpAssign
           \/ Binop \/ Unop \/ ToBool \/ MakeList \/ MakeMap \/ MakeRecord \/ ConcatStr
           \/ WrapValue \/ Dup \/ Field \/ SetField \/ Index \/ SetIndex
           \/ MakeClosure \/ Try
ScopeOp == PushScope \/ PopScope \/ TruncScopes \/ NarrowOption
FlowOp  == \/ Jump \/ Branch \/ ForStart \/ ForNext \/ ForEnd \/ PopIter
           \/ MatchArm \/ MatchFail
CallOp  == \/ CallUser \/ CallValue \/ ReturnToCaller \/ StartMain \/ Finish
           \/ CatchTry \/ Unwind \/ Abort

Halted == status[1] \in {"done", "fault", "exit", "hang"}

\* The process is gone; only a panicked VM is stuck short of this.
Gone == Halted /\ UNCHANGED vars

Next == DataOp \/ ScopeOp \/ FlowOp \/ CallOp \/ Gone

Spec == Init /\ [][Next]_vars

\* The interpreter is one thread that runs until it halts: WF_vars(Next), with
\* ~Halted for ENABLED <<Next>>_vars, which TLC takes for ever to evaluate where
\* an op calls into the evaluator.
Fairness == []<>Halted \/ []<><<Next>>_vars
FairSpec == Spec /\ Fairness
=============================================================================
