---------------------------- MODULE HehTreeWalk ----------------------------
(***************************************************************************)
(* The tree-walking reference evaluator (eval.rs), as recursive operators  *)
(* over the syntax: h is the heap, s the scope, d the call depth.  The VM  *)
(* calls into it for closures and builtins (ApplyCallee).                  *)
(*                                                                         *)
(* Beside the endings of HehValues, a statement or a block ends "ret" with *)
(* a returned value, "brk" or "cont" (Flow in the source).                 *)
(***************************************************************************)
EXTENDS HehSyntax, HehValues, SequencesExt

CONSTANTS
    MaxCallDepth,  \* MAX_CALL_DEPTH
    MaxIter        \* a loop that starts more iterations than this hangs

\* Go on with f(heap, value) if r has a value, else end as r does.
Then(r, f(_, _)) == IF r.tag = "val" THEN f(r.h, r.v) ELSE r

RECURSIVE Eval(_, _, _, _), EvalAll(_, _, _, _), Exec(_, _, _, _), ExecAll(_, _, _, _),
          Elifs(_, _, _, _), WhileLoop(_, _, _, _, _), ForLoop(_, _, _, _, _, _),
          Arms(_, _, _, _, _), Element(_, _, _, _, _), MapItems(_, _, _, _)

\* The values of expressions, left to right, as a sequence.
EvalAll(es, h, s, d) ==
    IF es = <<>> THEN Val(h, <<>>)
    ELSE Then(EvalAll(Front(es), h, s, d), LAMBDA h1, vs :
            Then(Eval(Last(es), h1, s, d), LAMBDA h2, v : Val(h2, Append(vs, v))))

-----------------------------------------------------------------------------
(* Statements one after the other, and blocks. *)

\* The value is the last statement's.
ExecAll(body, h, s, d) ==
    IF body = <<>> THEN Val(h, NoneV)
    ELSE Then(ExecAll(Front(body), h, s, d), LAMBDA h1, v : Exec(Last(body), h1, s, d))

\* A block runs in a scope of its own.
Block(body, h, parent, d) == ExecAll(body, NewScope(h, parent), Len(h.scopes) + 1, d)

-----------------------------------------------------------------------------
(* Calls. *)

\* A value or a return is the result of a body; a break or continue is not.
Returned(r, stray) ==
    CASE r.tag \in {"val", "ret"}  -> Val(r.h, r.v)
      [] r.tag \in {"brk", "cont"} -> Diag(r.h, stray)
      [] OTHER -> r

\* Run a body with its parameters bound, as far as there are arguments.
Body(ps, body, env, args, h, d) ==
    LET called == NewScope(h, env)
        scope  == LastScope(called)
    IN  Block(body, DefineAll(called, scope, ps, args), scope, d)

Enter(ps, body, env, args, h, d) == Returned(Body(ps, body, env, args, h, d), "E0110")

\* A propagated error is what the function it leaves returns.
Caught(r) ==
    IF r.tag = "diag" /\ r.v[1] = "E_TRY_PROPAGATE" THEN Val(r.h, ErrV(r.v[2])) ELSE r

\* call_user: counts the call.
CallUserFn(f, args, h, d) ==
    IF Len(f[2]) # Len(args) THEN Diag(h, "E0109")
    ELSE IF d >= MaxCallDepth THEN Diag(h, "E0202")
    ELSE Caught(Enter(f[2], f[3], f[4], args, h, d + 1))

\* What a closure makes of each item, uncounted.
MapItems(f, items, h, d) ==
    IF items = <<>> THEN Val(h, <<>>)
    ELSE Then(MapItems(f, Front(items), h, d), LAMBDA h1, vs :
            Then(Enter(f[2], f[3], f[4], <<Last(items)>>, h1, d),
                 LAMBDA h2, v : Val(h2, Append(vs, v))))

\* The builtin map works on a snapshot of the list.
Builtin(n, args, h, d) ==
    IF n = "map" THEN Then(MapItems(args[2], h.lists[args[1][2]], h, d), NewList)
    ELSE LeafBuiltin(h, n, args)

\* order_call_args: which argument each parameter gets.  Named arguments stand
\* behind all others and name each remaining parameter once.
Places(ps, names) ==
    [i \in DOMAIN names |->
        IF names[i] = "" THEN i ELSE SelectInSeq(ps, LAMBDA p : p = names[i])]

InOrder(ps, names) ==
    /\ Len(names) = Len(ps)
    /\ \A i \in DOMAIN names : names[i] = "" => \A j \in 1..i : names[j] = ""
    /\ ToSet(Places(ps, names)) = DOMAIN ps

Ordered(ps, names, args) ==
    [p \in DOMAIN ps |-> args[SelectInSeq(Places(ps, names), LAMBDA q : q = p)]] @@ <<>>

CallNamed(f, args, names, h, d) ==
    IF names # <<>> /\ ~InOrder(f[2], names) THEN Diag(h, "E0109")
    ELSE CallUserFn(f, IF names = <<>> THEN args ELSE Ordered(f[2], names, args), h, d)

\* A name that is bound nowhere makes a variant or, of named arguments, a record.
Construct(n, args, names, h) ==
    IF names = <<>> THEN Val(h, EnumV(n, args))
    ELSE IF "" \in ToSet(names) THEN Diag(h, "E0106")
    ELSE NewRecord(h, n, names, args)

\* apply_callee, the VM's way into the evaluator: a method is looked up in the
\* global scope and called like any function, without the names of its arguments.
ApplyCallee(h, callee, args, names, d) ==
    LET bound  == Kind(callee) = "bound"
        target == IF bound THEN Resolve(h, Global, callee[3]) ELSE callee
        all    == IF bound THEN <<callee[2]>> \o args ELSE args
    IN  IF Kind(target) = "fn"
        THEN CallNamed(target, all, IF bound THEN <<>> ELSE names, h, d)
        ELSE IF Kind(target) = "builtin" THEN Builtin(target[2], all, h, d)
        ELSE IF Kind(callee) = "enum" /\ callee[3] = <<>>
        THEN Construct(callee[2], args, names, h)
        ELSE Diag(h, "E0111")

\* The evaluator's own call of a method: looked up from the scope of the call,
\* with no count, no arity check and no catch.
CallMethod(callee, args, h, s, d) ==
    LET method == Resolve(h, s, callee[3])
        all    == <<callee[2]>> \o args
    IN  IF Kind(method) = "fn" THEN Enter(method[2], method[3], method[4], all, h, d)
        ELSE IF Kind(method) = "builtin" THEN Builtin(method[2], all, h, d)
        ELSE Diag(h, "E0111")

\* A record made of named arguments: they are evaluated once more, up to one
\* that has no name.
EvalRecord(n, e, h, s, d) ==
    LET bare == SelectInSeq(e.names, LAMBDA m : m = "")
        es   == IF bare = 0 THEN e.es ELSE SubSeq(e.es, 1, bare - 1)
    IN  Then(EvalAll(es, h, s, d), LAMBDA h1, vs : Construct(n, vs, e.names, h1))

\* A call whose callee and arguments have the values vs.
EvalCall(e, vs, h, s, d) ==
    IF Kind(vs[1]) = "bound" THEN CallMethod(vs[1], Tail(vs), h, s, d)
    ELSE IF Kind(vs[1]) = "enum" /\ vs[1][3] = <<>> /\ e.names # <<>>
    THEN EvalRecord(vs[1][2], e, h, s, d)
    ELSE ApplyCallee(h, vs[1], Tail(vs), e.names, d)

-----------------------------------------------------------------------------
(* Expressions. *)

\* `and` and `or`: the left operand decides alone when it is `on`.
EvalLogic(e, h, s, d, on) ==
    Then(Then(Eval(e.l, h, s, d), ExpectBool), LAMBDA h1, b :
        IF b = BoolV(on) THEN Val(h1, b) ELSE Then(Eval(e.r, h1, s, d), ExpectBool))

\* What any other expression makes of the values of its operands.
EvalWith(e, vs, h, s, d) ==
    CASE e.k = "lit"     -> Val(h, e.v)
      [] e.k = "id"      -> Val(h, Resolve(h, s, e.n))
      [] e.k = "closure" -> Val(h, FnV(e.ps, e.body, s))
      [] e.k = "unary"   -> UnOp(h, e.op, vs[1])
      [] e.k = "field"   -> FieldGet(h, vs[1], e.f)
      [] e.k = "try"     -> TryValue(h, vs[1], e.exits)
      [] e.k = "binary"  -> BinOp(h, e.op, vs[1], vs[2])
      [] e.k = "index"   -> IndexGet(h, vs[1], vs[2])
      [] e.k = "list"    -> NewList(h, vs)
      [] e.k = "map"     -> NewMap(h, vs)
      [] e.k = "record"  -> NewRecord(h, e.n, e.ns, vs)
      [] e.k = "interp"  -> Val(h, Concat(vs))
      [] e.k = "call" /\ IsWrap(e)  -> Val(h, Wrap(e.callee.n, vs[1]))
      [] e.k = "call" /\ ~IsWrap(e) -> EvalCall(e, vs, h, s, d)

Eval(e, h, s, d) ==
    IF IsLogic(e) THEN EvalLogic(e, h, s, d, e.op = "or")
    ELSE Then(EvalAll(Operands(e), h, s, d), LAMBDA h1, vs : EvalWith(e, vs, h1, s, d))

-----------------------------------------------------------------------------
(* Statements. *)

\* The value of a step that is an index.
EvalStep(step, h, s, d) == EvalAll(IF IsStep(step) THEN <<>> ELSE <<step>>, h, s, d)

\* What obj[steps[1]].f.. denotes.
Element(obj, steps, h, s, d) ==
    IF steps = <<>> THEN Val(h, obj)
    ELSE Then(Element(obj, Front(steps), h, s, d), LAMBDA h1, o :
            Then(EvalStep(Last(steps), h1, s, d), LAMBDA h2, vs :
                IF IsStep(Last(steps)) THEN FieldGet(h2, o, Last(steps).f)
                ELSE IndexGet(h2, o, vs[1])))

SetElement(obj, step, v, h, s, d) ==
    Then(EvalStep(step, h, s, d), LAMBDA h1, vs :
        IF IsStep(step) THEN FieldSet(h1, obj, step.f, v) ELSE IndexSet(h1, obj, vs[1], v))

\* What a slot whose steps from obj are given is set to.
SlotValue(st, obj, steps, rhs, h, s, d) ==
    IF st.op = "" THEN Val(h, rhs)
    ELSE Then(Element(obj, steps, h, s, d), LAMBDA h1, cur : BinOp(h1, st.op, cur, rhs))

\* `name[i].f.. op= e`, e being evaluated already.  A compound assignment
\* evaluates the last index twice: to read the slot and to write it.
AssignTail(st, rhs, h, s, d) ==
    IF ~Defined(h, s, st.n) THEN Diag(h, "E0103")
    ELSE Then(Element(Lookup(h, s, st.n), Front(st.tail), h, s, d), LAMBDA h1, obj :
            Then(SlotValue(st, obj, <<Last(st.tail)>>, rhs, h1, s, d), LAMBDA h2, v :
                SetElement(obj, Last(st.tail), v, h2, s, d)))

AssignName(st, rhs, h, s) ==
    IF st.op = "" THEN SetVar(h, s, st.n, rhs)
    ELSE IF ~Defined(h, s, st.n) THEN Diag(h, "E0103")
    ELSE Then(BinOp(h, st.op, Lookup(h, s, st.n), rhs), LAMBDA h1, v : SetVar(h1, s, st.n, v))

ExecAssign(st, rhs, h, s, d) ==
    IF st.tail = <<>> THEN AssignName(st, rhs, h, s) ELSE AssignTail(st, rhs, h, s, d)

\* The condition c, which must be a bool, decides what runs.
Test(c, h, s, d) == Then(Eval(c, h, s, d), ExpectBool)

Elifs(st, h, s, d) ==
    IF st.elifs = <<>>
    THEN IF st.otherwise = <<>> THEN Val(h, NoneV) ELSE Block(st.otherwise[1], h, s, d)
    ELSE Then(Test(st.elifs[1].cond, h, s, d), LAMBDA h1, b :
            IF b = BoolV(TRUE) THEN Block(st.elifs[1].body, h1, s, d)
            ELSE Elifs([st EXCEPT !.elifs = Tail(@)], h1, s, d))

\* A name tested for presence is narrowed inside the then-block, in a scope
\* around it; one tested for absence, behind it.
ExecIf(st, b, h, s, d) ==
    LET x       == NoneTested(st.e)
        wraps   == Defined(h, s, x) /\ Kind(Lookup(h, s, x)) = "some"
        narrows == TestsPresence(st.e) /\ wraps
        around  == IF narrows THEN LastScope(h) + 1 ELSE s
    IN  IF b = BoolV(FALSE)
        THEN Elifs(st, IF TestsAbsence(st.e) THEN Narrow(h, s, x) ELSE h, s, d)
        ELSE Block(st.body, IF narrows THEN Narrow(NewScope(h, s), around, x) ELSE h, around, d)

\* A loop whose body ended as r goes on with again(r), ends, or ends what is
\* around it too.
Loops(r, again(_)) ==
    CASE r.tag \in {"val", "cont"} -> again(r)
      [] r.tag = "brk" -> Val(r.h, NoneV)
      [] OTHER -> r

WhileLoop(st, h, s, d, fuel) ==
    Then(Test(st.e, h, s, d), LAMBDA h1, b :
        IF b = BoolV(FALSE) THEN Val(h1, NoneV)
        ELSE IF fuel = 0 THEN Res(h1, "hang", NoneV)
        ELSE Loops(Block(st.body, h1, s, d),
                   LAMBDA r : WhileLoop(st, r.h, s, d, fuel - 1)))

\* Behind a body that ended as r a list loop goes to its next item; a range loop
\* has not counted yet when a `continue` ends the body, and runs the same number
\* again.
Following(it, r) == IF r.tag = "cont" /\ it.k = "range" THEN it ELSE Advance(it)

ForLoop(st, it, h, s, d, fuel) ==
    LET item == NewScope(h, s) IN
    IF ~HasItem(it) THEN Val(h, NoneV)
    ELSE IF fuel = 0 THEN Res(h, "hang", NoneV)
    ELSE Loops(Block(st.body, Define(item, LastScope(item), st.n, Item(it), FALSE),
                     LastScope(item), d),
               LAMBDA r : ForLoop(st, Following(it, r), r.h, s, d, fuel - 1))

Arms(arms, v, h, s, d) ==
    LET bound == NewScope(h, s) IN
    IF arms = <<>> THEN Diag(h, "E0020")
    ELSE IF Matches(arms[1].pat, v, h)
    THEN Block(arms[1].body, BindPattern(bound, LastScope(bound), arms[1].pat, v),
               LastScope(bound), d)
    ELSE Arms(Tail(arms), v, h, s, d)

\* A statement whose heads have the values vs.
ExecWith(st, vs, h, s, d) ==
    CASE st.k = "expr"   -> Val(h, vs[1])
      [] st.k = "let"    -> Val(Define(h, s, st.n, vs[1], st.mut), NoneV)
      [] st.k = "assign" -> ExecAssign(st, vs[1], h, s, d)
      [] st.k = "if"     -> Then(ExpectBool(h, vs[1]), LAMBDA h1, b : ExecIf(st, b, h1, s, d))
      [] st.k = "while"  -> WhileLoop(st, h, s, d, MaxIter)
      [] st.k = "for"    -> Then(Iterator(h, vs[1]), LAMBDA h1, it :
                                ForLoop(st, it, h1, s, d, MaxIter))
      [] st.k = "match"  -> Arms(st.arms, vs[1], h, s, d)
      [] st.k = "break"    -> Res(h, "brk", NoneV)
      [] st.k = "continue" -> Res(h, "cont", NoneV)
      [] st.k = "return"   -> Res(h, "ret", IF vs = <<>> THEN NoneV ELSE vs[1])

Exec(st, h, s, d) ==
    Then(EvalAll(Heads(st), h, s, d), LAMBDA h1, vs : ExecWith(st, vs, h1, s, d))

-----------------------------------------------------------------------------
\* How a run ends, in the VM's words.
Ending(r) ==
    CASE r.tag \in {"val", "ret"} -> <<"done">>
      [] r.tag \in {"brk", "cont"} -> <<"fault", "E0110">>
      [] r.tag = "diag" ->
            IF r.v[1] \in {"E_TRY_PROPAGATE", "E_TRY_PROPAGATE_NONE"}
            THEN <<"fault", "E0114">> ELSE <<"fault", r.v[1]>>
      [] r.tag \in {"exit", "hang"} -> <<r.tag>>

\* run_prepared: the top-level lets and then main, or a script.
RunPrepared(file, h) ==
    LET main == Lookup(h, Global, "main")
        lets == SelectSeq(file.tops, LAMBDA st : st.k = "let")
    IN  IF ~Defined(h, Global, "main") THEN ExecAll(file.tops, h, Global, 0)
        ELSE Then(ExecAll(lets, h, Global, 0), LAMBDA h1, v :
                Returned(Body(main[2], main[3], main[4], <<Lookup(h1, Global, "sys")>>, h1, 0),
                         "E0107"))

\* What a file does: the lines it prints and how it ends.
Outcome(r) == [out |-> r.h.out, ending |-> Ending(r)]

Meaning(file) == Outcome(RunPrepared(file, InitialHeap(file.fns)))
=============================================================================
