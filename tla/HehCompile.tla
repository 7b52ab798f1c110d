---------------------------- MODULE HehCompile ----------------------------
(***************************************************************************)
(* The compiler from the syntax to the VM's ops (compile.rs).  A compiler  *)
(* state c is the record [at, ops, loops, scopes, fns]: the ops emitted    *)
(* since address `at`, the loops open around them (each with where         *)
(* `continue` goes, the block scopes open at its entry and the jumps its   *)
(* `break`s emitted), the block scopes open here, and the index of each    *)
(* top-level function.  Addresses count from 1.  A jump is emitted with    *)
(* target 0 and patched.                                                   *)
(*                                                                         *)
(* The recursion over the syntax is over the depth of its nodes.  What a   *)
(* node adds depends on the code in front of it by its address only: its   *)
(* code starts empty, at that address; `parts` is the function from the    *)
(* nodes a construct is made of, and such a start, to their code.          *)
(***************************************************************************)
EXTENDS HehSyntax, SequencesExt

CONSTANTS
    Exprs, Stmts,   \* the nodes of the syntax trees: expressions, statements
    Depth(_)        \* the depth of a node: more than that of the nodes in it

\* A sequence of nodes of S that may be inside x.
Inside(x, nodes, S) == nodes \in Seq(S) /\ \A y \in Range(nodes) : Depth(y) < Depth(x)

\* An expression is made of expressions.  (A closure is none but its own: its
\* body stays syntax.)
ASSUME ExprAssumption ==
    \A e \in Exprs :
        /\ Depth(e) \in Nat \ {0}
        /\ e.k \in {"lit", "id", "closure", "unary", "field", "try", "binary", "index",
                    "list", "map", "record", "interp", "call"}
        /\ Inside(e, Operands(e), Exprs)
        /\ e.k = "call" => Inside(e, e.es, Exprs)

\* The blocks of a statement.
Blocks(s) ==
    CASE s.k \in {"while", "for"} -> {s.body}
      [] s.k = "match" -> {s.arms[i].body : i \in DOMAIN s.arms}
      [] s.k = "if" -> {s.body} \cup {s.elifs[i].body : i \in DOMAIN s.elifs}
                       \cup {s.otherwise[i] : i \in DOMAIN s.otherwise}
      [] OTHER -> {}

\* A statement is made of expressions and blocks of statements.
ASSUME StmtAssumption ==
    \A s \in Stmts :
        /\ Depth(s) \in Nat \ {0}
        /\ s.k \in {"expr", "let", "assign", "if", "for", "match", "return",
                    "while", "break", "continue"}
        /\ Heads(s) \in Seq(Exprs) /\ Len(Heads(s)) <= 1
        /\ \A block \in Blocks(s) : Inside(s, block, Stmts)
        /\ s.k = "while" => s.e \in Exprs
        /\ s.k = "assign" => s.tail \in Seq(Exprs \cup {x \in Range(s.tail) : IsStep(x)})
        /\ s.k = "if" => /\ s.elifs \in Seq(Range(s.elifs))
                         /\ \A elif \in Range(s.elifs) : elif.cond \in Exprs
                         /\ s.otherwise \in Seq(Range(s.otherwise)) /\ Len(s.otherwise) <= 1
        /\ s.k = "match" => s.arms \in Seq(Range(s.arms))

-----------------------------------------------------------------------------
Emit(c, op) == [c EXCEPT !.ops = Append(@, op)]

\* The address of the next op.
Here(c) == c.at + Len(c.ops) + 1

Patch(c, at, target) ==
    [c EXCEPT !.ops =
        [i \in DOMAIN @ |-> IF c.at + i \in at THEN [@[i] EXCEPT !.t = target] ELSE @[i]]]

OpOf(name)      == [op |-> name]
NameOp(name, n) == [op |-> name, n |-> n]
PushConstOp(v)  == [op |-> "PushConst", v |-> v]
JumpOp(t)       == [op |-> "Jump", t |-> t]
BranchOp(on)    == [op |-> "Branch", on |-> on, t |-> 0]

None == <<"none">>

Start(fns) == [at |-> 0, ops |-> <<>>, loops |-> <<>>, scopes |-> 0, fns |-> fns]

\* Let the jump at `at` lead here.
Close(c, at) == Patch(c, {at}, Here(c))

\* The states in which a node may be compiled, in a file with the functions fns,
\* and the one behind the code of c.
OpenLoop == [again : Nat, breaks : SUBSET Nat, scopes : Nat]

Fresh(fns) ==
    [at : Nat, ops : {<<>>}, loops : Seq(OpenLoop), scopes : Nat, fns : {fns}]

Behind(c) == [c EXCEPT !.at = @ + Len(c.ops), !.ops = <<>>]

\* The code of c and, behind it, that of d.
Join(c, d) == [d EXCEPT !.at = c.at, !.ops = c.ops \o @]

-----------------------------------------------------------------------------
(* Expressions. *)

SubExpr(parts, c, e) == Join(c, parts[e][Behind(c)])

SubExprs(parts, c, es) == FoldLeft(LAMBDA d, e : SubExpr(parts, d, e), c, es)

\* `and` and `or`: the left operand decides alone when it is `on`.
Decided(left, right, on) ==
    Close(Emit(Close(Emit(right, JumpOp(0)), Here(left)), PushConstOp(<<"bool", on>>)),
          Here(right))

CompileRight(parts, left, e, on) ==
    Decided(left, Emit(SubExpr(parts, Emit(left, BranchOp(on)), e), OpOf("ToBool")), on)

CompileLogic(parts, c, e, on) == CompileRight(parts, SubExpr(parts, c, e.l), e.r, on)

\* A name of a function is a direct call, whatever else the name means here.  A
\* named argument goes the general way.
IsDirect(c, e) ==
    /\ e.k = "call" /\ ~IsWrap(e)
    /\ e.callee.k = "id" /\ e.callee.n \in DOMAIN c.fns /\ e.names = <<>>

\* What makes the value of an expression of those of its operands.
ExprOp(e) ==
    CASE e.k = "lit"    -> PushConstOp(e.v)
      [] e.k = "id"     -> NameOp("Load", e.n)
      [] e.k = "binary" -> [op |-> "Binop", b |-> e.op]
      [] e.k = "unary"  -> [op |-> "Unop", u |-> e.op]
      [] e.k = "list"   -> NameOp("MakeList", Len(e.es))
      [] e.k = "map"    -> NameOp("MakeMap", Len(e.es))
      [] e.k = "record" -> [op |-> "MakeRecord", name |-> e.n, ns |-> e.ns, n |-> Len(e.es)]
      [] e.k = "interp" -> NameOp("ConcatStr", Len(e.es))
      [] e.k = "field"  -> NameOp("Field", e.f)
      [] e.k = "index"  -> OpOf("Index")
      [] e.k = "try"    -> [op |-> "Try", exits |-> e.exits]
      [] e.k = "closure" -> [op |-> "MakeClosure", ps |-> e.ps, body |-> e.body]
      [] e.k = "call" /\ IsWrap(e)  -> [op |-> "Wrap", ctor |-> e.callee.n]
      [] e.k = "call" /\ ~IsWrap(e) -> [op |-> "CallValue", n |-> Len(e.es), names |-> e.names]

ExprBody(parts, c, e) ==
    IF IsLogic(e) THEN CompileLogic(parts, c, e, e.op = "or")
    ELSE IF IsDirect(c, e)
    THEN Emit(SubExprs(parts, c, e.es),
              [op |-> "CallUser", fn |-> c.fns[e.callee.n], n |-> Len(e.es)])
    ELSE Emit(SubExprs(parts, c, Operands(e)), ExprOp(e))

\* The code of the expressions of depth at most n.
ExprCode(fns) ==
    LET parts[n \in Nat] ==
            IF n = 0 THEN <<>>
            ELSE [e \in Exprs |-> [c \in Fresh(fns) |-> ExprBody(parts[n - 1], c, e)]]
    IN  parts

\* The code of every expression.
CompileExpr(fns) == [e \in Exprs |-> ExprCode(fns)[Depth(e)][e]]

-----------------------------------------------------------------------------
(* Statements.  Their parts are expressions and statements: parts is the record *)
(* [exprs, stmts] of the code of both. *)

\* behind the code of what is returned, if anything is
CompileReturn(c, s) ==
    Emit(IF s.es = <<>> THEN Emit(c, PushConstOp(None)) ELSE c, OpOf("Return"))

\* These leave a value in value position; every other statement leaves none.
LeavesValue(s) == s.k \in {"expr", "return", "if", "match"}

\* Every statement of a block has its effect only, but the last one of a block
\* in value position.
SubStmt(parts, c, s, value) == Join(c, parts.stmts[s][value][Behind(c)])

SubStmts(parts, c, body) == FoldLeft(LAMBDA d, s : SubStmt(parts, d, s, FALSE), c, body)

CompileBlock(parts, c, body, value) ==
    IF ~value THEN SubStmts(parts, c, body)
    ELSE IF body # <<>> /\ LeavesValue(Last(body))
    THEN SubStmt(parts, SubStmts(parts, c, Front(body)), Last(body), TRUE)
    ELSE Emit(SubStmts(parts, c, body), PushConstOp(None))

\* The index of a step that has one.
CompileIndex(parts, c, step) ==
    IF IsStep(step) THEN c ELSE SubExpr(parts.exprs, c, step)

ReadOp(step)  == IF IsStep(step) THEN NameOp("Field", step.f) ELSE OpOf("Index")
WriteOp(step) == IF IsStep(step) THEN NameOp("SetField", step.f) ELSE OpOf("SetIndex")

CompileStep(parts, c, step) == Emit(CompileIndex(parts, c, step), ReadOp(step))

CompileSteps(parts, c, steps) ==
    FoldLeft(LAMBDA d, step : CompileStep(parts, d, step), c, steps)

\* A compound assignment reads the slot with copies of its container and index.
CompileRead(c, s, last) ==
    IF s.op = "" THEN c
    ELSE Emit(Emit(c, NameOp("Dup", IF IsStep(last) THEN 1 ELSE 2)), ReadOp(last))

Combined(c, s) == IF s.op = "" THEN c ELSE Emit(c, [op |-> "Binop", b |-> s.op])

CompileSlot(parts, c, s, last) ==
    Emit(Combined(SubExpr(parts.exprs, CompileRead(CompileIndex(parts, c, last), s, last), s.e),
                  s),
         WriteOp(last))

\* `name[i].f.. op= e`: the container and the index are evaluated once, before e.
CompileTailAssign(parts, c, s) ==
    CompileSlot(parts, CompileSteps(parts, Emit(c, NameOp("Load", s.n)), Front(s.tail)),
                s, Last(s.tail))

\* `name op= e`, behind the code of e
CompileAssign(c, s) ==
    Emit(c, IF s.op = "" THEN NameOp("Assign", s.n)
            ELSE [op |-> "OpAssign", n |-> s.n, b |-> s.op])

\* The then-block of a test for presence sees the unwrapped value in a scope
\* of its own.
OpenNarrowed(c, s) ==
    IF TestsPresence(s.e)
    THEN Emit([Emit(c, OpOf("PushScope")) EXCEPT !.scopes = @ + 1],
              NameOp("NarrowOption", NoneTested(s.e)))
    ELSE c

CloseNarrowed(c, s) ==
    IF TestsPresence(s.e) THEN Emit([c EXCEPT !.scopes = @ - 1], OpOf("PopScope")) ELSE c

CompileThen(parts, c, s, value) ==
    CloseNarrowed(CompileBlock(parts, OpenNarrowed(c, s), s.body, value), s)

\* An if or a match in the making: its code so far, the jumps to its end, and
\* whether its blocks leave a value.
Branches(c, value) == [c |-> c, ends |-> {}, value |-> value]

\* One more guarded block: the test at address `at` jumps behind the block when
\* it fails, and the block ends in a jump to the end of it all.
Guarded(acc, at, block) ==
    [acc EXCEPT !.c = Close(Emit(block, JumpOp(0)), at), !.ends = @ \cup {Here(block)}]

Joined(acc) == Patch(acc.c, acc.ends, Here(acc.c))

\* Behind a block that only runs when the name is none, it is not.
NarrowBehind(acc, s) ==
    IF TestsAbsence(s.e)
    THEN [acc EXCEPT !.c = Emit(@, NameOp("NarrowOption", NoneTested(s.e)))]
    ELSE acc

GuardedBy(parts, acc, test, body) ==
    Guarded(acc, Here(test), CompileBlock(parts, Emit(test, BranchOp(FALSE)), body, acc.value))

CompileElif(parts, acc, elif) ==
    GuardedBy(parts, acc, SubExpr(parts.exprs, acc.c, elif.cond), elif.body)

CompileElifs(parts, acc, elifs) ==
    FoldLeft(LAMBDA a, elif : CompileElif(parts, a, elif), acc, elifs)

CompileElse(parts, acc, s) ==
    [acc EXCEPT !.c = IF s.otherwise # <<>> THEN CompileBlock(parts, @, s.otherwise[1], acc.value)
                      ELSE IF acc.value THEN Emit(@, PushConstOp(None))
                      ELSE @]

CompileTested(parts, test, s, value) ==
    NarrowBehind(Guarded(Branches(test, value), Here(test),
                         CompileThen(parts, Emit(test, BranchOp(FALSE)), s, value)), s)

\* behind the code of its condition
CompileIf(parts, test, s, value) ==
    Joined(CompileElse(parts, CompileElifs(parts, CompileTested(parts, test, s, value), s.elifs), s))

\* Compile a loop body whose `continue` goes to `again`, then the jump back,
\* and leave the loop; its break jumps are the result's field breaks.
LoopClosed(inner, again) ==
    [c      |-> [Emit(inner, JumpOp(again)) EXCEPT !.loops = Front(@)],
     breaks |-> Last(inner.loops).breaks]

CompileBody(parts, c, body, again) ==
    LET loop == [again |-> again, breaks |-> {}, scopes |-> c.scopes] IN
    LoopClosed(CompileBlock(parts, [c EXCEPT !.loops = Append(@, loop)], body, FALSE), again)

WhileClosed(test, body) ==
    Patch(body.c, body.breaks \cup {Here(test)}, Here(body.c))

CompileWhileBody(parts, test, s, again) ==
    WhileClosed(test, CompileBody(parts, Emit(test, BranchOp(FALSE)), s.body, again))

CompileWhile(parts, c, s) ==
    CompileWhileBody(parts, SubExpr(parts.exprs, c, s.e), s, Here(c))

\* A break of a for lands on a PopIter; exhaustion has popped the iterator.
BreakOut(body) ==
    IF body.breaks = {} THEN body.c
    ELSE Emit(Patch(body.c, body.breaks, Here(body.c)), OpOf("PopIter"))

ForNextOp(n) == [op |-> "ForNext", n |-> n, t |-> 0]

\* A bug to detect: an exhausted for goes through the PopIter of its breaks.
ExhaustedPopsTwice(parts, start, s) ==
    BreakOut(CompileBody(parts, Emit(start, [ForNextOp(s.n) EXCEPT !.t = Here(start) + 2]),
                         s.body, Here(start)))

\* A bug to detect: the next round of a for starts behind its ForNext.
SameItemAgain(parts, start, s) ==
    Close(BreakOut(CompileBody(parts, Emit(start, ForNextOp(s.n)), s.body, Here(start) + 1)),
          Here(start))

CompileForBody(parts, start, s) ==
    Close(BreakOut(CompileBody(parts, Emit(start, ForNextOp(s.n)), s.body, Here(start))),
          Here(start))

CompileFor(parts, iterated, s) == CompileForBody(parts, Emit(iterated, OpOf("ForStart")), s)

\* An arm that does not match leaves the scrutinee for the next one.
MatchArmOp(pat) == [op |-> "MatchArm", pat |-> pat, t |-> 0]

CompileArm(parts, acc, arm) ==
    Guarded(acc, Here(acc.c),
            CompileBlock(parts, Emit(Emit(acc.c, MatchArmOp(arm.pat)), OpOf("Pop")), arm.body,
                         acc.value))

CompileArms(parts, acc, arms) == FoldLeft(LAMBDA a, arm : CompileArm(parts, a, arm), acc, arms)

MatchClosed(acc) == Joined([acc EXCEPT !.c = Emit(@, OpOf("MatchFail"))])

CompileMatch(parts, scrutinee, s, value) ==
    MatchClosed(CompileArms(parts, Branches(scrutinee, value), s.arms))

\* A bug to detect: leaving a loop forgets the block scopes it leaves.
LeaveScopesOpen(c) == c

\* Leaving the loop body restores the scopes open at the loop's entry.
CompileLeave(c) ==
    LET entry == Last(c.loops).scopes IN
    IF c.scopes > entry THEN Emit(c, NameOp("TruncScopes", entry)) ELSE c

CompileBreak(c) ==
    LET left == CompileLeave(c) IN
    Emit([left EXCEPT !.loops[Len(left.loops)].breaks = @ \cup {Here(left)}], JumpOp(0))

CompileContinue(c) == Emit(CompileLeave(c), JumpOp(Last(c.loops).again))

\* A statement behind the code of what it evaluates first.
CompileBehind(parts, head, s, value) ==
    CASE s.k = "expr"   -> IF value THEN head ELSE Emit(head, OpOf("Pop"))
      [] s.k = "let"    -> Emit(head, [op |-> "Define", n |-> s.n, mut |-> s.mut])
      [] s.k = "assign" -> CompileAssign(head, s)
      [] s.k = "if"     -> CompileIf(parts, head, s, value)
      [] s.k = "for"    -> CompileFor(parts, head, s)
      [] s.k = "match"  -> CompileMatch(parts, head, s, value)
      [] s.k = "return" -> CompileReturn(head, s)

CompileHead(parts, c, s) ==
    IF Heads(s) = <<>> THEN c ELSE SubExpr(parts.exprs, c, Heads(s)[1])

StmtBody(parts, c, s, value) ==
    CASE s.k = "while"    -> CompileWhile(parts, c, s)
      [] s.k = "break"    -> CompileBreak(c)
      [] s.k = "continue" -> CompileContinue(c)
      [] s.k = "assign" /\ s.tail # <<>> -> CompileTailAssign(parts, c, s)
      [] OTHER -> CompileBehind(parts, CompileHead(parts, c, s), s, value)

\* The code of the statements of depth at most n.
StmtCode(exprs, fns) ==
    LET stmts[n \in Nat] ==
            IF n = 0 THEN <<>>
            ELSE [s \in Stmts |-> [value \in BOOLEAN |-> [c \in Fresh(fns) |->
                      StmtBody([exprs |-> exprs, stmts |-> stmts[n - 1]], c, s, value)]]]
    IN  stmts

\* The code of every statement.
CompileStmt(exprs, fns) == [s \in Stmts |-> StmtCode(exprs, fns)[Depth(s)][s]]

CompileParts(exprs, fns) == [exprs |-> exprs, stmts |-> CompileStmt(exprs, fns)]

-----------------------------------------------------------------------------
\* Every chunk ends in a Return.
Finished(ps, c) == [ps |-> ps, ops |-> Emit(c, OpOf("Return")).ops]

\* Each function's index, by its name.
FnIndex(fns) ==
    [n \in {fns[i].n : i \in DOMAIN fns} |-> CHOOSE i \in DOMAIN fns : fns[i].n = n]

CompileFn(parts, index, fn) ==
    Finished(fn.ps, CompileBlock(parts, Start(index), fn.body, TRUE))

\* A file with a main keeps only its top-level lets; without one it is a script.
CompileItem(parts, c, s) ==
    IF s.k = "let" \/ "main" \notin DOMAIN c.fns THEN SubStmt(parts, c, s, FALSE) ELSE c

CompileItems(parts, c, tops) == FoldLeft(LAMBDA d, s : CompileItem(parts, d, s), c, tops)

CompileTop(parts, index, tops) == Finished(<<>>, CompileItems(parts, Start(index), tops))

CompileFile(parts, index, file) ==
    [fns   |-> [i \in DOMAIN file.fns |-> CompileFn(parts, index, file.fns[i])],
     main  |-> IF "main" \in DOMAIN index THEN index["main"] ELSE 0,
     top   |-> CompileTop(parts, index, file.tops),
     decls |-> file.fns]

CompileWith(index, file) == CompileFile(CompileParts(CompileExpr(index), index), index, file)

Compile(file) == CompileWith(FnIndex(file.fns), file)

-----------------------------------------------------------------------------
\* Statements that no loop need be around: none leaves one.
OutsideLoops(outer) ==
    \A s \in outer :
        /\ s.k \notin {"break", "continue"}
        /\ s.k \in {"if", "match"} => \A block \in Blocks(s) : block \in Seq(outer)

\* What reaches the compiler: the checker refuses a file with a `break` or a
\* `continue` outside of loops (E0110), and the compiler relies on it.
IsFile(file, outer) ==
    /\ outer \subseteq Stmts /\ OutsideLoops(outer)
    /\ file.fns \in Seq(Range(file.fns)) /\ file.tops \in Seq(outer)
    /\ \A i \in DOMAIN file.fns : file.fns[i].body \in Seq(outer)
=============================================================================
