------------------------------- MODULE MCRun -------------------------------
(***************************************************************************)
(* Programs for `heh run`: those that the engines are compared on, a value *)
(* of every type in every use, records of every shape, arguments under     *)
(* every name, a name bound in every way and used at every place, every    *)
(* way out of a loop where there may be none, and every way to end a       *)
(* function.                                                               *)
(***************************************************************************)
EXTENDS MCPrograms, HehRun

-----------------------------------------------------------------------------
(* A variable m of some value, then something done with it.                 *)

M            == Id("m")
Method(f, es) == Call(FieldOf(M, f), es)

Structures ==
    "map"    :> Entries(<<Num(1), Num(10), Num(2), Num(20)>>)
 @@ "words"  :> Entries(<<Lit(StrV("a")), Num(1)>>)
 @@ "no map" :> Entries(<<>>)
 @@ "record" :> Point(Num(1), Num(2)) @@ "built"  :> NamedCall(Id("P"), <<"y", "x">>, <<Num(1), Num(2)>>)
 @@ "point"  :> Ask("point", <<>>)    @@ "all"    :> RecordOf("R", <<"all">>, <<Nums(<<1, 2>>)>>)
 @@ "ctor"   :> Id("P")               @@ "text"   :> Interp(<<Lit(StrV("n")), Num(1)>>)

Values ==
    "int"   :> Num(1)                 @@ "bool"   :> Lit(BoolV(TRUE))
 @@ "str"   :> Lit(StrV("two"))       @@ "none"   :> Absent
 @@ "list"  :> Nums(<<1, 2>>)         @@ "empty"  :> Items(<<>>)
 @@ "lists" :> Items(<<Nums(<<1>>)>>) @@ "option" :> Ask("pick", <<Num(1)>>)
 @@ "absent" :> Ask("pick", <<Num(2)>>)
 @@ "some"  :> Ask("some", <<Num(1)>>) @@ "result" :> Ask("risky", <<Num(1)>>)
 @@ "err"   :> Ask("err", <<Lit(StrV("two"))>>)
 @@ "red"   :> Id("Red")              @@ "gray"   :> Ask("Gray", <<Num(1)>>)
 @@ "fn"    :> Id("twice")            @@ "closure" :> Id("inc")
 @@ "builtin" :> Id("len")            @@ "sys"    :> Id("sys")
 @@ Structures

\* Uses of m as an expression,
StructureExprs ==
    ".x"     :> FieldOf(M, "x")        @@ ".z"     :> FieldOf(M, "z")
 @@ ".all"   :> IndexOf(FieldOf(M, "all"), Num(0))
 @@ "at key" :> IndexOf(M, Lit(StrV("a")))
 @@ ".get"   :> Method("get", <<Num(1)>>) @@ ".get a" :> Method("get", <<Lit(StrV("a"))>>)
 @@ "get"    :> Ask("get", <<M, Num(1)>>) @@ "get 0"  :> Ask("get", <<>>)
 @@ ".keys"  :> Method("keys", <<>>)   @@ "values" :> Ask("values", <<M>>)
 @@ ".x()"   :> Method("x", <<Num(1)>>) @@ "call x" :> NamedCall(M, <<"x", "y">>, <<Num(1), Num(2)>>)
 @@ "x of"   :> Ask("abscissa", <<M>>) @@ "named"  :> NamedCall(Id("minus"), <<"b", "a">>, <<M, Num(1)>>)
 @@ "field"  :> NamedCall(Id("P"), <<"x", "y">>, <<Num(1), M>>)
 @@ "entry"  :> Entries(<<Num(1), Num(2), Num(3), M>>)
 @@ "key"    :> Entries(<<M, Num(2), Num(3), Num(4)>>)

Exprs ==
    "plus"   :> Plus(M, Num(1))     @@ "plus m" :> Plus(Num(1), M)
 @@ "twice m" :> Plus(M, M)         @@ "minus"  :> Binary("sub", M, M)
 @@ "times"  :> Binary("mul", M, Num(2)) @@ "floor" :> Binary("floordiv", Num(7), M)
 @@ "rest"   :> Binary("mod", M, Num(0)) @@ "power" :> Binary("pow", Num(2), M)
 @@ "ge"     :> Binary("ge", M, Num(2))
 @@ "eq"     :> Eq(M, Num(1))       @@ "lt"     :> Lt(M, Num(2))
 @@ "and"    :> Binary("and", M, Lit(BoolV(TRUE)))
 @@ "or m"   :> Binary("or", Lit(BoolV(FALSE)), M)
 @@ "not"    :> Unary("not", M)     @@ "neg"    :> Unary("neg", M)
 @@ "list"   :> Items(<<Num(3), M>>) @@ "first" :> Items(<<M, Num(3)>>)
 @@ "at"     :> IndexOf(M, Num(0))  @@ "at m"   :> IndexOf(Nums(<<1, 2>>), M)
 @@ "len"    :> Ask("len", <<M>>)   @@ ".len"   :> Method("len", <<>>)
 @@ "msg"    :> FieldOf(M, "msg")   @@ "call"   :> Call(M, <<Num(1)>>)
 @@ "call 0" :> Call(M, <<>>)       @@ "call 2" :> Call(M, <<Num(1), Num(2)>>)
 @@ "twice"  :> Ask("twice", <<M>>) @@ "twice 2" :> Ask("twice", <<Num(1), M>>)
 @@ "err"    :> Ask("err", <<M>>)   @@ "exit"   :> TryOf(M, TRUE)
 @@ "ok"     :> TryOf(Ask("ok", <<M>>), TRUE)
 @@ "map"    :> Ask("map", <<M, Id("inc")>>)
 @@ "map m"  :> Ask("map", <<Nums(<<1, 2>>), M>>)
 @@ ".map"   :> Method("map", <<Id("inc")>>)
 @@ StructureExprs

ShowOption == MatchOn(M, <<Arm(Variant("some", <<"v">>), <<Put(Plus(Id("v"), Num(1)))>>),
                           Arm(LitPat(NoneV), <<Say(2)>>)>>)

\* and as a statement.
Statements ==
    "print" :> <<Put(M)>>
 @@ "if"    :> <<When(M, <<Say(1)>>)>>
 @@ "elif"  :> <<If(Lt(Num(2), Num(1)), <<>>, <<[cond |-> M, body |-> <<Say(1)>>]>>, <<>>)>>
 @@ "while" :> <<While(M, <<Break>>)>>
 @@ "for"   :> <<For("i", M, <<Put(Id("i"))>>)>>
 @@ "push"  :> <<Do("push", <<M, Num(1)>>)>>
 @@ ".push" :> <<ExprStmt(Method("push", <<Num(1)>>))>>
 @@ "put"   :> <<Assign("m", <<Num(0)>>, "", Num(5))>>
 @@ "add"   :> <<Assign("m", <<Num(0)>>, "add", Num(5))>>
 @@ "set"   :> <<Set("m", Num(5)), Put(M)>>
 @@ "set x" :> <<Assign("m", <<Step("x")>>, "", Num(5)), Put(M)>>
 @@ "add x" :> <<Assign("m", <<Step("x")>>, "add", Num(5)), Put(M)>>
 @@ "set z" :> <<Assign("m", <<Step("z")>>, "", Num(5))>>
 @@ "set x bool" :> <<Assign("m", <<Step("x")>>, "", Lit(BoolV(TRUE)))>>
 @@ "set all" :> <<Assign("m", <<Step("all"), Num(0)>>, "", Num(5)), Put(FieldOf(M, "all"))>>
 @@ "put a" :> <<Assign("m", <<Lit(StrV("a"))>>, "", Num(5)), Put(M)>>
 @@ "put bool" :> <<Assign("m", <<Num(1)>>, "", Lit(BoolV(TRUE))), Put(M)>>
 @@ ".set"  :> <<ExprStmt(Method("set", <<Num(1), Num(5)>>)), Put(M)>>
 @@ "remove" :> <<Do("remove", <<M, Num(1)>>), Put(M)>>
 @@ "record" :> <<Set("m", Point(Num(5), Num(6))), Put(Binary("sub", FieldOf(M, "x"), Num(1)))>>
 @@ "inc"   :> <<Add("m", Num(5)), Put(M)>>
 @@ "self"  :> <<Set("m", M), Put(M)>>
 @@ "try"   :> <<Put(TryOf(M, FALSE)), Return(<<Ask("ok", <<Num(1)>>)>>)>>
 @@ "return" :> <<Return(<<M>>)>>
 @@ "value" :> <<ExprStmt(M)>>
 @@ "then"  :> <<When(Neq(M, Absent), <<Put(Plus(M, Num(1)))>>)>>
 @@ "else"  :> <<Either(Eq(M, Absent), <<Return(<<Ask("ok", <<Num(1)>>)>>)>>, <<Put(Plus(M, Num(1)))>>)>>
 @@ "behind" :> <<When(Eq(M, Absent), <<Say(1)>>), Put(Plus(M, Num(1)))>>
 @@ "tested" :> <<When(Eq(M, Absent), <<Say(1)>>), ShowOption>>
 @@ "other"  :> <<Either(Eq(M, Absent), <<Say(1)>>, <<ShowOption>>)>>
 @@ "match int"   :> <<MatchOn(M, <<Arm(LitPat(IntV(1)), <<Say(1)>>), Arm(Wildcard, <<Say(2)>>)>>)>>
 @@ "match bool"  :> <<MatchOn(M, <<Arm(LitPat(BoolV(TRUE)), <<Say(1)>>), Arm(LitPat(BoolV(FALSE)), <<Say(2)>>)>>)>>
 @@ "match one"   :> <<MatchOn(M, <<Arm(LitPat(BoolV(FALSE)), <<Say(1)>>)>>)>>
 @@ "match some"  :> <<ShowOption>>
 @@ "match ok"    :> <<ShowResult(M)>>
 @@ "match shade" :> <<MatchOn(M, <<Arm(Variant("Red", <<>>), <<Say(1)>>),
                                    Arm(Variant("Gray", <<"g">>), <<Put(Plus(Id("g"), Num(1)))>>)>>)>>
 @@ "match g"     :> <<MatchOn(M, <<Arm(Variant("Gray", <<"g", "h">>), <<Say(1)>>), Arm(Wildcard, <<Say(2)>>)>>)>>
 @@ "match red"   :> <<MatchOn(M, <<Arm(Variant("Red", <<>>), <<Say(1)>>)>>)>>

Uses == Statements @@ [u \in DOMAIN Exprs |-> <<Put(Exprs[u])>>]

\* A bare none passes for a value of any type, and a variant with a payload and a
\* record of a declared type can be called: the checker leaves these to the
\* evaluator.
Unchecked ==
    {<<"none", u>> : u \in {"twice", "err", "inc", "named", "tested", "other"}
                               \cup {u \in DOMAIN Statements : Statements[u][1].k = "match"}}
        \cup ({"gray", "point"} \X {"call", "call 0", "call 2", "call x"})

\* A test against none whose block goes on: the type of m stays an option, its
\* value does not.
UnwrappedSet ==
    {"type"} \X {"option", "some"} \X BOOLEAN \X {"unit", "result"} \X {"tested", "other"}

\* The error of a try leaves main, which returns a result.
LeavingMain == MainTry \cup ({"type"} \X {"err"} \X BOOLEAN \X {"result"} \X {"try"})

TypeCases ==
    {c \in {"type"} \X (DOMAIN Values) \X BOOLEAN \X {"unit", "result"} \X (DOMAIN Uses) :
        <<c[2], c[5]>> \notin Unchecked}
    \ (UnwrappedSet \cup LeavingMain)

Minus == FnDecl("minus", <<"a", "b">>, <<IntT, IntT>>, IntT, <<ExprStmt(Binary("sub", Id("a"), Id("b")))>>)
MakePoint == FnDecl("point", <<>>, <<>>, RecordT("P"), <<ExprStmt(Point(Num(1), Num(2)))>>)
Abscissa  == FnDecl("abscissa", <<"p">>, <<RecordT("P")>>, IntT, <<ExprStmt(FieldOf(Id("p"), "x"))>>)

\* The function around returns nothing, or an int or error.
TypeFile(c) ==
    LET ret == IF c[4] = "unit" THEN UnitT ELSE ResultT(IntT)
    IN  File(Enums, Records, <<Pick, Risky, Twice, Minus, MakePoint, Abscissa, FnDecl("main", <<"sys">>, <<SysT>>, ret,
            <<Const("inc", Fn("k", IntT, <<ExprStmt(Plus(Id("k"), Num(1)))>>)),
              Let("m", Values[c[2]], c[3])>> \o Uses[c[5]])>>)

-----------------------------------------------------------------------------
(* A record of P, whole or not, read where its literal's fields count or    *)
(* where those of the declaration do; and the arguments of a call, with and *)
(* without names.                                                           *)

Shapes ==
    "whole"    :> Point(Num(1), Num(2))
 @@ "reversed" :> RecordOf("P", <<"y", "x">>, <<Num(1), Num(2)>>)
 @@ "less"     :> RecordOf("P", <<"x">>, <<Num(1)>>)
 @@ "more"     :> RecordOf("P", <<"x", "y", "z">>, <<Num(1), Num(2), Num(3)>>)
 @@ "bool"     :> Point(Num(1), Lit(BoolV(TRUE)))
 @@ "built"    :> NamedCall(Id("P"), <<"y", "x">>, <<Num(1), Num(2)>>)
 @@ "built bool" :> NamedCall(Id("P"), <<"x", "y">>, <<Num(1), Lit(BoolV(TRUE))>>)
 @@ "R"        :> RecordOf("R", <<"all">>, <<Nums(<<1>>)>>)

\* A literal passes for a record of its name whatever its fields are.
UncheckedShapes == {"less", "bool"} \X {"passed", "returned", "replaced"}

ShapeCases ==
    {c \in {"shape"} \X (DOMAIN Shapes) \X {"read", "passed", "returned", "replaced", "listed", "equal", "matched"} :
        <<c[2], c[3]>> \notin UncheckedShapes}

ShapeFile(c) ==
    LET p        == Const("p", Shapes[c[2]])
        y(e)     == Put(Plus(FieldOf(e, "y"), Num(1)))
        ordinate == FnDecl("ordinate", <<"p">>, <<RecordT("P")>>, IntT, <<ExprStmt(FieldOf(Id("p"), "y"))>>)
        given    == FnDecl("given", <<>>, <<>>, RecordT("P"), <<Return(<<Shapes[c[2]]>>)>>)
        read     == CASE c[3] = "read"     -> <<p, y(Id("p"))>>
                      [] c[3] = "passed"   -> <<p, Put(Plus(Ask("ordinate", <<Id("p")>>), Num(1)))>>
                      [] c[3] = "returned" -> <<Const("q", Ask("given", <<>>)), y(Id("q"))>>
                      [] c[3] = "replaced" -> <<Var("q", Point(Num(5), Num(6))), Set("q", Shapes[c[2]]), y(Id("q"))>>
                      [] c[3] = "listed"   -> <<Const("l", Items(<<Point(Num(5), Num(6)), Shapes[c[2]]>>)),
                                                For("q", Id("l"), <<y(Id("q"))>>)>>
                      [] c[3] = "equal"    -> <<p, Put(Eq(Id("p"), Point(Num(1), Num(2))))>>
                      [] c[3] = "matched"  -> <<p, MatchOn(Id("p"), <<Arm(Wildcard, <<y(Id("p"))>>)>>)>>
        needed   == IF c[3] = "returned" THEN <<given>> ELSE <<>>
    IN  File(<<>>, Records, needed \o <<ordinate, Main(read)>>)

\* The names of up to three arguments.
NameLists == UNION {[1..n -> {"", "a", "b", "c"}] : n \in 0..3}

ArgumentCases == {"args"} \X {"function", "closure", "record", "variant"} \X NameLists

ArgumentFile(c) ==
    LET names == IF \A i \in DOMAIN c[3] : c[3][i] = "" THEN <<>> ELSE c[3]
        call(n) == NamedCall(Id(n), names, [i \in DOMAIN c[3] |-> Num(2 * i)])
        difference == <<ExprStmt(Binary("sub", Id("a"), Id("b")))>>
        built == <<Const("r", call("Pair")), Put(Binary("sub", FieldOf(Id("r"), "a"), FieldOf(Id("r"), "b")))>>
    IN  File(Enums, "Pair" :> <<<<"a", IntT>>, <<"b", IntT>>>>, <<Minus, Main(
            CASE c[2] = "function" -> <<Put(call("minus"))>>
              [] c[2] = "closure"  -> <<Const("f", Closure(<<"a", "b">>, <<IntT, IntT>>, IntT, difference)),
                                        Put(call("f"))>>
              [] c[2] = "record"   -> built
              [] c[2] = "variant"  -> <<Put(call("Gray"))>>)>>)

-----------------------------------------------------------------------------
(* A name x, bound in one way, used at one place in one way, in a function  *)
(* that may have had a list of that name before.                            *)

Binders == {"nothing", "let", "top", "fn", "param", "if", "elif", "else", "while", "for", "for let",
            "arm", "arm let", "closure", "closure let", "then", "behind"}

\* The statements that bind x, with those in the reach of the binding.
Bind(binder, inner) ==
    LET x == Var("x", Num(1))
        yes == Lt(Num(1), Num(2))
        option == Var("x", Ask("pick", <<Num(1)>>))
    IN  CASE binder \in {"nothing", "top", "fn", "param"} -> inner
          [] binder = "let"     -> <<x>> \o inner
          [] binder = "if"      -> <<When(yes, <<x>> \o inner)>>
          [] binder = "elif"    -> <<If(Lt(Num(2), Num(1)), <<>>, <<[cond |-> yes, body |-> <<x>> \o inner]>>, <<>>)>>
          [] binder = "else"    -> <<Either(Lt(Num(2), Num(1)), <<>>, <<x>> \o inner)>>
          [] binder = "while"   -> <<While(yes, <<x>> \o inner \o <<Break>>)>>
          [] binder = "for"     -> <<For("x", Nums(<<1, 2>>), inner)>>
          [] binder = "for let" -> <<For("i", Nums(<<1, 2>>), <<x>> \o inner)>>
          [] binder = "arm"     -> <<MatchOn(Ask("pick", <<Num(1)>>),
                                       <<Arm(Variant("some", <<"x">>), inner), Arm(Wildcard, <<>>)>>)>>
          [] binder = "arm let" -> <<MatchOn(Num(1), <<Arm(Wildcard, <<x>> \o inner)>>)>>
          [] binder = "closure" -> <<Const("f", Fn("x", UnitT, inner)), Do("f", <<Num(1)>>)>>
          [] binder = "closure let" -> <<Const("f", Fn("k", UnitT, <<x>> \o inner)), Do("f", <<Num(1)>>)>>
          [] binder = "then"    -> <<option, When(Neq(Id("x"), Absent), inner)>>
          [] binder = "behind"  -> <<option, When(Eq(Id("x"), Absent), <<Return(<<>>)>>)>> \o inner

UseOf(use) ==
    CASE use = "print"   -> <<Put(Id("x"))>>
      [] use = "call"    -> <<Do("twice", <<Id("x")>>)>>
      [] use = "callee"  -> <<Do("x", <<Num(1)>>)>>
      [] use = "set"     -> <<Set("x", Num(7))>>
      [] use = "at"      -> <<Assign("x", <<Num(0)>>, "", Num(7))>>
      [] use = "inner"   -> <<When(Lt(Num(1), Num(2)), <<Put(Id("x"))>>)>>
      [] use = "closure" -> <<Const("g", Fn("k", UnitT, <<Put(Id("x"))>>)), Do("g", <<Num(1)>>)>>
      [] use = "let"     -> <<Const("x", Id("x"))>>

Places == {"before", "inside", "behind", "early function", "late function"}

NameUses == {"print", "call", "callee", "set", "at", "inner", "closure", "let"}

\* An assignment to a narrowed variable passes the checker and faults.
NarrowedSet == {"name"} \X {"then", "behind"} \X {"inside", "behind"} \X {"set"} \X BOOLEAN

\* The name of a function is no place to assign to (E0011).
NameCases ==
    {c \in {"name"} \X Binders \X Places \X NameUses \X BOOLEAN : 
        c[2] = "fn" => c[4] \notin {"set", "at"}}
        \ NarrowedSet

NameFile(c) ==
    LET at(place) == IF c[3] = place THEN UseOf(c[4]) ELSE <<>>
        fn(n, place) == Proc(n, <<"sys">>, <<SysT>>, at(place))
        top  == IF c[2] = "top" THEN <<Var("x", Num(1))>> ELSE <<>>
        x    == IF c[2] = "fn" THEN <<FnDecl("x", <<"n">>, <<IntT>>, IntT, <<ExprStmt(Id("n"))>>)>> ELSE <<>>
        ps   == IF c[2] = "param" THEN <<"sys", "x">> ELSE <<"sys">>
        args == IF c[2] = "param" THEN <<Id("sys"), Num(1)>> ELSE <<Id("sys")>>
        list == IF c[5] THEN <<Var("x", Nums(<<1, 2>>))>> ELSE <<>>
        body == list \o at("before") \o Bind(c[2], at("inside")) \o at("behind")
    IN  Plain(<<Pick, Twice, fn("early", "early function")>> \o top \o x
              \o <<fn("late", "late function"),
                   Proc("body", ps, IF c[2] = "param" THEN <<SysT, IntT>> ELSE <<SysT>>, body),
                   Main(<<Do("early", <<Id("sys")>>), Do("late", <<Id("sys")>>), Do("body", args)>>)>>)

-----------------------------------------------------------------------------
(* A break, continue or return, in a loop or not.                           *)

FlowCases == {"flow"} \X {"break", "continue", "return"}
                      \X {"top", "top loop", "function", "loop", "behind", "closure",
                          "closure loop", "arm", "arm loop", "loop loop"}

FlowFile(c) ==
    LET leave == <<CASE c[2] = "break" -> Break [] c[2] = "continue" -> Continue
                     [] c[2] = "return" -> Return(<<>>)>>
        loop(n, body) == <<For(n, Nums(<<1, 2>>), body)>>
        called(body)  == <<Const("f", Fn("k", UnitT, body)), Do("f", <<Num(1)>>)>>
        arm(body)     == <<MatchOn(Num(1), <<Arm(Wildcard, body)>>)>>
        main(body)    == Plain(<<Main(body \o <<Say(300)>>)>>)
    IN  CASE c[3] = "top"      -> Plain(leave)
          [] c[3] = "top loop" -> Plain(loop("i", leave))
          [] c[3] = "function" -> main(leave)
          [] c[3] = "loop"     -> main(loop("i", leave))
          [] c[3] = "behind"   -> main(loop("i", <<Say(1)>>) \o leave)
          [] c[3] = "closure"  -> main(loop("i", called(leave)))
          [] c[3] = "closure loop" -> main(called(loop("i", leave)))
          [] c[3] = "arm"      -> main(arm(leave))
          [] c[3] = "arm loop" -> main(loop("i", arm(leave)))
          [] c[3] = "loop loop" -> main(loop("i", loop("j", <<Say(1)>>) \o leave))

-----------------------------------------------------------------------------
(* A function of an int that ends in one of two blocks, or in neither.      *)

Blocks == {"return", "value", "say", "if", "nothing"}

EndCases == {"ends"} \X {"value", "if", "elif", "else", "elif else", "match", "while", "for"}
                     \X Blocks \X Blocks

EndFile(c) ==
    LET back == <<Return(<<Id("n")>>)>>
        block(b) == CASE b = "return"  -> back
                      [] b = "value"   -> <<ExprStmt(Id("n"))>>
                      [] b = "say"     -> <<Put(Id("n"))>>
                      [] b = "if"      -> <<Either(Is("n", 3), back, back)>>
                      [] b = "nothing" -> <<>>
        one == block(c[3])
        two == block(c[4])
        elif == <<[cond |-> Is("n", 2), body |-> two]>>
        body == CASE c[2] = "value" -> one \o two
                  [] c[2] = "if"    -> <<When(Is("n", 1), one)>> \o two
                  [] c[2] = "elif"  -> <<If(Is("n", 1), one, elif, <<>>)>>
                  [] c[2] = "else"  -> <<Either(Is("n", 1), one, two)>>
                  [] c[2] = "elif else" -> <<If(Is("n", 1), one, elif, <<back>>)>>
                  [] c[2] = "match" -> <<MatchOn(Is("n", 1), <<Arm(LitPat(BoolV(TRUE)), one),
                                                               Arm(LitPat(BoolV(FALSE)), two)>>)>>
                  [] c[2] = "while" -> <<While(Is("n", 1), one)>> \o two
                  [] c[2] = "for"   -> <<For("i", Nums(<<1, 2>>), one)>> \o two
        choose == FnDecl("choose", <<"sys", "n">>, <<SysT, IntT>>, IntT, body)
        more   == Plus(Ask("choose", <<Id("sys"), Id("k")>>), Num(1))
    IN  Plain(<<choose, Main(<<For("k", Nums(<<1, 2, 3>>), <<Put(more)>>)>>)>>)

-----------------------------------------------------------------------------
Checkable ==
    (Mixed \ LeavingMain) \cup TypeCases \cup ShapeCases \cup ArgumentCases \cup NameCases \cup FlowCases \cup EndCases

MCFileOf(c) ==
    CASE c[1] = "type" -> TypeFile(c)
      [] c[1] = "shape" -> ShapeFile(c)
      [] c[1] = "args" -> ArgumentFile(c)
      [] c[1] = "name" -> NameFile(c)
      [] c[1] = "flow" -> FlowFile(c)
      [] c[1] = "ends" -> EndFile(c)
      [] OTHER         -> ProgramOf(c)

=============================================================================
