----------------------------- MODULE MCPrograms -----------------------------
(***************************************************************************)
(* Small Heh programs for TLC, in families.  Each is named by a tuple:     *)
(* its family and the choices in it.                                       *)
(*                                                                         *)
(* Agreeing programs use every name once per function and leave out what   *)
(* the two engines are known to do differently; the families behind        *)
(* Divergences show those differences.                                     *)
(***************************************************************************)
EXTENDS HehSyntax, HehTypes, HehValues

Num(n)       == Lit(IntV(n))
Nums(ns)     == Items([i \in DOMAIN ns |-> Num(ns[i])])
Absent       == Lit(NoneV)
Eq(l, r)     == Binary("eq", l, r)
Neq(l, r)    == Binary("neq", l, r)
Lt(l, r)     == Binary("lt", l, r)
Plus(l, r)   == Binary("add", l, r)
Upto(lo, hi) == Binary("range", lo, hi)
Is(n, k)     == Eq(Id(n), Num(k))
Ask(f, es)   == Call(Id(f), es)
Do(f, es)    == ExprStmt(Ask(f, es))
Put(e)     == ExprStmt(Call(FieldOf(Id("sys"), "print"), <<e>>))
Say(n)       == Put(Num(n))
When(e, body)       == If(e, body, <<>>, <<>>)
Either(e, yes, no)  == If(e, yes, <<>>, <<no>>)
Set(n, e)           == Assign(n, <<>>, "", e)
Add(n, e)           == Assign(n, <<>>, "add", e)
Var(n, e)           == Let(n, e, TRUE)
Const(n, e)         == Let(n, e, FALSE)
Arm(pat, body)      == [pat |-> pat, body |-> body]
\* A procedure returns nothing.
Proc(n, ps, ts, body) == FnDecl(n, ps, ts, UnitT, body)
Main(body)            == Proc("main", <<"sys">>, <<SysT>>, body)
Plain(items)          == File(<<>>, <<>>, items)

-----------------------------------------------------------------------------
(* Loops in loops, left in every way. *)

LoopKinds == {"list", "range", "incl", "open", "while"}

\* A loop that counts n from 1 to 3.
Loop(kind, n, body) ==
    CASE kind = "list"  -> <<For(n, Nums(<<1, 2, 3>>), body)>>
      [] kind = "range" -> <<For(n, Upto(Num(1), Num(4)), body)>>
      [] kind = "incl"  -> <<For(n, Binary("range_inc", Num(1), Num(3)), body)>>
      [] kind = "open"  -> <<For(n, Upto(Num(1), Absent),
                                 Append(body, When(Lt(Num(2), Id(n)), <<Break>>)))>>
      [] kind = "while" -> <<Var(n, Num(0)),
                             While(Lt(Id(n), Num(3)), <<Add(n, Num(1))>> \o body)>>

\* Leave the loop over n at 2, or do not.
Leave(act, n) ==
    CASE act = "fall"     -> <<>>
      [] act = "break"    -> <<When(Is(n, 2), <<Break>>)>>
      [] act = "continue" -> <<When(Is(n, 2), <<Continue>>)>>
      [] act = "return"   -> <<When(Is(n, 2), <<Return(<<>>)>>)>>
      [] act = "arm break" ->
            <<MatchOn(Id(n), <<Arm(LitPat(IntV(2)), <<Break>>),
                               Arm(Wildcard, <<Say(50)>>)>>)>>
      [] act = "arm continue" ->
            <<MatchOn(Id(n), <<Arm(LitPat(IntV(1)), <<Say(60)>>),
                               Arm(Wildcard, <<Continue>>)>>)>>

Continues == {"continue", "arm continue"}

\* A continue in a counting for is left to Divergences.
LoopCases ==
    {c \in {"loop"} \X LoopKinds \X {"fall", "break", "continue"} \X LoopKinds
                    \X ({"fall", "break", "return", "arm break"} \cup Continues) :
        /\ c[3] \in Continues => c[2] \in {"list", "while"}
        /\ c[5] \in Continues => c[4] \in {"list", "while"}}

LoopFile(c) ==
    LET inner == Loop(c[4], "j", <<Put(Id("j"))>> \o Leave(c[5], "j") \o <<Say(100)>>)
        outer == Loop(c[2], "i", <<Put(Id("i"))>> \o inner \o Leave(c[3], "i") \o <<Say(200)>>)
    IN  Plain(<<Main(outer \o <<Say(300)>>)>>)

-----------------------------------------------------------------------------
(* Optional narrowing in a loop, the narrowed block left in every way.      *)

NarrowCases ==
    {"narrow"} \X {"neq", "eq"} \X {"left", "right"}
               \X {"fall", "break", "continue", "return", "nested break",
                   "nested continue", "loop break", "loop continue"}
               \X {"nothing", "elif", "else"}

\* fn pick(n: int) -> int?
Pick == FnDecl("pick", <<"n">>, <<IntT>>, OptionalT(IntT),
                                <<When(Is("n", 2), <<Return(<<Absent>>)>>),
                                  Return(<<Ask("some", <<Id("n")>>)>>)>>)

\* What the narrowed block does when i is k.
LeaveNarrowed(act, k) ==
    LET at(s) == <<When(Is("i", k), <<s>>)>>
        nested(s) == <<Const("y", Ask("pick", <<Num(1)>>)),
                       When(Neq(Id("y"), Absent), <<Put(Id("y"))>> \o at(s))>>
        looped(s) == <<For("j", Nums(<<1, 2>>), <<When(Is("j", 1), <<s>>), Put(Id("j"))>>)>>
    IN  CASE act = "fall"            -> <<>>
          [] act = "break"           -> at(Break)
          [] act = "continue"        -> at(Continue)
          [] act = "return"          -> at(Return(<<>>))
          [] act = "nested break"    -> nested(Break)
          [] act = "nested continue" -> nested(Continue)
          [] act = "loop break"      -> looped(Break)
          [] act = "loop continue"   -> looped(Continue)

NarrowFile(c) ==
    LET test  == IF c[3] = "left" THEN Binary(c[2], Id("x"), Absent)
                                  ELSE Binary(c[2], Absent, Id("x"))
        body  == <<Put(Id("x"))>> \o LeaveNarrowed(c[4], IF c[2] = "neq" THEN 1 ELSE 2)
        elifs == IF c[5] = "elif" THEN <<[cond |-> Is("i", 2), body |-> <<Say(10)>>]>> ELSE <<>>
        else  == IF c[5] = "nothing" THEN <<>> ELSE <<<<Put(Id("x"))>>>>
        loop  == For("i", Nums(<<1, 2, 3>>),
                     <<Const("x", Ask("pick", <<Id("i")>>)),
                       If(test, body, elifs, else),
                       Say(200)>>)
    IN  Plain(<<Pick, Main(<<loop, Say(300)>>)>>)

-----------------------------------------------------------------------------
(* Functions whose last statement is compiled for its value.                *)

ValueCases ==
    {"value"} \X {"if", "elif", "match", "for", "while", "let", "if match", "match loop",
                  "match return", "nothing"}

LastStatement(shape) ==
    LET one  == LitPat(IntV(1))
        two  == LitPat(IntV(2))
        arms(a, b) == <<Arm(one, a), Arm(two, b), Arm(Wildcard, <<Say(13)>>)>>
        loop == For("j", Nums(<<4, 5, 6>>), <<When(Is("j", 5), <<Break>>), Put(Id("j"))>>)
    IN  CASE shape = "if"    -> <<When(Is("n", 1), <<Say(11)>>)>>
          [] shape = "elif"  -> <<If(Is("n", 1), <<Say(11)>>,
                                     <<[cond |-> Is("n", 2), body |-> <<Say(12)>>]>>,
                                     <<<<Say(13)>>>>)>>
          [] shape = "match" -> <<MatchOn(Id("n"), arms(<<Say(11)>>, <<Const("k", Num(1))>>))>>
          [] shape = "for"   -> <<loop>>
          [] shape = "while" -> <<Var("k", Num(0)),
                                  While(Lt(Id("k"), Id("n")), <<Set("k", Plus(Id("k"), Num(1))), Put(Id("k"))>>)>>
          [] shape = "let"   -> <<Const("k", Id("n"))>>
          [] shape = "if match"     -> <<Either(Lt(Id("n"), Num(3)),
                                                <<MatchOn(Id("n"), arms(<<Say(11)>>, <<Say(12)>>))>>,
                                                <<Say(14)>>)>>
          [] shape = "match loop"   -> <<MatchOn(Id("n"), arms(<<loop>>, <<loop, Say(12)>>))>>
          [] shape = "match return" -> <<MatchOn(Id("n"), arms(<<Return(<<>>)>>,
                                                               <<loop, Return(<<>>)>>))>>
          [] shape = "nothing"      -> <<>>

ValueFile(c) ==
    LET each == For("i", Nums(<<1, 2, 3>>), <<Do("f", <<Id("sys"), Id("i")>>), Say(200)>>) IN
    Plain(<<Proc("f", <<"sys", "n">>, <<SysT, IntT>>, LastStatement(c[2])), Main(<<each>>)>>)

-----------------------------------------------------------------------------
(* Calls: the depth limit, faults and propagated errors, and functions as   *)
(* values.                                                                  *)

CallCases ==
    {"call"} \X {"down", "try", "exit", "main try", "fault",
                 "closure", "closure try", "closure down", "map", "method", "enum", "result"}
             \X (1..4)

\* A try in a function that returns an option: SPEC.md 7.2 knows none, the
\* checker accepts it, and a none ends the run.
OptionTry == {"call"} \X {"option try"} \X (1..4)

\* The try of an err in a main that returns a result.
MainTry == {<<"call", "main try", 2>>}

\* x.f() for a function f of the program, which the checker refuses, and an arm
\* that matches nothing, which it does not see.
OddCases == {"call"} \X {"ufcs", "bad arm"} \X (1..2)

\* fn down(sys: sys, n: int): n more calls below this one.
Down == Proc("down", <<"sys", "n">>, <<SysT, IntT>>,
    <<Put(Id("n")),
      When(Lt(Num(1), Id("n")), <<Do("down", <<Id("sys"), Binary("sub", Id("n"), Num(1))>>)>>),
      Say(100)>>)

\* fn risky(n: int) -> int or error
Risky == FnDecl("risky", <<"n">>, <<IntT>>, ResultT(IntT),
    <<When(Is("n", 2), <<Return(<<Ask("err", <<Lit(StrV("two"))>>)>>)>>),
      Return(<<Ask("ok", <<Id("n")>>)>>)>>)

TryRisky(n) == TryOf(Ask("risky", <<n>>), FALSE)

\* fn mid(sys: sys, n: int) -> int or error: the error leaves it with an
\* operand pushed, an iterator active and a scope open.
Mid == FnDecl("mid", <<"sys", "n">>, <<SysT, IntT>>, ResultT(IntT),
    <<For("i", Nums(<<1, 2>>),
        <<Const("x", Ask("pick", <<Num(1)>>)),
          When(Neq(Id("x"), Absent),
               <<Put(Items(<<Id("x"), TryRisky(Id("n"))>>))>>)>>),
      Return(<<Ask("ok", <<Id("n")>>)>>)>>)

\* fn twice(n: int) -> int
Twice == FnDecl("twice", <<"n">>, <<IntT>>, IntT, <<ExprStmt(Plus(Id("n"), Id("n")))>>)

\* type Shade = Red or Gray(g: int)
Enums == "Shade" :> ("Red" :> <<>> @@ "Gray" :> <<IntT>>)

\* fn(p: int) -> ret
Fn(p, ret, body) == Closure(<<p>>, <<IntT>>, ret, body)

ShowResult(e) ==
    MatchOn(e, <<Arm(Variant("ok", <<"v">>), <<Put(Id("v"))>>),
                 Arm(Variant("err", <<"e">>), <<Put(FieldOf(Id("e"), "msg"))>>)>>)

CallFile(c) ==
    LET n == c[3]
        main(body) == Plain(<<Down, Pick, Risky, Mid, Main(body)>>)
        far  == Proc("far", <<"sys", "n">>, <<SysT, IntT>>,
                    <<Put(IndexOf(Nums(<<1, 2>>), Id("n"))), Say(100)>>)
        shade == Proc("shade", <<"sys", "k">>, <<SysT, EnumT("Shade")>>,
                    <<MatchOn(Id("k"), <<Arm(Variant("Red", <<>>), <<Say(1)>>),
                                         Arm(Variant("Gray", <<"g">>), <<Put(Id("g"))>>)>>)>>)
    IN  CASE c[2] = "down" -> main(<<Do("down", <<Id("sys"), Num(n)>>), Say(300)>>)
          [] c[2] = "try"  ->
                main(<<ShowResult(Ask("mid", <<Id("sys"), Num(n)>>)), Say(300)>>)
          [] c[2] = "exit" ->
                main(<<Put(TryOf(Ask("risky", <<Num(n)>>), TRUE)), Say(300)>>)
          [] c[2] = "main try" ->
                Plain(<<Pick, Risky, FnDecl("main", <<"sys">>, <<SysT>>, ResultT(IntT),
                        <<Put(TryRisky(Num(n))), Return(<<Ask("ok", <<Num(n)>>)>>)>>)>>)
          [] c[2] = "option try" ->
                LET first == FnDecl("first", <<"n">>, <<IntT>>, OptionalT(IntT),
                        <<Return(<<Ask("some", <<TryOf(Ask("pick", <<Id("n")>>), FALSE)>>)>>)>>)
                IN  Plain(<<Pick, first, Main(<<Put(Ask("first", <<Num(n)>>)), Say(300)>>)>>)
          [] c[2] = "fault" ->
                LET near == Proc("near", <<"sys", "n">>, <<SysT, IntT>>,
                        <<For("i", Nums(<<0, 1>>), <<Do("far", <<Id("sys"), Plus(Id("i"), Id("n"))>>)>>)>>)
                IN  Plain(<<near, far, Main(<<Do("near", <<Id("sys"), Num(n - 1)>>), Say(300)>>)>>)
          [] c[2] = "bad arm" ->
                main(<<MatchOn(Ask("pick", <<Num(n)>>),
                               <<Arm(LitPat(NoneV), <<Say(0)>>),
                                 Arm(Variant("some", <<"a", "b">>), <<Say(1)>>)>>),
                       Say(300)>>)
          [] c[2] = "closure" ->
                main(<<Var("total", Num(0)),
                       Const("add", Fn("k", UnitT, <<Add("total", Id("k"))>>)),
                       For("i", Nums(<<1, n>>), <<Do("add", <<Id("i")>>), Put(Id("total"))>>)>>)
          [] c[2] = "closure try" ->
                main(<<Const("attempt", Fn("k", ResultT(IntT), <<Return(<<Ask("ok", <<TryRisky(Id("k"))>>)>>)>>)),
                       ShowResult(Ask("attempt", <<Num(n)>>)), Say(300)>>)
          [] c[2] = "closure down" ->
                main(<<Const("go", Fn("k", UnitT, <<Do("down", <<Id("sys"), Id("k")>>)>>)),
                       Do("go", <<Num(n)>>), Say(300)>>)
          [] c[2] = "map" ->
                main(<<Const("more", Fn("k", IntT, <<ExprStmt(Plus(Id("k"), Num(n)))>>)),
                       Const("all", Ask("map", <<Nums(<<1, n>>), Id("more")>>)),
                       Put(Id("all")), Put(Ask("len", <<Id("all")>>))>>)
          [] c[2] = "method" ->
                main(<<Const("l", Nums(<<1, n>>)),
                       ExprStmt(Call(FieldOf(Id("l"), "push"), <<Num(5)>>)),
                       Put(Call(FieldOf(Id("l"), "len"), <<>>)), Put(Id("l"))>>)
          [] c[2] = "ufcs" ->
                Plain(<<Twice, Main(<<Const("m", Num(n)),
                                      Put(Call(FieldOf(Id("m"), "twice"), <<>>))>>)>>)
          [] c[2] = "enum" ->
                File(Enums, <<>>, <<shade, Main(<<Do("shade", <<Id("sys"), Id("Red")>>),
                                            Do("shade", <<Id("sys"), Ask("Gray", <<Num(n)>>)>>)>>)>>)
          [] c[2] = "result" ->
                main(<<ShowResult(Ask("risky", <<Num(n)>>)),
                       Put(Eq(Ask("risky", <<Num(n)>>), Ask("risky", <<Num(2)>>)))>>)

-----------------------------------------------------------------------------
(* Lists are shared: aliases, nested lists, bounds, growing while iterated. *)

ListCases == {"list"} \X {"alias", "nested", "get", "set", "grow", "equal"} \X (-1..2)

ListFile(c) ==
    LET i == Num(c[3])
        at(l, k) == IndexOf(Id(l), k)
    IN  Plain(<<Main(<<Var("a", Nums(<<1, 2>>))>> \o
        CASE c[2] = "alias"  -> <<Var("b", Id("a")), Assign("b", <<Num(0)>>, "", i), Put(Id("a"))>>
          [] c[2] = "nested" -> <<Var("m", Items(<<Id("a"), Nums(<<3>>)>>)),
                                  Assign("m", <<Num(0), Num(1)>>, "add", i),
                                  Put(Id("a")), Put(at("m", Num(1)))>>
          [] c[2] = "get"    -> <<Put(at("a", i)), Say(300)>>
          [] c[2] = "set"    -> <<Assign("a", <<i>>, "", Num(9)), Put(Id("a"))>>
          [] c[2] = "grow"   -> <<For("k", Id("a"), <<Do("push", <<Id("a"), i>>), Put(Id("k"))>>),
                                  Put(Id("a"))>>
          [] c[2] = "equal"  -> <<Put(Eq(Id("a"), Items(<<Num(1), i>>)))>>)>>)

-----------------------------------------------------------------------------
(* Records and maps are shared, too: aliases, nesting, fields and keys that *)
(* are not there, patterns, and a map that changes while it is iterated.    *)
(* The arguments of a record's constructor have no effects here.            *)

RecordCases ==
    {"record"} \X {"alias", "nested", "loop", "match", "construct", "field", "closure", "try"}
               \X (1..3)

MapCases ==
    {"map"} \X {"literal", "equal", "missing", "compound", "grow", "get", "nested"} \X (1..3)

\* type P = x: int, y: int   type R = all: list of int
Records ==
    "P" :> <<<<"x", IntT>>, <<"y", IntT>>>> @@ "R" :> <<<<"all", ListT(IntT)>>>>

\* P { x: x, y: y }
Point(x, y) == RecordOf("P", <<"x", "y">>, <<x, y>>)
MethodOf(n, f, es) == Call(FieldOf(Id(n), f), es)

RecordBody(c) ==
    LET n == Num(c[3])
        p == Const("p", Point(n, Num(2)))
        x == FieldOf(Id("p"), "x")
    IN  CASE c[2] = "alias" ->
                <<p, Const("q", Id("p")), Assign("q", <<Step("x")>>, "", Num(7)), Put(x),
                  Put(Eq(Id("p"), RecordOf("P", <<"y", "x">>, <<n, Num(7)>>)))>>
          [] c[2] = "nested" ->
                <<p, Const("l", Items(<<Id("p")>>)),
                  Assign("l", <<Num(0), Step("x")>>, "add", Num(5)), Put(x),
                  Const("r", RecordOf("R", <<"all">>, <<Nums(<<1, 2>>)>>)),
                  Assign("r", <<Step("all"), n>>, "sub", Num(4)), Put(FieldOf(Id("r"), "all"))>>
          [] c[2] = "loop" ->
                <<p, For("i", Nums(<<1, 2, 3>>),
                         <<Assign("p", <<Step("x")>>, "add", Id("i"))>> \o
                         (CASE c[3] = 1 -> Leave("continue", "i")
                            [] c[3] = 2 -> Leave("break", "i")
                            [] c[3] = 3 -> Leave("return", "i"))
                         \o <<Put(x)>>), Put(x)>>
          [] c[2] = "match" ->
                <<p, MatchOn(IF c[3] = 2 THEN Id("l") ELSE Id("p"),
                             <<Arm(Variant("P", <<"x">>), <<Say(1)>>),
                               Arm(Variant("P", IF c[3] = 3 THEN <<"y", "z">> ELSE <<"y", "x">>),
                                   <<Put(Id("y")), Put(Id("x"))>>),
                               Arm(Wildcard, <<Say(2)>>)>>)>>
          [] c[2] = "construct" ->
                <<Const("p", NamedCall(Id("P"), CASE c[3] = 1 -> <<"y", "x">>
                                                  [] c[3] = 2 -> <<"x", "x">>
                                                  [] c[3] = 3 -> <<"x", "">>, <<Num(3), Num(4)>>)),
                  Put(x), Put(Eq(Id("p"), Point(Num(4), Num(3))))>>
          [] c[2] = "field" ->
                <<p, Const("l", Nums(<<1>>)), Say(1),
                  CASE c[3] = 1 -> Assign("p", <<Step("z")>>, "", n)
                    [] c[3] = 2 -> Assign("l", <<Step("x")>>, "", n)
                    [] c[3] = 3 -> ExprStmt(MethodOf("p", "z", <<n>>))>>
          [] c[2] = "closure" ->
                <<Const("p", Point(Fn("k", IntT, <<ExprStmt(Plus(Id("k"), n))>>), n)),
                  Put(MethodOf("p", "x", <<Num(3)>>)),
                  Assign("p", <<Step("x")>>, "", Id("down")),
                  ExprStmt(MethodOf("p", "x", <<Id("sys"), n>>))>>
          [] c[2] = "try" ->
                <<Const("attempt", Fn("k", ResultT(IntT),
                        <<Const("p", Point(Num(1), TryRisky(Id("k")))),
                          Return(<<Ask("ok", <<FieldOf(Id("p"), "y")>>)>>)>>)),
                  ShowResult(Ask("attempt", <<n>>))>>

RecordFile(c) == File(<<>>, Records, <<Down, Risky, Main(RecordBody(c) \o <<Say(300)>>)>>)

\* { 1: 10, n: 20, 1: 30 }
MapBody(c) ==
    LET n == Num(c[3])
        m == Const("m", Entries(<<Num(1), Num(10), n, Num(20), Num(1), Num(30)>>))
        at(k) == IndexOf(Id("m"), k)
        each(body) == For("k", Id("m"), <<Put(Id("k"))>> \o body)
    IN  CASE c[2] = "literal" -> <<m, each(<<Put(at(Id("k")))>>), Put(Ask("len", <<Id("m")>>))>>
          [] c[2] = "equal" ->
                <<m, Const("other", Entries(<<Num(2), Num(20), Num(1), Num(30)>>)),
                  Put(Eq(Id("m"), Id("other")))>>
          [] c[2] = "missing" -> <<m, Put(at(Num(2)))>>
          [] c[2] = "compound" ->
                <<m, Const("also", Id("m")), Assign("m", <<n>>, "add", Num(1)), Put(Id("also")),
                  Assign("m", <<Num(2)>>, "sub", Num(1)), Put(Id("also"))>>
          [] c[2] = "grow" ->
                <<m, each(<<Assign("m", <<Plus(Id("k"), n)>>, "", Num(0)),
                            ExprStmt(MethodOf("m", "remove", <<Id("k")>>))>>
                          \o Leave("continue", "k")),
                  Put(Id("m"))>>
          [] c[2] = "get" ->
                <<m, Const("x", MethodOf("m", "get", <<Num(2)>>)),
                  Either(Neq(Id("x"), Absent), <<Put(Id("x"))>>, <<Say(0)>>),
                  Put(MethodOf("m", "keys", <<>>)), Put(MethodOf("m", "values", <<>>))>>
          [] c[2] = "nested" ->
                <<Const("m", Entries(<<Lit(StrV("a")), Nums(<<1, 2>>)>>)),
                  Const("l", at(Lit(StrV("a")))),
                  Assign("m", <<Lit(StrV("a")), n>>, "", Num(7)), Put(Id("l"))>>

MapFile(c) == Plain(<<Main(MapBody(c) \o <<Say(300)>>)>>)

-----------------------------------------------------------------------------
(* Named arguments, and interpolated strings.                               *)

NamedCases == {"named"} \X {"user", "closure"} \X (1..7)

\* The names given to the arguments of a function of a and b.
NamesGiven(k) ==
    CASE k = 1 -> <<"b", "a">>
      [] k = 2 -> <<"", "b">>
      [] k = 3 -> <<"b", "">>
      [] k = 4 -> <<"a", "c">>
      [] k = 5 -> <<"", "a">>
      [] k = 6 -> <<"b">>
      [] k = 7 -> <<"a", "a">>

NamedFile(c) ==
    LET body  == <<ExprStmt(Binary("sub", Id("a"), Id("b")))>>
        minus == FnDecl("minus", <<"a", "b">>, <<IntT, IntT>>, IntT, body)
        local == Const("minus", Closure(<<"a", "b">>, <<IntT, IntT>>, IntT, body))
        say   == FnDecl("say", <<"sys", "k">>, <<SysT, IntT>>, IntT, <<Put(Id("k")), Return(<<Id("k")>>)>>)
        asked(k) == Ask("say", <<Id("sys"), Num(k)>>)
        call  == NamedCall(Id("minus"), NamesGiven(c[3]),
                           IF Len(NamesGiven(c[3])) = 1 THEN <<asked(7)>> ELSE <<asked(7), asked(5)>>)
    IN  IF c[2] = "user" THEN Plain(<<say, minus, Main(<<Put(call)>>)>>)
        ELSE Plain(<<say, Main(<<local, Put(call)>>)>>)

InterpCases == {"interp"} \X {"print", "chars", "several", "error"} \X (1..2)

InterpFile(c) ==
    LET text == Interp(<<Lit(StrV("n")), Num(c[3]),
                         IF c[3] = 1 THEN Lit(BoolV(TRUE)) ELSE Absent>>) IN
    Plain(<<Main(CASE c[2] = "print" -> <<Put(text)>>
                   [] c[2] = "chars" -> <<For("k", text, <<Put(Id("k"))>>)>>
                   [] c[2] = "several" ->
                        <<ExprStmt(Call(FieldOf(Id("sys"), "print"), IF c[3] = 1 THEN <<text, Num(4)>> ELSE <<>>))>>
                   [] c[2] = "error" -> <<ShowResult(Ask("err", <<IF c[3] = 1 THEN text ELSE Num(4)>>))>>)>>)

-----------------------------------------------------------------------------
(* and, or and not over calls that print, as a condition and as a value.    *)

LogicCases == {"logic"} \X {"and", "or"} \X BOOLEAN \X BOOLEAN \X {"if", "while", "value"}

LogicFile(c) ==
    LET say  == FnDecl("say", <<"sys", "b">>, <<SysT, BoolT>>, BoolT,
                       <<Put(Id("b")), Return(<<Id("b")>>)>>)
        ask(b) == Ask("say", <<Id("sys"), Lit(BoolV(b))>>)
        test == Binary(c[2], ask(c[3]), ask(c[4]))
        use  == CASE c[5] = "if"    -> <<Either(test, <<Say(1)>>, <<Say(2)>>)>>
                  [] c[5] = "while" -> <<While(test, <<Say(3), Break>>), Say(4)>>
                  [] c[5] = "value" -> <<Put(Unary("not", test))>>
    IN  Plain(<<say, Main(use)>>)

-----------------------------------------------------------------------------
(* The operators that the other programs do not use, on 7 and -7 and as     *)
(* the operator of an assignment.                                           *)

ArithmeticCases ==
    {"arith"} \X {"mul", "floordiv", "mod", "pow", "le", "gt", "ge", "assign"} \X {-7, -2, 0, 2, 7}

ArithmeticFile(c) ==
    LET k == IF c[3] < 0 THEN Unary("neg", Num(-c[3])) ELSE Num(c[3])
        do == IF c[2] = "assign" THEN <<Var("u", Id("t")), Assign("u", <<>>, "mul", Id("m")), Put(Id("u"))>>
              ELSE <<Put(Binary(c[2], Id("m"), Id("t")))>>
    IN  Plain(<<Main(<<Var("t", k), For("m", Items(<<Num(7), Unary("neg", Num(7))>>), do), Say(300)>>)>>)

-----------------------------------------------------------------------------
(* A script, and top-level lets in front of main.                           *)

ScriptCases == {"script"} \X {"script", "main"} \X {"fall", "break", "continue", "arm break"}

ScriptFile(c) ==
    LET bump == Proc("bump", <<"k">>, <<IntT>>, <<Add("total", Id("k"))>>)
        loop == Loop("list", "i", Leave(c[3], "i") \o
                    <<Do("bump", <<Id("i")>>), Put(Id("total"))>>)
        total == Var("total", Unary("neg", Num(5)))
    IN  IF c[2] = "script" THEN Plain(<<total, bump>> \o loop \o <<Say(300)>>)
        ELSE Plain(<<total, bump, Set("total", Num(7)), Main(loop \o <<Say(300)>>)>>)

-----------------------------------------------------------------------------
(* Where the engines differ.                                                *)

\* for n in 1..3: ... continue
RangeContinue == {"differ"} \X {"continue"} \X {"range", "incl", "open"}
\* Three differences in one line that is printed: a let in a block, an option
\* narrowed in it, and a[next()] += 1.
BlocksAndSlots == {"differ"} \X {"line"} \X {"if", "while", "for", "match"}

Divergences == RangeContinue \cup BlocksAndSlots

\* The line shows t as the block has left it, the calls of next, and the option.
DifferentLine(kind) ==
    LET next  == FnDecl("next", <<>>, <<>>, IntT, <<Add("calls", Num(1)), Return(<<Num(0)>>)>>)
        inner == <<Const("t", Num(2)), When(Eq(Id("x"), Absent), <<Return(<<>>)>>)>>
        block == CASE kind = "if"    -> When(Lt(Num(1), Num(2)), inner)
                   [] kind = "while" -> While(Lt(Num(1), Num(2)), inner \o <<Break>>)
                   [] kind = "for"   -> For("i", Nums(<<1>>), inner)
                   [] kind = "match" -> MatchOn(Num(1), <<Arm(Wildcard, inner)>>)
        print == Call(FieldOf(Id("sys"), "print"), <<Id("t"), Id("calls"), Id("x")>>)
    IN  Plain(<<Var("calls", Num(0)), next, Pick,
                Main(<<Const("t", Num(1)), Const("x", Ask("pick", <<Num(1)>>)), Var("a", Nums(<<5>>)),
                       block, Assign("a", <<Ask("next", <<>>)>>, "add", Num(1)),
                       ExprStmt(print)>>)>>)

DivergentFile(c) ==
    IF c[2] = "line" THEN DifferentLine(c[3])
    ELSE Plain(<<Main(Loop(c[3], "i", Leave("continue", "i") \o <<Put(Id("i"))>>))>>)

-----------------------------------------------------------------------------
\* The checker accepts these, and nothing but their data can go wrong,
Legal == LoopCases \cup NarrowCases \cup ValueCases \cup CallCases \cup ListCases
             \cup ({"record"} \X {"alias", "nested", "loop", "try"} \X (1..3)) \cup MapCases
             \cup ({"named"} \X {"user"} \X {1, 2}) \cup ({"interp"} \X {"print", "chars", "several"} \X (1..2))
             \cup LogicCases \cup ArithmeticCases \cup ScriptCases

\* it refuses some of these,
Mixed == Legal \cup (RecordCases \ ({"record"} \X {"match"} \X (1..3))) \cup NamedCases \cup InterpCases

\* and on these, too, the engines agree.
Agreeing == Mixed \cup OptionTry \cup OddCases \cup RecordCases

AllCases == Agreeing \cup Divergences

ProgramOf(c) ==
    CASE c[1] = "loop"   -> LoopFile(c)
      [] c[1] = "narrow" -> NarrowFile(c)
      [] c[1] = "value"  -> ValueFile(c)
      [] c[1] = "call"   -> CallFile(c)
      [] c[1] = "list"   -> ListFile(c)
      [] c[1] = "record" -> RecordFile(c)
      [] c[1] = "map"    -> MapFile(c)
      [] c[1] = "named"  -> NamedFile(c)
      [] c[1] = "interp" -> InterpFile(c)
      [] c[1] = "logic"  -> LogicFile(c)
      [] c[1] = "arith"  -> ArithmeticFile(c)
      [] c[1] = "script" -> ScriptFile(c)
      [] c[1] = "differ" -> DivergentFile(c)

=============================================================================
