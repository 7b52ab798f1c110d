------------------------------ MODULE HehCheck ------------------------------
(***************************************************************************)
(* The static checker (check.rs): the codes of the diagnostics it reports  *)
(* for a file.  `heh run` starts the program only if there is none.        *)
(*                                                                         *)
(* A checker state c is a record: the scopes, innermost last (each from    *)
(* names to [t, mut]), the declared return type ret of the function around *)
(* (none or one), the number loop of the loops around in it, the codes     *)
(* reported so far, the enums and records of the file and the types fns of *)
(* its functions.  An expression leaves all but the codes as they are:     *)
(* TypeOf gives its type and the codes it adds.                            *)
(***************************************************************************)
EXTENDS HehSyntax, HehTypes, SequencesExt

Builtins == {"len", "push", "map", "get", "set", "remove", "keys", "values", "ok", "err", "some"}

Report(c, codes) == [c EXCEPT !.codes = @ \cup codes]
If1(wrong, code) == IF wrong THEN {code} ELSE {}

\* A type, and the codes reported on the way to it.
Typed(t, codes) == [t |-> t, codes |-> codes]

\* x, with the codes of what was checked before it.
After(codes, x) == Typed(x.t, codes \cup x.codes)

IsError(t) == t = ErrorT

-----------------------------------------------------------------------------
(* Scopes. *)

PushScope(c) == [c EXCEPT !.scopes = Append(@, <<>>)]
PopScope(c)  == [c EXCEPT !.scopes = Front(@)]

DefineIn(scope, n, t, mut) ==
    [m \in DOMAIN scope \cup {n} |-> IF m = n THEN [t |-> t, mut |-> mut] ELSE scope[m]]

Define(c, n, t, mut) ==
    [c EXCEPT !.scopes[Len(c.scopes)] = DefineIn(@, n, t, mut)]

DefineAll(c, ns, ts) ==
    FoldLeft(LAMBDA st, i : Define(st, ns[i], ts[i], FALSE), c, [i \in DOMAIN ns |-> i])

\* The innermost scope that has n, or 0.
ScopeOf(c, n)  == SelectLastInSeq(c.scopes, LAMBDA scope : n \in DOMAIN scope)
Known(c, n)    == ScopeOf(c, n) # 0
Lookup(c, n)   == c.scopes[ScopeOf(c, n)][n]

\* A bug to detect: the scope of a loop's variable stays.
LeaveOpen(c) == c

\* pop_scope behind a loop's body or a match arm.
Leave(c) == PopScope(c)

RECURSIVE TypeOf(_, _), CheckStmt(_, _), AlwaysReturns(_, _)

CheckStmts(c, body) == FoldLeft(LAMBDA st, s : CheckStmt(s, st), c, body)

CheckBlock(c, body) == PopScope(CheckStmts(PushScope(c), body))

-----------------------------------------------------------------------------
(* Calls.  The arguments are checked from left to right before any of them  *)
(* is compared with a parameter.                                            *)

Args(es, c) == [i \in DOMAIN es |-> TypeOf(es[i], c)]
Types(args) == [i \in DOMAIN args |-> args[i].t]
Codes(args) == UNION {args[i].codes : i \in DOMAIN args}

SomeUnfit(params, ts) ==
    \E i \in DOMAIN params \cap DOMAIN ts : ~Compatible(params[i], ts[i])

\* The arguments that have a parameter are compared with it.
Unfit(params, ts) ==
    If1(Len(params) # Len(ts), "E0109") \cup If1(SomeUnfit(params, ts), "E0040")

\* A method's are compared only if their number is right.
UnfitFn(params, ts) ==
    IF Len(params) # Len(ts) THEN {"E0109"} ELSE If1(SomeUnfit(params, ts), "E0040")

\* The name given to the argument i of a call e, or "".
NameOf(e, i) == IF e.names = <<>> THEN "" ELSE e.names[i]
IsNamed(e, i) == NameOf(e, i) # ""

\* The arguments for what an earlier argument was for, too.
Again(places) == {i \in DOMAIN places : \E j \in 1..(i - 1) : places[j] = places[i]}

\* Some first argument for one of the places does not fit it.
SomeMisfit(params, places, ts) ==
    \E i \in DOMAIN ts \ Again(places) :
        places[i] \in DOMAIN params /\ ~Compatible(params[places[i]], ts[i])

\* check_named_call: the place of a positional argument is the number of those
\* up to it, that of a named one where its parameter is.  Positional arguments
\* come first, and every parameter gets one argument.
PlaceIn(ns, e, i) ==
    IF IsNamed(e, i) THEN SelectInSeq(ns, LAMBDA n : n = NameOf(e, i))
    ELSE Cardinality({j \in 1..i : ~IsNamed(e, j)})

LateArgument(e) == \E i \in DOMAIN e.es : ~IsNamed(e, i) /\ \E j \in 1..i : IsNamed(e, j)

\* A bug to detect: a parameter may be left without an argument.
UnfitTyped(e, params, places, ts) == If1(SomeMisfit(params, places, ts), "E0040")

UnfitPlaced(e, params, places, ts) ==
    If1(LateArgument(e) \/ Len(ts) # Len(params) \/ ToSet(places) # DOMAIN params, "E0109")
        \cup If1(SomeMisfit(params, places, ts), "E0040")

UnfitNamed(e, t, ts) ==
    UnfitPlaced(e, t[2], [i \in DOMAIN ts |-> PlaceIn(t[4], e, i)], ts)

\* A function value: the names are those of the function of the callee's name,
\* if the file has one.
ValuePlace(e, fns, i) ==
    CASE ~IsNamed(e, i) -> i
      [] IsNamed(e, i) /\ e.callee.k = "id" /\ e.callee.n \in DOMAIN fns ->
            SelectInSeq(fns[e.callee.n][4], LAMBDA n : n = NameOf(e, i))
      [] OTHER -> 0

UnfitValue(e, fns, params, ts) ==
    LET place(i) == ValuePlace(e, fns, i)
    IN  IF Len(params) # Len(ts) THEN {"E0109"}
        ELSE If1(\E i \in DOMAIN ts : place(i) \notin DOMAIN params, "E0109")
             \cup If1(\E i \in DOMAIN ts : /\ place(i) \in DOMAIN params
                                           /\ ~Compatible(params[place(i)], ts[i]), "E0040")

\* check_enum_constructor: a payload has no names.
UnfitPayload(e, params, ts) ==
    Unfit(params, ts)
        \cup If1(\E i \in DOMAIN params \cap DOMAIN ts : IsNamed(e, i), "E0109")

\* check_record_constructor: every field by its name, each once.
UnfitFields(e, fs, ts) ==
    LET places == [i \in DOMAIN ts |-> FieldAt(fs, NameOf(e, i))]
    IN  If1(Len(ts) # Len(fs) \/ ToSet(places) # DOMAIN fs, "E0109")
        \cup If1(SomeMisfit([p \in DOMAIN fs |-> fs[p][2]], places, ts), "E0040")

\* The builtins of one argument, and map: a wrong number ends the check.
CheckMap(ts) ==
    IF ~IsKind(ts[1], "list") \/ ~Unary1(ts[2]) THEN Typed(ErrorT, {"E0040"})
    ELSE Typed(ListT(ts[2][3]), If1(~Compatible(ts[1][2], ts[2][2][1]), "E0040"))

\* The others, called with the value they are a method of.
CheckMethodBuiltin(n, ts) ==
    IF ts = <<>> THEN Typed(ErrorT, {"E0109"})
    ELSE IF BuiltinMethod(ts[1], n) = <<>> THEN Typed(ErrorT, {"E0040"})
    ELSE LET method == BuiltinMethod(ts[1], n)[1]
         IN  Typed(method[3], UnfitFn(method[2], Tail(ts)))

CheckBuiltin(n, ts) ==
    CASE n \in {"some", "ok", "err"} /\ Len(ts) # 1 -> Typed(ErrorT, {"E0109"})
      [] n = "map" /\ Len(ts) # 2   -> Typed(ErrorT, {"E0109"})
      [] n = "map" /\ Len(ts) = 2   -> CheckMap(ts)
      [] n = "some" /\ Len(ts) = 1  -> Typed(OptionalT(ts[1]), {})
      [] n = "ok" /\ Len(ts) = 1    -> Typed(ResultT(ts[1]), {})
      [] n = "err" /\ Len(ts) = 1   ->
            Typed(ResultT(InferT), If1(~Compatible(StrT, ts[1]), "E0040"))
      [] OTHER                      -> CheckMethodBuiltin(n, ts)

\* l.map(f) is a list of what f returns.
MapReturn(e, ts, ret) ==
    IF e.callee.k = "field" /\ e.callee.f = "map" /\ ts # <<>> /\ Callable(ts[1])
    THEN ListT(ts[1][3]) ELSE ret

\* A variant without a payload, and a record of a declared type, is a value that
\* takes any arguments.  A builtin ignores the names of its arguments.
CheckCall(e, fns, t, ts) ==
    CASE IsKind(t, "builtin")  -> CheckBuiltin(t[2], ts)
      [] IsKind(t, "namedfn")  -> Typed(t[3], UnfitNamed(e, t, ts))
      [] IsKind(t, "recordctor") -> Typed(RecordValueT(t[2], t[3]), UnfitFields(e, t[3], ts))
      [] IsKind(t, "ctor")     -> Typed(EnumT(t[2]), UnfitPayload(e, t[3], ts))
      [] IsKind(t, "fn")       -> Typed(MapReturn(e, ts, t[3]), UnfitValue(e, fns, t[2], ts))
      [] IsKind(t, "variadic") -> Typed(t[3], If1(\E i \in DOMAIN ts : ~Compatible(t[2], ts[i]), "E0040"))
      [] t[1] \in {"enum", "record"} \/ IsError(t) -> Typed(t, {})
      [] OTHER -> Typed(ErrorT, {"E0058"})

\* The callee, the arguments and the call.
Called(e, fns, callee, args) ==
    After(callee.codes \cup Codes(args), CheckCall(e, fns, callee.t, Types(args)))

-----------------------------------------------------------------------------
(* Expressions. *)

NameType(n, c) ==
    IF Known(c, n) THEN Typed(Lookup(c, n).t, {})
    ELSE IF n \in DOMAIN c.fns THEN Typed(c.fns[n], {})
    ELSE Typed(ErrorT, {"E0011"})

LitType(v) ==
    CASE v[1] = "int"  -> IntT
      [] v[1] = "bool" -> BoolT
      [] v[1] = "str"  -> StrT
      [] v[1] = "none" -> InferT

\* A mismatch is reported unless an operand was.
Mismatch(l, r, codes) ==
    Typed(ErrorT, codes \cup If1(~IsError(l) /\ ~IsError(r), "E0040"))

\* == and != take anything; a range that does not count is an error nobody
\* reports.
BinaryType(e, l, r, codes) ==
    LET both(t) == l = t /\ r = t IN
    CASE e.op \in {"add", "sub", "mul", "floordiv", "mod", "pow"} ->
            IF both(IntT) THEN Typed(IntT, codes)
            ELSE IF e.op = "add" /\ both(StrT) THEN Typed(StrT, codes)
            ELSE Mismatch(l, r, codes)
      [] e.op \in {"eq", "neq"} -> Typed(BoolT, codes)
      [] e.op \in {"lt", "le", "gt", "ge"} ->
            IF both(IntT) THEN Typed(BoolT, codes) ELSE Mismatch(l, r, codes)
      [] e.op \in {"and", "or"} ->
            IF both(BoolT) THEN Typed(BoolT, codes) ELSE Mismatch(l, r, codes)
      [] e.op \in {"range", "range_inc"} ->
            IF l = IntT /\ (r = IntT \/ (e.r.k = "lit" /\ e.r.v[1] = "none"))
            THEN Typed(ListT(IntT), codes) ELSE Typed(ErrorT, codes)

UnaryType(op, t, codes) ==
    CASE op = "not" -> Typed(BoolT, codes \cup If1(~IsError(t) /\ t # BoolT, "E0040"))
      [] op = "neg" -> IF t = IntT \/ IsError(t) THEN Typed(t, codes)
                       ELSE Typed(ErrorT, codes \cup {"E0040"})

\* The first item that has a type sets it; the first that differs ends the list.
AddItem(st, t) ==
    IF st.t = InferT THEN [st EXCEPT !.t = t]
    ELSE IF ~IsError(t) /\ t # st.t
    THEN [t |-> ErrorT, codes |-> st.codes \cup {"E0040"}, over |-> TRUE]
    ELSE st

ItemsType(es, c) ==
    LET add(st, item) == [AddItem(st, item.t) EXCEPT !.codes = @ \cup item.codes]
        list(all) == Typed(ListT(all.t), all.codes)
    IN  list(FoldLeft(LAMBDA st, e : IF st.over THEN st ELSE add(st, TypeOf(e, c)),
                      [t |-> InferT, codes |-> {}, over |-> FALSE], es))

\* The keys of a map have one type, and so have its values.
Join(st, t) ==
    IF st.t = InferT THEN Typed(t, st.codes)
    ELSE IF ~IsError(t) /\ t # st.t THEN Typed(ErrorT, st.codes \cup {"E0040"})
    ELSE st

MapOf(keys, values) == Typed(MapT(keys.t, values.t), keys.codes \cup values.codes)

EntriesType(ts) ==
    LET every(r) == FoldLeft(Join, Typed(InferT, {}), [i \in 1..(Len(ts) \div 2) |-> ts[2 * i - r]])
    IN  MapOf(every(1), every(0))

\* A record literal has the fields it gives, whatever the type's declaration says.
RecordType(e, ts) == RecordValueT(e.n, [i \in DOMAIN ts |-> <<e.ns[i], ts[i]>>])

\* The parts of a literal have the types ts.
LiteralType(e, ts) ==
    CASE e.k = "map"    -> EntriesType(ts)
      [] e.k = "record" -> Typed(RecordType(e, ts), {})
      [] e.k = "interp" -> Typed(StrT, {})

\* Fields are looked up in the declaration of a RecordT.
Fields(c, t) == IF IsKind(t, "record") THEN c.records[t[2]] ELSE t[3]

HasField(c, t, f)    == IsRecord(t) /\ FieldAt(Fields(c, t), f) # 0
TypeOfField(c, t, f) == Fields(c, t)[FieldAt(Fields(c, t), f)][2]

\* A method of the value's type, a capability, a field; a function of the program
\* is none of these.
FieldType(c, t, f, codes) ==
    IF BuiltinMethod(t, f) # <<>> THEN Typed(BuiltinMethod(t, f)[1], codes)
    ELSE IF IsKind(t, "namespace") /\ NamespaceMember(t[2], f) # <<>>
    THEN Typed(NamespaceMember(t[2], f)[1], codes)
    ELSE IF HasField(c, t, f) THEN Typed(TypeOfField(c, t, f), codes)
    ELSE Typed(ErrorT, codes \cup If1(~IsError(t), "E0053"))

WrongIndex(idx) == If1(~IsError(idx) /\ idx # IntT, "E0055")

\* A key has the very type of the keys: a map literal without entries has none.
WrongKey(t, idx) == If1(~IsError(idx) /\ idx # t[2], "E0056")

IndexType(t, idx, codes) ==
    CASE IsKind(t, "list") -> Typed(t[2], codes \cup WrongIndex(idx))
      [] IsKind(t, "map")  -> Typed(t[3], codes \cup WrongKey(t, idx))
      [] t = StrT          -> Typed(StrT, codes \cup WrongIndex(idx))
      [] IsError(t)        -> Typed(t, codes)
      [] OTHER             -> Typed(ErrorT, codes \cup {"E0057"})

\* A try propagates to a function that returns the same wrapper, and anywhere
\* at the top level.
Propagates(t, ret) ==
    \/ ret = <<>>
    \/ t[1] \in {"result", "optional"} /\ ret[1][1] = t[1]

TryType(x, exits, c) ==
    LET kept == x.codes \cup If1(~exits /\ ~Propagates(x.t, c.ret) /\ ~IsError(x.t), "E0114")
    IN  CASE x.t[1] \in {"result", "optional"} -> Typed(x.t[2], kept)
          [] IsError(x.t) -> Typed(x.t, kept)
          [] OTHER        -> Typed(ErrorT, kept \cup {"E0021"})

-----------------------------------------------------------------------------
(* Functions. *)

\* match_is_exhaustive
Exhaustive(c, t, arms) ==
    LET pats   == {arms[i].pat : i \in DOMAIN arms}
        names  == {p.n : p \in {q \in pats : q.k = "variant"}}
        values == {p.v : p \in {q \in pats : q.k = "lit"}}
    IN  \/ \E p \in pats : p.k = "wild"
        \/ CASE IsKind(t, "enum")     -> DOMAIN c.enums[t[2]] \subseteq names
             [] IsKind(t, "optional") -> "some" \in names /\ <<"none">> \in values
             [] IsKind(t, "result")   -> {"ok", "err"} \subseteq names
             [] t = BoolT             -> {<<"bool", TRUE>>, <<"bool", FALSE>>} \subseteq values
             [] Open(t)               -> TRUE
             [] OTHER                 -> FALSE

Answer(yes, codes) == [yes |-> yes, codes |-> codes]

\* All of the blocks always return; the first that may not ends the question.
AllReturn(codes, bodies, c) ==
    LET and(st, next) == Answer(next.yes, st.codes \cup next.codes)
    IN  FoldLeft(LAMBDA st, body : IF st.yes THEN and(st, AlwaysReturns(body, c)) ELSE st,
                 Answer(TRUE, codes), bodies)

Arms(s)     == [i \in DOMAIN s.arms |-> s.arms[i].body]
Branches(s) == <<s.body>> \o [i \in DOMAIN s.elifs |-> s.elifs[i].body] \o s.otherwise

\* What the match s matches on is checked once more: on gives it.
MatchReturns(s, on, c) ==
    IF Exhaustive(c, on.t, s.arms) THEN AllReturn(on.codes, Arms(s), c)
    ELSE Answer(FALSE, on.codes)

IfReturns(s, all) == Answer(all.yes /\ s.otherwise # <<>>, all.codes)

LastReturns(s, c) ==
    CASE s.k = "return" -> Answer(TRUE, {})
      [] s.k = "if"     -> IfReturns(s, AllReturn({}, Branches(s), c))
      [] s.k = "match"  -> MatchReturns(s, TypeOf(s.e, c), c)
      [] OTHER          -> Answer(FALSE, {})

\* block_always_returns_typed, of a block checked before, in the scope of the
\* function's block.
AlwaysReturns(body, c) ==
    IF body = <<>> THEN Answer(FALSE, {}) ELSE LastReturns(Last(body), c)

\* The value of a body's last statement, if that is an expression, is the
\* function's; otherwise every path must return.
ValueEnd(codes, ret, value) ==
    codes \cup value.codes \cup If1(ret # UnitT /\ ~Compatible(ret, value.t), "E0040")

OpenEnd(codes, ret, always) ==
    codes \cup always.codes \cup If1(ret # UnitT /\ ~always.yes, "E0059")

Statements(body) == IF body # <<>> /\ Last(body).k = "expr" THEN Front(body) ELSE body

\* check_function_block of a body, in a scope within c, and what check_fn makes
\* of its answer; inner is the state behind the statements.
BodyEnd(inner, ret, body) ==
    IF body # <<>> /\ Last(body).k = "expr"
    THEN ValueEnd(inner.codes, ret, TypeOf(Last(body).e, inner))
    ELSE OpenEnd(inner.codes, ret, AlwaysReturns(body, inner))

CheckBody(c, ret, body) ==
    BodyEnd(CheckStmts(PushScope(c), Statements(body)), ret, body)

FunctionCodes(c, f) ==
    CheckBody([DefineAll(PushScope(c), f.ps, f.ts) EXCEPT !.ret = <<f.ret>>, !.codes = {}],
              f.ret, f.body)

\* A closure's body is in no loop of the function around it.
ClosureType(e, c) ==
    Typed(FnT(e.ts, e.ret), FunctionCodes([c EXCEPT !.loop = 0], e))

\* One expression, or two, and what is made of them.
OfOne(e, x, c) ==
    CASE e.k = "unary" -> UnaryType(e.op, x.t, x.codes)
      [] e.k = "field" -> FieldType(c, x.t, e.f, x.codes)

OfTwo(e, l, r) ==
    CASE e.k = "binary" -> BinaryType(e, l.t, r.t, l.codes \cup r.codes)
      [] e.k = "index"  -> IndexType(l.t, r.t, l.codes \cup r.codes)

\* Any number of them.
OfAll(e, args) == After(Codes(args), LiteralType(e, Types(args)))

TypeOf(e, c) ==
    CASE e.k = "lit"     -> Typed(LitType(e.v), {})
      [] e.k = "id"      -> NameType(e.n, c)
      [] e.k \in {"unary", "field"}  -> OfOne(e, TypeOf(e.e, c), c)
      [] e.k \in {"binary", "index"} -> OfTwo(e, TypeOf(e.l, c), TypeOf(e.r, c))
      [] e.k = "list"    -> ItemsType(e.es, c)
      [] e.k = "try"     -> TryType(TypeOf(e.e, c), e.exits, c)
      [] e.k = "closure" -> ClosureType(e, c)
      [] e.k \in {"map", "record", "interp"} -> OfAll(e, Args(e.es, c))
      [] e.k = "call"    -> Called(e, c.fns, TypeOf(e.callee, c), Args(e.es, c))

-----------------------------------------------------------------------------
(* Statements. *)

LetAs(c, s, x) == Define(Report(c, x.codes), s.n, x.t, s.mut)
CheckLet(c, s) == LetAs(c, s, TypeOf(s.e, c))

\* check_lvalue: an item of a list or a map, or a field of a record.
ItemOf(place, idx) ==
    LET codes == place.codes \cup idx.codes
    IN  IF place.t = StrT THEN Typed(ErrorT, codes \cup {"E0057"})
        ELSE IndexType(place.t, idx.t, codes)

FieldOfPlace(c, place, f) ==
    CASE IsRecord(place.t) /\ HasField(c, place.t, f) ->
            Typed(TypeOfField(c, place.t, f), place.codes)
      [] IsRecord(place.t) /\ ~HasField(c, place.t, f) ->
            Typed(ErrorT, place.codes \cup {"E0053"})
      [] IsError(place.t) -> place
      [] OTHER -> Typed(ErrorT, place.codes \cup {"E0054"})

StepTo(c, place, step) ==
    IF IsStep(step) THEN FieldOfPlace(c, place, step.f) ELSE ItemOf(place, TypeOf(step, c))

Place(c, s) ==
    IF ~Known(c, s.n) THEN Typed(ErrorT, {"E0011"})
    ELSE FoldLeft(LAMBDA place, step : StepTo(c, place, step),
                  Typed(Lookup(c, s.n).t, {}), s.tail)

\* Whether a compound assignment's operator takes the types is not asked.
AssignAs(c, s, l, r) ==
    Report(c, l.codes \cup r.codes \cup If1(~Compatible(l.t, r.t), "E0040")
                \cup If1(s.tail = <<>> /\ Known(c, s.n) /\ ~Lookup(c, s.n).mut, "E0010"))

CheckAssign(c, s) == AssignAs(c, s, Place(c, s), TypeOf(s.e, c))

Condition(c, x) == Report(c, x.codes \cup If1(~IsError(x.t) /\ x.t # BoolT, "E0041"))
CheckCondition(c, e) == Condition(c, TypeOf(e, c))

\* block_diverges
Diverges(body) == body # <<>> /\ Last(body).k \in {"return", "break", "continue"}

\* A bug to detect: a test for absence narrows behind any block.
NarrowAlways(body) == TRUE

\* The block of `if x == none` leaves what is around it: x is present behind.
NarrowsBehind(body) == Diverges(body)

\* The name an if narrows, if it is an optional.
Narrowed(c, e) ==
    NoneTested(e) # "" /\ Known(c, NoneTested(e))
        /\ IsKind(Lookup(c, NoneTested(e)).t, "optional")

\* The name keeps its mutability.
Narrow(c, n) == Define(c, n, Lookup(c, n).t[2], Lookup(c, n).mut)

\* Narrow n as it was known in c, in a scope of its own.
NarrowInside(c, n) ==
    Define(PushScope(c), n, Lookup(c, n).t[2], Lookup(c, n).mut)

CheckThen(c, s) ==
    IF Narrowed(c, s.e) /\ TestsPresence(s.e)
    THEN PopScope(CheckStmts(NarrowInside(c, NoneTested(s.e)), s.body))
    ELSE CheckBlock(c, s.body)

\* The condition is checked in c; its elifs and else see what narrowing left.
Behind(c, s) ==
    IF Narrowed(c, s.e) /\ TestsAbsence(s.e) /\ NarrowsBehind(s.body)
    THEN Narrow(c, NoneTested(s.e)) ELSE c

CheckElif(c, elif) == CheckBlock(CheckCondition(c, elif.cond), elif.body)

CheckIf(c, s) ==
    FoldLeft(CheckBlock,
             FoldLeft(CheckElif, Behind(CheckThen(CheckCondition(c, s.e), s), s), s.elifs),
             s.otherwise)


\* A bug to detect: the loop is not left behind its body.
InEveryLoop(c, body, n) == CheckStmts([c EXCEPT !.loop = @ + 1], body)

InLoop(c, body, n) ==
    [CheckStmts([c EXCEPT !.loop = @ + 1], body) EXCEPT !.loop = n]

CheckWhile(c, s) ==
    PopScope(InLoop(PushScope(CheckCondition(c, s.e)), s.body, c.loop))

\* The type of an item; a range is a list of ints, and a map gives its keys.
ItemType(t) ==
    CASE t[1] \in {"list", "map"} -> Typed(t[2], {})
      [] t = StrT          -> Typed(StrT, {})
      [] IsError(t)        -> Typed(ErrorT, {})
      [] OTHER             -> Typed(ErrorT, {"E0042"})

ForItem(c, s, item) == Define(PushScope(Report(c, item.codes)), s.n, item.t, FALSE)

ForOver(c, s, x) == ForItem(c, s, After(x.codes, ItemType(x.t)))

CheckFor(c, s) == Leave(InLoop(ForOver(c, s, TypeOf(s.e, c)), s.body, c.loop))

\* The types of the names a pattern binds in a value of type t: none when it is
\* no pattern of such values.
Bound(c, p, t) ==
    CASE p.k # "variant" -> <<>>
      [] p.k = "variant" /\ IsKind(t, "enum") ->
            IF p.n \in DOMAIN c.enums[t[2]] /\ Len(c.enums[t[2]][p.n]) = Len(p.ns)
            THEN c.enums[t[2]][p.n] ELSE <<>>
      [] p.k = "variant" /\ <<p.n, t[1]>> \in {<<"ok", "result">>, <<"some", "optional">>} ->
            IF Len(p.ns) = 1 THEN <<t[2]>> ELSE <<>>
      [] p.k = "variant" /\ <<p.n, t[1]>> = <<"err", "result">> ->
            IF Len(p.ns) = 1 THEN <<FailureT>> ELSE <<>>
      [] OTHER -> <<>>

\* Only the variants of an enum are held against their declaration.
PatternCodes(c, p, t) ==
    IF p.k # "variant" \/ ~IsKind(t, "enum") THEN {}
    ELSE IF p.n \notin DOMAIN c.enums[t[2]] THEN {"E0045"}
    ELSE If1(Len(c.enums[t[2]][p.n]) # Len(p.ns), "E0044")

ArmScope(c, arm, t, bound) ==
    Report(IF bound = <<>> THEN PushScope(c) ELSE DefineAll(PushScope(c), arm.pat.ns, bound),
           PatternCodes(c, arm.pat, t))

CheckArm(c, arm, t) ==
    Leave(CheckStmts(ArmScope(c, arm, t, Bound(c, arm.pat, t)), arm.body))

MatchAs(c, s, x) ==
    FoldLeft(LAMBDA st, arm : CheckArm(st, arm, x.t),
             Report(c, x.codes \cup If1(~Exhaustive(c, x.t, s.arms), "E0020")), s.arms)

CheckMatch(c, s) == MatchAs(c, s, TypeOf(s.e, c))

ReturnAs(c, x) ==
    Report(c, x.codes \cup (IF c.ret = <<>> THEN {"E0043"}
                             ELSE If1(~Compatible(c.ret[1], x.t), "E0040")))

CheckReturn(c, s) ==
    ReturnAs(c, IF s.es = <<>> THEN Typed(UnitT, {}) ELSE TypeOf(s.es[1], c))

CheckStmt(s, c) ==
    CASE s.k = "expr"   -> Report(c, TypeOf(s.e, c).codes)
      [] s.k = "let"    -> CheckLet(c, s)
      [] s.k = "assign" -> CheckAssign(c, s)
      [] s.k = "if"     -> CheckIf(c, s)
      [] s.k = "while"  -> CheckWhile(c, s)
      [] s.k = "for"    -> CheckFor(c, s)
      [] s.k = "match"  -> CheckMatch(c, s)
      [] s.k = "return" -> CheckReturn(c, s)
      [] s.k \in {"break", "continue"} -> Report(c, If1(c.loop = 0, "E0110"))
      [] s.k = "fn"     -> Report(c, FunctionCodes(c, s))

-----------------------------------------------------------------------------
(* Files. *)

\* A variant is a value of its enum, or a constructor if it has a payload.
VariantType(enum, payload) == IF payload = <<>> THEN EnumT(enum) ELSE CtorT(enum, payload)

\* sys, the builtins, the records, and the enums with their variants.
Globals(file) ==
    LET enumOf(v) == CHOOSE n \in DOMAIN file.enums : v \in DOMAIN file.enums[n]
        variants  == UNION {DOMAIN file.enums[n] : n \in DOMAIN file.enums}
        typeOf(n) == CASE n = "sys" -> SysT
                       [] n \in Builtins -> BuiltinT(n)
                       [] n \in variants -> VariantType(enumOf(n), file.enums[enumOf(n)][n])
                       [] n \in DOMAIN file.records -> RecordCtorT(n, file.records[n])
                       [] OTHER -> EnumT(n)
        types     == variants \cup DOMAIN file.enums \cup DOMAIN file.records
    IN  [n \in {"sys"} \cup Builtins \cup types |-> [t |-> typeOf(n), mut |-> FALSE]]

\* The types of the functions are known before any of them is checked.
Signatures(file) ==
    [n \in {file.fns[i].n : i \in DOMAIN file.fns} |->
        LET f == CHOOSE f \in Range(file.fns) : f.n = n IN NamedFnT(f.ps, f.ts, f.ret)]

\* check_file_in, before the first of the file's items.
Start(file) ==
    [scopes |-> <<Globals(file)>>, ret |-> <<>>, loop |-> 0, codes |-> {},
     enums |-> file.enums, records |-> file.records, fns |-> Signatures(file)]
=============================================================================
