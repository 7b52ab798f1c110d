----------------------------- MODULE HehValues -----------------------------
(***************************************************************************)
(* The run-time values of Heh, the heap both engines share, and the leaf   *)
(* operations on them (val.rs, and the helpers of eval.rs that the         *)
(* tree-walker and the bytecode VM both call).                             *)
(*                                                                         *)
(* A value is a tuple whose first element is its kind, so values of        *)
(* different kinds are comparable and differ.  Floats are not modelled.    *)
(***************************************************************************)
EXTENDS HehArithmetic, Sequences, FiniteSets, TLC

IntV(n)  == <<"int", n>>
BoolV(b) == <<"bool", b>>
StrV(s)  == <<"str", s>>
NoneV    == <<"none">>
SomeV(v) == <<"some", v>>
OkV(v)   == <<"ok", v>>
ErrV(m)  == <<"err", m>>
ListV(r) == <<"list", r>>
MapV(r)  == <<"map", r>>
RecordV(n, r)        == <<"record", n, r>>
EnumV(n, args)       == <<"enum", n, args>>
RangeV(lo, hi, incl) == <<"range", lo, hi, incl>>
BuiltinV(n)          == <<"builtin", n>>
BoundV(obj, m)       == <<"bound", obj, m>>
FnV(ps, body, env)   == <<"fn", ps, body, env>>
SysV == <<"sys">>

Kind(v) == v[1]

-----------------------------------------------------------------------------
(* What evaluating something gives: the heap afterwards and how it ended.   *)
(* "val" carries a value; "diag" a diagnostic's code and message; "exit" is *)
(* process::exit(1); "hang" a loop past its iteration bound.                *)

Res(h, tag, v)   == [h |-> h, tag |-> tag, v |-> v]
Val(h, v)        == Res(h, "val", v)
Diag(h, name)    == Res(h, "diag", <<name, "">>)
Propagate(h, m)  == Res(h, "diag", <<"E_TRY_PROPAGATE", m>>)
PropagateNone(h) == Res(h, "diag", <<"E_TRY_PROPAGATE_NONE", "none">>)

-----------------------------------------------------------------------------
(* The heap: the scopes (Rc<RefCell<Scope>>: a parent id, 0 for none, and   *)
(* the bindings), the lists (Rc<RefCell<Vec<Val>>>), the maps (as sequences *)
(* of a key and a value: HehMap), the fields of the records and the printed *)
(* lines.                                                                   *)

Global == 1

NewScope(h, parent) ==
    [h EXCEPT !.scopes = Append(@, [parent |-> parent, vars |-> <<>>])]

LastScope(h) == Len(h.scopes)

\* The innermost scope at or above s that binds n, or 0.
Owner(h, s, n) ==
    LET up[i \in 0..Len(h.scopes)] ==
            IF i = 0 THEN 0
            ELSE IF n \in DOMAIN h.scopes[i].vars THEN i
            ELSE up[h.scopes[i].parent]
    IN  up[s]

Lookup(h, s, n) == h.scopes[Owner(h, s, n)].vars[n].val

Defined(h, s, n) == Owner(h, s, n) # 0

\* A name bound nowhere denotes an enum variant.
Resolve(h, s, n) == IF Defined(h, s, n) THEN Lookup(h, s, n) ELSE EnumV(n, <<>>)

Define(h, s, n, v, mut) ==
    [h EXCEPT !.scopes[s].vars = (n :> [val |-> v, mut |-> mut]) @@ @]

\* Both engines report every refused assignment as E0103.
SetVar(h, s, n, v) ==
    LET o == Owner(h, s, n) IN
    IF o # 0 /\ h.scopes[o].vars[n].mut
    THEN Val([h EXCEPT !.scopes[o].vars[n].val = v], NoneV)
    ELSE Diag(h, "E0103")

\* Bind each of ns to the value at its place in vs, immutably, as far as both
\* go (`zip`); a later binding of the same name wins.
DefineAll(h, s, ns, vs) ==
    LET n == IF Len(ns) < Len(vs) THEN Len(ns) ELSE Len(vs)
        after[i \in 0..n] ==
            IF i = 0 THEN h ELSE Define(after[i-1], s, ns[i], vs[i], FALSE)
    IN  after[n]

\* Optional narrowing: rebind n, immutably, to the value inside its some(..).
Narrow(h, s, n) ==
    IF Defined(h, s, n) /\ Kind(Lookup(h, s, n)) = "some"
    THEN Define(h, s, n, Lookup(h, s, n)[2], FALSE)
    ELSE h

NewList(h, items) ==
    Val([h EXCEPT !.lists = Append(@, items)], ListV(Len(h.lists) + 1))

\* In a map of items m: where the key k is, and m with v at k and without k.
SlotsOf(m, k) == {i \in DOMAIN m : m[i][1] = k}

WithItem(m, k, v) ==
    IF SlotsOf(m, k) = {} THEN Append(m, <<k, v>>)
    ELSE [i \in DOMAIN m |-> IF i \in SlotsOf(m, k) THEN <<k, v>> ELSE m[i]]

WithoutKey(m, k) == SelectSeq(m, LAMBDA item : item[1] # k)

\* The map of keys and values by turns, put in from left to right.
NewMap(h, es) ==
    LET after[i \in 0..(Len(es) \div 2)] ==
            IF i = 0 THEN <<>> ELSE WithItem(after[i - 1], es[2 * i - 1], es[2 * i])
    IN  Val([h EXCEPT !.maps = Append(@, after[Len(es) \div 2])], MapV(Len(h.maps) + 1))

\* The last of several values for a field is the field's.
NewRecord(h, n, ns, vs) ==
    LET last(f) == CHOOSE i \in DOMAIN ns :
                      ns[i] = f /\ \A j \in DOMAIN ns : ns[j] = f => j <= i
        fields  == [f \in {ns[i] : i \in DOMAIN ns} |-> vs[last(f)]]
    IN  Val([h EXCEPT !.records = Append(@, fields)], RecordV(n, Len(h.records) + 1))

-----------------------------------------------------------------------------
(* Leaf operations. *)

ExpectBool(h, v) == IF Kind(v) = "bool" THEN Val(h, v) ELSE Diag(h, "E0104")

Both(l, r, kind) == Kind(l) = kind /\ Kind(r) = kind

\* Lists and records compare by what is in them, maps without their order; none
\* of these holds another that is compared.  Functions never equal anything.
Equal(h, l, r) ==
    LET items(v) == {h.maps[v[2]][i] : i \in DOMAIN h.maps[v[2]]} IN
    CASE Both(l, r, "list")   -> h.lists[l[2]] = h.lists[r[2]]
      [] Both(l, r, "map")    -> items(l) = items(r)
      [] Both(l, r, "record") -> l[2] = r[2] /\ h.records[l[3]] = h.records[r[3]]
      [] OTHER                -> Kind(l) # "fn" /\ l = r

\* partial_cmp: two ints compare; the other ordered kinds are not used.
Less(l, r) == Both(l, r, "int") /\ l[2] < r[2]

Arithmetic == {"add", "sub", "mul", "floordiv", "mod", "pow"}

\* On integers.  `/` gives a float and is left out.
IntOp(h, op, i, j) ==
    CASE op = "add" -> Val(h, IntV(i + j))
      [] op = "sub" -> Val(h, IntV(i - j))
      [] op = "mul" -> Val(h, IntV(i * j))
      [] op \in {"floordiv", "mod"} /\ j = 0 -> Diag(h, "E0200")
      [] op = "floordiv" /\ j # 0 -> Val(h, IntV(FloorDiv(i, j)))
      [] op = "mod" /\ j # 0      -> Val(h, IntV(FloorMod(i, j)))
      [] op = "pow" /\ j < 0      -> Diag(h, "E0201")
      [] op = "pow" /\ j >= 0     -> Val(h, IntV(PowInt(i, j)))

BinOp(h, op, l, r) ==
    CASE op = "eq"        -> Val(h, BoolV(Equal(h, l, r)))
      [] op = "neq"       -> Val(h, BoolV(~Equal(h, l, r)))
      [] op = "lt"        -> Val(h, BoolV(Less(l, r)))
      [] op = "le"        -> Val(h, BoolV(Less(l, r) \/ Equal(h, l, r)))
      [] op = "gt"        -> Val(h, BoolV(Less(r, l)))
      [] op = "ge"        -> Val(h, BoolV(Less(r, l) \/ Equal(h, l, r)))
      [] op = "range"     -> Val(h, RangeV(l, r, FALSE))
      [] op = "range_inc" -> Val(h, RangeV(l, r, TRUE))
      [] op = "add" /\ Both(l, r, "str") -> Val(h, StrV(l[2] \o r[2]))
      [] op \in Arithmetic /\ Both(l, r, "int") -> IntOp(h, op, l[2], r[2])
      [] op \in Arithmetic /\ ~Both(l, r, "int") /\ ~(op = "add" /\ Both(l, r, "str")) ->
            Diag(h, "E0104")

UnOp(h, op, v) ==
    CASE op = "neg" /\ Kind(v) = "int"  -> Val(h, IntV(-v[2]))
      [] op = "not" /\ Kind(v) = "bool" -> Val(h, BoolV(~v[2]))
      [] OTHER -> Diag(h, "E0104")

\* The text of a value (fmt), of those that are written in other strings.
Text(v) ==
    CASE Kind(v) = "str"  -> v[2]
      [] Kind(v) = "int"  -> ToString(v[2])
      [] Kind(v) = "bool" -> IF v[2] THEN "true" ELSE "false"
      [] Kind(v) = "none" -> "none"

\* ok(v), some(v) and err(v); an error is a text.
Wrap(ctor, v) ==
    CASE ctor = "ok"   -> OkV(v)
      [] ctor = "some" -> SomeV(v)
      [] ctor = "err"  -> ErrV(Text(v))

\* An interpolated string.
Concat(vs) ==
    LET upto[i \in 0..Len(vs)] == IF i = 0 THEN "" ELSE upto[i - 1] \o Text(vs[i])
    IN  StrV(upto[Len(vs)])

\* `try v`, or `try v else exit` when exits holds.
TryValue(h, v, exits) ==
    CASE Kind(v) \in {"ok", "some"}              -> Val(h, v[2])
      [] Kind(v) \in {"err", "none"} /\ exits    -> Res(h, "exit", NoneV)
      [] Kind(v) = "err" /\ ~exits               -> Propagate(h, v[2])
      [] Kind(v) = "none" /\ ~exits              -> PropagateNone(h)
      [] OTHER                                   -> Diag(h, "E0112")

\* Any field but an error's msg, a record's own, or a capability of sys, names a
\* method.
FieldGet(h, obj, f) ==
    CASE obj = SysV /\ f = "print"       -> Val(h, BuiltinV("sys.print"))
      [] Kind(obj) = "err" /\ f = "msg"  -> Val(h, StrV(obj[2]))
      [] Kind(obj) = "err" /\ f # "msg"  -> Diag(h, "E0105")
      [] Kind(obj) = "record" /\ f \in DOMAIN h.records[obj[3]] ->
            Val(h, h.records[obj[3]][f])
      [] OTHER                           -> Val(h, BoundV(obj, f))

\* A field of a record is there from the start or never.
FieldSet(h, obj, f, v) ==
    IF Kind(obj) = "record" /\ f \in DOMAIN h.records[obj[3]]
    THEN Val([h EXCEPT !.records[obj[3]][f] = v], NoneV)
    ELSE Diag(h, "E0102")

\* `i.to_f64() as usize` saturates: every negative index reads slot 0.
ListGet(h, items, idx) ==
    LET slot == IF idx[2] < 0 THEN 0 ELSE idx[2] IN
    IF Kind(idx) = "int" /\ slot < Len(items) THEN Val(h, items[slot + 1])
    ELSE Diag(h, "E0106")

MapGet(h, m, k) ==
    IF SlotsOf(m, k) = {} THEN Diag(h, "E0106")
    ELSE Val(h, m[CHOOSE i \in SlotsOf(m, k) : TRUE][2])

IndexGet(h, obj, idx) ==
    CASE Kind(obj) = "list" -> ListGet(h, h.lists[obj[2]], idx)
      [] Kind(obj) = "map"  -> MapGet(h, h.maps[obj[2]], idx)
      [] OTHER              -> Diag(h, "E0106")

\* `to_usize` refuses a negative index, unlike ListGet.
ListSet(h, r, idx, v) ==
    IF Kind(idx) # "int" THEN Diag(h, "E0102")
    ELSE IF idx[2] \in 0..(Len(h.lists[r]) - 1)
    THEN Val([h EXCEPT !.lists[r][idx[2] + 1] = v], NoneV)
    ELSE Diag(h, "E0106")

\* A key of a map need not be there.
IndexSet(h, obj, idx, v) ==
    CASE Kind(obj) = "list" -> ListSet(h, obj[2], idx, v)
      [] Kind(obj) = "map"  -> Val([h EXCEPT !.maps[obj[2]] = WithItem(@, idx, v)], NoneV)
      [] OTHER              -> Diag(h, "E0102")

-----------------------------------------------------------------------------
(* Iteration.  A list and the keys of a map are iterated over a snapshot,   *)
(* so changing it in the loop changes nothing, and a string by its          *)
(* characters; a range counts, for ever when its bound is none.             *)

Chars(s) == [i \in 1..Len(s) |-> StrV(SubSeq(s, i, i))]

KeysOf(m)   == [i \in DOMAIN m |-> m[i][1]]
ValuesOf(m) == [i \in DOMAIN m |-> m[i][2]]

Iterator(h, v) ==
    CASE Kind(v) = "range" ->
            Val(h, [k |-> "range", next |-> v[2], end |-> v[3], incl |-> v[4]])
      [] Kind(v) = "list"  ->
            Val(h, [k |-> "list", items |-> h.lists[v[2]], idx |-> 1])
      [] Kind(v) = "map"   ->
            Val(h, [k |-> "list", items |-> KeysOf(h.maps[v[2]]), idx |-> 1])
      [] Kind(v) = "str"   ->
            Val(h, [k |-> "list", items |-> Chars(v[2]), idx |-> 1])
      [] OTHER -> Diag(h, "E0104")

HasItem(it) ==
    IF it.k = "list" THEN it.idx <= Len(it.items)
    ELSE \/ it.end = NoneV
         \/ ~it.incl /\ Less(it.next, it.end)
         \/ it.incl /\ ~Less(it.end, it.next)

Item(it) == IF it.k = "list" THEN it.items[it.idx] ELSE it.next

\* Range bounds are ints here, so adding one never faults.
Advance(it) ==
    IF it.k = "list" THEN [it EXCEPT !.idx = @ + 1]
    ELSE [it EXCEPT !.next = IntV(@[2] + 1)]

-----------------------------------------------------------------------------
\* A pattern of a record names its fields, as many as it has.
MatchesFields(ns, fields) ==
    /\ Len(ns) = Cardinality(DOMAIN fields)
    /\ \A i \in DOMAIN ns : ns[i] \in DOMAIN fields

\* Does pattern p match v, and which values does it then bind to p.ns?
Matches(p, v, h) ==
    CASE p.k = "wild" -> TRUE
      [] p.k = "lit"  -> Equal(h, v, p.v)
      [] p.k = "variant" /\ p.n \in {"ok", "some", "err"} ->
            Kind(v) = p.n /\ Len(p.ns) = 1
      [] p.k = "variant" /\ p.n \notin {"ok", "some", "err"} ->
            \/ Kind(v) = "enum" /\ v[2] = p.n /\ Len(p.ns) = Len(v[3])
            \/ Kind(v) = "record" /\ v[2] = p.n /\ MatchesFields(p.ns, h.records[v[3]])

\* Bind them in scope s.  An err pattern binds the whole err(..).
BindPattern(h, s, p, v) ==
    CASE p.k # "variant"                        -> h
      [] p.k = "variant" /\ Kind(v) = "err"     -> DefineAll(h, s, p.ns, <<v>>)
      [] p.k = "variant" /\ Kind(v) = "enum"    -> DefineAll(h, s, p.ns, v[3])
      [] p.k = "variant" /\ Kind(v) = "record"  ->
            DefineAll(h, s, p.ns, [i \in DOMAIN p.ns |-> h.records[v[3]][p.ns[i]]])
      [] p.k = "variant" /\ Kind(v) \in {"ok", "some"} ->
            DefineAll(h, s, p.ns, <<v[2]>>)

-----------------------------------------------------------------------------
\* What printing shows: a list its items, a map its keys and values, a record
\* its fields (in any order: fmt walks a HashMap).  None of these holds another
\* that is printed.
Show(h, v) ==
    CASE Kind(v) = "list"   -> <<"items", h.lists[v[2]]>>
      [] Kind(v) = "map"    -> <<"entries", h.maps[v[2]]>>
      [] Kind(v) = "record" -> <<"fields", v[2], h.records[v[3]]>>
      [] OTHER              -> v

\* The item of a list (no negative index here) or a map, if there is one.
Answer(h, obj, idx) ==
    LET got == IndexGet(h, obj, idx) IN
    IF got.tag = "val" /\ ~(Kind(obj) = "list" /\ idx[2] < 0) THEN SomeV(got.v) ELSE NoneV

\* The builtins that call no function back, of the arguments they are made for.
LeafBuiltin(h, n, args) ==
    CASE n = "sys.print" ->
            Val([h EXCEPT !.out = Append(@, [i \in DOMAIN args |-> Show(h, args[i])])], NoneV)
      [] n = "len"  ->
            Val(h, IntV(Len(CASE Kind(args[1]) = "str"  -> args[1][2]
                              [] Kind(args[1]) = "list" -> h.lists[args[1][2]]
                              [] Kind(args[1]) = "map"  -> h.maps[args[1][2]])))
      [] n = "push" -> Val([h EXCEPT !.lists[args[1][2]] = Append(@, args[2])], NoneV)
      [] n = "get"  -> Val(h, Answer(h, args[1], args[2]))
      [] n = "set"  -> IndexSet(h, args[1], args[2], args[3])
      [] n = "remove" -> Val([h EXCEPT !.maps[args[1][2]] = WithoutKey(@, args[2])], NoneV)
      [] n = "keys"   -> NewList(h, KeysOf(h.maps[args[1][2]]))
      [] n = "values" -> NewList(h, ValuesOf(h.maps[args[1][2]]))

Builtins == {"len", "push", "map", "get", "set", "remove", "keys", "values"}

\* The heap `prepare` leaves: the builtins, the functions and sys, all global.
InitialHeap(fns) ==
    LET fixed(v) == [val |-> v, mut |-> FALSE]
        named(n) == fns[CHOOSE i \in DOMAIN fns : fns[i].n = n]
        globals  ==
            ("sys" :> fixed(SysV))
            @@ [n \in {fns[i].n : i \in DOMAIN fns} |->
                    fixed(FnV(named(n).ps, named(n).body, Global))]
            @@ [n \in Builtins |-> fixed(BuiltinV(n))]
    IN  [scopes |-> <<[parent |-> 0, vars |-> globals]>>,
         lists  |-> <<>>,
         maps   |-> <<>>,
         records |-> <<>>,
         out    |-> <<>>]
=============================================================================
