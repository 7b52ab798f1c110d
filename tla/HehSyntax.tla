----------------------------- MODULE HehSyntax -----------------------------
(***************************************************************************)
(* The abstract syntax both engines consume (ast.rs), as records tagged    *)
(* with a kind k.  Spans are left out: they reach diagnostics only.  A     *)
(* type annotation is the type it resolves to (HehTypes); only the checker *)
(* reads it.  Floats are left out.                                         *)
(***************************************************************************)
EXTENDS Integers, Sequences

\* Expressions (ExprKind).  A literal holds the value it denotes.
Lit(v)            == [k |-> "lit", v |-> v]
Id(n)             == [k |-> "id", n |-> n]
Binary(op, l, r)  == [k |-> "binary", op |-> op, l |-> l, r |-> r]
Unary(op, e)      == [k |-> "unary", op |-> op, e |-> e]
Items(es)         == [k |-> "list", es |-> es]
\* A map literal: keys and values by turns.
Entries(es)       == [k |-> "map", es |-> es]
\* A record literal n { ns[1]: es[1], .. }.
RecordOf(n, ns, es) == [k |-> "record", n |-> n, ns |-> ns, es |-> es]
\* An interpolated string; its texts are literals.
Interp(es)        == [k |-> "interp", es |-> es]
FieldOf(e, f)     == [k |-> "field", e |-> e, f |-> f]
IndexOf(e, i)     == [k |-> "index", l |-> e, r |-> i]
TryOf(e, exits)   == [k |-> "try", e |-> e, exits |-> exits]
\* Parameters ps of types ts; ret is UnitT where the source has no arrow.
Closure(ps, ts, ret, body) ==
    [k |-> "closure", ps |-> ps, ts |-> ts, ret |-> ret, body |-> body]
\* names is empty when every argument is positional; otherwise it holds the name
\* of each argument, "" for a positional one.
NamedCall(callee, names, es) ==
    [k |-> "call", callee |-> callee, names |-> names, es |-> es]
Call(callee, es)  == NamedCall(callee, <<>>, es)

\* Statements; a block is a sequence of them.
ExprStmt(e)     == [k |-> "expr", e |-> e]
Let(n, e, mut)  == [k |-> "let", n |-> n, e |-> e, mut |-> mut]
\* name tail op= e.  The tail is a sequence of steps: an index expression, or
\* Step(f) to a field; op "" is a plain assignment.
Step(f) == [k |-> "step", f |-> f]
IsStep(step) == step.k = "step"
Assign(n, tail, op, e) == [k |-> "assign", n |-> n, tail |-> tail, op |-> op, e |-> e]
\* elifs is a sequence of [cond, body]; otherwise is a sequence of at most one
\* block, the Option<Block> of the source.
If(e, body, elifs, otherwise) ==
    [k |-> "if", e |-> e, body |-> body, elifs |-> elifs, otherwise |-> otherwise]
While(e, body)  == [k |-> "while", e |-> e, body |-> body]
For(n, e, body) == [k |-> "for", n |-> n, e |-> e, body |-> body]
\* arms is a sequence of [pat, body].
MatchOn(e, arms) == [k |-> "match", e |-> e, arms |-> arms]
Return(es)      == [k |-> "return", es |-> es]      \* at most one expression
Break           == [k |-> "break"]
Continue        == [k |-> "continue"]

\* Patterns.
Wildcard       == [k |-> "wild"]
LitPat(v)      == [k |-> "lit", v |-> v]
Variant(n, ns) == [k |-> "variant", n |-> n, ns |-> ns]

\* A function, and a file: its enums (from their names to the payload types of
\* each variant, by name), its records (from their names to their fields) and its
\* items, functions and top-level statements in source order.
FnDecl(n, ps, ts, ret, body) ==
    [k |-> "fn", n |-> n, ps |-> ps, ts |-> ts, ret |-> ret, body |-> body]

IsFn(item) == item.k = "fn"
File(enums, records, items) ==
    [enums |-> enums,
     records |-> records,
     items |-> items,
     fns   |-> SelectSeq(items, IsFn),
     tops  |-> SelectSeq(items, LAMBDA item : ~IsFn(item))]

-----------------------------------------------------------------------------
(* The order of evaluation.                                                 *)

\* `and` and `or` may leave their right operand out.
IsLogic(e) == e.k = "binary" /\ e.op \in {"and", "or"}

\* ok(v), err(v) and some(v) are written like calls.
IsWrap(e) ==
    e.callee.k = "id" /\ e.callee.n \in {"ok", "err", "some"} /\ Len(e.es) = 1 /\ e.names = <<>>

\* What any other expression evaluates before it does anything, left to right.
Operands(e) ==
    CASE e.k \in {"lit", "id", "closure"}             -> <<>>
      [] e.k \in {"unary", "field", "try"}            -> <<e.e>>
      [] e.k \in {"binary", "index"}                  -> <<e.l, e.r>>
      [] e.k \in {"list", "map", "record", "interp"}  -> e.es
      [] e.k = "call" /\ IsWrap(e)                    -> e.es
      [] e.k = "call" /\ ~IsWrap(e)                   -> <<e.callee>> \o e.es

\* What a statement evaluates once, before it does anything (of an assignment,
\* the compiler does so only when it has no tail).
Heads(st) ==
    CASE st.k \in {"expr", "let", "assign", "if", "for", "match"} -> <<st.e>>
      [] st.k = "return" -> st.es
      [] st.k \in {"while", "break", "continue"} -> <<>>

-----------------------------------------------------------------------------
\* A condition `x == none` or `x != none`, in either operand order: the name it
\* tests ("" for any other condition).
NoneTested(e) ==
    LET none(x) == x.k = "lit" /\ x.v = <<"none">> IN
    CASE e.k # "binary" \/ e.op \notin {"eq", "neq"} -> ""
      [] e.k = "binary" /\ e.op \in {"eq", "neq"} ->
            CASE e.l.k = "id" /\ none(e.r) -> e.l.n
              [] e.r.k = "id" /\ none(e.l) -> e.r.n
              [] OTHER -> ""

\* The comparison is `!=`: the name is not none where the condition holds.
TestsPresence(e) == NoneTested(e) # "" /\ e.op = "neq"
TestsAbsence(e)  == NoneTested(e) # "" /\ e.op = "eq"
=============================================================================
