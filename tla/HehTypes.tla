------------------------------ MODULE HehTypes ------------------------------
(***************************************************************************)
(* The checker's types (Ty in check.rs) and the tables it looks them up    *)
(* in.  A type is a tuple whose first element is its kind.  Floats are     *)
(* left out; Any occurs only as the parameter of sys.print.                *)
(***************************************************************************)
EXTENDS Sequences, SequencesExt

IntT          == <<"int">>
BoolT         == <<"bool">>
StrT          == <<"str">>
UnitT         == <<"unit">>
AnyT          == <<"any">>
InferT        == <<"infer">>     \* of `none`, `err(..)` and `[]`
ErrorT        == <<"error">>     \* reported already
ListT(t)      == <<"list", t>>
OptionalT(t)  == <<"optional", t>>
ResultT(t)    == <<"result", t>>
EnumT(n)      == <<"enum", n>>
FnT(ts, ret)      == <<"fn", ts, ret>>
NamedFnT(ns, ts, ret) == <<"namedfn", ts, ret, ns>>
VariadicT(t, ret) == <<"variadic", t, ret>>
CtorT(n, ts)      == <<"ctor", n, ts>>
MapT(k, v)        == <<"map", k, v>>
\* The fields of a record are a sequence of names and types.  A RecordT has those
\* of its declaration, a RecordValueT brings its own.
RecordT(n)           == <<"record", n>>
RecordValueT(n, fs)  == <<"recordvalue", n, fs>>
RecordCtorT(n, fs)   == <<"recordctor", n, fs>>
NamespaceT(n)     == <<"namespace", n>>
BuiltinT(n)       == <<"builtin", n>>
\* The record that an err(e) pattern binds.
FailureT == RecordValueT("error", <<<<"msg", StrT>>>>)

SysT == NamespaceT("sys")

IsKind(t, kind) == t[1] = kind
Callable(t)     == t[1] \in {"fn", "namedfn"}
Wrapper(t)      == t[1] \in {"list", "optional", "result"}
IsRecord(t)     == t[1] \in {"record", "recordvalue"}
Open(t)         == t \in {AnyT, InferT, ErrorT}

\* The place of the field f, or 0.
FieldAt(fs, f) == SelectInSeq(fs, LAMBDA field : field[1] = f)

\* types_compatible: the expected and the actual type are equal, or one of them
\* is open, or they are built alike from compatible types; of a record only the
\* name is compared.
RECURSIVE Compatible(_, _)
Compatible(a, b) ==
    \/ a = b
    \/ Open(a) \/ Open(b)
    \/ Wrapper(a) /\ a[1] = b[1] /\ Compatible(a[2], b[2])
    \/ IsKind(a, "map") /\ IsKind(b, "map") /\ Compatible(a[2], b[2]) /\ Compatible(a[3], b[3])
    \/ IsRecord(a) /\ IsRecord(b) /\ a[2] = b[2]
    \/ /\ Callable(a) /\ Callable(b)
       /\ Len(a[2]) = Len(b[2])
       /\ \A i \in DOMAIN a[2] : Compatible(a[2][i], b[2][i])
       /\ Compatible(a[3], b[3])

\* builtin_method: the method f of a value of type t, without the receiver, or
\* nothing.  (Of the methods of strings and lists, those the engines' model has.)
BuiltinMethod(t, f) ==
    CASE f = "len" /\ t[1] \in {"str", "list", "map"} -> <<FnT(<<>>, IntT)>>
      [] f = "push" /\ IsKind(t, "list") -> <<FnT(<<t[2]>>, UnitT)>>
      [] f = "map" /\ IsKind(t, "list")  ->
            <<FnT(<<FnT(<<t[2]>>, InferT)>>, ListT(InferT))>>
      [] f = "get" /\ IsKind(t, "list")  -> <<FnT(<<IntT>>, OptionalT(t[2]))>>
      [] f = "get" /\ IsKind(t, "map")   -> <<FnT(<<t[2]>>, OptionalT(t[3]))>>
      [] f = "set" /\ IsKind(t, "map")   -> <<FnT(<<t[2], t[3]>>, UnitT)>>
      [] f = "remove" /\ IsKind(t, "map") -> <<FnT(<<t[2]>>, UnitT)>>
      [] f = "keys" /\ IsKind(t, "map")   -> <<FnT(<<>>, ListT(t[2]))>>
      [] f = "values" /\ IsKind(t, "map") -> <<FnT(<<>>, ListT(t[3]))>>
      [] OTHER -> <<>>

\* namespace_member, of sys.
NamespaceMember(n, f) ==
    IF n = "sys" /\ f = "print" THEN <<VariadicT(AnyT, UnitT)>> ELSE <<>>

\* callable_unary
Unary1(t) == Callable(t) /\ Len(t[2]) = 1
=============================================================================
