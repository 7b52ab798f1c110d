----------------------------- MODULE MCImports -----------------------------
(***************************************************************************)
(* All import graphs of three files, for TLC: each file imports up to two  *)
(* others or itself, or lacks, or has a fault.                             *)
(***************************************************************************)
EXTENDS HehImports

Quoted(f) == [form |-> "file", name |-> f]

Standard(x) == [form |-> "std", name |-> x]

Source(uses, fault) == [uses |-> uses, fault |-> fault]

Lists(n, s) == UNION {[1..k -> s] : k \in 0..n}

Imports(n, fault) == {Source(uses, fault) : uses \in Lists(n, {Quoted(f) : f \in Files})}

\* For graphs that stay as they are ...
AllGraphs ==
    Imports(2, "none") \cup Imports(1, "type") \cup {Source(<<>>, "syntax")}
    \cup {Source(<<Standard(x), Quoted(f)>>, "none") : x \in Std, f \in Files}

\* ... and for graphs that change.
SomeGraphs ==
    Imports(1, "none")
    \cup {Source(<<Quoted(f), Quoted(g)>>, "none") : f, g \in Files \ {Main}}

\* Imports of files whose names the standard library has, in every form.
AllForms == {Source(uses, "none") : uses \in Lists(1, [form : Forms, name : Files])}
=============================================================================
