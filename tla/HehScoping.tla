----------------------------- MODULE HehScoping -----------------------------
(***************************************************************************)
(* The free names of a file, by the text book: from the leaves upwards,    *)
(* with no table of scopes.  check.rs resolves names from the top down in  *)
(* a stack of scopes it pushes and pops (HehCheck); the two must agree,    *)
(* since at run time a name that is bound nowhere is no error any more:    *)
(* it silently denotes an enum variant of that name (HehValues!Resolve).   *)
(***************************************************************************)
EXTENDS HehSyntax, SequencesExt, FiniteSets

RECURSIVE Free(_), FreeIn(_)

FreeOfAll(es) == UNION {Free(es[i]) : i \in DOMAIN es}

\* The free names of an expression.
Free(e) ==
    CASE e.k = "lit" -> {}
      [] e.k = "id"  -> {e.n}
      [] e.k \in {"binary", "index"} -> Free(e.l) \cup Free(e.r)
      [] e.k \in {"unary", "field", "try"} -> Free(e.e)
      [] e.k \in {"list", "map", "record", "interp"} -> FreeOfAll(e.es)
      [] e.k = "step"    -> {}
      [] e.k = "call"    -> Free(e.callee) \cup FreeOfAll(e.es)
      [] e.k = "closure" -> FreeIn(e.body) \ ToSet(e.ps)

\* The names a statement binds for those behind it.
Binds(s) == IF s.k = "let" THEN {s.n} ELSE {}

PatNames(p) == IF p.k = "variant" THEN ToSet(p.ns) ELSE {}

FreeOf(s) ==
    CASE s.k \in {"expr", "let"} -> Free(s.e)
      [] s.k = "assign" -> {s.n} \cup FreeOfAll(s.tail) \cup Free(s.e)
      [] s.k = "if" ->
            Free(s.e) \cup FreeIn(s.body)
                \cup UNION {Free(s.elifs[i].cond) \cup FreeIn(s.elifs[i].body) : i \in DOMAIN s.elifs}
                \cup UNION {FreeIn(s.otherwise[i]) : i \in DOMAIN s.otherwise}
      [] s.k = "while" -> Free(s.e) \cup FreeIn(s.body)
      [] s.k = "for"   -> Free(s.e) \cup (FreeIn(s.body) \ {s.n})
      [] s.k = "match" ->
            Free(s.e) \cup UNION {FreeIn(s.arms[i].body) \ PatNames(s.arms[i].pat) : i \in DOMAIN s.arms}
      [] s.k = "return" -> FreeOfAll(s.es)
      [] s.k \in {"break", "continue"} -> {}
      [] s.k = "fn" -> FreeIn(s.body) \ ToSet(s.ps)

\* ... and of a block.
FreeIn(body) ==
    FoldRight(LAMBDA s, behind : FreeOf(s) \cup (behind \ Binds(s)), body, {})

\* A file may use its functions anywhere, its variables behind their lets.
FreeNames(file, globals) ==
    FreeIn(file.items) \ (globals \cup {file.fns[i].n : i \in DOMAIN file.fns})
=============================================================================
