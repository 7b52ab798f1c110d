------------------------------- MODULE MCCode -------------------------------
(***************************************************************************)
(* The bytecode of small programs, and the heights at each of its          *)
(* instructions.                                                           *)
(***************************************************************************)
EXTENDS MCPrograms, HehCompile, HehOps

CONSTANT Cases   \* the names of the programs to run

\* The function f, written so that TLC evaluates it once and keeps the table.
Table(f) == f @@ <<>>

-----------------------------------------------------------------------------
(* The syntax of the programs. *)

\* The nodes that x is made of.
Under(x) ==
    IF x.k \in {"expr", "let", "assign", "if", "for", "match", "return", "while", "break",
                "continue"}
    THEN UNION {Range(block) : block \in Blocks(x)}
    ELSE Range(Operands(x)) \cup (IF x.k = "call" THEN Range(x.es) ELSE {})

RECURSIVE Nodes(_)
Nodes(x) == {x} \cup UNION {Nodes(y) : y \in Under(x)}

RECURSIVE NodeDepth(_)
NodeDepth(x) == 1 + Max({NodeDepth(y) : y \in Under(x)} \cup {0})

\* The expressions a statement itself evaluates.
ExprsOf(s) ==
    Range(Heads(s))
        \cup (IF s.k \in {"while", "assign"} THEN {s.e} ELSE {})
        \cup (IF s.k = "assign" THEN {x \in Range(s.tail) : ~IsStep(x)} ELSE {})
        \cup (IF s.k = "if" THEN {s.elifs[i].cond : i \in DOMAIN s.elifs} ELSE {})

StmtsOf(file) ==
    UNION {Nodes(s) : s \in Range(file.tops) \cup UNION {Range(fn.body) : fn \in Range(file.fns)}}

AllStmts == UNION {StmtsOf(ProgramOf(c)) : c \in Cases}

AllExprs == UNION {Nodes(e) : e \in UNION {ExprsOf(s) : s \in AllStmts}}

RECURSIVE Leaves(_)
Leaves(s) ==
    \/ s.k \in {"break", "continue"}
    \/ s.k \in {"if", "match"} /\ \E x \in Under(s) : Leaves(x)

\* The compiler is given legal files only.
ASSUME LegalAssumption ==
    \A c \in Cases : IsFile(ProgramOf(c), {s \in AllStmts : ~Leaves(s)})

-----------------------------------------------------------------------------
Compiled ==
    Table([c \in Cases |-> [Compile(ProgramOf(c)) EXCEPT !.fns = Table(@)]])

\* H extended to every instruction that those in todo lead to.
RECURSIVE Spread(_, _, _)
Spread(ops, H, todo) ==
    IF todo = {} THEN H
    ELSE LET ip == CHOOSE i \in todo : TRUE
             o  == ops[ip]
             to == (IF Falls(o) THEN ip + 1 :> After(o, H[ip]) ELSE <<>>)
                   @@ (IF Jumps(o) THEN o.t :> AfterJump(o, H[ip]) ELSE <<>>)
         IN  Spread(ops, H @@ to, (todo \ {ip}) \cup (DOMAIN to \ DOMAIN H))

\* The heights at every instruction of a chunk that its start reaches.
ChunkHeights(chunk) ==
    Spread(chunk.ops, 1 :> [stack |-> 0, iters |-> 0, scopes |-> 1], {1})

HeightsOf(compiled) ==
    Table([i \in 0..Len(compiled.fns) |->
              ChunkHeights(IF i = 0 THEN compiled.top ELSE compiled.fns[i])])

HeightsOfAll == Table([c \in Cases |-> HeightsOf(Compiled[c])])
=============================================================================
