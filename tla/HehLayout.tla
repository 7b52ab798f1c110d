----------------------------- MODULE HehLayout -----------------------------
(***************************************************************************)
(* How the lexer turns indentation and line ends into INDENT, DEDENT and   *)
(* NEWLINE (lexer.rs: run, layout, lex_logical_line; SPEC.md section 3).   *)
(*                                                                         *)
(* The source is chosen as it is read: any line, token or end of file can  *)
(* come next wherever the lexer looks at the next character.  Of the       *)
(* tokens only what the parser's blocks depend on is kept: the last one,   *)
(* and how many blocks those so far leave open.                            *)
(***************************************************************************)
EXTENDS Naturals, Sequences

CONSTANTS
    Unit,        \* the width of a level: 4
    MaxWidth,    \* bounds the width of an indentation
    MaxOpen      \* bounds the brackets open at a time

ASSUME UnitAssumption  == Unit \in Nat \ {0}
ASSUME BoundAssumption == MaxWidth \in Nat /\ MaxOpen \in Nat

Brackets == {"(", "[", "{"}

VARIABLES
    indents,    \* the widths of the open levels
    open,       \* the open brackets
    phase,      \* "line": behind a line end; "logical": in a line; "end": behind the
                \* last one; "done"; or a diagnostic
    width,      \* the indentation of the line
    last,       \* the last token: "none", "Indent", "Dedent", "Newline", "Eof" or "Token"
    blocks      \* INDENTs less DEDENTs

vars == <<indents, open, phase, width, last, blocks>>

Top == indents[Len(indents)]

-----------------------------------------------------------------------------
(* At the start of a physical line, with all brackets closed.                *)

\* A blank or comment-only line has no layout, whatever its width.
SkipLine == phase = "line" /\ UNCHANGED vars

Tab ==
    /\ phase = "line"
    /\ phase' = "E0001"
    /\ UNCHANGED <<indents, open, width, last, blocks>>

SameLevel ==
    /\ phase = "line"
    /\ phase' = "logical"
    /\ width' = Top
    /\ UNCHANGED <<indents, open, last, blocks>>

\* A bug: any deeper line opens a block.
IndentAnywhere ==
    /\ phase = "line"
    /\ \E w \in Top + 1..MaxWidth :
          /\ indents' = Append(indents, w)
          /\ phase' = "logical"
          /\ width' = w
    /\ last' = "Indent"
    /\ blocks' = blocks + 1
    /\ UNCHANGED open

Indent ==
    /\ phase = "line"
    /\ \E w \in Top + 1..MaxWidth :
          /\ w = Top + Unit
          /\ indents' = Append(indents, w)
          /\ phase' = "logical"
          /\ width' = w
    /\ last' = "Indent"
    /\ blocks' = blocks + 1
    /\ UNCHANGED open

BadIndent ==
    /\ phase = "line"
    /\ \E w \in Top + 1..MaxWidth : w # Top + Unit
    /\ phase' = "E0002"
    /\ UNCHANGED <<indents, open, width, last, blocks>>

\* Levels wider than w are popped, a DEDENT for each; n are left.
Left(w, n) ==
    /\ n \in DOMAIN indents
    /\ indents[n] <= w
    /\ \A i \in n + 1..Len(indents) : w < indents[i]

\* A bug: a level as wide as the line is popped, too (<= for <).
DedentEqual ==
    /\ phase = "line"
    /\ \E n \in 1..Len(indents) - 1, w \in 0..MaxWidth :
          /\ w < Top
          /\ Left(w, n)
          /\ LET kept == IF w = indents[n] THEN n - 1 ELSE n IN
             /\ indents' = SubSeq(indents, 1, kept)
             /\ blocks' = blocks - (Len(indents) - kept)
          /\ width' = w
          /\ phase' = "E0002"
    /\ last' = "Dedent"
    /\ UNCHANGED open

\* A bug: one DEDENT, however many levels end.
DedentOnce ==
    /\ phase = "line"
    /\ \E n \in 1..Len(indents) - 1, w \in 0..MaxWidth :
          /\ w < Top
          /\ Left(w, n)
          /\ indents' = SubSeq(indents, 1, n)
          /\ blocks' = blocks - 1
          /\ width' = w
          /\ phase' = IF w = indents[n] THEN "logical" ELSE "E0002"
    /\ last' = "Dedent"
    /\ UNCHANGED open

Dedent ==
    /\ phase = "line"
    /\ \E n \in 1..Len(indents) - 1, w \in 0..MaxWidth :
          /\ w < Top
          /\ Left(w, n)
          /\ indents' = SubSeq(indents, 1, n)
          /\ blocks' = blocks - (Len(indents) - n)
          /\ width' = w
          /\ phase' = IF w = indents[n] THEN "logical" ELSE "E0002"
    /\ last' = "Dedent"
    /\ UNCHANGED open

-----------------------------------------------------------------------------
(* In a logical line.                                                        *)

\* The line has begun: its first character is neither blank nor a comment.
Begun == phase = "logical" /\ last = "Token"

Token ==
    /\ phase = "logical"
    /\ last' = "Token"
    /\ UNCHANGED <<indents, open, phase, width, blocks>>

\* A number, a string or a character that is none (E0003, E0004, E0005).
BadToken ==
    /\ phase = "logical"
    /\ phase' \in {"E0003", "E0004", "E0005"}
    /\ UNCHANGED <<indents, open, width, last, blocks>>

Open ==
    /\ phase = "logical"
    /\ Len(open) < MaxOpen
    /\ \E b \in Brackets : open' = Append(open, b)
    /\ last' = "Token"
    /\ UNCHANGED <<indents, phase, width, blocks>>

\* The bracket b is closed.
Close ==
    /\ phase = "logical"
    /\ \E b \in Brackets :
          IF open # <<>> /\ open[Len(open)] = b
          THEN /\ last' = "Token"
               /\ UNCHANGED phase
          ELSE /\ phase' = "E0006"
               /\ UNCHANGED last
    /\ open' = IF open = <<>> THEN open ELSE SubSeq(open, 1, Len(open) - 1)
    /\ UNCHANGED <<indents, width, blocks>>

\* Inside brackets the line goes on behind the newline, and so it does behind blanks.
Join ==
    /\ Begun
    /\ open # <<>>
    /\ UNCHANGED vars

\* A bug: a newline inside brackets ends the line.
NewlineAlways ==
    /\ Begun
    /\ last' = "Newline"
    /\ phase' = "line"
    /\ UNCHANGED <<indents, open, width, blocks>>

Newline ==
    /\ Begun
    /\ open = <<>>
    /\ last' = "Newline"
    /\ phase' = "line"
    /\ UNCHANGED <<indents, open, width, blocks>>

-----------------------------------------------------------------------------
(* The end of the file.                                                      *)

\* Without a newline in front of it, the last line ends all the same.
EndInLine ==
    /\ Begun
    /\ IF open = <<>>
       THEN last' = "Newline" /\ phase' = "end"
       ELSE phase' = "E0006" /\ UNCHANGED last
    /\ UNCHANGED <<indents, open, width, blocks>>

\* A bug: levels that the end of the file ends get no DEDENT.
EndUndented ==
    /\ phase \in {"line", "end"}
    /\ indents' = <<0>>
    /\ last' = "Eof"
    /\ phase' = "done"
    /\ UNCHANGED <<open, width, blocks>>

End ==
    /\ phase \in {"line", "end"}
    /\ indents' = <<0>>
    /\ blocks' = blocks - (Len(indents) - 1)
    /\ last' = "Eof"
    /\ phase' = "done"
    /\ UNCHANGED <<open, width>>

-----------------------------------------------------------------------------
Init ==
    /\ indents = <<0>>
    /\ open = <<>>
    /\ phase = "line"
    /\ width = 0
    /\ last = "none"
    /\ blocks = 0

Ended == phase \notin {"line", "logical", "end"}
Gone  == Ended /\ UNCHANGED vars

Next ==
    \/ SkipLine \/ Tab \/ SameLevel \/ Indent \/ BadIndent \/ Dedent
    \/ Token \/ BadToken \/ Open \/ Close \/ Join \/ Newline
    \/ EndInLine \/ End
    \/ Gone

Spec == Init /\ [][Next]_vars

-----------------------------------------------------------------------------
(* What the parser relies on.                                                *)

\* A type invariant.
TypeOK ==
    /\ indents \in Seq(Nat) /\ indents # <<>>
    /\ open \in Seq(Brackets)
    /\ phase \in {"line", "logical", "end", "done",
                  "E0001", "E0002", "E0003", "E0004", "E0005", "E0006"}
    /\ width \in Nat
    /\ last \in {"none", "Indent", "Dedent", "Newline", "Eof", "Token"}
    /\ blocks \in Nat

\* A line stands in as many blocks as its indentation has levels, exactly Unit each.
DepthIsWidth == phase = "logical" => Unit * blocks = width

\* Whatever lines the file ends with, each INDENT has its DEDENT by then, and each
\* bracket is closed.
Balanced == phase = "done" => blocks = 0 /\ open = <<>>

\* Blocks begin and end only between lines, never inside brackets (implicit joining).
BlocksBetweenLines ==
    [][blocks' # blocks => last \in {"none", "Newline"} /\ open = <<>>]_vars
=============================================================================
