-------------------------- MODULE HehLayout_proofs --------------------------
(***************************************************************************)
(* INDENT and DEDENT balance, for any width of a level, any bound on the   *)
(* indentation and any number of open brackets.                            *)
(***************************************************************************)
EXTENDS HehLayout, SequenceTheorems, TLAPS

\* A stack of levels: nothing, and then Unit more each.
Levels(s) ==
    /\ s \in Seq(Nat)
    /\ Len(s) \in Nat \ {0}
    /\ \A i \in 1..Len(s) : s[i] = Unit * (i - 1)

\* The inductive invariant.  DepthIsWidth by itself says nothing of a level that
\* a DEDENT may return to, nor of the places where no line is being read.
IInv ==
    /\ TypeOK
    /\ Levels(indents)
    /\ blocks = Len(indents) - 1
    /\ phase = "logical" => width = Top
    /\ phase \in {"line", "end", "done"} => open = <<>>
    /\ phase = "done" => Len(indents) = 1
    /\ phase \in {"line", "end"} => last \in {"none", "Newline"}

-----------------------------------------------------------------------------
\* The stack the lexer starts and ends with (Lexer::new, run).
LEMMA OneLevel == Levels(<<0>>) /\ <<0>> \in Seq(Nat) /\ <<0>> # <<>> /\ Len(<<0>>) = 1
<1>1. <<0>> \in Seq(Nat) /\ <<0>> # <<>> /\ Len(<<0>>) = 1
  OBVIOUS
<1>2. \A i \in 1..1 : <<0>>[i] = 0 /\ Unit * (i - 1) = 0
  BY UnitAssumption
<1> QED
  BY <1>1, <1>2 DEF Levels

\* A deeper line adds a level (the push in layout).
LEMMA LevelAdded ==
    ASSUME NEW s, Levels(s), NEW w \in Nat, w = s[Len(s)] + Unit
    PROVE  /\ Levels(Append(s, w))
           /\ Len(Append(s, w)) = Len(s) + 1
           /\ Append(s, w)[Len(s) + 1] = w
           /\ Append(s, w) # <<>>
<1> DEFINE n == Len(s)
           t == Append(s, w)
<1>1. /\ t \in Seq(Nat) /\ Len(t) = n + 1 /\ n \in Nat \ {0}
      /\ t[n + 1] = w /\ \A i \in 1..n : t[i] = s[i]
  BY DEF Levels
<1>2. w = Unit * ((n + 1) - 1)
  <2>1. s[n] = Unit * (n - 1)
    BY <1>1 DEF Levels
  <2> QED
    BY <2>1, <1>1, UnitAssumption
<1>3. ASSUME NEW i \in 1..n + 1
      PROVE  t[i] = Unit * (i - 1)
  <2>1. CASE i = n + 1
    BY <2>1, <1>1, <1>2
  <2>2. CASE i \in 1..n
    BY <2>2, <1>1 DEF Levels
  <2> QED
    BY <2>1, <2>2, <1>1
<1> QED
  BY <1>1, <1>3 DEF Levels

\* A shallower line returns to a level (the pops in layout).
LEMMA LevelsLeft ==
    ASSUME NEW s, Levels(s), NEW n \in 1..Len(s)
    PROVE  /\ Levels(SubSeq(s, 1, n))
           /\ Len(SubSeq(s, 1, n)) = n
           /\ SubSeq(s, 1, n)[n] = s[n]
           /\ SubSeq(s, 1, n) # <<>>
<1> DEFINE t == SubSeq(s, 1, n)
<1>1. /\ t \in Seq(Nat) /\ Len(t) = n /\ n \in Nat \ {0}
      /\ \A i \in 1..n : t[i] = s[i]
  BY DEF Levels
<1> QED
  BY <1>1 DEF Levels

-----------------------------------------------------------------------------
\* The lexer starts with the invariant.
LEMMA InitInv == Init => IInv
<1> SUFFICES ASSUME Init PROVE IInv
  OBVIOUS
<1>1. /\ indents = <<0>> /\ open = <<>> /\ phase = "line" /\ width = 0
      /\ last = "none" /\ blocks = 0
  BY DEF Init
<1>2. TypeOK
  BY <1>1, OneLevel DEF TypeOK
<1> QED
  BY <1>1, <1>2, OneLevel DEF IInv

\* Every step of the lexer keeps it.
LEMMA StepInv == IInv /\ [Next]_vars => IInv'
<1> SUFFICES ASSUME IInv, [Next]_vars PROVE IInv'
  OBVIOUS
<1> USE DEF IInv
<1>0. /\ Levels(indents) /\ Len(indents) \in Nat \ {0} /\ indents \in Seq(Nat)
      /\ Top \in Nat
  BY DEF Levels, Top
<1>1. CASE UNCHANGED vars
  BY <1>1 DEF vars, TypeOK, Top, Levels
<1>2. CASE Tab \/ BadIndent \/ BadToken
  BY <1>2 DEF Tab, BadIndent, BadToken, TypeOK, Top, Levels
<1>3. CASE SameLevel
  BY <1>3, <1>0 DEF SameLevel, TypeOK, Top, Levels
<1>4. CASE Indent
  <2>1. PICK w \in Top + 1..MaxWidth :
           w = Top + Unit /\ indents' = Append(indents, w) /\ width' = w
    BY <1>4 DEF Indent
  <2>2. w \in Nat /\ w = indents[Len(indents)] + Unit
    BY <2>1, <1>0, UnitAssumption DEF Top
  <2>3. /\ Levels(indents') /\ Len(indents') = Len(indents) + 1
        /\ indents'[Len(indents')] = w /\ indents' # <<>>
    BY <2>1, <2>2, LevelAdded
  <2>4. phase' = "logical" /\ last' = "Indent" /\ blocks' = blocks + 1 /\ open' = open
    BY <1>4 DEF Indent
  <2>5. blocks' = Len(indents') - 1 /\ blocks' \in Nat
    BY <2>3, <2>4, <1>0
  <2>6. TypeOK'
    BY <2>1, <2>2, <2>3, <2>4, <2>5 DEF TypeOK, Levels
  <2> QED
    BY <2>1, <2>3, <2>4, <2>5, <2>6 DEF Top
<1>5. CASE Dedent
  <2>1. PICK n \in 1..Len(indents) - 1, w \in 0..MaxWidth :
           /\ indents' = SubSeq(indents, 1, n)
           /\ blocks' = blocks - (Len(indents) - n)
           /\ width' = w
           /\ phase' = IF w = indents[n] THEN "logical" ELSE "E0002"
    BY <1>5 DEF Dedent
  <2>2. n \in 1..Len(indents)
    BY <1>0
  <2>3. /\ Levels(indents') /\ Len(indents') = n
        /\ indents'[Len(indents')] = indents[n] /\ indents' # <<>>
    BY <2>1, <2>2, LevelsLeft
  <2>4. last' = "Dedent" /\ open' = open
    BY <1>5 DEF Dedent
  <2>5. blocks' = Len(indents') - 1 /\ blocks' \in Nat
    BY <2>1, <2>3, <1>0
  <2>6. phase' \in {"logical", "E0002"} /\ width' \in Nat
    BY <2>1, BoundAssumption
  <2>7. TypeOK'
    BY <2>3, <2>4, <2>5, <2>6 DEF TypeOK, Levels
  <2>8. phase' = "logical" => width' = Top'
    BY <2>1, <2>3 DEF Top
  <2> QED
    BY <2>3, <2>5, <2>6, <2>7, <2>8
<1>6. CASE Token
  BY <1>6 DEF Token, TypeOK, Top, Levels
<1>7. CASE Open
  BY <1>7 DEF Open, TypeOK, Top, Levels
<1>8. CASE Close
  <2>1. phase' \in {phase, "E0006"} /\ last' \in {last, "Token"} /\ phase = "logical"
    BY <1>8 DEF Close
  <2>2. open' \in Seq(Brackets)
    <3>1. CASE open = <<>>
      BY <3>1, <1>8 DEF Close, TypeOK
    <3>2. CASE open # <<>>
      <4>1. open \in Seq(Brackets) /\ Len(open) \in Nat \ {0}
        BY <3>2 DEF TypeOK
      <4> QED
        BY <3>2, <4>1, <1>8 DEF Close
    <3> QED
      BY <3>1, <3>2
  <2>3. UNCHANGED <<indents, width, blocks>>
    BY <1>8 DEF Close
  <2> QED
    BY <2>1, <2>2, <2>3 DEF TypeOK, Top, Levels
<1>9. CASE Newline \/ EndInLine
  BY <1>9 DEF Newline, EndInLine, Begun, TypeOK, Top, Levels
<1>10. CASE End
  <2>1. /\ indents' = <<0>> /\ blocks' = blocks - (Len(indents) - 1) /\ last' = "Eof"
        /\ phase' = "done" /\ open' = open /\ width' = width /\ open = <<>>
    BY <1>10 DEF End
  <2>2. blocks' = 0
    BY <2>1, <1>0
  <2>3. TypeOK'
    BY <2>1, <2>2, OneLevel DEF TypeOK
  <2> QED
    BY <2>1, <2>2, <2>3, OneLevel
<1>11. CASE SkipLine \/ Join \/ Gone
  BY <1>11, <1>1 DEF SkipLine, Join, Gone
<1> QED
  BY <1>1, <1>2, <1>3, <1>4, <1>5, <1>6, <1>7, <1>8, <1>9, <1>10, <1>11 DEF Next

-----------------------------------------------------------------------------
\* A line stands in as many blocks as it has levels of Unit, and at the end of the file
\* no block and no bracket is open (layout, run).
THEOREM LayoutCorrect == Spec => [](DepthIsWidth /\ Balanced)
<1>1. IInv => DepthIsWidth /\ Balanced
  <2> SUFFICES ASSUME IInv PROVE DepthIsWidth /\ Balanced
    OBVIOUS
  <2>1. /\ Levels(indents) /\ blocks = Len(indents) - 1
        /\ phase = "logical" => width = Top
        /\ phase = "done" => open = <<>>
    BY DEF IInv
  <2>2. indents[Len(indents)] = Unit * (Len(indents) - 1)
    BY <2>1 DEF Levels
  <2>3. DepthIsWidth
    BY <2>1, <2>2 DEF DepthIsWidth, Top
  <2>4. Balanced
    <3> SUFFICES ASSUME phase = "done" PROVE blocks = 0 /\ open = <<>>
      BY DEF Balanced
    <3>1. Len(indents) = 1
      BY DEF IInv
    <3> QED
      BY <2>1, <3>1
  <2> QED
    BY <2>3, <2>4
<1> QED
  BY <1>1, InitInv, StepInv, PTL DEF Spec

\* When the file has been read, every block and every bracket opened has been closed,
\* also where the last line stands in blocks and ends without a newline (run).
THEOREM AllClosed == Spec => []Balanced
  BY LayoutCorrect, PTL

\* The stacks of the lexer stay stacks of widths and brackets, its count of open blocks
\* never falls below zero (layout, lex_logical_line).
THEOREM TypeCorrect == Spec => []TypeOK
<1>1. IInv => TypeOK
  BY DEF IInv
<1> QED
  BY <1>1, InitInv, StepInv, PTL DEF Spec

\* Blocks begin and end only where a line begins, or at the end, with every bracket
\* closed: a token, a bracket and a newline never do (lex_logical_line).
THEOREM BlocksAtLines == Spec => BlocksBetweenLines
<1>1. ASSUME IInv, [Next]_vars
      PROVE  [blocks' # blocks => last \in {"none", "Newline"} /\ open = <<>>]_vars
  <2>1. CASE Indent \/ Dedent \/ End
    BY <2>1, <1>1 DEF IInv, Indent, Dedent, End
  <2>2. CASE ~(Indent \/ Dedent \/ End)
    BY <2>2, <1>1 DEF Next, SkipLine, Tab, SameLevel, BadIndent, Token, BadToken, Open,
                      Close, Join, Newline, EndInLine, Gone, vars
  <2> QED
    BY <2>1, <2>2
<1> QED
  BY <1>1, InitInv, StepInv, PTL DEF Spec, BlocksBetweenLines
=============================================================================
