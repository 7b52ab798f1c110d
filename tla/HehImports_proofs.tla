-------------------------- MODULE HehImports_proofs --------------------------
(***************************************************************************)
(* The stack of calls and the checkers at work fit together, so every step *)
(* finds the checker and the file it takes for granted; and checkers nest  *)
(* no deeper than files and edits allow, whatever the files import.  No    *)
(* file is loaded inside its own loading, however the files change.        *)
(*                                                                         *)
(* With the files left alone, heh accepts exactly the programs that        *)
(* nothing is wrong with, and reports a cycle exactly where there is one;  *)
(* and what it has accepted, it loads without a fault.                     *)
(*                                                                         *)
(* at[j] is the place of the j-th checker on the stack: its own call is    *)
(* there, and those of the files it is loading follow, one each.  Behind   *)
(* the last checker at points behind the stack.  Where the files are left  *)
(* alone, they and the imports between them are a graph that does not      *)
(* change: d stands for the disk, cs and ks for the calls and the          *)
(* checkers, n and m for their numbers.                                    *)
(***************************************************************************)
EXTENDS HehImports, SequenceTheorems, FiniteSetTheorems, TLAPS

Codes == {"E0030", "E0032", "E0033", "type"}

CallType ==
    [k : Checks \cup Evaluations \cup {"interface"}, file : Files,
     src : Content, uses : Seq(Use), loading : Seq(Files)]

CacheType == UNION {[fs -> [src : Content, lets : BOOLEAN]] : fs \in SUBSET Files}

CheckerType == [cache : CacheType, loading : Seq(Files), diags : SUBSET Codes]

Typed ==
    /\ disk \in [Files -> Contents \cup {Missing}]
    /\ edits \in 0..MaxEdits
    /\ calls \in Seq(CallType)
    /\ checkers \in Seq(CheckerType)

Active == status \in {"check", "eval"}

\* What is on the stack before, while and after heh checks and evaluates.
Staged ==
    /\ ~Active => calls = <<>>
    /\ status = "start" => checkers = <<>>
    /\ \A p \in 1..Len(calls) :
          /\ calls[p].k \in Evaluations \cup {"module"} => status = "eval"
          /\ calls[p].k = "run" => status = "check"

\* The j-th checker and the calls that are its own, of these calls and checkers.
Level(at, j, cs, ks) ==
    /\ at[j + 1] = at[j] + 1 + Len(ks[j].loading)
    /\ cs[at[j]].k \in IF j = 1 THEN {"run", "module"} ELSE {"import"}
    /\ \A i \in 1..Len(ks[j].loading) :
          /\ cs[at[j] + i].k = "interface"
          /\ cs[at[j] + i].file = ks[j].loading[i]

Stack(at) ==
    /\ at \in [1..Len(checkers) + 1 -> 1..Len(calls) + 1]
    /\ at[Len(checkers) + 1] = Len(calls) + 1
    /\ \A i, j \in 1..Len(checkers) + 1 : i < j => at[i] < at[j]
    /\ \A j \in 1..Len(checkers) : Level(at, j, calls, checkers)
    /\ \A p \in 1..(at[1] - 1) : calls[p].k \in Evaluations

Stacked == Staged /\ (Active => \E at : Stack(at))

-----------------------------------------------------------------------------
(* Sequences and records.                                                    *)

\* The top of a stack gives way to another element.
LEMMA OnTopFacts ==
    ASSUME NEW S, NEW s \in Seq(S), s # <<>>, NEW x \in S
    PROVE  /\ Len(s) \in Nat \ {0}
           /\ OnTop(s, x) \in Seq(S)
           /\ Len(OnTop(s, x)) = Len(s)
           /\ OnTop(s, x)[Len(s)] = x
           /\ \A i \in 1..Len(s) : i # Len(s) => OnTop(s, x)[i] = s[i]
<1>1. Len(s) \in 1..Len(s) /\ Len(s) \in Nat \ {0}
  BY EmptySeq
<1> QED
  BY <1>1, ExceptSeq DEF OnTop

\* The top of a stack is taken off.
LEMMA ButlastFacts ==
    ASSUME NEW S, NEW s \in Seq(S), s # <<>>
    PROVE  /\ Butlast(s) \in Seq(S)
           /\ Len(Butlast(s)) = Len(s) - 1
           /\ \A i \in 1..Len(s) - 1 : Butlast(s)[i] = s[i]
<1> DEFINE n == Len(s) - 1
<1>1. /\ n \in Nat /\ 1 \in Int /\ n - 1 + 1 = n
      /\ \A i \in 1..n : s[i] \in S /\ 1 + i - 1 = i
  BY EmptySeq
<1> HIDE DEF n
<1>2. /\ SubSeq(s, 1, n) \in Seq(S)
      /\ Len(SubSeq(s, 1, n)) = IF 1 <= n THEN n - 1 + 1 ELSE 0
      /\ \A i \in 1..n - 1 + 1 : SubSeq(s, 1, n)[i] = s[1 + i - 1]
  BY <1>1, SubSeqProperties
<1>3. /\ Len(SubSeq(s, 1, n)) = n
      /\ \A i \in 1..n : SubSeq(s, 1, n)[i] = s[i]
  BY <1>1, <1>2
<1> QED
  BY <1>2, <1>3 DEF Butlast, n

\* What is on top of a stack.
LEMMA FinalFacts ==
    ASSUME NEW S, NEW s \in Seq(S), s # <<>>
    PROVE  Final(s) = s[Len(s)] /\ Final(s) \in S
  BY EmptySeq DEF Final

\* A call has the type of calls, and so has a checker that knows what one knew.
LEMMA NewTyped ==
    /\ \A k \in Checks \cup Evaluations \cup {"interface"}, f \in Files,
          src \in Content, loading \in Seq(Files) : Frame(k, f, src, loading) \in CallType
    /\ \A cache \in CacheType : Checker(cache) \in CheckerType
    /\ <<>> \in CacheType
  <1>1. \A src \in Content : src.uses \in Seq(Use)
    BY DEF Content
  <1>2. <<>> \in Seq(Files)
    BY EmptySeq
  <1>3. <<>> \in [{} -> [src : Content, lets : BOOLEAN]]
    OBVIOUS
  <1>4. <<>> \in CacheType
    BY <1>3 DEF CacheType
  <1> QED
    BY <1>1, <1>2, <1>4 DEF Frame, CallType, Checker, CheckerType

\* One more interface in a cache.
InterfaceType == [src : Content, lets : BOOLEAN]

\* What an interface holds.
LEMMA InterfaceFacts ==
    \A src \in Content, lets \in BOOLEAN : /\ Interface(src, lets) \in InterfaceType
                                         /\ Interface(src, lets).src = src
                                         /\ Interface(src, lets).lets = lets
  BY DEF Interface, InterfaceType

\* A cache that knows one interface more is a cache.
LEMMA KnownTyped ==
    ASSUME NEW cache \in CacheType, NEW f \in Files, NEW i \in InterfaceType
    PROVE  Known(cache, f, i) \in CacheType
<1>1. PICK fs \in SUBSET Files : cache \in [fs -> InterfaceType]
  BY DEF CacheType, InterfaceType
<1>2. Known(cache, f, i) \in [fs \cup {f} -> InterfaceType]
  BY <1>1 DEF Known
<1> QED
  BY <1>1, <1>2 DEF CacheType, InterfaceType

-----------------------------------------------------------------------------
(* The top of the stack.                                                     *)

\* The call on top has a type, and so has the import it follows.
LEMMA CallFacts ==
    ASSUME Typed, calls # <<>>
    PROVE  /\ Len(calls) \in Nat \ {0}
           /\ Call = calls[Len(calls)] /\ Call \in CallType
           /\ Call.k \in Checks \cup Evaluations \cup {"interface"}
           /\ Call.file \in Files /\ Call.src \in Content
           /\ Call.uses \in Seq(Use) /\ Call.loading \in Seq(Files)
<1>1. calls \in Seq(CallType)
  BY DEF Typed
<1>2. Len(calls) \in Nat \ {0}
  BY <1>1, EmptySeq
<1>3. Call = calls[Len(calls)] /\ Call \in CallType
  BY <1>1, FinalFacts DEF Call
<1> QED
  BY <1>2, <1>3 DEF CallType

\* The checkers have a type, and the innermost is on top.
LEMMA CheckerFacts ==
    ASSUME Typed
    PROVE  /\ Len(checkers) \in Nat
           /\ checkers = <<>> <=> Len(checkers) = 0
           /\ \A j \in 1..Len(checkers) :
                 /\ checkers[j] \in CheckerType
                 /\ checkers[j].cache \in CacheType /\ checkers[j].loading \in Seq(Files)
                 /\ checkers[j].diags \in SUBSET Codes
           /\ checkers # <<>> => This = checkers[Len(checkers)]
<1>1. checkers \in Seq(CheckerType)
  BY DEF Typed
<1>2. Len(checkers) \in Nat /\ \A j \in 1..Len(checkers) : checkers[j] \in CheckerType
  BY <1>1
<1>3. checkers = <<>> <=> Len(checkers) = 0
  BY <1>1, EmptySeq
<1>4. checkers # <<>> => This = checkers[Len(checkers)]
  BY <1>1, FinalFacts DEF This
<1> QED
  BY <1>2, <1>3, <1>4 DEF CheckerType

\* The import that is followed.
LEMMA CurrentFacts ==
    ASSUME Typed, calls # <<>>, Call.uses # <<>>
    PROVE  /\ Current = Call.uses[1] /\ Current \in Use /\ Len(Call.uses) >= 1
           /\ Readable(Current.name) =>
                 /\ Current.name \in Files
                 /\ Named \in Contents /\ Named \in Content /\ Named.fault # "missing"
<1>1. Call.uses \in Seq(Use)
  BY CallFacts
<1>2. Current = Call.uses[1] /\ Current \in Use /\ Len(Call.uses) >= 1
  BY <1>1, HeadTailProperties, EmptySeq DEF Current
<1>3. ASSUME Readable(Current.name)
      PROVE  /\ Current.name \in Files
             /\ Named \in Contents /\ Named \in Content /\ Named.fault # "missing"
  <2>1. Current.name \in Files /\ Named.fault # "missing"
    BY <1>3 DEF Readable, Named
  <2>2. Named \in Contents \cup {Missing}
    BY <2>1 DEF Typed, Named
  <2> QED
    BY <2>1, <2>2, FilesAssumption DEF Missing
<1> QED
  BY <1>2, <1>3

\* An import followed changes nothing of a call but the imports it has left.
LEMMA AdvancedFacts ==
    ASSUME Typed, calls # <<>>, Call.uses # <<>>
    PROVE  /\ Advanced \in Seq(CallType) /\ Len(Advanced) = Len(calls)
           /\ \A p \in 1..Len(calls) :
                 /\ p # Len(calls) => Advanced[p] = calls[p]
                 /\ Advanced[p].k = calls[p].k /\ Advanced[p].file = calls[p].file
                 /\ Advanced[p].src = calls[p].src /\ Advanced[p].loading = calls[p].loading
           /\ Advanced[Len(calls)].uses = Tail(Call.uses)
<1> DEFINE next == [Call EXCEPT !.uses = Tail(@)]
<1>0. calls \in Seq(CallType)
  BY DEF Typed
<1>1. next \in CallType /\ next.k = Call.k /\ next.file = Call.file /\ next.src = Call.src
      /\ next.loading = Call.loading /\ next.uses = Tail(Call.uses)
  <2>1. Tail(Call.uses) \in Seq(Use)
    BY CallFacts, HeadTailProperties
  <2>2. ASSUME NEW c \in CallType, NEW uses \in Seq(Use)
        PROVE  LET d == [c EXCEPT !.uses = uses]
               IN  /\ d \in CallType /\ d.uses = uses /\ d.k = c.k /\ d.file = c.file
                   /\ d.src = c.src /\ d.loading = c.loading
    BY DEF CallType
  <2> QED
    BY <2>1, <2>2, CallFacts
<1>2. Advanced = OnTop(calls, next)
  BY DEF Advanced
<1> HIDE DEF next
<1>3. calls \in Seq(CallType) /\ next \in CallType
  BY <1>0, <1>1
<1>4. /\ Len(OnTop(calls, next)) = Len(calls) /\ OnTop(calls, next) \in Seq(CallType)
      /\ OnTop(calls, next)[Len(calls)] = next
      /\ \A i \in 1..Len(calls) : i # Len(calls) => OnTop(calls, next)[i] = calls[i]
  BY <1>3, OnTopFacts
<1> QED
  BY <1>1, <1>2, <1>4, CallFacts

\* The call on top is one of these: of a file that is being evaluated, with no
\* checker at work; of the innermost checker, which is loading nothing; or of the
\* file that checker began to load last.
LEMMA TopFacts ==
    ASSUME Typed, NEW at, Stack(at), calls # <<>>
    PROVE  \/ /\ Len(checkers) = 0 /\ at[1] = Len(calls) + 1 /\ Call.k \in Evaluations
           \/ /\ Len(checkers) = 1 /\ at[Len(checkers)] = Len(calls) /\ This.loading = <<>>
              /\ Call.k \in {"run", "module"}
           \/ /\ Len(checkers) > 1 /\ at[Len(checkers)] = Len(calls) /\ This.loading = <<>>
              /\ Call.k = "import"
           \/ /\ Len(checkers) >= 1 /\ This.loading # <<>>
              /\ Len(calls) = at[Len(checkers)] + Len(This.loading)
              /\ Call.k = "interface" /\ Call.file = This.loading[Len(This.loading)]
<1> DEFINE m == Len(checkers)
           n == Len(calls)
           l == Len(checkers[m].loading)
<1>1. m \in Nat /\ n \in Nat \ {0} /\ Call = calls[n]
  BY CallFacts, CheckerFacts
<1>2. CASE m = 0
  BY <1>1, <1>2 DEF Stack
<1>3. CASE m # 0
  <2>1. /\ m \in 1..m /\ m >= 1 /\ (m = 1 \/ m > 1)
        /\ This = checkers[m] /\ checkers[m].loading \in Seq(Files)
    <3> HIDE DEF m
    <3>1. m \in 1..m /\ m >= 1 /\ (m = 1 \/ m > 1)
      BY <1>1, <1>3
    <3> QED
      BY <1>3, <3>1, CheckerFacts DEF m
  <2>2. /\ at[m + 1] = n + 1 /\ at[m + 1] = at[m] + 1 + l
        /\ calls[at[m]].k \in IF m = 1 THEN {"run", "module"} ELSE {"import"}
        /\ \A i \in 1..l : /\ calls[at[m] + i].k = "interface"
                           /\ calls[at[m] + i].file = checkers[m].loading[i]
    BY <2>1 DEF Stack, Level
  <2>3. at[m] \in Nat /\ l \in Nat /\ (checkers[m].loading = <<>> <=> l = 0)
    BY <1>1, <2>1, EmptySeq DEF Stack
  <2>4. n = at[m] + l
    BY <1>1, <2>2, <2>3
  <2>5. CASE l = 0
    <3>1. at[m] = n /\ This.loading = <<>>
      BY <1>1, <2>1, <2>3, <2>4, <2>5
    <3>2. CASE m = 1
      BY <1>1, <2>2, <3>1, <3>2
    <3>3. CASE m > 1
      BY <1>1, <2>2, <3>1, <3>3
    <3> QED
      BY <2>1, <3>2, <3>3
  <2>6. CASE l # 0
    <3>1. l \in 1..l
      BY <2>3, <2>6
    <3>2. calls[n].k = "interface" /\ calls[n].file = checkers[m].loading[l]
      BY <2>2, <2>4, <3>1
    <3> QED
      BY <1>1, <2>1, <2>3, <2>4, <2>6, <3>2
  <2> QED
    BY <2>5, <2>6
<1> QED
  BY <1>2, <1>3

-----------------------------------------------------------------------------
(* What a step makes of the stack and the checkers, place by place.          *)

\* What is the same of a call, or of a checker, and its successor.
SameCall(c, d) == c.k = d.k /\ c.file = d.file /\ c.src = d.src /\ c.loading = d.loading

SameChecker(c, d) == c.cache = d.cache /\ c.loading = d.loading

\* An import is passed: a standard module, an interface that is known, a module
\* that is bound, or an import that is refused, which adds a diagnostic.
Pass == SkipStd \/ ReuseInterface \/ BindStd \/ RefuseImport

\* What a passed import leaves as it was, and what it does not.
LEMMA PassEffect ==
    ASSUME Typed, NEW at, Stack(at), Pass
    PROVE  /\ calls # <<>> /\ Call.uses # <<>>
           /\ Len(calls') = Len(calls)
           /\ \A p \in 1..Len(calls) : /\ SameCall(calls'[p], calls[p])
                                       /\ p # Len(calls) => calls'[p] = calls[p]
           /\ calls'[Len(calls)].uses = Tail(Call.uses)
           /\ Len(checkers') = Len(checkers)
           /\ \A j \in 1..Len(checkers) :
                 /\ SameChecker(checkers'[j], checkers[j])
                 /\ RefuseImport /\ j = Len(checkers)
                       => checkers'[j].diags = checkers[j].diags \cup {Refusal}
                 /\ ~RefuseImport \/ j # Len(checkers)
                       => checkers'[j].diags = checkers[j].diags
           /\ RefuseImport => Len(checkers) >= 1 /\ Call.k \notin Evaluations
           /\ UNCHANGED <<disk, edits, status>>
           /\ Typed'
<1>1. /\ calls # <<>> /\ Call.uses # <<>> /\ calls' = Advanced
      /\ UNCHANGED <<disk, edits, status>>
  BY DEF Pass, SkipStd, ReuseInterface, BindStd, RefuseImport, Importing, Following
<1>2. /\ calls' \in Seq(CallType) /\ Len(calls') = Len(calls)
      /\ \A p \in 1..Len(calls) : /\ SameCall(calls'[p], calls[p])
                                  /\ p # Len(calls) => calls'[p] = calls[p]
      /\ calls'[Len(calls)].uses = Tail(Call.uses)
  BY <1>1, AdvancedFacts DEF SameCall
<1>3. /\ checkers' \in Seq(CheckerType) /\ Len(checkers') = Len(checkers)
      /\ \A j \in 1..Len(checkers) :
            /\ SameChecker(checkers'[j], checkers[j])
            /\ RefuseImport /\ j = Len(checkers)
                  => checkers'[j].diags = checkers[j].diags \cup {Refusal}
            /\ ~RefuseImport \/ j # Len(checkers)
                  => checkers'[j].diags = checkers[j].diags
      /\ RefuseImport => Len(checkers) >= 1 /\ Call.k \notin Evaluations
  <2>1. checkers \in Seq(CheckerType)
    BY DEF Typed
  <2>2. CASE RefuseImport
    <3> DEFINE told == [This EXCEPT !.diags = @ \cup {Refusal}]
    <3>1. checkers' = OnTop(checkers, told) /\ Refusal \in Codes
      BY <2>2 DEF RefuseImport, Refusal, Codes
    <3>2. Call.k \in Checks \cup {"interface"}
      BY <2>2 DEF RefuseImport, Importing, Following
    <3>3. Call.k \notin Evaluations
      BY <3>2 DEF Checks, Evaluations
    <3>4. checkers # <<>> /\ Len(checkers) >= 1
      BY <1>1, <3>3, TopFacts, CheckerFacts
    <3>5. This = checkers[Len(checkers)] /\ This \in CheckerType /\ This.diags \in SUBSET Codes
      BY <3>4, CheckerFacts
    <3>6. /\ told \in CheckerType /\ told.diags = This.diags \cup {Refusal}
          /\ told.cache = This.cache /\ told.loading = This.loading
      <4>1. This.diags \cup {Refusal} \in SUBSET Codes
        BY <3>1, <3>5
      <4>2. This.cache \in CacheType /\ This.loading \in Seq(Files)
        BY <3>5 DEF CheckerType
      <4> QED
        BY <3>5, <4>1, <4>2 DEF CheckerType
    <3> HIDE DEF told
    <3>7. /\ OnTop(checkers, told) \in Seq(CheckerType)
          /\ Len(OnTop(checkers, told)) = Len(checkers)
          /\ OnTop(checkers, told)[Len(checkers)] = told
          /\ \A i \in 1..Len(checkers) :
                i # Len(checkers) => OnTop(checkers, told)[i] = checkers[i]
      BY <2>1, <3>4, <3>6, OnTopFacts
    <3> QED
      BY <2>2, <3>1, <3>3, <3>4, <3>5, <3>6, <3>7 DEF SameChecker
  <2>3. CASE ~RefuseImport
    <3>1. checkers' = checkers
      BY <2>3 DEF Pass, SkipStd, ReuseInterface, BindStd
    <3> QED
      BY <2>1, <2>3, <3>1 DEF SameChecker
  <2> QED
    BY <2>2, <2>3
<1> QED
  BY <1>1, <1>2, <1>3 DEF Typed

\* An interface is opened: its file goes on the stack and on the list of the
\* innermost checker, which neither holds it in its cache nor is loading it.
LEMMA OpenEffect ==
    ASSUME Typed, NEW at, Stack(at), OpenInterface
    PROVE  /\ calls # <<>> /\ Call.uses # <<>> /\ Current.form # "std"
           /\ Readable(Current.name) /\ Named.fault # "syntax" /\ ~Cached
           /\ ~Holds(This.loading, Current.name)
           /\ Len(calls') = Len(calls) + 1
           /\ \A p \in 1..Len(calls) : /\ SameCall(calls'[p], calls[p])
                                       /\ p # Len(calls) => calls'[p] = calls[p]
           /\ calls'[Len(calls)].uses = Tail(Call.uses)
           /\ calls'[Len(calls) + 1] = Frame("interface", Current.name, Named, <<>>)
           /\ Len(checkers) >= 1 /\ Len(checkers') = Len(checkers)
           /\ \A j \in 1..Len(checkers) :
                 /\ checkers'[j].cache = checkers[j].cache
                 /\ checkers'[j].diags = checkers[j].diags
                 /\ checkers'[j].loading = IF j = Len(checkers)
                                           THEN Append(checkers[j].loading, Current.name)
                                           ELSE checkers[j].loading
           /\ UNCHANGED <<disk, edits, status>>
           /\ Typed'
<1> DEFINE opening == [This EXCEPT !.loading = Append(@, Current.name)]
           frame   == Frame("interface", Current.name, Named, <<>>)
<1>1. /\ calls # <<>> /\ Call.uses # <<>> /\ Current.form # "std"
      /\ Call.k \in Checks \cup {"interface"} /\ Refusal = "" /\ ~Cached
      /\ calls' = Append(Advanced, frame) /\ checkers' = OnTop(checkers, opening)
      /\ UNCHANGED <<disk, edits, status>>
  BY DEF OpenInterface, Importing, Following
<1>2. /\ Readable(Current.name) /\ Named.fault # "syntax"
      /\ ~Holds(This.loading, Current.name)
  BY <1>1 DEF Refusal
<1>3. Current.name \in Files /\ Named \in Content
  BY <1>1, <1>2, CurrentFacts
<1>4. frame \in CallType
  BY <1>3, NewTyped, EmptySeq
<1> HIDE DEF frame
<1>5. /\ calls' \in Seq(CallType) /\ Len(calls') = Len(calls) + 1
      /\ \A p \in 1..Len(calls) : /\ SameCall(calls'[p], calls[p])
                                  /\ p # Len(calls) => calls'[p] = calls[p]
      /\ calls'[Len(calls)].uses = Tail(Call.uses)
      /\ calls'[Len(calls) + 1] = frame
  <2>1. /\ Advanced \in Seq(CallType) /\ Len(Advanced) = Len(calls)
        /\ \A p \in 1..Len(calls) : /\ SameCall(Advanced[p], calls[p])
                                    /\ p # Len(calls) => Advanced[p] = calls[p]
        /\ Advanced[Len(calls)].uses = Tail(Call.uses)
    BY <1>1, AdvancedFacts DEF SameCall
  <2>2. Len(calls) \in 1..Len(calls)
    <3>1. calls # <<>>
      BY <1>1
    <3> QED
      BY <3>1, CallFacts
  <2>3. /\ Append(Advanced, frame) \in Seq(CallType)
        /\ Len(Append(Advanced, frame)) = Len(Advanced) + 1
        /\ \A i \in 1..Len(Advanced) : Append(Advanced, frame)[i] = Advanced[i]
        /\ Append(Advanced, frame)[Len(Advanced) + 1] = frame
    BY <1>4, <2>1, AppendProperties
  <2> QED
    BY <1>1, <2>1, <2>2, <2>3
<1>6. checkers # <<>> /\ Len(checkers) >= 1
  <2>1. calls # <<>> /\ Call.k \notin Evaluations
    BY <1>1 DEF Checks, Evaluations
  <2> QED
    BY <2>1, TopFacts, CheckerFacts
<1>7. This = checkers[Len(checkers)] /\ This \in CheckerType
  BY <1>6, CheckerFacts
<1>8. /\ opening \in CheckerType /\ opening.loading = Append(This.loading, Current.name)
      /\ opening.cache = This.cache /\ opening.diags = This.diags
  <2>1. Append(This.loading, Current.name) \in Seq(Files)
    BY <1>3, <1>7 DEF CheckerType
  <2> QED
    BY <1>7, <2>1 DEF CheckerType
<1> HIDE DEF opening
<1>9. /\ OnTop(checkers, opening) \in Seq(CheckerType)
      /\ Len(OnTop(checkers, opening)) = Len(checkers)
      /\ OnTop(checkers, opening)[Len(checkers)] = opening
      /\ \A i \in 1..Len(checkers) :
            i # Len(checkers) => OnTop(checkers, opening)[i] = checkers[i]
  <2>1. checkers \in Seq(CheckerType) /\ checkers # <<>> /\ opening \in CheckerType
    BY <1>6, <1>8 DEF Typed
  <2> QED
    BY <2>1, OnTopFacts
<1> QED
  BY <1>1, <1>2, <1>5, <1>6, <1>7, <1>8, <1>9 DEF Typed, frame

\* The interface is closed: its call becomes that of a new checker, which knows
\* what the one that opened it knows, and that one is no longer loading its file.
LEMMA CloseEffect ==
    ASSUME Typed, NEW at, Stack(at), CloseInterface
    PROVE  LET cache == Known(This.cache, Call.file, Interface(Call.src, FALSE)) IN
           /\ calls # <<>> /\ Call.uses = <<>> /\ Call.k = "interface"
           /\ Len(calls') = Len(calls)
           /\ \A p \in 1..Len(calls) : p # Len(calls) => calls'[p] = calls[p]
           /\ calls'[Len(calls)] = Frame("import", Call.file, Call.src, <<>>)
           /\ Len(checkers) >= 1 /\ Len(checkers') = Len(checkers) + 1
           /\ cache \in CacheType
           /\ \A j \in 1..Len(checkers) : j # Len(checkers) => checkers'[j] = checkers[j]
           /\ checkers'[Len(checkers)].cache = cache
           /\ checkers'[Len(checkers)].loading = Butlast(This.loading)
           /\ checkers'[Len(checkers)].diags = This.diags
           /\ checkers'[Len(checkers) + 1] = Checker(cache)
           /\ UNCHANGED <<disk, edits, status>>
           /\ Typed'
<1> DEFINE cache  == Known(This.cache, Call.file, Interface(Call.src, FALSE))
           closed == [This EXCEPT !.cache = cache, !.loading = Butlast(@)]
           frame  == Frame("import", Call.file, Call.src, <<>>)
<1>1. /\ calls # <<>> /\ Call.uses = <<>> /\ Call.k = "interface"
      /\ calls' = OnTop(calls, frame)
      /\ checkers' = Append(OnTop(checkers, closed), Checker(cache))
      /\ UNCHANGED <<disk, edits, status>>
  BY DEF CloseInterface, Followed
<1>2. checkers # <<>> /\ Len(checkers) >= 1 /\ This.loading # <<>>
  BY <1>1, TopFacts, CheckerFacts DEF Evaluations
<1>3. /\ This = checkers[Len(checkers)] /\ This \in CheckerType
      /\ This.loading \in Seq(Files) /\ This.cache \in CacheType
  BY <1>2, CheckerFacts DEF CheckerType
<1>4. cache \in CacheType
  BY <1>1, <1>3, CallFacts, InterfaceFacts, KnownTyped
<1>5. frame \in CallType
  BY <1>1, CallFacts, NewTyped, EmptySeq DEF Checks
<1> HIDE DEF frame, cache
<1>6. /\ OnTop(calls, frame) \in Seq(CallType)
      /\ Len(OnTop(calls, frame)) = Len(calls)
      /\ OnTop(calls, frame)[Len(calls)] = frame
      /\ \A i \in 1..Len(calls) : i # Len(calls) => OnTop(calls, frame)[i] = calls[i]
  <2>1. calls \in Seq(CallType) /\ calls # <<>>
    BY <1>1 DEF Typed
  <2> QED
    BY <1>5, <2>1, OnTopFacts
<1>7. /\ closed \in CheckerType /\ closed.loading = Butlast(This.loading)
      /\ closed.cache = cache /\ closed.diags = This.diags
  <2>1. Butlast(This.loading) \in Seq(Files)
    BY <1>2, <1>3, ButlastFacts
  <2> QED
    BY <1>3, <1>4, <2>1 DEF CheckerType
<1> HIDE DEF closed
<1>8. /\ OnTop(checkers, closed) \in Seq(CheckerType)
      /\ Len(OnTop(checkers, closed)) = Len(checkers)
      /\ OnTop(checkers, closed)[Len(checkers)] = closed
      /\ \A i \in 1..Len(checkers) :
            i # Len(checkers) => OnTop(checkers, closed)[i] = checkers[i]
  <2>1. checkers \in Seq(CheckerType)
    BY DEF Typed
  <2> QED
    BY <1>2, <1>7, <2>1, OnTopFacts
<1>9. Len(checkers) \in 1..Len(checkers)
  BY <1>2, CheckerFacts
<1> DEFINE s == OnTop(checkers, closed)
           t == Append(s, Checker(cache))
<1>10. s \in Seq(CheckerType) /\ Checker(cache) \in CheckerType
  BY <1>4, <1>8, NewTyped
<1> HIDE DEF s
<1>11. /\ t \in Seq(CheckerType) /\ Len(t) = Len(s) + 1
       /\ \A i \in 1..Len(s) : t[i] = s[i]
       /\ t[Len(s) + 1] = Checker(cache)
  BY <1>10, AppendProperties
<1>12. checkers' = t
  BY <1>1 DEF s
<1> HIDE DEF t
<1> QED
  BY <1>1, <1>2, <1>4, <1>6, <1>7, <1>8, <1>9, <1>11, <1>12 DEF Typed, frame, cache, s

\* An imported file has been checked: its checker and its call are gone, and the
\* checker that opened it knows the interface with its lets, and the verdict.
LEMMA CheckedEffect ==
    ASSUME Typed, NEW at, Stack(at), ImportChecked
    PROVE  LET m == Len(checkers) IN
           /\ calls # <<>> /\ Call.uses = <<>> /\ Call.k = "import"
           /\ Len(calls') = Len(calls) - 1
           /\ \A p \in 1..Len(calls) - 1 : calls'[p] = calls[p]
           /\ m \in Nat /\ m >= 2 /\ Len(checkers') = m - 1
           /\ \A j \in 1..m - 2 : checkers'[j] = checkers[j]
           /\ checkers'[m - 1].cache
                 = Known(checkers[m - 1].cache, Call.file, Interface(Call.src, TRUE))
           /\ checkers'[m - 1].loading = checkers[m - 1].loading
           /\ checkers'[m - 1].diags
                 = IF Verdict = {} THEN checkers[m - 1].diags
                   ELSE checkers[m - 1].diags \cup {"E0033"}
           /\ UNCHANGED <<disk, edits, status>>
           /\ Typed'
<1> DEFINE m     == Len(checkers)
           outer == checkers[m - 1]
           cache == Known(outer.cache, Call.file, Interface(Call.src, TRUE))
           diags == IF Verdict = {} THEN outer.diags ELSE outer.diags \cup {"E0033"}
           told  == [outer EXCEPT !.cache = cache, !.diags = diags]
<1>1. /\ calls # <<>> /\ Call.uses = <<>> /\ Call.k = "import"
      /\ calls' = Butlast(calls) /\ checkers' = OnTop(Butlast(checkers), told)
      /\ UNCHANGED <<disk, edits, status>>
  BY DEF ImportChecked, Followed
<1>2. m \in Nat /\ m > 1
  <2>1. calls # <<>> /\ Call.k = "import"
    BY <1>1
  <2> QED
    BY <2>1, TopFacts, CheckerFacts DEF Evaluations
<1>3. m - 1 \in 1..m /\ m - 1 \in Nat /\ m >= 2
  <2> HIDE DEF m
  <2> QED
    BY <1>2
<1>4. /\ outer \in CheckerType /\ outer.cache \in CacheType /\ outer.diags \in SUBSET Codes
      /\ outer.loading \in Seq(Files)
  BY <1>3, CheckerFacts DEF CheckerType
<1>5. cache \in CacheType
  <2>1. Call.file \in Files /\ Call.src \in Content
    BY <1>1, CallFacts
  <2> QED
    BY <1>4, <2>1, InterfaceFacts, KnownTyped
<1>6. diags \in SUBSET Codes
  BY <1>4 DEF Codes
<1> HIDE DEF outer, cache, diags
<1>7. /\ told \in CheckerType /\ told.cache = cache /\ told.diags = diags
      /\ told.loading = outer.loading
  BY <1>4, <1>5, <1>6 DEF CheckerType
<1> HIDE DEF told
<1> DEFINE s == Butlast(checkers)
<1>8. s \in Seq(CheckerType) /\ Len(s) = m - 1 /\ \A i \in 1..m - 1 : s[i] = checkers[i]
  <2>1. checkers \in Seq(CheckerType) /\ checkers # <<>>
    BY <1>2, EmptySeq DEF Typed
  <2> QED
    BY <2>1, ButlastFacts
<1> HIDE DEF s
<1>9. s \in Seq(CheckerType) /\ s # <<>> /\ told \in CheckerType
  BY <1>3, <1>7, <1>8
<1> DEFINE t == OnTop(s, told)
<1>10. /\ t \in Seq(CheckerType) /\ Len(t) = Len(s) /\ t[Len(s)] = told
       /\ \A i \in 1..Len(s) : i # Len(s) => t[i] = s[i]
  BY <1>9, OnTopFacts
<1>11. checkers' = t
  BY <1>1 DEF s
<1> HIDE DEF t
<1>12. /\ checkers' \in Seq(CheckerType) /\ Len(checkers') = m - 1
       /\ checkers'[m - 1] = told
       /\ \A i \in 1..m - 2 : checkers'[i] = checkers[i]
  <2> HIDE DEF m
  <2>1. Len(t) = m - 1 /\ t[m - 1] = told /\ t \in Seq(CheckerType)
    BY <1>8, <1>10
  <2>2. ASSUME NEW i \in 1..m - 2
        PROVE  t[i] = checkers[i]
    <3>1. i \in 1..m - 1 /\ i # m - 1
      BY <1>2
    <3>2. s[i] = checkers[i] /\ Len(s) = m - 1
      BY <1>8, <3>1
    <3> QED
      BY <1>10, <3>1, <3>2
  <2> QED
    BY <1>11, <2>1, <2>2
<1>13. /\ Butlast(calls) \in Seq(CallType) /\ Len(Butlast(calls)) = Len(calls) - 1
       /\ \A i \in 1..Len(calls) - 1 : Butlast(calls)[i] = calls[i]
  <2>1. calls \in Seq(CallType) /\ calls # <<>>
    BY <1>1 DEF Typed
  <2> QED
    BY <2>1, ButlastFacts
<1>14. Typed'
  BY <1>1, <1>12, <1>13 DEF Typed
<1> QED
  BY <1>1, <1>2, <1>3, <1>7, <1>12, <1>13, <1>14 DEF outer, cache, diags

\* The evaluator loads a file: the call that will evaluate it goes on the stack,
\* the one that checks it on top, with the only checker at work.
LEMMA LoadEffect ==
    ASSUME Typed, NEW at, Stack(at), LoadModule
    PROVE  /\ calls # <<>> /\ Call.uses # <<>> /\ Call.k \in Evaluations
           /\ ~BindsStd(Current) /\ LoadFault = "" /\ checkers = <<>>
           /\ Readable(Current.name) /\ Named.fault # "syntax"
           /\ ~Holds(Call.loading, Current.name)
           /\ Len(calls') = Len(calls) + 2
           /\ \A p \in 1..Len(calls) : /\ SameCall(calls'[p], calls[p])
                                       /\ p # Len(calls) => calls'[p] = calls[p]
           /\ calls'[Len(calls)].uses = Tail(Call.uses)
           /\ calls'[Len(calls) + 1]
                 = Frame("load", Current.name, Named, Append(Call.loading, Current.name))
           /\ calls'[Len(calls) + 2] = Frame("module", Current.name, Named, <<>>)
           /\ Len(checkers) = 0 /\ checkers' = <<Checker(<<>>)>> /\ Len(checkers') = 1
           /\ UNCHANGED <<disk, edits, status>>
           /\ Typed'
<1> DEFINE load   == Frame("load", Current.name, Named, Append(Call.loading, Current.name))
           module == Frame("module", Current.name, Named, <<>>)
<1>1. /\ calls # <<>> /\ Call.uses # <<>> /\ Call.k \in Evaluations
      /\ ~BindsStd(Current) /\ LoadFault = ""
      /\ calls' = Advanced \o <<load, module>>
      /\ checkers' = Append(checkers, Checker(<<>>))
      /\ UNCHANGED <<disk, edits, status>>
  BY DEF LoadModule, Loading, Following
<1>2. /\ Readable(Current.name) /\ Named.fault # "syntax"
      /\ ~Holds(Call.loading, Current.name)
  BY <1>1 DEF LoadFault
<1>3. checkers = <<>> /\ Len(checkers) = 0
  <2>1. /\ calls # <<>> /\ Call.k # "run" /\ Call.k # "module" /\ Call.k # "import"
        /\ Call.k # "interface"
    BY <1>1 DEF Evaluations
  <2> QED
    BY <2>1, TopFacts, CheckerFacts
<1>4. Current.name \in Files /\ Named \in Content
  BY <1>1, <1>2, CurrentFacts
<1>5. load \in CallType /\ module \in CallType
  <2>1. calls # <<>>
    BY <1>1
  <2>2. Call.loading \in Seq(Files)
    BY <2>1, CallFacts
  <2>3. Append(Call.loading, Current.name) \in Seq(Files)
    BY <1>4, <2>2
  <2> QED
    BY <1>4, <2>3, NewTyped, EmptySeq DEF Checks, Evaluations
<1> HIDE DEF load, module
<1>6. /\ Advanced \in Seq(CallType) /\ Len(Advanced) = Len(calls) /\ Len(calls) \in Nat \ {0}
      /\ \A p \in 1..Len(calls) : /\ SameCall(Advanced[p], calls[p])
                                  /\ p # Len(calls) => Advanced[p] = calls[p]
      /\ Advanced[Len(calls)].uses = Tail(Call.uses)
  BY <1>1, AdvancedFacts, CallFacts DEF SameCall
<1>7. /\ <<load, module>> \in Seq(CallType) /\ Len(<<load, module>>) = 2
      /\ <<load, module>>[1] = load /\ <<load, module>>[2] = module
  BY <1>5
<1> DEFINE new == <<load, module>>
           s   == Advanced \o new
<1> HIDE DEF new
<1>8. /\ s \in Seq(CallType) /\ Len(s) = Len(calls) + 2
      /\ \A p \in 1..Len(calls) : s[p] = Advanced[p]
      /\ s[Len(calls) + 1] = load /\ s[Len(calls) + 2] = module
  <2> DEFINE n == Len(calls)
  <2>1. n \in Nat /\ Len(Advanced) = n /\ Advanced \in Seq(CallType)
    BY <1>6
  <2>2. /\ new \in Seq(CallType) /\ Len(new) = 2 /\ new[1] = load /\ new[2] = module
    BY <1>7 DEF new
  <2>3. /\ s \in Seq(CallType) /\ Len(s) = Len(Advanced) + Len(new)
        /\ \A i \in 1..Len(Advanced) + Len(new) :
              s[i] = IF i <= Len(Advanced) THEN Advanced[i] ELSE new[i - Len(Advanced)]
    <3>1. Advanced \in Seq(CallType) /\ new \in Seq(CallType)
      BY <2>1, <2>2
    <3> QED
      BY <3>1, ConcatProperties
  <2> HIDE DEF n, s
  <2>4. /\ s \in Seq(CallType) /\ Len(s) = n + 2
        /\ \A i \in 1..n + 2 : s[i] = IF i <= n THEN Advanced[i] ELSE new[i - n]
    BY <2>1, <2>2, <2>3
  <2>5. /\ \A p \in 1..n : s[p] = Advanced[p]
        /\ s[n + 1] = new[1] /\ s[n + 2] = new[2]
    BY <2>1, <2>4
  <2> QED
    BY <2>2, <2>4, <2>5 DEF n
<1>9. Len(calls) \in 1..Len(calls) /\ calls' = s
  <2>1. calls' = s
    BY <1>1 DEF new
  <2>2. Len(calls) \in 1..Len(calls)
    BY <1>6
  <2> QED
    BY <2>1, <2>2
<1> HIDE DEF s
<1>10. checkers' = <<Checker(<<>>)>> /\ Len(checkers') = 1 /\ checkers' \in Seq(CheckerType)
  <2> DEFINE c == Checker(<<>>)
  <2>1. c \in CheckerType
    BY NewTyped
  <2>2. checkers' = Append(<<>>, c)
    BY <1>1, <1>3
  <2> HIDE DEF c
  <2>3. checkers' = <<c>>
    BY <2>2
  <2> QED
    BY <2>1, <2>3 DEF c
<1>11. Typed'
  BY <1>1, <1>8, <1>9, <1>10 DEF Typed
<1> QED
  BY <1>1, <1>2, <1>3, <1>6, <1>8, <1>9, <1>10, <1>11 DEF load, module

\* A file that is loaded has been checked, and found right, or evaluated.
Leave == (ModuleChecked /\ Verdict = {}) \/ ModuleLoaded

\* A call less, and no checker.
LEMMA LeaveEffect ==
    ASSUME Typed, NEW at, Stack(at), Leave
    PROVE  /\ calls # <<>> /\ Call.uses = <<>> /\ Call.k \in {"module", "load"}
           /\ Len(calls') = Len(calls) - 1
           /\ \A p \in 1..Len(calls) - 1 : calls'[p] = calls[p]
           /\ Len(checkers) = IF Call.k = "module" THEN 1 ELSE 0
           /\ checkers' = <<>> /\ Len(checkers') = 0
           /\ UNCHANGED <<disk, edits, status>>
           /\ Typed'
<1>1. /\ calls # <<>> /\ Call.uses = <<>> /\ Call.k \in {"module", "load"}
      /\ calls' = Butlast(calls)
      /\ checkers' = IF Call.k = "module" THEN Butlast(checkers) ELSE checkers
      /\ UNCHANGED <<disk, edits, status>>
  BY DEF Leave, ModuleChecked, ModuleLoaded, Followed
<1>2. Len(checkers) = IF Call.k = "module" THEN 1 ELSE 0
  <2>1. calls # <<>> /\ Call.k \in {"module", "load"}
    BY <1>1
  <2> QED
    BY <2>1, TopFacts DEF Evaluations
<1>3. checkers' = <<>> /\ Len(checkers') = 0 /\ checkers' \in Seq(CheckerType)
  <2>1. checkers \in Seq(CheckerType)
    BY DEF Typed
  <2>2. CASE Call.k = "module"
    <3>1. Len(checkers) = 1
      BY <1>2, <2>2
    <3>2. checkers # <<>>
      BY <2>1, <3>1, EmptySeq
    <3>3. Butlast(checkers) \in Seq(CheckerType) /\ Len(Butlast(checkers)) = 0
      <4>1. Len(Butlast(checkers)) = Len(checkers) - 1 /\ Butlast(checkers) \in Seq(CheckerType)
        BY <2>1, <3>2, ButlastFacts
      <4> QED
        BY <3>1, <4>1
    <3> QED
      BY <1>1, <2>2, <3>3, EmptySeq
  <2>3. CASE Call.k # "module"
    BY <1>1, <1>2, <2>1, <2>3, EmptySeq
  <2> QED
    BY <2>2, <2>3
<1>4. /\ Butlast(calls) \in Seq(CallType) /\ Len(Butlast(calls)) = Len(calls) - 1
      /\ \A i \in 1..Len(calls) - 1 : Butlast(calls)[i] = calls[i]
  <2>1. calls \in Seq(CallType) /\ calls # <<>>
    BY <1>1 DEF Typed
  <2> QED
    BY <2>1, ButlastFacts
<1> QED
  BY <1>1, <1>2, <1>3, <1>4 DEF Typed

-----------------------------------------------------------------------------
(* Every step keeps the stack in shape.                                      *)

\* Where the checkers are after a step that leaves m1 of m checkers, and n1 calls:
\* a new one has its call on top.
Moved(at, m, m1, n1) ==
    [j \in 1..m1 + 1 |-> IF j = m1 + 1 THEN n1 + 1 ELSE IF j > m THEN n1 ELSE at[j]]

\* The places of the checkers that stay go up, and there are calls up to there.
Rising(at, m, m1, n1) ==
    /\ \A i, j \in 1..m : i < j => at[i] < at[j]
    /\ \A j \in 1..m : j <= m1 => at[j] \in 1..n1 /\ (m < m1 => at[j] < n1)
    /\ m1 <= m \/ (m1 = m + 1 /\ n1 >= 1)

\* The places after the step go up, too, from those of the checkers that stay.
Risen(bt, at, m, m1, n1) ==
    /\ bt \in [1..m1 + 1 -> 1..n1 + 1]
    /\ bt[m1 + 1] = n1 + 1
    /\ \A i, j \in 1..m1 + 1 : i < j => bt[i] < bt[j]
    /\ \A j \in 1..m : j <= m1 => bt[j] = at[j]
    /\ m1 = m + 1 => bt[m1] = n1

\* Where the checkers and their calls are on the stack.
LEMMA PlaceFacts ==
    ASSUME Typed, NEW at, Stack(at)
    PROVE  /\ Len(checkers) \in Nat /\ Len(calls) \in Nat
           /\ at[Len(checkers) + 1] = Len(calls) + 1 /\ at[1] \in 1..Len(calls) + 1
           /\ \A j \in 1..Len(checkers) :
                 /\ at[j] \in 1..Len(calls)
                 /\ Len(checkers[j].loading) \in Nat
                 /\ \A i \in 1..Len(checkers[j].loading) :
                       at[j] + i \in 1..Len(calls) /\ at[j] + i < at[j + 1]
                 /\ at[j + 1] = at[j] + 1 + Len(checkers[j].loading)
                 /\ at[j + 1] \in 1..Len(calls) + 1
                 /\ j # Len(checkers) => at[j + 1] \in 1..Len(calls)
<1> DEFINE m == Len(checkers)
           n == Len(calls)
<1>1. m \in Nat /\ n \in Nat
  BY CheckerFacts DEF Typed
<1>2. \A j \in 1..m : Len(checkers[j].loading) \in Nat
  BY CheckerFacts
<1>3. /\ at \in [1..m + 1 -> 1..n + 1] /\ at[m + 1] = n + 1
      /\ \A i, j \in 1..m + 1 : i < j => at[i] < at[j]
      /\ \A j \in 1..m : at[j + 1] = at[j] + 1 + Len(checkers[j].loading)
  BY DEF Stack, Level
<1> HIDE DEF m, n
<1>4. ASSUME NEW j \in 1..m
      PROVE  /\ at[j] \in 1..n /\ at[j + 1] \in 1..n + 1
             /\ j # m => at[j + 1] \in 1..n
  <2>1. j \in 1..m + 1 /\ j + 1 \in 1..m + 1 /\ m + 1 \in 1..m + 1 /\ j < m + 1
    BY <1>1
  <2>2. at[j] < n + 1 /\ at[j] \in 1..n + 1 /\ at[j + 1] \in 1..n + 1
    BY <1>3, <2>1
  <2>3. j # m => at[j + 1] < n + 1
    BY <1>1, <1>3, <2>1
  <2> QED
    BY <1>1, <2>2, <2>3
<1>5. at[1] \in 1..n + 1
  <2>1. 1 \in 1..m + 1
    BY <1>1
  <2> QED
    BY <1>3, <2>1
<1>6. ASSUME NEW j \in 1..m, NEW i \in 1..Len(checkers[j].loading)
      PROVE  at[j] + i \in 1..n /\ at[j] + i < at[j + 1]
  <2> DEFINE l == Len(checkers[j].loading)
  <2>1. l \in Nat /\ i \in 1..l /\ at[j + 1] = at[j] + 1 + l
    BY <1>2, <1>3
  <2> HIDE DEF l
  <2> QED
    BY <1>1, <1>4, <2>1
<1> QED
  BY <1>1, <1>2, <1>3, <1>4, <1>5, <1>6 DEF m, n

\* A checker none of whose calls has changed.
LEMMA LevelKept ==
    ASSUME NEW at, NEW bt, NEW j, NEW cs, NEW ks, NEW cs1, NEW ks1,
           Level(at, j, cs, ks), bt[j] = at[j], bt[j + 1] = at[j + 1],
           ks1[j].loading = ks[j].loading, cs1[at[j]].k = cs[at[j]].k,
           \A i \in 1..Len(ks[j].loading) : /\ cs1[at[j] + i].k = cs[at[j] + i].k
                                            /\ cs1[at[j] + i].file = cs[at[j] + i].file
    PROVE  Level(bt, j, cs1, ks1)
  BY DEF Level

\* A call, its own files behind it, is before the next one.
LEMMA StepAhead ==
    ASSUME NEW x \in Nat, NEW k \in Nat, NEW y, y = x + 1 + k
    PROVE  x < y
  OBVIOUS

\* The files of a call, but for the last of them, come before the last.
LEMMA StepsAhead ==
    ASSUME NEW x \in Nat, x >= 1, NEW k \in Nat, k >= 1, NEW y, y = x + k
    PROVE  /\ y = x + 1 + (k - 1)
           /\ \A i \in 1..k - 1 : i \in 1..k /\ x + i \in 1..y /\ x + i # y
  OBVIOUS

\* The places of the checkers go up, as long as every call of the ones that stay does.
LEMMA MovedFacts ==
    ASSUME NEW m \in Nat, NEW m1 \in Nat, NEW n1 \in Nat, NEW at, Rising(at, m, m1, n1)
    PROVE  Risen(Moved(at, m, m1, n1), at, m, m1, n1)
<1> USE DEF Rising
<1> DEFINE bt == Moved(at, m, m1, n1)
<1>1. /\ DOMAIN bt = 1..m1 + 1 /\ bt = [j \in 1..m1 + 1 |-> bt[j]]
      /\ \A j \in 1..m1 + 1 :
            bt[j] = IF j = m1 + 1 THEN n1 + 1 ELSE IF j > m THEN n1 ELSE at[j]
  BY DEF Moved
<1> HIDE DEF bt
<1>2. /\ bt[m1 + 1] = n1 + 1
      /\ \A j \in 1..m : j <= m1 => bt[j] = at[j] /\ bt[j] \in 1..n1
      /\ m1 = m + 1 => bt[m1] = n1 /\ n1 >= 1 /\ m1 \in 1..m1 + 1
  <2>1. m1 + 1 \in 1..m1 + 1
    OBVIOUS
  <2>2. ASSUME NEW j \in 1..m, j <= m1
        PROVE  bt[j] = at[j]
    <3>1. j \in 1..m1 + 1 /\ j # m1 + 1 /\ ~(j > m)
      BY <2>2
    <3> QED
      BY <1>1, <3>1
  <2>3. ASSUME m1 = m + 1
        PROVE  bt[m1] = n1 /\ n1 >= 1 /\ m1 \in 1..m1 + 1
    <3>1. m1 \in 1..m1 + 1 /\ m1 # m1 + 1 /\ m1 > m /\ n1 >= 1
      BY <2>3
    <3> QED
      BY <1>1, <3>1
  <2> QED
    BY <1>1, <2>1, <2>2, <2>3
<1>3. ASSUME NEW j \in 1..m1
      PROVE  bt[j] \in 1..n1
  <2>1. CASE j <= m
    <3>1. j \in 1..m /\ j <= m1
      BY <2>1
    <3> QED
      BY <1>2, <3>1
  <2>2. CASE ~(j <= m)
    <3>1. m1 = m + 1 /\ j = m1
      BY <2>2
    <3> QED
      BY <1>2, <3>1
  <2> QED
    BY <2>1, <2>2
<1>4. bt \in [1..m1 + 1 -> 1..n1 + 1]
  <2>1. ASSUME NEW j \in 1..m1 + 1
        PROVE  bt[j] \in 1..n1 + 1
    <3>1. j = m1 + 1 \/ j \in 1..m1
      OBVIOUS
    <3> QED
      BY <1>2, <1>3, <3>1
  <2> QED
    BY <1>1, <2>1
<1>5. ASSUME NEW i \in 1..m1 + 1, NEW j \in 1..m1 + 1, i < j
      PROVE  bt[i] < bt[j]
  <2>1. i \in 1..m1 /\ bt[i] \in 1..n1
    <3>1. i \in 1..m1
      BY <1>5
    <3> QED
      BY <1>3, <3>1
  <2>2. CASE j = m1 + 1
    BY <1>2, <2>1, <2>2
  <2>3. CASE j # m1 + 1 /\ j <= m
    <3>1. i \in 1..m /\ j \in 1..m /\ i <= m1 /\ j <= m1
      BY <1>5, <2>3
    <3>2. bt[i] = at[i] /\ bt[j] = at[j] /\ at[i] < at[j]
      BY <1>2, <1>5, <3>1
    <3> QED
      BY <3>2
  <2>4. CASE j # m1 + 1 /\ ~(j <= m)
    <3>1. m1 = m + 1 /\ j = m1 /\ i \in 1..m /\ i <= m1 /\ m < m1
      BY <1>5, <2>4
    <3>2. bt[i] = at[i] /\ at[i] < n1 /\ bt[j] = n1
      BY <1>2, <3>1
    <3> QED
      BY <3>2
  <2> QED
    BY <2>2, <2>3, <2>4
<1> QED
  BY <1>2, <1>4, <1>5 DEF bt, Risen

\* An import that is passed moves nothing.
LEMMA PassStack ==
    ASSUME Typed, NEW at, Stack(at), Pass, NEW bt,
           bt = Moved(at, Len(checkers), Len(checkers'), Len(calls'))
    PROVE  Stack(bt)' /\ bt = at
<1> DEFINE m == Len(checkers)
           n == Len(calls)
<1>1. /\ Len(calls') = n /\ Len(checkers') = m
      /\ \A p \in 1..n : SameCall(calls'[p], calls[p])
      /\ \A j \in 1..m : SameChecker(checkers'[j], checkers[j])
  BY PassEffect
<1>2. bt = at
  <2>1. at \in [1..m + 1 -> 1..n + 1] /\ at[m + 1] = n + 1
    BY DEF Stack
  <2>2. m \in Nat
    BY PlaceFacts
  <2> HIDE DEF m, n
  <2>3. \A j \in 1..m + 1 : j # m + 1 => ~(j > m)
    BY <2>2
  <2> QED
    BY <1>1, <2>1, <2>3 DEF Moved, m, n
<1>3. ASSUME NEW j \in 1..m
      PROVE  Level(bt, j, calls', checkers')
  <2>1. at[j] \in 1..n /\ \A i \in 1..Len(checkers[j].loading) : at[j] + i \in 1..n
    BY PlaceFacts
  <2>2. /\ checkers'[j].loading = checkers[j].loading /\ calls'[at[j]].k = calls[at[j]].k
        /\ \A i \in 1..Len(checkers[j].loading) :
              /\ calls'[at[j] + i].k = calls[at[j] + i].k
              /\ calls'[at[j] + i].file = calls[at[j] + i].file
    BY <1>1, <2>1 DEF SameCall, SameChecker
  <2>3. Level(at, j, calls, checkers)
    BY DEF Stack
  <2> QED
    BY <1>2, <2>2, <2>3, LevelKept
<1>4. \A p \in 1..at[1] - 1 : calls'[p].k \in Evaluations
  <2>1. at[1] \in 1..n + 1 /\ n \in Nat
    BY PlaceFacts
  <2>2. \A p \in 1..at[1] - 1 : p \in 1..n
    BY <2>1
  <2> QED
    BY <1>1, <2>2 DEF SameCall, Stack
<1>5. /\ bt \in [1..Len(checkers') + 1 -> 1..Len(calls') + 1]
      /\ bt[Len(checkers') + 1] = Len(calls') + 1
      /\ \A i, j \in 1..Len(checkers') + 1 : i < j => bt[i] < bt[j]
  BY <1>1, <1>2 DEF Stack
<1> QED
  BY <1>1, <1>2, <1>3, <1>4, <1>5 DEF Stack

\* An interface that is opened adds a call of the innermost checker.
LEMMA OpenStack ==
    ASSUME Typed, NEW at, Stack(at), OpenInterface, NEW bt,
           bt = Moved(at, Len(checkers), Len(checkers'), Len(calls'))
    PROVE  /\ Stack(bt)'
           /\ \A j \in 1..Len(checkers) : bt[j] = at[j]
<1> DEFINE m == Len(checkers)
           n == Len(calls)
<1>1. /\ Len(calls') = n + 1 /\ Len(checkers') = m
      /\ \A p \in 1..n : calls'[p].k = calls[p].k /\ calls'[p].file = calls[p].file
      /\ calls'[n + 1].k = "interface" /\ calls'[n + 1].file = Current.name
      /\ \A j \in 1..m : j # m => checkers'[j].loading = checkers[j].loading
      /\ checkers'[m].loading = Append(checkers[m].loading, Current.name)
      /\ Current.name \in Files
  <2>1. calls'[n + 1] = Frame("interface", Current.name, Named, <<>>)
    BY OpenEffect
  <2>2. calls'[n + 1].k = "interface" /\ calls'[n + 1].file = Current.name
    BY <2>1 DEF Frame
  <2>3. m \in 1..m
    BY OpenEffect, CheckerFacts
  <2>4. Current.name \in Files
    BY OpenEffect DEF Readable
  <2> QED
    BY <2>2, <2>3, <2>4, OpenEffect DEF SameCall
<1>2. /\ m \in Nat /\ n \in Nat /\ m >= 1
      /\ \A j \in 1..m : at[j] \in 1..n
      /\ \A j \in 1..m : j # m => at[j + 1] \in 1..n
      /\ \A j \in 1..m : \A i \in 1..Len(checkers[j].loading) : at[j] + i \in 1..n
      /\ at[m + 1] = n + 1 /\ at[1] \in 1..n + 1
      /\ \A i, j \in 1..m : i < j => at[i] < at[j]
      /\ \A j \in 1..m : Level(at, j, calls, checkers)
  <2>1. m >= 1
    BY OpenEffect
  <2>2. \A i, j \in 1..m + 1 : i < j => at[i] < at[j]
    BY DEF Stack
  <2>3. m \in Nat
    BY PlaceFacts
  <2>4. \A i, j \in 1..m : i < j => at[i] < at[j]
    <3> HIDE DEF m
    <3> QED
      BY <2>2, <2>3
  <2>5. \A j \in 1..m : Level(at, j, calls, checkers)
    BY DEF Stack
  <2> QED
    BY <2>1, <2>4, <2>5, PlaceFacts
<1> HIDE DEF m, n
<1>3. /\ bt \in [1..m + 1 -> 1..n + 2] /\ bt[m + 1] = n + 2
      /\ \A i, j \in 1..m + 1 : i < j => bt[i] < bt[j]
      /\ \A j \in 1..m : bt[j] = at[j]
  <2>1. PICK a \in Nat, b \in Nat : a = m /\ b = n + 1
    BY <1>2
  <2>2. bt = Moved(at, a, a, b)
    BY <1>1, <2>1 DEF m, n
  <2>3. \A j \in 1..a : j <= a => at[j] \in 1..b /\ (a < a => at[j] < b)
    BY <1>2, <2>1
  <2>4. \A i, j \in 1..a : i < j => at[i] < at[j]
    BY <1>2, <2>1
  <2>5. /\ bt \in [1..a + 1 -> 1..b + 1] /\ bt[a + 1] = b + 1
        /\ \A i, j \in 1..a + 1 : i < j => bt[i] < bt[j]
        /\ \A j \in 1..a : j <= a => bt[j] = at[j]
    <3>1. Rising(at, a, a, b)
      BY <2>3, <2>4 DEF Rising
    <3>2. Risen(bt, at, a, a, b)
      BY <2>2, <3>1, MovedFacts
    <3> QED
      BY <3>2 DEF Risen
  <2>6. a + 1 = m + 1 /\ b + 1 = n + 2
    BY <1>2, <2>1
  <2> QED
    BY <2>1, <2>5, <2>6
<1>4. ASSUME NEW j \in 1..m, j # m
      PROVE  Level(bt, j, calls', checkers')
  <2>1. j + 1 \in 1..m /\ Level(at, j, calls, checkers)
    BY <1>2, <1>4
  <2>2. bt[j] = at[j] /\ bt[j + 1] = at[j + 1]
    BY <1>3, <2>1
  <2>3. /\ checkers'[j].loading = checkers[j].loading /\ calls'[at[j]].k = calls[at[j]].k
        /\ \A i \in 1..Len(checkers[j].loading) :
              /\ calls'[at[j] + i].k = calls[at[j] + i].k
              /\ calls'[at[j] + i].file = calls[at[j] + i].file
    BY <1>1, <1>2, <1>4
  <2> QED
    BY <2>1, <2>2, <2>3, LevelKept
<1>5. Level(bt, m, calls', checkers')
  <2> DEFINE s == checkers[m].loading
             l == Len(s)
             t == checkers'[m].loading
  <2>1. m \in 1..m /\ s \in Seq(Files) /\ l \in Nat
    BY <1>2, CheckerFacts DEF m
  <2>2. t = Append(s, Current.name) /\ Current.name \in Files
    BY <1>1
  <2> HIDE DEF s
  <2>3. /\ Len(t) = l + 1 /\ \A i \in 1..l : t[i] = s[i]
        /\ t[l + 1] = Current.name
    BY <2>1, <2>2, AppendProperties
  <2>4. /\ at[m + 1] = at[m] + 1 + l /\ calls[at[m]].k \in IF m = 1 THEN {"run", "module"} ELSE {"import"}
        /\ \A i \in 1..l : calls[at[m] + i].k = "interface" /\ calls[at[m] + i].file = s[i]
        /\ at[m] \in 1..n /\ \A i \in 1..l : at[m] + i \in 1..n
    BY <1>2, <2>1 DEF Level, s
  <2>5. bt[m] = at[m] /\ bt[m + 1] = bt[m] + 1 + (l + 1) /\ at[m] + (l + 1) = n + 1
    <3> HIDE DEF l, t
    <3>1. at[m + 1] = n + 1 /\ bt[m + 1] = n + 2 /\ bt[m] = at[m]
      BY <1>2, <1>3, <2>1
    <3>2. at[m + 1] = at[m] + 1 + l /\ at[m] \in 1..n /\ l \in Nat /\ n \in Nat
      BY <1>2, <2>1, <2>4
    <3> QED
      BY <3>1, <3>2
  <2> HIDE DEF l, t
  <2>6. calls'[bt[m]].k \in IF m = 1 THEN {"run", "module"} ELSE {"import"}
    BY <1>1, <2>4, <2>5
  <2>7. ASSUME NEW i \in 1..l + 1
        PROVE  calls'[bt[m] + i].k = "interface" /\ calls'[bt[m] + i].file = t[i]
    <3>1. CASE i = l + 1
      BY <1>1, <2>3, <2>5, <3>1
    <3>2. CASE i # l + 1
      <4>1. i \in 1..l
        BY <2>1, <3>2
      <4>2. at[m] + i \in 1..n /\ calls[at[m] + i].k = "interface" /\ calls[at[m] + i].file = s[i]
        BY <2>4, <4>1
      <4> QED
        BY <1>1, <2>3, <2>5, <4>1, <4>2
    <3> QED
      BY <3>1, <3>2
  <2> QED
    BY <2>3, <2>5, <2>6, <2>7 DEF Level, t
<1>6. \A p \in 1..bt[1] - 1 : calls'[p].k \in Evaluations
  <2>1. 1 \in 1..m /\ bt[1] = at[1] /\ at[1] \in 1..n
    BY <1>2, <1>3
  <2>2. \A p \in 1..at[1] - 1 : p \in 1..n /\ calls[p].k \in Evaluations
    BY <1>2, <2>1 DEF Stack
  <2> QED
    BY <1>1, <2>1, <2>2
<1>7. \A j \in 1..m : Level(bt, j, calls', checkers')
  BY <1>4, <1>5
<1>8. Stack(bt)'
  BY <1>1, <1>3, <1>6, <1>7 DEF Stack, m, n
<1> QED
  BY <1>3, <1>8 DEF m

\* A step leaves the first l checkers and their calls as they were, and those above
\* them have their calls at bt; m1 checkers and n1 calls are left.
Restacks(at, bt, l, m1, n1) ==
    /\ Len(checkers') = m1 /\ Len(calls') = n1
    /\ bt \in [1..m1 + 1 -> 1..n1 + 1] /\ bt[m1 + 1] = n1 + 1
    /\ \A i, j \in 1..m1 + 1 : i < j => bt[i] < bt[j]
    /\ l <= Len(checkers) /\ l <= m1
    /\ \A j \in 1..l : /\ checkers'[j].loading = checkers[j].loading
                       /\ bt[j] = at[j] /\ bt[j + 1] = at[j + 1]
    /\ \A j \in 1..l : \A p \in 1..Len(calls) :
          p < at[j + 1] => calls'[p].k = calls[p].k /\ calls'[p].file = calls[p].file
    /\ \A j \in 1..m1 : j > l => Level(bt, j, calls', checkers')
    /\ \A p \in 1..bt[1] - 1 : calls'[p].k \in Evaluations

\* The stack holds together after such a step.
LEMMA Restacked ==
    ASSUME Typed, NEW at, Stack(at), NEW m1 \in Nat, NEW n1 \in Nat, NEW l \in Nat, NEW bt,
           Restacks(at, bt, l, m1, n1)
    PROVE  Stack(bt)'
<1> DEFINE m == Len(checkers)
           n == Len(calls)
<1>1. m \in Nat
  BY PlaceFacts
<1>2. l <= m
  BY DEF Restacks
<1>3. \A j \in 1..l : /\ checkers'[j].loading = checkers[j].loading
                      /\ bt[j] = at[j] /\ bt[j + 1] = at[j + 1]
  BY DEF Restacks
<1>4. \A j \in 1..l : \A p \in 1..n :
          p < at[j + 1] => calls'[p].k = calls[p].k /\ calls'[p].file = calls[p].file
  BY DEF Restacks
<1>5. ASSUME NEW j \in 1..m1, j <= l
      PROVE  Level(bt, j, calls', checkers')
  <2>1. j \in 1..l /\ j \in 1..m
    BY <1>1, <1>5, <1>2
  <2>2. /\ Level(at, j, calls, checkers)
        /\ at[j] \in 1..n /\ at[j] < at[j + 1]
        /\ \A i \in 1..Len(checkers[j].loading) : at[j] + i \in 1..n /\ at[j] + i < at[j + 1]
    <3>1. /\ at[j + 1] = at[j] + 1 + Len(checkers[j].loading) /\ at[j] \in 1..n
          /\ Len(checkers[j].loading) \in Nat /\ n \in Nat
      BY <2>1, PlaceFacts
    <3>2. at[j] < at[j + 1]
      <4> DEFINE k == Len(checkers[j].loading)
      <4>1. at[j + 1] = at[j] + 1 + k /\ k \in Nat /\ at[j] \in Nat
        BY <3>1
      <4> HIDE DEF k
      <4> QED
        BY <4>1, StepAhead
    <3> QED
      BY <2>1, <3>2, PlaceFacts DEF Stack
  <2>3. /\ calls'[at[j]].k = calls[at[j]].k
        /\ \A i \in 1..Len(checkers[j].loading) :
              /\ calls'[at[j] + i].k = calls[at[j] + i].k
              /\ calls'[at[j] + i].file = calls[at[j] + i].file
    BY <1>4, <2>1, <2>2
  <2>4. checkers'[j].loading = checkers[j].loading /\ bt[j] = at[j] /\ bt[j + 1] = at[j + 1]
    BY <1>3, <2>1
  <2> QED
    BY <2>2, <2>3, <2>4, LevelKept
<1>6. \A j \in 1..m1 : Level(bt, j, calls', checkers')
  BY <1>5 DEF Restacks
<1> QED
  BY <1>6 DEF Stack, Restacks

\* An interface that is closed leaves its call to the checker that checks the file.
LEMMA CloseStack ==
    ASSUME Typed, NEW at, Stack(at), CloseInterface, NEW bt,
           bt = Moved(at, Len(checkers), Len(checkers'), Len(calls'))
    PROVE  /\ Stack(bt)'
           /\ \A j \in 1..Len(checkers) : bt[j] = at[j]
           /\ bt[Len(checkers) + 1] = Len(calls)
           /\ at[Len(checkers)] < Len(calls)
<1> DEFINE m == Len(checkers)
           n == Len(calls)
           s == This.loading
           k == Len(s)
<1>1. /\ m >= 1 /\ m \in Nat /\ n \in Nat /\ Len(checkers') = m + 1 /\ Len(calls') = n
      /\ s # <<>> /\ n = at[m] + k /\ s = checkers[m].loading
      /\ calls'[n].k = "import"
      /\ \A p \in 1..n : p # n => calls'[p] = calls[p]
      /\ \A j \in 1..m : j # m => checkers'[j] = checkers[j]
      /\ checkers'[m].loading = Butlast(s) /\ checkers'[m + 1].loading = <<>>
  <2>1. calls # <<>> /\ Call.k = "interface"
    BY CloseEffect
  <2>2. m >= 1 /\ s # <<>> /\ n = at[m] + k /\ s = checkers[m].loading
    BY <2>1, TopFacts, CheckerFacts DEF Evaluations
  <2>3. calls'[n].k = "import" /\ checkers'[m + 1].loading = <<>>
    <3> DEFINE cache == Known(This.cache, Call.file, Interface(Call.src, FALSE))
    <3>1. /\ calls'[n] = Frame("import", Call.file, Call.src, <<>>)
          /\ checkers'[m + 1] = Checker(cache)
      BY CloseEffect
    <3> QED
      BY <3>1 DEF Frame, Checker
  <2>4. checkers'[m].loading = Butlast(s)
    BY CloseEffect
  <2> QED
    BY <2>2, <2>3, <2>4, CloseEffect, PlaceFacts
<1>2. /\ k \in Nat /\ k >= 1 /\ Len(Butlast(s)) = k - 1
      /\ \A i \in 1..k - 1 : Butlast(s)[i] = s[i]
  <2>1. m \in 1..m
    <3> HIDE DEF m
    <3> QED
      BY <1>1
  <2>2. s \in Seq(Files) /\ s # <<>>
    BY <1>1, <2>1, CheckerFacts
  <2>3. k \in Nat /\ k # 0
    BY <2>2, EmptySeq
  <2> QED
    BY <2>2, <2>3, ButlastFacts
<1>3. /\ \A j \in 1..m : at[j] \in 1..n
      /\ \A i, j \in 1..m : i < j => at[i] < at[j]
      /\ at[m + 1] = n + 1
      /\ \A j \in 1..m : j # m => at[j + 1] \in 1..n
  <2>1. m \in Nat /\ \A i, j \in 1..m + 1 : i < j => at[i] < at[j]
    BY <1>1 DEF Stack
  <2>2. \A i, j \in 1..m : i < j => at[i] < at[j]
    <3> HIDE DEF m
    <3> QED
      BY <2>1
  <2> QED
    BY <2>2, PlaceFacts
<1>4. /\ calls[at[m]].k \in IF m = 1 THEN {"run", "module"} ELSE {"import"}
      /\ \A i \in 1..k : calls[at[m] + i].k = "interface" /\ calls[at[m] + i].file = s[i]
  <2>1. m \in 1..m
    <3> HIDE DEF m
    <3> QED
      BY <1>1
  <2>2. Level(at, m, calls, checkers)
    BY <2>1 DEF Stack
  <2> QED
    BY <1>1, <2>2 DEF Level
<1> HIDE DEF m, n, s, k
<1>5. /\ at[m] < n /\ \A j \in 1..m : at[j] < n
  <2>1. at[m] < n /\ at[m] \in 1..n /\ m \in 1..m
    BY <1>1, <1>2, <1>3
  <2>2. ASSUME NEW j \in 1..m
        PROVE  at[j] < n
    <3>1. j = m \/ at[j] < at[m]
      BY <1>1, <1>3, <2>1
    <3> QED
      BY <1>1, <1>3, <2>1, <3>1
  <2> QED
    BY <2>1, <2>2
<1>6. /\ \A j \in 1..m : bt[j] = at[j]
      /\ bt[m + 1] = n /\ bt[m + 2] = n + 1
      /\ bt \in [1..m + 1 + 1 -> 1..n + 1]
      /\ \A i, j \in 1..m + 1 + 1 : i < j => bt[i] < bt[j]
  <2>0. m \in Nat /\ m + 1 \in Nat /\ n \in Nat
    BY <1>1
  <2>1. PICK a \in Nat, b \in Nat, c \in Nat : a = m /\ b = m + 1 /\ c = n
    BY <2>0, Zenon
  <2>2. bt = Moved(at, a, b, c) /\ b = a + 1 /\ c >= 1
    <3>1. bt = Moved(at, a, b, c)
      BY <1>1, <2>1 DEF m, n
    <3> QED
      BY <1>1, <1>3, <2>1, <3>1
  <2>3. \A j \in 1..a : j <= b => at[j] \in 1..c /\ (a < b => at[j] < c)
    BY <1>3, <1>5, <2>1
  <2>4. \A i, j \in 1..a : i < j => at[i] < at[j]
    BY <1>3, <2>1
  <2>10. Risen(bt, at, a, b, c)
    <3>1. Rising(at, a, b, c)
      BY <2>2, <2>3, <2>4 DEF Rising
    <3> QED
      BY <2>2, <3>1, MovedFacts
  <2>5. /\ bt[b + 1] = c + 1 /\ bt[b] = c
        /\ \A j \in 1..a : j <= b => bt[j] = at[j]
    BY <2>2, <2>10 DEF Risen
  <2>7. /\ bt \in [1..b + 1 -> 1..c + 1]
        /\ \A i, j \in 1..b + 1 : i < j => bt[i] < bt[j]
    BY <2>10 DEF Risen
  <2>6. b + 1 = m + 2 /\ b + 1 = m + 1 + 1 /\ c + 1 = n + 1 /\ \A j \in 1..a : j <= b
    BY <2>0, <2>1
  <2>8. bt[m + 1] = n /\ bt[m + 2] = n + 1 /\ \A j \in 1..m : bt[j] = at[j]
    BY <2>1, <2>5, <2>6
  <2>9. /\ bt \in [1..m + 1 + 1 -> 1..n + 1]
        /\ \A i, j \in 1..m + 1 + 1 : i < j => bt[i] < bt[j]
    BY <2>1, <2>6, <2>7
  <2> QED
    BY <2>8, <2>9
<1>7. Level(bt, m, calls', checkers')
  <2>1. /\ bt[m] = at[m] /\ bt[m + 1] = bt[m] + 1 + (k - 1)
        /\ \A i \in 1..k - 1 : i \in 1..k /\ at[m] + i \in 1..n /\ at[m] + i # n
    <3>1. m \in 1..m /\ n = at[m] + k /\ at[m] \in 1..n /\ k \in Nat /\ k >= 1 /\ n \in Nat
      BY <1>1, <1>2, <1>3
    <3>2. bt[m] = at[m] /\ bt[m + 1] = n
      BY <1>6, <3>1
    <3>3. at[m] \in Nat /\ at[m] >= 1
      BY <3>1
    <3>4. /\ n = at[m] + 1 + (k - 1)
          /\ \A i \in 1..k - 1 : i \in 1..k /\ at[m] + i \in 1..n /\ at[m] + i # n
      BY <3>1, <3>3, StepsAhead
    <3> QED
      BY <3>2, <3>4
  <2>2. calls'[at[m]] = calls[at[m]]
    <3>1. m \in 1..m
      BY <1>1
    <3>2. at[m] \in 1..n /\ at[m] < n /\ n \in Nat
      BY <1>1, <1>3, <1>5, <3>1
    <3>3. at[m] # n
      BY <3>2
    <3> QED
      BY <1>1, <3>2, <3>3
  <2>3. \A i \in 1..k - 1 : calls'[at[m] + i] = calls[at[m] + i]
    BY <1>1, <2>1
  <2>4. calls'[bt[m]].k \in IF m = 1 THEN {"run", "module"} ELSE {"import"}
    BY <1>4, <2>1, <2>2
  <2>5. \A i \in 1..k - 1 : /\ calls'[bt[m] + i].k = "interface"
                            /\ calls'[bt[m] + i].file = Butlast(s)[i]
    <3>1. ASSUME NEW i \in 1..k - 1
          PROVE  /\ calls[at[m] + i].k = "interface" /\ calls[at[m] + i].file = s[i]
                 /\ Butlast(s)[i] = s[i] /\ calls'[at[m] + i] = calls[at[m] + i]
      <4>1. i \in 1..k
        BY <2>1
      <4> QED
        BY <1>2, <1>4, <2>3, <4>1
    <3> QED
      BY <2>1, <3>1
  <2> QED
    BY <1>1, <1>2, <2>1, <2>4, <2>5 DEF Level
<1>8. Level(bt, m + 1, calls', checkers')
  <2>1. /\ bt[m + 1 + 1] = bt[m + 1] + 1 + 0 /\ Len(<<>>) = 0 /\ 1..0 = {} /\ m + 1 # 1
    BY <1>1, <1>6
  <2> QED
    BY <1>1, <1>6, <2>1 DEF Level
<1>9. \A j \in 1..m + 1 : j > m - 1 => Level(bt, j, calls', checkers')
  <2>1. \A j \in 1..m + 1 : j > m - 1 => j = m \/ j = m + 1
    BY <1>1
  <2> QED
    BY <1>7, <1>8, <2>1
<1>10. \A p \in 1..bt[1] - 1 : calls'[p].k \in Evaluations
  <2>1. 1 \in 1..m /\ bt[1] = at[1] /\ at[1] \in 1..n
    BY <1>1, <1>3, <1>6
  <2>2. \A p \in 1..at[1] - 1 : p \in 1..n /\ p # n /\ calls[p].k \in Evaluations
    BY <1>1, <2>1 DEF Stack
  <2> QED
    BY <1>1, <2>1, <2>2
<1>11. ASSUME NEW j \in 1..m - 1
       PROVE  /\ checkers'[j].loading = checkers[j].loading
              /\ bt[j] = at[j] /\ bt[j + 1] = at[j + 1]
              /\ \A p \in 1..n : p < at[j + 1] =>
                    calls'[p].k = calls[p].k /\ calls'[p].file = calls[p].file
  <2>1. j \in 1..m /\ j + 1 \in 1..m /\ j # m
    BY <1>1
  <2>2. \A p \in 1..n : p < at[j + 1] => p # n
    BY <1>1, <1>3, <2>1
  <2> QED
    BY <1>1, <1>6, <2>1, <2>2
<1>12. Stack(bt)'
  <2>0. m + 1 \in Nat /\ m - 1 \in Nat /\ n \in Nat
    BY <1>1
  <2>1. PICK m1 \in Nat, l \in Nat, n1 \in Nat : m1 = m + 1 /\ l = m - 1 /\ n1 = n
    BY <2>0, Zenon
  <2>2. /\ Len(checkers') = m1 /\ Len(calls') = n1
        /\ bt \in [1..m1 + 1 -> 1..n1 + 1] /\ bt[m1 + 1] = n1 + 1
        /\ \A i, j \in 1..m1 + 1 : i < j => bt[i] < bt[j]
        /\ l <= Len(checkers) /\ l <= m1
    BY <1>1, <1>6, <2>1 DEF m
  <2>3. \A j \in 1..l : /\ checkers'[j].loading = checkers[j].loading
                         /\ bt[j] = at[j] /\ bt[j + 1] = at[j + 1]
    BY <1>11, <2>1
  <2>4. \A j \in 1..l : \A p \in 1..Len(calls) :
            p < at[j + 1] => calls'[p].k = calls[p].k /\ calls'[p].file = calls[p].file
    BY <1>11, <2>1 DEF n
  <2>5. \A j \in 1..m1 : j > l => Level(bt, j, calls', checkers')
    BY <1>9, <2>1
  <2>6. Restacks(at, bt, l, m1, n1)
    BY <1>10, <2>2, <2>3, <2>4, <2>5 DEF Restacks
  <2> QED
    BY <2>6, Restacked
<1> QED
  BY <1>5, <1>6, <1>12 DEF m, n

\* A checker of an imported file that is done takes its call with it.
LEMMA CheckedStack ==
    ASSUME Typed, NEW at, Stack(at), ImportChecked, NEW bt,
           bt = Moved(at, Len(checkers), Len(checkers'), Len(calls'))
    PROVE  /\ Stack(bt)'
           /\ \A j \in 1..Len(checkers) : bt[j] = at[j]
           /\ at[Len(checkers)] = Len(calls)
<1> DEFINE m == Len(checkers)
           n == Len(calls)
<1>1. /\ m >= 2 /\ m \in Nat /\ n \in Nat /\ Len(checkers') = m - 1 /\ Len(calls') = n - 1
      /\ at[m] = n /\ n >= 1
      /\ \A p \in 1..n - 1 : calls'[p] = calls[p]
      /\ \A j \in 1..m - 1 : checkers'[j].loading = checkers[j].loading
  <2>1. calls # <<>> /\ Call.k = "import" /\ m >= 2 /\ m \in Nat
    BY CheckedEffect
  <2>2. at[m] = n /\ n \in Nat /\ n >= 1
    BY <2>1, TopFacts, CallFacts DEF Evaluations
  <2>3. /\ \A j \in 1..m - 2 : checkers'[j] = checkers[j]
        /\ checkers'[m - 1].loading = checkers[m - 1].loading
        /\ Len(checkers') = m - 1 /\ Len(calls') = n - 1
        /\ \A p \in 1..n - 1 : calls'[p] = calls[p]
    BY CheckedEffect
  <2> HIDE DEF m, n
  <2>4. \A j \in 1..m - 1 : j = m - 1 \/ j \in 1..m - 2
    BY <2>1
  <2> QED
    BY <2>1, <2>2, <2>3, <2>4
<1>2. /\ at \in [1..m + 1 -> 1..n + 1] /\ \A i, j \in 1..m + 1 : i < j => at[i] < at[j]
  BY DEF Stack
<1>3. \A p \in 1..(at[1] - 1) : calls[p].k \in Evaluations
  BY DEF Stack
<1> HIDE DEF m, n
<1>4. /\ \A i, j \in 1..m : i < j => at[i] < at[j]
      /\ \A j \in 1..m - 1 : at[j] \in 1..n - 1
  <2>1. ASSUME NEW j \in 1..m - 1
        PROVE  at[j] \in 1..n - 1
    <3>1. j \in 1..m + 1 /\ m \in 1..m + 1 /\ j < m
      BY <1>1
    <3> QED
      BY <1>1, <1>2, <3>1
  <2> QED
    BY <1>1, <1>2, <2>1
<1>5. PICK m1 \in Nat, n1 \in Nat, a \in Nat : m1 = m - 1 /\ n1 = n - 1 /\ a = m
  <2>1. m - 1 \in Nat /\ n - 1 \in Nat /\ m \in Nat
    BY <1>1
  <2> QED
    BY <2>1, Zenon
<1>6. /\ bt \in [1..m1 + 1 -> 1..n1 + 1] /\ bt[m1 + 1] = n1 + 1
      /\ \A i, j \in 1..m1 + 1 : i < j => bt[i] < bt[j]
      /\ \A j \in 1..a : j <= m1 => bt[j] = at[j]
  <2>1. bt = Moved(at, a, m1, n1) /\ m1 <= a
    <3>1. bt = Moved(at, a, m1, n1)
      BY <1>1, <1>5 DEF m, n
    <3> QED
      BY <1>1, <1>5, <3>1
  <2>2. \A j \in 1..a : j <= m1 => at[j] \in 1..n1 /\ (a < m1 => at[j] < n1)
    BY <1>4, <1>5
  <2>3. \A i, j \in 1..a : i < j => at[i] < at[j]
    BY <1>4, <1>5
  <2>4. Rising(at, a, m1, n1)
    BY <2>1, <2>2, <2>3 DEF Rising
  <2>5. Risen(bt, at, a, m1, n1)
    BY <2>1, <2>4, MovedFacts
  <2> QED
    BY <2>5 DEF Risen
<1>7. \A j \in 1..m : bt[j] = at[j]
  <2>1. ASSUME NEW j \in 1..m
        PROVE  bt[j] = at[j]
    <3>1. (j = m1 + 1 /\ m1 + 1 = m) \/ (j \in 1..a /\ j <= m1)
      BY <1>1, <1>5
    <3> QED
      BY <1>1, <1>5, <1>6, <3>1
  <2> QED
    BY <2>1
<1>8. ASSUME NEW j \in 1..m1
      PROVE  /\ checkers'[j].loading = checkers[j].loading
             /\ bt[j] = at[j] /\ bt[j + 1] = at[j + 1]
             /\ \A p \in 1..n : p < at[j + 1] =>
                   calls'[p].k = calls[p].k /\ calls'[p].file = calls[p].file
  <2>1. j \in 1..m - 1 /\ j \in 1..m /\ j + 1 \in 1..m
    BY <1>1, <1>5
  <2>2. at[j + 1] \in 1..n
    BY <1>1, <1>2, <1>4, <2>1
  <2>3. \A p \in 1..n : p < at[j + 1] => p \in 1..n - 1
    BY <1>1, <2>2
  <2> QED
    BY <1>1, <1>7, <2>1, <2>3
<1>9. \A p \in 1..bt[1] - 1 : calls'[p].k \in Evaluations
  <2>1. 1 \in 1..m /\ 1 \in 1..m - 1
    BY <1>1
  <2>2. bt[1] = at[1] /\ at[1] \in 1..n - 1
    BY <1>4, <1>7, <2>1
  <2>3. \A p \in 1..at[1] - 1 : p \in 1..n - 1
    BY <1>1, <2>2
  <2> QED
    BY <1>1, <1>3, <2>2, <2>3
<1>10. Stack(bt)'
  <2>1. Len(checkers') = m1 /\ Len(calls') = n1 /\ m1 <= Len(checkers) /\ m1 <= m1
    BY <1>1, <1>5 DEF m
  <2>2. \A j \in 1..m1 : /\ checkers'[j].loading = checkers[j].loading
                         /\ bt[j] = at[j] /\ bt[j + 1] = at[j + 1]
    BY <1>8
  <2>3. \A j \in 1..m1 : \A p \in 1..Len(calls) :
            p < at[j + 1] => calls'[p].k = calls[p].k /\ calls'[p].file = calls[p].file
    BY <1>8 DEF n
  <2>4. \A j \in 1..m1 : j > m1 => Level(bt, j, calls', checkers')
    OBVIOUS
  <2>5. Restacks(at, bt, m1, m1, n1)
    BY <1>6, <1>9, <2>1, <2>2, <2>3, <2>4 DEF Restacks
  <2> QED
    BY <2>5, Restacked
<1> QED
  BY <1>1, <1>7, <1>10 DEF m, n

\* A file that the evaluator loads has a checker on top of the evaluations.
LEMMA LoadStack ==
    ASSUME Typed, NEW at, Stack(at), LoadModule, NEW bt,
           bt = Moved(at, Len(checkers), Len(checkers'), Len(calls'))
    PROVE  Stack(bt)' /\ bt[1] = Len(calls) + 2
<1> DEFINE n == Len(calls)
<1>1. /\ Len(checkers) = 0 /\ n \in Nat /\ Len(checkers') = 1 /\ Len(calls') = n + 2
      /\ \A p \in 1..n : calls'[p].k = calls[p].k
      /\ calls'[n + 1].k = "load" /\ calls'[n + 2].k = "module"
      /\ checkers'[1].loading = <<>>
  <2>1. checkers' = <<Checker(<<>>)>> /\ Len(checkers) = 0 /\ n \in Nat
    BY LoadEffect, CheckerFacts, PlaceFacts
  <2>2. Len(checkers') = 1 /\ checkers'[1].loading = <<>>
    BY <2>1 DEF Checker
  <2>3. /\ calls'[n + 1] = Frame("load", Current.name, Named, Append(Call.loading, Current.name))
        /\ calls'[n + 2] = Frame("module", Current.name, Named, <<>>)
        /\ Len(calls') = n + 2
        /\ \A p \in 1..n : SameCall(calls'[p], calls[p])
    BY LoadEffect
  <2>4. calls'[n + 1].k = "load" /\ calls'[n + 2].k = "module"
    BY <2>3 DEF Frame
  <2> QED
    BY <2>1, <2>2, <2>3, <2>4 DEF SameCall
<1>2. at[1] = n + 1 /\ \A p \in 1..(at[1] - 1) : calls[p].k \in Evaluations
  BY <1>1 DEF Stack
<1> HIDE DEF n
<1>3. /\ bt \in [1..1 + 1 -> 1..n + 2 + 1] /\ bt[1] = n + 2 /\ bt[2] = n + 3
  <2>1. bt = Moved(at, 0, 1, n + 2)
    BY <1>1 DEF n
  <2>2. bt = [j \in 1..2 |-> IF j = 2 THEN n + 3 ELSE n + 2]
    BY <1>1, <2>1 DEF Moved
  <2> QED
    BY <1>1, <2>2
<1>4. \A i, j \in 1..1 + 1 : i < j => bt[i] < bt[j]
  <2>1. \A i, j \in 1..1 + 1 : i < j => i = 1 /\ j = 2
    OBVIOUS
  <2>2. bt[1] < bt[2]
    BY <1>1, <1>3
  <2> QED
    BY <2>1, <2>2
<1>5. Level(bt, 1, calls', checkers')
  <2>1. Len(<<>>) = 0 /\ 1..0 = {} /\ bt[1 + 1] = bt[1] + 1 + 0
    BY <1>1, <1>3
  <2> QED
    BY <1>1, <1>3, <2>1 DEF Level
<1>6. \A p \in 1..bt[1] - 1 : calls'[p].k \in Evaluations
  <2>1. \A p \in 1..n + 1 : p = n + 1 \/ p \in 1..n
    BY <1>1
  <2>2. bt[1] - 1 = n + 1 /\ at[1] - 1 = n
    BY <1>1, <1>2, <1>3
  <2> QED
    BY <1>1, <1>2, <2>1, <2>2 DEF Evaluations
<1>7. Stack(bt)'
  <2>1. PICK m1 \in Nat, n1 \in Nat, l \in Nat : m1 = 1 /\ n1 = n + 2 /\ l = 0
    <3>1. 1 \in Nat /\ n + 2 \in Nat /\ 0 \in Nat
      BY <1>1
    <3> QED
      BY <3>1, Zenon
  <2>2. /\ Len(checkers') = m1 /\ Len(calls') = n1 /\ l <= Len(checkers) /\ l <= m1
        /\ bt \in [1..m1 + 1 -> 1..n1 + 1] /\ bt[m1 + 1] = n1 + 1
        /\ \A i, j \in 1..m1 + 1 : i < j => bt[i] < bt[j]
    BY <1>1, <1>3, <1>4, <2>1
  <2>3. 1..l = {} /\ \A j \in 1..m1 : j > l => Level(bt, j, calls', checkers')
    BY <1>5, <2>1
  <2>4. Restacks(at, bt, l, m1, n1)
    BY <1>6, <2>2, <2>3 DEF Restacks
  <2> QED
    BY <2>4, Restacked
<1> QED
  BY <1>3, <1>7 DEF n

\* When it has been checked, or loaded, the evaluations are left.
LEMMA LeaveStack ==
    ASSUME Typed, NEW at, Stack(at), Leave, NEW bt,
           bt = Moved(at, Len(checkers), Len(checkers'), Len(calls'))
    PROVE  Stack(bt)' /\ bt[1] = Len(calls) /\ at[1] >= Len(calls)
<1> DEFINE n == Len(calls)
<1>1. /\ n \in Nat /\ n >= 1 /\ Len(checkers') = 0 /\ Len(calls') = n - 1
      /\ Len(checkers) \in Nat
      /\ \A p \in 1..n - 1 : calls'[p] = calls[p]
      /\ at[1] >= n /\ \A p \in 1..(at[1] - 1) : calls[p].k \in Evaluations
  <2>1. /\ calls # <<>> /\ Len(checkers') = 0 /\ Len(calls') = n - 1
        /\ \A p \in 1..n - 1 : calls'[p] = calls[p]
        /\ Call.k \in {"module", "load"}
    BY LeaveEffect
  <2>2. n \in Nat /\ n >= 1 /\ Len(checkers) \in Nat
    BY <2>1, CallFacts, CheckerFacts
  <2>3. at[1] = n + 1 \/ at[1] = n
    BY <2>1, TopFacts DEF Evaluations
  <2> QED
    BY <2>1, <2>2, <2>3 DEF Stack
<1> HIDE DEF n
<1>2. bt \in [1..0 + 1 -> 1..(n - 1) + 1] /\ bt[0 + 1] = (n - 1) + 1 /\ bt[1] = n
  <2>1. bt = Moved(at, Len(checkers), 0, n - 1)
    BY <1>1 DEF n
  <2>2. bt = [j \in 1..1 |-> n]
    BY <1>1, <2>1 DEF Moved
  <2> QED
    BY <1>1, <2>2
<1>3. \A p \in 1..bt[1] - 1 : calls'[p].k \in Evaluations
  <2>1. \A p \in 1..n - 1 : p \in 1..(at[1] - 1)
    <3>1. at[1] \in 1..Len(calls) + 1
      BY PlaceFacts
    <3> QED
      BY <1>1, <3>1 DEF n
  <2> QED
    BY <1>1, <1>2, <2>1
<1>4. Stack(bt)'
  <2>1. PICK m1 \in Nat, n1 \in Nat : m1 = 0 /\ n1 = n - 1
    <3>1. 0 \in Nat /\ n - 1 \in Nat
      BY <1>1
    <3> QED
      BY <3>1, Zenon
  <2>2. /\ Len(checkers') = m1 /\ Len(calls') = n1 /\ m1 <= Len(checkers) /\ m1 <= m1
        /\ bt \in [1..m1 + 1 -> 1..n1 + 1] /\ bt[m1 + 1] = n1 + 1
        /\ \A i, j \in 1..m1 + 1 : i < j => bt[i] < bt[j]
    BY <1>1, <1>2, <2>1
  <2>3. 1..m1 = {}
    BY <2>1
  <2>4. Restacks(at, bt, m1, m1, n1)
    BY <1>3, <2>2, <2>3 DEF Restacks
  <2> QED
    BY <2>4, Restacked
<1> QED
  BY <1>1, <1>2, <1>4 DEF n

\* heh reads the main file, or finds it right and begins to evaluate it.
Begin == (ReadMain \/ RunChecked) /\ Active'

\* heh checks the main file, or evaluates it, with one call.
LEMMA BeginEffect ==
    ASSUME Typed, Stacked, Begin
    PROVE  /\ Len(calls') = 1 /\ calls'[1].file = Main /\ calls'[1].loading = <<>>
           /\ calls'[1].uses = calls'[1].src.uses
           /\ UNCHANGED <<disk, edits>>
           /\ \/ /\ ReadMain /\ status = "start" /\ status' = "check"
                 /\ calls' = <<Frame("run", Main, disk[Main], <<>>)>>
                 /\ calls'[1].k = "run" /\ calls'[1].src = disk[Main]
                 /\ disk[Main].fault \notin {"missing", "syntax"}
                 /\ checkers' = <<Checker(<<>>)>> /\ Len(checkers') = 1
                 /\ Stack([j \in 1..2 |-> j])'
              \/ /\ RunChecked /\ status = "check" /\ status' = "eval"
                 /\ calls # <<>> /\ Call.k = "run" /\ Call.uses = <<>> /\ Verdict = {}
                 /\ calls' = <<Frame("main", Main, Call.src, <<>>)>>
                 /\ calls'[1].k = "main" /\ calls'[1].src = Call.src
                 /\ checkers' = <<>> /\ Len(checkers') = 0
                 /\ Stack([j \in 1..1 |-> 2])'
           /\ Typed'
<1>1. /\ \A c : Len(<<c>>) = 1 /\ <<c>>[1] = c /\ <<c>> = Append(<<>>, c)
      /\ <<>> \in Seq(CheckerType) /\ Len(<<>>) = 0
  BY EmptySeq
<1>2. \A k, f, src : LET c == Frame(k, f, src, <<>>)
                    IN  c.k = k /\ c.file = f /\ c.src = src /\ c.uses = src.uses /\ c.loading = <<>>
  BY DEF Frame
<1>3. <<>> \in Seq(Files)
  BY EmptySeq
<1>4. CASE ReadMain
  <2>1. /\ status = "start" /\ status' = "check" /\ disk[Main].fault \notin {"missing", "syntax"}
        /\ calls' = <<Frame("run", Main, disk[Main], <<>>)>>
        /\ checkers' = <<Checker(<<>>)>> /\ UNCHANGED <<disk, edits>>
    BY <1>4 DEF ReadMain, Begin, Active
  <2>2. Main \in Files /\ disk[Main] \in Content
    BY <2>1, FilesAssumption DEF Typed, Missing
  <2>3. Frame("run", Main, disk[Main], <<>>) \in CallType
    BY <1>3, <2>2, NewTyped DEF Checks
  <2>4. Checker(<<>>) \in CheckerType /\ Checker(<<>>).loading = <<>>
    BY NewTyped DEF Checker
  <2>5. calls' \in Seq(CallType) /\ checkers' \in Seq(CheckerType)
    <3>1. \A S : \A c \in S : <<c>> \in Seq(S)
      OBVIOUS
    <3> QED
      BY <2>1, <2>3, <2>4, <3>1
  <2>6. /\ Len(calls') = 1 /\ calls'[1].k = "run" /\ calls'[1].file = Main
        /\ calls'[1].loading = <<>> /\ calls'[1].src = disk[Main]
        /\ calls'[1].uses = calls'[1].src.uses
        /\ Len(checkers') = 1 /\ checkers'[1].loading = <<>>
    BY <1>1, <1>2, <2>1, <2>4
  <2>7. Stack([j \in 1..2 |-> j])'
    <3> DEFINE at == [j \in 1..2 |-> j]
    <3>1. /\ at \in [1..1 + 1 -> 1..1 + 1] /\ at[1 + 1] = 1 + 1 /\ at[1] = 1
          /\ \A i, j \in 1..1 + 1 : i < j => at[i] < at[j]
      OBVIOUS
    <3>2. at[1 + 1] = at[1] + 1 + 0 /\ Len(<<>>) = 0 /\ 1..0 = {} /\ 1..(1 - 1) = {}
      BY <1>1
    <3> HIDE DEF at
    <3>3. Level(at, 1, calls', checkers')
      BY <2>6, <3>1, <3>2 DEF Level
    <3>4. Stack(at)'
      BY <2>6, <3>1, <3>2, <3>3 DEF Stack
    <3> QED
      BY <3>4 DEF at
  <2> QED
    BY <1>4, <2>1, <2>5, <2>6, <2>7 DEF Typed
<1>5. CASE RunChecked
  <2>1. /\ calls # <<>> /\ Call.k = "run" /\ Call.uses = <<>>
        /\ Verdict = {} /\ status' = "eval"
        /\ calls' = <<Frame("main", Main, Call.src, <<>>)>>
        /\ checkers' = <<>> /\ UNCHANGED <<disk, edits>>
    BY <1>5 DEF RunChecked, Followed, Begin, Active
  <2>2. /\ Call.src \in Content /\ Call = calls[Len(calls)]
        /\ Len(calls) \in Nat \ {0}
    BY <2>1, CallFacts
  <2>3. status = "check"
    <3>1. Len(calls) \in 1..Len(calls)
      BY <2>2
    <3> QED
      BY <2>1, <2>2, <3>1 DEF Stacked, Staged
  <2>4. Frame("main", Main, Call.src, <<>>) \in CallType
    BY <1>3, <2>2, NewTyped, FilesAssumption DEF Evaluations
  <2>5. calls' \in Seq(CallType) /\ checkers' \in Seq(CheckerType)
    <3>1. \A S : \A c \in S : <<c>> \in Seq(S)
      OBVIOUS
    <3> QED
      BY <1>1, <2>1, <2>4, <3>1
  <2>6. /\ Len(calls') = 1 /\ calls'[1].k = "main" /\ calls'[1].file = Main
        /\ calls'[1].loading = <<>> /\ calls'[1].src = Call.src
        /\ calls'[1].uses = calls'[1].src.uses
        /\ Len(checkers') = 0
    BY <1>1, <1>2, <2>1
  <2>7. Stack([j \in 1..1 |-> 2])'
    <3> DEFINE at == [j \in 1..1 |-> 2]
    <3>1. /\ at \in [1..0 + 1 -> 1..1 + 1] /\ at[0 + 1] = 1 + 1 /\ at[1] = 2
          /\ \A i, j \in 1..0 + 1 : i < j => at[i] < at[j]
          /\ 1..0 = {} /\ \A p \in 1..(2 - 1) : p = 1
      OBVIOUS
    <3> HIDE DEF at
    <3>2. Stack(at)'
      BY <2>6, <3>1 DEF Stack, Evaluations
    <3> QED
      BY <3>2 DEF at
  <2> QED
    BY <1>5, <2>1, <2>3, <2>5, <2>6, <2>7 DEF Typed
<1> QED
  BY <1>4, <1>5 DEF Begin

\* heh rejects the program, faults, or is done.
Halt == Heh /\ ~Active'

\* heh ends with no call, and with a checker only where it rejects the main file.
LEMMA HaltEffect ==
    ASSUME Typed, Stacked, Halt
    PROVE  /\ calls' = <<>> /\ status' \notin {"start", "check", "eval"}
           /\ Len(checkers') <= Len(checkers)
           /\ UNCHANGED <<disk, edits>>
           /\ \/ /\ ReadMain /\ status = "start" /\ status' = "rejected"
                 /\ disk[Main].fault \in {"missing", "syntax"}
                 /\ checkers' = <<>>
              \/ /\ RunChecked /\ status' = "rejected"
                 /\ calls # <<>> /\ Call.k = "run" /\ Call.uses = <<>> /\ Verdict # {}
                 /\ Len(checkers) = 1 /\ Len(checkers') = 1 /\ checkers'[1].diags = Verdict
                 /\ status = "check"
              \/ /\ ModuleChecked /\ status' = "E0033" /\ Verdict # {}
                 /\ checkers' = <<>> /\ status = "eval"
              \/ /\ FaultLoad /\ status' = LoadFault /\ checkers' = checkers
                 /\ checkers' = <<>> /\ status = "eval"
              \/ /\ MainLoaded /\ status' = "done" /\ checkers' = checkers
                 /\ checkers' = <<>> /\ status = "eval"
           /\ Typed'
<1>1. <<>> \in Seq(CallType) /\ <<>> \in Seq(CheckerType) /\ Len(<<>>) = 0
  BY EmptySeq
<1>2. checkers \in Seq(CheckerType) /\ Len(checkers) \in Nat
  BY CheckerFacts DEF Typed
<1>3. ASSUME calls # <<>>
      PROVE  /\ Active /\ \E at : Stack(at)
             /\ Call.k \in Evaluations \cup {"module"} => status = "eval"
             /\ Call.k = "run" => status = "check"
  <2>1. Active /\ \E at : Stack(at)
    BY <1>3 DEF Stacked, Staged
  <2>2. Len(calls) \in 1..Len(calls) /\ Call = calls[Len(calls)]
    BY <1>3, CallFacts
  <2> QED
    BY <2>1, <2>2 DEF Stacked, Staged
<1>4. CASE ReadMain
  <2>1. /\ status = "start" /\ status' = "rejected" /\ disk[Main].fault \in {"missing", "syntax"}
        /\ UNCHANGED <<disk, edits, calls, checkers>>
    BY <1>4 DEF ReadMain, Halt, Active
  <2>2. calls = <<>> /\ checkers = <<>>
    BY <2>1 DEF Stacked, Staged, Active
  <2> QED
    BY <1>1, <1>2, <1>4, <2>1, <2>2 DEF Typed
<1>5. CASE RunChecked
  <2>1. /\ calls # <<>> /\ Call.k = "run" /\ Call.uses = <<>>
        /\ Verdict # {} /\ status' = "rejected" /\ calls' = <<>>
        /\ checkers' = OnTop(checkers, [This EXCEPT !.diags = Verdict])
        /\ UNCHANGED <<disk, edits>>
    BY <1>5 DEF RunChecked, Followed, Halt, Active
  <2>2. Len(checkers) = 1 /\ status = "check"
    <3>1. \A at : Stack(at) => Len(checkers) = 1
      BY <2>1, TopFacts DEF Evaluations
    <3> QED
      BY <1>3, <2>1, <3>1
  <2>3. checkers # <<>> /\ This \in CheckerType /\ This.diags \in SUBSET Codes
    <3>1. checkers # <<>>
      BY <1>1, <2>2
    <3> QED
      BY <2>2, <3>1, CheckerFacts
  <2> DEFINE told == [This EXCEPT !.diags = Verdict]
  <2>4. told \in CheckerType /\ told.diags = Verdict
    <3>1. Verdict \in SUBSET Codes
      BY <2>3 DEF Verdict, Codes
    <3> QED
      BY <2>3, <3>1 DEF CheckerType
  <2> HIDE DEF told
  <2>5. /\ OnTop(checkers, told) \in Seq(CheckerType)
        /\ Len(OnTop(checkers, told)) = 1 /\ OnTop(checkers, told)[1] = told
    <3>1. checkers \in Seq(CheckerType) /\ checkers # <<>> /\ told \in CheckerType
      BY <1>2, <2>3, <2>4
    <3>2. /\ OnTop(checkers, told) \in Seq(CheckerType)
          /\ Len(OnTop(checkers, told)) = Len(checkers)
          /\ OnTop(checkers, told)[Len(checkers)] = told
      BY <3>1, OnTopFacts
    <3> QED
      BY <2>2, <3>2
  <2>6. /\ checkers' \in Seq(CheckerType) /\ Len(checkers') = 1
        /\ checkers'[1].diags = Verdict
    BY <2>1, <2>4, <2>5 DEF told
  <2>7. Typed'
    BY <1>1, <2>1, <2>6 DEF Typed
  <2>8. Len(checkers') <= Len(checkers)
    BY <2>2, <2>6
  <2>9. /\ UNCHANGED <<disk, edits>> /\ calls' = <<>>
        /\ status' \notin {"start", "check", "eval"}
    BY <2>1
  <2> QED
    BY <1>5, <2>1, <2>2, <2>6, <2>7, <2>8, <2>9, Zenon
<1>6. CASE ModuleChecked
  <2>1. /\ calls # <<>> /\ Call.k = "module"
        /\ Verdict # {} /\ status' = "E0033" /\ calls' = <<>>
        /\ checkers' = Butlast(checkers)
        /\ UNCHANGED <<disk, edits>>
    <3>1. calls # <<>> /\ Call.k = "module" /\ checkers' = Butlast(checkers)
      BY <1>6 DEF ModuleChecked, Followed
    <3>2. status = "eval"
      BY <1>3, <3>1
    <3> QED
      BY <1>6, <3>1, <3>2 DEF ModuleChecked, Halt, Active
  <2>2. Len(checkers) = 1 /\ status = "eval"
    <3>1. \A at : Stack(at) => Len(checkers) = 1
      BY <2>1, TopFacts DEF Evaluations
    <3> QED
      BY <1>3, <2>1, <3>1
  <2>3. checkers' = <<>>
    <3>1. checkers # <<>>
      BY <1>1, <2>2
    <3>2. Len(Butlast(checkers)) = Len(checkers) - 1 /\ Butlast(checkers) \in Seq(CheckerType)
      BY <1>2, <3>1, ButlastFacts
    <3>3. Len(Butlast(checkers)) = 0
      BY <2>2, <3>2
    <3> QED
      BY <2>1, <3>2, <3>3, EmptySeq
  <2> QED
    BY <1>1, <1>2, <1>6, <2>1, <2>2, <2>3 DEF Typed
<1>7. CASE FaultLoad \/ MainLoaded
  <2>1. /\ calls # <<>> /\ Call.k \in Evaluations /\ calls' = <<>>
        /\ checkers' = checkers /\ UNCHANGED <<disk, edits>>
        /\ \/ FaultLoad /\ status' = LoadFault /\ LoadFault # ""
           \/ MainLoaded /\ status' = "done"
    BY <1>7 DEF FaultLoad, Loading, MainLoaded, Following, Followed, Evaluations
  <2>2. status' \notin {"start", "check", "eval"}
    BY <2>1 DEF LoadFault
  <2>3. checkers = <<>> /\ status = "eval"
    <3>1. \A at : Stack(at) => Len(checkers) = 0
      <4>1. calls # <<>> /\ Call.k \in Evaluations
        BY <2>1
      <4> QED
        BY <4>1, TopFacts DEF Evaluations
    <3>2. Len(checkers) = 0 /\ status = "eval"
      BY <1>3, <2>1, <3>1
    <3> QED
      BY <3>2, CheckerFacts
  <2>4. Typed'
    BY <1>1, <2>1, <2>3 DEF Typed
  <2>5. Len(checkers') <= Len(checkers)
    <3>1. Len(checkers') = Len(checkers)
      BY <2>1
    <3> QED
      BY <1>2, <3>1
  <2>6. calls' = <<>> /\ UNCHANGED <<disk, edits>> /\ checkers' = <<>>
    BY <2>1, <2>3
  <2> QED
    BY <2>1, <2>2, <2>3, <2>4, <2>5, <2>6, Zenon
<1>8. CASE \/ SkipStd \/ RefuseImport \/ ReuseInterface \/ OpenInterface \/ CloseInterface
           \/ ImportChecked \/ BindStd \/ LoadModule \/ ModuleLoaded
  <2>1. calls # <<>> /\ status' = status
    BY <1>8 DEF SkipStd, RefuseImport, ReuseInterface, OpenInterface, CloseInterface,
                ImportChecked, BindStd, LoadModule, ModuleLoaded, Importing, Loading,
                Following, Followed
  <2> QED
    BY <1>3, <2>1 DEF Halt, Active
<1> QED
  BY <1>4, <1>5, <1>6, <1>7, <1>8 DEF Halt, Heh, Check, Eval

\* The kinds of steps.
LEMMA Steps ==
    ASSUME Typed, Stacked, [Next]_vars
    PROVE  \/ Edit \/ UNCHANGED vars \/ Begin \/ Halt
           \/ /\ Active /\ status' = status
              /\ Pass \/ OpenInterface \/ CloseInterface \/ ImportChecked \/ LoadModule \/ Leave
<1>1. CASE Edit \/ Gone \/ UNCHANGED vars
  BY <1>1 DEF Gone
<1>2. CASE Heh /\ Active'
  <2>1. ASSUME calls # <<>>
        PROVE  Active
    BY <2>1 DEF Stacked, Staged
  <2>2. CASE ReadMain \/ RunChecked
    BY <1>2, <2>2 DEF Begin
  <2>3. CASE FaultLoad \/ MainLoaded
    <3>1. status' \notin {"check", "eval"}
      BY <2>3 DEF FaultLoad, MainLoaded, LoadFault
    <3> QED
      BY <1>2, <3>1 DEF Active
  <2>4. CASE ModuleChecked
    <3>1. Verdict = {} /\ calls # <<>> /\ status' = status
      BY <1>2, <2>4 DEF ModuleChecked, Followed, Active
    <3> QED
      BY <2>1, <2>4, <3>1 DEF Leave
  <2>5. CASE \/ SkipStd \/ RefuseImport \/ ReuseInterface \/ OpenInterface \/ CloseInterface
             \/ ImportChecked \/ BindStd \/ LoadModule \/ ModuleLoaded
    <3>1. calls # <<>> /\ status' = status
      BY <2>5 DEF SkipStd, RefuseImport, ReuseInterface, OpenInterface, CloseInterface,
                ImportChecked, BindStd, LoadModule, ModuleLoaded, Importing, Loading,
                Following, Followed
    <3> QED
      BY <2>1, <2>5, <3>1 DEF Pass, Leave
  <2> QED
    BY <1>2, <2>2, <2>3, <2>4, <2>5 DEF Heh, Check, Eval
<1> QED
  BY <1>1, <1>2 DEF Next, Halt

-----------------------------------------------------------------------------
(* The types.                                                                *)

\* At the start nothing is on the stack.
LEMMA InitStacked == Init => Typed /\ Stacked
<1>1. ASSUME Init
      PROVE  Typed /\ Stacked
  <2>1. /\ disk \in [Files -> Contents \cup {Missing}] /\ edits = 0
        /\ calls = <<>> /\ checkers = <<>> /\ status = "start"
    BY <1>1 DEF Init
  <2>2. <<>> \in Seq(CallType) /\ <<>> \in Seq(CheckerType) /\ Len(<<>>) = 0 /\ 1..0 = {}
    BY EmptySeq
  <2>3. edits \in 0..MaxEdits
    BY <2>1, EditsAssumption
  <2> QED
    BY <2>1, <2>2, <2>3 DEF Typed, Stacked, Staged, Active
<1> QED
  BY <1>1

\* While heh checks or evaluates, a step keeps the types and the stack in shape.
LEMMA ActiveStacked ==
    ASSUME Typed, NEW at, Stack(at), Staged, Active, status' = status,
           Pass \/ OpenInterface \/ CloseInterface \/ ImportChecked \/ LoadModule \/ Leave,
           NEW bt, bt = Moved(at, Len(checkers), Len(checkers'), Len(calls'))
    PROVE  Typed' /\ Stack(bt)' /\ Staged'
<1> DEFINE n == Len(calls)
<1>1. /\ Active' /\ status' # "start" /\ n \in Nat
      /\ \A p \in 1..n : /\ calls[p].k \in Evaluations \cup {"module"} => status' = "eval"
                         /\ calls[p].k = "run" => status' = "check"
  BY PlaceFacts DEF Active, Staged
<1>2. ASSUME NEW n1, Len(calls') = n1,
             \A p \in 1..n1 : \/ p \in 1..n /\ calls'[p].k = calls[p].k
                              \/ calls'[p].k \in {"interface", "import"}
                              \/ calls'[p].k \in {"load", "module"} /\ status' = "eval"
      PROVE  Staged'
  BY <1>1, <1>2 DEF Staged, Evaluations
<1>3. CASE Pass
  <2>1. Len(calls') = n /\ \A p \in 1..n : calls'[p].k = calls[p].k
    BY <1>3, PassEffect DEF SameCall
  <2> QED
    BY <1>2, <1>3, <2>1, PassEffect, PassStack
<1>4. CASE OpenInterface
  <2>1. /\ Len(calls') = n + 1 /\ \A p \in 1..n : calls'[p].k = calls[p].k
        /\ calls'[n + 1].k = "interface"
    <3>1. calls'[n + 1] = Frame("interface", Current.name, Named, <<>>)
      BY <1>4, OpenEffect
    <3>2. calls'[n + 1].k = "interface"
      BY <3>1 DEF Frame
    <3> QED
      BY <1>4, <3>2, OpenEffect DEF SameCall
  <2> HIDE DEF n
  <2>2. \A p \in 1..n + 1 : p \in 1..n \/ p = n + 1
    BY <1>1
  <2>3. Staged'
    BY <1>2, <2>1, <2>2
  <2> QED
    BY <1>4, <2>3, OpenEffect, OpenStack
<1>5. CASE CloseInterface
  <2>1. /\ Len(calls') = n /\ \A p \in 1..n : p # n => calls'[p] = calls[p]
        /\ calls'[n].k = "import"
    <3>1. calls'[n] = Frame("import", Call.file, Call.src, <<>>)
      BY <1>5, CloseEffect
    <3>2. calls'[n].k = "import"
      BY <3>1 DEF Frame
    <3> QED
      BY <1>5, <3>2, CloseEffect
  <2>2. Staged'
    BY <1>2, <2>1
  <2> QED
    BY <1>5, <2>2, CloseEffect, CloseStack
<1>6. CASE ImportChecked
  <2>1. Len(calls') = n - 1 /\ \A p \in 1..n - 1 : calls'[p] = calls[p]
    BY <1>6, CheckedEffect
  <2> HIDE DEF n
  <2>2. \A p \in 1..n - 1 : p \in 1..n
    BY <1>1
  <2>3. Staged'
    BY <1>2, <2>1, <2>2
  <2> QED
    BY <1>6, <2>3, CheckedEffect, CheckedStack
<1>7. CASE LoadModule
  <2>1. /\ Len(calls') = n + 2 /\ \A p \in 1..n : calls'[p].k = calls[p].k
        /\ calls'[n + 1].k = "load" /\ calls'[n + 2].k = "module"
    <3>1. /\ calls'[n + 1] = Frame("load", Current.name, Named, Append(Call.loading, Current.name))
          /\ calls'[n + 2] = Frame("module", Current.name, Named, <<>>)
      BY <1>7, LoadEffect
    <3>2. calls'[n + 1].k = "load" /\ calls'[n + 2].k = "module"
      BY <3>1 DEF Frame
    <3> QED
      BY <1>7, <3>2, LoadEffect DEF SameCall
  <2>2. status' = "eval"
    <3>1. calls # <<>> /\ Call.k \in Evaluations
      BY <1>7, LoadEffect
    <3>2. n \in 1..n /\ Call = calls[n]
      BY <3>1, CallFacts
    <3> QED
      BY <1>1, <3>1, <3>2
  <2> HIDE DEF n
  <2>3. \A p \in 1..n + 2 : p \in 1..n \/ p = n + 1 \/ p = n + 2
    BY <1>1
  <2>4. Staged'
    BY <1>2, <2>1, <2>2, <2>3
  <2> QED
    BY <1>7, <2>4, LoadEffect, LoadStack
<1>8. CASE Leave
  <2>1. Len(calls') = n - 1 /\ \A p \in 1..n - 1 : calls'[p] = calls[p]
    BY <1>8, LeaveEffect
  <2> HIDE DEF n
  <2>2. \A p \in 1..n - 1 : p \in 1..n
    BY <1>1
  <2>3. Staged'
    BY <1>2, <2>1, <2>2
  <2> QED
    BY <1>8, <2>3, LeaveEffect, LeaveStack
<1> QED
  BY <1>3, <1>4, <1>5, <1>6, <1>7, <1>8

\* Every step keeps the types and the stack in shape.
LEMMA NextStacked == Typed /\ Stacked /\ [Next]_vars => (Typed /\ Stacked)'
<1> SUFFICES ASSUME Typed, Stacked, [Next]_vars
             PROVE  (Typed /\ Stacked)'
  OBVIOUS
<1>1. CASE Edit \/ UNCHANGED vars
  <2>1. UNCHANGED <<calls, checkers, status>>
    BY <1>1 DEF Edit, vars
  <2>2. Typed'
    <3>1. CASE Edit
      <4>1. PICK f \in Files, c \in Edited \cup {Missing} : disk' = [disk EXCEPT ![f] = c]
        BY <3>1 DEF Edit
      <4>2. disk' \in [Files -> Contents \cup {Missing}]
        BY <4>1, EditedAssumption DEF Typed
      <4>3. edits' \in 0..MaxEdits
        BY <3>1, EditsAssumption DEF Edit, Typed
      <4> QED
        BY <2>1, <4>2, <4>3 DEF Typed
    <3>2. CASE UNCHANGED vars
      BY <3>2 DEF Typed, vars
    <3> QED
      BY <1>1, <3>1, <3>2
  <2>3. Staged'
    BY <2>1 DEF Stacked, Staged, Active
  <2>4. ASSUME NEW at, Stack(at)
        PROVE  Stack(at)'
    BY <2>1, <2>4 DEF Stack, Level
  <2> QED
    BY <2>1, <2>2, <2>3, <2>4 DEF Stacked, Active
<1>2. CASE Begin
  <2>1. Staged'
    <3>1. /\ Active' /\ status' # "start" /\ Len(calls') = 1
          /\ \/ calls'[1].k = "run" /\ status' = "check"
             \/ calls'[1].k = "main" /\ status' = "eval"
      BY <1>2, BeginEffect DEF Begin, Active
    <3>2. \A p \in 1..1 : p = 1
      OBVIOUS
    <3> QED
      BY <3>1, <3>2 DEF Staged, Evaluations
  <2>2. \E at : Stack(at)'
    BY <1>2, BeginEffect
  <2>3. Typed'
    BY <1>2, BeginEffect
  <2> QED
    BY <2>1, <2>2, <2>3 DEF Stacked
<1>3. CASE Halt
  <2>1. Typed' /\ calls' = <<>> /\ status' \notin {"start", "check", "eval"}
    BY <1>3, HaltEffect
  <2>2. Len(<<>>) = 0 /\ 1..0 = {}
    OBVIOUS
  <2> QED
    BY <2>1, <2>2 DEF Stacked, Staged, Active
<1>4. CASE /\ Active /\ status' = status
           /\ Pass \/ OpenInterface \/ CloseInterface \/ ImportChecked \/ LoadModule \/ Leave
  <2>1. PICK at : Stack(at)
    BY <1>4 DEF Stacked
  <2>2. PICK bt : bt = Moved(at, Len(checkers), Len(checkers'), Len(calls'))
    OBVIOUS
  <2>3. Typed' /\ Stack(bt)' /\ Staged'
    BY <1>4, <2>1, <2>2, ActiveStacked DEF Stacked
  <2> QED
    BY <2>3 DEF Stacked
<1> QED
  BY <1>1, <1>2, <1>3, <1>4, Steps

\* The types, in the words of the type invariant.
LEMMA TypedOK == Typed => TypeOK
<1>1. ASSUME Typed
      PROVE  TypeOK
  <2>1. disk \in [Files -> Content \cup {Missing}]
    BY <1>1, FilesAssumption DEF Typed
  <2>2. ASSUME NEW i \in DOMAIN checkers
        PROVE  DOMAIN checkers[i].cache \subseteq Files /\ checkers[i].loading \in Seq(Files)
    <3>1. i \in 1..Len(checkers)
      BY <1>1 DEF Typed
    <3>2. checkers[i].cache \in CacheType /\ checkers[i].loading \in Seq(Files)
      BY <1>1, <3>1, CheckerFacts
    <3> QED
      BY <3>2 DEF CacheType
  <2> QED
    BY <1>1, <2>1, <2>2 DEF Typed, TypeOK, CallType
<1> QED
  BY <1>1

\* heh always keeps the types and the stack in shape.
LEMMA AlwaysStacked == Spec => [](Typed /\ Stacked)
  BY InitStacked, NextStacked, PTL DEF Spec

\* What heh holds while it follows imports is always of its type: every call names a
\* file it can have read, and every checker knows and loads files.
THEOREM TypeCorrect == Spec => []TypeOK
<1>1. Typed /\ Stacked => TypeOK
  BY TypedOK
<1> QED
  BY <1>1, AlwaysStacked, PTL

-----------------------------------------------------------------------------
(* How deep checkers nest.                                                   *)
(*                                                                           *)
(* A file has a new version with every edit of it, and a call that loads or  *)
(* checks an imported file has a token: the file and its version when it was *)
(* read.  There are no more of these than files and edits, and two checkers  *)
(* of imported files never have the same one: what the outer of them checks, *)
(* the inner one knows, as long as the file stays as it is.                  *)

Loads(c) == c.k \in {"interface", "import"}

\* The versions, and the tokens there have been.
Versions(ver, tokens) ==
    /\ ver \in [Files -> 0..edits]
    /\ tokens \subseteq Files \X (0..edits) /\ IsFiniteSet(tokens)
    /\ Cardinality(tokens) <= Cardinality(Files) + edits
    /\ \A f \in Files : <<f, ver[f]>> \in tokens

\* A call holds what its token says it has read.
Dated(ver, token, tokens) ==
    \A p \in 1..Len(calls) : Loads(calls[p]) =>
        /\ token[p] \in tokens /\ token[p][1] = calls[p].file
        /\ ver[calls[p].file] = token[p][2] => calls[p].src = disk[calls[p].file]

\* No call inside a checker of an imported file has its token, or would get it.
Distinct(at, ver, token) ==
    \A j \in 2..Len(checkers) : \A p \in 1..Len(calls) : p > at[j] /\ Loads(calls[p]) =>
        token[p] # token[at[j]] /\ <<calls[p].file, ver[calls[p].file]>> # token[at[j]]

\* A checker, and every one inside it, knows the file it checks.
Fresh(at, ver, token) ==
    \A j \in 2..Len(checkers) : \A k \in j..Len(checkers) :
        ver[calls[at[j]].file] = token[at[j]][2] =>
            /\ calls[at[j]].file \in DOMAIN checkers[k].cache
            /\ checkers[k].cache[calls[at[j]].file].src = disk[calls[at[j]].file]

Tokens(at, ver, token, tokens) ==
    Versions(ver, tokens) /\ Dated(ver, token, tokens)
    /\ Distinct(at, ver, token) /\ Fresh(at, ver, token)

Nested ==
    /\ Active => \E at, ver, token, tokens : Stack(at) /\ Tokens(at, ver, token, tokens)
    /\ ~Active => Len(checkers) <= 1

\* The checkers of imported files, and their calls, on the stack.
LEMMA InnerFacts ==
    ASSUME Typed, NEW at, Stack(at)
    PROVE  /\ Len(checkers) \in Nat /\ Len(calls) \in Nat
           /\ \A p \in 1..Len(calls) : calls[p].file \in Files /\ calls[p].src \in Content
           /\ \A j \in 2..Len(checkers) :
                 /\ j \in 1..Len(checkers) /\ at[j] \in 1..Len(calls)
                 /\ calls[at[j]].k = "import" /\ Loads(calls[at[j]])
           /\ \A i, j \in 1..Len(checkers) : i < j => at[i] < at[j]
<1> DEFINE m == Len(checkers)
           n == Len(calls)
<1>1. m \in Nat /\ n \in Nat /\ \A j \in 1..m : at[j] \in 1..n
  BY PlaceFacts
<1>2. \A i, j \in 1..m + 1 : i < j => at[i] < at[j]
  BY DEF Stack
<1>3. \A p \in 1..n : calls[p] \in CallType
  BY DEF Typed
<1>4. \A j \in 1..m : calls[at[j]].k \in IF j = 1 THEN {"run", "module"} ELSE {"import"}
  BY DEF Stack, Level
<1> HIDE DEF m, n
<1>5. ASSUME NEW j \in 2..m
      PROVE  /\ j \in 1..m /\ at[j] \in 1..n
             /\ calls[at[j]].k = "import" /\ Loads(calls[at[j]])
  <2>1. j \in 1..m /\ j # 1
    BY <1>1
  <2>2. calls[at[j]].k = "import"
    BY <1>4, <2>1
  <2> QED
    BY <1>1, <2>1, <2>2 DEF Loads
<1>6. \A i, j \in 1..m : i < j => at[i] < at[j]
  BY <1>1, <1>2
<1> QED
  BY <1>1, <1>3, <1>5, <1>6 DEF CallType, m, n

\* So there are no more checkers than files and edits, and the first.
LEMMA TokensBound ==
    ASSUME Typed, NEW at, Stack(at), NEW ver, NEW token, NEW tokens,
           Tokens(at, ver, token, tokens)
    PROVE  Len(checkers) <= Cardinality(Files) + 1 + edits
<1> DEFINE m == Len(checkers)
           c == Cardinality(Files)
           d == Cardinality(tokens)
<1>1. /\ m \in Nat /\ c \in Nat /\ edits \in Nat /\ d \in Nat /\ d <= c + edits
      /\ IsFiniteSet(tokens)
  <2>1. IsFiniteSet(tokens) /\ d <= c + edits
    BY DEF Tokens, Versions
  <2>2. edits \in Nat
    BY EditsAssumption DEF Typed
  <2> QED
    BY <2>1, <2>2, InnerFacts, FS_CardinalityType, FilesAssumption
<1>2. CASE m <= 1
  <2> HIDE DEF m, c
  <2>1. m <= c + 1 + edits
    BY <1>1, <1>2
  <2> QED
    BY <2>1 DEF m, c
<1>3. CASE m > 1
  <2> DEFINE g == [j \in 2..m |-> token[at[j]]]
  <2>1. \A j \in 2..m : token[at[j]] \in tokens
    BY InnerFacts DEF Tokens, Dated
  <2>2. ASSUME NEW i \in 2..m, NEW j \in 2..m, i < j
        PROVE  token[at[i]] # token[at[j]]
    <3>1. /\ i \in 1..m /\ j \in 1..m /\ at[j] \in 1..Len(calls) /\ at[i] \in 1..Len(calls)
          /\ Loads(calls[at[j]])
      BY InnerFacts
    <3>2. at[i] < at[j]
      BY <2>2, <3>1, InnerFacts
    <3>3. at[j] > at[i]
      BY <3>1, <3>2
    <3> QED
      BY <3>1, <3>3 DEF Tokens, Distinct
  <2> HIDE DEF m
  <2>3. \A i, j \in 2..m : g[i] = g[j] => i = j
    <3>1. \A i, j \in 2..m : i < j \/ i = j \/ j < i
      BY <1>1
    <3> QED
      BY <2>2, <3>1
  <2>4. g \in Injection(2..m, tokens)
    BY <2>1, <2>3 DEF Injection, IsInjective
  <2> HIDE DEF g
  <2>5. Cardinality(2..m) <= d
    BY <1>1, <2>4, FS_Injection
  <2>6. Cardinality(2..m) = m - 1
    <3>1. 2 \in Int /\ m \in Int /\ ~(2 > m) /\ m - 2 + 1 = m - 1
      BY <1>1, <1>3
    <3>2. Cardinality(2..m) = IF 2 > m THEN 0 ELSE m - 2 + 1
      BY <3>1, FS_Interval
    <3> QED
      BY <3>1, <3>2
  <2> HIDE DEF c, d
  <2>7. m <= c + 1 + edits
    BY <1>1, <2>5, <2>6
  <2> QED
    BY <2>7 DEF m, c
<1>4. m <= 1 \/ m > 1
  <2> HIDE DEF m
  <2> QED
    BY <1>1
<1> QED
  BY <1>2, <1>3, <1>4

\* Tokens stay right in a step that adds no call, whose new checker, if there is
\* one, is that of the last call, and after which the caches are right.
LEMMA TokensKept ==
    ASSUME Typed, NEW at, Stack(at), NEW ver, NEW token, NEW tokens,
           Tokens(at, ver, token, tokens), UNCHANGED <<disk, edits>>,
           NEW m1 \in Nat, NEW n1 \in Nat, n1 <= Len(calls),
           Len(checkers') = m1, Len(calls') = n1,
           \A p \in 1..n1 : /\ Loads(calls'[p]) => Loads(calls[p])
                            /\ calls'[p].file = calls[p].file /\ calls'[p].src = calls[p].src,
           NEW bt, \A j \in 2..m1 : bt[j] \in 1..n1,
           \A j \in 2..m1 : (j <= Len(checkers) /\ bt[j] = at[j]) \/ bt[j] = n1,
           Fresh(bt, ver, token)'
    PROVE  Tokens(bt, ver, token, tokens)'
<1>1. \A p \in 1..n1 : p \in 1..Len(calls)
  BY InnerFacts
<1>2. Versions(ver, tokens)'
  BY DEF Tokens, Versions
<1>3. Dated(ver, token, tokens)'
  BY <1>1 DEF Tokens, Dated
<1>4. Distinct(bt, ver, token)'
  <2>1. ASSUME NEW j \in 2..m1, NEW p \in 1..n1, p > bt[j], Loads(calls'[p])
        PROVE  token[p] # token[bt[j]] /\ <<calls[p].file, ver[calls[p].file]>> # token[bt[j]]
    <3>1. bt[j] # n1
      BY <2>1
    <3>2. j \in 2..Len(checkers) /\ bt[j] = at[j]
      BY <3>1, InnerFacts
    <3>3. p \in 1..Len(calls) /\ p > at[j] /\ Loads(calls[p])
      BY <1>1, <2>1, <3>2
    <3> QED
      BY <3>2, <3>3 DEF Tokens, Distinct
  <2> QED
    BY <2>1 DEF Distinct
<1> QED
  BY <1>2, <1>3, <1>4 DEF Tokens

\* A checker that knows the file it checks, and so has every one inside it, is not
\* about to know another version of it: the file of the last call is another.
LEMMA FreshKnown ==
    ASSUME Typed, NEW at, Stack(at), NEW ver, NEW token, NEW tokens,
           Tokens(at, ver, token, tokens),
           calls # <<>>, Loads(Call), NEW j \in 2..Len(checkers), at[j] < Len(calls),
           ver[calls[at[j]].file] = token[at[j]][2]
    PROVE  calls[at[j]].file # Call.file
<1> DEFINE f == calls[at[j]].file
<1>1. /\ at[j] \in 1..Len(calls) /\ Loads(calls[at[j]]) /\ f \in Files
      /\ Len(calls) \in 1..Len(calls) /\ Len(calls) > at[j] /\ Call = calls[Len(calls)]
      /\ Call.file \in Files /\ Call.src \in Content
  BY InnerFacts, CallFacts
<1>2. f # Call.file
  <2>1. token[at[j]] \in tokens /\ token[at[j]][1] = f /\ token[at[j]][2] = ver[f]
    BY <1>1 DEF Tokens, Dated
  <2>2. token[at[j]] \in Files \X (0..edits)
    BY <2>1 DEF Tokens, Versions
  <2>3. token[at[j]] = <<f, ver[f]>>
    BY <2>1, <2>2
  <2>4. <<Call.file, ver[Call.file]>> # token[at[j]]
    BY <1>1 DEF Tokens, Distinct
  <2> QED
    BY <2>3, <2>4
<1> QED
  BY <1>2

\* An import that is passed changes no token.
LEMMA PassTokens ==
    ASSUME Typed, NEW at, Stack(at), NEW ver, NEW token, NEW tokens,
           Tokens(at, ver, token, tokens), Pass
    PROVE  Tokens(at, ver, token, tokens)'
<1> DEFINE m == Len(checkers)
           n == Len(calls)
<1>1. /\ UNCHANGED <<disk, edits>> /\ Len(calls') = n /\ Len(checkers') = m
      /\ \A p \in 1..n : SameCall(calls'[p], calls[p])
      /\ \A j \in 1..m : checkers'[j].cache = checkers[j].cache
  BY PassEffect DEF SameChecker
<1>2. PICK m1 \in Nat, n1 \in Nat : m1 = m /\ n1 = n
  BY InnerFacts, Zenon
<1>3. /\ \A p \in 1..n1 : /\ Loads(calls'[p]) => Loads(calls[p])
                          /\ calls'[p].file = calls[p].file /\ calls'[p].src = calls[p].src
      /\ n1 <= Len(calls) /\ Len(checkers') = m1 /\ Len(calls') = n1
      /\ \A j \in 2..m1 : at[j] \in 1..n1
      /\ \A j \in 2..m1 : (j <= Len(checkers) /\ at[j] = at[j]) \/ at[j] = n1
  BY <1>1, <1>2, InnerFacts DEF SameCall, Loads
<1>4. Fresh(at, ver, token)'
  <2>1. ASSUME NEW j \in 2..m, NEW k \in j..m, ver[calls[at[j]].file] = token[at[j]][2]
        PROVE  /\ calls[at[j]].file \in DOMAIN checkers'[k].cache
               /\ checkers'[k].cache[calls[at[j]].file].src = disk[calls[at[j]].file]
    <3>1. k \in 1..m
      <4> HIDE DEF m
      <4>1. j \in 2..m /\ k \in j..m
        BY <2>1
      <4> QED
        BY <1>2, <4>1
    <3>2. /\ calls[at[j]].file \in DOMAIN checkers[k].cache
          /\ checkers[k].cache[calls[at[j]].file].src = disk[calls[at[j]].file]
      BY <2>1 DEF Tokens, Fresh
    <3> QED
      BY <1>1, <3>1, <3>2
  <2>2. \A j \in 2..m : calls'[at[j]].file = calls[at[j]].file
    BY <1>1, InnerFacts DEF SameCall
  <2> QED
    BY <1>1, <2>1, <2>2 DEF Fresh
<1> QED
  BY <1>1, <1>3, <1>4, TokensKept

\* The checker of an imported file, and those to come inside it, know that file.
LEMMA CloseTokens ==
    ASSUME Typed, NEW at, Stack(at), NEW ver, NEW token, NEW tokens,
           Tokens(at, ver, token, tokens), CloseInterface, NEW bt,
           bt = Moved(at, Len(checkers), Len(checkers'), Len(calls'))
    PROVE  Tokens(bt, ver, token, tokens)'
<1> DEFINE m == Len(checkers)
           n == Len(calls)
           cache == Known(This.cache, Call.file, Interface(Call.src, FALSE))
<1>1. /\ UNCHANGED <<disk, edits>> /\ Len(calls') = n /\ Len(checkers') = m + 1
      /\ calls # <<>> /\ Loads(Call) /\ m >= 1 /\ This = checkers[m]
      /\ \A p \in 1..n : p # n => calls'[p] = calls[p]
      /\ calls'[n].file = Call.file /\ calls'[n].src = Call.src
      /\ \A j \in 1..m : j # m => checkers'[j].cache = checkers[j].cache
      /\ checkers'[m].cache = cache /\ checkers'[m + 1].cache = cache
  <2>1. /\ calls'[n] = Frame("import", Call.file, Call.src, <<>>)
        /\ checkers'[m + 1] = Checker(cache) /\ Call.k = "interface" /\ m >= 1
    BY CloseEffect
  <2>2. /\ calls'[n].file = Call.file /\ calls'[n].src = Call.src
        /\ checkers'[m + 1].cache = cache /\ Loads(Call)
    BY <2>1 DEF Frame, Checker, Loads
  <2>3. This = checkers[m]
    BY <2>1, CheckerFacts
  <2> HIDE DEF cache
  <2>4. /\ UNCHANGED <<disk, edits>> /\ Len(calls') = n /\ Len(checkers') = m + 1
        /\ calls # <<>> /\ \A p \in 1..n : p # n => calls'[p] = calls[p]
        /\ \A j \in 1..m : j # m => checkers'[j] = checkers[j]
        /\ checkers'[m].cache = cache
    BY CloseEffect DEF cache
  <2> QED
    BY <2>1, <2>2, <2>3, <2>4
<1>2. /\ Call = calls[n] /\ n \in 1..n /\ m \in Nat /\ n \in Nat
      /\ \A j \in 1..m : bt[j] = at[j] /\ at[j] < n /\ at[j] \in 1..n
      /\ bt[m + 1] = n
  <2>1. \A j \in 1..m : at[j] < n
    <3>1. at[m] < n /\ n \in Nat /\ m \in Nat
      BY CloseStack, InnerFacts
    <3>2. \A j \in 1..m : at[j] \in 1..n
      BY PlaceFacts
    <3>3. \A j \in 1..m : j # m => at[j] < at[m]
      <4>1. \A i, j \in 1..m : i < j => at[i] < at[j]
        BY InnerFacts
      <4> HIDE DEF m
      <4>2. \A j \in 1..m : j # m => j < m /\ m \in 1..m
        BY <3>1
      <4> QED
        BY <4>1, <4>2
    <3> HIDE DEF m, n
    <3>4. \A j \in 1..m : m \in 1..m
      BY <3>1
    <3> QED
      BY <3>1, <3>2, <3>3, <3>4
  <2> QED
    BY <1>1, <2>1, CallFacts, CloseStack, PlaceFacts
<1>3. cache = Known(checkers[m].cache, Call.file, Interface(Call.src, FALSE))
  BY <1>1
<1>4. ASSUME NEW j \in 1..m, NEW k \in 1..m, j >= 2, k >= j,
             ver[calls[at[j]].file] = token[at[j]][2]
      PROVE  /\ calls[at[j]].file \in DOMAIN checkers[k].cache
             /\ checkers[k].cache[calls[at[j]].file].src = disk[calls[at[j]].file]
             /\ calls[at[j]].file # Call.file
  <2>1. j \in 2..m /\ k \in j..m
    <3> HIDE DEF m
    <3> QED
      BY <1>2, <1>4
  <2>2. /\ calls[at[j]].file \in DOMAIN checkers[k].cache
        /\ checkers[k].cache[calls[at[j]].file].src = disk[calls[at[j]].file]
    BY <1>4, <2>1 DEF Tokens, Fresh
  <2>3. calls[at[j]].file # Call.file
    <3>1. at[j] < n
      BY <1>2
    <3> QED
      BY <1>1, <1>4, <2>1, <3>1, FreshKnown
  <2> QED
    BY <2>2, <2>3
<1>5. ver[Call.file] = token[n][2] => Call.file \in DOMAIN cache /\ cache[Call.file].src = disk[Call.file]
  <2>1. ver[Call.file] = token[n][2] => Call.src = disk[Call.file]
    BY <1>1, <1>2 DEF Tokens, Dated
  <2>2. /\ checkers[m].cache \in CacheType /\ Call.file \in Files /\ Call.src \in Content
    <3>1. m \in 1..m
      <4> HIDE DEF m
      <4> QED
        BY <1>1, <1>2
    <3> QED
      BY <1>1, <3>1, CheckerFacts, CallFacts
  <2>3. Call.file \in DOMAIN cache /\ cache[Call.file].src = Call.src
    <3>1. PICK i : i = Interface(Call.src, FALSE)
      OBVIOUS
    <3>2. i.src = Call.src
      BY <3>1 DEF Interface
    <3> HIDE DEF cache
    <3>3. cache = Known(checkers[m].cache, Call.file, i)
      BY <1>3, <3>1
    <3>4. Call.file \in DOMAIN cache /\ cache[Call.file] = i
      BY <3>3 DEF Known
    <3> QED
      BY <3>2, <3>4
  <2> QED
    BY <2>1, <2>3
<1> HIDE DEF m, n, cache
<1>6. PICK m1 \in Nat, n1 \in Nat : m1 = m + 1 /\ n1 = n
  <2>1. m + 1 \in Nat /\ n \in Nat
    BY <1>2
  <2> QED
    BY <2>1, Zenon
<1>7. /\ n1 <= Len(calls) /\ Len(checkers') = m1 /\ Len(calls') = n1
      /\ \A p \in 1..n1 : /\ Loads(calls'[p]) => Loads(calls[p])
                          /\ calls'[p].file = calls[p].file /\ calls'[p].src = calls[p].src
      /\ \A j \in 2..m1 : bt[j] \in 1..n1
      /\ \A j \in 2..m1 : (j <= Len(checkers) /\ bt[j] = at[j]) \/ bt[j] = n1
  <2>1. \A j \in 2..m1 : (j \in 1..m /\ j <= m) \/ j = m + 1
    BY <1>2, <1>6
  <2>2. \A p \in 1..n1 : /\ Loads(calls'[p]) => Loads(calls[p])
                         /\ calls'[p].file = calls[p].file /\ calls'[p].src = calls[p].src
    BY <1>1, <1>2, <1>6
  <2>3. n1 <= Len(calls) /\ Len(checkers') = m1 /\ Len(calls') = n1
    BY <1>1, <1>6, InnerFacts DEF n
  <2> QED
    BY <1>2, <1>6, <2>1, <2>2, <2>3 DEF m
<1>8. ASSUME NEW j \in 2..m1, NEW k \in j..m1, ver[calls[bt[j]].file] = token[bt[j]][2]
      PROVE  /\ calls[bt[j]].file \in DOMAIN checkers'[k].cache
             /\ checkers'[k].cache[calls[bt[j]].file].src = disk[calls[bt[j]].file]
  <2>1. CASE j = m + 1
    <3>1. k = m + 1 /\ bt[j] = n
      BY <1>2, <1>6, <2>1
    <3> QED
      BY <1>1, <1>2, <1>5, <1>8, <3>1
  <2>2. CASE j # m + 1
    <3>1. /\ j \in 1..m /\ j >= 2 /\ k >= j /\ bt[j] = at[j]
          /\ (k \in 1..m \/ k = m + 1) /\ m \in 1..m /\ m >= j
      BY <1>2, <1>6, <2>2
    <3>2. ver[calls[at[j]].file] = token[at[j]][2]
      BY <1>8, <3>1
    <3>3. CASE k \in 1..m /\ k # m
      <4>1. checkers'[k].cache = checkers[k].cache
        BY <1>1, <3>3
      <4> QED
        BY <1>4, <3>1, <3>2, <3>3, <4>1
    <3>4. CASE k = m \/ k = m + 1
      <4>1. checkers'[k].cache = cache
        BY <1>1, <3>4
      <4>2. /\ calls[at[j]].file \in DOMAIN checkers[m].cache
            /\ checkers[m].cache[calls[at[j]].file].src = disk[calls[at[j]].file]
            /\ calls[at[j]].file # Call.file
        BY <1>4, <3>1, <3>2
      <4>3. /\ calls[at[j]].file \in DOMAIN cache
            /\ cache[calls[at[j]].file] = checkers[m].cache[calls[at[j]].file]
        BY <1>3, <4>2 DEF Known
      <4> QED
        BY <3>1, <4>1, <4>2, <4>3
    <3> QED
      BY <3>1, <3>3, <3>4
  <2> QED
    BY <2>1, <2>2
<1>9. Fresh(bt, ver, token)'
  <2>1. \A j \in 2..m1 : calls'[bt[j]].file = calls[bt[j]].file
    BY <1>7
  <2> QED
    <3>1. Len(checkers') = m1
      BY <1>7
    <3>2. ASSUME NEW j \in 2..m1, NEW k \in j..m1,
                 ver[calls'[bt[j]].file] = token[bt[j]][2]
          PROVE  /\ calls'[bt[j]].file \in DOMAIN checkers'[k].cache
                 /\ checkers'[k].cache[calls'[bt[j]].file].src = disk'[calls'[bt[j]].file]
      <4>1. calls'[bt[j]].file = calls[bt[j]].file
        BY <2>1
      <4> QED
        BY <1>1, <1>8, <3>2, <4>1
    <3> QED
      BY <3>1, <3>2 DEF Fresh
<1>10. UNCHANGED <<disk, edits>>
  BY <1>1
<1> QED
  BY <1>7, <1>9, <1>10, TokensKept

\* A checker that is done leaves the others their tokens.
LEMMA CheckedTokens ==
    ASSUME Typed, NEW at, Stack(at), NEW ver, NEW token, NEW tokens,
           Tokens(at, ver, token, tokens), ImportChecked, NEW bt,
           bt = Moved(at, Len(checkers), Len(checkers'), Len(calls'))
    PROVE  Tokens(bt, ver, token, tokens)'
<1> DEFINE m == Len(checkers)
           n == Len(calls)
           outer == checkers[m - 1]
<1>1. /\ UNCHANGED <<disk, edits>> /\ Len(calls') = n - 1 /\ Len(checkers') = m - 1
      /\ calls # <<>> /\ Loads(Call) /\ m >= 2 /\ m \in Nat /\ n \in Nat /\ n >= 1
      /\ \A p \in 1..n - 1 : calls'[p] = calls[p]
      /\ \A j \in 1..m - 2 : checkers'[j] = checkers[j]
      /\ checkers'[m - 1].cache = Known(outer.cache, Call.file, Interface(Call.src, TRUE))
  <2>1. /\ UNCHANGED <<disk, edits>> /\ Len(calls') = n - 1 /\ Len(checkers') = m - 1
        /\ calls # <<>> /\ Call.k = "import" /\ m >= 2 /\ m \in Nat
        /\ \A p \in 1..n - 1 : calls'[p] = calls[p]
        /\ \A j \in 1..m - 2 : checkers'[j] = checkers[j]
    BY CheckedEffect
  <2>2. checkers'[m - 1].cache = Known(outer.cache, Call.file, Interface(Call.src, TRUE))
    BY CheckedEffect
  <2>3. n \in Nat /\ n >= 1
    BY <2>1, CallFacts
  <2> QED
    BY <2>1, <2>2, <2>3 DEF Loads
<1>2. /\ \A j \in 1..m : bt[j] = at[j] /\ at[j] \in 1..n
      /\ at[m] = n /\ \A i, j \in 1..m : i < j => at[i] < at[j]
  BY CheckedStack, InnerFacts, PlaceFacts
<1> HIDE DEF m, n
<1>3. ASSUME NEW j \in 2..m - 1
      PROVE  /\ j \in 1..m /\ j \in 2..m /\ j < m /\ bt[j] = at[j]
             /\ at[j] < n /\ bt[j] \in 1..n - 1
  <2>1. j \in 1..m /\ j \in 2..m /\ j < m /\ m \in 1..m
    BY <1>1
  <2>2. at[j] < n /\ bt[j] = at[j] /\ at[j] \in 1..n
    BY <1>2, <2>1
  <2> QED
    BY <1>1, <2>1, <2>2
<1>4. PICK m1 \in Nat, n1 \in Nat : m1 = m - 1 /\ n1 = n - 1
  <2>1. m - 1 \in Nat /\ n - 1 \in Nat
    BY <1>1
  <2> QED
    BY <2>1, Zenon
<1>5. ASSUME NEW j \in 2..m - 1, NEW k \in j..m - 1, ver[calls[at[j]].file] = token[at[j]][2]
      PROVE  /\ calls[at[j]].file \in DOMAIN checkers'[k].cache
             /\ checkers'[k].cache[calls[at[j]].file].src = disk[calls[at[j]].file]
  <2>1. j \in 2..m /\ k \in j..m /\ at[j] < n
    BY <1>1, <1>3
  <2>2. /\ calls[at[j]].file \in DOMAIN checkers[k].cache
        /\ checkers[k].cache[calls[at[j]].file].src = disk[calls[at[j]].file]
    BY <1>5, <2>1 DEF Tokens, Fresh, m
  <2>3. calls[at[j]].file # Call.file
    BY <1>1, <1>5, <2>1, FreshKnown DEF m, n
  <2>4. CASE k = m - 1
    <3>1. /\ calls[at[j]].file \in DOMAIN checkers'[k].cache
          /\ checkers'[k].cache[calls[at[j]].file] = checkers[k].cache[calls[at[j]].file]
      BY <1>1, <2>2, <2>3, <2>4 DEF Known
    <3> QED
      BY <2>2, <3>1
  <2>5. CASE k # m - 1
    <3>1. k \in 1..m - 2
      BY <1>1, <2>5
    <3> QED
      BY <1>1, <2>2, <3>1
  <2> QED
    BY <2>4, <2>5
<1>6. Fresh(bt, ver, token)'
  <2>1. SUFFICES ASSUME NEW j \in 2..Len(checkers'), NEW k \in j..Len(checkers'),
                        ver[calls'[bt[j]].file] = token[bt[j]][2]
                 PROVE  /\ calls'[bt[j]].file \in DOMAIN checkers'[k].cache
                        /\ checkers'[k].cache[calls'[bt[j]].file].src = disk'[calls'[bt[j]].file]
    BY DEF Fresh
  <2>2. j \in 2..m - 1 /\ k \in j..m - 1
    BY <1>1, <2>1
  <2>3. calls'[bt[j]] = calls[at[j]] /\ bt[j] = at[j]
    BY <1>1, <1>3, <2>2
  <2> QED
    BY <1>1, <1>5, <2>1, <2>2, <2>3
<1>7. /\ n1 <= Len(calls) /\ Len(checkers') = m1 /\ Len(calls') = n1
      /\ \A p \in 1..n1 : /\ Loads(calls'[p]) => Loads(calls[p])
                          /\ calls'[p].file = calls[p].file /\ calls'[p].src = calls[p].src
      /\ \A j \in 2..m1 : bt[j] \in 1..n1
      /\ \A j \in 2..m1 : (j <= Len(checkers) /\ bt[j] = at[j]) \/ bt[j] = n1
  <2>1. n1 <= n /\ \A j \in 2..m1 : j <= m /\ bt[j] = at[j] /\ bt[j] \in 1..n1
    BY <1>1, <1>3, <1>4
  <2> QED
    BY <1>1, <1>4, <2>1 DEF m, n
<1>8. UNCHANGED <<disk, edits>>
  BY <1>1
<1> QED
  BY <1>6, <1>7, <1>8, TokensKept

\* With at most one checker it is enough that the calls are still dated.
LEMMA FewTokens ==
    ASSUME Typed, NEW at, Stack(at), NEW ver, NEW token, NEW tokens,
           Tokens(at, ver, token, tokens), UNCHANGED <<disk, edits>>,
           Len(checkers') \in {0, 1},
           \A p \in 1..Len(calls') : Loads(calls'[p]) =>
               /\ p \in 1..Len(calls) /\ Loads(calls[p])
               /\ calls'[p].file = calls[p].file /\ calls'[p].src = calls[p].src,
           NEW bt
    PROVE  Tokens(bt, ver, token, tokens)'
<1>1. 2..0 = {} /\ 2..1 = {}
  OBVIOUS
<1>2. Versions(ver, tokens)'
  BY DEF Tokens, Versions
<1>3. Dated(ver, token, tokens)'
  BY DEF Tokens, Dated
<1>4. Distinct(bt, ver, token)' /\ Fresh(bt, ver, token)'
  BY <1>1 DEF Distinct, Fresh
<1> QED
  BY <1>2, <1>3, <1>4 DEF Tokens

\* The token of the file that is opened is none of those around it: they know it.
LEMMA OpenTokens ==
    ASSUME Typed, NEW at, Stack(at), NEW ver, NEW token, NEW tokens,
           Tokens(at, ver, token, tokens), OpenInterface, NEW bt,
           bt = Moved(at, Len(checkers), Len(checkers'), Len(calls')),
           NEW tk, tk = [p \in 1..Len(calls) + 1 |->
                           IF p = Len(calls) + 1 THEN <<Current.name, ver[Current.name]>>
                           ELSE token[p]]
    PROVE  Tokens(bt, ver, tk, tokens)'
<1> DEFINE m == Len(checkers)
           n == Len(calls)
           g == Current.name
<1>1. /\ UNCHANGED <<disk, edits>> /\ Len(calls') = n + 1 /\ Len(checkers') = m
      /\ \A p \in 1..n : SameCall(calls'[p], calls[p])
      /\ calls'[n + 1].file = g /\ calls'[n + 1].src = disk[g] /\ g \in Files
      /\ \A j \in 1..m : checkers'[j].cache = checkers[j].cache
      /\ This = checkers[m] /\ ~Cached /\ m \in Nat /\ n \in Nat
  <2>1. /\ calls'[n + 1] = Frame("interface", g, Named, <<>>) /\ Readable(g)
        /\ Len(checkers) >= 1
    BY OpenEffect
  <2>2. /\ calls'[n + 1].file = g /\ calls'[n + 1].src = disk[g] /\ g \in Files
    BY <2>1 DEF Frame, Named, Readable
  <2>3. This = checkers[m] /\ m \in Nat /\ n \in Nat
    BY <2>1, CheckerFacts, InnerFacts
  <2> QED
    BY <2>2, <2>3, OpenEffect
<1>2. \A j \in 2..m : /\ j \in 1..m /\ at[j] \in 1..n /\ Loads(calls[at[j]]) /\ bt[j] = at[j]
  BY InnerFacts, OpenStack
<1> HIDE DEF m, n, g
<1>3. /\ tk[n + 1] = <<g, ver[g]>> /\ \A p \in 1..n : tk[p] = token[p]
  <2>1. /\ n + 1 \in 1..n + 1 /\ \A p \in 1..n : p \in 1..n + 1 /\ p # n + 1
    BY <1>1
  <2> QED
    BY <2>1 DEF n, g
<1>4. \A p \in 1..n + 1 : p \in 1..n \/ p = n + 1
  BY <1>1
<1>5. Versions(ver, tokens)'
  BY <1>1 DEF Tokens, Versions
<1>6. Dated(ver, tk, tokens)'
  <2>1. ASSUME NEW p \in 1..n, Loads(calls'[p])
        PROVE  /\ tk[p] \in tokens /\ tk[p][1] = calls'[p].file
               /\ ver[calls'[p].file] = tk[p][2] => calls'[p].src = disk[calls'[p].file]
    <3>1. /\ Loads(calls[p]) /\ calls'[p].file = calls[p].file /\ calls'[p].src = calls[p].src
          /\ tk[p] = token[p]
      BY <1>1, <1>3, <2>1 DEF SameCall, Loads
    <3> QED
      BY <3>1 DEF Tokens, Dated, n
  <2>2. tk[n + 1] \in tokens /\ tk[n + 1][1] = g
    <3>1. <<g, ver[g]>> \in tokens
      BY <1>1 DEF Tokens, Versions
    <3>2. <<g, ver[g]>>[1] = g
      OBVIOUS
    <3>3. tk[n + 1] = <<g, ver[g]>>
      BY <1>3
    <3> QED
      BY <3>1, <3>2, <3>3
  <2> QED
    BY <1>1, <1>4, <2>1, <2>2 DEF Dated
<1>7. ASSUME NEW j \in 2..m
      PROVE  <<g, ver[g]>> # token[at[j]]
  <2>1. SUFFICES ASSUME <<g, ver[g]>> = token[at[j]]
                 PROVE  FALSE
    OBVIOUS
  <2>2. calls[at[j]].file = g /\ ver[calls[at[j]].file] = token[at[j]][2]
    BY <1>2, <2>1 DEF Tokens, Dated, n
  <2>3. m \in j..m
    BY <1>1
  <2>4. g \in DOMAIN checkers[m].cache /\ checkers[m].cache[g].src = disk[g]
    BY <2>2, <2>3 DEF Tokens, Fresh, m
  <2> QED
    BY <1>1, <2>4 DEF Cached, Named, g
<1>8. Distinct(bt, ver, tk)'
  <2>1. ASSUME NEW j \in 2..m, NEW p \in 1..n + 1, p > at[j], Loads(calls'[p])
        PROVE  tk[p] # token[at[j]] /\ <<calls'[p].file, ver[calls'[p].file]>> # token[at[j]]
    <3>1. CASE p = n + 1
      BY <1>1, <1>3, <1>7, <3>1
    <3>2. CASE p \in 1..n
      <4>1. Loads(calls[p]) /\ calls'[p].file = calls[p].file /\ tk[p] = token[p]
        BY <1>1, <1>3, <2>1, <3>2 DEF SameCall, Loads
      <4> QED
        BY <2>1, <3>2, <4>1 DEF Tokens, Distinct, m, n
    <3> QED
      BY <1>4, <3>1, <3>2
  <2>2. \A j \in 2..m : bt[j] = at[j] /\ tk[at[j]] = token[at[j]]
    BY <1>2, <1>3
  <2>3. SUFFICES ASSUME NEW j \in 2..Len(checkers'), NEW p \in 1..Len(calls'),
                        p > bt[j], Loads(calls'[p])
                 PROVE  /\ tk[p] # tk[bt[j]]
                        /\ <<calls'[p].file, ver[calls'[p].file]>> # tk[bt[j]]
    BY DEF Distinct, Loads
  <2>4. j \in 2..m /\ p \in 1..n + 1
    <3>1. Len(checkers') = m /\ Len(calls') = n + 1
      BY <1>1
    <3> QED
      BY <3>1
  <2>5. bt[j] = at[j] /\ tk[at[j]] = token[at[j]]
    BY <2>2, <2>4
  <2>6. p > at[j] /\ Loads(calls'[p])
    BY <2>3, <2>5
  <2>7. tk[p] # token[at[j]] /\ <<calls'[p].file, ver[calls'[p].file]>> # token[at[j]]
    BY <2>1, <2>4, <2>6
  <2> QED
    BY <2>5, <2>7
<1>9. Fresh(bt, ver, tk)'
  <2>1. \A j \in 2..m : /\ bt[j] = at[j] /\ tk[at[j]] = token[at[j]]
                        /\ calls'[at[j]].file = calls[at[j]].file
    BY <1>1, <1>2, <1>3 DEF SameCall
  <2>2. ASSUME NEW j \in 2..m, NEW k \in j..m, ver[calls[at[j]].file] = token[at[j]][2]
        PROVE  /\ calls[at[j]].file \in DOMAIN checkers'[k].cache
               /\ checkers'[k].cache[calls[at[j]].file].src = disk[calls[at[j]].file]
    <3>1. k \in 1..m
      BY <1>1
    <3>2. /\ calls[at[j]].file \in DOMAIN checkers[k].cache
          /\ checkers[k].cache[calls[at[j]].file].src = disk[calls[at[j]].file]
      BY <2>2 DEF Tokens, Fresh, m
    <3> QED
      BY <1>1, <3>1, <3>2
  <2>3. SUFFICES ASSUME NEW j \in 2..Len(checkers'), NEW k \in j..Len(checkers'),
                        ver[calls'[bt[j]].file] = tk[bt[j]][2]
                 PROVE  /\ calls'[bt[j]].file \in DOMAIN checkers'[k].cache
                        /\ checkers'[k].cache[calls'[bt[j]].file].src = disk'[calls'[bt[j]].file]
    BY DEF Fresh
  <2>4. j \in 2..m /\ k \in j..m
    <3>1. Len(checkers') = m
      BY <1>1
    <3> QED
      BY <3>1
  <2>5. /\ bt[j] = at[j] /\ tk[at[j]] = token[at[j]]
        /\ calls'[at[j]].file = calls[at[j]].file
    BY <2>1, <2>4
  <2>6. ver[calls[at[j]].file] = token[at[j]][2]
    BY <2>3, <2>5
  <2>7. /\ calls[at[j]].file \in DOMAIN checkers'[k].cache
        /\ checkers'[k].cache[calls[at[j]].file].src = disk[calls[at[j]].file]
    BY <2>2, <2>4, <2>6
  <2>8. disk' = disk
    BY <1>1
  <2> QED
    BY <2>5, <2>7, <2>8
<1> QED
  BY <1>5, <1>6, <1>8, <1>9 DEF Tokens

\* An edit gives a file a version it never had.
LEMMA EditTokens ==
    ASSUME Typed, NEW at, Stack(at), NEW ver, NEW token, NEW tokens,
           Tokens(at, ver, token, tokens), UNCHANGED <<calls, checkers>>,
           NEW f \in Files, NEW c, disk' = [disk EXCEPT ![f] = c], edits' = edits + 1,
           NEW e, e = edits + 1,
           NEW ver1, ver1 = [ver EXCEPT ![f] = e],
           NEW tokens1, tokens1 = tokens \cup {<<f, e>>}
    PROVE  Tokens(at, ver1, token, tokens1)'
<1>1. edits \in Nat /\ e \in Nat /\ e > edits /\ e \in 0..e /\ 0..edits \subseteq 0..e
  <2>1. edits \in Nat
    BY EditsAssumption DEF Typed
  <2> QED
    BY <2>1
<1>2. /\ ver \in [Files -> 0..edits] /\ tokens \subseteq Files \X (0..edits)
      /\ IsFiniteSet(tokens) /\ Cardinality(tokens) <= Cardinality(Files) + edits
      /\ \A h \in Files : <<h, ver[h]>> \in tokens
  BY DEF Tokens, Versions
<1>3. /\ ver1 \in [Files -> 0..e] /\ ver1[f] = e /\ \A h \in Files : h # f => ver1[h] = ver[h]
      /\ \A h \in Files : h # f => disk'[h] = disk[h]
  <2>1. disk \in [Files -> Contents \cup {Missing}]
    BY DEF Typed
  <2> QED
    BY <1>1, <1>2, <2>1
<1>4. ASSUME NEW t \in tokens
      PROVE  t = <<t[1], t[2]>> /\ t[2] \in 0..edits /\ t[2] # e /\ t # <<f, e>>
  <2>1. t \in Files \X (0..edits)
    BY <1>2
  <2>2. t = <<t[1], t[2]>> /\ t[2] \in 0..edits
    BY <2>1
  <2>3. t[2] # e
    BY <1>1, <2>2
  <2> QED
    BY <2>2, <2>3
<1>5. Versions(ver1, tokens1)'
  <2>1. tokens1 \subseteq Files \X (0..e)
    BY <1>1, <1>2
  <2>2. IsFiniteSet(tokens1) /\ Cardinality(tokens1) <= Cardinality(Files) + e
    <3>1. /\ IsFiniteSet(tokens1)
          /\ Cardinality(tokens1) = Cardinality(tokens) \/ Cardinality(tokens1) = Cardinality(tokens) + 1
      BY <1>2, FS_AddElement
    <3>2. Cardinality(tokens) \in Nat /\ Cardinality(Files) \in Nat
      BY <1>2, FilesAssumption, FS_CardinalityType
    <3> QED
      BY <1>1, <1>2, <3>1, <3>2
  <2>3. \A h \in Files : <<h, ver1[h]>> \in tokens1
    BY <1>2, <1>3
  <2>4. edits' = e
    OBVIOUS
  <2> QED
    BY <1>3, <2>1, <2>2, <2>3, <2>4 DEF Versions
<1>6. ASSUME NEW p \in 1..Len(calls), Loads(calls[p])
      PROVE  /\ token[p] \in tokens /\ token[p][1] = calls[p].file /\ calls[p].file \in Files
             /\ ver[calls[p].file] = token[p][2] => calls[p].src = disk[calls[p].file]
  BY <1>6, InnerFacts DEF Tokens, Dated
<1>7. Dated(ver1, token, tokens1)'
  <2>1. ASSUME NEW p \in 1..Len(calls), Loads(calls[p]), ver1[calls[p].file] = token[p][2]
        PROVE  calls[p].src = disk'[calls[p].file]
    <3>1. token[p] \in tokens /\ calls[p].file \in Files
      BY <1>6, <2>1
    <3>2. calls[p].file # f
      BY <1>3, <1>4, <2>1, <3>1
    <3> QED
      BY <1>3, <1>6, <2>1, <3>1, <3>2
  <2>2. SUFFICES ASSUME NEW p \in 1..Len(calls'), Loads(calls'[p])
                 PROVE  /\ token[p] \in tokens1 /\ token[p][1] = calls'[p].file
                        /\ ver1[calls'[p].file] = token[p][2] =>
                               calls'[p].src = disk'[calls'[p].file]
    BY DEF Dated, Loads
  <2> QED
    BY <1>6, <2>1, <2>2
<1>8. Distinct(at, ver1, token)'
  <2>1. SUFFICES ASSUME NEW j \in 2..Len(checkers), NEW p \in 1..Len(calls),
                        p > at[j], Loads(calls[p])
                 PROVE  /\ token[p] # token[at[j]]
                        /\ <<calls[p].file, ver1[calls[p].file]>> # token[at[j]]
    BY DEF Distinct, Loads
  <2>2. at[j] \in 1..Len(calls) /\ Loads(calls[at[j]])
    BY InnerFacts
  <2>3. token[at[j]] \in tokens
    BY <1>6, <2>2
  <2>4. /\ token[p] # token[at[j]] /\ <<calls[p].file, ver[calls[p].file]>> # token[at[j]]
    BY <2>1 DEF Tokens, Distinct
  <2>5. token[at[j]] # <<f, e>> /\ calls[p].file \in Files
    BY <1>4, <1>6, <2>1, <2>3
  <2> QED
    BY <1>3, <2>4, <2>5
<1>9. Fresh(at, ver1, token)'
  <2>1. SUFFICES ASSUME NEW j \in 2..Len(checkers), NEW k \in j..Len(checkers),
                        ver1[calls[at[j]].file] = token[at[j]][2]
                 PROVE  /\ calls[at[j]].file \in DOMAIN checkers[k].cache
                        /\ checkers[k].cache[calls[at[j]].file].src = disk'[calls[at[j]].file]
    BY DEF Fresh
  <2>2. at[j] \in 1..Len(calls) /\ Loads(calls[at[j]])
    BY InnerFacts
  <2>3. token[at[j]] \in tokens /\ calls[at[j]].file \in Files
    BY <1>6, <2>2
  <2>4. calls[at[j]].file # f
    BY <1>3, <1>4, <2>1, <2>3
  <2>5. ver[calls[at[j]].file] = token[at[j]][2] /\ disk'[calls[at[j]].file] = disk[calls[at[j]].file]
    BY <1>3, <2>1, <2>3, <2>4
  <2>6. /\ calls[at[j]].file \in DOMAIN checkers[k].cache
        /\ checkers[k].cache[calls[at[j]].file].src = disk[calls[at[j]].file]
    BY <2>5 DEF Tokens, Fresh
  <2> QED
    BY <2>5, <2>6
<1> QED
  BY <1>5, <1>7, <1>8, <1>9 DEF Tokens

\* A step of heh while it checks or evaluates keeps the tokens apart.
LEMMA ActiveTokens ==
    ASSUME Typed, NEW at, Stack(at), NEW ver, NEW token, NEW tokens,
           Tokens(at, ver, token, tokens),
           Pass \/ OpenInterface \/ CloseInterface \/ ImportChecked \/ LoadModule \/ Leave,
           NEW bt, bt = Moved(at, Len(checkers), Len(checkers'), Len(calls'))
    PROVE  \E tk : Tokens(bt, ver, tk, tokens)'
<1> DEFINE n == Len(calls)
<1>1. CASE Pass
  <2>1. bt = at
    BY <1>1, PassStack
  <2> QED
    BY <1>1, <2>1, PassTokens
<1>2. CASE OpenInterface
  <2>1. PICK tk : tk = [p \in 1..Len(calls) + 1 |->
                           IF p = Len(calls) + 1 THEN <<Current.name, ver[Current.name]>>
                           ELSE token[p]]
    OBVIOUS
  <2>2. Tokens(bt, ver, tk, tokens)'
    BY <1>2, <2>1, OpenTokens
  <2> QED
    BY <2>2
<1>3. CASE CloseInterface
  BY <1>3, CloseTokens
<1>4. CASE ImportChecked
  BY <1>4, CheckedTokens
<1>5. CASE LoadModule
  <2>1. /\ UNCHANGED <<disk, edits>> /\ Len(checkers') = 1 /\ Len(calls') = n + 2
        /\ \A p \in 1..n : SameCall(calls'[p], calls[p])
        /\ calls'[n + 1]
              = Frame("load", Current.name, Named, Append(Call.loading, Current.name))
        /\ calls'[n + 2] = Frame("module", Current.name, Named, <<>>)
    BY <1>5, LoadEffect
  <2>2. ~Loads(calls'[n + 1]) /\ ~Loads(calls'[n + 2])
    <3>1. calls'[n + 1].k = "load" /\ calls'[n + 2].k = "module"
      BY <2>1 DEF Frame
    <3> QED
      BY <3>1 DEF Loads
  <2>3. n \in Nat
    BY InnerFacts
  <2> HIDE DEF n
  <2>4. \A p \in 1..n + 2 : p \in 1..n \/ p = n + 1 \/ p = n + 2
    BY <2>3
  <2>5. \A p \in 1..Len(calls') : Loads(calls'[p]) =>
           /\ p \in 1..n /\ Loads(calls[p])
           /\ calls'[p].file = calls[p].file /\ calls'[p].src = calls[p].src
    BY <2>1, <2>2, <2>4 DEF SameCall, Loads
  <2>6. \A p \in 1..Len(calls') : Loads(calls'[p]) =>
           /\ p \in 1..Len(calls) /\ Loads(calls[p])
           /\ calls'[p].file = calls[p].file /\ calls'[p].src = calls[p].src
    BY <2>5 DEF n
  <2>7. Len(checkers') \in {0, 1}
    BY <2>1
  <2>8. Tokens(bt, ver, token, tokens)'
    BY <2>1, <2>6, <2>7, FewTokens
  <2> QED
    BY <2>8
<1>6. CASE Leave
  <2>1. /\ UNCHANGED <<disk, edits>> /\ Len(checkers') = 0 /\ Len(calls') = n - 1
        /\ \A p \in 1..n - 1 : calls'[p] = calls[p]
    BY <1>6, LeaveEffect
  <2>2. n \in Nat
    BY InnerFacts
  <2> HIDE DEF n
  <2>3. \A p \in 1..n - 1 : p \in 1..n
    BY <2>2
  <2>4. \A p \in 1..Len(calls') : Loads(calls'[p]) =>
           /\ p \in 1..n /\ Loads(calls[p])
           /\ calls'[p].file = calls[p].file /\ calls'[p].src = calls[p].src
    BY <2>1, <2>3
  <2>5. \A p \in 1..Len(calls') : Loads(calls'[p]) =>
           /\ p \in 1..Len(calls) /\ Loads(calls[p])
           /\ calls'[p].file = calls[p].file /\ calls'[p].src = calls[p].src
    BY <2>4 DEF n
  <2>6. Len(checkers') \in {0, 1}
    BY <2>1
  <2>7. Tokens(bt, ver, token, tokens)'
    BY <2>1, <2>5, <2>6, FewTokens
  <2> QED
    BY <2>7
<1> QED
  BY <1>1, <1>2, <1>3, <1>4, <1>5, <1>6

\* When heh begins, and every file still has its first version, there is a token for each.
LEMMA FirstTokens ==
    ASSUME Typed, UNCHANGED <<disk, edits>>, Len(checkers') = 1, Len(calls') = 1,
           ~Loads(calls'[1]), NEW at, NEW token,
           NEW ver, ver = [f \in Files |-> 0],
           NEW tokens, tokens = Files \X {0}
    PROVE  Tokens(at, ver, token, tokens)'
<1>1. edits \in Nat /\ 0 \in 0..edits
  <2>1. edits \in Nat
    BY EditsAssumption DEF Typed
  <2> QED
    BY <2>1
<1>2. IsFiniteSet(tokens) /\ Cardinality(tokens) <= Cardinality(Files)
  <2>1. \A t \in tokens : t[1] \in Files /\ t = <<t[1], 0>>
    OBVIOUS
  <2>2. [t \in tokens |-> t[1]] \in Injection(tokens, Files)
    BY <2>1 DEF Injection, IsInjective
  <2> QED
    BY <2>2, FilesAssumption, FS_Injection
<1>3. Versions(ver, tokens)'
  <2>1. ver \in [Files -> 0..edits] /\ tokens \subseteq Files \X (0..edits)
    BY <1>1
  <2>2. Cardinality(tokens) \in Nat /\ Cardinality(Files) \in Nat
    BY <1>2, FilesAssumption, FS_CardinalityType
  <2>3. Cardinality(tokens) <= Cardinality(Files) + edits
    BY <1>1, <1>2, <2>2
  <2>4. \A f \in Files : <<f, ver[f]>> \in tokens
    OBVIOUS
  <2> QED
    BY <1>2, <2>1, <2>3, <2>4 DEF Versions
<1>4. \A p \in 1..Len(calls') : ~Loads(calls'[p])
  <2>1. \A p \in 1..1 : p = 1
    OBVIOUS
  <2> QED
    BY <2>1
<1>5. Dated(ver, token, tokens)'
  BY <1>4 DEF Dated, Loads
<1>6. 2..1 = {}
  OBVIOUS
<1>7. Distinct(at, ver, token)' /\ Fresh(at, ver, token)'
  BY <1>6 DEF Distinct, Fresh
<1> QED
  BY <1>3, <1>5, <1>7 DEF Tokens

\* Every step keeps the tokens apart.
LEMMA NextNested == Typed /\ Stacked /\ Nested /\ [Next]_vars => Nested'
<1> SUFFICES ASSUME Typed, Stacked, Nested, [Next]_vars
             PROVE  Nested'
  OBVIOUS
<1>1. CASE Edit
  <2>1. PICK f \in Files, c \in Edited \cup {Missing} : disk' = [disk EXCEPT ![f] = c]
    BY <1>1 DEF Edit
  <2>2. UNCHANGED <<calls, checkers, status>> /\ edits' = edits + 1
    BY <1>1 DEF Edit
  <2>3. ASSUME NEW at, NEW ver, NEW token, NEW tokens, Stack(at), Tokens(at, ver, token, tokens)
        PROVE  \E ver1, tokens1 : Stack(at)' /\ Tokens(at, ver1, token, tokens1)'
    <3>1. PICK e : e = edits + 1
      OBVIOUS
    <3>2. PICK ver1 : ver1 = [ver EXCEPT ![f] = e]
      OBVIOUS
    <3>3. PICK tokens1 : tokens1 = tokens \cup {<<f, e>>}
      OBVIOUS
    <3>4. Stack(at)'
      BY <2>2, <2>3 DEF Stack, Level
    <3>5. UNCHANGED <<calls, checkers>>
      BY <2>2
    <3>6. Tokens(at, ver1, token, tokens1)'
      BY <2>1, <2>2, <2>3, <3>1, <3>2, <3>3, <3>5, EditTokens
    <3> QED
      BY <3>4, <3>6
  <2>4. CASE Active
    <3>1. PICK at, ver, token, tokens : Stack(at) /\ Tokens(at, ver, token, tokens)
      BY <2>4 DEF Nested
    <3>2. PICK ver1, tokens1 : Stack(at)' /\ Tokens(at, ver1, token, tokens1)'
      BY <2>3, <3>1
    <3>3. Active'
      BY <2>2, <2>4 DEF Active
    <3> QED
      BY <3>2, <3>3 DEF Nested
  <2>5. CASE ~Active
    BY <2>2, <2>5 DEF Nested, Active
  <2> QED
    BY <2>4, <2>5
<1>2. CASE UNCHANGED vars
  <2>1. ASSUME NEW at, NEW ver, NEW token, NEW tokens, Stack(at), Tokens(at, ver, token, tokens)
        PROVE  Stack(at)' /\ Tokens(at, ver, token, tokens)'
    <3>1. Stack(at)'
      BY <1>2, <2>1 DEF Stack, Level, vars
    <3>2. Versions(ver, tokens)' /\ Dated(ver, token, tokens)'
      BY <1>2, <2>1 DEF Tokens, Versions, Dated, Loads, vars
    <3>3. Distinct(at, ver, token)' /\ Fresh(at, ver, token)'
      BY <1>2, <2>1 DEF Tokens, Distinct, Fresh, Loads, vars
    <3> QED
      BY <3>1, <3>2, <3>3 DEF Tokens
  <2> QED
    BY <1>2, <2>1 DEF Nested, Active, vars
<1>3. CASE Begin
  <2>1. Active'
    BY <1>3 DEF Begin
  <2>2. \E at, ver, token, tokens : Stack(at)' /\ Tokens(at, ver, token, tokens)'
    <3>1. CASE /\ checkers' = <<Checker(<<>>)>> /\ Len(checkers') = 1
               /\ calls'[1].k = "run"
               /\ Stack([j \in 1..2 |-> j])'
      <4>1. PICK at : at = [j \in 1..2 |-> j] /\ Stack(at)'
        BY <3>1
      <4>2. PICK ver : ver = [f \in Files |-> 0]
        OBVIOUS
      <4>3. PICK tokens : tokens = Files \X {0}
        OBVIOUS
      <4>4. UNCHANGED <<disk, edits>> /\ Len(calls') = 1
        BY <1>3, BeginEffect
      <4>5. ~Loads(calls'[1])
        BY <3>1 DEF Loads
      <4>6. \A token : Tokens(at, ver, token, tokens)'
        BY <3>1, <4>2, <4>3, <4>4, <4>5, FirstTokens
      <4> QED
        BY <4>1, <4>6
    <3>2. CASE /\ status = "check" /\ checkers' = <<>> /\ Len(checkers') = 0
               /\ calls'[1].k = "main"
               /\ Stack([j \in 1..1 |-> 2])'
      <4>1. PICK bt : bt = [j \in 1..1 |-> 2] /\ Stack(bt)'
        BY <3>2
      <4>2. PICK at, ver, token, tokens : Stack(at) /\ Tokens(at, ver, token, tokens)
        BY <3>2 DEF Nested, Active
      <4>3. UNCHANGED <<disk, edits>> /\ Len(calls') = 1
        BY <1>3, BeginEffect
      <4>4. ~Loads(calls'[1])
        BY <3>2 DEF Loads
      <4>5. \A p \in 1..1 : p = 1
        OBVIOUS
      <4>6. \A p \in 1..Len(calls') : Loads(calls'[p]) =>
               /\ p \in 1..Len(calls) /\ Loads(calls[p])
               /\ calls'[p].file = calls[p].file /\ calls'[p].src = calls[p].src
        BY <4>3, <4>4, <4>5
      <4>7. Len(checkers') \in {0, 1}
        BY <3>2
      <4>8. Tokens(bt, ver, token, tokens)'
        BY <4>2, <4>3, <4>6, <4>7, FewTokens
      <4> QED
        BY <4>1, <4>8
    <3> QED
      BY <1>3, <3>1, <3>2, BeginEffect
  <2>3. PICK at, ver, token, tokens : Stack(at)' /\ Tokens(at, ver, token, tokens)'
    BY <2>2
  <2> QED
    BY <2>1, <2>3 DEF Nested
<1>4. CASE Halt
  <2>1. ~Active' /\ (checkers' = <<>> \/ Len(checkers') = 1)
    BY <1>4, HaltEffect DEF Active
  <2>2. Len(checkers') = 0 \/ Len(checkers') = 1
    <3>1. Len(<<>>) = 0
      OBVIOUS
    <3> QED
      BY <2>1, <3>1
  <2>3. Len(checkers') <= 1
    <3>1. \A k \in {0, 1} : k <= 1
      OBVIOUS
    <3>2. Len(checkers') \in {0, 1}
      BY <2>2
    <3> QED
      BY <3>1, <3>2, Zenon
  <2> QED
    BY <2>1, <2>3 DEF Nested
<1>5. CASE /\ Active /\ status' = status
           /\ Pass \/ OpenInterface \/ CloseInterface \/ ImportChecked \/ LoadModule \/ Leave
  <2>1. PICK at, ver, token, tokens : Stack(at) /\ Tokens(at, ver, token, tokens)
    BY <1>5 DEF Nested
  <2>2. PICK bt : bt = Moved(at, Len(checkers), Len(checkers'), Len(calls'))
    OBVIOUS
  <2>3. Stack(bt)'
    BY <1>5, <2>1, <2>2, ActiveStacked DEF Stacked
  <2>4. \E tk : Tokens(bt, ver, tk, tokens)'
    BY <1>5, <2>1, <2>2, ActiveTokens
  <2> QED
    BY <1>5, <2>3, <2>4 DEF Nested, Active
<1> QED
  BY <1>1, <1>2, <1>3, <1>4, <1>5, Steps

\* Checkers start checkers, but there are never more of them on the stack than one for
\* the main file, one for each file and one for each change of a file since.
THEOREM NestingCorrect == Spec => []NestingBounded
<1>1. Init => Nested
  <2>1. Len(<<>>) = 0
    OBVIOUS
  <2> QED
    BY <2>1 DEF Init, Nested, Active
<1>2. Typed /\ Nested => NestingBounded
  <2> SUFFICES ASSUME Typed, Nested
               PROVE  NestingBounded
    OBVIOUS
  <2>1. CASE Active
    <3>1. PICK at, ver, token, tokens : Stack(at) /\ Tokens(at, ver, token, tokens)
      BY <2>1 DEF Nested
    <3> QED
      BY <3>1, TokensBound DEF NestingBounded
  <2>2. CASE ~Active
    <3>1. Len(checkers) <= 1 /\ Len(checkers) \in Nat
      BY <2>2 DEF Nested, Typed
    <3>2. Cardinality(Files) \in Nat /\ edits \in Nat
      BY FilesAssumption, EditsAssumption, FS_CardinalityType DEF Typed
    <3> QED
      BY <3>1, <3>2 DEF NestingBounded
  <2> QED
    BY <2>1, <2>2
<1> QED
  BY <1>1, <1>2, AlwaysStacked, NextNested, PTL DEF Spec

-----------------------------------------------------------------------------
(* No file is loaded inside its own loading.                                 *)
(*                                                                           *)
(* The checkers and the calls are each a sequence of records, and only their *)
(* field loading matters: that it is a sequence of different files.          *)

Links == {s \in Seq(Files) : Simple(s)}

Linked(x) == "loading" \in DOMAIN x /\ x.loading \in Links

Chained(s) == \E S : s \in Seq(S) /\ \A x \in S : Linked(x)

Chains == Chained(calls) /\ Chained(checkers)

-----------------------------------------------------------------------------
(* Chains. *)

\* A file that is not loading can be loaded.
LEMMA LinksAppend ==
    ASSUME NEW s \in Links, NEW f \in Files, ~Holds(s, f)
    PROVE  Append(s, f) \in Links
<1>1. s \in Seq(Files) /\ Simple(s) /\ \A i \in 1..Len(s) : s[i] # f
  BY DEF Links, Holds
<1>2. /\ Append(s, f) \in Seq(Files)
      /\ Len(Append(s, f)) = Len(s) + 1
      /\ \A i \in 1..Len(s) : Append(s, f)[i] = s[i]
      /\ Append(s, f)[Len(s) + 1] = f
  BY <1>1, AppendProperties
<1>3. DOMAIN Append(s, f) = 1..Len(s) + 1 /\ Len(s) \in Nat
  BY <1>1, <1>2
<1>4. ASSUME NEW i \in 1..Len(s) + 1, NEW j \in 1..Len(s) + 1,
             Append(s, f)[i] = Append(s, f)[j]
      PROVE  i = j
  <2>1. CASE i \in 1..Len(s) /\ j \in 1..Len(s)
    BY <1>1, <1>2, <1>4, <2>1 DEF Simple
  <2>2. CASE i = Len(s) + 1 \/ j = Len(s) + 1
    BY <1>1, <1>2, <1>3, <1>4, <2>2
  <2> QED
    BY <1>3, <2>1, <2>2
<1> QED
  BY <1>2, <1>3, <1>4 DEF Links, Simple

\* One file fewer leaves different files (Vec::pop of module_loading).
LEMMA LinksButlast ==
    ASSUME NEW s \in Links
    PROVE  Butlast(s) \in Links
<1>1. s \in Seq(Files) /\ Simple(s) /\ Len(s) \in Nat
  BY DEF Links
<1>2. CASE Len(s) = 0
  <2>1. Butlast(s) = <<>>
    BY <1>1, <1>2 DEF Butlast
  <2> QED
    BY <2>1 DEF Links, Simple
<1>3. CASE Len(s) # 0
  <2>1. /\ Butlast(s) \in Seq(Files)
        /\ Len(Butlast(s)) = Len(s) - 1
        /\ \A i \in 1..Len(s) - 1 : Butlast(s)[i] = s[i]
    <3> DEFINE n == Len(s) - 1
    <3>1. 1 \in Int /\ n \in Nat /\ \A i \in 1..n : s[i] \in Files
      BY <1>1, <1>3
    <3> HIDE DEF n
    <3>2. /\ SubSeq(s, 1, n) \in Seq(Files)
          /\ Len(SubSeq(s, 1, n)) = IF 1 <= n THEN n-1+1 ELSE 0
          /\ \A i \in 1..n-1+1 : SubSeq(s, 1, n)[i] = s[1+i-1]
      BY <3>1, SubSeqProperties
    <3>3. /\ n-1+1 = n /\ (IF 1 <= n THEN n ELSE 0) = n
          /\ \A i \in 1..n : 1+i-1 = i
      BY <3>1
    <3>4. /\ SubSeq(s, 1, n) \in Seq(Files)
          /\ Len(SubSeq(s, 1, n)) = n
          /\ \A i \in 1..n : SubSeq(s, 1, n)[i] = s[i]
      BY <3>2, <3>3
    <3> QED
      BY <3>4 DEF Butlast, n
  <2> QED
    BY <1>1, <1>3, <2>1 DEF Links, Simple
<1> QED
  BY <1>2, <1>3

\* What loads nothing is linked.
LEMMA LinksNil == <<>> \in Links
  BY DEF Links, Simple

\* Nothing is a chain.
LEMMA ChainedNil == Chained(<<>>)
<1> DEFINE S == {}
<1>1. <<>> \in Seq(S) /\ \A x \in S : Linked(x)
  OBVIOUS
<1> HIDE DEF S
<1> QED
  BY <1>1 DEF Chained

\* The elements of a chain are linked.
LEMMA ChainedElement ==
    ASSUME NEW s, Chained(s)
    PROVE  /\ Len(s) \in Nat
           /\ DOMAIN s = 1..Len(s)
           /\ s # <<>> <=> Len(s) > 0
           /\ \A i \in DOMAIN s : Linked(s[i])
<1>1. PICK S : s \in Seq(S) /\ \A x \in S : Linked(x)
  BY DEF Chained
<1> QED
  BY <1>1

\* A chain grows by a linked element.
LEMMA ChainedAppend ==
    ASSUME NEW s, Chained(s), NEW x, Linked(x)
    PROVE  Chained(Append(s, x))
<1>1. PICK S : s \in Seq(S) /\ \A y \in S : Linked(y)
  BY DEF Chained
<1> DEFINE T == S \cup {x}
<1>2. \A y \in T : Linked(y)
  BY <1>1
<1>3. s \in Seq(T) /\ x \in T
  BY <1>1, SeqMonotonic
<1> HIDE DEF T
<1>4. Append(s, x) \in Seq(T)
  BY <1>3
<1> QED
  BY <1>2, <1>4 DEF Chained

\* One linked element is a chain.
LEMMA ChainedOne ==
    ASSUME NEW x, Linked(x)
    PROVE  Chained(<<x>>)
<1> DEFINE S == {x}
<1>1. <<x>> \in Seq(S) /\ \A y \in S : Linked(y)
  OBVIOUS
<1> HIDE DEF S
<1> QED
  BY <1>1 DEF Chained

\* A chain without its last element is a chain.
LEMMA ChainedButlast ==
    ASSUME NEW s, Chained(s)
    PROVE  Chained(Butlast(s))
<1>1. PICK S : s \in Seq(S) /\ \A y \in S : Linked(y)
  BY DEF Chained
<1>2. Butlast(s) \in Seq(S)
  <2>1. CASE Len(s) = 0
    <3>1. Butlast(s) = <<>>
      BY <1>1, <2>1 DEF Butlast
    <3> QED
      BY <3>1
  <2>2. CASE Len(s) # 0
    BY <1>1, <2>2 DEF Butlast
  <2> QED
    BY <2>1, <2>2
<1> QED
  BY <1>1, <1>2 DEF Chained

\* A chain whose last element, if there is one, gives way to a linked one.
LEMMA ChainedOnTop ==
    ASSUME NEW s, Chained(s), NEW x, s # <<>> => Linked(x)
    PROVE  Chained(OnTop(s, x))
<1>1. PICK S : s \in Seq(S) /\ \A y \in S : Linked(y)
  BY DEF Chained
<1>2. CASE s = <<>>
  <2>1. OnTop(s, x) = <<>>
    BY <1>2 DEF OnTop
  <2> QED
    BY <2>1, ChainedNil
<1>3. CASE s # <<>>
  <2> DEFINE T == S \cup {x}
  <2>1. \A y \in T : Linked(y)
    BY <1>1, <1>3
  <2>2. s \in Seq(T) /\ x \in T
    BY <1>1, SeqMonotonic
  <2> HIDE DEF T
  <2>3. OnTop(s, x) \in Seq(T)
    <3>1. Len(s) \in 1..Len(s)
      BY <1>1, <1>3
    <3> QED
      BY <2>2, <3>1, ExceptSeq DEF OnTop
  <2> QED
    BY <2>1, <2>3 DEF Chained
<1> QED
  BY <1>2, <1>3

\* The last element of a chain is linked.
LEMMA ChainedFinal ==
    ASSUME NEW s, Chained(s), s # <<>>
    PROVE  Linked(Final(s))
  BY ChainedElement DEF Final

\* A new call or a new checker is linked.
LEMMA NewLinked ==
    /\ \A k, f, src : \A l \in Links : Linked(Frame(k, f, src, l))
    /\ \A cache : Linked(Checker(cache))
  BY LinksNil DEF Linked, Frame, Checker

\* So is one whose other fields have changed.
LEMMA StillLinked ==
    ASSUME NEW x, Linked(x), NEW v, NEW w
    PROVE  /\ Linked([x EXCEPT !.uses = v])
           /\ Linked([x EXCEPT !.diags = v])
           /\ Linked([x EXCEPT !.cache = v, !.diags = w])
           /\ \A l \in Links : /\ Linked([x EXCEPT !.loading = l])
                               /\ Linked([x EXCEPT !.cache = v, !.loading = l])
  BY DEF Linked

\* The current import has been followed.
LEMMA AdvancedChained ==
    ASSUME Chained(calls), calls # <<>>
    PROVE  Chained(Advanced)
<1>1. Linked([Call EXCEPT !.uses = Tail(@)])
  BY ChainedFinal, StillLinked DEF Call
<1> QED
  BY <1>1, ChainedOnTop DEF Advanced

-----------------------------------------------------------------------------
(* The invariant. *)

\* Nothing is being loaded at the start.
LEMMA InitChains == Init => Chains
  BY ChainedNil DEF Init, Chains

\* OpenInterface extends module_loading only by a file that is not in it.
LEMMA OpenInv ==
    ASSUME Chains, OpenInterface
    PROVE  Chains'
<1>1. /\ Chained(calls) /\ Chained(checkers) /\ calls # <<>>
      /\ Current.name \in Files /\ ~Holds(This.loading, Current.name)
  BY DEF Chains, OpenInterface, Importing, Following, Refusal, Readable
<1>2. Chained(calls')
  BY <1>1, AdvancedChained, ChainedAppend, LinksNil, NewLinked DEF OpenInterface
<1>3. ASSUME checkers # <<>>
      PROVE  Linked([This EXCEPT !.loading = Append(@, Current.name)])
  <2>1. Linked(This)
    BY <1>1, <1>3, ChainedFinal DEF This
  <2>2. Append(This.loading, Current.name) \in Links
    BY <1>1, <2>1, LinksAppend DEF Linked
  <2> QED
    BY <2>1, <2>2, StillLinked
<1>4. Chained(checkers')
  BY <1>1, <1>3, ChainedOnTop DEF OpenInterface
<1> QED
  BY <1>2, <1>4 DEF Chains

\* CloseInterface takes one file off module_loading; the new checker has none.
LEMMA CloseInv ==
    ASSUME Chains, CloseInterface
    PROVE  Chains'
<1> DEFINE cache == Known(This.cache, Call.file, Interface(Call.src, FALSE))
           closed == [This EXCEPT !.cache = cache, !.loading = Butlast(@)]
<1>1. Chained(calls) /\ Chained(checkers)
  BY DEF Chains
<1>2. Chained(calls')
  BY <1>1, ChainedOnTop, LinksNil, NewLinked DEF CloseInterface
<1>3. checkers' = Append(OnTop(checkers, closed), Checker(cache))
  BY DEF CloseInterface
<1>4. ASSUME checkers # <<>>
      PROVE  Linked(closed)
  <2>1. Linked(This)
    BY <1>1, <1>4, ChainedFinal DEF This
  <2>2. Butlast(This.loading) \in Links
    BY <2>1, LinksButlast DEF Linked
  <2> QED
    BY <2>1, <2>2, StillLinked
<1> HIDE DEF cache, closed
<1>5. Chained(checkers')
  BY <1>1, <1>3, <1>4, ChainedOnTop, ChainedAppend, NewLinked
<1> QED
  BY <1>2, <1>5 DEF Chains

\* ImportChecked drops a checker and tells the one below.
LEMMA CheckedInv ==
    ASSUME Chains, ImportChecked
    PROVE  Chains'
<1> DEFINE outer == checkers[Len(checkers) - 1]
           told == [outer EXCEPT
                        !.cache = Known(@, Call.file, Interface(Call.src, TRUE)),
                        !.diags = IF Verdict = {} THEN @ ELSE @ \cup {"E0033"}]
<1>1. Chained(calls) /\ Chained(checkers)
  BY DEF Chains
<1>2. Chained(calls')
  BY <1>1, ChainedButlast DEF ImportChecked
<1>3. checkers' = OnTop(Butlast(checkers), told)
  BY DEF ImportChecked
<1>4. ASSUME Butlast(checkers) # <<>>
      PROVE  Linked(told)
  <2>1. Len(checkers) - 1 \in DOMAIN checkers
    <3>1. Len(checkers) \in Nat /\ DOMAIN checkers = 1..Len(checkers)
      BY <1>1, ChainedElement
    <3>2. SubSeq(checkers, 1, 0) = <<>> /\ SubSeq(checkers, 1, 0 - 1) = <<>>
      BY <1>1 DEF Chained
    <3> QED
      BY <1>4, <3>1, <3>2 DEF Butlast
  <2>2. Linked(outer)
    BY <1>1, <2>1, ChainedElement
  <2> QED
    BY <2>2, StillLinked
<1> HIDE DEF told
<1>5. Chained(checkers')
  BY <1>1, <1>3, <1>4, ChainedButlast, ChainedOnTop
<1> QED
  BY <1>2, <1>5 DEF Chains

\* LoadModule loads only a file that is not loading already.
LEMMA LoadInv ==
    ASSUME Chains, LoadModule
    PROVE  Chains'
<1> DEFINE load   == Frame("load", Current.name, Named, Append(Call.loading, Current.name))
           module == Frame("module", Current.name, Named, <<>>)
<1>1. /\ Chained(calls) /\ Chained(checkers) /\ calls # <<>>
      /\ Current.name \in Files /\ ~Holds(Call.loading, Current.name)
  BY DEF Chains, LoadModule, Loading, Following, LoadFault, Readable
<1>2. Linked(load) /\ Linked(module)
  <2>1. Linked(Call)
    BY <1>1, ChainedFinal DEF Call
  <2>2. Append(Call.loading, Current.name) \in Links
    BY <1>1, <2>1, LinksAppend DEF Linked
  <2> QED
    BY <2>2, LinksNil, NewLinked
<1>3. calls' = Advanced \o <<load, module>>
  BY DEF LoadModule
<1> HIDE DEF load, module
<1>4. Chained(calls')
  <2>1. Chained(Append(Append(Advanced, load), module))
    BY <1>1, <1>2, AdvancedChained, ChainedAppend
  <2>2. PICK S : Advanced \in Seq(S)
    BY <1>1, AdvancedChained DEF Chained
  <2>3. Advanced \o <<load, module>> = Append(Append(Advanced, load), module)
    <3> DEFINE T == S \cup {load, module}
    <3>1. Advanced \in Seq(T) /\ load \in T /\ module \in T
      BY <2>2, SeqMonotonic
    <3> HIDE DEF T
    <3> QED
      BY <3>1
  <2> QED
    BY <1>3, <2>1, <2>3
<1>5. Chained(checkers')
  BY <1>1, ChainedAppend, NewLinked DEF LoadModule
<1> QED
  BY <1>4, <1>5 DEF Chains

\* Every step keeps the chains.
LEMMA StepChains == Chains /\ [Next]_vars => Chains'
<1> SUFFICES ASSUME Chains, [Next]_vars
             PROVE  Chains'
  OBVIOUS
<1>1. Chained(calls) /\ Chained(checkers)
  BY DEF Chains
<1>2. CASE ReadMain
  BY <1>1, <1>2, ChainedOne, LinksNil, NewLinked DEF Chains, ReadMain
<1>3. CASE SkipStd \/ ReuseInterface
  BY <1>1, <1>3, AdvancedChained DEF Chains, SkipStd, ReuseInterface, Importing, Following
<1>4. CASE RefuseImport
  <2>1. checkers # <<>> => Linked([This EXCEPT !.diags = @ \cup {Refusal}])
    BY <1>1, ChainedFinal, StillLinked DEF This
  <2> QED
    BY <1>1, <1>4, <2>1, AdvancedChained, ChainedOnTop
    DEF Chains, RefuseImport, Importing, Following
<1>5. CASE OpenInterface
  BY <1>5, OpenInv
<1>6. CASE CloseInterface
  BY <1>6, CloseInv
<1>7. CASE ImportChecked
  BY <1>7, CheckedInv
<1>8. CASE RunChecked
  <2>1. Chained(<<Frame("main", Main, Call.src, <<>>)>>)
    BY ChainedOne, LinksNil, NewLinked
  <2>2. checkers # <<>> => Linked([This EXCEPT !.diags = Verdict])
    BY <1>1, ChainedFinal, StillLinked DEF This
  <2> QED
    BY <1>1, <1>8, <2>1, <2>2, ChainedNil, ChainedOnTop DEF Chains, RunChecked
<1>9. CASE ModuleChecked
  BY <1>1, <1>9, ChainedNil, ChainedButlast DEF Chains, ModuleChecked
<1>10. CASE BindStd
  BY <1>1, <1>10, AdvancedChained DEF Chains, BindStd, Following
<1>11. CASE FaultLoad \/ MainLoaded
  BY <1>1, <1>11, ChainedNil DEF Chains, FaultLoad, MainLoaded
<1>12. CASE LoadModule
  BY <1>12, LoadInv
<1>13. CASE ModuleLoaded
  BY <1>1, <1>13, ChainedButlast DEF Chains, ModuleLoaded
<1>14. CASE Edit \/ Gone \/ UNCHANGED vars
  BY <1>1, <1>14 DEF Chains, Edit, Gone, vars
<1> QED
  BY <1>2, <1>3, <1>4, <1>5, <1>6, <1>7, <1>8, <1>9, <1>10, <1>11, <1>12, <1>13, <1>14
  DEF Next, Heh, Check, Eval

\* A file is never loaded inside its own loading: neither the checker's
\* module_loading nor the evaluator's loading ever holds one file twice, for any
\* files, any contents and any number of edits.
THEOREM NoLoadingTwice == Spec => []LoadingSimple
<1>1. Chains => LoadingSimple
  BY ChainedElement DEF Chains, LoadingSimple, Linked, Links
<1> QED
  BY <1>1, InitChains, StepChains, PTL DEF Spec
-----------------------------------------------------------------------------
(* The graph of imports.                                                     *)

Written(uses) == {uses[i] : i \in DOMAIN uses}

CanOpen(d, u) ==
    u.form # "std" /\ u.name \in Files /\ d[u.name].fault \in {"none", "type"}

CannotOpen(d, u) ==
    u.form # "std" /\ (u.name \notin Files \/ d[u.name].fault \in {"missing", "syntax"})

OpensIn(d, src) == {f \in Files : \E u \in Written(src.uses) : CanOpen(d, u) /\ u.name = f}

ClosedIn(d, fs) == \A f \in fs : OpensIn(d, d[f]) \subseteq fs

LeadsIn(d, src) ==
    {f \in Files : \A fs \in SUBSET Files :
                        OpensIn(d, src) \subseteq fs /\ ClosedIn(d, fs) => f \in fs}

ReachIn(d) == LeadsIn(d, d[Main])

CyclicIn(d) == \E f \in ReachIn(d) : f \in LeadsIn(d, d[f])

WrongIn(d) ==
    \/ d[Main].fault # "none"
    \/ CyclicIn(d)
    \/ \E f \in ReachIn(d) : d[f].fault = "type"
    \/ \E f \in ReachIn(d) \cup {Main} : \E u \in Written(d[f].uses) : CannotOpen(d, u)

\* Every non-empty set of these files has one that opens none of the set.
Grounded(d, fs) ==
    \A s \in SUBSET fs : s # {} => \E f \in s : OpensIn(d, d[f]) \cap s = {}

\* These are the graph of HehImports, and what is wrong with it.
LEMMA GraphOfDisk ==
    ASSUME NEW d, d = disk
    PROVE  /\ \A src : Opens(src) = OpensIn(d, src)
           /\ \A src : LeadsTo(src) = LeadsIn(d, src)
           /\ Cyclic <=> CyclicIn(d)
           /\ \A src : Unloadable(src) <=> \E u \in Written(src.uses) : CannotOpen(d, u)
           /\ Wrong <=> WrongIn(d)
<1>1. \A src : Opens(src) = OpensIn(d, src)
  BY DEF Opens, OpensIn, CanOpen, Written
<1>2. \A fs : OpenedWithin(fs) <=> ClosedIn(d, fs)
  BY <1>1 DEF OpenedWithin, ClosedIn
<1>3. \A src : LeadsTo(src) = LeadsIn(d, src)
  BY <1>1, <1>2 DEF LeadsTo, LeadsIn
<1>4. Cyclic <=> CyclicIn(d)
  BY <1>3 DEF Cyclic, CyclicIn, Reached, ReachIn
<1>5. \A src : Unloadable(src) <=> \E u \in Written(src.uses) : CannotOpen(d, u)
  BY DEF Unloadable, CannotOpen, Written, Readable
<1>6. Reached = ReachIn(d)
  BY <1>3 DEF Reached, ReachIn
<1>7. Wrong <=> WrongIn(d)
  BY <1>4, <1>5, <1>6 DEF Wrong, WrongIn
<1> QED
  BY <1>1, <1>3, <1>4, <1>5, <1>7

\* A content leads to what it opens, and to what that opens.
LEMMA LeadsClosed ==
    ASSUME NEW d, NEW src
    PROVE  /\ OpensIn(d, src) \subseteq LeadsIn(d, src)
           /\ LeadsIn(d, src) \subseteq Files
           /\ ClosedIn(d, LeadsIn(d, src))
<1>1. OpensIn(d, src) \subseteq Files
  BY DEF OpensIn
<1>2. OpensIn(d, src) \subseteq LeadsIn(d, src) /\ LeadsIn(d, src) \subseteq Files
  BY <1>1 DEF LeadsIn
<1>3. ASSUME NEW f \in LeadsIn(d, src), NEW g \in OpensIn(d, d[f])
      PROVE  g \in LeadsIn(d, src)
  <2>1. g \in Files
    BY <1>3 DEF OpensIn
  <2>2. ASSUME NEW fs \in SUBSET Files, OpensIn(d, src) \subseteq fs, ClosedIn(d, fs)
        PROVE  g \in fs
    <3>1. f \in fs
      BY <1>3, <2>2 DEF LeadsIn
    <3> QED
      BY <1>3, <2>2, <3>1 DEF ClosedIn
  <2> QED
    BY <2>1, <2>2 DEF LeadsIn
<1>4. ClosedIn(d, LeadsIn(d, src))
  BY <1>3 DEF ClosedIn
<1> QED
  BY <1>2, <1>4

\* ... and to nothing that is not in every closed set of files with what it opens.
LEMMA LeadsLeast ==
    ASSUME NEW d, NEW src, NEW fs \in SUBSET Files,
           OpensIn(d, src) \subseteq fs, ClosedIn(d, fs)
    PROVE  LeadsIn(d, src) \subseteq fs
  BY DEF LeadsIn

\* What a file leads to, the contents that lead to it lead to.
LEMMA LeadsOn ==
    ASSUME NEW d, NEW src, NEW f \in LeadsIn(d, src)
    PROVE  /\ LeadsIn(d, d[f]) \subseteq LeadsIn(d, src)
           /\ OpensIn(d, d[f]) \subseteq LeadsIn(d, src)
<1>1. LeadsIn(d, src) \in SUBSET Files /\ ClosedIn(d, LeadsIn(d, src))
  BY LeadsClosed
<1>2. OpensIn(d, d[f]) \subseteq LeadsIn(d, src)
  BY <1>1 DEF ClosedIn
<1> QED
  BY <1>1, <1>2, LeadsLeast

\* A content leads to a file by one that it opens, which is that file or leads to it.
LEMMA LeadsBy ==
    ASSUME NEW d, NEW src, NEW f \in LeadsIn(d, src)
    PROVE  \/ f \in OpensIn(d, src)
           \/ \E g \in OpensIn(d, src) : f \in LeadsIn(d, d[g])
<1> DEFINE fs == OpensIn(d, src) \cup UNION {LeadsIn(d, d[g]) : g \in OpensIn(d, src)}
<1>1. fs \in SUBSET Files
  BY LeadsClosed DEF OpensIn
<1>2. ClosedIn(d, fs)
  <2>1. ASSUME NEW h \in OpensIn(d, src)
        PROVE  OpensIn(d, d[h]) \subseteq fs
    BY LeadsClosed
  <2>2. ASSUME NEW g \in OpensIn(d, src), NEW h \in LeadsIn(d, d[g])
        PROVE  OpensIn(d, d[h]) \subseteq fs
    BY LeadsOn
  <2> QED
    BY <2>1, <2>2 DEF ClosedIn
<1>3. LeadsIn(d, src) \subseteq fs
  <2> HIDE DEF fs
  <2>1. OpensIn(d, src) \subseteq fs
    BY DEF fs
  <2> QED
    BY <1>1, <1>2, <2>1, LeadsLeast
<1> QED
  BY <1>3

\* In a grounded set of files that holds what they open, none leads to itself.
LEMMA GroundedAcyclic ==
    ASSUME NEW d, NEW fs, ClosedIn(d, fs), Grounded(d, fs), NEW f \in fs
    PROVE  f \notin LeadsIn(d, d[f])
<1> DEFINE round == {g \in fs : g \in LeadsIn(d, d[g])}
<1>1. SUFFICES ASSUME round # {}
               PROVE  FALSE
  OBVIOUS
<1>2. PICK g \in round : OpensIn(d, d[g]) \cap round = {}
  BY <1>1 DEF Grounded
<1>3. g \in fs /\ g \in LeadsIn(d, d[g]) /\ OpensIn(d, d[g]) \subseteq fs
  BY DEF ClosedIn
<1>4. CASE g \in OpensIn(d, d[g])
  BY <1>2, <1>4
<1>5. ASSUME NEW h \in OpensIn(d, d[g]), g \in LeadsIn(d, d[h])
      PROVE  FALSE
  <2>1. LeadsIn(d, d[g]) \subseteq LeadsIn(d, d[h])
    BY <1>5, LeadsOn
  <2>2. h \in LeadsIn(d, d[g])
    BY LeadsClosed
  <2>3. h \in round
    BY <1>3, <2>1, <2>2
  <2> QED
    BY <1>2, <2>3
<1> QED
  BY <1>3, <1>4, <1>5, LeadsBy

\* A grounded set stays so with one more file whose imports are all in it.
LEMMA GroundedMore ==
    ASSUME NEW d, NEW fs, NEW f, ClosedIn(d, fs), Grounded(d, fs), OpensIn(d, d[f]) \subseteq fs
    PROVE  ClosedIn(d, fs \cup {f}) /\ Grounded(d, fs \cup {f})
<1>1. ClosedIn(d, fs \cup {f})
  BY DEF ClosedIn
<1>2. ASSUME NEW s \in SUBSET (fs \cup {f}), s # {}
      PROVE  \E g \in s : OpensIn(d, d[g]) \cap s = {}
  <2>1. CASE f \in fs
    <3>1. s \in SUBSET fs
      BY <2>1
    <3> QED
      BY <1>2, <3>1 DEF Grounded
  <2>2. CASE f \notin fs /\ s \cap fs # {}
    <3>1. PICK g \in s \cap fs : OpensIn(d, d[g]) \cap (s \cap fs) = {}
      BY <2>2 DEF Grounded
    <3>2. OpensIn(d, d[g]) \subseteq fs
      BY DEF ClosedIn
    <3>3. OpensIn(d, d[g]) \cap s = {}
      BY <3>1, <3>2
    <3> QED
      BY <3>3
  <2>3. CASE f \notin fs /\ s \cap fs = {}
    <3>1. f \in s
      BY <1>2, <2>3
    <3>2. OpensIn(d, d[f]) \cap s = {}
      BY <2>3
    <3> QED
      BY <3>1, <3>2
  <2> QED
    BY <2>1, <2>2, <2>3
<1> QED
  BY <1>1, <1>2 DEF Grounded

\* The imports that are left of a content, one fewer when one is followed.
LEMMA WrittenFacts ==
    /\ Written(<<>>) = {}
    /\ \A S : \A s \in Seq(S) : s # <<>> => Written(s) = {s[1]} \cup Written(Tail(s))
    /\ \A S : \A s \in Seq(S) : \A x \in S : Written(Append(s, x)) = Written(s) \cup {x}
<1>1. Written(<<>>) = {}
  BY EmptySeq DEF Written
<1>2. ASSUME NEW S, NEW s \in Seq(S), s # <<>>
      PROVE  Written(s) = {s[1]} \cup Written(Tail(s))
  <2>1. Len(s) \in Nat /\ Len(s) >= 1 /\ DOMAIN s = 1..Len(s)
    BY <1>2, EmptySeq
  <2>2. /\ Tail(s) \in Seq(S) /\ Len(Tail(s)) = Len(s) - 1
        /\ \A i \in 1..Len(s) - 1 : Tail(s)[i] = s[i + 1]
    BY <1>2
  <2>3. DOMAIN Tail(s) = 1..Len(s) - 1
    BY <2>2
  <2>4. ASSUME NEW i \in 1..Len(s)
        PROVE  s[i] \in {s[1]} \cup Written(Tail(s))
    <3>1. CASE i = 1
      BY <3>1
    <3>2. CASE i # 1
      <4>1. i - 1 \in 1..Len(s) - 1 /\ (i - 1) + 1 = i
        BY <2>1, <3>2
      <4>2. s[i] = Tail(s)[i - 1]
        BY <2>2, <4>1
      <4> QED
        BY <2>3, <4>1, <4>2 DEF Written
    <3> QED
      BY <3>1, <3>2
  <2>5. Written(s) \subseteq {s[1]} \cup Written(Tail(s))
    BY <2>1, <2>4 DEF Written
  <2>6. \A i \in 1..Len(s) - 1 : i + 1 \in 1..Len(s)
    BY <2>1
  <2>7. {s[1]} \cup Written(Tail(s)) \subseteq Written(s)
    BY <2>1, <2>2, <2>3, <2>6 DEF Written
  <2> QED
    BY <2>5, <2>7
<1>3. ASSUME NEW S, NEW s \in Seq(S), NEW x \in S
      PROVE  Written(Append(s, x)) = Written(s) \cup {x}
  <2>1. /\ Len(s) \in Nat /\ DOMAIN s = 1..Len(s)
        /\ DOMAIN Append(s, x) = 1..Len(s) + 1
        /\ Append(s, x)[Len(s) + 1] = x
        /\ \A i \in 1..Len(s) : Append(s, x)[i] = s[i]
    OBVIOUS
  <2>2. \A i : i \in 1..Len(s) + 1 <=> i \in 1..Len(s) \/ i = Len(s) + 1
    BY <2>1
  <2> QED
    BY <2>1, <2>2 DEF Written
<1> QED
  BY <1>1, <1>2, <1>3

-----------------------------------------------------------------------------
(* What is invariant.                                                        *)

\* The calls of the j-th checker are those from at[j] to before at[j + 1].
Ladder(at, m, n) ==
    /\ m \in Nat /\ n \in Nat /\ at[m + 1] = n + 1 /\ at[1] \in 1..n + 1
    /\ \A j \in 1..m : at[j] \in 1..n
    /\ \A i, j \in 1..m + 1 : i < j => at[i] < at[j]

\* A call is about a file that the main file leads to, and follows what is there.
Reading(d, cs, n) ==
    \A p \in 1..n :
        /\ cs[p].file \in Files /\ cs[p].src = d[cs[p].file]
        /\ cs[p].src.fault \in {"none", "type"}
        /\ Written(cs[p].uses) \subseteq Written(cs[p].src.uses)
        /\ IF cs[p].k \in {"run", "main"} THEN cs[p].file = Main ELSE cs[p].file \in ReachIn(d)

\* Each call of a checker leads to the calls inside it.
Chain(d, cs, at, n) ==
    \A p, q \in 1..n : at[1] <= p /\ p < q => cs[q].file \in LeadsIn(d, d[cs[p].file])

\* The files that the evaluator is loading lead to the one on top.
Inside(d, cs, n) ==
    \A p \in 1..n : \A f \in Written(cs[p].loading) :
        cs[p].file = f \/ cs[p].file \in LeadsIn(d, d[f])

\* No diagnostic without a fault in a file.
Blamed(d, ks, m) ==
    \A j \in 1..m : /\ ks[j].diags # {} => WrongIn(d)
                    /\ "E0030" \in ks[j].diags => CyclicIn(d)

Sound(d, cs, ks, at, m, n) ==
    Reading(d, cs, n) /\ Chain(d, cs, at, n) /\ Inside(d, cs, n) /\ Blamed(d, ks, m)

\* A checker, or one around it, has reported a cycle.
Reported(ks, j) == \E k \in 1..j : "E0030" \in ks[k].diags

\* The files a checker knows open no others, and do not go round.
Rooted(d, ks, m) ==
    \A j \in 1..m : ~Reported(ks, j) =>
        ClosedIn(d, DOMAIN ks[j].cache) /\ Grounded(d, DOMAIN ks[j].cache)

\* What a call of a checker can open is still to be followed, or known to the checker,
\* or open in the next call.
Frontier(d, cs, ks, at, m) ==
    \A j \in 1..m : ~Reported(ks, j) =>
        \A p \in at[j]..(at[j + 1] - 1) : \A u \in Written(cs[p].src.uses) : CanOpen(d, u) =>
            \/ u \in Written(cs[p].uses)
            \/ u.name \in DOMAIN ks[j].cache
            \/ p + 1 < at[j + 1] /\ cs[p + 1].file = u.name

\* The file that a checker checks is known to the one around it.
Opened(cs, ks, at, m) == \A j \in 2..m : cs[at[j]].file \in DOMAIN ks[j - 1].cache

\* The first checker has a diagnostic, or has yet to follow every import it will refuse,
\* and has yet to hear of every file it knows that has an error in it.
Silent(d, cs, ks, at, m) ==
    m >= 1 /\ ks[1].diags = {} =>
        /\ \A f \in DOMAIN ks[1].cache : /\ \A u \in Written(d[f].uses) : ~CannotOpen(d, u)
                                         /\ d[f].fault = "type" => m >= 2 /\ cs[at[2]].file = f
        /\ \A p \in at[1]..(at[2] - 1) : \A u \in Written(cs[p].src.uses) :
              CannotOpen(d, u) => u \in Written(cs[p].uses)

\* An interface without its lets is that of a file that is being checked.
Unlet(cs, ks, at, m) ==
    \A j \in 1..m : \A f \in DOMAIN ks[j].cache : ~ks[j].cache[f].lets =>
        \E k \in 2..m : k <= j + 1 /\ cs[at[k]].file = f

Thorough(d, cs, ks, at, m) ==
    /\ Rooted(d, ks, m) /\ Frontier(d, cs, ks, at, m) /\ Opened(cs, ks, at, m)
    /\ Silent(d, cs, ks, at, m) /\ Unlet(cs, ks, at, m)

-----------------------------------------------------------------------------
(* What a step does to the calls and the checkers.                           *)

\* The call on top has followed an import.
Advance(u, cs, n, cs1) ==
    /\ n >= 1
    /\ \A p \in 1..n : SameCall(cs1[p], cs[p]) /\ (p # n => cs1[p] = cs[p])
    /\ Written(cs[n].uses) = {u} \cup Written(cs1[n].uses)

\* A call that has just been made.
Called(c, k, f, src) == c.k = k /\ c.file = f /\ c.src = src /\ c.uses = src.uses

Passes(d, u, cs, ks, at, m, n, cs1, ks1) ==
    /\ Advance(u, cs, n, cs1)
    /\ \A j \in 1..m : ks1[j].cache = ks[j].cache
    /\ \/ /\ \A j \in 1..m : ks1[j].diags = ks[j].diags
          /\ \/ u.form = "std" \/ m = 0
             \/ ~CannotOpen(d, u) /\ u.name \in DOMAIN ks[m].cache
       \/ /\ m >= 1
          /\ \A j \in 1..m : j # m => ks1[j].diags = ks[j].diags
          /\ \E code : /\ ks1[m].diags = ks[m].diags \cup {code}
                       /\ \/ /\ code = "E0030" /\ u.form # "std"
                             /\ \E p \in at[1]..n : cs[p].k = "interface" /\ cs[p].file = u.name
                          \/ code \in {"E0032", "E0033"} /\ CannotOpen(d, u)

OpensOne(d, u, cs, ks, at, m, n, cs1, ks1, bt) ==
    /\ Advance(u, cs, n, cs1) /\ CanOpen(d, u) /\ m >= 1
    /\ Called(cs1[n + 1], "interface", u.name, d[u.name]) /\ cs1[n + 1].loading = <<>>
    /\ \A j \in 1..m : /\ ks1[j].cache = ks[j].cache /\ ks1[j].diags = ks[j].diags
                       /\ bt[j] = at[j]
    /\ bt[m + 1] = n + 2

ClosesOne(cs, ks, at, m, n, cs1, ks1, bt) ==
    /\ m >= 1 /\ at[m] < n
    /\ cs[n].uses = <<>> /\ cs[n].k = "interface"
    /\ Called(cs1[n], "import", cs[n].file, cs[n].src) /\ cs1[n].loading = <<>>
    /\ \A p \in 1..n : p # n => cs1[p] = cs[p]
    /\ \A j \in 1..m : (j # m => ks1[j] = ks[j]) /\ bt[j] = at[j]
    /\ ks1[m].diags = ks[m].diags /\ ks1[m + 1].diags = {}
    /\ ks1[m + 1].cache = ks1[m].cache
    /\ DOMAIN ks1[m].cache = DOMAIN ks[m].cache \cup {cs[n].file}
    /\ \A f \in DOMAIN ks[m].cache : f # cs[n].file => ks1[m].cache[f] = ks[m].cache[f]
    /\ bt[m + 1] = n /\ bt[m + 2] = n + 1

EndsOne(cs, ks, at, m, n, cs1, ks1, bt) ==
    /\ m >= 2 /\ at[m] = n
    /\ \A p \in 1..n - 1 : cs1[p] = cs[p]
    /\ \A j \in 1..m - 2 : ks1[j] = ks[j]
    /\ \A j \in 1..m : bt[j] = at[j]
    /\ DOMAIN ks1[m - 1].cache = DOMAIN ks[m - 1].cache \cup {cs[n].file}
    /\ ks1[m - 1].cache[cs[n].file].lets
    /\ \A f \in DOMAIN ks[m - 1].cache :
          f # cs[n].file => ks1[m - 1].cache[f] = ks[m - 1].cache[f]
    /\ \/ /\ ks1[m - 1].diags = ks[m - 1].diags
          /\ cs[n].src.fault # "type"
       \/ /\ ks1[m - 1].diags = ks[m - 1].diags \cup {"E0033"}
          /\ ks[m].diags # {} \/ cs[n].src.fault = "type"

LoadsOne(d, u, cs, at, m, n, cs1, ks1, bt) ==
    /\ Advance(u, cs, n, cs1) /\ CanOpen(d, u) /\ m = 0
    /\ Called(cs1[n + 1], "load", u.name, d[u.name])
    /\ Written(cs1[n + 1].loading) = Written(cs[n].loading) \cup {u.name}
    /\ Called(cs1[n + 2], "module", u.name, d[u.name]) /\ cs1[n + 2].loading = <<>>
    /\ DOMAIN ks1[1].cache = {} /\ ks1[1].diags = {}
    /\ bt[1] = n + 2 /\ bt[2] = n + 3

-----------------------------------------------------------------------------
(* No diagnostic without a fault.                                            *)

\* What a call imports is reached from the main file, and what is wrong with it counts.
LEMMA ReadingFacts ==
    ASSUME NEW d, NEW cs, NEW n, Reading(d, cs, n), NEW p \in 1..n
    PROVE  /\ OpensIn(d, d[cs[p].file]) \subseteq ReachIn(d)
           /\ \A u \in Written(cs[p].src.uses) :
                 /\ CanOpen(d, u) => u.name \in OpensIn(d, d[cs[p].file])
                 /\ CannotOpen(d, u) => WrongIn(d)
           /\ cs[p].src.fault = "type" => WrongIn(d)
<1>1. cs[p].src = d[cs[p].file] /\ (cs[p].file = Main \/ cs[p].file \in ReachIn(d))
  BY DEF Reading
<1>2. OpensIn(d, d[cs[p].file]) \subseteq ReachIn(d)
  BY <1>1, LeadsOn, LeadsClosed DEF ReachIn
<1>3. ASSUME NEW u \in Written(cs[p].src.uses), CanOpen(d, u)
      PROVE  u.name \in OpensIn(d, d[cs[p].file])
  BY <1>1, <1>3 DEF OpensIn, CanOpen
<1>4. ASSUME NEW u \in Written(cs[p].src.uses), CannotOpen(d, u)
      PROVE  WrongIn(d)
  BY <1>1, <1>4 DEF WrongIn
<1>5. ASSUME cs[p].src.fault = "type"
      PROVE  WrongIn(d)
  BY <1>1, <1>5 DEF WrongIn
<1> QED
  BY <1>2, <1>3, <1>4, <1>5

\* An import followed changes nothing that the calls are about.
LEMMA AdvanceSound ==
    ASSUME NEW d, NEW u, NEW cs, NEW n \in Nat, NEW cs1, Advance(u, cs, n, cs1),
           Reading(d, cs, n), Inside(d, cs, n)
    PROVE  /\ n \in 1..n /\ u \in Written(cs[n].src.uses)
           /\ \A p \in 1..n : cs1[p].file = cs[p].file
           /\ Reading(d, cs1, n) /\ Inside(d, cs1, n)
<1>1. n \in 1..n
  BY DEF Advance
<1>2. u \in Written(cs[n].src.uses) /\ Written(cs1[n].uses) \subseteq Written(cs[n].uses)
  <2>1. Written(cs[n].uses) \subseteq Written(cs[n].src.uses)
    BY <1>1 DEF Reading
  <2> QED
    BY <2>1 DEF Advance
<1>3. \A p \in 1..n : /\ cs1[p].k = cs[p].k /\ cs1[p].file = cs[p].file /\ cs1[p].src = cs[p].src
                      /\ cs1[p].loading = cs[p].loading
                      /\ Written(cs1[p].uses) \subseteq Written(cs[p].uses)
  BY <1>2 DEF Advance, SameCall
<1>4. Reading(d, cs1, n)
  BY <1>3 DEF Reading
<1>5. Inside(d, cs1, n)
  BY <1>3 DEF Inside
<1> QED
  BY <1>1, <1>2, <1>3, <1>4, <1>5

\* A file that a call can open is one the calls around it lead to.
LEMMA ChainOpen ==
    ASSUME NEW d, NEW cs, NEW at, NEW n \in Nat, Reading(d, cs, n), Chain(d, cs, at, n),
           n \in 1..n, NEW f \in OpensIn(d, d[cs[n].file]),
           NEW p \in 1..n, at[1] <= p
    PROVE  f \in LeadsIn(d, d[cs[p].file])
<1>1. CASE p = n
  BY <1>1, LeadsClosed
<1>2. CASE p # n
  <2>1. cs[n].file \in LeadsIn(d, d[cs[p].file])
    BY <1>2 DEF Chain
  <2> QED
    BY <2>1, LeadsOn
<1> QED
  BY <1>1, <1>2

\* A refused import is unreadable, ill-formed or part of a cycle.
LEMMA PassSound ==
    ASSUME NEW d, NEW u, NEW cs, NEW ks, NEW at, NEW m \in Nat, NEW n \in Nat, NEW cs1, NEW ks1,
           Ladder(at, m, n), Sound(d, cs, ks, at, m, n), Passes(d, u, cs, ks, at, m, n, cs1, ks1)
    PROVE  Sound(d, cs1, ks1, at, m, n)
<1>1. Reading(d, cs, n) /\ Chain(d, cs, at, n) /\ Inside(d, cs, n) /\ Blamed(d, ks, m)
  BY DEF Sound
<1>2. /\ n \in 1..n /\ u \in Written(cs[n].src.uses)
      /\ \A p \in 1..n : cs1[p].file = cs[p].file
      /\ Reading(d, cs1, n) /\ Inside(d, cs1, n)
  BY <1>1, AdvanceSound DEF Passes
<1>3. Chain(d, cs1, at, n)
  BY <1>1, <1>2 DEF Chain
<1>4. Blamed(d, ks1, m)
  <2>1. CASE \A j \in 1..m : ks1[j].diags = ks[j].diags
    BY <1>1, <2>1 DEF Blamed
  <2>2. ASSUME m >= 1, \A j \in 1..m : j # m => ks1[j].diags = ks[j].diags,
               NEW code, ks1[m].diags = ks[m].diags \cup {code},
               \/ /\ code = "E0030" /\ u.form # "std"
                  /\ \E p \in at[1]..n : cs[p].k = "interface" /\ cs[p].file = u.name
               \/ code \in {"E0032", "E0033"} /\ CannotOpen(d, u)
        PROVE  Blamed(d, ks1, m)
    <3>1. WrongIn(d) /\ (code = "E0030" => CyclicIn(d))
      <4>1. CASE code \in {"E0032", "E0033"} /\ CannotOpen(d, u)
        BY <1>1, <1>2, <4>1, ReadingFacts
      <4>2. CASE code = "E0030" /\ u.form # "std"
        <5>1. PICK p \in at[1]..n : cs[p].k = "interface" /\ cs[p].file = u.name
          BY <2>2, <4>2
        <5>2. p \in 1..n /\ at[1] <= p
          BY DEF Ladder
        <5>3. /\ cs[p].file \in Files /\ cs[p].file \in ReachIn(d)
              /\ d[cs[p].file].fault \in {"none", "type"}
          BY <1>1, <5>1, <5>2 DEF Reading
        <5>4. u.name \in OpensIn(d, d[cs[n].file])
          BY <1>1, <1>2, <4>2, <5>1, <5>3, ReadingFacts DEF CanOpen
        <5>5. u.name \in LeadsIn(d, d[u.name])
          BY <1>1, <1>2, <5>1, <5>2, <5>4, ChainOpen
        <5>6. CyclicIn(d)
          BY <5>1, <5>3, <5>5 DEF CyclicIn
        <5> QED
          BY <5>6 DEF WrongIn
      <4> QED
        BY <2>2, <4>1, <4>2
    <3>2. ASSUME NEW j \in 1..m, j # m
          PROVE  /\ ks1[j].diags # {} => WrongIn(d)
                 /\ "E0030" \in ks1[j].diags => CyclicIn(d)
      BY <1>1, <2>2, <3>2 DEF Blamed
    <3>3. /\ ks1[m].diags # {} => WrongIn(d)
          /\ "E0030" \in ks1[m].diags => CyclicIn(d)
      BY <1>1, <2>2, <3>1 DEF Blamed
    <3> QED
      BY <3>2, <3>3 DEF Blamed
  <2> QED
    BY <2>1, <2>2 DEF Passes
<1> QED
  BY <1>2, <1>3, <1>4 DEF Sound

\* A file that is opened is one that the calls around it lead to.
LEMMA OpenSound ==
    ASSUME NEW d, NEW u, NEW cs, NEW ks, NEW at, NEW m \in Nat, NEW n \in Nat,
           NEW cs1, NEW ks1, NEW bt, Ladder(at, m, n), Sound(d, cs, ks, at, m, n),
           OpensOne(d, u, cs, ks, at, m, n, cs1, ks1, bt)
    PROVE  Sound(d, cs1, ks1, bt, m, n + 1)
<1>1. Reading(d, cs, n) /\ Chain(d, cs, at, n) /\ Inside(d, cs, n) /\ Blamed(d, ks, m)
  BY DEF Sound
<1>2. /\ n \in 1..n /\ u \in Written(cs[n].src.uses)
      /\ \A p \in 1..n : cs1[p].file = cs[p].file
      /\ Reading(d, cs1, n) /\ Inside(d, cs1, n)
  BY <1>1, AdvanceSound DEF OpensOne
<1>3. \A p \in 1..n + 1 : p \in 1..n \/ p = n + 1
  OBVIOUS
<1>4. /\ CanOpen(d, u) /\ u.name \in OpensIn(d, d[cs[n].file]) /\ u.name \in ReachIn(d)
      /\ Called(cs1[n + 1], "interface", u.name, d[u.name]) /\ cs1[n + 1].loading = <<>>
  BY <1>1, <1>2, ReadingFacts DEF OpensOne
<1>5. Reading(d, cs1, n + 1)
  <2>1. /\ cs1[n + 1].file \in Files /\ cs1[n + 1].src = d[cs1[n + 1].file]
        /\ cs1[n + 1].src.fault \in {"none", "type"}
        /\ Written(cs1[n + 1].uses) \subseteq Written(cs1[n + 1].src.uses)
        /\ cs1[n + 1].k = "interface" /\ cs1[n + 1].file \in ReachIn(d)
    BY <1>4 DEF Called, CanOpen
  <2> QED
    BY <1>2, <1>3, <2>1 DEF Reading
<1>6. bt[1] = at[1]
  <2>1. 1 \in 1..m
    BY DEF OpensOne
  <2> QED
    BY <2>1 DEF OpensOne
<1>7. Chain(d, cs1, bt, n + 1)
  <2>1. ASSUME NEW p \in 1..n + 1, NEW q \in 1..n + 1, at[1] <= p, p < q
        PROVE  cs1[q].file \in LeadsIn(d, d[cs1[p].file])
    <3>1. p \in 1..n
      BY <2>1
    <3>2. CASE q = n + 1
      BY <1>1, <1>2, <1>4, <2>1, <3>1, <3>2, ChainOpen DEF Called
    <3>3. CASE q \in 1..n
      BY <1>1, <1>2, <2>1, <3>1, <3>3 DEF Chain
    <3> QED
      BY <1>3, <3>2, <3>3
  <2> QED
    BY <1>6, <2>1 DEF Chain
<1>8. Inside(d, cs1, n + 1)
  <2>1. Written(cs1[n + 1].loading) = {}
    BY <1>4, WrittenFacts
  <2> QED
    BY <1>2, <1>3, <2>1 DEF Inside
<1>9. Blamed(d, ks1, m)
  BY <1>1 DEF Blamed, OpensOne
<1> QED
  BY <1>5, <1>7, <1>8, <1>9 DEF Sound

\* A checker begins without a diagnostic.
LEMMA CloseSound ==
    ASSUME NEW d, NEW cs, NEW ks, NEW at, NEW m \in Nat, NEW n \in Nat,
           NEW cs1, NEW ks1, NEW bt, Ladder(at, m, n), Sound(d, cs, ks, at, m, n),
           ClosesOne(cs, ks, at, m, n, cs1, ks1, bt)
    PROVE  Sound(d, cs1, ks1, bt, m + 1, n)
<1>1. Reading(d, cs, n) /\ Chain(d, cs, at, n) /\ Inside(d, cs, n) /\ Blamed(d, ks, m)
  BY DEF Sound
<1>2. /\ m \in 1..m /\ 1 \in 1..m /\ n \in 1..n /\ bt[1] = at[1]
      /\ Called(cs1[n], "import", cs[n].file, cs[n].src) /\ cs1[n].loading = <<>>
      /\ \A p \in 1..n : p # n => cs1[p] = cs[p]
  BY DEF Ladder, ClosesOne
<1>3. \A p \in 1..n : cs1[p].file = cs[p].file /\ cs1[p].src = cs[p].src
  BY <1>2 DEF Called
<1>4. Reading(d, cs1, n)
  <2>1. cs[n].k = "interface"
    BY DEF ClosesOne
  <2>2. cs[n].file \in ReachIn(d)
    BY <1>1, <1>2, <2>1 DEF Reading
  <2>3. cs1[n].k = "import" /\ Written(cs1[n].uses) \subseteq Written(cs1[n].src.uses)
    BY <1>2 DEF Called
  <2> QED
    BY <1>1, <1>2, <1>3, <2>2, <2>3 DEF Reading
<1>5. Chain(d, cs1, bt, n)
  BY <1>1, <1>2, <1>3 DEF Chain
<1>6. Inside(d, cs1, n)
  <2>1. Written(cs1[n].loading) = {}
    BY <1>2, WrittenFacts
  <2> QED
    BY <1>1, <1>2, <2>1 DEF Inside
<1>7. Blamed(d, ks1, m + 1)
  <2>1. \A j \in 1..m + 1 : j \in 1..m \/ j = m + 1
    OBVIOUS
  <2>2. \A j \in 1..m : ks1[j].diags = ks[j].diags
    BY DEF ClosesOne
  <2>3. ks1[m + 1].diags = {}
    BY DEF ClosesOne
  <2> QED
    BY <1>1, <2>1, <2>2, <2>3 DEF Blamed
<1> QED
  BY <1>4, <1>5, <1>6, <1>7 DEF Sound

\* Calls that are gone leave the others as they are.
LEMMA FewerSound ==
    ASSUME NEW d, NEW cs, NEW n \in Nat, NEW cs1, NEW at, NEW bt,
           \A p \in 1..n - 1 : cs1[p] = cs[p],
           Reading(d, cs, n), Chain(d, cs, at, n), Inside(d, cs, n), bt[1] = at[1] \/ bt[1] = n
    PROVE  Reading(d, cs1, n - 1) /\ Chain(d, cs1, bt, n - 1) /\ Inside(d, cs1, n - 1)
<1>1. \A p \in 1..n - 1 : p \in 1..n /\ ~(n <= p) /\ cs1[p] = cs[p]
  OBVIOUS
<1>2. Reading(d, cs1, n - 1)
  BY <1>1 DEF Reading
<1>3. Chain(d, cs1, bt, n - 1)
  BY <1>1 DEF Chain
<1>4. Inside(d, cs1, n - 1)
  BY <1>1 DEF Inside
<1> QED
  BY <1>2, <1>3, <1>4

\* A checker reports an imported file only if something is wrong with it.
LEMMA CheckedSound ==
    ASSUME NEW d, NEW cs, NEW ks, NEW at, NEW m \in Nat, NEW n \in Nat,
           NEW cs1, NEW ks1, NEW bt, Ladder(at, m, n), Sound(d, cs, ks, at, m, n),
           EndsOne(cs, ks, at, m, n, cs1, ks1, bt)
    PROVE  Sound(d, cs1, ks1, bt, m - 1, n - 1)
<1>1. Reading(d, cs, n) /\ Chain(d, cs, at, n) /\ Inside(d, cs, n) /\ Blamed(d, ks, m)
  BY DEF Sound
<1>2. m >= 2 /\ m \in 1..m /\ m - 1 \in 1..m /\ 1 \in 1..m /\ bt[1] = at[1] /\ n \in 1..n
  BY DEF EndsOne, Ladder
<1>3. Reading(d, cs1, n - 1) /\ Chain(d, cs1, bt, n - 1) /\ Inside(d, cs1, n - 1)
  <2>1. \A p \in 1..n - 1 : cs1[p] = cs[p]
    BY DEF EndsOne
  <2> QED
    BY <1>1, <1>2, <2>1, FewerSound
<1>4. Blamed(d, ks1, m - 1)
  <2>1. \A j \in 1..m - 1 : j \in 1..m /\ (j \in 1..m - 2 \/ j = m - 1)
    BY <1>2
  <2>2. ASSUME ks[m].diags # {} \/ cs[n].src.fault = "type"
        PROVE  WrongIn(d)
    BY <1>1, <1>2, <2>2, ReadingFacts DEF Blamed
  <2>3. /\ ks1[m - 1].diags # {} => WrongIn(d)
        /\ "E0030" \in ks1[m - 1].diags => CyclicIn(d)
    <3>1. /\ ks[m - 1].diags # {} => WrongIn(d)
          /\ "E0030" \in ks[m - 1].diags => CyclicIn(d)
      BY <1>1, <1>2 DEF Blamed
    <3>2. \/ ks1[m - 1].diags = ks[m - 1].diags
          \/ /\ ks1[m - 1].diags = ks[m - 1].diags \cup {"E0033"}
             /\ ks[m].diags # {} \/ cs[n].src.fault = "type"
      BY DEF EndsOne
    <3> QED
      BY <2>2, <3>1, <3>2
  <2>4. \A j \in 1..m - 2 : ks1[j] = ks[j]
    BY DEF EndsOne
  <2> QED
    BY <1>1, <2>1, <2>3, <2>4 DEF Blamed
<1> QED
  BY <1>3, <1>4 DEF Sound

\* A file that the evaluator loads is one that the files it is loading lead to.
LEMMA LoadSound ==
    ASSUME NEW d, NEW u, NEW cs, NEW ks, NEW at, NEW m \in Nat, NEW n \in Nat,
           NEW cs1, NEW ks1, NEW bt, Ladder(at, m, n), Sound(d, cs, ks, at, m, n),
           LoadsOne(d, u, cs, at, m, n, cs1, ks1, bt)
    PROVE  Sound(d, cs1, ks1, bt, 1, n + 2)
<1>1. Reading(d, cs, n) /\ Inside(d, cs, n)
  BY DEF Sound
<1>2. /\ n \in 1..n /\ u \in Written(cs[n].src.uses)
      /\ \A p \in 1..n : cs1[p].file = cs[p].file
      /\ Reading(d, cs1, n) /\ Inside(d, cs1, n)
  BY <1>1, AdvanceSound DEF LoadsOne
<1>3. \A p \in 1..n + 2 : p \in 1..n \/ p = n + 1 \/ p = n + 2
  OBVIOUS
<1>4. /\ CanOpen(d, u) /\ u.name \in OpensIn(d, d[cs[n].file]) /\ u.name \in ReachIn(d)
      /\ Called(cs1[n + 1], "load", u.name, d[u.name])
      /\ Called(cs1[n + 2], "module", u.name, d[u.name])
  BY <1>1, <1>2, ReadingFacts DEF LoadsOne
<1>5. Reading(d, cs1, n + 2)
  <2>1. ASSUME NEW p \in {n + 1, n + 2}
        PROVE  /\ cs1[p].file \in Files /\ cs1[p].src = d[cs1[p].file]
               /\ cs1[p].src.fault \in {"none", "type"}
               /\ Written(cs1[p].uses) \subseteq Written(cs1[p].src.uses)
               /\ cs1[p].k \in {"load", "module"} /\ cs1[p].file \in ReachIn(d)
    BY <1>4 DEF Called, CanOpen
  <2> QED
    BY <1>2, <1>3, <2>1 DEF Reading
<1>6. Chain(d, cs1, bt, n + 2)
  <2>1. bt[1] = n + 2
    BY DEF LoadsOne
  <2>2. \A p, q \in 1..n + 2 : ~(n + 2 <= p /\ p < q)
    OBVIOUS
  <2> QED
    BY <2>1, <2>2 DEF Chain
<1>7. Inside(d, cs1, n + 2)
  <2>1. ASSUME NEW f \in Written(cs1[n + 1].loading)
        PROVE  cs1[n + 1].file = f \/ cs1[n + 1].file \in LeadsIn(d, d[f])
    <3>1. cs1[n + 1].file = u.name
      BY <1>4 DEF Called
    <3>2. f = u.name \/ f \in Written(cs[n].loading)
      BY DEF LoadsOne
    <3>3. ASSUME f \in Written(cs[n].loading)
          PROVE  u.name \in LeadsIn(d, d[f])
      <4>1. cs[n].file = f \/ cs[n].file \in LeadsIn(d, d[f])
        BY <1>1, <1>2, <3>3 DEF Inside
      <4> QED
        BY <1>4, <4>1, LeadsClosed, LeadsOn
    <3> QED
      BY <3>1, <3>2, <3>3
  <2>2. Written(cs1[n + 2].loading) = {}
    BY WrittenFacts DEF LoadsOne
  <2> QED
    BY <1>2, <1>3, <2>1, <2>2 DEF Inside
<1>8. Blamed(d, ks1, 1)
  <2>1. ks1[1].diags = {}
    BY DEF LoadsOne
  <2>2. \A j \in 1..1 : j = 1
    OBVIOUS
  <2> QED
    BY <2>1, <2>2 DEF Blamed
<1> QED
  BY <1>5, <1>6, <1>7, <1>8 DEF Sound

-----------------------------------------------------------------------------
(* Every fault has a diagnostic.                                             *)

\* The places of the calls.
LEMMA LadderFacts ==
    ASSUME NEW at, NEW m \in Nat, NEW n \in Nat, Ladder(at, m, n)
    PROVE  \A j \in 1..m :
              /\ j + 1 \in 1..m + 1 /\ at[j] \in 1..n /\ at[j + 1] \in 1..n + 1
              /\ at[j] < at[j + 1]
              /\ j # m => at[j + 1] \in 1..n /\ at[j + 1] <= at[m] /\ j + 1 \in 1..m
              /\ \A p \in at[j]..(at[j + 1] - 1) : p \in 1..n /\ (j # m => p < at[m])
<1>1. ASSUME NEW j \in 1..m
      PROVE  /\ j + 1 \in 1..m + 1 /\ j \in 1..m + 1 /\ m \in 1..m + 1 /\ m + 1 \in 1..m + 1
             /\ j # m => j + 1 \in 1..m /\ (j + 1 = m \/ j + 1 < m)
             /\ m \in 1..m
  OBVIOUS
<1>2. /\ at[m + 1] = n + 1 /\ \A j \in 1..m : at[j] \in 1..n
      /\ \A i, j \in 1..m + 1 : i < j => at[i] < at[j]
  BY DEF Ladder
<1> SUFFICES ASSUME NEW j \in 1..m
             PROVE  /\ j + 1 \in 1..m + 1 /\ at[j] \in 1..n /\ at[j + 1] \in 1..n + 1
                    /\ at[j] < at[j + 1]
                    /\ j # m => at[j + 1] \in 1..n /\ at[j + 1] <= at[m] /\ j + 1 \in 1..m
                    /\ \A p \in at[j]..(at[j + 1] - 1) : p \in 1..n /\ (j # m => p < at[m])
  OBVIOUS
<1>3. j + 1 \in 1..m + 1 /\ at[j] \in 1..n /\ at[j] < at[j + 1]
  <2>1. j < j + 1
    OBVIOUS
  <2> QED
    BY <1>1, <1>2, <2>1
<1>4. at[j + 1] \in 1..n + 1 /\ (j # m => at[j + 1] \in 1..n /\ j + 1 \in 1..m)
  <2>1. CASE j = m
    BY <1>2, <2>1
  <2>2. CASE j # m
    <3>1. j + 1 \in 1..m
      BY <1>1, <2>2
    <3>2. at[j + 1] \in 1..n
      BY <1>2, <3>1
    <3> QED
      BY <3>1, <3>2
  <2> QED
    BY <2>1, <2>2
<1>5. j # m => at[j + 1] <= at[m]
  <2>1. ASSUME j + 1 < m, j # m
        PROVE  at[j + 1] < at[m]
    BY <1>1, <1>2, <2>1
  <2>2. at[m] \in 1..n
    BY <1>1, <1>2
  <2> QED
    BY <1>1, <1>4, <2>1, <2>2
<1>6. \A p \in at[j]..(at[j + 1] - 1) : p \in 1..n /\ (j # m => p < at[m])
  <2>1. at[m] \in 1..n
    BY <1>1, <1>2
  <2> QED
    BY <1>3, <1>4, <1>5, <2>1
<1> QED
  BY <1>3, <1>4, <1>5, <1>6

\* An import that is passed is known to the checker, or it has a diagnostic.
LEMMA PassThorough ==
    ASSUME NEW d, NEW u, NEW cs, NEW ks, NEW at, NEW m \in Nat, NEW n \in Nat, NEW cs1, NEW ks1,
           Ladder(at, m, n), Thorough(d, cs, ks, at, m),
           Passes(d, u, cs, ks, at, m, n, cs1, ks1)
    PROVE  Thorough(d, cs1, ks1, at, m)
<1>1. /\ Rooted(d, ks, m) /\ Frontier(d, cs, ks, at, m) /\ Opened(cs, ks, at, m)
      /\ Silent(d, cs, ks, at, m) /\ Unlet(cs, ks, at, m)
  BY DEF Thorough
<1>2. /\ n \in 1..n
      /\ \A p \in 1..n : cs1[p].file = cs[p].file /\ cs1[p].src = cs[p].src
      /\ \A p \in 1..n : p # n => cs1[p] = cs[p]
      /\ Written(cs[n].uses) = {u} \cup Written(cs1[n].uses)
  BY DEF Passes, Advance, SameCall
<1>3. \A j \in 1..m : ks1[j].cache = ks[j].cache
  BY DEF Passes
<1>4. \A j \in 1..m : ks[j].diags \subseteq ks1[j].diags
  BY DEF Passes
<1>5. \A j \in 1..m : Reported(ks, j) => Reported(ks1, j)
  BY <1>4 DEF Reported
<1>6. \/ u.form = "std" \/ m = 0
      \/ ~CannotOpen(d, u) /\ u.name \in DOMAIN ks[m].cache
      \/ m >= 1 /\ "E0030" \in ks1[m].diags
      \/ m >= 1 /\ ks1[m].diags # {} /\ CannotOpen(d, u)
  BY DEF Passes
<1>7. ASSUME NEW j \in 1..m
      PROVE  /\ at[j] \in 1..n
             /\ j # m => at[j + 1] \in 1..n /\ j + 1 \in 1..m
             /\ \A p \in at[j]..(at[j + 1] - 1) : p \in 1..n /\ (p = n => j = m)
  <2>1. at[m] \in 1..n
    BY DEF Ladder
  <2> QED
    BY <2>1, LadderFacts
<1>8. Rooted(d, ks1, m)
  BY <1>1, <1>3, <1>5 DEF Rooted
<1>9. Frontier(d, cs1, ks1, at, m)
  <2>1. SUFFICES ASSUME NEW j \in 1..m, ~Reported(ks1, j), NEW p \in at[j]..(at[j + 1] - 1),
                        NEW v \in Written(cs1[p].src.uses), CanOpen(d, v)
                 PROVE  \/ v \in Written(cs1[p].uses)
                        \/ v.name \in DOMAIN ks1[j].cache
                        \/ p + 1 < at[j + 1] /\ cs1[p + 1].file = v.name
    BY DEF Frontier
  <2>2. p \in 1..n /\ (p = n => j = m) /\ v \in Written(cs[p].src.uses) /\ ~Reported(ks, j)
    BY <1>2, <1>5, <1>7, <2>1
  <2>3. \/ v \in Written(cs[p].uses)
        \/ v.name \in DOMAIN ks[j].cache
        \/ p + 1 < at[j + 1] /\ cs[p + 1].file = v.name
    BY <1>1, <2>1, <2>2 DEF Frontier
  <2>4. CASE p + 1 < at[j + 1] /\ cs[p + 1].file = v.name
    <3>1. p + 1 \in at[j]..(at[j + 1] - 1)
      <4>1. at[j] \in Nat /\ p \in Nat /\ at[j + 1] \in Int
        BY <1>7, <2>2, LadderFacts
      <4> QED
        BY <2>4, <4>1
    <3>2. p + 1 \in 1..n
      BY <1>7, <3>1
    <3> QED
      BY <1>2, <2>4, <3>2
  <2>5. CASE v \in Written(cs[p].uses) /\ p # n
    BY <1>2, <2>2, <2>5
  <2>6. CASE v \in Written(cs[p].uses) /\ p = n /\ v = u
    <3>1. j = m /\ m >= 1 /\ "E0030" \notin ks1[m].diags
      BY <2>1, <2>2, <2>6 DEF Reported
    <3>2. u.form # "std" /\ ~CannotOpen(d, u)
      BY <2>1, <2>6 DEF CanOpen, CannotOpen
    <3>3. u.name \in DOMAIN ks[m].cache
      BY <1>6, <3>1, <3>2
    <3> QED
      BY <1>3, <2>6, <3>1, <3>3
  <2>7. CASE v \in Written(cs[p].uses) /\ p = n /\ v # u
    BY <1>2, <2>7
  <2> QED
    BY <1>3, <2>3, <2>4, <2>5, <2>6, <2>7
<1>10. Opened(cs1, ks1, at, m)
  <2>1. \A j \in 2..m : j \in 1..m /\ j - 1 \in 1..m
    OBVIOUS
  <2> QED
    BY <1>1, <1>2, <1>3, <1>7, <2>1 DEF Opened
<1>11. Silent(d, cs1, ks1, at, m)
  <2>1. SUFFICES ASSUME m >= 1, ks1[1].diags = {}
                 PROVE  /\ \A f \in DOMAIN ks1[1].cache :
                              /\ \A v \in Written(d[f].uses) : ~CannotOpen(d, v)
                              /\ d[f].fault = "type" => m >= 2 /\ cs1[at[2]].file = f
                        /\ \A p \in at[1]..(at[2] - 1) : \A v \in Written(cs1[p].src.uses) :
                              CannotOpen(d, v) => v \in Written(cs1[p].uses)
    BY DEF Silent
  <2>2. 1 \in 1..m /\ ks[1].diags = {} /\ ks1[1].cache = ks[1].cache
    BY <1>3, <1>4, <2>1
  <2>3. m >= 2 => cs1[at[2]].file = cs[at[2]].file
    <3>1. m >= 2 => 2 \in 1..m
      OBVIOUS
    <3> QED
      BY <1>2, <1>7, <3>1
  <2>4. \A f \in DOMAIN ks1[1].cache :
            /\ \A v \in Written(d[f].uses) : ~CannotOpen(d, v)
            /\ d[f].fault = "type" => m >= 2 /\ cs1[at[2]].file = f
    BY <1>1, <2>1, <2>2, <2>3 DEF Silent
  <2>5. ASSUME NEW p \in at[1]..(at[2] - 1), NEW v \in Written(cs1[p].src.uses), CannotOpen(d, v)
        PROVE  v \in Written(cs1[p].uses)
    <3>1. p \in 1..n /\ (p = n => m = 1)
      BY <1>7, <2>2
    <3>2. v \in Written(cs[p].uses)
      BY <1>1, <1>2, <2>1, <2>2, <2>5, <3>1 DEF Silent
    <3>3. CASE p # n
      BY <1>2, <3>1, <3>2, <3>3
    <3>4. CASE p = n
      <4>1. v # u
        <5>1. v.form # "std"
          BY <2>5 DEF CannotOpen
        <5>2. m = 1
          BY <3>1, <3>4
        <5> QED
          BY <1>6, <2>1, <2>5, <5>1, <5>2
      <4> QED
        BY <1>2, <3>2, <3>4, <4>1
    <3> QED
      BY <3>3, <3>4
  <2> QED
    BY <2>4, <2>5
<1>12. Unlet(cs1, ks1, at, m)
  <2>1. \A j \in 2..m : j \in 1..m
    OBVIOUS
  <2> QED
    BY <1>1, <1>2, <1>3, <1>7, <2>1 DEF Unlet
<1> QED
  BY <1>8, <1>9, <1>10, <1>11, <1>12 DEF Thorough

\* An import that is opened is open in the next call.
LEMMA OpenThorough ==
    ASSUME NEW d, NEW u, NEW cs, NEW ks, NEW at, NEW m \in Nat, NEW n \in Nat,
           NEW cs1, NEW ks1, NEW bt, Ladder(at, m, n), Thorough(d, cs, ks, at, m),
           OpensOne(d, u, cs, ks, at, m, n, cs1, ks1, bt)
    PROVE  Thorough(d, cs1, ks1, bt, m)
<1>1. /\ Rooted(d, ks, m) /\ Frontier(d, cs, ks, at, m) /\ Opened(cs, ks, at, m)
      /\ Silent(d, cs, ks, at, m) /\ Unlet(cs, ks, at, m)
  BY DEF Thorough
<1>2. /\ n \in 1..n /\ m \in 1..m /\ 1 \in 1..m
      /\ \A p \in 1..n : cs1[p].file = cs[p].file /\ cs1[p].src = cs[p].src
      /\ \A p \in 1..n : p # n => cs1[p] = cs[p]
      /\ Written(cs[n].uses) = {u} \cup Written(cs1[n].uses)
      /\ CanOpen(d, u) /\ ~CannotOpen(d, u)
  BY DEF OpensOne, Advance, SameCall, CanOpen, CannotOpen
<1>3. \A j \in 1..m : /\ ks1[j].cache = ks[j].cache /\ ks1[j].diags = ks[j].diags
                      /\ bt[j] = at[j]
  BY DEF OpensOne
<1>4. cs1[n + 1].file = u.name /\ cs1[n + 1].uses = cs1[n + 1].src.uses
  BY DEF OpensOne, Called
<1>5. \A j \in 1..m : Reported(ks1, j) <=> Reported(ks, j)
  BY <1>3 DEF Reported
<1>6. ASSUME NEW j \in 1..m, j # m
      PROVE  /\ bt[j] = at[j] /\ bt[j + 1] = at[j + 1]
             /\ \A p \in at[j]..(at[j + 1] - 1) :
                   p \in 1..n /\ p # n /\ (p + 1 < at[j + 1] => p + 1 \in 1..n)
  <2>1. at[m] \in 1..n
    BY DEF Ladder
  <2>2. j + 1 \in 1..m
    BY <1>6
  <2>3. \A p \in at[j]..(at[j + 1] - 1) : p \in 1..n /\ p < at[m]
    BY <1>6, LadderFacts
  <2> QED
    BY <1>3, <2>1, <2>2, <2>3
<1>7. /\ bt[m] = at[m] /\ bt[m + 1] = n + 2 /\ at[m + 1] = n + 1 /\ at[m] \in 1..n
      /\ \A p \in at[m]..n + 1 : /\ p \in 1..n \/ p = n + 1
                                 /\ p # n + 1 => p \in at[m]..(n + 1) - 1
                                 /\ p \in 1..n /\ p # n => p + 1 \in 1..n
      /\ (n + 2) - 1 = n + 1 /\ n + 1 < n + 2 /\ \A p \in 1..n : p + 1 < n + 2
  <2>1. at[m] \in 1..n /\ at[m + 1] = n + 1 /\ bt[m + 1] = n + 2
    BY <1>2 DEF Ladder, OpensOne
  <2> QED
    BY <1>2, <1>3, <2>1
<1>8. Rooted(d, ks1, m)
  BY <1>1, <1>3, <1>5 DEF Rooted
<1>9. Frontier(d, cs1, ks1, bt, m)
  <2>1. SUFFICES ASSUME NEW j \in 1..m, ~Reported(ks1, j), NEW p \in bt[j]..(bt[j + 1] - 1),
                        NEW v \in Written(cs1[p].src.uses), CanOpen(d, v)
                 PROVE  \/ v \in Written(cs1[p].uses)
                        \/ v.name \in DOMAIN ks1[j].cache
                        \/ p + 1 < bt[j + 1] /\ cs1[p + 1].file = v.name
    BY DEF Frontier
  <2>2. ~Reported(ks, j)
    BY <1>5, <2>1
  <2>3. CASE j # m
    <3>1. /\ p \in at[j]..(at[j + 1] - 1) /\ bt[j + 1] = at[j + 1]
          /\ p \in 1..n /\ p # n /\ (p + 1 < at[j + 1] => p + 1 \in 1..n)
      BY <1>6, <2>3
    <3>2. v \in Written(cs[p].src.uses) /\ cs1[p] = cs[p]
      BY <1>2, <3>1
    <3>3. \/ v \in Written(cs[p].uses)
          \/ v.name \in DOMAIN ks[j].cache
          \/ p + 1 < at[j + 1] /\ cs[p + 1].file = v.name
      BY <1>1, <2>1, <2>2, <3>1, <3>2 DEF Frontier
    <3> QED
      BY <1>2, <1>3, <3>1, <3>2, <3>3
  <2>4. CASE j = m
    <3>1. /\ p \in at[m]..n + 1 /\ bt[j + 1] = n + 2
          /\ p \in 1..n \/ p = n + 1
      BY <1>7, <2>4
    <3>2. CASE p = n + 1
      BY <1>4, <2>1, <3>2
    <3>3. CASE p \in 1..n
      <4>1. p \in at[m]..(at[m + 1] - 1)
        BY <1>7, <3>1, <3>3
      <4>2. v \in Written(cs[p].src.uses)
        BY <1>2, <3>3
      <4>3. \/ v \in Written(cs[p].uses)
            \/ v.name \in DOMAIN ks[m].cache
            \/ p + 1 < n + 1 /\ cs[p + 1].file = v.name
        BY <1>1, <1>2, <1>7, <2>1, <2>2, <2>4, <4>1, <4>2 DEF Frontier
      <4>4. CASE p + 1 < n + 1 /\ cs[p + 1].file = v.name
        <5>1. p + 1 \in 1..n /\ p + 1 < n + 2
          BY <3>3, <4>4
        <5> QED
          BY <1>2, <3>1, <4>4, <5>1
      <4>5. CASE v \in Written(cs[p].uses)
        <5>1. CASE p # n
          BY <1>2, <3>3, <4>5, <5>1
        <5>2. CASE p = n /\ v # u
          BY <1>2, <4>5, <5>2
        <5>3. CASE p = n /\ v = u
          BY <1>4, <1>7, <3>1, <5>3
        <5> QED
          BY <5>1, <5>2, <5>3
      <4> QED
        BY <1>2, <1>3, <2>4, <4>3, <4>4, <4>5
    <3> QED
      BY <3>1, <3>2, <3>3
  <2> QED
    BY <2>3, <2>4
<1>10. \A j \in 2..m : /\ j \in 1..m /\ j - 1 \in 1..m /\ bt[j] = at[j]
                       /\ cs1[at[j]].file = cs[at[j]].file
  <2>1. \A j \in 2..m : j \in 1..m /\ j - 1 \in 1..m
    OBVIOUS
  <2>2. \A j \in 2..m : at[j] \in 1..n
    BY <2>1 DEF Ladder
  <2> QED
    BY <1>2, <1>3, <2>1, <2>2
<1>11. Opened(cs1, ks1, bt, m)
  BY <1>1, <1>3, <1>10 DEF Opened
<1>12. Silent(d, cs1, ks1, bt, m)
  <2>1. SUFFICES ASSUME m >= 1, ks1[1].diags = {}
                 PROVE  /\ \A f \in DOMAIN ks1[1].cache :
                              /\ \A v \in Written(d[f].uses) : ~CannotOpen(d, v)
                              /\ d[f].fault = "type" => m >= 2 /\ cs1[bt[2]].file = f
                        /\ \A p \in bt[1]..(bt[2] - 1) : \A v \in Written(cs1[p].src.uses) :
                              CannotOpen(d, v) => v \in Written(cs1[p].uses)
    BY DEF Silent
  <2>2. ks[1].diags = {} /\ ks1[1].cache = ks[1].cache
    BY <1>2, <1>3, <2>1
  <2>3. m >= 2 => cs1[bt[2]].file = cs[at[2]].file
    <3>1. m >= 2 => 2 \in 2..m
      OBVIOUS
    <3> QED
      BY <1>10, <3>1
  <2>4. \A f \in DOMAIN ks1[1].cache :
            /\ \A v \in Written(d[f].uses) : ~CannotOpen(d, v)
            /\ d[f].fault = "type" => m >= 2 /\ cs1[bt[2]].file = f
    BY <1>1, <2>1, <2>2, <2>3 DEF Silent
  <2>5. ASSUME NEW p \in bt[1]..(bt[2] - 1), NEW v \in Written(cs1[p].src.uses), CannotOpen(d, v)
        PROVE  v \in Written(cs1[p].uses)
    <3>1. CASE m # 1
      <4>1. p \in at[1]..(at[2] - 1) /\ p \in 1..n /\ p # n
        BY <1>2, <1>6, <3>1
      <4> QED
        BY <1>1, <1>2, <2>1, <2>2, <2>5, <4>1 DEF Silent
    <3>2. CASE m = 1
      <4>1. p \in at[1]..n + 1 /\ (p \in 1..n \/ p = n + 1)
        BY <1>7, <3>2
      <4>2. CASE p = n + 1
        BY <1>4, <2>5, <4>2
      <4>3. CASE p \in 1..n
        <5>1. p \in at[1]..(at[2] - 1)
          BY <1>7, <3>2, <4>1, <4>3
        <5>2. v \in Written(cs[p].uses)
          BY <1>1, <1>2, <2>1, <2>2, <2>5, <4>3, <5>1 DEF Silent
        <5>3. v # u
          BY <1>2, <2>5
        <5> QED
          BY <1>2, <4>3, <5>2, <5>3
      <4> QED
        BY <4>1, <4>2, <4>3
    <3> QED
      BY <3>1, <3>2
  <2> QED
    BY <2>4, <2>5
<1>13. Unlet(cs1, ks1, bt, m)
  BY <1>1, <1>3, <1>10 DEF Unlet
<1> QED
  BY <1>8, <1>9, <1>11, <1>12, <1>13 DEF Thorough

\* A file is cached when all that it opens is, and all it imports can be opened.
LEMMA CloseThorough ==
    ASSUME NEW d, NEW cs, NEW ks, NEW at, NEW m \in Nat, NEW n \in Nat,
           NEW cs1, NEW ks1, NEW bt, Ladder(at, m, n), Reading(d, cs, n),
           Thorough(d, cs, ks, at, m), ClosesOne(cs, ks, at, m, n, cs1, ks1, bt)
    PROVE  Thorough(d, cs1, ks1, bt, m + 1)
<1> DEFINE f == cs[n].file
           fs == DOMAIN ks[m].cache
<1>1. /\ Rooted(d, ks, m) /\ Frontier(d, cs, ks, at, m) /\ Opened(cs, ks, at, m)
      /\ Silent(d, cs, ks, at, m) /\ Unlet(cs, ks, at, m)
  BY DEF Thorough
<1>2. /\ m \in 1..m /\ 1 \in 1..m /\ n \in 1..n /\ at[m] < n /\ at[m] \in 1..n
      /\ at[m + 1] = n + 1
      /\ cs1[n].file = f /\ cs1[n].src = cs[n].src /\ cs1[n].uses = cs1[n].src.uses
      /\ \A p \in 1..n : p # n => cs1[p] = cs[p]
      /\ cs[n].src = d[f]
  <2>1. m \in 1..m /\ 1 \in 1..m
    BY DEF ClosesOne
  <2>2. at[m] \in 1..n /\ at[m] < n /\ at[m + 1] = n + 1
    BY <2>1 DEF ClosesOne, Ladder
  <2>3. n \in 1..n
    BY <2>2
  <2> QED
    BY <2>1, <2>2, <2>3 DEF ClosesOne, Called, Reading
<1>3. /\ \A j \in 1..m : (j # m => ks1[j] = ks[j]) /\ bt[j] = at[j]
      /\ ks1[m].diags = ks[m].diags /\ ks1[m + 1].diags = {}
      /\ ks1[m + 1].cache = ks1[m].cache
      /\ DOMAIN ks1[m].cache = fs \cup {f} /\ DOMAIN ks1[m + 1].cache = fs \cup {f}
      /\ \A g \in fs : g # f => ks1[m].cache[g] = ks[m].cache[g]
      /\ bt[m + 1] = n /\ bt[m + 2] = n + 1
  BY DEF ClosesOne
<1>4. /\ \A p \in at[m]..(at[m + 1] - 1) : p \in 1..n
      /\ n \in at[m]..(at[m + 1] - 1)
  BY <1>2
<1>5. /\ \A u \in Written(d[f].uses) : CanOpen(d, u) => Reported(ks, m) \/ u.name \in fs
      /\ m = 1 /\ ks[1].diags = {} => \A u \in Written(d[f].uses) : ~CannotOpen(d, u)
  <2>1. Written(cs[n].uses) = {}
    BY WrittenFacts DEF ClosesOne
  <2>2. ~(n + 1 < at[m + 1])
    BY <1>2
  <2>3. ASSUME NEW u \in Written(d[f].uses), CanOpen(d, u), ~Reported(ks, m)
        PROVE  u.name \in fs
    <3>1. u \in Written(cs[n].src.uses)
      BY <1>2
    <3> QED
      BY <1>1, <1>2, <1>4, <2>1, <2>2, <2>3, <3>1 DEF Frontier
  <2>4. ASSUME m = 1, ks[1].diags = {}, NEW u \in Written(d[f].uses)
        PROVE  ~CannotOpen(d, u)
    <3>1. u \in Written(cs[n].src.uses) /\ n \in at[1]..(at[2] - 1) /\ m >= 1
      BY <1>2, <1>4, <2>4
    <3> QED
      BY <1>1, <2>1, <2>4, <3>1 DEF Silent
  <2> QED
    BY <2>3, <2>4
<1>6. /\ \A j \in 1..m + 1 : j \in 1..m \/ j = m + 1
      /\ \A j \in 1..m : j \in 1..m + 1 /\ j # m + 1
      /\ (m + 1) + 1 = m + 2
  OBVIOUS
<1>7. /\ \A j \in 1..m : ks1[j].diags = ks[j].diags
      /\ \A j \in 1..m : Reported(ks1, j) <=> Reported(ks, j)
      /\ Reported(ks1, m + 1) <=> Reported(ks, m)
  <2>1. \A j \in 1..m : ks1[j].diags = ks[j].diags
    BY <1>3
  <2>2. \A j \in 1..m : Reported(ks1, j) <=> Reported(ks, j)
    BY <2>1 DEF Reported
  <2>3. Reported(ks1, m + 1) <=> Reported(ks, m)
    BY <1>3, <1>6, <2>1 DEF Reported
  <2> QED
    BY <2>1, <2>2, <2>3
<1>8. ASSUME NEW j \in 1..m, j # m
      PROVE  /\ bt[j] = at[j] /\ bt[j + 1] = at[j + 1] /\ ks1[j] = ks[j]
             /\ \A p \in at[j]..(at[j + 1] - 1) :
                   p \in 1..n /\ p # n
                   /\ (p + 1 < at[j + 1] => p + 1 \in 1..n /\ p + 1 # n)
  <2>1. j + 1 \in 1..m /\ at[j + 1] <= at[m] /\ at[j + 1] \in 1..n
    BY <1>8, LadderFacts
  <2>2. \A p \in at[j]..(at[j + 1] - 1) : p \in 1..n /\ p < at[m]
    BY <1>8, LadderFacts
  <2>3. \A p \in at[j]..(at[j + 1] - 1) : p \in 1..n /\ p # n
                   /\ (p + 1 < at[j + 1] => p + 1 \in 1..n /\ p + 1 # n)
    BY <1>2, <2>1, <2>2
  <2> QED
    BY <1>3, <1>8, <2>1, <2>3
<1> HIDE DEF f, fs
<1>9. Rooted(d, ks1, m + 1)
  <2>1. ASSUME ~Reported(ks, m)
        PROVE  ClosedIn(d, fs \cup {f}) /\ Grounded(d, fs \cup {f})
    <3>1. ClosedIn(d, fs) /\ Grounded(d, fs)
      BY <1>1, <1>2, <2>1 DEF Rooted, fs
    <3>2. OpensIn(d, d[f]) \subseteq fs
      BY <1>5, <2>1 DEF OpensIn
    <3> QED
      BY <3>1, <3>2, GroundedMore
  <2>2. ASSUME NEW j \in 1..m, j # m, ~Reported(ks, j)
        PROVE  ClosedIn(d, DOMAIN ks1[j].cache) /\ Grounded(d, DOMAIN ks1[j].cache)
    BY <1>1, <1>8, <2>2 DEF Rooted
  <2> QED
    BY <1>3, <1>6, <1>7, <2>1, <2>2 DEF Rooted
<1>10. Frontier(d, cs1, ks1, bt, m + 1)
  <2>1. SUFFICES ASSUME NEW j \in 1..m + 1, ~Reported(ks1, j), NEW p \in bt[j]..(bt[j + 1] - 1),
                        NEW v \in Written(cs1[p].src.uses), CanOpen(d, v)
                 PROVE  \/ v \in Written(cs1[p].uses)
                        \/ v.name \in DOMAIN ks1[j].cache
                        \/ p + 1 < bt[j + 1] /\ cs1[p + 1].file = v.name
    BY DEF Frontier
  <2>2. CASE j = m + 1
    <3>1. p = n
      <4>1. p \in n..((n + 1) - 1)
        BY <1>3, <1>6, <2>2
      <4> QED
        BY <4>1
    <3> QED
      BY <1>2, <2>1, <3>1
  <2>3. CASE j \in 1..m /\ j # m
    <3>1. /\ p \in at[j]..(at[j + 1] - 1) /\ bt[j + 1] = at[j + 1] /\ ks1[j] = ks[j]
          /\ p \in 1..n /\ p # n /\ (p + 1 < at[j + 1] => p + 1 \in 1..n /\ p + 1 # n)
      BY <1>8, <2>3
    <3>2. v \in Written(cs[p].src.uses) /\ cs1[p] = cs[p]
      BY <1>2, <3>1
    <3>3. ~Reported(ks, j)
      BY <1>7, <2>1, <2>3
    <3>4. \/ v \in Written(cs[p].uses)
          \/ v.name \in DOMAIN ks[j].cache
          \/ p + 1 < at[j + 1] /\ cs[p + 1].file = v.name
      BY <1>1, <2>1, <2>3, <3>1, <3>2, <3>3 DEF Frontier
    <3> QED
      BY <1>2, <3>1, <3>2, <3>4
  <2>4. CASE j = m
    <3>1. p \in at[m]..n - 1 /\ bt[j + 1] = n
      BY <1>2, <1>3, <2>4
    <3>2. p \in 1..n /\ p # n /\ p \in at[m]..(at[m + 1] - 1)
      BY <1>2, <3>1
    <3>3. v \in Written(cs[p].src.uses) /\ cs1[p] = cs[p]
      BY <1>2, <3>2
    <3>4. ~Reported(ks, m)
      BY <1>2, <1>7, <2>1, <2>4
    <3>5. \/ v \in Written(cs[p].uses)
          \/ v.name \in fs
          \/ p + 1 < at[m + 1] /\ cs[p + 1].file = v.name
      BY <1>1, <1>2, <2>1, <3>2, <3>3, <3>4 DEF Frontier, fs
    <3>6. CASE p + 1 < at[m + 1] /\ cs[p + 1].file = v.name
      <4>1. CASE p + 1 = n
        BY <1>3, <2>4, <3>6, <4>1 DEF f
      <4>2. CASE p + 1 # n
        <5>1. p + 1 \in 1..n /\ p + 1 < n
          BY <3>1, <3>2, <4>2
        <5> QED
          BY <1>2, <3>1, <3>6, <4>2, <5>1
      <4> QED
        BY <4>1, <4>2
    <3> QED
      BY <1>3, <2>4, <3>3, <3>5, <3>6
  <2> QED
    BY <1>6, <2>2, <2>3, <2>4
<1>11. \A j \in 2..m : /\ j \in 1..m /\ j - 1 \in 1..m /\ j - 1 # m /\ bt[j] = at[j]
                       /\ cs1[at[j]] = cs[at[j]]
  <2>1. \A j \in 2..m : j \in 1..m /\ j - 1 \in 1..m /\ j - 1 # m
    OBVIOUS
  <2>2. ASSUME NEW j \in 2..m
        PROVE  at[j] \in 1..n /\ at[j] # n
    <3>1. CASE j = m
      BY <1>2, <3>1
    <3>2. CASE j # m
      <4>1. at[j] \in 1..n /\ at[j] \in at[j]..(at[j + 1] - 1)
        <5>1. at[j] \in 1..n /\ at[j + 1] \in 1..n + 1 /\ at[j] < at[j + 1]
          BY <2>1, LadderFacts
        <5> QED
          BY <5>1
      <4> QED
        BY <1>8, <2>1, <3>2, <4>1
    <3> QED
      BY <3>1, <3>2
  <2> QED
    BY <1>2, <1>3, <2>1, <2>2
<1>12. \A j \in 2..m + 1 : j \in 2..m \/ (j = m + 1 /\ j - 1 = m)
  OBVIOUS
<1>13. Opened(cs1, ks1, bt, m + 1)
  <2>1. SUFFICES ASSUME NEW j \in 2..m + 1
                 PROVE  cs1[bt[j]].file \in DOMAIN ks1[j - 1].cache
    BY DEF Opened
  <2>2. CASE j \in 2..m
    <3>1. j - 1 \in 1..m /\ j - 1 # m /\ cs1[bt[j]] = cs[at[j]]
      BY <1>11, <2>2
    <3>2. cs[at[j]].file \in DOMAIN ks[j - 1].cache
      BY <1>1, <2>2 DEF Opened
    <3> QED
      BY <1>3, <3>1, <3>2
  <2>3. CASE j = m + 1
    <3>1. j - 1 = m /\ cs1[bt[j]].file = f
      BY <1>2, <1>3, <2>3
    <3> QED
      BY <1>3, <3>1
  <2> QED
    BY <1>12, <2>2, <2>3
<1>14. Silent(d, cs1, ks1, bt, m + 1)
  <2>1. SUFFICES ASSUME ks1[1].diags = {}
                 PROVE  /\ \A g \in DOMAIN ks1[1].cache :
                              /\ \A v \in Written(d[g].uses) : ~CannotOpen(d, v)
                              /\ d[g].fault = "type" => m + 1 >= 2 /\ cs1[bt[2]].file = g
                        /\ \A p \in bt[1]..(bt[2] - 1) : \A v \in Written(cs1[p].src.uses) :
                              CannotOpen(d, v) => v \in Written(cs1[p].uses)
    BY DEF Silent
  <2>2. ks[1].diags = {} /\ m >= 1
    BY <1>2, <1>7, <2>1
  <2>3. CASE m = 1
    <3>1. bt[2] = n /\ cs1[bt[2]].file = f /\ DOMAIN ks1[1].cache = fs \cup {f}
      BY <1>2, <1>3, <2>3
    <3>2. \A g \in fs : d[g].fault # "type" /\ \A v \in Written(d[g].uses) : ~CannotOpen(d, v)
      BY <1>1, <2>2, <2>3 DEF Silent, fs
    <3>3. \A v \in Written(d[f].uses) : ~CannotOpen(d, v)
      BY <1>5, <2>2, <2>3
    <3>4. \A g \in DOMAIN ks1[1].cache :
                /\ \A v \in Written(d[g].uses) : ~CannotOpen(d, v)
                /\ d[g].fault = "type" => m + 1 >= 2 /\ cs1[bt[2]].file = g
      BY <2>3, <3>1, <3>2, <3>3
    <3>5. ASSUME NEW p \in bt[1]..(bt[2] - 1), NEW v \in Written(cs1[p].src.uses), CannotOpen(d, v)
          PROVE  v \in Written(cs1[p].uses)
      <4>1. p \in at[1]..(at[2] - 1) /\ p \in 1..n /\ p # n
        BY <1>2, <1>3, <2>3, <3>1
      <4> QED
        BY <1>1, <1>2, <2>2, <3>5, <4>1 DEF Silent
    <3> QED
      BY <3>4, <3>5
  <2>4. CASE m # 1
    <3>1. 2 \in 2..m /\ bt[2] = at[2] /\ bt[1] = at[1] /\ ks1[1] = ks[1] /\ cs1[at[2]] = cs[at[2]]
      <4>1. 2 \in 2..m
        BY <2>2, <2>4
      <4> QED
        BY <1>2, <1>8, <1>11, <2>4, <4>1
    <3>2. \A g \in DOMAIN ks1[1].cache :
                /\ \A v \in Written(d[g].uses) : ~CannotOpen(d, v)
                /\ d[g].fault = "type" => cs1[bt[2]].file = g
      BY <1>1, <2>2, <3>1 DEF Silent
    <3>3. ASSUME NEW p \in bt[1]..(bt[2] - 1), NEW v \in Written(cs1[p].src.uses), CannotOpen(d, v)
          PROVE  v \in Written(cs1[p].uses)
      <4>1. p \in at[1]..(at[1 + 1] - 1) /\ p \in at[1]..(at[2] - 1)
        BY <3>1
      <4>2. p \in 1..n /\ p # n
        BY <1>2, <1>8, <2>4, <4>1
      <4>3. cs1[p] = cs[p]
        BY <1>2, <4>2
      <4> QED
        BY <1>1, <2>2, <3>3, <4>1, <4>3 DEF Silent
    <3>4. m + 1 >= 2
      BY <2>2
    <3> QED
      BY <3>2, <3>3, <3>4
  <2> QED
    BY <2>3, <2>4
<1>15. Unlet(cs1, ks1, bt, m + 1)
  <2>1. SUFFICES ASSUME NEW j \in 1..m + 1, NEW g \in DOMAIN ks1[j].cache, ~ks1[j].cache[g].lets
                 PROVE  \E k \in 2..m + 1 : k <= j + 1 /\ cs1[bt[k]].file = g
    BY DEF Unlet
  <2>2. m + 1 \in 2..m + 1 /\ 2..m \subseteq 2..m + 1
    BY <1>2
  <2>3. CASE j \in 1..m /\ j # m
    <3>1. PICK k \in 2..m : k <= j + 1 /\ cs[at[k]].file = g
      BY <1>1, <1>8, <2>1, <2>3 DEF Unlet
    <3> QED
      BY <1>11, <2>2, <3>1
  <2>4. CASE j = m \/ j = m + 1
    <3>1. m + 1 <= j + 1 /\ g \in fs \cup {f} /\ ~ks1[m].cache[g].lets
      BY <1>3, <2>1, <2>4
    <3>2. CASE g = f
      BY <1>2, <1>3, <2>2, <3>1, <3>2
    <3>3. CASE g # f
      <4>1. g \in DOMAIN ks[m].cache /\ ~ks[m].cache[g].lets
        BY <1>3, <3>1, <3>3 DEF fs
      <4>2. PICK k \in 2..m : k <= m + 1 /\ cs[at[k]].file = g
        BY <1>1, <1>2, <4>1 DEF Unlet
      <4>3. k <= j + 1
        BY <2>4
      <4> QED
        BY <1>11, <2>2, <4>2, <4>3
    <3> QED
      BY <3>2, <3>3
  <2> QED
    BY <1>6, <2>3, <2>4
<1> QED
  BY <1>9, <1>10, <1>13, <1>14, <1>15 DEF Thorough

\* A checker that is done tells the one around it of the file it checked.
LEMMA CheckedThorough ==
    ASSUME NEW d, NEW cs, NEW ks, NEW at, NEW m \in Nat, NEW n \in Nat,
           NEW cs1, NEW ks1, NEW bt, Ladder(at, m, n), Reading(d, cs, n),
           Thorough(d, cs, ks, at, m), EndsOne(cs, ks, at, m, n, cs1, ks1, bt)
    PROVE  Thorough(d, cs1, ks1, bt, m - 1)
<1> DEFINE f == cs[n].file
<1>1. /\ Rooted(d, ks, m) /\ Frontier(d, cs, ks, at, m) /\ Opened(cs, ks, at, m)
      /\ Silent(d, cs, ks, at, m) /\ Unlet(cs, ks, at, m)
  BY DEF Thorough
<1>2. /\ m >= 2 /\ m \in 1..m /\ m \in 2..m /\ at[m] = n /\ at[m + 1] = n + 1 /\ n \in 1..n
      /\ m - 1 \in 1..m - 1 /\ 1 \in 1..m - 1
  BY DEF EndsOne, Ladder
<1>3. \A j \in 1..m - 1 : j \in 1..m /\ j # m /\ j + 1 \in 1..m /\ (j \in 1..m - 2 \/ j = m - 1)
  BY <1>2
<1>4. ASSUME NEW j \in 1..m - 1
      PROVE  /\ bt[j] = at[j] /\ bt[j + 1] = at[j + 1]
             /\ \A p \in at[j]..(at[j + 1] - 1) :
                   cs1[p] = cs[p] /\ (p + 1 < at[j + 1] => cs1[p + 1] = cs[p + 1])
  <2>1. at[j + 1] <= n /\ at[j] \in 1..n /\ at[j + 1] \in 1..n
    BY <1>2, <1>3, LadderFacts
  <2>2. \A p \in 1..n - 1 : cs1[p] = cs[p]
    BY DEF EndsOne
  <2>3. \A p \in at[j]..(at[j + 1] - 1) :
           p \in 1..n - 1 /\ (p + 1 < at[j + 1] => p + 1 \in 1..n - 1)
    BY <2>1
  <2>4. bt[j] = at[j] /\ bt[j + 1] = at[j + 1]
    BY <1>3 DEF EndsOne
  <2> QED
    BY <2>2, <2>3, <2>4
<1>5. f \in DOMAIN ks[m - 1].cache
  BY <1>1, <1>2 DEF Opened
<1>6. \A j \in 1..m - 1 : DOMAIN ks1[j].cache = DOMAIN ks[j].cache
  BY <1>3, <1>5 DEF EndsOne
<1>7. \A j \in 1..m - 1 : /\ "E0030" \in ks1[j].diags <=> "E0030" \in ks[j].diags
                          /\ ks[j].diags \subseteq ks1[j].diags
  BY <1>3 DEF EndsOne
<1>8. \A j \in 1..m - 1 : Reported(ks1, j) <=> Reported(ks, j)
  <2>1. \A j \in 1..m - 1 : \A k \in 1..j : k \in 1..m - 1
    BY <1>2
  <2> QED
    BY <1>7, <2>1 DEF Reported
<1>9. ASSUME NEW j \in 2..m - 1
      PROVE  /\ j \in 1..m - 1 /\ j \in 2..m /\ j - 1 \in 1..m - 1
             /\ bt[j] = at[j] /\ cs1[at[j]] = cs[at[j]]
  <2>1. j \in 1..m - 1 /\ j \in 2..m /\ j - 1 \in 1..m - 1
    BY <1>2
  <2>2. at[j] \in Nat /\ at[j + 1] \in Nat /\ at[j] < at[j + 1]
    <3>1. at[j] \in 1..n /\ at[j + 1] \in 1..n + 1 /\ at[j] < at[j + 1]
      BY <1>3, <2>1, LadderFacts
    <3> QED
      BY <3>1
  <2>3. at[j] \in at[j]..(at[j + 1] - 1)
    BY <2>2
  <2> QED
    BY <1>4, <2>1, <2>3
<1> HIDE DEF f
<1>10. Rooted(d, ks1, m - 1)
  BY <1>1, <1>3, <1>6, <1>8 DEF Rooted
<1>11. Frontier(d, cs1, ks1, bt, m - 1)
  <2>1. SUFFICES ASSUME NEW j \in 1..m - 1, ~Reported(ks1, j), NEW p \in bt[j]..(bt[j + 1] - 1),
                        NEW v \in Written(cs1[p].src.uses), CanOpen(d, v)
                 PROVE  \/ v \in Written(cs1[p].uses)
                        \/ v.name \in DOMAIN ks1[j].cache
                        \/ p + 1 < bt[j + 1] /\ cs1[p + 1].file = v.name
    BY DEF Frontier
  <2>2. /\ p \in at[j]..(at[j + 1] - 1) /\ bt[j + 1] = at[j + 1] /\ cs1[p] = cs[p]
        /\ p + 1 < at[j + 1] => cs1[p + 1] = cs[p + 1]
    BY <1>4
  <2>3. \/ v \in Written(cs[p].uses)
        \/ v.name \in DOMAIN ks[j].cache
        \/ p + 1 < at[j + 1] /\ cs[p + 1].file = v.name
    BY <1>1, <1>3, <1>8, <2>1, <2>2 DEF Frontier
  <2> QED
    BY <1>6, <2>2, <2>3
<1>12. Opened(cs1, ks1, bt, m - 1)
  BY <1>1, <1>6, <1>9 DEF Opened
<1>13. Silent(d, cs1, ks1, bt, m - 1)
  <2>1. SUFFICES ASSUME ks1[1].diags = {}
                 PROVE  /\ \A g \in DOMAIN ks1[1].cache :
                              /\ \A v \in Written(d[g].uses) : ~CannotOpen(d, v)
                              /\ d[g].fault = "type" => m - 1 >= 2 /\ cs1[bt[2]].file = g
                        /\ \A p \in bt[1]..(bt[2] - 1) : \A v \in Written(cs1[p].src.uses) :
                              CannotOpen(d, v) => v \in Written(cs1[p].uses)
    BY DEF Silent
  <2>2. ks[1].diags = {} /\ m >= 1 /\ DOMAIN ks1[1].cache = DOMAIN ks[1].cache
    BY <1>2, <1>6, <1>7, <2>1
  <2>3. ASSUME NEW g \in DOMAIN ks[1].cache
        PROVE  /\ \A v \in Written(d[g].uses) : ~CannotOpen(d, v)
               /\ d[g].fault = "type" => m >= 2 /\ cs[at[2]].file = g
    BY <1>1, <2>2 DEF Silent
  <2>4. ASSUME NEW g \in DOMAIN ks[1].cache, d[g].fault = "type"
        PROVE  m - 1 >= 2 /\ cs1[bt[2]].file = g
    <3>1. CASE m = 2
      <4>1. g = f /\ cs[n].src.fault = "type"
        BY <1>2, <2>3, <2>4, <3>1 DEF f, Reading
      <4>2. ks1[1].diags # {}
        <5>1. m - 1 = 1
          BY <3>1
        <5> QED
          BY <4>1, <5>1 DEF EndsOne
      <4> QED
        BY <2>1, <4>2
    <3>2. CASE m # 2
      <4>1. 2 \in 2..m - 1 /\ m - 1 >= 2
        BY <1>2, <3>2
      <4>2. bt[2] = at[2] /\ cs1[at[2]] = cs[at[2]]
        BY <1>9, <4>1
      <4> QED
        BY <2>3, <2>4, <4>1, <4>2
    <3> QED
      BY <3>1, <3>2
  <2>5. ASSUME NEW p \in bt[1]..(bt[2] - 1), NEW v \in Written(cs1[p].src.uses), CannotOpen(d, v)
        PROVE  v \in Written(cs1[p].uses)
    <3>1. bt[1] = at[1] /\ bt[1 + 1] = at[1 + 1]
      BY <1>2, <1>4
    <3>2. p \in at[1]..(at[2] - 1) /\ p \in at[1]..(at[1 + 1] - 1)
      BY <3>1
    <3>3. cs1[p] = cs[p]
      BY <1>2, <1>4, <3>2
    <3> QED
      BY <1>1, <2>2, <2>5, <3>2, <3>3 DEF Silent
  <2> QED
    BY <2>2, <2>3, <2>4, <2>5
<1>14. Unlet(cs1, ks1, bt, m - 1)
  <2>1. SUFFICES ASSUME NEW j \in 1..m - 1, NEW g \in DOMAIN ks1[j].cache, ~ks1[j].cache[g].lets
                 PROVE  \E k \in 2..m - 1 : k <= j + 1 /\ cs1[bt[k]].file = g
    BY DEF Unlet
  <2>2. g \in DOMAIN ks[j].cache /\ ~ks[j].cache[g].lets /\ (j = m - 1 => g # f)
    <3>1. CASE j = m - 1
      <4>1. g \in DOMAIN ks[m - 1].cache /\ g # f
        BY <1>6, <2>1, <3>1 DEF EndsOne, f
      <4>2. ks1[m - 1].cache[g] = ks[m - 1].cache[g]
        BY <4>1 DEF EndsOne, f
      <4> QED
        BY <2>1, <3>1, <4>1, <4>2
    <3>2. CASE j # m - 1
      <4>1. ks1[j] = ks[j]
        BY <1>3, <3>2 DEF EndsOne
      <4> QED
        BY <2>1, <3>2, <4>1
    <3> QED
      BY <3>1, <3>2
  <2>3. PICK k \in 2..m : k <= j + 1 /\ cs[at[k]].file = g
    BY <1>1, <1>3, <2>2 DEF Unlet
  <2>4. k # m
    <3>1. ASSUME k = m
          PROVE  FALSE
      <4>1. j = m - 1
        BY <1>2, <2>3, <3>1
      <4>2. g = f
        BY <1>2, <2>3, <3>1 DEF f
      <4> QED
        BY <2>2, <4>1, <4>2
    <3> QED
      BY <3>1
  <2>5. k \in 2..m - 1
    BY <1>2, <2>4
  <2> QED
    BY <1>9, <2>3, <2>5
<1> QED
  BY <1>10, <1>11, <1>12, <1>13, <1>14 DEF Thorough

\* A checker that has just begun, alone, and no checker at all, miss nothing yet.
LEMMA FirstThorough ==
    ASSUME NEW d, NEW cs, NEW ks, NEW at, NEW p \in Nat, at[1] = p, at[2] = p + 1,
           DOMAIN ks[1].cache = {}, cs[p].uses = cs[p].src.uses
    PROVE  Thorough(d, cs, ks, at, 1)
<1>1. /\ \A j \in 1..1 : j = 1
      /\ \A q \in p..((p + 1) - 1) : q = p
      /\ 2..1 = {} /\ at[1 + 1] = p + 1
  OBVIOUS
<1>2. Rooted(d, ks, 1)
  BY <1>1 DEF Rooted, ClosedIn, Grounded
<1>3. Frontier(d, cs, ks, at, 1)
  <2>1. SUFFICES ASSUME NEW j \in 1..1, NEW q \in at[j]..(at[j + 1] - 1),
                        NEW v \in Written(cs[q].src.uses)
                 PROVE  v \in Written(cs[q].uses)
    BY DEF Frontier
  <2>2. q = p
    BY <1>1
  <2> QED
    BY <2>2
<1>4. Opened(cs, ks, at, 1)
  BY <1>1 DEF Opened
<1>5. Silent(d, cs, ks, at, 1)
  BY <1>1 DEF Silent
<1>6. Unlet(cs, ks, at, 1)
  BY <1>1 DEF Unlet
<1> QED
  BY <1>2, <1>3, <1>4, <1>5, <1>6 DEF Thorough

\* While there is no checker, none misses anything.
LEMMA NoneThorough ==
    ASSUME NEW d, NEW cs, NEW ks, NEW at
    PROVE  Thorough(d, cs, ks, at, 0)
<1>1. 1..0 = {} /\ 2..0 = {} /\ ~(0 >= 1)
  OBVIOUS
<1> QED
  BY <1>1 DEF Thorough, Rooted, Frontier, Opened, Silent, Unlet

-----------------------------------------------------------------------------
(* The steps of heh are steps of this kind.                                  *)

View(d, cs, ks, m, n) ==
    d = disk /\ cs = calls /\ ks = checkers /\ m = Len(checkers) /\ n = Len(calls)

\* The checkers have their places on the stack.
LEMMA LadderView ==
    ASSUME Typed, NEW at, Stack(at), NEW m, NEW n, m = Len(checkers), n = Len(calls)
    PROVE  Ladder(at, m, n) /\ m \in Nat /\ n \in Nat
<1>1. /\ m \in Nat /\ n \in Nat /\ at[m + 1] = n + 1 /\ at[1] \in 1..n + 1
      /\ \A j \in 1..m : at[j] \in 1..n
  BY PlaceFacts
<1>2. \A i, j \in 1..m + 1 : i < j => at[i] < at[j]
  BY DEF Stack
<1> QED
  BY <1>1, <1>2 DEF Ladder

\* The call on top follows its first import.
LEMMA AdvanceView ==
    ASSUME Typed, calls # <<>>, Call.uses # <<>>,
           \A p \in 1..Len(calls) : /\ SameCall(calls'[p], calls[p])
                                    /\ p # Len(calls) => calls'[p] = calls[p],
           calls'[Len(calls)].uses = Tail(Call.uses),
           NEW d, NEW cs, NEW ks, NEW m, NEW n, View(d, cs, ks, m, n),
           NEW cs1, cs1 = calls'
    PROVE  Advance(Current, cs, n, cs1)
<1>1. n = Len(calls) /\ cs = calls /\ n \in Nat /\ n >= 1 /\ Call = cs[n]
  BY CallFacts DEF View
<1>2. Call.uses \in Seq(Use) /\ Current = Call.uses[1]
  BY CallFacts, CurrentFacts
<1>3. Written(Call.uses) = {Current} \cup Written(Tail(Call.uses))
  BY <1>2, WrittenFacts
<1>4. cs1[n].uses = Tail(Call.uses)
  BY <1>1
<1> QED
  BY <1>1, <1>3, <1>4 DEF Advance

\* The import that heh follows, in the graph.
LEMMA CurrentView ==
    ASSUME Typed, calls # <<>>, Call.uses # <<>>, NEW d, d = disk
    PROVE  /\ Current.form # "std" /\ Readable(Current.name) /\ Named.fault # "syntax" =>
                 CanOpen(d, Current)
           /\ Current.form # "std" /\ (~Readable(Current.name) \/ Named.fault = "syntax") <=>
                 CannotOpen(d, Current)
           /\ Named = d[Current.name]
<1>1. Named = d[Current.name]
  BY DEF Named
<1>2. Readable(Current.name) <=> Current.name \in Files /\ d[Current.name].fault # "missing"
  BY DEF Readable
<1>3. Current.name \in Files /\ d[Current.name].fault # "missing" =>
          d[Current.name].fault \in {"none", "syntax", "type"}
  <2>1. Readable(Current.name) => Named \in Content
    BY CurrentFacts
  <2> QED
    BY <1>1, <1>2, <2>1 DEF Content
<1>4. CannotOpen(d, Current) <=> Current.form # "std" /\
          (Current.name \notin Files \/ d[Current.name].fault \in {"missing", "syntax"})
  BY DEF CannotOpen
<1>5. CanOpen(d, Current) <=> /\ Current.form # "std" /\ Current.name \in Files
                              /\ d[Current.name].fault \in {"none", "type"}
  BY DEF CanOpen
<1>6. /\ Current.form # "std" /\ Readable(Current.name) /\ Named.fault # "syntax" =>
            CanOpen(d, Current)
      /\ Current.form # "std" /\ (~Readable(Current.name) \/ Named.fault = "syntax") <=>
            CannotOpen(d, Current)
  BY <1>1, <1>2, <1>3, <1>4, <1>5
<1> QED
  BY <1>1, <1>6

\* While a checker follows an import there is a checker, and there is none while the
\* evaluator follows one.
LEMMA WhoFollows ==
    ASSUME Typed, NEW at, Stack(at), calls # <<>>
    PROVE  /\ Call.k \in Evaluations => Len(checkers) = 0
           /\ Call.k \in Checks \cup {"interface"} =>
                 /\ Len(checkers) \in 1..Len(checkers) /\ This = checkers[Len(checkers)]
<1>1. Call.k \in Evaluations => Len(checkers) = 0
  BY TopFacts DEF Evaluations
<1>2. Call.k \in Checks \cup {"interface"} => Len(checkers) >= 1
  BY TopFacts DEF Evaluations, Checks
<1> QED
  BY <1>1, <1>2, CheckerFacts

\* An import is passed for one of these reasons.
LEMMA PassView ==
    ASSUME Typed, NEW at, Stack(at), Pass,
           NEW d, NEW cs, NEW ks, NEW m, NEW n, View(d, cs, ks, m, n),
           NEW cs1, NEW ks1, cs1 = calls', ks1 = checkers'
    PROVE  Passes(d, Current, cs, ks, at, m, n, cs1, ks1)
<1>1. /\ m = Len(checkers) /\ n = Len(calls) /\ cs = calls /\ ks = checkers /\ d = disk
      /\ m \in Nat /\ n \in Nat /\ Ladder(at, m, n)
  BY LadderView DEF View
<1>2. /\ calls # <<>> /\ Call.uses # <<>>
      /\ \A p \in 1..n : SameCall(cs1[p], cs[p]) /\ (p # n => cs1[p] = cs[p])
      /\ cs1[n].uses = Tail(Call.uses)
      /\ \A j \in 1..m : SameChecker(ks1[j], ks[j])
      /\ RefuseImport => m >= 1 /\ m \in 1..m /\ ks1[m].diags = ks[m].diags \cup {Refusal}
      /\ \A j \in 1..m : ~RefuseImport \/ j # m => ks1[j].diags = ks[j].diags
  BY <1>1, PassEffect
<1>3. Advance(Current, cs, n, cs1)
  BY <1>1, <1>2, AdvanceView
<1>4. \A j \in 1..m : ks1[j].cache = ks[j].cache
  BY <1>2 DEF SameChecker
<1>5. CASE SkipStd
  <2>1. Current.form = "std" /\ ~RefuseImport
    BY <1>5 DEF SkipStd, RefuseImport, Importing
  <2> QED
    BY <1>2, <1>3, <1>4, <2>1 DEF Passes
<1>6. CASE BindStd
  <2>1. Call.k \in Evaluations /\ ~RefuseImport
    BY <1>6 DEF BindStd, RefuseImport, Importing, Following, Checks, Evaluations
  <2>2. m = 0
    BY <1>1, <1>2, <2>1, WhoFollows
  <2> QED
    BY <1>2, <1>3, <1>4, <2>1, <2>2 DEF Passes
<1>7. CASE ReuseInterface
  <2>1. /\ Current.form # "std" /\ Refusal = "" /\ Cached /\ ~RefuseImport
        /\ Call.k \in Checks \cup {"interface"}
    BY <1>7 DEF ReuseInterface, RefuseImport, Importing, Following
  <2>2. Readable(Current.name) /\ Named.fault # "syntax"
    BY <2>1 DEF Refusal
  <2>3. ~CannotOpen(d, Current)
    BY <1>1, <1>2, <2>2, CurrentView
  <2>4. Current.name \in DOMAIN ks[m].cache
    BY <1>1, <1>2, <2>1, WhoFollows DEF Cached
  <2> QED
    BY <1>2, <1>3, <1>4, <2>1, <2>3, <2>4 DEF Passes
<1>8. CASE RefuseImport
  <2>1. /\ Current.form # "std" /\ Refusal # ""
        /\ Call.k \in Checks \cup {"interface"}
    BY <1>8 DEF RefuseImport, Importing, Following
  <2>2. \/ Refusal = "E0030" /\ Holds(This.loading, Current.name)
        \/ Refusal \in {"E0032", "E0033"} /\ (~Readable(Current.name) \/ Named.fault = "syntax")
    BY <2>1 DEF Refusal
  <2>3. CASE Refusal \in {"E0032", "E0033"} /\ (~Readable(Current.name) \/ Named.fault = "syntax")
    <3>1. CannotOpen(d, Current)
      BY <1>1, <1>2, <2>1, <2>3, CurrentView
    <3> QED
      BY <1>2, <1>3, <1>4, <1>8, <2>3, <3>1 DEF Passes
  <2>4. CASE Refusal = "E0030" /\ Holds(This.loading, Current.name)
    <3>1. This = ks[m] /\ m \in 1..m
      BY <1>1, <1>2, <2>1, WhoFollows
    <3>2. PICK i \in DOMAIN ks[m].loading : ks[m].loading[i] = Current.name
      BY <2>4, <3>1 DEF Holds
    <3>3. i \in 1..Len(ks[m].loading)
      BY <1>1, <3>1, <3>2, CheckerFacts
    <3>4. cs[at[m] + i].k = "interface" /\ cs[at[m] + i].file = Current.name
      BY <1>1, <3>1, <3>2, <3>3 DEF Stack, Level
    <3>5. at[m] + i \in 1..n /\ at[m] \in 1..n
      BY <1>1, <3>1, <3>3, PlaceFacts
    <3>6. at[1] <= at[m] /\ at[1] \in 1..n + 1
      <4>1. CASE m = 1
        BY <1>1, <3>5, <4>1
      <4>2. CASE m # 1
        <5>1. 1 \in 1..m + 1 /\ m \in 1..m + 1 /\ 1 < m
          BY <1>1, <3>1, <4>2
        <5> QED
          BY <1>1, <3>5, <5>1 DEF Ladder
      <4> QED
        BY <1>1, <4>1, <4>2 DEF Ladder
    <3>7. at[m] + i \in at[1]..n
      <4>1. i \in Nat
        BY <1>1, <3>1, <3>3, PlaceFacts
      <4> QED
        BY <3>5, <3>6, <4>1
    <3>8. \E p \in at[1]..n : cs[p].k = "interface" /\ cs[p].file = Current.name
      BY <3>4, <3>7
    <3> QED
      BY <1>2, <1>3, <1>4, <1>8, <2>1, <2>4, <3>8 DEF Passes
  <2> QED
    BY <2>2, <2>3, <2>4
<1> QED
  BY <1>5, <1>6, <1>7, <1>8 DEF Pass

\* An interface is opened.
LEMMA OpenView ==
    ASSUME Typed, NEW at, Stack(at), OpenInterface,
           NEW d, NEW cs, NEW ks, NEW m, NEW n, View(d, cs, ks, m, n),
           NEW cs1, NEW ks1, cs1 = calls', ks1 = checkers', NEW bt,
           bt = Moved(at, Len(checkers), Len(checkers'), Len(calls'))
    PROVE  /\ OpensOne(d, Current, cs, ks, at, m, n, cs1, ks1, bt)
           /\ Len(checkers') = m /\ Len(calls') = n + 1
<1>1. /\ m = Len(checkers) /\ n = Len(calls) /\ cs = calls /\ ks = checkers /\ d = disk
      /\ m \in Nat /\ n \in Nat
  BY LadderView DEF View
<1>2. /\ calls # <<>> /\ Call.uses # <<>> /\ Current.form # "std"
      /\ Readable(Current.name) /\ Named.fault # "syntax"
      /\ \A p \in 1..n : SameCall(cs1[p], cs[p]) /\ (p # n => cs1[p] = cs[p])
      /\ cs1[n].uses = Tail(Call.uses)
      /\ cs1[n + 1] = Frame("interface", Current.name, Named, <<>>)
      /\ m >= 1 /\ Len(checkers') = m /\ Len(calls') = n + 1
      /\ \A j \in 1..m : ks1[j].cache = ks[j].cache /\ ks1[j].diags = ks[j].diags
  BY <1>1, OpenEffect
<1>3. Advance(Current, cs, n, cs1)
  BY <1>1, <1>2, AdvanceView
<1>4. CanOpen(d, Current) /\ Named = d[Current.name]
  BY <1>1, <1>2, CurrentView
<1>5. Called(cs1[n + 1], "interface", Current.name, d[Current.name]) /\ cs1[n + 1].loading = <<>>
  BY <1>2, <1>4 DEF Frame, Called
<1>6. \A j \in 1..m : bt[j] = at[j]
  BY <1>1, OpenStack
<1>7. bt[m + 1] = n + 2
  <2>1. bt = [j \in 1..m + 1 |-> IF j = m + 1 THEN (n + 1) + 1 ELSE IF j > m THEN n + 1 ELSE at[j]]
    BY <1>1, <1>2 DEF Moved
  <2>2. m + 1 \in 1..m + 1 /\ (n + 1) + 1 = n + 2
    BY <1>1
  <2> QED
    BY <2>1, <2>2
<1> QED
  BY <1>2, <1>3, <1>4, <1>5, <1>6, <1>7 DEF OpensOne

\* An interface is closed.
LEMMA CloseView ==
    ASSUME Typed, NEW at, Stack(at), CloseInterface,
           NEW d, NEW cs, NEW ks, NEW m, NEW n, View(d, cs, ks, m, n),
           NEW cs1, NEW ks1, cs1 = calls', ks1 = checkers', NEW bt,
           bt = Moved(at, Len(checkers), Len(checkers'), Len(calls'))
    PROVE  /\ ClosesOne(cs, ks, at, m, n, cs1, ks1, bt)
           /\ Len(checkers') = m + 1 /\ Len(calls') = n
<1> DEFINE cache == Known(This.cache, Call.file, Interface(Call.src, FALSE))
<1>1. /\ m = Len(checkers) /\ n = Len(calls) /\ cs = calls /\ ks = checkers
      /\ m \in Nat /\ n \in Nat
  BY LadderView DEF View
<1>2. /\ calls # <<>> /\ Call.uses = <<>> /\ Call.k = "interface"
      /\ Len(calls') = n
      /\ \A p \in 1..n : p # n => cs1[p] = cs[p]
      /\ cs1[n] = Frame("import", Call.file, Call.src, <<>>)
      /\ m >= 1 /\ Len(checkers') = m + 1
      /\ \A j \in 1..m : j # m => ks1[j] = ks[j]
      /\ ks1[m].cache = cache /\ ks1[m].diags = This.diags
      /\ ks1[m + 1] = Checker(cache)
  BY <1>1, CloseEffect
<1>3. Call = cs[n] /\ This = ks[m] /\ m \in 1..m
  <2>1. Call = cs[n]
    BY <1>1, <1>2, CallFacts
  <2>2. Call.k \in Checks \cup {"interface"}
    BY <1>2
  <2>3. This = ks[m] /\ m \in 1..m
    BY <1>1, <1>2, <2>2, WhoFollows
  <2> QED
    BY <2>1, <2>3
<1>4. Called(cs1[n], "import", cs[n].file, cs[n].src) /\ cs1[n].loading = <<>>
  BY <1>2, <1>3 DEF Frame, Called
<1>5. ks1[m + 1].cache = cache /\ ks1[m + 1].diags = {}
  BY <1>2 DEF Checker
<1>6. /\ DOMAIN cache = DOMAIN ks[m].cache \cup {cs[n].file}
      /\ \A f \in DOMAIN ks[m].cache : f # cs[n].file => cache[f] = ks[m].cache[f]
  BY <1>3 DEF Known
<1> HIDE DEF cache
<1>7. /\ \A j \in 1..m : bt[j] = at[j]
      /\ bt[m + 1] = n /\ at[m] < n
  BY <1>1, CloseStack
<1>8. bt[m + 2] = n + 1
  <2>1. bt = [j \in 1..(m + 1) + 1 |->
                 IF j = (m + 1) + 1 THEN n + 1 ELSE IF j > m THEN n ELSE at[j]]
    BY <1>1, <1>2 DEF Moved
  <2>2. m + 2 \in 1..(m + 1) + 1 /\ (m + 1) + 1 = m + 2
    BY <1>1
  <2> QED
    BY <2>1, <2>2
<1>9. cs[n].uses = <<>> /\ cs[n].k = "interface"
  BY <1>2, <1>3
<1>10. ks1[m].diags = ks[m].diags /\ ks1[m].cache = cache
  BY <1>2, <1>3
<1>11. ClosesOne(cs, ks, at, m, n, cs1, ks1, bt)
  BY <1>2, <1>4, <1>5, <1>6, <1>7, <1>8, <1>9, <1>10 DEF ClosesOne
<1> QED
  BY <1>2, <1>11

\* An imported file has been checked.
LEMMA CheckedView ==
    ASSUME Typed, NEW at, Stack(at), ImportChecked,
           NEW d, NEW cs, NEW ks, NEW m, NEW n, View(d, cs, ks, m, n),
           NEW cs1, NEW ks1, cs1 = calls', ks1 = checkers', NEW bt,
           bt = Moved(at, Len(checkers), Len(checkers'), Len(calls'))
    PROVE  /\ EndsOne(cs, ks, at, m, n, cs1, ks1, bt)
           /\ Len(checkers') = m - 1 /\ Len(calls') = n - 1
<1> DEFINE outer == checkers[m - 1]
           cache == Known(outer.cache, Call.file, Interface(Call.src, TRUE))
<1>1. /\ m = Len(checkers) /\ n = Len(calls) /\ cs = calls /\ ks = checkers
      /\ m \in Nat /\ n \in Nat
  BY LadderView DEF View
<1>2. /\ calls # <<>> /\ Call.uses = <<>> /\ Call.k = "import"
      /\ Len(calls') = n - 1 /\ \A p \in 1..n - 1 : cs1[p] = cs[p]
      /\ m >= 2 /\ Len(checkers') = m - 1
      /\ \A j \in 1..m - 2 : ks1[j] = ks[j]
      /\ ks1[m - 1].cache = cache
      /\ ks1[m - 1].diags = IF Verdict = {} THEN outer.diags ELSE outer.diags \cup {"E0033"}
  BY <1>1, CheckedEffect
<1>3. Call = cs[n] /\ This = ks[m] /\ outer = ks[m - 1]
  <2>1. Call = cs[n]
    BY <1>1, <1>2, CallFacts
  <2>2. Call.k \in Checks \cup {"interface"}
    BY <1>2 DEF Checks
  <2>3. This = ks[m]
    BY <1>1, <1>2, <2>2, WhoFollows
  <2> QED
    BY <1>1, <2>1, <2>3
<1>4. /\ DOMAIN cache = DOMAIN ks[m - 1].cache \cup {cs[n].file}
      /\ \A f \in DOMAIN ks[m - 1].cache : f # cs[n].file => cache[f] = ks[m - 1].cache[f]
  BY <1>3 DEF Known
<1>5. cache[cs[n].file].lets
  <2>1. PICK i : i = Interface(Call.src, TRUE)
    OBVIOUS
  <2>2. cache[cs[n].file] = i
    BY <1>3, <2>1 DEF Known
  <2>3. i.lets
    BY <2>1 DEF Interface
  <2> QED
    BY <2>2, <2>3
<1> HIDE DEF cache
<1>6. \/ /\ ks1[m - 1].diags = ks[m - 1].diags
         /\ cs[n].src.fault # "type"
      \/ /\ ks1[m - 1].diags = ks[m - 1].diags \cup {"E0033"}
         /\ ks[m].diags # {} \/ cs[n].src.fault = "type"
  BY <1>2, <1>3 DEF Verdict
<1>7. (\A j \in 1..m : bt[j] = at[j]) /\ at[m] = n
  BY <1>1, CheckedStack
<1>8. EndsOne(cs, ks, at, m, n, cs1, ks1, bt)
  BY <1>2, <1>4, <1>5, <1>6, <1>7 DEF EndsOne
<1> QED
  BY <1>2, <1>8

\* The evaluator loads a file.
LEMMA LoadView ==
    ASSUME Typed, NEW at, Stack(at), LoadModule,
           NEW d, NEW cs, NEW ks, NEW m, NEW n, View(d, cs, ks, m, n),
           NEW cs1, NEW ks1, cs1 = calls', ks1 = checkers', NEW bt,
           bt = Moved(at, Len(checkers), Len(checkers'), Len(calls'))
    PROVE  /\ LoadsOne(d, Current, cs, at, m, n, cs1, ks1, bt)
           /\ Len(checkers') = 1 /\ Len(calls') = n + 2
<1>1. /\ m = Len(checkers) /\ n = Len(calls) /\ cs = calls /\ ks = checkers /\ d = disk
      /\ m \in Nat /\ n \in Nat
  BY LadderView DEF View
<1>2. /\ calls # <<>> /\ Call.uses # <<>> /\ LoadFault = ""
      /\ Readable(Current.name) /\ Named.fault # "syntax"
      /\ \A p \in 1..n : SameCall(cs1[p], cs[p]) /\ (p # n => cs1[p] = cs[p])
      /\ cs1[n].uses = Tail(Call.uses)
      /\ cs1[n + 1] = Frame("load", Current.name, Named, Append(Call.loading, Current.name))
      /\ cs1[n + 2] = Frame("module", Current.name, Named, <<>>)
      /\ m = 0 /\ ks1 = <<Checker(<<>>)>> /\ Len(checkers') = 1 /\ Len(calls') = n + 2
  BY <1>1, LoadEffect
<1>3. Advance(Current, cs, n, cs1)
  BY <1>1, <1>2, AdvanceView
<1>4. CanOpen(d, Current) /\ Named = d[Current.name]
  <2>1. Current.form # "std"
    BY <1>2 DEF LoadFault
  <2> QED
    BY <1>1, <1>2, <2>1, CurrentView
<1>5. /\ Called(cs1[n + 1], "load", Current.name, d[Current.name])
      /\ Called(cs1[n + 2], "module", Current.name, d[Current.name])
      /\ cs1[n + 2].loading = <<>> /\ cs1[n + 1].loading = Append(Call.loading, Current.name)
  <2>1. \A k, f, src, loading : /\ Called(Frame(k, f, src, loading), k, f, src)
                                /\ Frame(k, f, src, loading).loading = loading
    BY DEF Frame, Called
  <2>2. PICK loading : loading = Append(Call.loading, Current.name)
    OBVIOUS
  <2>3. PICK src : src = d[Current.name]
    OBVIOUS
  <2>4. PICK g : g = Current.name
    OBVIOUS
  <2>5. cs1[n + 1] = Frame("load", g, src, loading) /\ cs1[n + 2] = Frame("module", g, src, <<>>)
    BY <1>2, <1>4, <2>2, <2>3, <2>4
  <2>6. /\ Called(cs1[n + 1], "load", g, src) /\ Called(cs1[n + 2], "module", g, src)
        /\ cs1[n + 2].loading = <<>> /\ cs1[n + 1].loading = loading
    BY <2>1, <2>5
  <2> QED
    BY <2>2, <2>3, <2>4, <2>6
<1>6. Written(cs1[n + 1].loading) = Written(cs[n].loading) \cup {Current.name}
  <2>1. cs1[n + 1].loading = Append(Call.loading, Current.name)
    BY <1>5
  <2>2. Call = cs[n] /\ Call.loading \in Seq(Files)
    BY <1>1, <1>2, CallFacts
  <2>3. Current.name \in Files
    BY <1>4 DEF CanOpen
  <2>4. Written(Append(Call.loading, Current.name)) = Written(Call.loading) \cup {Current.name}
    BY <2>2, <2>3, WrittenFacts
  <2> QED
    BY <2>1, <2>2, <2>4
<1>7. DOMAIN ks1[1].cache = {} /\ ks1[1].diags = {}
  <2>1. ks1[1] = Checker(<<>>)
    <3>1. \A c : <<c>>[1] = c
      OBVIOUS
    <3>2. ks1 = <<Checker(<<>>)>>
      BY <1>2
    <3> QED
      BY <3>1, <3>2
  <2>2. ks1[1].cache = <<>> /\ ks1[1].diags = {}
    BY <2>1 DEF Checker
  <2>3. DOMAIN <<>> = {}
    OBVIOUS
  <2> QED
    BY <2>2, <2>3
<1>8. bt[1] = n + 2 /\ bt[2] = n + 3
  <2>1. bt = [j \in 1..1 + 1 |-> IF j = 1 + 1 THEN (n + 2) + 1 ELSE IF j > 0 THEN n + 2 ELSE at[j]]
    BY <1>1, <1>2 DEF Moved
  <2>2. 1 \in 1..1 + 1 /\ 2 \in 1..1 + 1 /\ 1 # 1 + 1 /\ 2 = 1 + 1 /\ 1 > 0 /\ (n + 2) + 1 = n + 3
    BY <1>1
  <2> QED
    BY <2>1, <2>2
<1> QED
  BY <1>2, <1>3, <1>4, <1>5, <1>6, <1>7, <1>8 DEF LoadsOne

-----------------------------------------------------------------------------
(* The verdict.                                                              *)

\* A checker of the main file that has reported no cycle knows all that file leads to,
\* and there is no cycle; and if it has reported nothing, nothing is wrong.
LEMMA RunRight ==
    ASSUME NEW d, NEW cs, NEW ks, NEW at, NEW n \in Nat, n >= 1,
           at[1] = n, at[2] = n + 1, Reading(d, cs, n), Thorough(d, cs, ks, at, 1),
           cs[n].uses = <<>>, cs[n].k = "run", DOMAIN ks[1].cache \subseteq Files,
           "E0030" \notin ks[1].diags
    PROVE  /\ ~CyclicIn(d)
           /\ ks[1].diags = {} /\ cs[n].src.fault # "type" => ~WrongIn(d)
<1> DEFINE fs == DOMAIN ks[1].cache
<1>1. /\ n \in 1..n /\ n \in at[1]..(at[1 + 1] - 1) /\ n \in at[1]..(at[2] - 1)
      /\ ~(n + 1 < at[1 + 1]) /\ 1 \in 1..1 /\ (\A k \in 1..1 : k = 1) /\ ~(1 >= 2)
  OBVIOUS
<1>2. /\ cs[n].file = Main /\ cs[n].src = d[Main] /\ cs[n].src.fault \in {"none", "type"}
      /\ Written(cs[n].uses) = {}
  BY <1>1, WrittenFacts DEF Reading
<1>3. ~Reported(ks, 1)
  BY <1>1 DEF Reported
<1>4. /\ Rooted(d, ks, 1) /\ Frontier(d, cs, ks, at, 1) /\ Silent(d, cs, ks, at, 1)
  BY DEF Thorough
<1>5. ClosedIn(d, fs) /\ Grounded(d, fs)
  BY <1>1, <1>3, <1>4 DEF Rooted
<1>6. OpensIn(d, d[Main]) \subseteq fs
  <2>1. ASSUME NEW u \in Written(d[Main].uses), CanOpen(d, u)
        PROVE  u.name \in fs
    BY <1>1, <1>2, <1>3, <1>4, <2>1 DEF Frontier
  <2> QED
    BY <2>1 DEF OpensIn
<1> HIDE DEF fs
<1>7. ReachIn(d) \subseteq fs
  BY <1>5, <1>6, LeadsLeast DEF ReachIn, fs
<1>8. ~CyclicIn(d)
  BY <1>5, <1>7, GroundedAcyclic DEF CyclicIn
<1>9. ASSUME ks[1].diags = {}, cs[n].src.fault # "type"
      PROVE  ~WrongIn(d)
  <2>1. d[Main].fault = "none"
    BY <1>2, <1>9
  <2>2. \A f \in fs : d[f].fault # "type" /\ \A u \in Written(d[f].uses) : ~CannotOpen(d, u)
    BY <1>1, <1>4, <1>9 DEF Silent, fs
  <2>3. \A u \in Written(d[Main].uses) : ~CannotOpen(d, u)
    BY <1>1, <1>2, <1>4, <1>9 DEF Silent
  <2> QED
    BY <1>7, <1>8, <2>1, <2>2, <2>3 DEF WrongIn
<1> QED
  BY <1>8, <1>9

\* While heh is at work the diagnostics are right so far; the verdict is right when there
\* is one, and what is evaluated has passed.
Judged(d) ==
    /\ d = disk
    /\ Active => \E at, cs, ks, m, n :
          /\ Stack(at) /\ View(d, cs, ks, m, n)
          /\ Sound(d, cs, ks, at, m, n) /\ Thorough(d, cs, ks, at, m)
    /\ status = "rejected" => WrongIn(d)
    /\ status \notin {"start", "check", "rejected"} => ~WrongIn(d)
    /\ status = "rejected" /\ checkers # <<>> =>
          ("E0030" \in checkers[1].diags <=> CyclicIn(d))

Judging == edits = 0 => \E d : Judged(d)

\* A step of heh while it checks or evaluates keeps the diagnostics right.
LEMMA ActiveJudged ==
    ASSUME Typed, NEW at, Stack(at),
           Pass \/ OpenInterface \/ CloseInterface \/ ImportChecked \/ LoadModule \/ Leave,
           NEW bt, bt = Moved(at, Len(checkers), Len(checkers'), Len(calls')),
           NEW d, NEW cs, NEW ks, NEW m, NEW n, View(d, cs, ks, m, n),
           Sound(d, cs, ks, at, m, n), Thorough(d, cs, ks, at, m),
           NEW cs1, NEW ks1, NEW m1, NEW n1,
           cs1 = calls', ks1 = checkers', m1 = Len(checkers'), n1 = Len(calls')
    PROVE  Sound(d, cs1, ks1, bt, m1, n1) /\ Thorough(d, cs1, ks1, bt, m1)
<1>1. Ladder(at, m, n) /\ m \in Nat /\ n \in Nat
  BY LadderView DEF View
<1>2. Reading(d, cs, n) /\ Chain(d, cs, at, n) /\ Inside(d, cs, n) /\ Blamed(d, ks, m)
  BY DEF Sound
<1>3. PICK u : u = Current
  OBVIOUS
<1>4. CASE Pass
  <2>1. Passes(d, u, cs, ks, at, m, n, cs1, ks1)
    BY <1>3, <1>4, PassView
  <2>2. Sound(d, cs1, ks1, at, m, n) /\ Thorough(d, cs1, ks1, at, m)
    BY <1>1, <2>1, PassSound, PassThorough
  <2>3. bt = at
    BY <1>4, PassStack
  <2>4. m1 = m /\ n1 = n
    BY <1>4, PassEffect DEF View
  <2> QED
    BY <2>2, <2>3, <2>4
<1>5. CASE OpenInterface
  <2>1. OpensOne(d, u, cs, ks, at, m, n, cs1, ks1, bt) /\ m1 = m /\ n1 = n + 1
    BY <1>3, <1>5, OpenView
  <2>2. Sound(d, cs1, ks1, bt, m, n + 1) /\ Thorough(d, cs1, ks1, bt, m)
    BY <1>1, <2>1, OpenSound, OpenThorough
  <2> QED
    BY <2>1, <2>2
<1>6. CASE CloseInterface
  <2>1. ClosesOne(cs, ks, at, m, n, cs1, ks1, bt) /\ m1 = m + 1 /\ n1 = n
    BY <1>6, CloseView
  <2>2. Sound(d, cs1, ks1, bt, m + 1, n) /\ Thorough(d, cs1, ks1, bt, m + 1)
    BY <1>1, <1>2, <2>1, CloseSound, CloseThorough
  <2> QED
    BY <2>1, <2>2
<1>7. CASE ImportChecked
  <2>1. EndsOne(cs, ks, at, m, n, cs1, ks1, bt) /\ m1 = m - 1 /\ n1 = n - 1
    BY <1>7, CheckedView
  <2>2. Sound(d, cs1, ks1, bt, m - 1, n - 1) /\ Thorough(d, cs1, ks1, bt, m - 1)
    BY <1>1, <1>2, <2>1, CheckedSound, CheckedThorough
  <2> QED
    BY <2>1, <2>2
<1>8. CASE LoadModule
  <2>1. LoadsOne(d, u, cs, at, m, n, cs1, ks1, bt) /\ m1 = 1 /\ n1 = n + 2
    BY <1>3, <1>8, LoadView
  <2>2. Sound(d, cs1, ks1, bt, 1, n + 2)
    BY <1>1, <2>1, LoadSound
  <2>3. Thorough(d, cs1, ks1, bt, 1)
    <3>1. /\ n + 2 \in Nat /\ bt[1] = n + 2 /\ bt[2] = (n + 2) + 1
          /\ DOMAIN ks1[1].cache = {} /\ cs1[n + 2].uses = cs1[n + 2].src.uses
      BY <1>1, <2>1 DEF LoadsOne, Called
    <3>2. PICK p \in Nat : p = n + 2
      BY <3>1
    <3> QED
      BY <3>1, <3>2, FirstThorough
  <2> QED
    BY <2>1, <2>2, <2>3
<1>9. CASE Leave
  <2>1. /\ n1 = n - 1 /\ m1 = 0 /\ \A p \in 1..n - 1 : cs1[p] = cs[p]
    BY <1>9, LeaveEffect DEF View
  <2>2. bt[1] = n
    BY <1>9, LeaveStack DEF View
  <2>3. Reading(d, cs1, n - 1) /\ Chain(d, cs1, bt, n - 1) /\ Inside(d, cs1, n - 1)
    BY <1>1, <1>2, <2>1, <2>2, FewerSound
  <2>4. Blamed(d, ks1, 0)
    <3>1. 1..0 = {}
      OBVIOUS
    <3> QED
      BY <3>1 DEF Blamed
  <2> QED
    BY <2>1, <2>3, <2>4, NoneThorough DEF Sound
<1> QED
  BY <1>4, <1>5, <1>6, <1>7, <1>8, <1>9

\* The last call of the checker of the main file.
LEMMA RunView ==
    ASSUME Typed, NEW at, Stack(at), calls # <<>>, Call.k = "run", Call.uses = <<>>,
           NEW d, NEW cs, NEW ks, NEW m, NEW n, View(d, cs, ks, m, n),
           Sound(d, cs, ks, at, m, n), Thorough(d, cs, ks, at, m)
    PROVE  /\ m = 1 /\ n \in Nat /\ n \in 1..n /\ Call = cs[n] /\ This = ks[1]
           /\ cs[n].file = Main /\ cs[n].src = d[Main] /\ cs[n].src.fault \in {"none", "type"}
           /\ Verdict # {} => WrongIn(d)
           /\ Verdict = {} => ~WrongIn(d)
           /\ "E0030" \in Verdict <=> CyclicIn(d)
<1>1. /\ m = Len(checkers) /\ n = Len(calls) /\ cs = calls /\ ks = checkers
      /\ m \in Nat /\ n \in Nat /\ Ladder(at, m, n)
  BY LadderView DEF View
<1>2. n \in 1..n /\ n >= 1 /\ Call = cs[n]
  BY <1>1, CallFacts
<1>3. m = 1 /\ at[m] = n
  <2>1. Call.k \notin Evaluations /\ Call.k # "import" /\ Call.k # "interface"
    BY DEF Evaluations
  <2> QED
    BY <1>1, <2>1, TopFacts
<1>4. This = ks[1] /\ DOMAIN ks[1].cache \subseteq Files
  <2>1. checkers # <<>> /\ This = checkers[1] /\ checkers[1].cache \in CacheType
    BY <1>1, <1>3, CheckerFacts
  <2> QED
    BY <1>1, <2>1 DEF CacheType
<1>5. at[1] = n /\ at[2] = n + 1
  BY <1>1, <1>3 DEF Ladder
<1>6. Reading(d, cs, n) /\ Blamed(d, ks, 1) /\ Thorough(d, cs, ks, at, 1)
  BY <1>3 DEF Sound
<1>7. cs[n].file = Main /\ cs[n].src = d[Main] /\ cs[n].src.fault \in {"none", "type"}
  BY <1>2, <1>6 DEF Reading
<1>8. Verdict = ks[1].diags \cup (IF cs[n].src.fault = "type" THEN {"type"} ELSE {})
  BY <1>2, <1>4 DEF Verdict
<1>9. /\ ks[1].diags # {} => WrongIn(d)
      /\ "E0030" \in ks[1].diags => CyclicIn(d)
      /\ cs[n].src.fault = "type" => WrongIn(d)
  <2>1. 1 \in 1..1
    OBVIOUS
  <2> QED
    BY <1>2, <1>6, <2>1, ReadingFacts DEF Blamed
<1>10. "E0030" \notin ks[1].diags =>
           /\ ~CyclicIn(d)
           /\ ks[1].diags = {} /\ cs[n].src.fault # "type" => ~WrongIn(d)
  <2>1. cs[n].uses = <<>> /\ cs[n].k = "run"
    BY <1>2
  <2> QED
    BY <1>1, <1>2, <1>4, <1>5, <1>6, <2>1, RunRight
<1>11. /\ Verdict # {} => WrongIn(d)
       /\ Verdict = {} => ~WrongIn(d)
       /\ "E0030" \in Verdict <=> CyclicIn(d)
  BY <1>8, <1>9, <1>10
<1> QED
  BY <1>1, <1>2, <1>3, <1>4, <1>7, <1>11

\* The first call of the checker of the main file, and of its evaluation, are right.
LEMMA FirstSound ==
    ASSUME NEW d, NEW cs, NEW ks, NEW at, NEW m \in {0, 1}, cs[1].file = Main, Main \in Files,
           cs[1].src = d[Main], d[Main].fault \in {"none", "type"},
           cs[1].uses = cs[1].src.uses, cs[1].k \in {"run", "main"}, cs[1].loading = <<>>,
           m = 1 => ks[1].diags = {}
    PROVE  Sound(d, cs, ks, at, m, 1)
<1>1. /\ \A p \in 1..1 : p = 1
      /\ \A p, q \in 1..1 : ~(p < q)
  OBVIOUS
<1>2. Reading(d, cs, 1)
  BY <1>1 DEF Reading
<1>3. Chain(d, cs, at, 1)
  BY <1>1 DEF Chain
<1>4. Inside(d, cs, 1)
  BY <1>1, WrittenFacts DEF Inside
<1>5. Blamed(d, ks, m)
  <2>1. \A j \in 1..m : m = 1 /\ j = 1
    OBVIOUS
  <2> QED
    BY <2>1 DEF Blamed
<1> QED
  BY <1>2, <1>3, <1>4, <1>5 DEF Sound

\* heh begins to check, or to evaluate, what it has read.
LEMMA BeginJudged ==
    ASSUME Typed, Stacked, Begin, NEW d, Judged(d)
    PROVE  Judged(d)'
<1>1. /\ Len(calls') = 1 /\ calls'[1].file = Main /\ calls'[1].loading = <<>>
      /\ calls'[1].uses = calls'[1].src.uses /\ d = disk' /\ d = disk /\ Active'
  BY BeginEffect DEF Judged, Begin
<1>2. /\ Main \in Files
  BY FilesAssumption
<1>3. PICK cs, ks, m, n : cs = calls' /\ ks = checkers' /\ m = Len(checkers') /\ n = 1
  OBVIOUS
<1>4. View(d, cs, ks, m, n)'
  BY <1>1, <1>3 DEF View
<1>5. CASE /\ status' = "check" /\ calls'[1].k = "run" /\ calls'[1].src = disk[Main]
           /\ disk[Main].fault \notin {"missing", "syntax"}
           /\ checkers' = <<Checker(<<>>)>> /\ Len(checkers') = 1
           /\ Stack([j \in 1..2 |-> j])'
  <2>1. PICK at : at = [j \in 1..2 |-> j] /\ Stack(at)'
    BY <1>5
  <2>2. at[1] = 1 /\ at[2] = 1 + 1
    BY <2>1
  <2>3. DOMAIN ks[1].cache = {} /\ ks[1].diags = {}
    <3>1. \A c : <<c>>[1] = c
      OBVIOUS
    <3>2. ks[1] = Checker(<<>>)
      BY <1>3, <1>5, <3>1
    <3>3. ks[1].cache = <<>> /\ ks[1].diags = {}
      BY <3>2 DEF Checker
    <3>4. DOMAIN <<>> = {}
      OBVIOUS
    <3> QED
      BY <3>3, <3>4
  <2>4. cs[1].src = d[Main] /\ d[Main].fault \in {"none", "type"}
    <3>1. d[Main] \in Contents \cup {Missing} /\ Missing.fault = "missing"
      BY <1>1, <1>2 DEF Typed, Missing
    <3>2. d[Main] \in Content
      BY <1>1, <1>5, <3>1, FilesAssumption
    <3> QED
      BY <1>1, <1>3, <1>5, <3>2 DEF Content
  <2>5. Sound(d, cs, ks, at, 1, 1)
    BY <1>1, <1>2, <1>3, <1>5, <2>3, <2>4, FirstSound
  <2>6. Thorough(d, cs, ks, at, 1)
    <3>1. cs[1].uses = cs[1].src.uses
      BY <1>1, <1>3
    <3> QED
      BY <2>2, <2>3, <3>1, FirstThorough
  <2>7. m = 1 /\ n = 1
    BY <1>3, <1>5
  <2> QED
    BY <1>1, <1>4, <1>5, <2>1, <2>5, <2>6, <2>7 DEF Judged
<1>6. CASE /\ status = "check" /\ status' = "eval"
           /\ calls # <<>> /\ Call.k = "run" /\ Call.uses = <<>> /\ Verdict = {}
           /\ calls'[1].k = "main" /\ calls'[1].src = Call.src
           /\ checkers' = <<>> /\ Len(checkers') = 0
           /\ Stack([j \in 1..1 |-> 2])'
  <2>1. PICK bt : bt = [j \in 1..1 |-> 2] /\ Stack(bt)'
    BY <1>6
  <2>2. PICK at, cs0, ks0, m0, n0 :
               /\ Stack(at) /\ View(d, cs0, ks0, m0, n0)
               /\ Sound(d, cs0, ks0, at, m0, n0) /\ Thorough(d, cs0, ks0, at, m0)
    BY <1>6 DEF Judged, Active
  <2>3. /\ ~WrongIn(d) /\ Call.src = d[Main] /\ d[Main].fault \in {"none", "type"}
    BY <1>6, <2>2, RunView
  <2>4. Sound(d, cs, ks, bt, 0, 1)
    <3>1. cs[1].src = d[Main] /\ cs[1].k = "main"
      BY <1>3, <1>6, <2>3
    <3> QED
      BY <1>1, <1>2, <1>3, <2>3, <3>1, FirstSound
  <2>5. Thorough(d, cs, ks, bt, 0)
    BY NoneThorough
  <2>6. m = 0 /\ n = 1
    BY <1>3, <1>6
  <2> QED
    BY <1>1, <1>4, <1>6, <2>1, <2>3, <2>4, <2>5, <2>6 DEF Judged
<1> QED
  BY <1>5, <1>6, BeginEffect

\* heh comes to its verdict, or to the end of the evaluation.
LEMMA HaltJudged ==
    ASSUME Typed, Stacked, Halt, NEW d, Judged(d)
    PROVE  Judged(d)'
<1>1. d = disk /\ d = disk' /\ ~Active'
  BY HaltEffect DEF Judged, Halt
<1>2. CASE /\ status' = "rejected" /\ disk[Main].fault \in {"missing", "syntax"}
           /\ checkers' = <<>>
  <2>1. WrongIn(d)
    BY <1>1, <1>2 DEF WrongIn
  <2> QED
    BY <1>1, <1>2, <2>1 DEF Judged
<1>3. CASE /\ status' = "rejected"
           /\ calls # <<>> /\ Call.k = "run" /\ Call.uses = <<>> /\ Verdict # {}
           /\ checkers'[1].diags = Verdict
           /\ status = "check"
  <2>1. PICK at, cs, ks, m, n :
               /\ Stack(at) /\ View(d, cs, ks, m, n)
               /\ Sound(d, cs, ks, at, m, n) /\ Thorough(d, cs, ks, at, m)
    BY <1>3 DEF Judged, Active
  <2>2. WrongIn(d) /\ ("E0030" \in Verdict <=> CyclicIn(d))
    BY <1>3, <2>1, RunView
  <2> QED
    BY <1>1, <1>3, <2>2 DEF Judged
<1>4. CASE status = "eval" /\ status' # "rejected" /\ checkers' = <<>>
  <2>1. ~WrongIn(d)
    BY <1>4 DEF Judged
  <2> QED
    BY <1>1, <1>4, <2>1 DEF Judged
<1>5. LoadFault # "rejected"
  BY DEF LoadFault
<1> QED
  BY <1>2, <1>3, <1>4, <1>5, HaltEffect

\* Every step keeps the verdict right.
LEMMA NextJudging == Typed /\ Stacked /\ Judging /\ [Next]_vars => Judging'
<1> SUFFICES ASSUME Typed, Stacked, Judging, [Next]_vars, edits' = 0
             PROVE  \E d : Judged(d)'
  BY DEF Judging
<1>1. edits \in Nat
  BY EditsAssumption DEF Typed
<1>2. ~Edit
  BY <1>1 DEF Edit
<1>3. CASE UNCHANGED vars
  <2>1. PICK d : Judged(d)
    BY <1>3 DEF Judging, vars
  <2>2. Judged(d)'
    <3>1. ASSUME NEW at, NEW cs, NEW ks, NEW m, NEW n, Stack(at), View(d, cs, ks, m, n)
          PROVE  Stack(at)' /\ View(d, cs, ks, m, n)'
      BY <1>3, <3>1 DEF Stack, Level, View, vars
    <3> QED
      BY <1>3, <2>1, <3>1 DEF Judged, Active, vars
  <2> QED
    BY <2>2
<1>4. CASE Begin
  BY <1>4, BeginEffect, BeginJudged DEF Judging
<1>5. CASE Halt
  BY <1>5, HaltEffect, HaltJudged DEF Judging
<1>6. CASE /\ Active /\ status' = status
           /\ Pass \/ OpenInterface \/ CloseInterface \/ ImportChecked \/ LoadModule \/ Leave
  <2>1. PICK at1 : Stack(at1)
    BY <1>6 DEF Stacked
  <2>2. UNCHANGED <<disk, edits>>
    BY <1>6, <2>1, PassEffect, OpenEffect, CloseEffect, CheckedEffect, LoadEffect, LeaveEffect
  <2>3. PICK d : Judged(d)
    BY <2>2 DEF Judging
  <2>4. PICK at, cs, ks, m, n :
               /\ Stack(at) /\ View(d, cs, ks, m, n)
               /\ Sound(d, cs, ks, at, m, n) /\ Thorough(d, cs, ks, at, m)
    BY <1>6, <2>3 DEF Judged
  <2>5. PICK bt : bt = Moved(at, Len(checkers), Len(checkers'), Len(calls'))
    OBVIOUS
  <2>6. PICK cs1, ks1, m1, n1 :
               cs1 = calls' /\ ks1 = checkers' /\ m1 = Len(checkers') /\ n1 = Len(calls')
    OBVIOUS
  <2>7. Stack(bt)'
    BY <1>6, <2>4, <2>5, ActiveStacked DEF Stacked
  <2>8. Sound(d, cs1, ks1, bt, m1, n1) /\ Thorough(d, cs1, ks1, bt, m1)
    BY <1>6, <2>4, <2>5, <2>6, ActiveJudged
  <2>9. d = disk' /\ View(d, cs1, ks1, m1, n1)'
    BY <2>2, <2>3, <2>6 DEF Judged, View
  <2>10. /\ status' # "rejected"
         /\ status' \notin {"start", "check", "rejected"} => ~WrongIn(d)
    BY <1>6, <2>3 DEF Judged, Active
  <2>11. Judged(d)'
    BY <2>7, <2>8, <2>9, <2>10 DEF Judged
  <2> QED
    BY <2>11
<1> QED
  BY <1>2, <1>3, <1>4, <1>5, <1>6, Steps

\* The diagnostics and the verdict are always right.
LEMMA AlwaysJudging == Spec => [](Typed /\ Stacked /\ Judging)
<1>1. Init => Judging
  <2> SUFFICES ASSUME Init
               PROVE  \E d : Judged(d)
    BY DEF Judging
  <2>1. PICK d : d = disk
    OBVIOUS
  <2> QED
    BY <2>1 DEF Judged, Init, Active
<1> QED
  BY <1>1, AlwaysStacked, NextJudging, PTL DEF Spec

\* With the files left alone, heh rejects exactly the programs that something is wrong
\* with, in whatever file and however it is reached: no cached interface and no checker
\* inside another hides a diagnostic or makes one up.
THEOREM VerdictCorrect == Spec => []VerdictRight
<1>1. Judging => VerdictRight
  <2> SUFFICES ASSUME edits = 0, status \notin {"start", "check"}, NEW d, Judged(d)
               PROVE  status = "rejected" <=> Wrong
    BY DEF Judging, VerdictRight
  <2>1. Wrong <=> WrongIn(d)
    BY GraphOfDisk DEF Judged
  <2> QED
    BY <2>1 DEF Judged
<1> QED
  BY <1>1, AlwaysJudging, PTL

\* With the files left alone, E0030 is reported of the program exactly where the files it
\* is made of import each other in a circle.
THEOREM CyclesCorrect == Spec => []CyclesReported
<1>1. Judging => CyclesReported
  <2> SUFFICES ASSUME edits = 0, status = "rejected", checkers # <<>>, NEW d, Judged(d)
               PROVE  "E0030" \in checkers[1].diags <=> Cyclic
    BY DEF Judging, CyclesReported
  <2>1. Cyclic <=> CyclicIn(d)
    BY GraphOfDisk DEF Judged
  <2> QED
    BY <2>1 DEF Judged
<1> QED
  BY <1>1, AlwaysJudging, PTL

\* With the files left alone, a checker that takes an interface from its cache takes it
\* with the types of its lets, but where a cycle has been reported.
THEOREM InterfacesComplete == Spec => CompleteInterfaces
<1>1. Typed /\ Stacked /\ Judging =>
          [edits = 0 /\ ReuseInterface /\ ~This.cache[Current.name].lets =>
               \E i \in DOMAIN checkers : "E0030" \in checkers[i].diags]_vars
  <2> SUFFICES ASSUME Typed, Stacked, Judging, edits = 0, ReuseInterface,
                      ~This.cache[Current.name].lets,
                      \A i \in DOMAIN checkers : "E0030" \notin checkers[i].diags
               PROVE  FALSE
    OBVIOUS
  <2>1. /\ calls # <<>> /\ Call.uses # <<>> /\ Call.k \in Checks \cup {"interface"}
        /\ Current.form # "std" /\ Refusal = "" /\ Cached
    BY DEF ReuseInterface, Importing, Following
  <2>2. PICK d : Judged(d)
    BY DEF Judging
  <2>3. PICK at, cs, ks, m, n :
             /\ Stack(at) /\ View(d, cs, ks, m, n)
             /\ Sound(d, cs, ks, at, m, n) /\ Thorough(d, cs, ks, at, m)
    BY <2>1, <2>2 DEF Judged, Stacked, Staged
  <2>4. /\ m = Len(checkers) /\ n = Len(calls) /\ cs = calls /\ ks = checkers /\ d = disk
        /\ m \in Nat /\ n \in Nat /\ Ladder(at, m, n)
    BY <2>3, LadderView DEF View
  <2>5. m \in 1..m /\ This = ks[m] /\ n \in 1..n /\ Call = cs[n]
    <3>1. n \in 1..n /\ Call = cs[n]
      <4>1. Len(calls) \in Nat \ {0} /\ Call = calls[Len(calls)]
        BY <2>1, CallFacts
      <4>2. n \in Nat \ {0}
        BY <2>4, <4>1
      <4> QED
        BY <2>4, <4>1, <4>2
    <3>2. m \in 1..m /\ This = ks[m]
      BY <2>1, <2>3, <2>4, WhoFollows
    <3> QED
      BY <3>1, <3>2
  <2>6. PICK g : g = Current.name
    OBVIOUS
  <2>7. g \in DOMAIN ks[m].cache /\ ~ks[m].cache[g].lets
    BY <2>1, <2>5, <2>6 DEF Cached
  <2>8. PICK k \in 2..m : cs[at[k]].file = g
    BY <2>3, <2>5, <2>7 DEF Thorough, Unlet
  <2>9. g \in OpensIn(d, d[cs[n].file])
    <3>1. CanOpen(d, Current)
      <4>1. Readable(Current.name) /\ Named.fault # "syntax"
        BY <2>1 DEF Refusal
      <4> QED
        BY <2>1, <2>4, <4>1, CurrentView
    <3>2. Current \in Written(cs[n].src.uses)
      <4>1. Call.uses \in Seq(Use) /\ Current = Call.uses[1]
        BY <2>1, CallFacts, CurrentFacts
      <4>2. Written(Call.uses) = {Current} \cup Written(Tail(Call.uses))
        BY <2>1, <4>1, WrittenFacts
      <4>3. Written(cs[n].uses) \subseteq Written(cs[n].src.uses)
        BY <2>3, <2>5 DEF Sound, Reading
      <4> QED
        BY <2>5, <4>2, <4>3
    <3> QED
      BY <2>3, <2>5, <2>6, <3>1, <3>2, ReadingFacts DEF Sound
  <2>10. at[k] \in 1..n /\ at[1] <= at[k]
    <3>1. k \in 1..m /\ 1 \in 1..m + 1 /\ k \in 1..m + 1 /\ 1 < k
      BY <2>4
    <3>2. at[k] \in 1..n /\ at[1] \in 1..n + 1 /\ at[1] < at[k]
      BY <2>4, <3>1 DEF Ladder
    <3> QED
      BY <2>4, <3>2
  <2>11. g \in LeadsIn(d, d[g])
    BY <2>3, <2>4, <2>5, <2>8, <2>9, <2>10, ChainOpen DEF Sound
  <2>12. ~Reported(ks, m)
    <3>1. DOMAIN checkers = 1..m
      BY <2>4 DEF Typed
    <3> QED
      BY <2>4, <3>1 DEF Reported
  <2>13. ClosedIn(d, DOMAIN ks[m].cache) /\ Grounded(d, DOMAIN ks[m].cache)
    BY <2>3, <2>5, <2>12 DEF Thorough, Rooted
  <2> QED
    BY <2>7, <2>11, <2>13, GroundedAcyclic
<1> QED
  BY <1>1, AlwaysJudging, PTL DEF CompleteInterfaces

-----------------------------------------------------------------------------
(* What is accepted can be loaded.                                           *)

\* The forms of import that the checker and the evaluator both know: no path without
\* an extension in a directory of its own, and std/ before standard modules only.
PlainForms ==
    \A c \in Contents : \A u \in Written(c.uses) :
        u.form # "bare" /\ (u.form = "std" => u.name \in Std)

\* Where nothing is wrong, the evaluator can load what it comes to.
LEMMA LoadsRight ==
    ASSUME PlainForms, Typed, NEW at, Stack(at), Loading,
           NEW d, NEW cs, NEW ks, NEW m, NEW n, View(d, cs, ks, m, n),
           Sound(d, cs, ks, at, m, n), ~WrongIn(d)
    PROVE  LoadFault = ""
<1>1. calls # <<>> /\ Call.uses # <<>> /\ ~BindsStd(Current)
  BY DEF Loading, Following
<1>2. /\ d = disk /\ n \in Nat /\ n \in 1..n /\ Call = cs[n]
      /\ Call.uses \in Seq(Use) /\ Call.file \in Files /\ Call.loading \in Seq(Files)
  BY <1>1, CallFacts DEF View
<1>3. Reading(d, cs, n) /\ Inside(d, cs, n)
  BY DEF Sound
<1>4. Current \in Use /\ Current \in Written(Call.src.uses)
  <2>1. Current = Call.uses[1] /\ Current \in Use
    BY <1>1, CurrentFacts
  <2>2. Written(Call.uses) = {Current} \cup Written(Tail(Call.uses))
    BY <1>1, <1>2, <2>1, WrittenFacts
  <2>3. Written(Call.uses) \subseteq Written(Call.src.uses)
    BY <1>2, <1>3 DEF Reading
  <2> QED
    BY <2>1, <2>2, <2>3
<1>5. Current.form \in {"vendor", "file"}
  <2>1. Call.src \in Contents
    <3>1. Call.src = d[Call.file] /\ Call.src.fault \in {"none", "type"}
      BY <1>2, <1>3 DEF Reading
    <3>2. d[Call.file] \in Contents \cup {Missing}
      BY <1>2 DEF Typed
    <3> QED
      BY <3>1, <3>2 DEF Missing
  <2>2. Current.form # "bare" /\ (Current.form = "std" => Current.name \in Std)
    BY <1>4, <2>1 DEF PlainForms
  <2>3. Current.form \in Forms
    BY <1>4 DEF Use
  <2> QED
    BY <1>1, <2>2, <2>3 DEF BindsStd, Forms
<1>6. ~CannotOpen(d, Current)
  BY <1>2, <1>3, <1>4, ReadingFacts
<1>7. Readable(Current.name) /\ Named.fault # "syntax" /\ CanOpen(d, Current)
  <2>1. Current.form # "std"
    BY <1>5
  <2> QED
    BY <1>1, <1>2, <1>6, <2>1, CurrentView
<1>8. ~Holds(Call.loading, Current.name)
  <2>1. SUFFICES ASSUME Current.name \in Written(Call.loading)
                 PROVE  FALSE
    BY DEF Holds, Written
  <2>2. Current.name \in OpensIn(d, d[Call.file]) /\ Current.name \in ReachIn(d)
    BY <1>2, <1>3, <1>4, <1>7, ReadingFacts
  <2>3. Call.file = Current.name \/ Call.file \in LeadsIn(d, d[Current.name])
    BY <1>2, <1>3, <2>1 DEF Inside
  <2>4. Current.name \in LeadsIn(d, d[Current.name])
    BY <2>2, <2>3, LeadsClosed, LeadsOn
  <2>5. CyclicIn(d)
    BY <2>2, <2>4 DEF CyclicIn
  <2> QED
    BY <2>5 DEF WrongIn
<1> QED
  BY <1>5, <1>7, <1>8 DEF LoadFault

\* ... and checking it once more finds nothing.
LEMMA ModuleRight ==
    ASSUME Typed, NEW at, Stack(at), Followed("module"),
           NEW d, NEW cs, NEW ks, NEW m, NEW n, View(d, cs, ks, m, n),
           Sound(d, cs, ks, at, m, n), ~WrongIn(d)
    PROVE  Verdict = {}
<1>1. calls # <<>> /\ Call.k = "module"
  BY DEF Followed
<1>2. n \in 1..n /\ Call = cs[n]
  BY <1>1, CallFacts DEF View
<1>3. m \in 1..m /\ This = ks[m]
  <2>1. Call.k \in Checks \cup {"interface"}
    BY <1>1 DEF Checks
  <2> QED
    BY <1>1, <2>1, WhoFollows DEF View
<1>4. ks[m].diags = {}
  BY <1>3 DEF Sound, Blamed
<1>5. cs[n].src.fault # "type"
  BY <1>2, ReadingFacts DEF Sound
<1> QED
  BY <1>2, <1>3, <1>4, <1>5 DEF Verdict

\* Where every import has a form that both know, what the checker has accepted the
\* evaluator loads without a fault, if nobody changes the files in between.
THEOREM EvaluationCorrect ==
    ASSUME PlainForms
    PROVE  Spec => []EvaluationFollows
<1>1. Init => EvaluationFollows
  BY DEF Init, EvaluationFollows
<1>2. Typed /\ Stacked /\ Judging /\ EvaluationFollows /\ [Next]_vars => EvaluationFollows'
  <2> SUFFICES ASSUME Typed, Stacked, Judging, EvaluationFollows, [Next]_vars, edits' = 0
               PROVE  status' \in {"start", "check", "rejected", "eval", "done"}
    BY DEF EvaluationFollows
  <2>1. edits \in Nat
    BY EditsAssumption DEF Typed
  <2>2. CASE Edit
    BY <2>1, <2>2 DEF Edit
  <2>3. CASE UNCHANGED vars
    BY <2>3 DEF EvaluationFollows, vars
  <2>4. CASE Begin
    BY <2>4 DEF Begin, Active
  <2>5. CASE Halt
    <3>1. edits = 0
      BY <2>5, HaltEffect
    <3>2. PICK d : Judged(d)
      BY <3>1 DEF Judging
    <3>3. CASE status = "eval" /\ ((ModuleChecked /\ Verdict # {}) \/ FaultLoad)
      <4>1. PICK at, cs, ks, m, n :
                 /\ Stack(at) /\ View(d, cs, ks, m, n)
                 /\ Sound(d, cs, ks, at, m, n) /\ ~WrongIn(d)
        BY <3>2, <3>3 DEF Judged, Active
      <4>2. CASE ModuleChecked /\ Verdict # {}
        BY <4>1, <4>2, ModuleRight DEF ModuleChecked
      <4>3. CASE FaultLoad
        BY <4>1, <4>3, LoadsRight DEF FaultLoad
      <4> QED
        BY <3>3, <4>2, <4>3
    <3>4. CASE status' \in {"rejected", "done"}
      BY <3>4
    <3> QED
      BY <2>5, <3>3, <3>4, HaltEffect
  <2>6. CASE Active /\ status' = status
    BY <2>6 DEF Active
  <2> QED
    BY <2>2, <2>3, <2>4, <2>5, <2>6, Steps
<1> QED
  BY <1>1, <1>2, AlwaysJudging, PTL DEF Spec
=============================================================================
