----------------------------- MODULE HehImports -----------------------------
(***************************************************************************)
(* How `heh run` follows imports (check.rs, eval.rs).  The checker loads   *)
(* the interface of every imported file, depth first, and checks the file  *)
(* in a checker of its own; then the evaluator loads the imported files    *)
(* once more, each checked again before it is evaluated.  The files are    *)
(* read from a disk that an editor may change in between.                  *)
(*                                                                         *)
(* `calls` is the stack of Rust calls: one frame per check_file_in ("run", *)
(* "import" or "module", by who asked), load_module_interface              *)
(* ("interface"), install_defs of an imported file ("load") and of the     *)
(* main file ("main"), each with the imports it has still to follow.       *)
(* `checkers` holds the checkers at work, the innermost last.              *)
(*                                                                         *)
(* A name stands for the one file its paths resolve to.  What a file holds *)
(* but its imports is one of three: it is right, the parser refuses it, or *)
(* the checker does.  Evaluating its definitions is left out.              *)
(***************************************************************************)
EXTENDS Naturals, Sequences, FiniteSets

CONSTANTS
    Files,      \* the names of local files
    Main,       \* the file given to heh run
    Std,        \* the names of the standard modules (MODULES)
    Contents,   \* what a file may hold: its imports, and what is wrong with it
    Edited,     \* what files hold where some change while heh runs
    MaxEdits    \* and how often they change

\* An import has the form of its path: "std" is std/x; "file" is a path that ends in
\* .heh; "vendor" is vendor/x, or ./x without an extension; "bare" is any other, as x
\* or lib/x.
Forms == {"std", "vendor", "file", "bare"}
Use   == [form : Forms, name : Files \cup Std]

\* "syntax": the lexer or the parser refuses it; "type": the checker does.
Content == [uses : Seq(Use), fault : {"none", "syntax", "type"}]

ASSUME FilesAssumption == Main \in Files /\ Contents \subseteq Content /\ IsFiniteSet(Files)
ASSUME EditedAssumption == Edited \subseteq Contents
ASSUME EditsAssumption == MaxEdits \in Nat

Missing == [uses |-> <<>>, fault |-> "missing"]

VARIABLES
    disk,      \* the content of each file
    edits,     \* the changes so far
    calls,
    checkers,
    status     \* "start", "check", "eval", "done", "rejected" or the code of a fault

vars == <<disk, edits, calls, checkers, status>>

Frame(k, file, src, loading) ==
    [k |-> k, file |-> file, src |-> src, uses |-> src.uses, loading |-> loading]

\* A checker: the interfaces it knows (module_cache), the files it is loading
\* (module_loading) and the codes of its diagnostics.
Checker(cache) == [cache |-> cache, loading |-> <<>>, diags |-> {}]

\* An interface is cached with the content it was made from (by its hash).  It
\* has the types of the top-level lets only once the file has been checked.
Interface(src, lets) == [src |-> src, lets |-> lets]

Known(cache, f, i) == [g \in DOMAIN cache \cup {f} |-> IF g = f THEN i ELSE cache[g]]

Final(s)    == s[Len(s)]
Butlast(s)  == SubSeq(s, 1, Len(s) - 1)
OnTop(s, x) == [s EXCEPT ![Len(s)] = x]

Call    == Final(calls)
This    == Final(checkers)
Current == Head(Call.uses)
Named   == disk[Current.name]

\* The top frame is of one of these kinds and has an import to follow.
Following(kinds) == calls # <<>> /\ Call.k \in kinds /\ Call.uses # <<>>
Followed(kind)   == calls # <<>> /\ Call.k = kind /\ Call.uses = <<>>

Advanced == OnTop(calls, [Call EXCEPT !.uses = Tail(@)])

Holds(seq, x) == \E i \in DOMAIN seq : seq[i] = x

-----------------------------------------------------------------------------
(* The checker.                                                              *)

Checks == {"run", "import", "module"}

\* cmd_run reads and parses the main file, then checks it.
ReadMain ==
    /\ status = "start"
    /\ LET src == disk[Main] IN
       IF src.fault \in {"missing", "syntax"}
       THEN /\ status' = "rejected"
            /\ UNCHANGED <<calls, checkers>>
       ELSE /\ status' = "check"
            /\ calls' = <<Frame("run", Main, src, <<>>)>>
            /\ checkers' = <<Checker(<<>>)>>
    /\ UNCHANGED <<disk, edits>>

\* A standard module has its interface built in.
SkipStd ==
    /\ Following(Checks \cup {"interface"})
    /\ Current.form = "std"
    /\ calls' = Advanced
    /\ UNCHANGED <<disk, edits, checkers, status>>

Importing == Following(Checks \cup {"interface"}) /\ Current.form # "std"

\* A bug: a file that cannot be read is an empty one.
ReadableOrEmpty(name) == TRUE

\* A standard name that is no file of ours is no file at all.
Readable(name) == name \in Files /\ disk[name].fault # "missing"

Cached == Current.name \in DOMAIN This.cache /\ This.cache[Current.name].src = Named

\* A bug: the checker forgets to look for the file in module_loading.
RefusalButCycles ==
    IF ~Readable(Current.name) THEN "E0032"
    ELSE IF Named.fault = "syntax" THEN "E0033"
    ELSE ""

\* The code load_module_interface refuses the current import with, or "".
Refusal ==
    IF ~Readable(Current.name) THEN "E0032"
    ELSE IF Holds(This.loading, Current.name) THEN "E0030"
    ELSE IF Named.fault = "syntax" THEN "E0033"
    ELSE ""

\* A bug: a file the parser refuses stays in module_loading.
RefuseKeepsLoading ==
    /\ Importing
    /\ Refusal # ""
    /\ checkers' = OnTop(checkers,
          [This EXCEPT !.diags = @ \cup {Refusal},
                       !.loading = IF Refusal = "E0033" THEN Append(@, Current.name) ELSE @])
    /\ calls' = Advanced
    /\ UNCHANGED <<disk, edits, status>>

\* A bug: the checker tries a refused import again.
RefuseRetries ==
    /\ Importing
    /\ Refusal # ""
    /\ checkers' = OnTop(checkers, [This EXCEPT !.diags = @ \cup {Refusal}])
    /\ UNCHANGED <<disk, edits, calls, status>>

RefuseImport ==
    /\ Importing
    /\ Refusal # ""
    /\ checkers' = OnTop(checkers, [This EXCEPT !.diags = @ \cup {Refusal}])
    /\ calls' = Advanced
    /\ UNCHANGED <<disk, edits, status>>

ReuseInterface ==
    /\ Importing
    /\ Refusal = "" /\ Cached
    /\ calls' = Advanced
    /\ UNCHANGED <<disk, edits, checkers, status>>

OpenInterface ==
    /\ Importing
    /\ Refusal = "" /\ ~Cached
    /\ checkers' = OnTop(checkers, [This EXCEPT !.loading = Append(@, Current.name)])
    /\ calls' = Append(Advanced, Frame("interface", Current.name, Named, <<>>))
    /\ UNCHANGED <<disk, edits, status>>

\* A bug: the inner checker does not know what this one knows.
CloseForgetful ==
    /\ Followed("interface")
    /\ LET cache == Known(This.cache, Call.file, Interface(Call.src, FALSE)) IN
       checkers' = Append(OnTop(checkers, [This EXCEPT !.cache = cache,
                                                       !.loading = Butlast(@)]),
                          Checker(<<>>))
    /\ calls' = OnTop(calls, Frame("import", Call.file, Call.src, <<>>))
    /\ UNCHANGED <<disk, edits, status>>

\* Its imports followed, the interface is cached without its lets, the file is no
\* longer loading, and a checker that knows what this one knows checks it.
CloseInterface ==
    /\ Followed("interface")
    /\ LET cache == Known(This.cache, Call.file, Interface(Call.src, FALSE)) IN
       checkers' = Append(OnTop(checkers, [This EXCEPT !.cache = cache,
                                                       !.loading = Butlast(@)]),
                          Checker(cache))
    /\ calls' = OnTop(calls, Frame("import", Call.file, Call.src, <<>>))
    /\ UNCHANGED <<disk, edits, status>>

\* The diagnostics of a checker that has followed all imports of its file.
Verdict == This.diags \cup (IF Call.src.fault = "type" THEN {"type"} ELSE {})

\* A bug: the diagnostics of the inner checker are lost.
ImportUnreported ==
    /\ Followed("import")
    /\ LET outer == checkers[Len(checkers) - 1] IN
       checkers' = OnTop(Butlast(checkers),
            [outer EXCEPT !.cache = Known(@, Call.file, Interface(Call.src, TRUE))])
    /\ calls' = Butlast(calls)
    /\ UNCHANGED <<disk, edits, status>>

\* A bug: the interface with the types of the lets is not cached.
ImportWithoutLets ==
    /\ Followed("import")
    /\ LET outer == checkers[Len(checkers) - 1] IN
       checkers' = OnTop(Butlast(checkers),
            [outer EXCEPT !.diags = IF Verdict = {} THEN @ ELSE @ \cup {"E0033"}])
    /\ calls' = Butlast(calls)
    /\ UNCHANGED <<disk, edits, status>>

\* The innermost checker is done with an imported file.
ImportChecked ==
    /\ Followed("import")
    /\ LET outer == checkers[Len(checkers) - 1] IN
       checkers' = OnTop(Butlast(checkers),
            [outer EXCEPT
                !.cache = Known(@, Call.file, Interface(Call.src, TRUE)),
                !.diags = IF Verdict = {} THEN @ ELSE @ \cup {"E0033"}])
    /\ calls' = Butlast(calls)
    /\ UNCHANGED <<disk, edits, status>>

\* ... with the main file: heh rejects the program, or evaluates what it read.
RunChecked ==
    /\ Followed("run")
    /\ IF Verdict = {}
       THEN /\ status' = "eval"
            /\ calls' = <<Frame("main", Main, Call.src, <<>>)>>
            /\ checkers' = <<>>
       ELSE /\ status' = "rejected"
            /\ calls' = <<>>
            /\ checkers' = OnTop(checkers, [This EXCEPT !.diags = Verdict])
    /\ UNCHANGED <<disk, edits>>

\* ... with a file the evaluator is loading.
ModuleChecked ==
    /\ Followed("module")
    /\ IF Verdict = {}
       THEN calls' = Butlast(calls) /\ UNCHANGED status
       ELSE calls' = <<>> /\ status' = "E0033"
    /\ checkers' = Butlast(checkers)
    /\ UNCHANGED <<disk, edits>>

-----------------------------------------------------------------------------
(* The evaluator.                                                            *)

Evaluations == {"main", "load"}

\* module_record: the last segment of the path names a standard module, whatever
\* stands before it; that of a quoted file has its extension.
BindsStd(use) == use.form # "file" /\ use.name \in Std

BindStd ==
    /\ Following(Evaluations)
    /\ BindsStd(Current)
    /\ calls' = Advanced
    /\ UNCHANGED <<disk, edits, checkers, status>>

Loading == Following(Evaluations) /\ ~BindsStd(Current)

\* The code install_defs or load_module faults with, or "".
LoadFault ==
    IF Current.form \notin {"vendor", "file"} THEN "E0031"
    ELSE IF ~Readable(Current.name) THEN "E0032"
    ELSE IF Holds(Call.loading, Current.name) THEN "E0030"
    ELSE IF Named.fault = "syntax" THEN "syntax"
    ELSE ""

FaultLoad ==
    /\ Loading
    /\ LoadFault # ""
    /\ status' = LoadFault
    /\ calls' = <<>>
    /\ UNCHANGED <<disk, edits, checkers>>

\* A bug: the importing file keeps what its imports have loaded.
LoadRemembers ==
    /\ Loading
    /\ LoadFault = ""
    /\ LET loading == Append(Call.loading, Current.name) IN
       calls' = OnTop(calls, [Call EXCEPT !.uses = Tail(@), !.loading = loading]) \o
            <<Frame("load", Current.name, Named, loading),
              Frame("module", Current.name, Named, <<>>)>>
    /\ checkers' = Append(checkers, Checker(<<>>))
    /\ UNCHANGED <<disk, edits, status>>

\* load_module: the file is checked by a new checker, then evaluated.
LoadModule ==
    /\ Loading
    /\ LoadFault = ""
    /\ calls' = Advanced \o
            <<Frame("load", Current.name, Named, Append(Call.loading, Current.name)),
              Frame("module", Current.name, Named, <<>>)>>
    /\ checkers' = Append(checkers, Checker(<<>>))
    /\ UNCHANGED <<disk, edits, status>>

\* Its namespace is bound in the file that imports it.
ModuleLoaded ==
    /\ Followed("load")
    /\ calls' = Butlast(calls)
    /\ UNCHANGED <<disk, edits, checkers, status>>

MainLoaded ==
    /\ Followed("main")
    /\ calls' = <<>>
    /\ status' = "done"
    /\ UNCHANGED <<disk, edits, checkers>>

-----------------------------------------------------------------------------
\* The user saves a file, or removes it, while heh is at work.  Edited and
\* MaxEdits bound this.
Edit ==
    /\ edits < MaxEdits
    /\ \A f \in Files : disk[f] \in Edited \cup {Missing}
    /\ \E f \in Files, c \in Edited \cup {Missing} :
          c # disk[f] /\ disk' = [disk EXCEPT ![f] = c]
    /\ edits' = edits + 1
    /\ UNCHANGED <<calls, checkers, status>>

Init ==
    /\ disk \in [Files -> Contents \cup {Missing}]
    /\ edits = 0
    /\ calls = <<>>
    /\ checkers = <<>>
    /\ status = "start"

Ended == status \notin {"start", "check", "eval"}
Gone  == Ended /\ UNCHANGED vars

Check == \/ ReadMain \/ SkipStd \/ RefuseImport \/ ReuseInterface \/ OpenInterface
         \/ CloseInterface \/ ImportChecked \/ RunChecked \/ ModuleChecked
Eval  == BindStd \/ FaultLoad \/ LoadModule \/ ModuleLoaded \/ MainLoaded
Heh   == Check \/ Eval

Next == Heh \/ Edit \/ Gone

\* heh is one thread that waits for nobody; nobody has to edit.
Spec == Init /\ [][Next]_vars /\ WF_vars(Heh)

-----------------------------------------------------------------------------
(* What imports promise (SPEC.md section 9).                                 *)

Simple(s) == \A i, j \in DOMAIN s : s[i] = s[j] => i = j

\* A type invariant.
TypeOK ==
    /\ disk \in [Files -> Content \cup {Missing}]
    /\ edits \in 0..MaxEdits
    /\ calls \in Seq([k : Checks \cup Evaluations \cup {"interface"}, file : Files,
                       src : Content, uses : Seq(Use), loading : Seq(Files)])
    /\ \A i \in DOMAIN checkers :
          /\ DOMAIN checkers[i].cache \subseteq Files
          /\ checkers[i].loading \in Seq(Files)

\* No file is loaded inside its own loading, by a checker or by the evaluator, and
\* whatever changes on the disk meanwhile: the chain of imports stays finite.
LoadingSimple ==
    /\ \A i \in DOMAIN checkers : Simple(checkers[i].loading)
    /\ \A i \in DOMAIN calls : Simple(calls[i].loading)

\* Checkers start checkers, which know less and less that is not cached: there
\* are never more of them on the Rust stack than files and edits allow.
NestingBounded == Len(checkers) <= Cardinality(Files) + 1 + edits

\* The files a content imports whose interfaces can be opened; a set of files that
\* holds what its files open; all files a content leads to, the least such set.
Opens(src) ==
    {f \in Files : /\ disk[f].fault \in {"none", "type"}
                    /\ \E i \in DOMAIN src.uses :
                          src.uses[i].name = f /\ src.uses[i].form # "std"}

OpenedWithin(fs) == \A f \in fs : Opens(disk[f]) \subseteq fs

LeadsTo(src) ==
    {f \in Files : \A fs \in SUBSET Files :
                        Opens(src) \subseteq fs /\ OpenedWithin(fs) => f \in fs}

Reached == LeadsTo(disk[Main])

Cyclic == \E f \in Reached : f \in LeadsTo(disk[f])

Unloadable(src) ==
    \E i \in DOMAIN src.uses :
        /\ src.uses[i].form # "std"
        /\ ~Readable(src.uses[i].name) \/ disk[src.uses[i].name].fault = "syntax"

Wrong ==
    \/ disk[Main].fault # "none"
    \/ Cyclic
    \/ \E f \in Reached : disk[f].fault = "type"
    \/ \E f \in Reached \cup {Main} : Unloadable(disk[f])

\* With the files left alone, heh rejects exactly the programs that are wrong, in
\* whatever file and however it is reached: no cached interface, and no checker
\* inside another, hides a diagnostic or makes one up.
VerdictRight ==
    edits = 0 /\ status \notin {"start", "check"} => (status = "rejected" <=> Wrong)

\* Import cycles are a compile error E0030 (SPEC.md:399), and nothing else is:
\* a file imported twice, or by two files, is no cycle.
CyclesReported ==
    edits = 0 /\ status = "rejected" /\ checkers # <<>> =>
        ("E0030" \in checkers[1].diags <=> Cyclic)

\* What the checker has accepted, the evaluator loads without a fault.
EvaluationFollows ==
    edits = 0 => status \in {"start", "check", "rejected", "eval", "done"}

\* An interface is used without its lets only where a cycle is reported.
CompleteInterfaces ==
    [][edits = 0 /\ ReuseInterface /\ ~This.cache[Current.name].lets =>
            \E i \in DOMAIN checkers : "E0030" \in checkers[i].diags]_vars

\* What the evaluator binds for an import is what the checker gave it a type of: a
\* standard module for a path in std/, and a file for any other (SPEC.md:385-387).
BoundAsChecked == [][BindStd => Current.form = "std"]_vars

\* heh comes to an end on every import graph, also on one that changes.
Terminates == <>Ended
=============================================================================
