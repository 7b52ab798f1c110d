------------------------------- MODULE HehRun -------------------------------
(***************************************************************************)
(* `heh run` (cmd_run in main.rs) from the syntax on: the checker goes     *)
(* through the items of the file, and the program starts only if there is  *)
(* no diagnostic.  The run itself is the evaluator's, in one step; the VM  *)
(* is held against it elsewhere (HehMeaning).                              *)
(***************************************************************************)
EXTENDS HehScoping

CONSTANTS
    FileOf(_),      \* the files, by the names of the programs
    Names,          \* and those names
    MaxCallDepth,   \* MAX_CALL_DEPTH
    MaxIter         \* a loop of the evaluator that iterates more often hangs

VARIABLES
    prog,      \* the name of the program
    file,      \* its syntax
    items,     \* those of its items that are to be checked
    checker,   \* the state of its checker
    out,       \* the lines it has printed
    status     \* <<"check">>, <<"rejected">>, or how the evaluator ended

vars == <<prog, file, items, checker, out, status>>

Checker  == INSTANCE HehCheck
TreeWalk == INSTANCE HehTreeWalk

Checking == <<"check">>

Init ==
    /\ prog \in Names
    /\ file = FileOf(prog)
    /\ items = file.items
    /\ checker = Checker!Start(file)
    /\ out = <<>>
    /\ status = Checking

\* check_file_in: a function or a statement.
CheckItem ==
    /\ status = Checking /\ items # <<>>
    /\ checker' = Checker!CheckStmt(Head(items), checker)
    /\ items' = Tail(items)
    /\ UNCHANGED <<prog, file, out, status>>

Checked == status = Checking /\ items = <<>>

Reject ==
    /\ Checked /\ checker.codes # {}
    /\ status' = <<"rejected">>
    /\ UNCHANGED <<prog, file, items, checker, out>>

\* What the program does.
EndsAs(meaning) ==
    /\ out' = meaning.out
    /\ status' = meaning.ending

Run ==
    /\ Checked /\ checker.codes = {}
    /\ EndsAs(TreeWalk!Meaning(file))
    /\ UNCHANGED <<prog, file, items, checker>>

Over == status # Checking

\* The process is gone.
Gone == Over /\ UNCHANGED vars

Next == CheckItem \/ Reject \/ Run \/ Gone

Spec == Init /\ [][Next]_vars

-----------------------------------------------------------------------------
\* Between two items the checker is back in the scope of the file, in no
\* function and no loop.
TypeOK ==
    /\ prog \in Names
    /\ Len(items) <= Len(file.items)
    /\ Len(checker.scopes) = 1 /\ checker.ret = <<>> /\ checker.loop = 0
    /\ IsFiniteSet(checker.codes)
    /\ status[1] \in {"check", "rejected", "done", "fault", "exit", "hang"}

\* What the checker cannot know: an index out of bounds (E0106), a division by
\* zero (E0200), a negative exponent (E0201), a recursion too deep (E0202).
DataFaults == {"E0106", "E0200", "E0201", "E0202"}

\* A program that the checker accepts never faults for a name, a type, a number
\* of arguments, an assignment or a match without an arm (SPEC.md 7.3: faults
\* are for bugs such as an index out of bounds), nor for a try that has no
\* function to return from (E0114; SPEC.md 7.2: such a try is not legal).
AcceptedRuns == status[1] = "fault" => status[2] \in DataFaults

Rejected == status = <<"rejected">>

\* A name that is bound nowhere is a diagnostic (E0011), and that diagnostic is
\* the only one of a program only if there is such a name.
NameRule(free) ==
    /\ free # {} => Rejected /\ "E0011" \in checker.codes
    /\ checker.codes = {"E0011"} => free # {}

NamesResolved == Over => NameRule(FreeNames(file, DOMAIN Checker!Globals(file)))
=============================================================================
