-------------------------- MODULE HehVendor_proofs --------------------------
(***************************************************************************)
(* For any URLs, paths and number of gets: a run goes ahead only with      *)
(* files that one get has hashed, a get pins what is there, and recorded   *)
(* URLs stay.                                                              *)
(***************************************************************************)
EXTENDS HehVendor, WellFoundedInduction, TLAPS

\* A function, whatever its values.
Fun(f) == f = [p \in DOMAIN f |-> f[p]]

\* A list of pins that a get has written, or what a stop has left of it.
Stems(s) == \E h \in hashed \cup {Nothing} : IF cut THEN Within(s, h) ELSE s = h

IsGet == get = [at |-> get.at, url |-> get.url, todo |-> get.todo,
                seen |-> get.seen, sources |-> get.sources]
IsRun == run = [at |-> run.at, pins |-> run.pins, todo |-> run.todo, seen |-> run.seen]

\* The inductive invariant.  A run compares with the pins it has read, and these are
\* of the lock as it was then: the pins of both stem from what a get has hashed.
IInv ==
    /\ IsGet /\ Fun(get.seen)
    /\ IsRun /\ Fun(run.seen) /\ Fun(run.pins)
    /\ get.at = "writing" => get.seen \in hashed
    /\ lock # NoLock => Fun(lock.pins) /\ Stems(lock.pins)
    /\ run.at = "none" => run.seen = Nothing
    /\ run.at \in {"locked", "hashing"} => Stems(run.pins)
    /\ run.at = "running" => Stems(run.seen)

-----------------------------------------------------------------------------
\* No pins at all stem from nothing.
LEMMA NothingStems == Stems(Nothing) /\ Fun(Nothing)
  BY DEF Stems, Nothing, Within, Fun

\* What stems from a hashed tree goes on to: trees are only added, and a lock that was
\* cut only weakens what is asked.
LEMMA StemsKept ==
    ASSUME NEW s, Stems(s), hashed \subseteq hashed', cut => cut'
    PROVE  Stems(s)'
  BY DEF Stems, Within

\* Hashing a file adds it to those seen (collect_files).
LEMMA HashedOneIs ==
    ASSUME NEW cmd, Fun(cmd.seen)
    PROVE  LET c == HashedOne(cmd) IN
           c \in {[cmd EXCEPT !.at = "failed"],
                  [cmd EXCEPT !.todo = @ \ {First(cmd.todo)},
                              !.seen = With(@, First(cmd.todo), tree[First(cmd.todo)])]}
  BY DEF HashedOne

\* Seeing one more file is a function still.
LEMMA WithIsFun == ASSUME NEW f, NEW p, NEW v PROVE Fun(With(f, p, v))
  BY DEF Fun, With

\* What a stop leaves of a lock is part of what should have been written (fs::write).
LEMMA PrefixWithin ==
    ASSUME NEW urls, NEW s, Fun(s), NEW k \in Prefixes(Lock(urls, s))
    PROVE  Fun(k.pins) /\ Within(k.pins, s)
<1> DEFINE whole  == Lock(urls, s)
           lines  == {Lock({u \in whole.sources : u < n} \cup piece, Nothing) :
                         n \in whole.sources, piece \in SUBSET {Piece}}
           pinned == {[sources |-> whole.sources,
                       pins    |-> Restrict(whole.pins, {q \in DOMAIN whole.pins : q < p}),
                       bad     |-> b] : p \in DOMAIN whole.pins, b \in BOOLEAN}
<1>1. whole.pins = s
  BY DEF Lock
<1>2. CASE k \in lines
  <2>1. k.pins = Nothing
    BY <1>2 DEF Lock
  <2> QED
    BY <2>1 DEF Nothing, Fun, Within
<1>3. CASE k \in pinned
  <2>1. PICK p \in DOMAIN whole.pins :
           k.pins = Restrict(whole.pins, {q \in DOMAIN whole.pins : q < p})
    BY <1>3
  <2> QED
    BY <2>1, <1>1 DEF Restrict, Fun, Within
<1>4. CASE k = whole
  BY <1>4, <1>1 DEF Within
<1>5. Prefixes(whole) = lines \cup pinned \cup {whole}
  BY DEF Prefixes
<1> QED
  <2> HIDE DEF lines, pinned, whole
  <2>1. k \in lines \/ k \in pinned \/ k = whole
    BY <1>5 DEF whole
  <2> QED
    BY <2>1, <1>2, <1>3, <1>4

-----------------------------------------------------------------------------
\* At the beginning there are no pins.
LEMMA InitInv == Init => IInv
  BY NothingStems DEF Init, IInv, IsGet, IsRun, NoRun, Fun

\* The steps of a get that leave lock, run and history alone.
LEMMA GetAlone ==
    ASSUME IInv, IsGet', Fun(get.seen)', get'.at # "writing",
           UNCHANGED <<lock, run, hashed, cut>>
    PROVE  IInv'
<1>1. \A s : Stems(s) => Stems(s)'
  BY DEF Stems
<1> QED
  BY <1>1 DEF IInv, IsRun

\* The steps of a run.
LEMMA RunAlone ==
    ASSUME IInv, IsRun', Fun(run.seen)', Fun(run.pins)',
           run'.at = "none" => run'.seen = Nothing,
           run'.at \in {"locked", "hashing"} => Stems(run'.pins),
           run'.at = "running" => Stems(run'.seen),
           UNCHANGED <<lock, get, hashed, cut>>
    PROVE  IInv'
<1>1. \A s : Stems(s) => Stems(s)'
  BY DEF Stems
<1> QED
  BY <1>1 DEF IInv, IsGet

\* Every step keeps the invariant.
LEMMA StepInv == IInv /\ [Next]_vars => IInv'
<1> SUFFICES ASSUME IInv, [Next]_vars PROVE IInv'
  OBVIOUS
<1>0. /\ IsGet /\ Fun(get.seen) /\ IsRun /\ Fun(run.seen) /\ Fun(run.pins)
  BY DEF IInv
<1>1. CASE UNCHANGED vars
  BY <1>1 DEF vars, IInv, IsGet, IsRun, Stems
<1>2. ASSUME NEW u \in Urls, StartGet(u)
      PROVE  IInv'
  <2>1. IsGet' /\ Fun(get.seen)' /\ get'.at # "writing"
    BY <1>2, NothingStems DEF StartGet, IsGet
  <2> QED
    BY <1>2, <2>1, GetAlone DEF StartGet
<1>3. CASE RemoveFile
  <2>1. get' = get /\ get'.at # "writing"
    BY <1>3 DEF RemoveFile
  <2>2. IsGet' /\ Fun(get.seen)'
    BY <2>1, <1>0 DEF IsGet
  <2> QED
    BY <1>3, <2>1, <2>2, GetAlone DEF RemoveFile
<1>4. CASE Removed \/ MakeDir \/ CloneFile \/ Download \/ Downloaded \/ FetchFails
  <2>1. IsGet' /\ get'.seen = get.seen /\ get'.at # "writing"
    BY <1>4, <1>0 DEF Removed, MakeDir, CloneFile, Download, Downloaded, FetchFails, IsGet
  <2>2. Fun(get.seen)'
    BY <2>1, <1>0
  <2>3. UNCHANGED <<lock, run, hashed, cut>>
    BY <1>4 DEF Removed, MakeDir, CloneFile, Download, Downloaded, FetchFails
  <2> QED
    BY <2>1, <2>2, <2>3, GetAlone
<1>5. CASE HashTree
  <2>1. IsGet' /\ get'.seen = Nothing /\ get'.at = "hashing"
    BY <1>5, <1>0 DEF HashTree, Listed, IsGet
  <2>2. Fun(get.seen)'
    BY <2>1, NothingStems
  <2> QED
    BY <1>5, <2>1, <2>2, GetAlone DEF HashTree
<1>6. CASE GetHashes
  <2>1. get.at = "hashing" /\ get' = HashedOne(get)
    BY <1>6 DEF GetHashes
  <2>2. CASE get' = [get EXCEPT !.at = "failed"]
    <3>1. IsGet' /\ Fun(get.seen)' /\ get'.at # "writing"
      BY <2>2, <1>0 DEF IsGet
    <3> QED
      BY <1>6, <3>1, GetAlone DEF GetHashes
  <2>3. CASE get' = [get EXCEPT !.todo = @ \ {First(get.todo)},
                                !.seen = With(@, First(get.todo), tree[First(get.todo)])]
    <3>1. IsGet' /\ get'.at # "writing"
          /\ get'.seen = With(get.seen, First(get.todo), tree[First(get.todo)])
      BY <2>1, <2>3, <1>0 DEF IsGet
    <3>2. Fun(get.seen)'
      BY <3>1, WithIsFun
    <3> QED
      BY <1>6, <3>1, <3>2, GetAlone DEF GetHashes
  <2> QED
    BY <2>1, <2>2, <2>3, <1>0, HashedOneIs
<1>7. CASE OpenLock
  <2>1. /\ IsGet' /\ get'.seen = get.seen /\ get.seen \in hashed'
        /\ lock'.pins = Nothing /\ run' = run /\ hashed \subseteq hashed' /\ cut' = cut
    BY <1>7, <1>0 DEF OpenLock, IsGet, Lock
  <2>2. \A s : Stems(s) => Stems(s)'
    BY <2>1, StemsKept
  <2>3. Fun(get.seen)' /\ Fun(lock.pins)' /\ Stems(lock.pins)'
    BY <2>1, <2>2, <1>0, NothingStems
  <2> QED
    BY <2>1, <2>2, <2>3 DEF IInv, IsRun
<1>8. CASE WriteLock
  <2>1. /\ IsGet' /\ get'.seen = get.seen /\ get'.at = "got" /\ get.seen \in hashed
        /\ lock'.pins = get.seen /\ run' = run /\ hashed' = hashed /\ cut' = cut
    BY <1>8, <1>0 DEF WriteLock, IsGet, Lock, IInv
  <2>2. \A s : Stems(s) => Stems(s)'
    BY <2>1, StemsKept
  <2>3. Stems(get.seen)
    BY <2>1 DEF Stems, Within
  <2>4. Fun(get.seen)' /\ Fun(lock.pins)' /\ Stems(lock.pins)'
    BY <2>1, <2>2, <2>3, <1>0
  <2> QED
    BY <2>1, <2>2, <2>4 DEF IInv, IsRun
<1>9. CASE Stop
  <2>1. IsGet' /\ get'.seen = get.seen /\ get'.at = "failed" /\ run' = run /\ hashed' = hashed
    BY <1>9, <1>0 DEF Stop, IsGet
  <2>2. CASE get.at = "writing"
    <3>1. lock' \in Prefixes(Lock(get.sources, get.seen)) /\ cut'
      BY <1>9, <2>2 DEF Stop
    <3>2. Fun(lock'.pins) /\ Within(lock'.pins, get.seen)
      BY <3>1, <1>0, PrefixWithin
    <3>3. get.seen \in hashed'
      BY <2>1, <2>2 DEF IInv
    <3>4. Stems(lock.pins)'
      BY <3>1, <3>2, <3>3 DEF Stems
    <3>5. \A s : Stems(s) => Stems(s)'
      BY <2>1, <3>1, StemsKept
    <3>6. Fun(get.seen)' /\ Fun(lock.pins)'
      BY <2>1, <3>2, <1>0
    <3> QED
      BY <2>1, <3>4, <3>5, <3>6 DEF IInv, IsRun
  <2>3. CASE get.at # "writing"
    <3>1. UNCHANGED <<lock, run, hashed, cut>>
      BY <1>9, <2>3 DEF Stop
    <3>2. Fun(get.seen)'
      BY <2>1, <1>0
    <3> QED
      BY <2>1, <3>1, <3>2, GetAlone
  <2> QED
    BY <2>2, <2>3
<1>10. CASE ReadLock
  <2>1. run.at = "none" /\ run.seen = Nothing /\ UNCHANGED <<lock, get, hashed, cut>>
    BY <1>10 DEF ReadLock, IInv
  <2>2. CASE run' = [run EXCEPT !.at = "locked", !.pins = lock.pins] /\ lock # NoLock
    <3>1. IsRun' /\ run'.seen = Nothing /\ run'.pins = lock.pins /\ run'.at = "locked"
      BY <2>1, <2>2, <1>0 DEF IsRun
    <3>2. Fun(lock.pins) /\ Stems(lock.pins)
      BY <2>2 DEF IInv
    <3> QED
      BY <2>1, <3>1, <3>2, NothingStems, RunAlone
  <2>3. CASE \E a \in {"running", "failed"} : run' = [run EXCEPT !.at = a]
    <3>1. /\ IsRun' /\ run'.seen = Nothing /\ run'.pins = run.pins
          /\ run'.at \in {"running", "failed"}
      BY <2>1, <2>3, <1>0 DEF IsRun
    <3> QED
      BY <2>1, <3>1, <1>0, NothingStems, RunAlone
  <2> QED
    BY <1>10, <2>2, <2>3 DEF ReadLock
<1>11. CASE ListTree
  <2>1. /\ IsRun' /\ run'.seen = Nothing /\ run'.pins = run.pins /\ run'.at = "hashing"
        /\ Stems(run.pins) /\ UNCHANGED <<lock, get, hashed, cut>>
    BY <1>11, <1>0 DEF ListTree, Listed, IsRun, IInv
  <2> QED
    BY <2>1, <1>0, NothingStems, RunAlone
<1>12. CASE RunHashes
  <2>1. /\ run.at = "hashing" /\ run' = HashedOne(run) /\ Stems(run.pins)
        /\ UNCHANGED <<lock, get, hashed, cut>>
    BY <1>12 DEF RunHashes, IInv
  <2>2. CASE run' = [run EXCEPT !.at = "failed"]
    <3>1. IsRun' /\ run'.seen = run.seen /\ run'.pins = run.pins /\ run'.at = "failed"
      BY <2>2, <1>0 DEF IsRun
    <3> QED
      BY <2>1, <3>1, <1>0, RunAlone
  <2>3. CASE run' = [run EXCEPT !.todo = @ \ {First(run.todo)},
                                !.seen = With(@, First(run.todo), tree[First(run.todo)])]
    <3>1. /\ IsRun' /\ run'.pins = run.pins /\ run'.at = "hashing"
          /\ run'.seen = With(run.seen, First(run.todo), tree[First(run.todo)])
      BY <2>1, <2>3, <1>0 DEF IsRun
    <3>2. Fun(run.seen)'
      BY <3>1, WithIsFun
    <3> QED
      BY <2>1, <3>1, <3>2, <1>0, RunAlone
  <2> QED
    BY <2>1, <2>2, <2>3, <1>0, HashedOneIs
<1>13. CASE Verify
  <2> DEFINE same == /\ DOMAIN run.pins \subseteq DOMAIN run.seen
                     /\ DOMAIN run.seen \subseteq DOMAIN run.pins
                     /\ \A p \in DOMAIN run.pins : run.seen[p] = run.pins[p]
  <2>1. /\ run' = [run EXCEPT !.at = IF same THEN "running" ELSE "failed"]
        /\ Stems(run.pins) /\ UNCHANGED <<lock, get, hashed, cut>>
    BY <1>13 DEF Verify, IInv
  <2>2. ASSUME same PROVE run.seen = run.pins
    <3>1. DOMAIN run.seen = DOMAIN run.pins
      BY <2>2
    <3> QED
      BY <3>1, <2>2, <1>0 DEF Fun
  <2>3. /\ IsRun' /\ run'.seen = run.seen /\ run'.pins = run.pins
        /\ run'.at \in {"running", "failed"} /\ (run'.at = "running" => same)
    <3> HIDE DEF same
    <3> QED
      BY <2>1, <1>0 DEF IsRun
  <2>4. run'.at = "running" => Stems(run'.seen)
    BY <2>1, <2>2, <2>3
  <2> QED
    BY <2>1, <2>3, <2>4, <1>0, RunAlone
<1>14. CASE EndRun
  <2>1. /\ IsRun' /\ run'.seen = Nothing /\ run'.pins = Nothing /\ run'.at = "none"
        /\ UNCHANGED <<lock, get, hashed, cut>>
    BY <1>14 DEF EndRun, NoRun, IsRun
  <2> QED
    BY <2>1, NothingStems, RunAlone
<1> QED
  BY <1>1, <1>2, <1>3, <1>4, <1>5, <1>6, <1>7, <1>8, <1>9, <1>10, <1>11, <1>12, <1>13, <1>14
  DEF Next, Get, Run

-----------------------------------------------------------------------------
\* A run goes ahead only with the files that one get has hashed together, whatever gets
\* have failed, stopped or are at work meanwhile (verify_lock, write_lock).
THEOREM RunsOnlyHashed == Spec => []RunsHashed
<1>1. IInv => RunsHashed
  BY DEF IInv, Stems, RunsHashed
<1> QED
  BY <1>1, InitInv, StepInv, PTL DEF Spec

-----------------------------------------------------------------------------
(* Types. *)

\* There is a least path to go on with (collect_files).
LEMMA FirstIn ==
    ASSUME NEW todo, todo \subseteq Nat, todo # {}
    PROVE  First(todo) \in todo
<1> DEFINE R == OpToRel(<, Nat)
<1>1. IsWellFoundedOn(R, Nat)
  BY NatLessThanWellFounded
<1>2. ASSUME NEW x \in Nat, NEW y \in Nat, x < y PROVE <<x, y>> \in R
  BY <1>2 DEF OpToRel
<1> HIDE DEF R
<1>3. PICK x \in todo : \A y \in todo : ~ (<<y, x>> \in R)
  BY <1>1, WFMin
<1>4. ASSUME NEW y \in todo PROVE x <= y
  <2>1. x \in Nat /\ y \in Nat
    OBVIOUS
  <2>2. ~(y < x)
    BY <1>2, <1>3, <2>1, Zenon
  <2> QED
    BY <2>1, <2>2
<1> QED
  BY <1>3, <1>4 DEF First

\* What there is to a tree.
LEMMA TreeIs ==
    ASSUME NEW f \in Trees
    PROVE  /\ Fun(f) /\ DOMAIN f \subseteq Paths
           /\ \A p \in DOMAIN f : f[p] \in 0..MaxGets
  BY DEF Trees, Fun

\* ... and what makes one.
LEMMA IsTree ==
    ASSUME NEW S, S \subseteq Paths, NEW f \in [S -> 0..MaxGets]
    PROVE  f \in Trees
  BY DEF Trees

\* An empty directory is a tree.
LEMMA NothingIsTree == Nothing \in Trees
<1>1. Nothing \in [{} -> 0..MaxGets]
  BY DEF Nothing
<1> QED
  BY <1>1, IsTree

\* A file written to a tree leaves a tree.
LEMMA WithIsTree ==
    ASSUME NEW f \in Trees, NEW p \in Paths, NEW v \in 0..MaxGets
    PROVE  With(f, p, v) \in Trees
<1>1. With(f, p, v) \in [DOMAIN f \cup {p} -> 0..MaxGets]
  BY TreeIs DEF With
<1>2. DOMAIN f \cup {p} \subseteq Paths
  BY TreeIs
<1> QED
  BY <1>1, <1>2, IsTree

\* A part of a tree is a tree.
LEMMA RestrictIsTree ==
    ASSUME NEW f \in Trees, NEW S, S \subseteq DOMAIN f
    PROVE  Restrict(f, S) \in Trees
<1>1. Restrict(f, S) \in [S -> 0..MaxGets]
  BY TreeIs DEF Restrict
<1>2. S \subseteq Paths
  BY TreeIs
<1> QED
  BY <1>1, <1>2, IsTree

\* The type invariant, made inductive: what the commands are, and how many gets.
TInv ==
    /\ TypeOK
    /\ IsGet /\ IsRun
    /\ gets \in 0..MaxGets

\* The types at the start.
LEMMA InitTypes == Init => TInv
  BY NothingIsTree, NumbersAssumption
  DEF Init, TInv, TypeOK, IsGet, IsRun, NoRun, Sources

\* Listing a tree and hashing a file keep the types (collect_files).
LEMMA HashedOneTypes ==
    ASSUME NEW cmd, tree \in Trees, cmd.seen \in Trees,
           cmd.todo \subseteq Paths
    PROVE  \/ HashedOne(cmd) = [cmd EXCEPT !.at = "failed"]
           \/ \E todo \in SUBSET Paths, seen \in Trees :
                 HashedOne(cmd) = [cmd EXCEPT !.todo = todo, !.seen = seen]
<1>1. CASE First(cmd.todo) \in DOMAIN tree
  <2>1. First(cmd.todo) \in Paths /\ tree[First(cmd.todo)] \in 0..MaxGets
    BY <1>1, TreeIs
  <2>2. With(cmd.seen, First(cmd.todo), tree[First(cmd.todo)]) \in Trees
    BY <2>1, WithIsTree
  <2> QED
    BY <1>1, <2>2 DEF HashedOne
<1>2. CASE First(cmd.todo) \notin DOMAIN tree
  BY <1>2 DEF HashedOne
<1> QED
  BY <1>1, <1>2

\* What a stop leaves of a lock (fs::write) is a lock.
LEMMA PrefixTypes ==
    ASSUME NEW urls, NEW s \in Trees, NEW k \in Prefixes(Lock(urls, s))
    PROVE  k.pins \in Trees /\ k.bad \in BOOLEAN /\ k.sources \subseteq urls \cup {Piece}
<1> DEFINE whole == Lock(urls, s)
           part(n, piece) == {u \in whole.sources : u < n} \cup piece
           lines  == {Lock(part(n, piece), Nothing) :
                         n \in whole.sources, piece \in SUBSET {Piece}}
           pinned == {[sources |-> whole.sources,
                       pins    |-> Restrict(whole.pins, {q \in DOMAIN whole.pins : q < p}),
                       bad     |-> b] : p \in DOMAIN whole.pins, b \in BOOLEAN}
<1>1. whole.sources = urls /\ whole.pins = s /\ whole.bad = FALSE
  BY DEF Lock
<1>2. CASE k \in lines
  <2>1. k.pins = Nothing /\ k.bad = FALSE
    BY <1>2 DEF Lock
  <2>2. \A n : \A piece \in SUBSET {Piece} : part(n, piece) \subseteq whole.sources \cup {Piece}
    OBVIOUS
  <2>3. k.sources \subseteq whole.sources \cup {Piece}
    <3> HIDE DEF part, whole
    <3> QED
      BY <1>2, <2>2 DEF Lock
  <2> QED
    BY <1>1, <2>1, <2>3, NothingIsTree
<1>3. CASE k \in pinned
  <2>1. PICK p \in DOMAIN s, b \in BOOLEAN :
           k = [sources |-> urls, pins |-> Restrict(s, {q \in DOMAIN s : q < p}), bad |-> b]
    BY <1>1, <1>3
  <2>2. Restrict(s, {q \in DOMAIN s : q < p}) \in Trees
    BY RestrictIsTree
  <2> QED
    BY <2>1, <2>2
<1>4. CASE k = whole
  BY <1>1, <1>4
<1>5. Prefixes(whole) = lines \cup pinned \cup {whole}
  BY DEF Prefixes
<1> QED
  <2> HIDE DEF lines, pinned, whole
  <2>1. k \in lines \/ k \in pinned \/ k = whole
    BY <1>5 DEF whole
  <2> QED
    BY <2>1, <1>2, <1>3, <1>4

\* The steps of a get that leave the lock alone, and those of a run.
LEMMA GetTypes ==
    ASSUME TInv, IsGet', get'.url \in Urls, get'.todo \subseteq Paths, get'.seen \in Trees,
           get'.sources \subseteq get.sources, tree' \in Trees, dirs' \subseteq Clones,
           gets' \in 0..MaxGets, UNCHANGED <<lock, run, hashed, got, cut>>
    PROVE  TInv'
  BY DEF TInv, TypeOK, IsRun, Sources

\* A step of a command keeps the types.
LEMMA RunTypes ==
    ASSUME TInv, IsRun', run'.pins \in Trees, run'.todo \subseteq Paths, run'.seen \in Trees,
           UNCHANGED <<tree, dirs, lock, get, gets, hashed, got, cut>>
    PROVE  TInv'
  BY DEF TInv, TypeOK, IsGet, Sources

\* Every step keeps the types.
LEMMA StepTypes == TInv /\ [Next]_vars => TInv'
<1> SUFFICES ASSUME TInv, [Next]_vars PROVE TInv'
  OBVIOUS
<1> USE PlaceAssumption, NumbersAssumption
<1>0. /\ IsGet /\ IsRun /\ gets \in 0..MaxGets
      /\ tree \in Trees /\ dirs \subseteq Clones
      /\ get.url \in Urls /\ get.todo \subseteq Paths /\ get.seen \in Trees
      /\ run.pins \in Trees /\ run.todo \subseteq Paths /\ run.seen \in Trees
      /\ Place[get.url] \subseteq Paths
  BY DEF TInv, TypeOK
<1>1. CASE UNCHANGED vars
  BY <1>1 DEF vars, TInv, TypeOK, IsGet, IsRun, Sources
<1>2. ASSUME NEW u \in Urls, StartGet(u)
      PROVE  TInv'
  <2>1. /\ IsGet' /\ get'.url = u /\ get'.todo = {} /\ get'.seen = Nothing /\ get'.sources = {}
        /\ UNCHANGED <<tree, dirs, lock, run, hashed, got, cut>>
    BY <1>2 DEF StartGet, IsGet
  <2>2. gets' \in 0..MaxGets
    BY <1>0, <1>2 DEF StartGet
  <2> QED
    BY <1>0, <2>1, <2>2, NothingIsTree, GetTypes
<1>3. CASE RemoveFile
  <2>1. PICK p \in Place[get.url] \cap DOMAIN tree : tree' = Without(tree, p)
    BY <1>3 DEF RemoveFile
  <2>2. tree' \in Trees
    BY <2>1, <1>0, RestrictIsTree DEF Without
  <2> QED
    BY <1>0, <1>3, <2>2, GetTypes DEF RemoveFile, IsGet
<1>4. CASE Removed
  <2>1. /\ IsGet' /\ get'.url = get.url /\ get'.todo = get.todo /\ get'.seen = get.seen
        /\ get'.sources = get.sources /\ dirs' \subseteq Clones
        /\ UNCHANGED <<tree, gets, lock, run, hashed, got, cut>>
    BY <1>0, <1>4 DEF Removed, IsGet
  <2> QED
    BY <1>0, <2>1, GetTypes
<1>5. CASE MakeDir
  <2>1. /\ IsGet' /\ get'.url = get.url /\ get'.todo = Place[get.url] /\ get'.seen = get.seen
        /\ get'.sources = get.sources /\ dirs' \subseteq Clones
        /\ UNCHANGED <<tree, gets, lock, run, hashed, got, cut>>
    BY <1>0, <1>5 DEF MakeDir, IsGet
  <2> QED
    BY <1>0, <2>1, GetTypes
<1>6. CASE CloneFile
  <2>1. /\ IsGet' /\ get'.url = get.url /\ get'.todo \subseteq get.todo /\ get'.seen = get.seen
        /\ get'.sources = get.sources
        /\ UNCHANGED <<dirs, gets, lock, run, hashed, got, cut>>
    BY <1>0, <1>6 DEF CloneFile, IsGet
  <2>2. First(get.todo) \in Paths
    BY <1>0, <1>6, FirstIn DEF CloneFile
  <2>3. tree' \in Trees
    BY <1>0, <1>6, <2>2, WithIsTree DEF CloneFile
  <2> QED
    BY <1>0, <2>1, <2>3, GetTypes
<1>7. CASE Download \/ Downloaded
  <2>1. /\ IsGet' /\ get'.url = get.url /\ get'.todo = get.todo /\ get'.seen = get.seen
        /\ get'.sources = get.sources
        /\ UNCHANGED <<dirs, gets, lock, run, hashed, got, cut>>
    BY <1>0, <1>7 DEF Download, Downloaded, IsGet
  <2>2. PICK p \in Place[get.url] : tree' = With(tree, p, Torn) \/ tree' = With(tree, p, gets)
    BY <1>7 DEF Download, Downloaded
  <2>3. Torn \in 0..MaxGets
    BY DEF Torn
  <2>4. tree' \in Trees
    BY <1>0, <2>2, <2>3, WithIsTree
  <2> QED
    BY <1>0, <2>1, <2>4, GetTypes
<1>8. CASE FetchFails
  <2>1. /\ IsGet' /\ get'.url = get.url /\ get'.todo = get.todo /\ get'.seen = get.seen
        /\ get'.sources = get.sources /\ dirs' \subseteq Clones
        /\ UNCHANGED <<gets, lock, run, hashed, got, cut>>
    BY <1>0, <1>8 DEF FetchFails, IsGet
  <2>2. tree' \in Trees
    BY <1>0, <1>8, RestrictIsTree DEF FetchFails
  <2> QED
    BY <1>0, <2>1, <2>2, GetTypes
<1>9. CASE HashTree
  <2>1. /\ IsGet' /\ get'.url = get.url /\ get'.todo = DOMAIN tree /\ get'.seen = Nothing
        /\ get'.sources = get.sources
        /\ UNCHANGED <<tree, dirs, gets, lock, run, hashed, got, cut>>
    BY <1>0, <1>9 DEF HashTree, Listed, IsGet
  <2> QED
    BY <1>0, <2>1, NothingIsTree, TreeIs, GetTypes
<1>10. CASE GetHashes
  <2>1. get' = HashedOne(get) /\ UNCHANGED <<tree, dirs, gets, lock, run, hashed, got, cut>>
    BY <1>10 DEF GetHashes
  <2>2. CASE get' = [get EXCEPT !.at = "failed"]
    <3>1. /\ IsGet' /\ get'.url = get.url /\ get'.todo = get.todo /\ get'.seen = get.seen
          /\ get'.sources = get.sources
      BY <1>0, <2>2 DEF IsGet
    <3> QED
      BY <1>0, <2>1, <3>1, GetTypes
  <2>3. ASSUME NEW todo \in SUBSET Paths, NEW seen \in Trees,
               get' = [get EXCEPT !.todo = todo, !.seen = seen]
        PROVE  TInv'
    <3>1. /\ IsGet' /\ get'.url = get.url /\ get'.todo = todo /\ get'.seen = seen
          /\ get'.sources = get.sources
      BY <1>0, <2>3 DEF IsGet
    <3> QED
      BY <1>0, <2>1, <3>1, GetTypes
  <2>4. \/ get' = [get EXCEPT !.at = "failed"]
        \/ \E todo \in SUBSET Paths, seen \in Trees :
              get' = [get EXCEPT !.todo = todo, !.seen = seen]
    BY <1>0, <2>1, HashedOneTypes
  <2> QED
    BY <2>2, <2>3, <2>4
<1>11. CASE OpenLock
  <2>1. /\ IsGet' /\ get'.url = get.url /\ get'.todo = get.todo /\ get'.seen = get.seen
        /\ get'.sources = Sources(lock) \cup {get.url}
        /\ lock' = Lock({}, Nothing) /\ hashed' = hashed \cup {get.seen}
        /\ UNCHANGED <<tree, dirs, gets, run, got, cut>>
    BY <1>0, <1>11 DEF OpenLock, IsGet
  <2>2. lock'.pins = Nothing /\ lock'.bad = FALSE /\ Sources(lock)' = {}
    BY <2>1 DEF Lock, Sources
  <2> QED
    BY <1>0, <2>1, <2>2, NothingIsTree DEF TInv, TypeOK, IsRun
<1>12. CASE WriteLock
  <2>1. /\ IsGet' /\ get'.url = get.url /\ get'.todo = get.todo /\ get'.seen = get.seen
        /\ get'.sources = get.sources
        /\ lock' = Lock(get.sources, get.seen) /\ got' = got \cup {get.url}
        /\ UNCHANGED <<tree, dirs, gets, run, hashed, cut>>
    BY <1>0, <1>12 DEF WriteLock, IsGet
  <2>2. lock'.pins = get.seen /\ lock'.bad = FALSE /\ Sources(lock)' \subseteq get.sources
    BY <2>1 DEF Lock, Sources
  <2> QED
    BY <1>0, <2>1, <2>2 DEF TInv, TypeOK, IsRun
<1>13. CASE Stop
  <2>1. /\ IsGet' /\ get'.url = get.url /\ get'.todo = get.todo /\ get'.seen = get.seen
        /\ get'.sources = get.sources
        /\ UNCHANGED <<tree, dirs, gets, run, hashed, got>>
    BY <1>0, <1>13 DEF Stop, IsGet
  <2>2. CASE get.at = "writing"
    <3>1. lock' \in Prefixes(Lock(get.sources, get.seen)) /\ cut'
      BY <1>13, <2>2 DEF Stop
    <3>2. lock'.pins \in Trees /\ lock'.bad \in BOOLEAN
          /\ lock'.sources \subseteq get.sources \cup {Piece}
      BY <1>0, <3>1, PrefixTypes
    <3>3. get.sources \subseteq Urls \cup {Piece}
      BY DEF TInv, TypeOK
    <3> QED
      BY <1>0, <2>1, <3>1, <3>2, <3>3 DEF TInv, TypeOK, IsRun, Sources
  <2>3. CASE get.at # "writing"
    <3>1. UNCHANGED <<lock, cut>>
      BY <1>13, <2>3 DEF Stop
    <3> QED
      BY <1>0, <2>1, <3>1, GetTypes
  <2> QED
    BY <2>2, <2>3
<1>14. CASE ReadLock
  <2>1. UNCHANGED <<tree, dirs, lock, get, gets, hashed, got, cut>>
    BY <1>14 DEF ReadLock
  <2>2. CASE run' = [run EXCEPT !.at = "locked", !.pins = lock.pins] /\ lock # NoLock
    <3>1. IsRun' /\ run'.pins = lock.pins /\ run'.todo = run.todo /\ run'.seen = run.seen
      BY <1>0, <2>2 DEF IsRun
    <3>2. lock.pins \in Trees
      BY <2>2 DEF TInv, TypeOK
    <3> QED
      BY <1>0, <2>1, <3>1, <3>2, RunTypes
  <2>3. CASE \E a \in {"running", "failed"} : run' = [run EXCEPT !.at = a]
    <3>1. IsRun' /\ run'.pins = run.pins /\ run'.todo = run.todo /\ run'.seen = run.seen
      BY <1>0, <2>3 DEF IsRun
    <3> QED
      BY <1>0, <2>1, <3>1, RunTypes
  <2> QED
    BY <1>14, <2>2, <2>3 DEF ReadLock
<1>15. CASE ListTree
  <2>1. /\ IsRun' /\ run'.pins = run.pins /\ run'.todo = DOMAIN tree /\ run'.seen = Nothing
        /\ UNCHANGED <<tree, dirs, lock, get, gets, hashed, got, cut>>
    BY <1>0, <1>15 DEF ListTree, Listed, IsRun
  <2> QED
    BY <1>0, <2>1, NothingIsTree, TreeIs, RunTypes
<1>16. CASE RunHashes
  <2>1. run' = HashedOne(run) /\ UNCHANGED <<tree, dirs, lock, get, gets, hashed, got, cut>>
    BY <1>16 DEF RunHashes
  <2>2. CASE run' = [run EXCEPT !.at = "failed"]
    <3>1. IsRun' /\ run'.pins = run.pins /\ run'.todo = run.todo /\ run'.seen = run.seen
      BY <1>0, <2>2 DEF IsRun
    <3> QED
      BY <1>0, <2>1, <3>1, RunTypes
  <2>3. ASSUME NEW todo \in SUBSET Paths, NEW seen \in Trees,
               run' = [run EXCEPT !.todo = todo, !.seen = seen]
        PROVE  TInv'
    <3>1. IsRun' /\ run'.pins = run.pins /\ run'.todo = todo /\ run'.seen = seen
      BY <1>0, <2>3 DEF IsRun
    <3> QED
      BY <1>0, <2>1, <3>1, RunTypes
  <2>4. \/ run' = [run EXCEPT !.at = "failed"]
        \/ \E todo \in SUBSET Paths, seen \in Trees :
              run' = [run EXCEPT !.todo = todo, !.seen = seen]
    BY <1>0, <2>1, HashedOneTypes
  <2> QED
    BY <2>2, <2>3, <2>4
<1>17. CASE Verify
  <2>1. UNCHANGED <<tree, dirs, lock, get, gets, hashed, got, cut>>
    BY <1>17 DEF Verify
  <2>2. \E a : run' = [run EXCEPT !.at = a]
    BY <1>17 DEF Verify
  <2>3. IsRun' /\ run'.pins = run.pins /\ run'.todo = run.todo /\ run'.seen = run.seen
    BY <1>0, <2>2 DEF IsRun
  <2> QED
    BY <1>0, <2>1, <2>3, RunTypes
<1>18. CASE EndRun
  <2>1. /\ IsRun' /\ run'.pins = Nothing /\ run'.todo = {} /\ run'.seen = Nothing
        /\ UNCHANGED <<tree, dirs, lock, get, gets, hashed, got, cut>>
    BY <1>18 DEF EndRun, NoRun, IsRun
  <2> QED
    BY <2>1, NothingIsTree, RunTypes
<1> QED
  BY <1>1, <1>2, <1>3, <1>4, <1>5, <1>6, <1>7, <1>8, <1>9, <1>10, <1>11, <1>12, <1>13,
     <1>14, <1>15, <1>16, <1>17, <1>18
  DEF Next, Get, Run

\* Trees, locks and commands are what they should be, whatever stops or interleaves
\* (write_lock, verify_lock): only a lock that was cut has a source that is no URL.
THEOREM TypeCorrect == Spec => []TypeOK
<1>1. TInv => TypeOK
  BY DEF TInv
<1> QED
  BY <1>1, InitTypes, StepTypes, PTL DEF Spec
-----------------------------------------------------------------------------
(* What a lock pins and keeps. *)

\* A get that hashes has seen part of the tree as it is, for nothing changes it
\* meanwhile; the lock it goes on to write pins all of it.  The URLs that gets have
\* reported are in the lock, and while that is empty in the get that writes it.
PInv ==
    /\ TInv
    /\ get.at = "hashing" => /\ DOMAIN tree = get.todo \cup DOMAIN get.seen
                             /\ \A p \in DOMAIN get.seen : get.seen[p] = tree[p]
    /\ get.at = "writing" => get.seen = tree /\ get.url \in get.sources
    /\ GetPins
    /\ ~cut => got \subseteq IF get.at = "writing" THEN get.sources ELSE Sources(lock)

\* A lock that is there is not the lock that is not.
LEMMA LockIsThere ==
    ASSUME TInv
    PROVE  Sources(Lock(get.sources, get.seen)) = get.sources
<1>1. get.sources \subseteq Urls \cup {0} /\ get.seen \in Trees
  BY DEF TInv, TypeOK, Piece
<1>2. Lock(get.sources, get.seen) \in
         [sources : SUBSET (Urls \cup {0}), pins : Trees, bad : BOOLEAN]
  BY <1>1 DEF Lock
<1>3. Lock(get.sources, get.seen) # NoLock
  BY <1>2, LockAssumption
<1> QED
  BY <1>3 DEF Sources, Lock

\* The steps of a get before it hashes, and those in which it fails.
LEMMA QuietPins ==
    ASSUME PInv, TInv', get.at # "writing", get'.at \notin {"hashing", "writing", "got"},
           UNCHANGED <<lock, got, cut>>
    PROVE  PInv'
  BY DEF PInv, GetPins, Sources

\* The steps of a run.
LEMMA RunPins ==
    ASSUME PInv, TInv', UNCHANGED <<tree, lock, get, got, cut>>
    PROVE  PInv'
  BY DEF PInv, GetPins, Sources

\* Hashing one more file, it has seen one more (collect_files).
LEMMA HashedOnePins ==
    ASSUME PInv, TInv', GetHashes
    PROVE  PInv'
<1> DEFINE p == First(get.todo)
<1>0. /\ IsGet /\ get.at = "hashing" /\ get.todo \subseteq Nat /\ get.todo # {}
      /\ DOMAIN tree = get.todo \cup DOMAIN get.seen
      /\ \A q \in DOMAIN get.seen : get.seen[q] = tree[q]
  BY NumbersAssumption DEF PInv, TInv, TypeOK, GetHashes
<1>1. p \in get.todo
  BY <1>0, FirstIn
<1>2. get' = [get EXCEPT !.todo = @ \ {p}, !.seen = With(@, p, tree[p])]
  BY <1>0, <1>1 DEF GetHashes, HashedOne
<1>3. UNCHANGED <<tree, lock, got, cut>>
  BY DEF GetHashes
<1> HIDE DEF p
<1>4. /\ get'.at = "hashing" /\ get'.todo = get.todo \ {p}
      /\ get'.seen = With(get.seen, p, tree[p])
  BY <1>0, <1>2 DEF IsGet
<1>5. DOMAIN get'.seen = DOMAIN get.seen \cup {p}
  BY <1>4 DEF With
<1>6. \A q \in DOMAIN get'.seen : get'.seen[q] = tree[q]
  BY <1>0, <1>4, <1>5 DEF With
<1>7. DOMAIN tree = get'.todo \cup DOMAIN get'.seen
  BY <1>0, <1>1, <1>4, <1>5
<1> QED
  BY <1>0, <1>3, <1>4, <1>6, <1>7 DEF PInv, GetPins, Sources

\* Every step keeps it.
LEMMA StepPins == PInv /\ [Next]_vars => PInv'
<1> SUFFICES ASSUME PInv, [Next]_vars PROVE PInv'
  OBVIOUS
<1>0. TInv /\ TInv' /\ IsGet
  BY StepTypes DEF PInv, TInv
<1>1. CASE UNCHANGED vars \/ Run
  <2>1. UNCHANGED <<tree, lock, get, got, cut>>
    BY <1>1 DEF vars, Run, ReadLock, ListTree, RunHashes, Verify, EndRun
  <2> QED
    BY <1>0, <2>1, RunPins
<1>2. ASSUME NEW u \in Urls, StartGet(u)
      PROVE  PInv'
  <2>1. get.at # "writing" /\ UNCHANGED <<lock, got, cut>>
    BY <1>2 DEF StartGet
  <2>2. get'.at \in {"removing", "fetching"}
    BY <1>2 DEF StartGet
  <2> QED
    BY <1>0, <2>1, <2>2, QuietPins
<1>3. CASE RemoveFile \/ Removed \/ MakeDir \/ CloneFile \/ Download \/ Downloaded \/ FetchFails
  <2>1. get.at # "writing" /\ UNCHANGED <<lock, got, cut>>
    BY <1>3 DEF RemoveFile, Removed, MakeDir, CloneFile, Download, Downloaded, FetchFails
  <2>2. get'.at \notin {"hashing", "writing", "got"}
    BY <1>0, <1>3
    DEF RemoveFile, Removed, MakeDir, CloneFile, Download, Downloaded, FetchFails, IsGet
  <2> QED
    BY <1>0, <2>1, <2>2, QuietPins
<1>4. CASE HashTree
  <2>1. /\ get'.at = "hashing" /\ get'.todo = DOMAIN tree /\ get'.seen = Nothing
        /\ get.at # "writing" /\ UNCHANGED <<tree, lock, got, cut>>
    BY <1>0, <1>4 DEF HashTree, Listed, IsGet
  <2>2. DOMAIN get'.seen = {}
    BY <2>1 DEF Nothing
  <2> QED
    BY <1>0, <2>1, <2>2 DEF PInv, GetPins, Sources
<1>5. CASE GetHashes
  BY <1>0, <1>5, HashedOnePins
<1>6. CASE OpenLock
  <2>1. get.at = "hashing" /\ get.todo = {} /\ UNCHANGED <<tree, got, cut>>
    BY <1>6 DEF OpenLock
  <2>2. /\ get'.at = "writing" /\ get'.sources = Sources(lock) \cup {get.url}
        /\ get'.url = get.url /\ get'.seen = get.seen
    BY <1>0, <1>6 DEF OpenLock, IsGet
  <2>3. get.seen = tree
    <3>1. Fun(get.seen) /\ Fun(tree)
      BY <1>0, TreeIs DEF TInv, TypeOK
    <3>2. DOMAIN get.seen = DOMAIN tree /\ \A p \in DOMAIN get.seen : get.seen[p] = tree[p]
      BY <2>1 DEF PInv
    <3> QED
      BY <3>1, <3>2 DEF Fun
  <2> QED
    BY <1>0, <2>1, <2>2, <2>3 DEF PInv, GetPins
<1>7. CASE WriteLock
  <2>1. /\ get.at = "writing" /\ lock' = Lock(get.sources, get.seen)
        /\ got' = got \cup {get.url} /\ UNCHANGED <<tree, cut>>
    BY <1>7 DEF WriteLock
  <2>2. get'.at = "got" /\ get'.url = get.url
    BY <1>0, <1>7 DEF WriteLock, IsGet
  <2>3. get.seen = tree /\ get.url \in get.sources
    BY <2>1 DEF PInv
  <2>4. Sources(lock)' = get.sources
    BY <1>0, <2>1, LockIsThere DEF Sources
  <2>5. ~cut' => got' \subseteq get.sources
    BY <2>1, <2>3 DEF PInv
  <2>6. lock'.sources = get.sources
    BY <2>1 DEF Lock
  <2>7. GetPins'
    BY <2>1, <2>2, <2>3, <2>6 DEF GetPins
  <2> QED
    BY <1>0, <2>2, <2>4, <2>5, <2>7 DEF PInv
<1>8. CASE Stop
  <2>1. get'.at = "failed"
    BY <1>0, <1>8 DEF Stop, IsGet
  <2>2. CASE get.at = "writing"
    BY <1>0, <1>8, <2>1, <2>2 DEF Stop, PInv, GetPins
  <2>3. CASE get.at # "writing"
    <3>1. UNCHANGED <<lock, got, cut>>
      BY <1>8, <2>3 DEF Stop
    <3> QED
      BY <1>0, <2>1, <2>3, <3>1, QuietPins
  <2> QED
    BY <2>2, <2>3
<1> QED
  BY <1>1, <1>2, <1>3, <1>4, <1>5, <1>6, <1>7, <1>8 DEF Next, Get

\* The pins at the start.
LEMMA InitPins == Init => PInv
<1> SUFFICES ASSUME Init PROVE PInv
  OBVIOUS
<1>1. TInv
  BY InitTypes
<1> QED
  BY <1>1 DEF Init, PInv, GetPins

\* When a get reports success, the lock names its URL and pins what is in vendor/,
\* whatever earlier gets have left there (write_lock).
THEOREM PinsWhatIsThere == Spec => []GetPins
<1>1. PInv => GetPins
  BY DEF PInv
<1> QED
  BY <1>1, InitPins, StepPins, PTL DEF Spec

\* As long as no stop cuts a lock, it keeps the URLs of all successful gets, but while
\* it is written again (write_lock).
THEOREM KeepsSources == Spec => []SourcesKept
<1>1. PInv => SourcesKept
  BY DEF PInv, SourcesKept
<1> QED
  BY <1>1, InitPins, StepPins, PTL DEF Spec
=============================================================================
