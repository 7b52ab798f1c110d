----------------------------- MODULE HehVendor -----------------------------
(***************************************************************************)
(* Vendoring (main.rs: cmd_get, write_lock, verify_lock; SPEC.md section   *)
(* 9): heh get fetches into vendor/ and pins what is there in heh.lock;    *)
(* heh run refuses whatever the lock does not pin.                         *)
(*                                                                         *)
(* One heh get and one heh run are at work on the same directory, in       *)
(* steps of one file each.  A get may stop between any two of them: it     *)
(* writes in place, so what it has done remains, and the lock may be cut.  *)
(*                                                                         *)
(* Paths and URLs are numbers in the order of their names, the order of    *)
(* the lines in the lock.  The content of a file is the number of the get  *)
(* that fetched it, which is what its hash tells apart.                    *)
(***************************************************************************)
EXTENDS Naturals, Functions

CONSTANTS
    Urls, Paths,   \* 1 up to a number
    Clones,        \* the URLs that end in .git
    Place,         \* the paths that a URL is fetched to: one, but for a clone
    NoLock,        \* that there is no heh.lock
    MaxGets        \* bounds the calls of heh get

\* What a tree or a list of pins may be, by its type.
Trees == UNION {[S -> 0..MaxGets] : S \in SUBSET Paths}

ASSUME PlaceAssumption == Place \in [Urls -> SUBSET Paths] /\ Clones \subseteq Urls
ASSUME NumbersAssumption == 1 \in Urls /\ Paths \subseteq Nat /\ MaxGets \in Nat
ASSUME LockAssumption ==
    NoLock \notin [sources : SUBSET (Urls \cup {0}), pins : Trees, bad : BOOLEAN]

VARIABLES
    tree,      \* the files in vendor/, and their content
    dirs,      \* the clones that have a directory
    lock,      \* heh.lock
    get, run,  \* the commands at work
    gets,      \* calls of heh get so far
    hashed,    \* the trees that a get has written a lock for
    got,       \* the URLs that a get has reported as vendored
    cut        \* whether a stop has cut a lock short

vars == <<tree, dirs, lock, get, run, gets, hashed, got, cut>>

Nothing == [p \in {} |-> 0]
Torn    == 0            \* the content of a file that is not all there
Piece   == 0            \* a comment or a piece of one, read as a source

With(f, p, v)  == [q \in DOMAIN f \cup {p} |-> IF q = p THEN v ELSE f[q]]
Without(f, p)  == Restrict(f, DOMAIN f \ {p})
Lock(urls, s)  == [sources |-> urls, pins |-> s, bad |-> FALSE]

\* What a write that stops leaves of a lock: some lines, the next of them perhaps
\* in part.  A piece of a source line names a URL that is none; a piece of a pin is bad
\* syntax, or names a file that is not there.
Prefixes(k) ==
    {Lock({u \in k.sources : u < n} \cup piece, Nothing) :
        n \in k.sources, piece \in SUBSET {Piece}}
    \cup {[sources |-> k.sources,
           pins    |-> Restrict(k.pins, {q \in DOMAIN k.pins : q < p}),
           bad     |-> b] : p \in DOMAIN k.pins, b \in BOOLEAN}
    \cup {k}

-----------------------------------------------------------------------------
(* Hashing the tree, one file after the other (hash_vendor_tree).            *)

First(todo) == CHOOSE p \in todo : \A q \in todo : p <= q

Listed(cmd) == [cmd EXCEPT !.at = "hashing", !.todo = DOMAIN tree, !.seen = Nothing]

\* A file that is gone when its turn comes is an error.
HashedOne(cmd) ==
    LET p == First(cmd.todo) IN
    IF p \in DOMAIN tree
    THEN [cmd EXCEPT !.todo = @ \ {p}, !.seen = With(@, p, tree[p])]
    ELSE [cmd EXCEPT !.at = "failed"]

-----------------------------------------------------------------------------
(* heh get.                                                                  *)

StartGet(u) ==
    /\ get.at \in {"none", "got", "failed"}
    /\ gets < MaxGets
    /\ gets' = gets + 1
    /\ get' = [at |-> IF u \in Clones THEN "removing" ELSE "fetching", url |-> u,
               todo |-> {}, seen |-> Nothing, sources |-> {}]
    /\ UNCHANGED <<tree, dirs, lock, run, hashed, got, cut>>

\* remove_dir_all.
RemoveFile ==
    /\ get.at = "removing"
    /\ \E p \in Place[get.url] \cap DOMAIN tree : tree' = Without(tree, p)
    /\ UNCHANGED <<dirs, lock, get, run, gets, hashed, got, cut>>

\* Its errors are ignored.
Removed ==
    /\ get.at = "removing"
    /\ get' = [get EXCEPT !.at = "fetching"]
    /\ dirs' = IF Place[get.url] \cap DOMAIN tree = {} THEN dirs \ {get.url} ELSE dirs
    /\ UNCHANGED <<tree, lock, run, gets, hashed, got, cut>>

\* git makes a directory, unless there is one with something in it, ...
MakeDir ==
    /\ get.at = "fetching" /\ get.url \in Clones
    /\ Place[get.url] \cap DOMAIN tree = {}
    /\ dirs' = dirs \cup {get.url}
    /\ get' = [get EXCEPT !.at = "cloning", !.todo = Place[get.url]]
    /\ UNCHANGED <<tree, lock, run, gets, hashed, got, cut>>

\* ... and fills it.
CloneFile ==
    /\ get.at = "cloning" /\ get.todo # {}
    /\ LET p == First(get.todo) IN
       /\ tree' = With(tree, p, gets)
       /\ get' = [get EXCEPT !.todo = @ \ {p}]
    /\ UNCHANGED <<dirs, lock, run, gets, hashed, got, cut>>

\* curl writes to the file in place.
Download ==
    /\ get.at = "fetching" /\ get.url \notin Clones
    /\ \E p \in Place[get.url] : tree' = With(tree, p, Torn)
    /\ get' = [get EXCEPT !.at = "loading"]
    /\ UNCHANGED <<dirs, lock, run, gets, hashed, got, cut>>

Downloaded ==
    /\ get.at = "loading"
    /\ \E p \in Place[get.url] : tree' = With(tree, p, gets)
    /\ get' = [get EXCEPT !.at = "fetched"]
    /\ UNCHANGED <<dirs, lock, run, gets, hashed, got, cut>>

\* git takes back what it has done; curl leaves the file.
FetchFails ==
    /\ get.at \in {"fetching", "cloning", "loading"}
    /\ get' = [get EXCEPT !.at = "failed"]
    /\ IF get.at = "cloning"
       THEN /\ tree' = Restrict(tree, DOMAIN tree \ Place[get.url])
            /\ dirs' = dirs \ {get.url}
       ELSE UNCHANGED <<tree, dirs>>
    /\ UNCHANGED <<lock, run, gets, hashed, got, cut>>

\* A bug: only what has been fetched is hashed.
HashFetched ==
    /\ \/ get.at = "fetched"
       \/ get.at = "cloning" /\ get.todo = {}
    /\ get' = [Listed(get) EXCEPT !.todo = Place[get.url]]
    /\ UNCHANGED <<tree, dirs, lock, run, gets, hashed, got, cut>>

HashTree ==
    /\ \/ get.at = "fetched"
       \/ get.at = "cloning" /\ get.todo = {}
    /\ get' = Listed(get)
    /\ UNCHANGED <<tree, dirs, lock, run, gets, hashed, got, cut>>

GetHashes ==
    /\ get.at = "hashing" /\ get.todo # {}
    /\ get' = HashedOne(get)
    /\ UNCHANGED <<tree, dirs, lock, run, gets, hashed, got, cut>>

Sources(k) == IF k = NoLock THEN {} ELSE k.sources

\* A bug: the lock is opened for writing, which empties it, before it is read.
OpenThenRead ==
    /\ get.at = "hashing" /\ get.todo = {}
    /\ get' = [get EXCEPT !.at = "writing", !.sources = {get.url}]
    /\ lock' = Lock({}, Nothing)
    /\ hashed' = hashed \cup {get.seen}
    /\ UNCHANGED <<tree, dirs, run, gets, got, cut>>

\* A bug: any comment in the lock counts as a source.
OpenLockComments ==
    /\ get.at = "hashing" /\ get.todo = {}
    /\ get' = [get EXCEPT !.at = "writing",
                          !.sources = Sources(lock) \cup {get.url}
                                      \cup (IF lock = NoLock THEN {} ELSE {Piece})]
    /\ lock' = Lock({}, Nothing)
    /\ hashed' = hashed \cup {get.seen}
    /\ UNCHANGED <<tree, dirs, run, gets, got, cut>>

\* The sources recorded so far stay; fs::write empties the lock ...
OpenLock ==
    /\ get.at = "hashing" /\ get.todo = {}
    /\ get' = [get EXCEPT !.at = "writing", !.sources = Sources(lock) \cup {get.url}]
    /\ lock' = Lock({}, Nothing)
    /\ hashed' = hashed \cup {get.seen}
    /\ UNCHANGED <<tree, dirs, run, gets, got, cut>>

\* ... and fills it.
WriteLock ==
    /\ get.at = "writing"
    /\ lock' = Lock(get.sources, get.seen)
    /\ get' = [get EXCEPT !.at = "got"]
    /\ got' = got \cup {get.url}
    /\ UNCHANGED <<tree, dirs, run, gets, hashed, cut>>

\* The get is stopped.
Stop ==
    /\ get.at \notin {"none", "got", "failed"}
    /\ get' = [get EXCEPT !.at = "failed"]
    /\ IF get.at = "writing"
       THEN /\ lock' \in Prefixes(Lock(get.sources, get.seen))
            /\ cut' = TRUE
       ELSE UNCHANGED <<lock, cut>>
    /\ UNCHANGED <<tree, dirs, run, gets, hashed, got>>

-----------------------------------------------------------------------------
(* heh run.                                                                  *)

\* The lock is read: without one, vendor/ must be empty.
ReadLock ==
    /\ run.at = "none"
    /\ run' = IF lock = NoLock
              THEN [run EXCEPT !.at = IF tree = Nothing /\ dirs = {} THEN "running" ELSE "failed"]
              ELSE IF lock.bad THEN [run EXCEPT !.at = "failed"]
              ELSE [run EXCEPT !.at = "locked", !.pins = lock.pins]
    /\ UNCHANGED <<tree, dirs, lock, get, gets, hashed, got, cut>>

ListTree ==
    /\ run.at = "locked"
    /\ run' = Listed(run)
    /\ UNCHANGED <<tree, dirs, lock, get, gets, hashed, got, cut>>

RunHashes ==
    /\ run.at = "hashing" /\ run.todo # {}
    /\ run' = HashedOne(run)
    /\ UNCHANGED <<tree, dirs, lock, get, gets, hashed, got, cut>>

\* A bug: files that the lock does not name are not looked at.
VerifyPinned ==
    /\ run.at = "hashing" /\ run.todo = {}
    /\ run' = [run EXCEPT
                  !.at = IF /\ DOMAIN run.pins \subseteq DOMAIN run.seen
                            /\ \A p \in DOMAIN run.pins : run.seen[p] = run.pins[p]
                         THEN "running" ELSE "failed"]
    /\ UNCHANGED <<tree, dirs, lock, get, gets, hashed, got, cut>>

\* None is missing, none unpinned, none modified.
Verify ==
    /\ run.at = "hashing" /\ run.todo = {}
    /\ run' = [run EXCEPT
                  !.at = IF /\ DOMAIN run.pins \subseteq DOMAIN run.seen
                            /\ DOMAIN run.seen \subseteq DOMAIN run.pins
                            /\ \A p \in DOMAIN run.pins : run.seen[p] = run.pins[p]
                         THEN "running" ELSE "failed"]
    /\ UNCHANGED <<tree, dirs, lock, get, gets, hashed, got, cut>>

NoRun == [at |-> "none", pins |-> Nothing, todo |-> {}, seen |-> Nothing]

EndRun ==
    /\ run.at \in {"running", "failed"}
    /\ run' = NoRun
    /\ UNCHANGED <<tree, dirs, lock, get, gets, hashed, got, cut>>

-----------------------------------------------------------------------------
Init ==
    /\ tree = Nothing /\ dirs = {} /\ lock = NoLock
    /\ get = [at |-> "none", url |-> 1, todo |-> {}, seen |-> Nothing, sources |-> {}]
    /\ run = NoRun
    /\ gets = 0 /\ hashed = {} /\ got = {} /\ cut = FALSE

Get ==
    \/ \E u \in Urls : StartGet(u)
    \/ RemoveFile \/ Removed \/ MakeDir \/ CloneFile \/ Download \/ Downloaded
    \/ FetchFails \/ HashTree \/ GetHashes \/ OpenLock \/ WriteLock \/ Stop

Run == ReadLock \/ ListTree \/ RunHashes \/ Verify \/ EndRun

Next == Get \/ Run

Spec == Init /\ [][Next]_vars

-----------------------------------------------------------------------------
\* A type invariant.  Only a lock that was cut has a source that is no URL.
TypeOK ==
    /\ tree \in Trees /\ dirs \subseteq Clones
    /\ lock # NoLock => lock.pins \in Trees /\ lock.bad \in BOOLEAN
    /\ Sources(lock) \cup get.sources \subseteq IF cut THEN Urls \cup {Piece} ELSE Urls
    /\ get.url \in Urls /\ get.todo \subseteq Paths /\ get.seen \in Trees
    /\ run.pins \in Trees /\ run.todo \subseteq Paths /\ run.seen \in Trees
    /\ hashed \subseteq Trees
    /\ got \subseteq Urls

\* When a get reports success, the lock names its URL and pins what is in vendor/,
\* whatever earlier gets have left there: the next run is not refused.
GetPins ==
    get.at = "got" => /\ lock = Lock(lock.sources, tree)
                      /\ get.url \in lock.sources

\* As long as no stop cuts a lock, it keeps the URLs of all successful gets (SPEC.md
\* section 9), but while it is written again.
SourcesKept == get.at # "writing" /\ ~cut => got \subseteq Sources(lock)

Within(f, h) == DOMAIN f \subseteq DOMAIN h /\ \A p \in DOMAIN f : f[p] = h[p]

\* A run goes ahead only with the files that one get has hashed together, whatever
\* gets have failed, stopped or are at work meanwhile; with all of them, unless a stop
\* has cut a lock.
RunsHashed ==
    run.at = "running" =>
        \E h \in hashed \cup {Nothing} : IF cut THEN Within(run.seen, h) ELSE run.seen = h
=============================================================================
