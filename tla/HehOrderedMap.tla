--------------------------- MODULE HehOrderedMap ---------------------------
(***************************************************************************)
(* OrderedMap (val.rs): the entries in a vector, and beside it an index    *)
(* from each key to its slot.  Removal closes the gap in the vector, so it *)
(* must move every slot behind it.                                         *)
(*                                                                         *)
(* Slots count from 1.  Keys are ints, strings and bools, which hash as    *)
(* they compare: the index is a function.                                  *)
(***************************************************************************)
EXTENDS Naturals, Sequences

CONSTANTS Maps, Keys, Values, Absent

ASSUME AbsentAssumption == Absent \notin Values

VARIABLES
    maps,      \* the map objects: entries and index of each
    answer     \* what the last operation that answers has answered

vars == <<maps, answer>>

Entry(k, v) == [key |-> k, val |-> v]

New == [entries |-> <<>>, index |-> <<>>]

\* Vec::remove.
Without(s, i) == [j \in 1..Len(s) - 1 |-> IF j < i THEN s[j] ELSE s[j + 1]]

Found(map, k) ==
    IF k \in DOMAIN map.index THEN map.entries[map.index[k]].val ELSE Absent

\* A bug: a key that is assigned again moves to the end.
InsertedLast(map, k, v) ==
    IF k \in DOMAIN map.index
    THEN LET i == map.index[k] IN
         [entries |-> Append(Without(map.entries, i), Entry(k, v)),
          index   |-> [q \in DOMAIN map.index |->
                          IF q = k THEN Len(map.entries)
                          ELSE IF map.index[q] > i THEN map.index[q] - 1
                          ELSE map.index[q]]]
    ELSE [entries |-> Append(map.entries, Entry(k, v)),
          index   |-> [q \in DOMAIN map.index \cup {k} |->
                          IF q = k THEN Len(map.entries) + 1 ELSE map.index[q]]]

Inserted(map, k, v) ==
    IF k \in DOMAIN map.index
    THEN [entries |-> [map.entries EXCEPT ![map.index[k]] = Entry(k, v)],
          index   |-> map.index]
    ELSE [entries |-> Append(map.entries, Entry(k, v)),
          index   |-> [q \in DOMAIN map.index \cup {k} |->
                          IF q = k THEN Len(map.entries) + 1 ELSE map.index[q]]]

\* A bug: the slots behind the gap stay.
RemovedUnshifted(map, k) ==
    IF k \notin DOMAIN map.index THEN map
    ELSE [entries |-> Without(map.entries, map.index[k]),
          index   |-> [q \in DOMAIN map.index \ {k} |-> map.index[q]]]

\* A bug: the slots in front of the gap move, too.
RemovedShiftingAll(map, k) ==
    IF k \notin DOMAIN map.index THEN map
    ELSE [entries |-> Without(map.entries, map.index[k]),
          index   |-> [q \in DOMAIN map.index \ {k} |-> map.index[q] - 1]]

Removed(map, k) ==
    IF k \notin DOMAIN map.index THEN map
    ELSE LET i == map.index[k] IN
         [entries |-> Without(map.entries, i),
          index   |-> [q \in DOMAIN map.index \ {k} |->
                          IF map.index[q] > i THEN map.index[q] - 1 ELSE map.index[q]]]

\* PartialEq: as many entries, and each of them in the other map.
Same(map, other) ==
    /\ Len(map.entries) = Len(other.entries)
    /\ \A i \in DOMAIN map.entries :
          Found(other, map.entries[i].key) = map.entries[i].val

-----------------------------------------------------------------------------
Init ==
    /\ maps = [m \in Maps |-> New]
    /\ answer = Absent

\* A map literal makes a map, and inserts.
Create(m) == maps' = [maps EXCEPT ![m] = New] /\ UNCHANGED answer

Get(m, k) == answer' = Found(maps[m], k) /\ UNCHANGED maps

Insert(m, k, v) ==
    maps' = [maps EXCEPT ![m] = Inserted(maps[m], k, v)] /\ UNCHANGED answer

Remove(m, k) ==
    /\ answer' = Found(maps[m], k)
    /\ maps' = [maps EXCEPT ![m] = Removed(maps[m], k)]

Compare(m, n) == answer' = Same(maps[m], maps[n]) /\ UNCHANGED maps

Next ==
    \E m \in Maps :
        \/ Create(m)
        \/ \E k \in Keys : \/ Get(m, k) \/ Remove(m, k)
                           \/ \E v \in Values : Insert(m, k, v)
        \/ \E n \in Maps : Compare(m, n)

Spec == Init /\ [][Next]_vars

-----------------------------------------------------------------------------
Typed(map) ==
    /\ map = [entries |-> map.entries, index |-> map.index]
    /\ map.entries \in Seq([key : Keys, val : Values])
    /\ DOMAIN map.index \subseteq Keys
    /\ map.index \in [DOMAIN map.index -> 1..Len(map.entries)]

\* A type invariant.
TypeOK ==
    /\ DOMAIN maps = Maps /\ \A m \in Maps : Typed(maps[m])
    /\ answer \in Values \cup {Absent} \cup BOOLEAN

Pointing(map) ==
    /\ \A k \in DOMAIN map.index :
          map.index[k] \in DOMAIN map.entries /\ map.entries[map.index[k]].key = k
    /\ \A i \in DOMAIN map.entries :
          map.entries[i].key \in DOMAIN map.index /\ map.index[map.entries[i].key] = i

\* After any sequence of inserts and removals the index leads from each key to its own
\* entry, and each entry is led to: `self.entries[i]` of get and insert never panics and
\* never reaches the entry of another key.
IndexPoints == \A m \in Maps : Pointing(maps[m])

\* The vector with its index is the map of the language: items in insertion order,
\* found, overwritten, removed and compared by key.
Abstract == INSTANCE HehMap WITH items <- [m \in Maps |-> maps[m].entries]
Ordered  == Abstract!Spec
=============================================================================
