------------------------------- MODULE HehMap -------------------------------
(***************************************************************************)
(* What a map of Heh is (SPEC.md section 5.4): a list of items, one per    *)
(* key, in the order in which their keys were inserted.  A key that is     *)
(* assigned again keeps its place; equality ignores the order.             *)
(***************************************************************************)
EXTENDS Naturals, Sequences

CONSTANTS
    Maps,     \* the map objects
    Keys,
    Values,
    Absent    \* the answer where there is no value

VARIABLES
    items,    \* the items of each map
    answer    \* what the last operation that answers has answered

vars == <<items, answer>>

Item(k, v) == [key |-> k, val |-> v]

\* Where a key is: at one place or at none.
Places(s, k) == {i \in DOMAIN s : s[i].key = k}

Without(s, i) == [j \in 1..Len(s) - 1 |-> IF j < i THEN s[j] ELSE s[j + 1]]

ItemSet(s) == {s[i] : i \in DOMAIN s}

Init ==
    /\ items = [m \in Maps |-> <<>>]
    /\ answer = Absent

Create(m) == items' = [items EXCEPT ![m] = <<>>] /\ UNCHANGED answer

Get(m, k) ==
    /\ \/ Places(items[m], k) = {} /\ answer' = Absent
       \/ \E i \in Places(items[m], k) : answer' = items[m][i].val
    /\ UNCHANGED items

Insert(m, k, v) ==
    /\ \/ /\ Places(items[m], k) = {}
          /\ items' = [items EXCEPT ![m] = Append(@, Item(k, v))]
       \/ \E i \in Places(items[m], k) :
             items' = [items EXCEPT ![m] = [@ EXCEPT ![i] = Item(k, v)]]
    /\ UNCHANGED answer

Remove(m, k) ==
    \/ Places(items[m], k) = {} /\ answer' = Absent /\ UNCHANGED items
    \/ \E i \in Places(items[m], k) :
          /\ answer' = items[m][i].val
          /\ items' = [items EXCEPT ![m] = Without(@, i)]

Compare(m, n) ==
    /\ answer' = (ItemSet(items[m]) = ItemSet(items[n]))
    /\ UNCHANGED items

Next ==
    \E m \in Maps :
        \/ Create(m)
        \/ \E k \in Keys : \/ Get(m, k) \/ Remove(m, k)
                           \/ \E v \in Values : Insert(m, k, v)
        \/ \E n \in Maps : Compare(m, n)

Spec == Init /\ [][Next]_vars
=============================================================================
