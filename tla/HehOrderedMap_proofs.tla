------------------------ MODULE HehOrderedMap_proofs ------------------------
(***************************************************************************)
(* OrderedMap implements the map of the language, for any keys and values. *)
(*                                                                         *)
(* An index that points at every entry's slot makes each operation the one *)
(* of HehMap: the slot of a key is the only place it has.                  *)
(***************************************************************************)
EXTENDS HehOrderedMap, SequenceTheorems, FunctionTheorems, FiniteSetTheorems, TLAPS

Items == [key : Keys, val : Values]

Good(map) == Typed(map) /\ Pointing(map)

IInv == TypeOK /\ IndexPoints

-----------------------------------------------------------------------------
(* One map. *)

\* What there is to a good map.
LEMMA GoodMap ==
    ASSUME NEW map, Good(map)
    PROVE  /\ map.entries \in Seq(Items)
           /\ Len(map.entries) \in Nat
           /\ DOMAIN map.entries = 1..Len(map.entries)
           /\ \A i \in 1..Len(map.entries) :
                 /\ map.entries[i] \in Items
                 /\ map.entries[i].key \in DOMAIN map.index
                 /\ map.index[map.entries[i].key] = i
           /\ DOMAIN map.index \subseteq Keys
           /\ \A k \in DOMAIN map.index :
                 /\ map.index[k] \in 1..Len(map.entries)
                 /\ map.entries[map.index[k]].key = k
<1>1. /\ map.entries \in Seq(Items)
      /\ DOMAIN map.index \subseteq Keys
      /\ map.index \in [DOMAIN map.index -> 1..Len(map.entries)]
  BY DEF Good, Typed, Items
<1>2. /\ Len(map.entries) \in Nat
      /\ DOMAIN map.entries = 1..Len(map.entries)
      /\ \A i \in 1..Len(map.entries) : map.entries[i] \in Items
  BY <1>1
<1>3. Pointing(map)
  BY DEF Good
<1> QED
  BY <1>1, <1>2, <1>3 DEF Pointing

\* The index finds the one place of a key (OrderedMap::get).
LEMMA IndexIsPlace ==
    ASSUME NEW map, Good(map), NEW k
    PROVE  /\ k \in DOMAIN map.index => Abstract!Places(map.entries, k) = {map.index[k]}
           /\ k \notin DOMAIN map.index => Abstract!Places(map.entries, k) = {}
<1> DEFINE s == map.entries
           f == map.index
<1>1. /\ DOMAIN s = 1..Len(s)
      /\ \A i \in 1..Len(s) : s[i].key \in DOMAIN f /\ f[s[i].key] = i
      /\ \A q \in DOMAIN f : f[q] \in 1..Len(s) /\ s[f[q]].key = q
  BY GoodMap
<1> HIDE DEF s, f
<1>2. \A i : i \in Abstract!Places(s, k) <=> i \in DOMAIN s /\ s[i].key = k
  BY DEF Abstract!Places
<1>3. k \in DOMAIN f => \A i : i \in Abstract!Places(s, k) <=> i = f[k]
  BY <1>1, <1>2
<1>4. k \notin DOMAIN f => \A i : i \notin Abstract!Places(s, k)
  BY <1>1, <1>2
<1> QED
  BY <1>3, <1>4 DEF s, f

\* An empty map is a good one.
LEMMA NewGood == Good(New)
<1>1. /\ New = [entries |-> New.entries, index |-> New.index]
      /\ New.entries = <<>> /\ New.index = <<>>
  BY DEF New
<1>2. DOMAIN New.index = {} /\ DOMAIN New.entries = {}
  BY <1>1
<1>3. New.entries \in Seq([key : Keys, val : Values])
  BY <1>1
<1>4. New.index \in [DOMAIN New.index -> 1..Len(New.entries)]
  BY <1>1, <1>2
<1> QED
  BY <1>1, <1>2, <1>3, <1>4 DEF Good, Typed, Pointing

\* The first items of a sequence with one taken out (Vec::remove).
LEMMA WithoutItem ==
    ASSUME NEW s \in Seq(Items), NEW i \in 1..Len(s)
    PROVE  /\ Without(s, i) \in Seq(Items)
           /\ Len(Without(s, i)) = Len(s) - 1
           /\ \A j \in 1..Len(s) - 1 :
                 Without(s, i)[j] = IF j < i THEN s[j] ELSE s[j + 1]
<1> DEFINE n == Len(s) - 1
<1>1. n \in Nat /\ Len(s) = n + 1
  OBVIOUS
<1>2. \A j \in 1..n : j \in 1..Len(s) /\ j + 1 \in 1..Len(s)
  BY <1>1
<1>3. Without(s, i) = [j \in 1..n |-> IF j < i THEN s[j] ELSE s[j + 1]]
  BY DEF Without
<1> HIDE DEF n
<1>4. \A j \in 1..n : Without(s, i)[j] = IF j < i THEN s[j] ELSE s[j + 1]
  BY <1>3
<1>5. Without(s, i) \in [1..n -> Items]
  BY <1>2, <1>3
<1>6. Without(s, i) \in Seq(Items) /\ Len(Without(s, i)) = n
  BY <1>1, <1>5
<1>7. n = Len(s) - 1
  BY DEF n
<1> QED
  BY <1>4, <1>6, <1>7

\* What it takes to be a good map.
LEMMA MakeGood ==
    ASSUME NEW s \in Seq(Items), NEW K \in SUBSET Keys, NEW f \in [K -> 1..Len(s)],
           \A k \in K : s[f[k]].key = k,
           \A i \in 1..Len(s) : s[i].key \in K /\ f[s[i].key] = i
    PROVE  Good([entries |-> s, index |-> f])
<1> DEFINE map == [entries |-> s, index |-> f]
<1>1. map = [entries |-> map.entries, index |-> map.index]
      /\ map.entries = s /\ map.index = f /\ DOMAIN f = K /\ DOMAIN s = 1..Len(s)
  OBVIOUS
<1> HIDE DEF map
<1>2. Typed(map)
  BY <1>1 DEF Typed, Items
<1>3. Pointing(map)
  BY <1>1 DEF Pointing
<1> QED
  BY <1>2, <1>3 DEF Good, map

\* Inserting keeps the index right (OrderedMap::insert).
LEMMA InsertedGood ==
    ASSUME NEW map, Good(map), NEW k \in Keys, NEW v \in Values
    PROVE  Good(Inserted(map, k, v))
<1> DEFINE s == map.entries
           n == Len(map.entries)
           f == map.index
           D == DOMAIN map.index
           e == Entry(k, v)
<1>1. e \in Items /\ e.key = k
  BY DEF Entry, Items
<1>2. /\ s \in Seq(Items) /\ n \in Nat /\ Len(s) = n
      /\ \A i \in 1..n : s[i].key \in D /\ f[s[i].key] = i
      /\ D \subseteq Keys /\ f \in [D -> 1..n]
      /\ \A q \in D : f[q] \in 1..n /\ s[f[q]].key = q
  <2>1. f \in [D -> 1..n]
    BY DEF Good, Typed
  <2> QED
    BY <2>1, GoodMap
<1>3. /\ k \in D => Inserted(map, k, v) = [entries |-> [s EXCEPT ![f[k]] = e], index |-> f]
      /\ k \notin D => Inserted(map, k, v)
            = [entries |-> Append(s, e),
               index |-> [q \in D \cup {k} |-> IF q = k THEN n + 1 ELSE f[q]]]
  BY DEF Inserted
<1> HIDE DEF s, n, f, D, e
<1>4. CASE k \in D
  <2> DEFINE t == [s EXCEPT ![f[k]] = e]
  <2>1. /\ t \in Seq(Items)
        /\ Len(t) = n
        /\ \A j \in 1..n : t[j] = IF j = f[k] THEN e ELSE s[j]
    BY <1>1, <1>2, <1>4, ExceptSeq
  <2> HIDE DEF t
  <2>2. \A j \in 1..n : t[j].key = s[j].key
    BY <1>1, <1>2, <1>4, <2>1
  <2>3. \A q \in D : t[f[q]].key = q
    BY <1>2, <2>2
  <2>4. \A j \in 1..Len(t) : t[j].key \in D /\ f[t[j].key] = j
    BY <1>2, <2>1, <2>2
  <2>5. D \in SUBSET Keys /\ f \in [D -> 1..Len(t)]
    BY <1>2, <2>1
  <2>6. Good([entries |-> t, index |-> f])
    BY <2>1, <2>3, <2>4, <2>5, MakeGood
  <2> QED
    BY <1>3, <1>4, <2>6 DEF t
<1>5. CASE k \notin D
  <2> DEFINE t == Append(s, e)
             K == D \cup {k}
             g == [q \in K |-> IF q = k THEN n + 1 ELSE f[q]]
  <2>1. /\ t \in Seq(Items)
        /\ Len(t) = n + 1
        /\ \A j \in 1..n : t[j] = s[j]
        /\ t[n + 1] = e
    BY <1>1, <1>2, AppendProperties
  <2>2. /\ g[k] = n + 1
        /\ \A q \in D : q # k /\ g[q] = f[q]
    BY <1>5
  <2>3. g \in [K -> 1..n + 1]
    BY <1>2
  <2> HIDE DEF t, g
  <2>4. \A q \in K : t[g[q]].key = q
    BY <1>1, <1>2, <2>1, <2>2
  <2>5. ASSUME NEW j \in 1..n + 1
        PROVE  t[j].key \in K /\ g[t[j].key] = j
    <3>1. CASE j = n + 1
      BY <1>1, <2>1, <2>2, <3>1
    <3>2. CASE j \in 1..n
      BY <1>2, <2>1, <2>2, <3>2
    <3> QED
      BY <1>2, <3>1, <3>2
  <2>6. K \in SUBSET Keys
    BY <1>2
  <2> HIDE DEF K
  <2>7. Good([entries |-> t, index |-> g])
    BY <2>1, <2>3, <2>4, <2>5, <2>6, MakeGood
  <2> QED
    BY <1>3, <1>5, <2>7 DEF t, g, K
<1> QED
  BY <1>4, <1>5

\* Removing closes the gap in the entries and in the slots (OrderedMap::remove).
LEMMA RemovedGood ==
    ASSUME NEW map, Good(map), NEW k
    PROVE  Good(Removed(map, k))
<1> DEFINE s == map.entries
           n == Len(map.entries)
           f == map.index
           D == DOMAIN map.index
           i == map.index[k]
<1>1. /\ s \in Seq(Items) /\ n \in Nat /\ Len(s) = n
      /\ \A j \in 1..n : s[j].key \in D /\ f[s[j].key] = j
      /\ D \subseteq Keys
      /\ \A q \in D : f[q] \in 1..n /\ s[f[q]].key = q
      /\ k \in D => i \in 1..n /\ f[k] = i
  BY GoodMap
<1>2. /\ k \notin D => Removed(map, k) = map
      /\ k \in D => Removed(map, k)
            = [entries |-> Without(s, i),
               index |-> [q \in D \ {k} |-> IF f[q] > i THEN f[q] - 1 ELSE f[q]]]
  BY DEF Removed
<1>3. CASE k \notin D
  BY <1>2, <1>3
<1> HIDE DEF s, n, f, D, i
<1>4. CASE k \in D
  <2> DEFINE t == Without(s, i)
             K == D \ {k}
             g == [q \in K |-> IF f[q] > i THEN f[q] - 1 ELSE f[q]]
  <2>1. /\ t \in Seq(Items)
        /\ Len(t) = n - 1
        /\ \A j \in 1..n - 1 : t[j] = IF j < i THEN s[j] ELSE s[j + 1]
    BY <1>1, <1>4, WithoutItem
  <2>2. \A q \in K : g[q] = IF f[q] > i THEN f[q] - 1 ELSE f[q]
    OBVIOUS
  <2>3. \A q \in K : f[q] \in 1..n /\ f[q] # i /\ q \in D
    BY <1>1, <1>4
  <2>4. DOMAIN g = K /\ g = [q \in K |-> g[q]]
    OBVIOUS
  <2> HIDE DEF t, g
  <2>5. ASSUME NEW q \in K
        PROVE  g[q] \in 1..n - 1 /\ t[g[q]].key = q
    <3>1. f[q] \in 1..n /\ f[q] # i /\ s[f[q]].key = q
      BY <1>1, <2>3
    <3>2. CASE f[q] > i
      <4>1. /\ g[q] = f[q] - 1 /\ f[q] - 1 \in 1..n - 1
            /\ ~(f[q] - 1 < i) /\ f[q] - 1 + 1 = f[q]
        BY <1>1, <1>4, <2>2, <3>1, <3>2
      <4> QED
        BY <2>1, <3>1, <4>1
    <3>3. CASE ~(f[q] > i)
      <4>1. g[q] = f[q] /\ f[q] \in 1..n - 1 /\ f[q] < i
        BY <1>1, <1>4, <2>2, <3>1, <3>3
      <4> QED
        BY <2>1, <3>1, <4>1
    <3> QED
      BY <3>2, <3>3
  <2>6. ASSUME NEW j \in 1..n - 1
        PROVE  t[j].key \in K /\ g[t[j].key] = j
    <3>1. CASE j < i
      <4>1. j \in 1..n /\ t[j] = s[j] /\ j # i /\ ~(j > i)
        BY <1>1, <1>4, <2>1, <3>1
      <4>2. s[j].key \in K /\ f[s[j].key] = j
        BY <1>1, <1>4, <4>1
      <4> QED
        BY <2>2, <4>1, <4>2
    <3>2. CASE ~(j < i)
      <4>1. j + 1 \in 1..n /\ j + 1 > i /\ j + 1 - 1 = j /\ j + 1 # i /\ t[j] = s[j + 1]
        BY <1>1, <1>4, <2>1, <3>2
      <4>2. s[j + 1].key \in K /\ f[s[j + 1].key] = j + 1
        BY <1>1, <1>4, <4>1
      <4> QED
        BY <2>2, <4>1, <4>2
    <3> QED
      BY <3>1, <3>2
  <2>7. g \in [K -> 1..n - 1] /\ K \in SUBSET Keys
    BY <1>1, <2>4, <2>5
  <2> HIDE DEF K
  <2>8. Good([entries |-> t, index |-> g])
    BY <2>1, <2>5, <2>6, <2>7, MakeGood
  <2> QED
    BY <1>2, <1>4, <2>8 DEF t, g, K
<1> QED
  BY <1>3, <1>4

\* A map has as many keys as entries.
LEMMA AsManyKeys ==
    ASSUME NEW map, Good(map)
    PROVE  /\ IsFiniteSet(DOMAIN map.index)
           /\ Cardinality(DOMAIN map.index) = Len(map.entries)
<1> DEFINE n == Len(map.entries)
           f == [i \in 1..n |-> map.entries[i].key]
<1>1. n \in Nat
  BY GoodMap
<1>2. f \in [1..n -> DOMAIN map.index]
  BY GoodMap
<1>3. \A i, j \in 1..n : f[i] = f[j] => i = j
  BY GoodMap
<1>4. \A k \in DOMAIN map.index : \E i \in 1..n : f[i] = k
  BY GoodMap
<1> HIDE DEF f
<1>5. f \in Bijection(1..n, DOMAIN map.index)
  BY <1>2, <1>3, <1>4, Fun_IsBij
<1>6. IsFiniteSet(1..n) /\ Cardinality(1..n) = n
  <2>1. /\ IsFiniteSet(1..n)
        /\ Cardinality(1..n) = IF 1 > n THEN 0 ELSE n-1+1
    <3>1. 1 \in Int /\ n \in Int
      BY <1>1
    <3> HIDE DEF n
    <3> QED
      BY <3>1, FS_Interval
  <2>2. (IF 1 > n THEN 0 ELSE n-1+1) = n
    BY <1>1
  <2> QED
    BY <2>1, <2>2
<1>7. ExistsBijection(1..n, DOMAIN map.index)
  BY <1>5 DEF ExistsBijection
<1> QED
  BY <1>6, <1>7, FS_Bijection

\* Equal maps are those with the same items (PartialEq).
LEMMA SameIsEqual ==
    ASSUME NEW map, Good(map), NEW other, Good(other)
    PROVE  Same(map, other)
              <=> Abstract!ItemSet(map.entries) = Abstract!ItemSet(other.entries)
<1>1. ASSUME NEW a, Good(a), NEW b, Good(b),
             \A i \in DOMAIN a.entries : Found(b, a.entries[i].key) = a.entries[i].val
      PROVE  /\ Abstract!ItemSet(a.entries) \subseteq Abstract!ItemSet(b.entries)
             /\ DOMAIN a.index \subseteq DOMAIN b.index
  <2>1. ASSUME NEW i \in DOMAIN a.entries
        PROVE  /\ a.entries[i].key \in DOMAIN b.index
               /\ a.entries[i] = b.entries[b.index[a.entries[i].key]]
    <3>1. a.entries[i] \in Items /\ Found(b, a.entries[i].key) = a.entries[i].val
      BY <1>1, GoodMap
    <3>2. a.entries[i].key \in DOMAIN b.index
      BY <3>1, AbsentAssumption DEF Found, Items
    <3>3. /\ b.entries[b.index[a.entries[i].key]] \in Items
          /\ b.entries[b.index[a.entries[i].key]].key = a.entries[i].key
      BY <1>1, <3>2, GoodMap
    <3>4. b.entries[b.index[a.entries[i].key]].val = a.entries[i].val
      BY <3>1, <3>2 DEF Found
    <3> QED
      BY <3>1, <3>2, <3>3, <3>4 DEF Items
  <2>2. \A k \in DOMAIN b.index : b.index[k] \in DOMAIN b.entries
    BY <1>1, GoodMap
  <2>3. \A k \in DOMAIN a.index : \E i \in DOMAIN a.entries : a.entries[i].key = k
    <3>1. \A k \in DOMAIN a.index : /\ a.index[k] \in DOMAIN a.entries
                                    /\ a.entries[a.index[k]].key = k
      BY <1>1, GoodMap
    <3> QED
      BY <3>1
  <2>4. DOMAIN a.index \subseteq DOMAIN b.index
    BY <2>1, <2>3
  <2>5. \A i \in DOMAIN a.entries : \E j \in DOMAIN b.entries : b.entries[j] = a.entries[i]
    BY <2>1, <2>2
  <2>6. Abstract!ItemSet(a.entries) \subseteq Abstract!ItemSet(b.entries)
    BY <2>5, Zenon DEF Abstract!ItemSet
  <2> QED
    BY <2>4, <2>6
<1>2. ASSUME Same(map, other)
      PROVE  Abstract!ItemSet(map.entries) = Abstract!ItemSet(other.entries)
  <2>1. DOMAIN map.index = DOMAIN other.index
    <3>1. DOMAIN map.index \subseteq DOMAIN other.index
      BY <1>1, <1>2 DEF Same
    <3>2. Cardinality(DOMAIN map.index) = Cardinality(DOMAIN other.index)
      BY <1>2, AsManyKeys DEF Same
    <3> QED
      BY <3>1, <3>2, AsManyKeys, FS_Subset
  <2>2. \A i \in DOMAIN other.entries :
           Found(map, other.entries[i].key) = other.entries[i].val
    <3> SUFFICES ASSUME NEW i \in DOMAIN other.entries
                 PROVE  Found(map, other.entries[i].key) = other.entries[i].val
      OBVIOUS
    <3> DEFINE k == other.entries[i].key
               j == map.index[k]
    <3>1. k \in DOMAIN map.index /\ other.index[k] = i
      BY <2>1, GoodMap
    <3>2. j \in DOMAIN map.entries /\ map.entries[j].key = k
      BY <3>1, GoodMap
    <3>3. Found(other, k) = map.entries[j].val
      BY <1>2, <3>2 DEF Same
    <3> QED
      BY <2>1, <3>1, <3>3 DEF Found
  <2>3. \A i \in DOMAIN map.entries :
           Found(other, map.entries[i].key) = map.entries[i].val
    BY <1>2 DEF Same
  <2>4. Abstract!ItemSet(map.entries) \subseteq Abstract!ItemSet(other.entries)
    BY <1>1, <2>3
  <2>5. Abstract!ItemSet(other.entries) \subseteq Abstract!ItemSet(map.entries)
    BY <1>1, <2>2
  <2> QED
    BY <2>4, <2>5
<1>3. ASSUME NEW a, Good(a), NEW b, Good(b),
             Abstract!ItemSet(a.entries) \subseteq Abstract!ItemSet(b.entries)
      PROVE  /\ \A i \in DOMAIN a.entries : Found(b, a.entries[i].key) = a.entries[i].val
             /\ DOMAIN a.index \subseteq DOMAIN b.index
  <2>1. ASSUME NEW i \in DOMAIN a.entries
        PROVE  /\ a.entries[i].key \in DOMAIN b.index
               /\ Found(b, a.entries[i].key) = a.entries[i].val
    <3>1. PICK j \in DOMAIN b.entries : b.entries[j] = a.entries[i]
      BY <1>3 DEF Abstract!ItemSet
    <3>2. b.entries[j].key \in DOMAIN b.index /\ b.index[b.entries[j].key] = j
      BY <1>3, GoodMap
    <3> QED
      BY <3>1, <3>2 DEF Found
  <2>2. \A k \in DOMAIN a.index : \E i \in DOMAIN a.entries : a.entries[i].key = k
    <3>1. \A k \in DOMAIN a.index : /\ a.index[k] \in DOMAIN a.entries
                                    /\ a.entries[a.index[k]].key = k
      BY <1>3, GoodMap
    <3> QED
      BY <3>1
  <2> QED
    BY <2>1, <2>2
<1>4. ASSUME Abstract!ItemSet(map.entries) = Abstract!ItemSet(other.entries)
      PROVE  Same(map, other)
  <2>1. DOMAIN map.index = DOMAIN other.index
    BY <1>3, <1>4
  <2>2. Len(map.entries) = Len(other.entries)
    BY <2>1, AsManyKeys
  <2> QED
    BY <1>3, <1>4, <2>2 DEF Same
<1> QED
  BY <1>2, <1>4

-----------------------------------------------------------------------------
(* The invariant. *)

\* The invariant speaks of one map at a time.
LEMMA AllGood == IInv <=> /\ DOMAIN maps = Maps /\ \A m \in Maps : Good(maps[m])
                          /\ answer \in Values \cup {Absent} \cup BOOLEAN
  BY DEF IInv, TypeOK, IndexPoints, Good

\* A value found in a good map is a value.
LEMMA FoundType ==
    ASSUME NEW map, Good(map), NEW k
    PROVE  Found(map, k) \in Values \cup {Absent}
  BY GoodMap DEF Found, Items

\* Empty maps have it.
LEMMA InitInv == Init => IInv
  BY NewGood, AllGood DEF Init

\* Every operation keeps it.
LEMMA StepInv == IInv /\ [Next]_vars => IInv'
<1> SUFFICES ASSUME IInv, [Next]_vars
             PROVE  IInv'
  OBVIOUS
<1>1. /\ DOMAIN maps = Maps /\ \A m \in Maps : Good(maps[m])
      /\ answer \in Values \cup {Absent} \cup BOOLEAN
  BY AllGood
<1> SUFFICES /\ DOMAIN maps' = Maps /\ \A m \in Maps : Good(maps'[m])
             /\ answer' \in Values \cup {Absent} \cup BOOLEAN
  BY DEF IInv, TypeOK, IndexPoints, Good
<1>2. ASSUME NEW m \in Maps, Create(m)
      PROVE  /\ DOMAIN maps' = Maps /\ \A n \in Maps : Good(maps'[n])
             /\ answer' \in Values \cup {Absent} \cup BOOLEAN
  BY <1>1, <1>2, NewGood DEF Create
<1>3. ASSUME NEW m \in Maps, NEW k \in Keys, Get(m, k)
      PROVE  /\ DOMAIN maps' = Maps /\ \A n \in Maps : Good(maps'[n])
             /\ answer' \in Values \cup {Absent} \cup BOOLEAN
  BY <1>1, <1>3, FoundType DEF Get
<1>4. ASSUME NEW m \in Maps, NEW k \in Keys, NEW v \in Values, Insert(m, k, v)
      PROVE  /\ DOMAIN maps' = Maps /\ \A n \in Maps : Good(maps'[n])
             /\ answer' \in Values \cup {Absent} \cup BOOLEAN
  BY <1>1, <1>4, InsertedGood DEF Insert
<1>5. ASSUME NEW m \in Maps, NEW k \in Keys, Remove(m, k)
      PROVE  /\ DOMAIN maps' = Maps /\ \A n \in Maps : Good(maps'[n])
             /\ answer' \in Values \cup {Absent} \cup BOOLEAN
  BY <1>1, <1>5, FoundType, RemovedGood DEF Remove
<1>6. ASSUME NEW m \in Maps, NEW n \in Maps, Compare(m, n)
      PROVE  /\ DOMAIN maps' = Maps /\ \A p \in Maps : Good(maps'[p])
             /\ answer' \in Values \cup {Absent} \cup BOOLEAN
  BY <1>1, <1>6 DEF Compare, Same
<1>7. CASE UNCHANGED vars
  BY <1>1, <1>7 DEF vars
<1> QED
  BY <1>2, <1>3, <1>4, <1>5, <1>6, <1>7 DEF Next

\* The index leads from each key to its own entry, and each entry is led to, after any
\* sequence of operations: the indexing of get and insert never panics.
THEOREM IndexCorrect == Spec => []IndexPoints
<1>1. IInv => IndexPoints
  BY DEF IInv
<1> QED
  BY <1>1, InitInv, StepInv, PTL DEF Spec

-----------------------------------------------------------------------------
(* The refinement. *)

items == [m \in Maps |-> maps[m].entries]

\* Each operation on a good map is the operation of the language.
LEMMA StepRefines == IInv /\ [Next]_vars => [Abstract!Next]_(Abstract!vars)
<1> SUFFICES ASSUME IInv, [Next]_vars
             PROVE  [Abstract!Next]_(Abstract!vars)
  OBVIOUS
<1>1. DOMAIN maps = Maps /\ \A m \in Maps : Good(maps[m])
  BY AllGood
<1>2. /\ items' = [m \in Maps |-> maps'[m].entries]
      /\ \A m \in Maps : items[m] = maps[m].entries
  BY DEF items
<1>3. ASSUME NEW m \in Maps, Create(m)
      PROVE  Abstract!Create(m)
  BY <1>1, <1>2, <1>3 DEF Create, New, Abstract!Create, items
<1>4. ASSUME NEW m \in Maps, NEW k \in Keys, Get(m, k)
      PROVE  Abstract!Get(m, k)
  BY <1>1, <1>2, <1>4, IndexIsPlace DEF Get, Found, Abstract!Get, items
<1>5. ASSUME NEW m \in Maps, NEW k \in Keys, NEW v \in Values, Insert(m, k, v)
      PROVE  Abstract!Insert(m, k, v)
  <2> DEFINE s   == maps[m].entries
             i   == maps[m].index[k]
             new == Inserted(maps[m], k, v).entries
  <2>1. items' = [items EXCEPT ![m] = new] /\ items[m] = s /\ UNCHANGED answer
    BY <1>1, <1>2, <1>5 DEF Insert, items
  <2>2. CASE k \in DOMAIN maps[m].index
    <3>1. new = [s EXCEPT ![i] = Abstract!Item(k, v)]
      BY <2>2 DEF Inserted, Entry, Abstract!Item
    <3>2. i \in Abstract!Places(s, k)
      BY <1>1, <2>2, IndexIsPlace
    <3> HIDE DEF i, s, new
    <3>3. items' = [items EXCEPT ![m] = [items[m] EXCEPT ![i] = Abstract!Item(k, v)]]
      BY <2>1, <3>1
    <3> QED
      BY <2>1, <3>2, <3>3 DEF Abstract!Insert, items
  <2>3. CASE k \notin DOMAIN maps[m].index
    <3>1. new = Append(s, Abstract!Item(k, v))
      BY <2>3 DEF Inserted, Entry, Abstract!Item
    <3>2. Abstract!Places(s, k) = {}
      BY <1>1, <2>3, IndexIsPlace
    <3> HIDE DEF s, new
    <3>3. items' = [items EXCEPT ![m] = Append(items[m], Abstract!Item(k, v))]
      BY <2>1, <3>1
    <3> QED
      BY <2>1, <3>2, <3>3 DEF Abstract!Insert, items
  <2> QED
    BY <2>2, <2>3
<1>6. ASSUME NEW m \in Maps, NEW k \in Keys, Remove(m, k)
      PROVE  Abstract!Remove(m, k)
  <2> DEFINE s   == maps[m].entries
             i   == maps[m].index[k]
             new == Removed(maps[m], k).entries
  <2>1. /\ items' = [items EXCEPT ![m] = new] /\ items[m] = s
        /\ answer' = Found(maps[m], k)
    BY <1>1, <1>2, <1>6 DEF Remove, items
  <2>2. CASE k \in DOMAIN maps[m].index
    <3>1. new = Abstract!Without(s, i)
      BY <2>2 DEF Removed, Without, Abstract!Without
    <3>2. i \in Abstract!Places(s, k) /\ answer' = s[i].val
      BY <1>1, <2>1, <2>2, IndexIsPlace DEF Found
    <3> HIDE DEF i, s, new
    <3>3. items' = [items EXCEPT ![m] = Abstract!Without(items[m], i)]
      BY <2>1, <3>1
    <3>4. answer' = items[m][i].val
      BY <2>1, <3>2
    <3> QED
      BY <2>1, <3>2, <3>3, <3>4 DEF Abstract!Remove, items
  <2>3. CASE k \notin DOMAIN maps[m].index
    <3>1. new = s /\ answer' = Absent
      BY <2>1, <2>3 DEF Removed, Found
    <3>2. Abstract!Places(s, k) = {}
      BY <1>1, <2>3, IndexIsPlace
    <3> HIDE DEF s, new
    <3>3. items' = items
      BY <2>1, <3>1 DEF items
    <3> QED
      BY <2>1, <3>1, <3>2, <3>3 DEF Abstract!Remove, items
  <2> QED
    BY <2>2, <2>3
<1>7. ASSUME NEW m \in Maps, NEW n \in Maps, Compare(m, n)
      PROVE  Abstract!Compare(m, n)
  <2>1. items' = items /\ items[m] = maps[m].entries /\ items[n] = maps[n].entries
    BY <1>2, <1>7 DEF Compare, items
  <2>2. answer' = Same(maps[m], maps[n])
    BY <1>7 DEF Compare
  <2>3. answer' = (Abstract!ItemSet(items[m]) = Abstract!ItemSet(items[n]))
    <3>1. Same(maps[m], maps[n])
             <=> Abstract!ItemSet(items[m]) = Abstract!ItemSet(items[n])
      BY <1>1, <2>1, SameIsEqual
    <3>2. Same(maps[m], maps[n]) \in BOOLEAN
      BY DEF Same
    <3> QED
      BY <2>2, <3>1, <3>2
  <2> QED
    BY <2>1, <2>3 DEF Abstract!Compare, items
<1>8. CASE UNCHANGED vars
  BY <1>8 DEF vars, Abstract!vars
<1> QED
  BY <1>3, <1>4, <1>5, <1>6, <1>7, <1>8 DEF Next, Abstract!Next

\* The slots and the index stay maps of keys and values (ordered_map.rs).
THEOREM TypeCorrect == Spec => []TypeOK
<1>1. IInv => TypeOK
  BY DEF IInv
<1> QED
  BY <1>1, InitInv, StepInv, PTL DEF Spec

\* OrderedMap is the map of the language: items in insertion order, found, overwritten
\* in place, removed and compared by key.
THEOREM Refinement == Spec => Ordered
<1>1. Init => Abstract!Init
  BY DEF Init, New, Abstract!Init
<1> QED
  BY <1>1, InitInv, StepInv, StepRefines, PTL DEF Spec, Ordered, Abstract!Spec
=============================================================================
