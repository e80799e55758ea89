------------------------ MODULE SimpleLRUCacheProofs ------------------------
(***************************************************************************)
(* Proofs about SimpleLRUCache, for any keys, values, costs, sizes, idle   *)
(* times and pins, in both modes.                                          *)
(*                                                                         *)
(* Four invariants, each on top of the ones before it:                     *)
(*   where an entry is: in the table, deferred, on the list (CacheInv);    *)
(*   the books: units_ and pinned_units_ are the costs of the entries that *)
(*   they stand for (Books);                                               *)
(*   what garbage collection leaves: a cache that is too large has nothing *)
(*   unpinned in its table (Lean);                                         *)
(*   the order: the list runs from the newest entry to the oldest (ByAge). *)
(* The last two are lost in the mode where pins of one value may have      *)
(* different options.                                                      *)
(***************************************************************************)
EXTENDS SimpleLRUCache, SumLemmas, FiniteSetTheorems, SequenceTheorems,
        TLAPS

-----------------------------------------------------------------------------
(* Lists.                                                                  *)

\* No value is on the list twice.
Once(list) == \A i, j \in DOMAIN list : list[i] = list[j] => i = j

\* What stands one after the other in left does so in list.
InOrder(left, list) ==
  \A n, m \in DOMAIN left :
    n < m => \E i, j \in DOMAIN list :
               i < j /\ left[n] = list[i] /\ left[m] = list[j]

\* Unlinking leaves a list of the other values, in their order.
LEMMA UnlinkedLeaves ==
  ASSUME NEW list \in Seq(Values), NEW S
  PROVE  /\ Unlinked(list, S) \in Seq(Values)
         /\ ToSet(Unlinked(list, S)) = ToSet(list) \ S
         /\ Once(list) => Once(Unlinked(list, S))
         /\ InOrder(Unlinked(list, S), list)
<1> DEFINE kept == Kept(list, S)
           N == Cardinality(kept)
           UpTo(i) == {j \in kept : j <= i}
           Rank(i) == Cardinality(UpTo(i))
           rank == [i \in kept |-> Rank(i)]
           At(n) == CHOOSE i \in kept : Rank(i) = n
           left == Unlinked(list, S)
<1>1. /\ kept \subseteq 1 .. Len(list) /\ Len(list) \in Nat
      /\ \A i \in kept : list[i] \in Values /\ list[i] \notin S
  BY DEF Kept
<1>2. IsFiniteSet(kept)
  <2>1. IsFiniteSet(1 .. Len(list))
    BY <1>1, FS_Interval
  <2> QED BY <1>1, <2>1, FS_Subset
<1>3. N \in Nat
  BY <1>2, FS_CardinalityType
<1>4. ASSUME NEW i \in kept PROVE Rank(i) \in 1 .. N
  <2>1. UpTo(i) \in SUBSET kept /\ i \in UpTo(i)
    BY <1>1
  <2>2. IsFiniteSet(UpTo(i)) /\ Rank(i) <= N
    BY <1>2, <2>1, FS_Subset
  <2>3. Rank(i) \in Nat /\ Rank(i) # 0
    BY <2>1, <2>2, FS_CardinalityType, FS_EmptySet
  <2> QED BY <1>3, <2>2, <2>3
<1>5. ASSUME NEW i \in kept, NEW j \in kept, i < j PROVE Rank(i) < Rank(j)
  <2>1. UpTo(i) \in SUBSET UpTo(j) /\ j \in UpTo(j) /\ j \notin UpTo(i)
    BY <1>1, <1>5
  <2>2. UpTo(j) \in SUBSET kept
    OBVIOUS
  <2>3. IsFiniteSet(UpTo(j))
    BY <1>2, <2>2, FS_Subset
  <2>4. Rank(i) <= Rank(j) /\ (Rank(j) = Rank(i) => UpTo(j) = UpTo(i))
    BY <2>1, <2>3, FS_Subset
  <2>5. Rank(i) \in 1 .. N /\ Rank(j) \in 1 .. N
    BY <1>4
  <2> QED BY <1>3, <2>1, <2>4, <2>5
<1>9. left = [n \in 1 .. N |-> list[At(n)]]
  BY DEF Unlinked
<1> HIDE DEF UpTo, Rank
<1>6. rank \in Injection(kept, 1 .. N)
  <2>1. rank \in [kept -> 1 .. N]
    BY <1>4
  <2>2. ASSUME NEW i \in kept, NEW j \in kept, rank[i] = rank[j] PROVE i = j
    <3>1. Rank(i) = Rank(j) /\ Rank(i) \in 1 .. N /\ Rank(j) \in 1 .. N
      BY <2>2, <1>4
    <3>2. ~(i < j) /\ ~(j < i)
      <4>1. Rank(i) \in Int /\ Rank(j) \in Int
        BY <3>1, <1>3
      <4> QED BY <3>1, <4>1, <1>5
    <3>3. i \in Int /\ j \in Int
      BY <1>1
    <3> QED BY <3>2, <3>3
  <2> QED BY <2>1, <2>2 DEF Injection, IsInjective
<1>7. \A n \in 1 .. N : \E i \in kept : Rank(i) = n
  <2>1. IsFiniteSet(1 .. N) /\ Cardinality(1 .. N) = N
    BY <1>3, FS_Interval
  <2>2. rank \in Surjection(kept, 1 .. N)
    BY <1>6, <2>1, FS_Injection
  <2> QED BY <2>2 DEF Surjection
<1>8. ASSUME NEW n \in 1 .. N PROVE At(n) \in kept /\ Rank(At(n)) = n
  BY <1>7
<1>10. ASSUME NEW i \in kept
       PROVE  Rank(i) \in 1 .. N /\ At(Rank(i)) = i
  <2>1. Rank(i) \in 1 .. N
    BY <1>4
  <2>2. At(Rank(i)) \in kept /\ Rank(At(Rank(i))) = Rank(i)
    BY <2>1, <1>8
  <2> QED BY <2>1, <2>2, <1>6 DEF Injection, IsInjective
<1> HIDE DEF kept, N, At, left
<1>11. left \in Seq(Values) /\ DOMAIN left = 1 .. N
  <2>1. left \in [1 .. N -> Values]
    BY <1>1, <1>8, <1>9
  <2> QED BY <1>3, <2>1, SeqDef
<1>12. ToSet(left) = ToSet(list) \ S
  <2>1. ASSUME NEW v \in ToSet(left) PROVE v \in ToSet(list) \ S
    <3>1. PICK n \in 1 .. N : v = left[n]
      BY <1>11 DEF ToSet
    <3>2. v = list[At(n)] /\ At(n) \in kept
      BY <3>1, <1>8, <1>9
    <3> QED BY <3>2 DEF kept, Kept, ToSet
  <2>2. ASSUME NEW v \in ToSet(list) \ S PROVE v \in ToSet(left)
    <3>1. PICK i \in DOMAIN list : v = list[i]
      BY DEF ToSet
    <3>2. i \in kept
      BY <3>1 DEF kept, Kept
    <3>3. left[Rank(i)] = v /\ Rank(i) \in 1 .. N
      BY <3>1, <3>2, <1>9, <1>10
    <3> QED BY <3>3, <1>11 DEF ToSet
  <2> QED BY <2>1, <2>2
<1>13. ASSUME Once(list) PROVE Once(left)
  <2>1. SUFFICES ASSUME NEW n \in 1 .. N, NEW m \in 1 .. N, left[n] = left[m]
                 PROVE  n = m
    BY <1>11 DEF Once
  <2>2. list[At(n)] = list[At(m)] /\ At(n) \in kept /\ At(m) \in kept
    BY <2>1, <1>8, <1>9
  <2>3. At(n) = At(m)
    BY <2>2, <1>13 DEF Once, kept, Kept
  <2> QED BY <2>3, <1>8
<1>14. InOrder(left, list)
  <2>1. SUFFICES ASSUME NEW n \in 1 .. N, NEW m \in 1 .. N, n < m
                 PROVE  At(n) < At(m)
    <3>1. \A n \in 1 .. N : At(n) \in DOMAIN list /\ left[n] = list[At(n)]
      BY <1>8, <1>9 DEF kept, Kept
    <3> QED BY <1>11, <2>1, <3>1 DEF InOrder
  <2>2. /\ At(n) \in kept /\ At(m) \in kept
        /\ Rank(At(n)) = n /\ Rank(At(m)) = m
    BY <1>8
  <2>3. At(n) \in Int /\ At(m) \in Int
    <3>1. \A i \in kept : i \in Int
      BY <1>1
    <3> QED BY <2>2, <3>1
  <2>4. ~(At(m) < At(n)) /\ At(m) # At(n)
    <3>1. At(m) < At(n) => Rank(At(m)) < Rank(At(n))
      BY <1>5, <2>2
    <3>2. n \in Int /\ m \in Int
      OBVIOUS
    <3> QED BY <2>1, <2>2, <3>1, <3>2
  <2> QED BY <2>3, <2>4
<1> QED BY <1>11, <1>12, <1>13, <1>14 DEF left

\* A new value at the front of a list.
LEMMA LinkedAdds ==
  ASSUME NEW list \in Seq(Values), NEW v \in Values
  PROVE  /\ <<v>> \o list \in Seq(Values)
         /\ ToSet(<<v>> \o list) = ToSet(list) \cup {v}
         /\ Once(list) /\ v \notin ToSet(list) => Once(<<v>> \o list)
<1> DEFINE more == <<v>> \o list
<1>1. /\ more \in Seq(Values) /\ Len(list) \in Nat
      /\ DOMAIN list = 1 .. Len(list) /\ DOMAIN more = 1 .. Len(list) + 1
      /\ more[1] = v
      /\ \A i \in 2 .. Len(list) + 1 : more[i] = list[i - 1]
  OBVIOUS
<1> HIDE DEF more
<1>2. ToSet(more) = ToSet(list) \cup {v}
  <2>1. ASSUME NEW w \in ToSet(more) PROVE w \in ToSet(list) \cup {v}
    <3>1. PICK i \in 1 .. Len(list) + 1 : w = more[i]
      BY <1>1 DEF ToSet
    <3>2. CASE i = 1
      BY <1>1, <3>1, <3>2
    <3>3. CASE i # 1
      <4>1. i - 1 \in DOMAIN list /\ w = list[i - 1]
        BY <1>1, <3>1, <3>3
      <4> QED BY <4>1 DEF ToSet
    <3> QED BY <3>2, <3>3
  <2>2. v \in ToSet(more)
    BY <1>1 DEF ToSet
  <2>3. ASSUME NEW w \in ToSet(list) PROVE w \in ToSet(more)
    <3>1. PICK i \in 1 .. Len(list) : w = list[i]
      BY <1>1 DEF ToSet
    <3>2. i + 1 \in 2 .. Len(list) + 1 /\ (i + 1) - 1 = i
      BY <1>1
    <3>3. more[i + 1] = w /\ i + 1 \in DOMAIN more
      BY <1>1, <3>1, <3>2
    <3> QED BY <3>3 DEF ToSet
  <2> QED BY <2>1, <2>2, <2>3
<1>3. ASSUME Once(list), v \notin ToSet(list) PROVE Once(more)
  <2>1. SUFFICES ASSUME NEW i \in DOMAIN more, NEW j \in DOMAIN more,
                        more[i] = more[j], i < j
                 PROVE  FALSE
    BY <1>1 DEF Once
  <2>2. j - 1 \in DOMAIN list /\ more[j] = list[j - 1]
    BY <1>1, <2>1
  <2>3. CASE i = 1
    BY <1>1, <1>3, <2>1, <2>2, <2>3 DEF ToSet
  <2>4. CASE i # 1
    <3>1. i - 1 \in DOMAIN list /\ more[i] = list[i - 1]
      BY <1>1, <2>1, <2>4
    <3>2. i - 1 = j - 1
      BY <1>3, <2>1, <2>2, <3>1 DEF Once
    <3> QED BY <3>2, <2>1, <1>1
  <2> QED BY <2>3, <2>4
<1> QED BY <1>1, <1>2, <1>3 DEF more

-----------------------------------------------------------------------------
(* Where a value is.  The operators take the state apart, since an action  *)
(* changes it in several steps: it sweeps, then pins; it removes the old   *)
(* entry, then inserts, then evicts.                                       *)

Tabled(tab) == {v \in Values : \E k \in Keys : tab[k] = v}

PinsIn(pn, v) == pn[v][TRUE] + pn[v][FALSE]

\* The entries are in one place each, and pins protect them.
Placed(tab, def, el, pn) ==
  /\ tab \in [Keys -> Values \cup {NoValue}]
  /\ def \subseteq Values
  /\ el \in [Values -> Elem \cup {NoElem}]
  /\ pn \in [Values -> [BOOLEAN -> Nat]]
  /\ \A v \in Values : el[v] # NoElem <=> v \in Tabled(tab) \cup def
  /\ Tabled(tab) \cap def = {}
  /\ \A k \in Keys : tab[k] # NoValue => el[tab[k]].key = k
  /\ \A v \in def : PinsIn(pn, v) > 0
  /\ \A v \in Values : PinsIn(pn, v) > 0 => el[v] # NoElem

\* What the list should hold: in the LRU mode, what no lookup took off it.
Linkable(tab, pn) == {v \in Tabled(tab) : lru => pn[v][TRUE] = 0}

\* The list holds values of the table, and exactly those it should when the
\* pins of a value have the same options.
Chained(tab, ord, pn) ==
  /\ ord \in Seq(Values)
  /\ ToSet(ord) \subseteq Tabled(tab)
  /\ ~MixedPins =>
       /\ Once(ord)
       /\ ToSet(ord) = Linkable(tab, pn)
       /\ \A v \in Values : pn[v][TRUE] = 0 \/ pn[v][FALSE] = 0

IInv ==
  /\ lru \in BOOLEAN
  /\ Placed(table, deferred, elem, pin)
  /\ Chained(table, order, pin)

LEMMA NoElemIsNoElem == NoElem \notin Elem
  BY SetsAssumption, SizesAssumption DEF Elem

\* Two keys do not share a value.
LEMMA OneKey ==
  ASSUME NEW tab, NEW def, NEW el, NEW pn, Placed(tab, def, el, pn),
         NEW j \in Keys, NEW k \in Keys, tab[j] = tab[k], tab[j] # NoValue
  PROVE  j = k
  BY DEF Placed

LEMMA PinsAreNumbers ==
  ASSUME NEW pn \in [Values -> [BOOLEAN -> Nat]], NEW v \in Values
  PROVE  /\ pn[v][TRUE] \in Nat /\ pn[v][FALSE] \in Nat /\ PinsIn(pn, v) \in Nat
         /\ PinsIn(pn, v) = 0 <=> pn[v][TRUE] = 0 /\ pn[v][FALSE] = 0
<1>1. pn[v] \in [BOOLEAN -> Nat]
  OBVIOUS
<1>2. pn[v][TRUE] \in Nat /\ pn[v][FALSE] \in Nat
  BY <1>1, Zenon
<1> DEFINE used == pn[v][TRUE]
           other == pn[v][FALSE]
<1>3. PinsIn(pn, v) = used + other /\ used \in Nat /\ other \in Nat
  BY <1>2, Zenon DEF PinsIn
<1> HIDE DEF used, other
<1>4. PinsIn(pn, v) \in Nat /\ (PinsIn(pn, v) = 0 <=> used = 0 /\ other = 0)
  BY <1>3
<1> QED BY <1>2, <1>4, Zenon DEF used, other

\* Removing the entries of S.
LEMMA RemovedPlaced ==
  ASSUME NEW tab, NEW def, NEW el, NEW pn, Placed(tab, def, el, pn),
         NEW S \in SUBSET Tabled(tab), NEW tab2, NEW def2, NEW el2,
         tab2 = [k \in Keys |-> IF tab[k] \in S THEN NoValue ELSE tab[k]],
         def2 = def \cup {v \in S : PinsIn(pn, v) # 0},
         el2 = [v \in Values |-> IF v \in S /\ PinsIn(pn, v) = 0 THEN NoElem ELSE el[v]]
  PROVE  Placed(tab2, def2, el2, pn) /\ Tabled(tab2) = Tabled(tab) \ S
<1>0. NoValue \notin Values
  BY SetsAssumption
<1>1. Tabled(tab2) = Tabled(tab) \ S
  BY <1>0 DEF Tabled, Placed
<1>2. /\ tab2 \in [Keys -> Values \cup {NoValue}]
      /\ def2 \subseteq Values
      /\ el2 \in [Values -> Elem \cup {NoElem}]
  <2>1. tab2 \in [Keys -> Values \cup {NoValue}]
    BY DEF Placed
  <2>2. def2 \subseteq Values
    BY DEF Placed, Tabled
  <2>3. el \in [Values -> Elem \cup {NoElem}]
    BY DEF Placed
  <2>4. el2 \in [Values -> Elem \cup {NoElem}]
    BY <2>3
  <2> QED BY <2>1, <2>2, <2>4
<1>3. \A v \in Values : PinsIn(pn, v) \in Nat
  BY PinsAreNumbers DEF Placed
<1>4. ASSUME NEW v \in Values
      PROVE  el2[v] # NoElem <=> v \in Tabled(tab2) \cup def2
  <2>1. CASE v \in S
    BY <1>1, <2>1 DEF Placed
  <2>2. CASE v \notin S
    BY <1>1, <2>2 DEF Placed
  <2> QED BY <2>1, <2>2
<1>5. Tabled(tab2) \cap def2 = {}
  BY <1>1 DEF Placed
<1>6. ASSUME NEW k \in Keys, tab2[k] # NoValue PROVE el2[tab2[k]].key = k
  <2>1. tab2[k] = tab[k] /\ tab[k] \notin S /\ tab[k] \in Values
    BY <1>2, <1>6
  <2> QED BY <1>6, <2>1 DEF Placed
<1>7. \A v \in def2 : PinsIn(pn, v) > 0
  BY <1>2, <1>3 DEF Placed
<1>8. \A v \in Values : PinsIn(pn, v) > 0 => el2[v] # NoElem
  BY <1>3 DEF Placed
<1> QED BY <1>1, <1>2, <1>4, <1>5, <1>6, <1>7, <1>8 DEF Placed

\* Entries that change in their cost or age alone stay where they are.
LEMMA AlikePlaced ==
  ASSUME NEW tab, NEW def, NEW el, NEW pn, Placed(tab, def, el, pn),
         NEW el2 \in [Values -> Elem \cup {NoElem}],
         \A v \in Values : /\ el2[v] = NoElem <=> el[v] = NoElem
                           /\ el[v] # NoElem => el2[v].key = el[v].key
  PROVE  Placed(tab, def, el2, pn)
<1>1. ASSUME NEW k \in Keys, tab[k] # NoValue PROVE el2[tab[k]].key = k
  <2>1. tab[k] \in Values /\ el[tab[k]] # NoElem /\ el[tab[k]].key = k
    BY <1>1 DEF Placed, Tabled
  <2> QED BY <2>1
<1> QED BY <1>1 DEF Placed

\* A pin more or less of a value that is in the table.
LEMMA PinPlaced ==
  ASSUME NEW tab, NEW def, NEW el, NEW pn, Placed(tab, def, el, pn),
         NEW v \in Tabled(tab), NEW b \in BOOLEAN, NEW n \in Nat
  PROVE  Placed(tab, def, el, [pn EXCEPT ![v][b] = n])
<1> DEFINE pn2 == [pn EXCEPT ![v][b] = n]
<1>1. /\ pn2 \in [Values -> [BOOLEAN -> Nat]]
      /\ \A w \in Values \ {v} : PinsIn(pn2, w) = PinsIn(pn, w)
  BY DEF Placed, PinsIn, Tabled
<1>2. v \in Values /\ v \notin def /\ el[v] # NoElem
  BY DEF Placed, Tabled
<1> HIDE DEF pn2
<1>3. \A w \in def : PinsIn(pn2, w) > 0
  BY <1>1, <1>2 DEF Placed
<1>4. \A w \in Values : PinsIn(pn2, w) > 0 => el[w] # NoElem
  BY <1>1, <1>2 DEF Placed
<1> QED BY <1>1, <1>3, <1>4 DEF Placed, pn2

-----------------------------------------------------------------------------
(* The parts of an action.                                                 *)

LEMMA Bridge ==
  /\ InTable = Tabled(table)
  /\ \A v : Pins(v) = PinsIn(pin, v)
  BY DEF InTable, Tabled, Pins, PinsIn

\* The entries of S leave.
LEMMA Removal ==
  ASSUME IInv, NEW S \in SUBSET InTable
  PROVE  /\ Placed(WithoutKeys(S), Deferred(S), Discarded(S), pin)
         /\ Tabled(WithoutKeys(S)) = InTable \ S
<1>1. Placed(table, deferred, elem, pin) /\ S \in SUBSET Tabled(table)
  BY Bridge DEF IInv
<1>2. /\ WithoutKeys(S) = [k \in Keys |-> IF table[k] \in S THEN NoValue ELSE table[k]]
      /\ Deferred(S) = deferred \cup {v \in S : PinsIn(pin, v) # 0}
      /\ Discarded(S) = [v \in Values |-> IF v \in S /\ PinsIn(pin, v) = 0
                                          THEN NoElem ELSE elem[v]]
  BY Bridge DEF WithoutKeys, Deferred, Discarded, Unpinned
<1> QED BY <1>1, <1>2, RemovedPlaced, Bridge

\* Removing entries without pins leaves the deferred ones alone.
LEMMA RemovalUnpinned ==
  ASSUME IInv, NEW S \in SUBSET InTable, \A v \in S : Pins(v) = 0
  PROVE  Deferred(S) = deferred
  BY DEF Deferred, Unpinned

\* The list after the entries of S have left.
LEMMA Unchained ==
  ASSUME IInv, NEW S \in SUBSET InTable, NEW tab, Tabled(tab) = InTable \ S
  PROVE  Chained(tab, Unlinked(order, S), pin)
<1>1. /\ Unlinked(order, S) \in Seq(Values)
      /\ ToSet(Unlinked(order, S)) = ToSet(order) \ S
      /\ Once(order) => Once(Unlinked(order, S))
  BY UnlinkedLeaves DEF IInv, Chained
<1>2. ToSet(order) \subseteq InTable
  BY Bridge DEF IInv, Chained
<1>3. Linkable(tab, pin) = Linkable(table, pin) \ S
  BY Bridge DEF Linkable
<1> HIDE DEF Linkable
<1> QED BY <1>1, <1>2, <1>3 DEF Chained, IInv

\* What sweeps and the garbage collector remove is in the table.
LEMMA SweptInTable ==
  ASSUME IInv
  PROVE  Idle(order) \in SUBSET InTable
  BY Bridge DEF IInv, Chained, Idle

LEMMA EvictedUnpinned ==
  ASSUME IInv, NEW list, ToSet(list) \subseteq InTable, NEW total, NEW max, NEW cost
  PROVE  /\ Evicted(list, total, max, cost) \in SUBSET InTable
         /\ Evicted(list, total, max, cost) \subseteq ToSet(list)
         /\ \A v \in Evicted(list, total, max, cost) : Pins(v) = 0
<1> DEFINE few(i) == total - Cost(cost, Unpinned(Behind(list, i))) > max
<1>1. Evicted(list, total, max, cost) =
        {list[i] : i \in {i \in DOMAIN list : Pins(list[i]) = 0 /\ few(i)}}
  BY DEF Evicted
<1> HIDE DEF few
<1> QED BY <1>1 DEF ToSet

-----------------------------------------------------------------------------
(* The actions.                                                            *)

LEMMA InitInv == Init => IInv
<1> SUFFICES ASSUME Init PROVE IInv
  OBVIOUS
<1>1. Tabled(table) = {}
  BY SetsAssumption DEF Init, Tabled
<1>2. /\ table \in [Keys -> Values \cup {NoValue}]
      /\ elem \in [Values -> Elem \cup {NoElem}]
      /\ pin \in [Values -> [BOOLEAN -> Nat]]
      /\ \A v \in Values : PinsIn(pin, v) = 0 /\ elem[v] = NoElem
  BY DEF Init, PinsIn
<1>3. Placed(table, deferred, elem, pin)
  BY <1>1, <1>2 DEF Init, Placed
<1>4. order \in Seq(Values) /\ ToSet(order) = {} /\ Once(order)
  BY DEF Init, ToSet, Once
<1>5. Chained(table, order, pin)
  BY <1>1, <1>4 DEF Chained, Linkable, Init
<1> QED BY <1>3, <1>5 DEF IInv, Init

LEMMA RemovalKeeps ==
  ASSUME IInv, NEW S \in SUBSET InTable,
         table' = WithoutKeys(S), deferred' = Deferred(S),
         order' = Unlinked(order, S), elem' = Discarded(S), UNCHANGED <<lru, pin>>
  PROVE  IInv'
<1>1. Placed(table', deferred', elem', pin')
  BY Removal
<1>2. Chained(table', order', pin)
  BY Removal, Unchained
<1>3. Linkable(table, pin)' = Linkable(table', pin)
  BY DEF Linkable
<1> QED BY <1>1, <1>2, <1>3 DEF IInv, Chained, Placed, Tabled, PinsIn

\* The list is right again when v alone has new pins and is put where it
\* belongs.
LEMMA Relinked ==
  ASSUME NEW tab, NEW ord, NEW pn, Chained(tab, ord, pn),
         NEW v \in Tabled(tab), NEW pn2, \A w \in Values \ {v} : pn2[w] = pn[w],
         NEW ord2 \in Seq(Values), ToSet(ord2) \ {v} = ToSet(ord) \ {v},
         ~MixedPins => /\ Once(ord2)
                       /\ v \in ToSet(ord2) <=> (lru => pn2[v][TRUE] = 0)
                       /\ pn2[v][TRUE] = 0 \/ pn2[v][FALSE] = 0
  PROVE  Chained(tab, ord2, pn2)
<1>1. ToSet(ord2) \subseteq Tabled(tab) /\ Tabled(tab) \subseteq Values
  BY DEF Chained, Tabled
<1>2. ASSUME ~MixedPins PROVE ToSet(ord2) = Linkable(tab, pn2)
  <2>1. ASSUME NEW w \in Tabled(tab), w # v
        PROVE  w \in ToSet(ord2) <=> w \in Linkable(tab, pn2)
    <3>1. w \in ToSet(ord2) <=> w \in Linkable(tab, pn)
      BY <1>2, <2>1 DEF Chained
    <3>2. pn2[w] = pn[w]
      BY <1>1, <2>1
    <3> QED BY <3>1, <3>2 DEF Linkable
  <2>2. v \in ToSet(ord2) <=> v \in Linkable(tab, pn2)
    BY <1>2 DEF Linkable
  <2> QED BY <1>1, <2>1, <2>2 DEF Linkable
<1>3. ASSUME ~MixedPins, NEW w \in Values
      PROVE  pn2[w][TRUE] = 0 \/ pn2[w][FALSE] = 0
  <2>1. pn[w][TRUE] = 0 \/ pn[w][FALSE] = 0
    BY <1>3 DEF Chained
  <2>2. w # v => pn2[w] = pn[w]
    OBVIOUS
  <2> QED BY <1>3, <2>1, <2>2, Zenon
<1> QED BY <1>1, <1>2, <1>3 DEF Chained

\* A state with the parts right is a state that is right.
LEMMA Together ==
  ASSUME IInv, lru' = lru, Placed(table', deferred', elem', pin'),
         Chained(table', order', pin')
  PROVE  IInv'
<1>1. Placed(table, deferred, elem, pin)' = Placed(table', deferred', elem', pin')
  BY DEF Placed, Tabled, PinsIn
<1>2. Chained(table, order, pin)' = Chained(table', order', pin')
  BY DEF Chained, Linkable, Tabled
<1> QED BY <1>1, <1>2 DEF IInv

LEMMA LookupKeeps ==
  ASSUME IInv, NEW k \in Keys, NEW update \in BOOLEAN, Lookup(k, update)
  PROVE  IInv'
<1> DEFINE v == table[k]
           swept == Idle(order)
           off == IF Pins(v) = 0 /\ lru /\ update THEN swept \cup {v} ELSE swept
           n == pin[v][update] + 1
<1>1. /\ v \notin swept /\ v # NoValue
      /\ MixedPins \/ pin[v][~update] = 0
      /\ pin' = [pin EXCEPT ![v][update] = n]
      /\ table' = WithoutKeys(swept) /\ deferred' = Deferred(swept)
      /\ order' = Unlinked(order, off) /\ elem' = Discarded(swept) /\ lru' = lru
  BY DEF Lookup
<1>2. swept \in SUBSET InTable /\ v \in InTable /\ InTable \subseteq Values
  BY <1>1, SweptInTable DEF IInv, Placed, InTable
<1>3. Placed(table', deferred', elem', pin) /\ Tabled(table') = InTable \ swept
  BY <1>1, <1>2, Removal
<1>4. pin \in [Values -> [BOOLEAN -> Nat]]
  BY DEF IInv, Placed
<1>5. n \in Nat /\ n # 0
  <2>1. pin[v][update] \in Nat
    BY <1>2, <1>4
  <2> QED BY <2>1
<1> HIDE DEF n, swept, v
<1>6. Placed(table', deferred', elem', pin')
  BY <1>1, <1>2, <1>3, <1>5, PinPlaced
<1>7. /\ \A w \in Values \ {v} : pin'[w] = pin[w]
      /\ update = TRUE => pin'[v][TRUE] = n /\ pin'[v][FALSE] = pin[v][FALSE]
      /\ update = FALSE => pin'[v][FALSE] = n /\ pin'[v][TRUE] = pin[v][TRUE]
  <2>1. v \in Values /\ pin' = [pin EXCEPT ![v][update] = n]
    BY <1>1, <1>2
  <2>2. /\ \A w \in Values \ {v} : pin'[w] = pin[w]
        /\ pin'[v] = [pin[v] EXCEPT ![update] = n]
        /\ pin[v] \in [BOOLEAN -> Nat]
    BY <2>1, <1>4
  <2>3. /\ update = TRUE => pin'[v][TRUE] = n /\ pin'[v][FALSE] = pin[v][FALSE]
        /\ update = FALSE => pin'[v][FALSE] = n /\ pin'[v][TRUE] = pin[v][TRUE]
    BY <2>2, Zenon
  <2> QED BY <2>2, <2>3, Zenon
<1> DEFINE rest == Unlinked(order, swept)
<1>8. /\ Chained(table', rest, pin)
      /\ order \in Seq(Values)
      /\ ToSet(rest) = ToSet(order) \ swept
      /\ order' \in Seq(Values) /\ ToSet(order') = ToSet(order) \ off
      /\ Once(order) => Once(order')
  BY <1>1, <1>2, <1>3, Unchained, UnlinkedLeaves DEF IInv, Chained
<1>9. ToSet(order') \ {v} = ToSet(rest) \ {v}
  BY <1>8
<1>10. ASSUME ~MixedPins
       PROVE  /\ Once(order')
              /\ v \in ToSet(order') <=> (lru => pin'[v][TRUE] = 0)
              /\ pin'[v][TRUE] = 0 \/ pin'[v][FALSE] = 0
  <2>1. /\ Once(order) /\ ToSet(order) = Linkable(table, pin)
        /\ pin[v][TRUE] = 0 \/ pin[v][FALSE] = 0
    BY <1>2, <1>10 DEF IInv, Chained
  <2>2. v \in ToSet(order) <=> (lru => pin[v][TRUE] = 0)
    BY <1>2, <2>1, Bridge DEF Linkable
  <2>3. v \in ToSet(order') <=> (lru => pin[v][TRUE] = 0) /\ v \notin off
    BY <1>8, <2>2
  <2>4. CASE update = TRUE
    <3>1. pin'[v][TRUE] = n /\ pin'[v][FALSE] = pin[v][FALSE] /\ pin[v][FALSE] = 0
      BY <1>1, <1>7, <1>10, <2>4
    <3>2. n # 0 /\ (pin[v][TRUE] = 0 => Pins(v) = 0)
      <4>1. v \in Values /\ Pins(v) = PinsIn(pin, v)
        BY <1>2, Bridge
      <4> QED BY <1>4, <1>5, <3>1, <4>1, PinsAreNumbers, Zenon
    <3>3. v \in off <=> (Pins(v) = 0 /\ lru)
      BY <1>1, <2>4
    <3> QED BY <1>8, <2>1, <2>3, <3>1, <3>2, <3>3
  <2>5. CASE update = FALSE
    <3>1. pin'[v][TRUE] = pin[v][TRUE] /\ pin[v][TRUE] = 0
      BY <1>1, <1>7, <1>10, <2>5
    <3>2. v \notin off
      BY <1>1, <2>5
    <3> QED BY <1>8, <2>1, <2>3, <3>1, <3>2
  <2> QED BY <2>4, <2>5
<1> HIDE DEF off, rest
<1>11. v \in Tabled(table')
  BY <1>1, <1>2, <1>3
<1>12. Chained(table', order', pin')
  BY <1>7, <1>8, <1>9, <1>10, <1>11, Relinked
<1> QED BY <1>1, <1>6, <1>12, Together

\* A pin less of v.
LEMMA PinLess ==
  ASSUME IInv, NEW v \in Values, NEW update \in BOOLEAN, pin[v][update] > 0,
         pin' = [pin EXCEPT ![v][update] = @ - 1]
  PROVE  /\ pin' = [pin EXCEPT ![v][update] = pin[v][update] - 1]
         /\ pin[v][update] - 1 \in Nat
         /\ pin' \in [Values -> [BOOLEAN -> Nat]]
         /\ \A w \in Values \ {v} : pin'[w] = pin[w]
         /\ PinsIn(pin', v) = Pins(v) - 1 /\ Pins(v) \in Nat
         /\ ~MixedPins =>
              /\ pin'[v][TRUE] = 0 \/ pin'[v][FALSE] = 0
              /\ update = TRUE => /\ pin[v][TRUE] # 0
                                  /\ pin'[v][TRUE] = 0 <=> Pins(v) = 1
              /\ update = FALSE => pin[v][TRUE] = 0 /\ pin'[v][TRUE] = 0
<1> DEFINE used == pin[v][update]
           other == pin[v][~update]
<1>1. pin \in [Values -> [BOOLEAN -> Nat]] /\ pin[v] \in [BOOLEAN -> Nat]
  BY DEF IInv, Placed
<1>2. used \in Nat /\ other \in Nat /\ used > 0
  BY <1>1
<1>3. used - 1 \in Nat
  BY <1>2
<1>4. pin' = [pin EXCEPT ![v][update] = used - 1]
  OBVIOUS
<1>5. /\ pin' \in [Values -> [BOOLEAN -> Nat]]
      /\ \A w \in Values \ {v} : pin'[w] = pin[w]
      /\ pin'[v] = [pin[v] EXCEPT ![update] = used - 1]
  BY <1>1, <1>3, <1>4
<1>6. ~MixedPins => pin[v][TRUE] = 0 \/ pin[v][FALSE] = 0
  BY DEF IInv, Chained
<1>7. Pins(v) = pin[v][TRUE] + pin[v][FALSE]
      /\ PinsIn(pin', v) = pin'[v][TRUE] + pin'[v][FALSE]
  BY DEF Pins, PinsIn
<1>8. CASE update = TRUE
  <2>1. /\ used = pin[v][TRUE] /\ other = pin[v][FALSE]
        /\ pin'[v][TRUE] = used - 1 /\ pin'[v][FALSE] = other
    BY <1>1, <1>5, <1>8, Zenon
  <2>2. Pins(v) = used + other /\ PinsIn(pin', v) = used - 1 + other
    BY <1>7, <2>1, Zenon
  <2>3. ~MixedPins => used = 0 \/ other = 0
    BY <1>6, <2>1, Zenon
  <2> HIDE DEF used, other
  <2>4. /\ PinsIn(pin', v) = Pins(v) - 1 /\ Pins(v) \in Nat
        /\ ~MixedPins => /\ used - 1 = 0 \/ other = 0
                         /\ used # 0 /\ (used - 1 = 0 <=> Pins(v) = 1)
    BY <1>2, <2>2, <2>3
  <2> QED BY <1>3, <1>4, <1>5, <1>8, <2>1, <2>4, Zenon DEF used
<1>9. CASE update = FALSE
  <2>1. /\ used = pin[v][FALSE] /\ other = pin[v][TRUE]
        /\ pin'[v][FALSE] = used - 1 /\ pin'[v][TRUE] = other
    BY <1>1, <1>5, <1>9, Zenon
  <2>2. Pins(v) = other + used /\ PinsIn(pin', v) = other + (used - 1)
    BY <1>7, <2>1, Zenon
  <2>3. ~MixedPins => used = 0 \/ other = 0
    BY <1>6, <2>1, Zenon
  <2> HIDE DEF used, other
  <2>4. /\ PinsIn(pin', v) = Pins(v) - 1 /\ Pins(v) \in Nat
        /\ ~MixedPins => other = 0
    BY <1>2, <2>2, <2>3
  <2> QED BY <1>3, <1>4, <1>5, <1>9, <2>1, <2>4, Zenon DEF used
<1> QED BY <1>8, <1>9

\* Pins of a value that is not in the table do not matter to the list.
LEMMA OffTable ==
  ASSUME NEW tab, NEW ord, NEW pn, Chained(tab, ord, pn),
         NEW v \in Values, v \notin Tabled(tab),
         NEW pn2, \A w \in Values \ {v} : pn2[w] = pn[w],
         ~MixedPins => pn2[v][TRUE] = 0 \/ pn2[v][FALSE] = 0
  PROVE  Chained(tab, ord, pn2)
<1>1. Linkable(tab, pn2) = Linkable(tab, pn)
  BY DEF Linkable, Tabled
<1>2. ASSUME ~MixedPins, NEW w \in Values
      PROVE  pn2[w][TRUE] = 0 \/ pn2[w][FALSE] = 0
  <2>1. pn[w][TRUE] = 0 \/ pn[w][FALSE] = 0
    BY <1>2 DEF Chained
  <2>2. w # v => pn2[w] = pn[w]
    OBVIOUS
  <2> QED BY <1>2, <2>1, <2>2, Zenon
<1> QED BY <1>1, <1>2 DEF Chained

LEMMA ReleaseDeferredKeeps ==
  ASSUME IInv, NEW v \in Values, NEW update \in BOOLEAN, ReleaseDeferred(v, update)
  PROVE  IInv'
<1>1. /\ v \in deferred /\ pin[v][update] > 0
      /\ pin' = [pin EXCEPT ![v][update] = @ - 1]
      /\ table' = table /\ order' = order /\ lru' = lru
      /\ IF Pins(v) = 1
         THEN deferred' = deferred \ {v} /\ elem' = [elem EXCEPT ![v] = NoElem]
         ELSE deferred' = deferred /\ elem' = elem
  BY DEF ReleaseDeferred
<1>2. /\ pin' \in [Values -> [BOOLEAN -> Nat]]
      /\ \A w \in Values \ {v} : pin'[w] = pin[w]
      /\ PinsIn(pin', v) = Pins(v) - 1 /\ Pins(v) \in Nat
      /\ ~MixedPins => pin'[v][TRUE] = 0 \/ pin'[v][FALSE] = 0
  BY <1>1, PinLess
<1>3. v \notin Tabled(table)
  BY <1>1 DEF IInv, Placed
<1>4. Chained(table', order', pin')
  BY <1>1, <1>2, <1>3, OffTable DEF IInv
<1>5. /\ \A w \in Values \ {v} : PinsIn(pin', w) = PinsIn(pin, w)
      /\ PinsIn(pin, v) = Pins(v)
  BY <1>2, Bridge DEF PinsIn
<1>6. Pins(v) > 0
  BY <1>1, <1>5 DEF IInv, Placed
<1>7. Placed(table', deferred', elem', pin')
  <2>1. CASE Pins(v) = 1
    <3>1. /\ deferred' = deferred \ {v} /\ elem' = [elem EXCEPT ![v] = NoElem]
          /\ PinsIn(pin', v) = 0
      BY <1>1, <1>2, <2>1
    <3>2. \A w \in Values : elem'[w] = IF w = v THEN NoElem ELSE elem[w]
      BY <3>1 DEF IInv, Placed
    <3>3. elem' \in [Values -> Elem \cup {NoElem}]
      BY <3>1 DEF IInv, Placed
    <3>4. \A k \in Keys : table[k] # NoValue => elem'[table[k]].key = k
      <4> SUFFICES ASSUME NEW k \in Keys, table[k] # NoValue
                   PROVE  elem'[table[k]].key = k
        OBVIOUS
      <4>1. table[k] \in Values /\ table[k] # v /\ elem[table[k]].key = k
        BY <1>3 DEF IInv, Placed, Tabled
      <4> QED BY <3>2, <4>1
    <3>5. \A w \in Values : elem'[w] # NoElem <=> w \in Tabled(table) \cup deferred'
      BY <1>3, <3>1, <3>2 DEF IInv, Placed
    <3>6. /\ \A w \in deferred' : PinsIn(pin', w) > 0
          /\ \A w \in Values : PinsIn(pin', w) > 0 => elem'[w] # NoElem
      BY <1>5, <3>1, <3>2 DEF IInv, Placed
    <3> QED BY <1>1, <1>2, <3>1, <3>3, <3>4, <3>5, <3>6 DEF IInv, Placed
  <2>2. CASE Pins(v) # 1
    <3>1. deferred' = deferred /\ elem' = elem /\ PinsIn(pin', v) > 0
      BY <1>1, <1>2, <1>6, <2>2
    <3>2. /\ \A w \in deferred : PinsIn(pin', w) > 0
          /\ \A w \in Values : PinsIn(pin', w) > 0 => elem[w] # NoElem
      BY <1>1, <1>5, <3>1 DEF IInv, Placed
    <3> QED BY <1>1, <1>2, <3>1, <3>2 DEF IInv, Placed
  <2> QED BY <2>1, <2>2
<1> QED BY <1>1, <1>4, <1>7, Together

\* The time of the last use is all that a release changes in an entry.
LEMMA UsedAlike ==
  ASSUME IInv, NEW v \in Values, NEW update \in BOOLEAN, elem[v] # NoElem,
         elem' = [elem EXCEPT ![v] = Used(@, update)]
  PROVE  /\ elem' \in [Values -> Elem \cup {NoElem}]
         /\ \A w \in Values : /\ elem'[w] = NoElem <=> elem[w] = NoElem
                              /\ elem[w] # NoElem => elem'[w].key = elem[w].key
<1>1. /\ elem \in [Values -> Elem \cup {NoElem}] /\ elem[v] \in Elem
      /\ elem' = [elem EXCEPT ![v] = Used(elem[v], update)]
  BY DEF IInv, Placed
<1>2. Used(elem[v], update) \in Elem /\ Used(elem[v], update).key = elem[v].key
  BY <1>1 DEF Used, Elem
<1> QED BY <1>1, <1>2, NoElemIsNoElem

LEMMA ReleaseKeeps ==
  ASSUME IInv, NEW v \in Values, NEW update \in BOOLEAN, Release(v, update)
  PROVE  IInv'
<1>1. /\ v \in InTable /\ pin[v][update] > 0
      /\ pin' = [pin EXCEPT ![v][update] = @ - 1]
      /\ deferred' = deferred /\ lru' = lru
  BY DEF Release
<1>2. /\ pin' = [pin EXCEPT ![v][update] = pin[v][update] - 1]
      /\ pin[v][update] - 1 \in Nat
      /\ \A w \in Values \ {v} : pin'[w] = pin[w]
      /\ PinsIn(pin', v) = Pins(v) - 1 /\ Pins(v) \in Nat
      /\ ~MixedPins =>
           /\ pin'[v][TRUE] = 0 \/ pin'[v][FALSE] = 0
           /\ update = TRUE => /\ pin[v][TRUE] # 0
                               /\ pin'[v][TRUE] = 0 <=> Pins(v) = 1
           /\ update = FALSE => pin[v][TRUE] = 0 /\ pin'[v][TRUE] = 0
  BY <1>1, PinLess
<1>3. v \in Tabled(table) /\ elem[v] # NoElem
  BY <1>1, Bridge DEF IInv, Placed
<1>4. Placed(table, deferred, elem, pin')
  BY <1>2, <1>3, PinPlaced DEF IInv
<1>5. /\ order \in Seq(Values) /\ Chained(table, order, pin)
      /\ ~MixedPins => /\ Once(order)
                       /\ v \in ToSet(order) <=> (lru => pin[v][TRUE] = 0)
  BY <1>3 DEF IInv, Chained, Linkable
<1>6. Pins(v) # 0
  <2>1. pin[v] \in [BOOLEAN -> Nat]
    BY DEF IInv, Placed
  <2>2. pin[v][TRUE] # 0 \/ pin[v][FALSE] # 0
    <3>1. pin[v][update] # 0
      BY <1>1
    <3>2. update = TRUE \/ update = FALSE
      OBVIOUS
    <3> QED BY <3>1, <3>2, Zenon
  <2>3. pin \in [Values -> [BOOLEAN -> Nat]] /\ Pins(v) = PinsIn(pin, v)
    BY Bridge DEF IInv, Placed
  <2> QED BY <2>2, <2>3, PinsAreNumbers, Zenon
<1>7. CASE Pins(v) > 1
  <2>1. /\ elem' = [elem EXCEPT ![v] = Used(@, update)]
        /\ table' = table /\ order' = order
    BY <1>7 DEF Release
  <2>2. Placed(table, deferred, elem', pin')
    BY <1>3, <1>4, <2>1, UsedAlike, AlikePlaced
  <2>3. Pins(v) # 1
    BY <1>2, <1>7
  <2>4. ~MixedPins => v \in ToSet(order) <=> (lru => pin'[v][TRUE] = 0)
    BY <1>2, <1>5, <2>3
  <2>5. Chained(table, order, pin')
    <3>1. \A w \in Values \ {v} : pin'[w] = pin[w]
      BY <1>2
    <3>2. ~MixedPins => pin'[v][TRUE] = 0 \/ pin'[v][FALSE] = 0
      BY <1>2
    <3> QED BY <1>3, <1>5, <2>4, <3>1, <3>2, Relinked, Zenon
  <2> QED BY <1>1, <2>1, <2>2, <2>5, Together
<1>8. CASE ~(Pins(v) > 1) /\ units > maxUnits
  <2>1. /\ table' = WithoutKeys({v}) /\ order' = Unlinked(order, {v})
        /\ elem' = [elem EXCEPT ![v] = NoElem]
    BY <1>8 DEF Release
  <2>2. PinsIn(pin', v) = 0
    BY <1>2, <1>6, <1>8
  <2>3. {v} \in SUBSET InTable /\ {v} \in SUBSET Tabled(table)
    BY <1>1, <1>3
  <2>4. table' = [k \in Keys |-> IF table[k] \in {v} THEN NoValue ELSE table[k]]
    BY <2>1 DEF WithoutKeys
  <2>5. deferred' = deferred \cup {w \in {v} : PinsIn(pin', w) # 0}
    BY <1>1, <2>2
  <2>6. elem' = [w \in Values |-> IF w \in {v} /\ PinsIn(pin', w) = 0
                                  THEN NoElem ELSE elem[w]]
    BY <2>1, <2>2 DEF IInv, Placed
  <2>7. /\ Placed(table', deferred', elem', pin')
        /\ Tabled(table') = Tabled(table) \ {v}
    <3> DEFINE tab2 == table'
               def2 == deferred'
               el2 == elem'
               pn == pin'
               S == {v}
    <3>1. /\ Placed(table, deferred, elem, pn) /\ S \in SUBSET Tabled(table)
          /\ tab2 = [k \in Keys |-> IF table[k] \in S THEN NoValue ELSE table[k]]
          /\ def2 = deferred \cup {w \in S : PinsIn(pn, w) # 0}
          /\ el2 = [w \in Values |-> IF w \in S /\ PinsIn(pn, w) = 0
                                     THEN NoElem ELSE elem[w]]
      BY <1>4, <2>3, <2>4, <2>5, <2>6
    <3> HIDE DEF tab2, def2, el2, pn, S
    <3>2. Placed(tab2, def2, el2, pn) /\ Tabled(tab2) = Tabled(table) \ S
      BY <3>1, RemovedPlaced
    <3> QED BY <3>2 DEF tab2, def2, el2, pn, S
  <2>8. Chained(table', order', pin)
    BY <2>1, <2>3, <2>7, Bridge, Unchained
  <2>9. v \notin Tabled(table')
    BY <2>7
  <2>10. Chained(table', order', pin')
    <3>1. /\ \A w \in Values \ {v} : pin'[w] = pin[w]
          /\ ~MixedPins => pin'[v][TRUE] = 0 \/ pin'[v][FALSE] = 0
      BY <1>2
    <3> QED BY <2>8, <2>9, <3>1, OffTable, Zenon
  <2> QED BY <1>1, <2>7, <2>10, Together
<1>9. CASE ~(Pins(v) > 1) /\ ~(units > maxUnits)
  <2>1. /\ order' = IF lru /\ update THEN <<v>> \o order ELSE order
        /\ elem' = [elem EXCEPT ![v] = Used(@, update)]
        /\ table' = table
    BY <1>9 DEF Release, Linked
  <2>2. Placed(table, deferred, elem', pin')
    BY <1>3, <1>4, <2>1, UsedAlike, AlikePlaced
  <2>3. Pins(v) = 1
    BY <1>2, <1>6, <1>9
  <2>4. /\ order' \in Seq(Values)
        /\ ToSet(order') = IF lru /\ update THEN ToSet(order) \cup {v} ELSE ToSet(order)
        /\ Once(order) => Once(order') \/ (lru /\ update /\ v \in ToSet(order))
    BY <1>5, <2>1, LinkedAdds
  <2>5. ToSet(order') \ {v} = ToSet(order) \ {v}
    BY <2>4
  <2>6. ASSUME ~MixedPins
        PROVE  /\ Once(order')
               /\ v \in ToSet(order') <=> (lru => pin'[v][TRUE] = 0)
               /\ pin'[v][TRUE] = 0 \/ pin'[v][FALSE] = 0
    <3>1. CASE update = TRUE
      BY <1>2, <1>5, <2>3, <2>4, <2>6, <3>1
    <3>2. CASE update = FALSE
      BY <1>2, <1>5, <2>3, <2>4, <2>6, <3>2
    <3> QED BY <3>1, <3>2
  <2>7. Chained(table, order', pin')
    <3>1. \A w \in Values \ {v} : pin'[w] = pin[w]
      BY <1>2
    <3> QED BY <1>3, <1>5, <2>4, <2>5, <2>6, <3>1, Relinked, Zenon
  <2> QED BY <1>1, <2>1, <2>2, <2>7, Together
<1> QED BY <1>7, <1>8, <1>9

\* A new value v under a key k that has none.
Inserted(tab, def, el, pn, k, v, e, tab2, el2, pn2) ==
  /\ Placed(tab, def, el, pn)
  /\ k \in Keys /\ v \in Values /\ e \in Elem
  /\ tab[k] = NoValue /\ el[v] = NoElem /\ e.key = k
  /\ tab2 = [tab EXCEPT ![k] = v]
  /\ el2 = [el EXCEPT ![v] = e]
  /\ pn2 \in [Values -> [BOOLEAN -> Nat]]
  /\ \A w \in Values \ {v} : pn2[w] = pn[w]

LEMMA InsertedPlaced ==
  ASSUME NEW tab, NEW def, NEW el, NEW pn, NEW k, NEW v, NEW e,
         NEW tab2, NEW el2, NEW pn2,
         Inserted(tab, def, el, pn, k, v, e, tab2, el2, pn2)
  PROVE  /\ Placed(tab2, def, el2, pn2)
         /\ Tabled(tab2) = Tabled(tab) \cup {v}
         /\ PinsIn(pn, v) = 0
<1> USE DEF Inserted
<1>1. /\ tab2 \in [Keys -> Values \cup {NoValue}]
      /\ \A j \in Keys : tab2[j] = IF j = k THEN v ELSE tab[j]
      /\ el2 \in [Values -> Elem \cup {NoElem}]
      /\ \A w \in Values : el2[w] = IF w = v THEN e ELSE el[w]
  BY DEF Placed
<1>3. \A w \in Values \ {v} : PinsIn(pn2, w) = PinsIn(pn, w)
  BY DEF PinsIn
<1>4. v \notin Tabled(tab) /\ v \notin def /\ v # NoValue
  BY SetsAssumption DEF Placed
<1>5. e # NoElem
  BY NoElemIsNoElem
<1>6. PinsIn(pn, v) = 0
  <2>1. pn \in [Values -> [BOOLEAN -> Nat]] /\ ~(PinsIn(pn, v) > 0)
    BY DEF Placed
  <2>2. PinsIn(pn, v) \in Nat
    BY <2>1, PinsAreNumbers
  <2> QED BY <2>1, <2>2
<1>7. Tabled(tab2) = Tabled(tab) \cup {v}
  <2>1. ASSUME NEW w \in Values
        PROVE  w \in Tabled(tab2) <=> w \in Tabled(tab) \cup {v}
    BY <1>1, SetsAssumption DEF Tabled
  <2> QED BY <2>1 DEF Tabled
<1>8. \A w \in Values : el2[w] # NoElem <=> w \in Tabled(tab2) \cup def
  BY <1>1, <1>5, <1>7 DEF Placed
<1>9. ASSUME NEW j \in Keys, tab2[j] # NoValue PROVE el2[tab2[j]].key = j
  <2>1. CASE j = k
    BY <1>1, <2>1
  <2>2. CASE j # k
    <3>1. tab2[j] = tab[j] /\ tab[j] \in Values /\ tab[j] # v
      BY <1>1, <1>4, <1>9, <2>2 DEF Placed, Tabled
    <3> QED BY <1>1, <1>9, <3>1 DEF Placed
  <2> QED BY <2>1, <2>2
<1>10. /\ \A w \in def : PinsIn(pn2, w) > 0
       /\ \A w \in Values : PinsIn(pn2, w) > 0 => el2[w] # NoElem
  BY <1>1, <1>3, <1>4, <1>5 DEF Placed
<1>11. Tabled(tab2) \cap def = {} /\ def \subseteq Values
  BY <1>4, <1>7 DEF Placed
<1>12. Placed(tab2, def, el2, pn2)
  BY <1>1, <1>8, <1>9, <1>10, <1>11 DEF Placed
<1> QED BY <1>6, <1>7, <1>12

LEMMA InsertKeeps ==
  ASSUME IInv, NEW k \in Keys, NEW v \in Values, NEW cost \in Costs,
         InsertPinned(k, v, cost)
  PROVE  IInv'
<1> DEFINE old == {table[k]} \ {NoValue}
           total == units - Cost(elem, Unpinned(old)) + cost
           gone == Evicted(Unlinked(order, old), total, maxUnits, elem)
           S == old \cup gone
           e == [key |-> k, cost |-> cost, age |-> 0]
           rest == Unlinked(order, S)
<1>1. /\ elem[v] = NoElem
      /\ pin' = [pin EXCEPT ![v][TRUE] = 1]
      /\ table' = [WithoutKeys(gone) EXCEPT ![k] = v]
      /\ deferred' = Deferred(old)
      /\ order' = (IF lru THEN <<>> ELSE <<v>>) \o rest
      /\ elem' = [Discarded(S) EXCEPT ![v] = e]
      /\ lru' = lru
  BY DEF InsertPinned
<1>2. old \in SUBSET InTable
  BY DEF IInv, Placed, InTable
<1>3. /\ order \in Seq(Values) /\ ToSet(order) \subseteq InTable
      /\ ToSet(Unlinked(order, old)) = ToSet(order) \ old
  BY Bridge, UnlinkedLeaves DEF IInv, Chained
<1> HIDE DEF total, old
<1>4. /\ gone \in SUBSET InTable /\ gone \cap old = {}
      /\ \A w \in gone : Pins(w) = 0
  BY <1>3, EvictedUnpinned
<1> HIDE DEF gone
<1>5. S \in SUBSET InTable
  BY <1>2, <1>4
<1>6. /\ Placed(WithoutKeys(S), Deferred(S), Discarded(S), pin)
      /\ Tabled(WithoutKeys(S)) = InTable \ S
  BY <1>5, Removal
<1>7. Deferred(S) = Deferred(old)
  BY <1>4 DEF Deferred, Unpinned
<1>8. /\ WithoutKeys(S)[k] = NoValue
      /\ table' = [WithoutKeys(S) EXCEPT ![k] = v]
  <2>1. WithoutKeys(S)[k] = NoValue
    BY DEF WithoutKeys, old
  <2>2. ASSUME NEW j \in Keys, j # k
        PROVE  WithoutKeys(gone)[j] = WithoutKeys(S)[j]
    <3>1. table[j] \in old => j = k
      BY OneKey DEF IInv, old
    <3> QED BY <2>2, <3>1 DEF WithoutKeys
  <2>3. /\ WithoutKeys(gone) = [j \in Keys |-> WithoutKeys(gone)[j]]
        /\ WithoutKeys(S) = [j \in Keys |-> WithoutKeys(S)[j]]
    BY DEF WithoutKeys
  <2> QED BY <1>1, <2>1, <2>2, <2>3
<1>9. v \notin InTable /\ Discarded(S)[v] = NoElem
  BY <1>1, Bridge DEF IInv, Placed, Discarded
<1>10. e \in Elem /\ e.key = k
  BY DEF Elem
<1> HIDE DEF S, e
<1>11. /\ Placed(table', deferred', elem', pin')
       /\ Tabled(table') = Tabled(WithoutKeys(S)) \cup {v}
       /\ PinsIn(pin, v) = 0
  <2> DEFINE tab == WithoutKeys(S)
             def == deferred'
             el == Discarded(S)
             pn == pin
             tab2 == table'
             el2 == elem'
             pn2 == pin'
  <2>1. /\ Placed(tab, def, el, pn) /\ tab[k] = NoValue /\ el[v] = NoElem
        /\ tab2 = [tab EXCEPT ![k] = v] /\ el2 = [el EXCEPT ![v] = e]
    BY <1>1, <1>6, <1>7, <1>8, <1>9
  <2>2. pn2 \in [Values -> [BOOLEAN -> Nat]] /\ \A w \in Values \ {v} : pn2[w] = pn[w]
    BY <1>1 DEF IInv, Placed
  <2> HIDE DEF tab, def, el, pn, tab2, el2, pn2
  <2>3. Inserted(tab, def, el, pn, k, v, e, tab2, el2, pn2)
    BY <1>10, <2>1, <2>2 DEF Inserted
  <2>4. /\ Placed(tab2, def, el2, pn2)
        /\ Tabled(tab2) = Tabled(tab) \cup {v}
        /\ PinsIn(pn, v) = 0
    BY <2>3, InsertedPlaced
  <2> QED BY <2>4 DEF tab, def, pn, tab2, el2, pn2
<1>12. Chained(WithoutKeys(S), rest, pin)
  BY <1>5, <1>6, Unchained
<1>13. v \notin ToSet(rest)
  BY <1>6, <1>9, <1>12 DEF Chained
<1> HIDE DEF rest
<1>14. /\ order' \in Seq(Values)
       /\ ToSet(order') = IF lru THEN ToSet(rest) ELSE ToSet(rest) \cup {v}
       /\ Once(rest) => Once(order')
  <2>1. rest \in Seq(Values)
    BY <1>12 DEF Chained
  <2>2. CASE lru
    <3>1. order' = rest
      BY <1>1, <2>1, <2>2, ConcatEmptySeq
    <3> QED BY <2>1, <2>2, <3>1
  <2>3. CASE ~lru
    BY <1>1, <1>13, <2>1, <2>3, LinkedAdds
  <2> QED BY <2>2, <2>3
<1>15. /\ \A w \in Values \ {v} : pin'[w] = pin[w]
       /\ pin'[v][TRUE] = 1 /\ pin'[v][FALSE] = 0
  <2>1. /\ \A w \in Values \ {v} : pin'[w] = pin[w]
        /\ pin'[v] = [pin[v] EXCEPT ![TRUE] = 1]
        /\ pin \in [Values -> [BOOLEAN -> Nat]] /\ pin[v] \in [BOOLEAN -> Nat]
    BY <1>1 DEF IInv, Placed
  <2>2. pin[v][TRUE] = 0 /\ pin[v][FALSE] = 0
    BY <1>11, <2>1, PinsAreNumbers, Zenon
  <2> QED BY <2>1, <2>2, Zenon
<1>16. ASSUME ~MixedPins PROVE ToSet(order') = Linkable(table', pin')
  <2>1. ASSUME NEW w \in Values, w # v
        PROVE  w \in ToSet(order') <=> w \in Linkable(table', pin')
    <3>1. w \in ToSet(order') <=> w \in Linkable(WithoutKeys(S), pin)
      BY <1>12, <1>14, <1>16, <2>1 DEF Chained
    <3>2. pin'[w] = pin[w] /\ (w \in Tabled(table') <=> w \in Tabled(WithoutKeys(S)))
      BY <1>11, <1>15, <2>1
    <3> QED BY <3>1, <3>2 DEF Linkable
  <2>2. v \in ToSet(order') <=> v \in Linkable(table', pin')
    <3>1. v \in Tabled(table') /\ (v \in ToSet(order') <=> ~lru) /\ pin'[v][TRUE] # 0
      BY <1>11, <1>13, <1>14, <1>15
    <3> QED BY <3>1, Zenon DEF Linkable
  <2>3. /\ ToSet(order') \subseteq InTable \cup {v} /\ InTable \subseteq Values
        /\ Linkable(table', pin') \subseteq Values
    BY <1>6, <1>12, <1>14 DEF Chained, Linkable, Tabled, InTable
  <2> QED BY <2>1, <2>2, <2>3
<1>17. ToSet(order') \subseteq Tabled(table')
  BY <1>11, <1>12, <1>14 DEF Chained
<1>18. ASSUME ~MixedPins, NEW w \in Values
       PROVE  pin'[w][TRUE] = 0 \/ pin'[w][FALSE] = 0
  <2>1. pin[w][TRUE] = 0 \/ pin[w][FALSE] = 0
    BY <1>12, <1>18 DEF Chained
  <2>2. CASE w = v
    BY <1>15, <2>2, Zenon
  <2>3. CASE w # v
    <3>1. pin'[w] = pin[w]
      BY <1>15, <2>3
    <3> QED BY <2>1, <3>1, Zenon
  <2> QED BY <2>2, <2>3
<1>19. Chained(table', order', pin')
  BY <1>12, <1>14, <1>16, <1>17, <1>18 DEF Chained
<1> QED BY <1>1, <1>11, <1>19, Together

\* A new cost.
LEMMA SizedAlike ==
  ASSUME IInv, NEW some \in SUBSET Values, \A w \in some : elem[w] # NoElem,
         NEW cost \in Costs, NEW el2,
         el2 = [w \in Values |-> IF w \in some THEN [elem[w] EXCEPT !.cost = cost]
                                ELSE elem[w]]
  PROVE  Placed(table, deferred, el2, pin)
<1>1. Placed(table, deferred, elem, pin) /\ elem \in [Values -> Elem \cup {NoElem}]
  BY DEF IInv, Placed
<1>2. ASSUME NEW w \in some
      PROVE  /\ [elem[w] EXCEPT !.cost = cost] \in Elem
             /\ [elem[w] EXCEPT !.cost = cost].key = elem[w].key
  <2>1. elem[w] \in Elem
    BY <1>1
  <2> QED BY <2>1 DEF Elem
<1>3. el2 \in [Values -> Elem \cup {NoElem}]
  BY <1>1, <1>2
<1>4. \A w \in Values : /\ el2[w] = NoElem <=> elem[w] = NoElem
                        /\ elem[w] # NoElem => el2[w].key = elem[w].key
  BY <1>1, <1>2, NoElemIsNoElem
<1> QED BY <1>1, <1>3, <1>4, AlikePlaced

LEMMA UpdateSizeKeeps ==
  ASSUME IInv, NEW k \in Keys, NEW v \in Values \cup {NoValue}, NEW cost \in Costs,
         UpdateSize(k, v, cost)
  PROVE  IInv'
<1> DEFINE some == Resized(k, v)
           sized == [w \in Values |-> IF w \in some THEN [elem[w] EXCEPT !.cost = cost]
                                     ELSE elem[w]]
           total == units - Cost(elem, some) + Cost(sized, some)
           gone == Evicted(order, total, maxUnits, sized)
<1>1. /\ table' = WithoutKeys(gone)
      /\ order' = Unlinked(order, gone)
      /\ elem' = [w \in Values |-> IF w \in gone THEN NoElem ELSE sized[w]]
      /\ lru' = lru /\ deferred' = deferred /\ pin' = pin
  BY DEF UpdateSize
<1>2. some \in SUBSET Values /\ \A w \in some : elem[w] # NoElem
  BY DEF Resized, IInv, Placed, Tabled
<1> HIDE DEF some
<1>3. Placed(table, deferred, sized, pin)
  BY <1>2, SizedAlike
<1> HIDE DEF sized, total
<1>4. ToSet(order) \subseteq InTable
  BY Bridge DEF IInv, Chained
<1>5. gone \in SUBSET InTable /\ \A w \in gone : Pins(w) = 0
  BY <1>4, EvictedUnpinned
<1> HIDE DEF gone
<1>6. Placed(table', deferred', elem', pin) /\ Tabled(table') = InTable \ gone
  <2> DEFINE tab2 == table'
             def2 == deferred'
             el2 == elem'
  <2>1. gone \in SUBSET Tabled(table) /\ \A w \in gone : PinsIn(pin, w) = 0
    BY <1>5, Bridge
  <2>2. tab2 = [j \in Keys |-> IF table[j] \in gone THEN NoValue ELSE table[j]]
    BY <1>1 DEF WithoutKeys
  <2>3. def2 = deferred \cup {w \in gone : PinsIn(pin, w) # 0}
    BY <1>1, <2>1
  <2>4. el2 = [w \in Values |-> IF w \in gone /\ PinsIn(pin, w) = 0
                               THEN NoElem ELSE sized[w]]
    BY <1>1, <2>1
  <2> HIDE DEF tab2, def2, el2
  <2>5. Placed(tab2, def2, el2, pin) /\ Tabled(tab2) = Tabled(table) \ gone
    BY <1>3, <2>1, <2>2, <2>3, <2>4, RemovedPlaced
  <2> QED BY <2>5, Bridge DEF tab2, def2, el2
<1>7. Chained(table', order', pin)
  BY <1>1, <1>5, <1>6, Unchained
<1> QED BY <1>1, <1>6, <1>7, Together

LEMMA SetMaxSizeKeeps ==
  ASSUME IInv, NEW max, SetMaxSize(max)
  PROVE  IInv'
<1> DEFINE gone == Evicted(order, units, max, elem)
<1>1. /\ table' = WithoutKeys(gone) /\ order' = Unlinked(order, gone)
      /\ elem' = Discarded(gone)
      /\ lru' = lru /\ deferred' = deferred /\ pin' = pin
  BY DEF SetMaxSize
<1>2. ToSet(order) \subseteq InTable
  BY Bridge DEF IInv, Chained
<1>3. gone \in SUBSET InTable /\ \A w \in gone : Pins(w) = 0
  BY <1>2, EvictedUnpinned
<1> HIDE DEF gone
<1>4. deferred' = Deferred(gone)
  BY <1>1, <1>3, RemovalUnpinned
<1> QED BY <1>1, <1>3, <1>4, RemovalKeeps

LEMMA TickKeeps == ASSUME IInv, Tick PROVE IInv'
<1>1. /\ elem' = [v \in Values |-> IF elem[v] = NoElem THEN NoElem
                                   ELSE [elem[v] EXCEPT !.age = Older(@)]]
      /\ lru' = lru /\ table' = table /\ deferred' = deferred /\ order' = order
      /\ pin' = pin
  BY DEF Tick
<1>2. Placed(table, deferred, elem, pin) /\ elem \in [Values -> Elem \cup {NoElem}]
  BY DEF IInv, Placed
<1>3. ASSUME NEW v \in Values, elem[v] # NoElem
      PROVE  elem'[v] \in Elem /\ elem'[v].key = elem[v].key
  <2>1. elem[v] \in Elem /\ elem'[v] = [elem[v] EXCEPT !.age = Older(elem[v].age)]
    BY <1>1, <1>2, <1>3
  <2>2. Older(elem[v].age) \in Nat
    BY <2>1 DEF Elem, Older
  <2> QED BY <2>1, <2>2 DEF Elem
<1>4. elem' \in [Values -> Elem \cup {NoElem}]
  BY <1>1, <1>3
<1>5. \A v \in Values : /\ elem'[v] = NoElem <=> elem[v] = NoElem
                        /\ elem[v] # NoElem => elem'[v].key = elem[v].key
  BY <1>1, <1>3, NoElemIsNoElem
<1>6. Placed(table, deferred, elem', pin)
  BY <1>2, <1>4, <1>5, AlikePlaced
<1> QED BY <1>1, <1>6, Together DEF IInv

\* Removal by key, of everything, of what is not pinned, of what is too old.
LEMMA RemovesKeep ==
  ASSUME IInv,
         (\E k \in Keys : RemoveKey(k)) \/ RemoveAll \/ RemoveUnpinned
           \/ RemoveExpiredEntries
  PROVE  IInv'
<1>1. ToSet(order) \subseteq InTable
  BY Bridge DEF IInv, Chained
<1>2. ASSUME NEW S \in SUBSET InTable, RemoveSet(S), UNCHANGED <<lru, pin>>
      PROVE  IInv'
  BY <1>2, RemovalKeeps DEF RemoveSet
<1>3. ASSUME NEW k \in Keys, RemoveKey(k) PROVE IInv'
  <2>1. {table[k]} \in SUBSET InTable
    BY <1>3 DEF RemoveKey, IInv, Placed, InTable
  <2> QED BY <1>2, <1>3, <2>1 DEF RemoveKey
<1>4. CASE RemoveAll
  BY <1>2, <1>4 DEF RemoveAll
<1>5. CASE RemoveUnpinned
  <2>1. Unpinned(ToSet(order)) \in SUBSET InTable
    BY <1>1 DEF Unpinned
  <2> QED BY <1>2, <1>5, <2>1 DEF RemoveUnpinned
<1>6. CASE RemoveExpiredEntries
  BY <1>2, <1>6, SweptInTable DEF RemoveExpiredEntries
<1> QED BY <1>3, <1>4, <1>5, <1>6

LEMMA NextKeeps == IInv /\ [Next]_vars => IInv'
<1> SUFFICES ASSUME IInv, [Next]_vars PROVE IInv'
  OBVIOUS
<1>1. ASSUME NEW k \in Keys, NEW update \in BOOLEAN, Lookup(k, update) PROVE IInv'
  BY <1>1, LookupKeeps
<1>2. ASSUME NEW v \in Values, NEW update \in BOOLEAN,
             Release(v, update) \/ ReleaseDeferred(v, update)
      PROVE  IInv'
  BY <1>2, ReleaseKeeps, ReleaseDeferredKeeps
<1>3. ASSUME NEW k \in Keys, NEW v \in Values, NEW cost \in Costs,
             InsertPinned(k, v, cost)
      PROVE  IInv'
  BY <1>3, InsertKeeps
<1>4. ASSUME NEW k \in Keys, NEW v \in Values \cup {NoValue}, NEW cost \in Costs,
             UpdateSize(k, v, cost)
      PROVE  IInv'
  BY <1>4, UpdateSizeKeeps
<1>5. ASSUME NEW max \in 0 .. MaxSize, SetMaxSize(max) PROVE IInv'
  BY <1>5, SetMaxSizeKeeps
<1>6. CASE Tick
  BY <1>6, TickKeeps
<1>7. CASE UNCHANGED vars
  <2>1. /\ lru' = lru /\ table' = table /\ deferred' = deferred
        /\ order' = order /\ elem' = elem /\ pin' = pin
    BY <1>7 DEF vars
  <2> QED BY <2>1, Together DEF IInv
<1> QED BY <1>1, <1>2, <1>3, <1>4, <1>5, <1>6, <1>7, RemovesKeep DEF Next

-----------------------------------------------------------------------------
(* The theorems.                                                           *)

\* The inductive invariant: every entry is in one place and its pins protect
\* it, and the list holds values of the table, exactly those it should when
\* the pins of a value have the same options.
THEOREM CacheInvariance == Spec => []IInv
  BY InitInv, NextKeeps, PTL DEF Spec

\* A live value is in the table under its key, or deferred and pinned, but not
\* both, whatever is looked up, released, inserted, resized or removed, and in
\* whichever order: for any keys, values, costs, sizes and idle times, also
\* when lookups with different options pin one value at once.
THEOREM EntriesInOnePlace == Spec => []OnePlace
<1>1. ASSUME IInv PROVE OnePlace
  <2>1. InTable \subseteq Values /\ deferred \subseteq Values
    BY <1>1 DEF IInv, Placed, InTable
  <2>2. /\ \A v \in Values : elem[v] # NoElem <=> v \in InTable \cup deferred
        /\ InTable \cap deferred = {}
    BY <1>1, Bridge DEF IInv, Placed
  <2>3. Live = InTable \cup deferred
    BY <2>1, <2>2 DEF Live
  <2>4. \A v \in deferred : Pins(v) > 0
    BY <1>1, Bridge DEF IInv, Placed
  <2> QED BY <1>1, <2>2, <2>3, <2>4 DEF IInv, Placed, OnePlace
<1> QED BY <1>1, CacheInvariance, PTL

\* The cache never deletes a value that somebody holds, for any keys, values,
\* costs, sizes, idle times and pins.
THEOREM PinsProtect == Spec => []PinnedIsLive
<1>1. IInv => PinnedIsLive
  BY Bridge DEF IInv, Placed, PinnedIsLive, Live
<1> QED BY <1>1, CacheInvariance, PTL

\* How often a value is on a list that holds nothing twice.
LEMMA ListedOnce ==
  ASSUME Once(order), NEW v
  PROVE  Listed(v) = IF v \in ToSet(order) THEN 1 ELSE 0
<1> DEFINE at == {i \in DOMAIN order : order[i] = v}
<1>1. CASE v \in ToSet(order)
  <2>1. PICK i \in DOMAIN order : order[i] = v
    BY <1>1 DEF ToSet
  <2>2. at = {i}
    BY <2>1 DEF Once
  <2> QED BY <1>1, <2>2, FS_Singleton DEF Listed
<1>2. CASE v \notin ToSet(order)
  <2>1. at = {}
    BY <1>2 DEF ToSet
  <2> QED BY <1>2, <2>1, FS_EmptySet DEF Listed
<1> QED BY <1>1, <1>2

\* What can be evicted is on the list once, and what is not in the table is not
\* on it, so that the garbage collector and the sweep see all they may remove
\* and nothing else, for any keys, values, costs, sizes and idle times, as long
\* as the pins of a value at any time were made with the same options.
THEOREM ListHoldsWhatItShould ==
  ASSUME ~MixedPins
  PROVE  Spec => []ListComplete
<1>1. ASSUME IInv PROVE ListComplete
  <2>1. /\ Once(order) /\ ToSet(order) = Linkable(table, pin)
        /\ pin \in [Values -> [BOOLEAN -> Nat]]
    BY <1>1 DEF IInv, Chained, Placed
  <2>2. ASSUME NEW v \in Unpinned(InTable) PROVE v \in Linkable(table, pin)
    <3>1. v \in Tabled(table) /\ v \in Values /\ PinsIn(pin, v) = 0
      BY Bridge DEF Unpinned, Tabled
    <3>2. pin[v][TRUE] = 0
      BY <2>1, <3>1, PinsAreNumbers, Zenon
    <3> QED BY <3>1, <3>2, Zenon DEF Linkable
  <2>3. \A v \in Unpinned(InTable) : Listed(v) = 1
    BY <2>1, <2>2, ListedOnce
  <2>4. ASSUME ~lru, NEW v \in InTable PROVE Listed(v) = 1
    BY <2>1, <2>4, ListedOnce, Bridge DEF Linkable
  <2>5. ASSUME NEW v \in Values
        PROVE  Listed(v) <= (IF v \in InTable THEN 1 ELSE 0)
    <3>1. v \in ToSet(order) => v \in InTable
      BY <2>1, Bridge DEF Linkable
    <3>2. Listed(v) = IF v \in ToSet(order) THEN 1 ELSE 0
      BY <2>1, ListedOnce
    <3> QED BY <3>1, <3>2
  <2> QED BY <2>3, <2>4, <2>5 DEF ListComplete
<1> QED BY <1>1, CacheInvariance, PTL

-----------------------------------------------------------------------------
(* Units.                                                                  *)

\* Entries whose costs are numbers.
Priced(f, S) == S \subseteq Values /\ \A v \in S : f[v].cost \in Nat

LEMMA CostNat ==
  ASSUME NEW f, NEW S, Priced(f, S)
  PROVE  Cost(f, S) \in Nat
<1> DEFINE g == [v \in S |-> f[v].cost]
<1>1. IsFiniteSet(S) /\ \A v \in S : g[v] \in Nat
  BY SetsAssumption, FS_Subset DEF Priced
<1> HIDE DEF g
<1>2. SumFunctionOnSet(g, S) \in Nat
  BY <1>1, SumNat
<1> QED BY <1>2 DEF Cost, g

\* Only the costs of the entries matter.
LEMMA CostSame ==
  ASSUME NEW f, NEW h, NEW S \in SUBSET Values, \A v \in S : f[v].cost = h[v].cost
  PROVE  Cost(f, S) = Cost(h, S)
<1>1. [v \in S |-> f[v].cost] = [v \in S |-> h[v].cost]
  OBVIOUS
<1> QED BY <1>1 DEF Cost

LEMMA CostNone == ASSUME NEW f PROVE Cost(f, {}) = 0
  BY SumEmpty DEF Cost

LEMMA CostOne ==
  ASSUME NEW f, NEW v, Priced(f, {v})
  PROVE  Cost(f, {v}) = f[v].cost
<1> DEFINE S == {v}
           g == [w \in S |-> f[w].cost]
<1>1. IsFiniteSet(S) /\ v \in S /\ S \ {v} = {}
  BY FS_Singleton
<1>4. f[v].cost \in Int /\ g[v] = f[v].cost /\ \A w \in S : g[w] \in Int
  BY DEF Priced
<1>2. Cost(f, {v}) = SumFunctionOnSet(g, S)
  BY DEF Cost
<1> HIDE DEF g, S
<1>3. SumFunctionOnSet(g, S) = g[v] + 0
  BY <1>1, <1>4, SumTakes, SumEmpty
<1> QED BY <1>2, <1>3, <1>4

\* What a part of the entries takes, and what the rest does.
LEMMA CostSplits ==
  ASSUME NEW f, NEW S, Priced(f, S), NEW P \in SUBSET S
  PROVE  /\ Cost(f, S) = Cost(f, P) + Cost(f, S \ P)
         /\ Cost(f, S) \in Nat /\ Cost(f, P) \in Nat /\ Cost(f, S \ P) \in Nat
<1> DEFINE g == [v \in S |-> f[v].cost]
           p == [v \in P |-> f[v].cost]
           r == [v \in S \ P |-> f[v].cost]
<1>1. IsFiniteSet(S) /\ \A v \in S : g[v] \in Int
  BY SetsAssumption, FS_Subset DEF Priced
<1>2. IsFiniteSet(P) /\ \A v \in P : p[v] = g[v]
  BY <1>1, FS_Subset
<1>3. IsFiniteSet(S \ P) /\ \A v \in S \ P : r[v] = g[v]
  BY <1>1, FS_Subset
<1>4. Cost(f, S) = SumFunctionOnSet(g, S) /\ Cost(f, P) = SumFunctionOnSet(p, P)
      /\ Cost(f, S \ P) = SumFunctionOnSet(r, S \ P)
  BY DEF Cost
<1>5. Priced(f, P) /\ Priced(f, S \ P)
  BY DEF Priced
<1> HIDE DEF g, p, r
<1>6. /\ SumFunctionOnSet(p, P) = SumFunctionOnSet(g, P)
      /\ SumFunctionOnSet(r, S \ P) = SumFunctionOnSet(g, S \ P)
  BY <1>2, <1>3, SumSame
<1>7. SumFunctionOnSet(g, S) = SumFunctionOnSet(g, P) + SumFunctionOnSet(g, S \ P)
  BY <1>1, SumSplits
<1> QED BY <1>4, <1>5, <1>6, <1>7, CostNat

-----------------------------------------------------------------------------
(* The books.                                                              *)

Alive(el) == {v \in Values : el[v] # NoElem}

Held(tab, pn) == {v \in Tabled(tab) : PinsIn(pn, v) # 0}

\* u and p are what the entries take, and what the pinned ones of the table do.
PaidFor(tab, el, pn, u, p) ==
  /\ u = Cost(el, Alive(el))
  /\ p = Cost(el, Held(tab, pn))

LEMMA PlacedPriced ==
  ASSUME NEW tab, NEW def, NEW el, NEW pn, Placed(tab, def, el, pn)
  PROVE  /\ Tabled(tab) \subseteq Alive(el) /\ Held(tab, pn) \subseteq Tabled(tab)
         /\ Alive(el) \subseteq Values /\ def \subseteq Alive(el)
         /\ \A S \in SUBSET Alive(el) : Priced(el, S)
<1>1. el \in [Values -> Elem \cup {NoElem}]
  BY DEF Placed
<1>2. \A v \in Alive(el) : el[v].cost \in Nat
  BY <1>1, SizesAssumption DEF Alive, Elem
<1> QED BY <1>2 DEF Placed, Alive, Held, Tabled, Priced

\* Removing the entries of S: the unpinned ones are paid back, the pinned ones
\* do not count as pinned any more.
LEMMA RemovedPaid ==
  ASSUME NEW tab, NEW def, NEW el, NEW pn, Placed(tab, def, el, pn),
         NEW u, NEW p, PaidFor(tab, el, pn, u, p),
         NEW S \in SUBSET Tabled(tab), NEW free \in SUBSET S,
         \A v \in S : v \in free <=> PinsIn(pn, v) = 0,
         NEW tab2, NEW el2,
         tab2 = [k \in Keys |-> IF tab[k] \in S THEN NoValue ELSE tab[k]],
         el2 = [v \in Values |-> IF v \in free THEN NoElem ELSE el[v]]
  PROVE  /\ PaidFor(tab2, el2, pn, u - Cost(el, free), p - Cost(el, S \ free))
         /\ Cost(el, free) \in Nat /\ Cost(el, S \ free) \in Nat
<1>1. /\ free \in SUBSET Alive(el) /\ S \ free \in SUBSET Held(tab, pn)
      /\ Priced(el, Alive(el)) /\ Priced(el, Held(tab, pn))
  BY PlacedPriced DEF Held
<1>2. Alive(el2) = Alive(el) \ free
  BY DEF Alive
<1>3. Tabled(tab2) = Tabled(tab) \ S
  BY SetsAssumption DEF Placed, Tabled
<1>4. Held(tab2, pn) = Held(tab, pn) \ (S \ free)
  BY <1>3 DEF Held
<1>5. Cost(el2, Alive(el2)) = Cost(el, Alive(el) \ free)
  <2> DEFINE rest == Alive(el) \ free
  <2>1. rest \in SUBSET Values /\ \A v \in rest : el2[v].cost = el[v].cost
    BY DEF Alive
  <2> HIDE DEF rest
  <2>2. Cost(el2, rest) = Cost(el, rest)
    BY <2>1, CostSame
  <2> QED BY <1>2, <2>2 DEF rest
<1>6. Cost(el2, Held(tab2, pn)) = Cost(el, Held(tab, pn) \ (S \ free))
  <2> DEFINE rest == Held(tab, pn) \ (S \ free)
  <2>1. rest \in SUBSET Values /\ \A v \in rest : el2[v].cost = el[v].cost
    BY DEF Held, Tabled
  <2> HIDE DEF rest
  <2>2. Cost(el2, rest) = Cost(el, rest)
    BY <2>1, CostSame
  <2> QED BY <1>4, <2>2 DEF rest
<1>7. /\ Cost(el, Alive(el)) = Cost(el, free) + Cost(el, Alive(el) \ free)
      /\ Cost(el, free) \in Nat /\ Cost(el, Alive(el) \ free) \in Nat
  <2>1. ASSUME NEW A, Priced(el, A)
        PROVE  \A P \in SUBSET A : /\ Cost(el, A) = Cost(el, P) + Cost(el, A \ P)
                                   /\ Cost(el, P) \in Nat /\ Cost(el, A \ P) \in Nat
    BY <2>1, CostSplits
  <2> QED BY <1>1, <2>1
<1>8. /\ Cost(el, Held(tab, pn)) = Cost(el, S \ free) + Cost(el, Held(tab, pn) \ (S \ free))
      /\ Cost(el, S \ free) \in Nat /\ Cost(el, Held(tab, pn) \ (S \ free)) \in Nat
  <2> DEFINE held == Held(tab, pn)
             pinned == S \ free
  <2>1. pinned \in SUBSET held /\ Priced(el, held)
    BY <1>1
  <2> HIDE DEF held, pinned
  <2>2. /\ Cost(el, held) = Cost(el, pinned) + Cost(el, held \ pinned)
        /\ Cost(el, pinned) \in Nat /\ Cost(el, held \ pinned) \in Nat
    BY <2>1, CostSplits
  <2> QED BY <2>2 DEF held, pinned
<1> QED BY <1>5, <1>6, <1>7, <1>8 DEF PaidFor

\* A pin more or less of v.
LEMMA PinPaid ==
  ASSUME NEW tab, NEW def, NEW el, NEW pn, Placed(tab, def, el, pn),
         NEW u, NEW p, PaidFor(tab, el, pn, u, p),
         NEW v \in Tabled(tab), NEW pn2, \A w \in Values \ {v} : pn2[w] = pn[w]
  PROVE  PaidFor(tab, el, pn2, u,
                 p - (IF PinsIn(pn, v) # 0 THEN el[v].cost ELSE 0)
                   + (IF PinsIn(pn2, v) # 0 THEN el[v].cost ELSE 0))
<1> DEFINE was == Held(tab, pn)
           is == Held(tab, pn2)
           others == was \ {v}
<1>1. others = is \ {v} /\ was \subseteq Alive(el) /\ is \subseteq Alive(el)
  BY PlacedPriced DEF Held, PinsIn, Tabled
<1>2. Priced(el, was) /\ Priced(el, is) /\ Priced(el, {v})
      /\ Priced(el, others)
  BY <1>1, PlacedPriced
<1>3. Cost(el, {v}) = el[v].cost /\ el[v].cost \in Nat
  BY <1>2, CostOne DEF Priced
<1>4. v \in was <=> PinsIn(pn, v) # 0
  BY DEF Held
<1>5. v \in is <=> PinsIn(pn2, v) # 0
  BY DEF Held
<1>6. u = Cost(el, Alive(el)) /\ p = Cost(el, was)
  BY DEF PaidFor
<1> HIDE DEF was, is, others
<1>7. ASSUME NEW S, Priced(el, S), others = S \ {v}
      PROVE  Cost(el, S) = Cost(el, others) + (IF v \in S THEN el[v].cost ELSE 0)
  <2>1. CASE v \in S
    <3> DEFINE one == {v}
    <3>1. one \in SUBSET S /\ others = S \ one
      BY <1>7, <2>1
    <3>2. Cost(el, one) = el[v].cost
      BY <1>3
    <3> HIDE DEF one
    <3>3. /\ Cost(el, S) = Cost(el, one) + Cost(el, others)
          /\ Cost(el, one) \in Nat /\ Cost(el, others) \in Nat
      BY <1>7, <3>1, CostSplits
    <3> QED BY <2>1, <3>2, <3>3
  <2>2. CASE v \notin S
    <3>1. S = others
      BY <1>7, <2>2
    <3> QED BY <1>2, <2>2, <3>1, CostNat
  <2> QED BY <2>1, <2>2
<1>8. was \ {v} = others
  BY DEF others
<1>9. /\ Cost(el, was) = Cost(el, others) + (IF v \in was THEN el[v].cost ELSE 0)
      /\ Cost(el, is) = Cost(el, others) + (IF v \in is THEN el[v].cost ELSE 0)
  BY <1>1, <1>2, <1>7, <1>8
<1>10. Cost(el, others) \in Nat
  BY <1>2, CostNat
<1>11. Cost(el, is) = p - (IF PinsIn(pn, v) # 0 THEN el[v].cost ELSE 0)
                   + (IF PinsIn(pn2, v) # 0 THEN el[v].cost ELSE 0)
  BY <1>3, <1>4, <1>5, <1>6, <1>9, <1>10
<1> QED BY <1>6, <1>11 DEF PaidFor, is

\* The pins of a value that is not in the table do not matter.
LEMMA OtherPinPaid ==
  ASSUME NEW tab, NEW el, NEW pn, NEW u, NEW p, PaidFor(tab, el, pn, u, p),
         NEW v, v \notin Tabled(tab), NEW pn2, \A w \in Values \ {v} : pn2[w] = pn[w]
  PROVE  PaidFor(tab, el, pn2, u, p)
<1>1. Held(tab, pn2) = Held(tab, pn)
  BY DEF Held, Tabled, PinsIn
<1> QED BY <1>1 DEF PaidFor

\* Entries that change in their ages alone.
LEMMA AlikePaid ==
  ASSUME NEW tab, NEW def, NEW el, NEW pn, Placed(tab, def, el, pn),
         NEW u, NEW p, PaidFor(tab, el, pn, u, p), NEW el2,
         \A v \in Values : /\ el2[v] = NoElem <=> el[v] = NoElem
                           /\ el[v] # NoElem => el2[v].cost = el[v].cost
  PROVE  PaidFor(tab, el2, pn, u, p)
<1>1. Alive(el2) = Alive(el)
  BY DEF Alive
<1>2. Cost(el2, Alive(el)) = Cost(el, Alive(el))
  BY CostSame DEF Alive
<1>3. Cost(el2, Held(tab, pn)) = Cost(el, Held(tab, pn))
  <2>1. Held(tab, pn) \subseteq Alive(el) /\ Alive(el) \subseteq Values
    BY PlacedPriced
  <2>2. \A v \in Held(tab, pn) : el2[v].cost = el[v].cost
    BY <2>1 DEF Alive
  <2> QED BY <2>1, <2>2, CostSame
<1> QED BY <1>1, <1>2, <1>3 DEF PaidFor

\* The entries of some get another cost.
LEMMA SizedPaid ==
  ASSUME NEW tab, NEW def, NEW el, NEW pn, Placed(tab, def, el, pn),
         NEW u, NEW p, PaidFor(tab, el, pn, u, p),
         NEW some \in SUBSET Alive(el), NEW el2, Placed(tab, def, el2, pn),
         \A v \in Values \ some : el2[v] = el[v],
         NEW both, both = some \cap Held(tab, pn)
  PROVE  PaidFor(tab, el2, pn, u - Cost(el, some) + Cost(el2, some),
                 p - Cost(el, both) + Cost(el2, both))
<1> DEFINE all == Alive(el)
           held == Held(tab, pn)
<1>1. Alive(el2) = all
  <2>1. Alive(el) = Tabled(tab) \cup def /\ Alive(el2) = Tabled(tab) \cup def
    BY DEF Alive, Placed, Tabled
  <2> QED BY <2>1
<1>2. /\ some \in SUBSET all /\ both \in SUBSET held /\ held \subseteq all
      /\ all \subseteq Values
      /\ Priced(el, all) /\ Priced(el2, all) /\ Priced(el, held) /\ Priced(el2, held)
  BY <1>1, PlacedPriced
<1>3. u = Cost(el, all) /\ p = Cost(el, held)
  BY DEF PaidFor
<1>4. held \ both = held \ some
  OBVIOUS
<1> HIDE DEF all, held
<1>5. Cost(el2, all \ some) = Cost(el, all \ some)
  BY <1>2, CostSame
<1>6. Cost(el2, held \ both) = Cost(el, held \ both)
  <2>1. held \ both \subseteq Values /\ \A v \in held \ both : el2[v].cost = el[v].cost
    BY <1>2, <1>4
  <2> QED BY <2>1, CostSame
<1>7. /\ Cost(el, all) = Cost(el, some) + Cost(el, all \ some)
      /\ Cost(el, some) \in Nat /\ Cost(el, all \ some) \in Nat
      /\ Cost(el2, all) = Cost(el2, some) + Cost(el2, all \ some)
      /\ Cost(el2, some) \in Nat
  <2>1. some \in SUBSET all /\ Priced(el, all) /\ Priced(el2, all)
    BY <1>2
  <2>2. /\ Cost(el, all) = Cost(el, some) + Cost(el, all \ some)
        /\ Cost(el, some) \in Nat /\ Cost(el, all \ some) \in Nat
    BY <2>1, CostSplits
  <2>3. /\ Cost(el2, all) = Cost(el2, some) + Cost(el2, all \ some)
        /\ Cost(el2, some) \in Nat
    BY <2>1, CostSplits
  <2> QED BY <2>2, <2>3
<1>8. /\ Cost(el, held) = Cost(el, both) + Cost(el, held \ both)
      /\ Cost(el, both) \in Nat /\ Cost(el, held \ both) \in Nat
      /\ Cost(el2, held) = Cost(el2, both) + Cost(el2, held \ both)
      /\ Cost(el2, both) \in Nat
  <2>1. both \in SUBSET held /\ Priced(el, held) /\ Priced(el2, held)
    BY <1>2
  <2>2. ASSUME NEW h, Priced(h, held)
        PROVE  \A P \in SUBSET held : /\ Cost(h, held) = Cost(h, P) + Cost(h, held \ P)
                                      /\ Cost(h, P) \in Nat /\ Cost(h, held \ P) \in Nat
    BY <2>2, CostSplits
  <2> QED BY <2>1, <2>2
<1>9. /\ u - Cost(el, some) + Cost(el2, some) = Cost(el2, all)
      /\ p - Cost(el, both) + Cost(el2, both) = Cost(el2, held)
  BY <1>3, <1>5, <1>6, <1>7, <1>8
<1> QED BY <1>1, <1>9 DEF PaidFor, held

\* A new value v, pinned, under a key that has none.
LEMMA InsertedPaid ==
  ASSUME NEW tab, NEW def, NEW el, NEW pn, NEW k, NEW v, NEW e,
         NEW tab2, NEW el2, NEW pn2,
         Inserted(tab, def, el, pn, k, v, e, tab2, el2, pn2),
         PinsIn(pn2, v) # 0, NEW u, NEW p, PaidFor(tab, el, pn, u, p)
  PROVE  PaidFor(tab2, el2, pn2, u + e.cost, p + e.cost)
<1>1. /\ Placed(tab2, def, el2, pn2)
      /\ Tabled(tab2) = Tabled(tab) \cup {v}
      /\ Placed(tab, def, el, pn)
      /\ v \in Values /\ el[v] = NoElem /\ el2[v] = e /\ e # NoElem
      /\ \A w \in Values \ {v} : el2[w] = el[w] /\ pn2[w] = pn[w]
  <2>1. /\ Placed(tab, def, el, pn) /\ e \in Elem /\ v \in Values /\ el[v] = NoElem
        /\ el2 = [el EXCEPT ![v] = e] /\ \A w \in Values \ {v} : pn2[w] = pn[w]
    BY DEF Inserted
  <2>2. /\ el2[v] = e /\ \A w \in Values \ {v} : el2[w] = el[w]
        /\ e # NoElem
    BY <2>1, NoElemIsNoElem DEF Placed
  <2> QED BY <2>1, <2>2, InsertedPlaced
<1> DEFINE all == Alive(el)
           held == Held(tab, pn)
           all2 == Alive(el2)
           held2 == Held(tab2, pn2)
<1>2. v \notin all /\ all2 = all \cup {v} /\ v \in all2
  BY <1>1 DEF Alive
<1>3. v \notin held /\ held2 = held \cup {v} /\ v \in held2
  <2>1. v \notin Tabled(tab)
    BY <1>1 DEF Placed
  <2> QED BY <1>1, <2>1 DEF Held, PinsIn, Tabled
<1>4. all \ {v} = all /\ all2 \ {v} = all /\ held2 \ {v} = held
      /\ {v} \in SUBSET all2 /\ {v} \in SUBSET held2
  BY <1>2, <1>3
<1>5. /\ held2 \subseteq all2 /\ all2 \subseteq Values /\ held \subseteq all
      /\ Priced(el2, all2) /\ Priced(el2, held2) /\ Priced(el2, {v})
  BY <1>1, <1>4, PlacedPriced
<1>6. u = Cost(el, all) /\ p = Cost(el, held)
  BY DEF PaidFor
<1> HIDE DEF all, held, all2, held2
<1>7. Cost(el2, all) = Cost(el, all) /\ Cost(el2, held) = Cost(el, held)
  <2>1. /\ \A w \in all : el2[w].cost = el[w].cost
        /\ \A w \in held : el2[w].cost = el[w].cost
        /\ all \subseteq Values /\ held \subseteq Values
    BY <1>1, <1>2, <1>3, <1>5
  <2> QED BY <2>1, CostSame
<1>8. Cost(el2, {v}) = e.cost /\ e.cost \in Nat
  BY <1>1, <1>5, CostOne DEF Priced
<1>9. /\ Cost(el2, all2) = Cost(el2, {v}) + Cost(el2, all) /\ Cost(el2, all) \in Nat
      /\ Cost(el2, held2) = Cost(el2, {v}) + Cost(el2, held) /\ Cost(el2, held) \in Nat
  BY <1>4, <1>5, CostSplits
<1>10. u + e.cost = Cost(el2, all2) /\ p + e.cost = Cost(el2, held2)
  BY <1>6, <1>7, <1>8, <1>9
<1> QED BY <1>10 DEF PaidFor, all2, held2

\* units_ and pinned_units_ are right.
Books == PaidFor(table, elem, pin, units, pinnedUnits)

\* The books of the next state, part by part.
LEMMA BooksNext ==
  ASSUME PaidFor(table', elem', pin', units', pinnedUnits')
  PROVE  Books'
BY DEF Books, PaidFor, Alive, Held, Tabled, PinsIn

LEMMA InitBooks == Init => Books
<1> SUFFICES ASSUME Init PROVE Books
  OBVIOUS
<1>1. Alive(elem) = {} /\ Held(table, pin) = {}
  <2>1. Alive(elem) = {}
    BY DEF Init, Alive
  <2>2. Tabled(table) = {}
    BY SetsAssumption DEF Init, Tabled
  <2> QED BY <2>1, <2>2 DEF Held
<1> QED BY <1>1, CostNone DEF Init, Books, PaidFor

\* Removing the entries of S, in the words of the actions.
LEMMA RemovalPays ==
  ASSUME IInv, Books, NEW S \in SUBSET InTable
  PROVE  /\ PaidFor(WithoutKeys(S), Discarded(S), pin,
                    units - Cost(elem, Unpinned(S)), pinnedUnits - Cost(elem, S \ Unpinned(S)))
         /\ Cost(elem, Unpinned(S)) \in Nat /\ Cost(elem, S \ Unpinned(S)) \in Nat
<1> DEFINE free == Unpinned(S)
           tab2 == WithoutKeys(S)
           el2 == Discarded(S)
           out == S
<1>1. out \in SUBSET Tabled(table)
  BY Bridge
<1>2. free \in SUBSET out /\ \A v \in out : v \in free <=> PinsIn(pin, v) = 0
  BY Bridge DEF Unpinned
<1>3. /\ tab2 = [k \in Keys |-> IF table[k] \in out THEN NoValue ELSE table[k]]
      /\ el2 = [v \in Values |-> IF v \in free THEN NoElem ELSE elem[v]]
  BY DEF WithoutKeys, Discarded
<1>4. Placed(table, deferred, elem, pin) /\ PaidFor(table, elem, pin, units, pinnedUnits)
  BY DEF IInv, Books
<1> HIDE DEF free, tab2, el2, out
<1>5. /\ PaidFor(tab2, el2, pin, units - Cost(elem, free), pinnedUnits - Cost(elem, out \ free))
      /\ Cost(elem, free) \in Nat /\ Cost(elem, out \ free) \in Nat
  <2>1. Placed(table, deferred, elem, pin)
    BY <1>4
  <2>2. PaidFor(table, elem, pin, units, pinnedUnits)
    BY <1>4
  <2>3. tab2 = [k \in Keys |-> IF table[k] \in out THEN NoValue ELSE table[k]]
    BY <1>3
  <2>4. el2 = [v \in Values |-> IF v \in free THEN NoElem ELSE elem[v]]
    BY <1>3
  <2>5. PaidFor(tab2, el2, pin, units - Cost(elem, free), pinnedUnits - Cost(elem, out \ free))
    BY <1>1, <1>2, <2>1, <2>2, <2>3, <2>4, RemovedPaid
  <2>6. Cost(elem, free) \in Nat
    BY <1>1, <1>2, <2>1, <2>2, <2>3, <2>4, RemovedPaid
  <2>7. Cost(elem, out \ free) \in Nat
    BY <1>1, <1>2, <2>1, <2>2, <2>3, <2>4, RemovedPaid
  <2> QED BY <2>5, <2>6, <2>7
<1> QED BY <1>5 DEF free, tab2, el2, out

LEMMA RemovesBalance ==
  ASSUME IInv, Books,
         (\E k \in Keys : RemoveKey(k)) \/ RemoveAll \/ RemoveUnpinned
           \/ RemoveExpiredEntries
  PROVE  Books'
<1>1. ToSet(order) \subseteq InTable
  BY Bridge DEF IInv, Chained
<1>2. ASSUME NEW S \in SUBSET InTable, RemoveSet(S), UNCHANGED <<lru, pin>>
      PROVE  Books'
  BY <1>2, RemovalPays, BooksNext DEF RemoveSet
<1>3. ASSUME NEW k \in Keys, RemoveKey(k) PROVE Books'
  <2>1. {table[k]} \in SUBSET InTable
    BY <1>3 DEF RemoveKey, IInv, Placed, InTable
  <2> QED BY <1>2, <1>3, <2>1 DEF RemoveKey
<1>4. CASE RemoveAll
  BY <1>2, <1>4 DEF RemoveAll
<1>5. CASE RemoveUnpinned
  <2>1. Unpinned(ToSet(order)) \in SUBSET InTable
    BY <1>1 DEF Unpinned
  <2> QED BY <1>2, <1>5, <2>1 DEF RemoveUnpinned
<1>6. CASE RemoveExpiredEntries
  BY <1>2, <1>6, SweptInTable DEF RemoveExpiredEntries
<1> QED BY <1>3, <1>4, <1>5, <1>6

LEMMA LookupBalances ==
  ASSUME IInv, Books, NEW k \in Keys, NEW update \in BOOLEAN, Lookup(k, update)
  PROVE  Books'
<1> DEFINE v == table[k]
           swept == Idle(order)
           u == units'
           p == pinnedUnits - Cost(elem, swept \ Unpinned(swept))
           tab == table'
           el == elem'
           pn2 == pin'
<1>1. /\ v \notin swept /\ v # NoValue
      /\ pin' = [pin EXCEPT ![v][update] = @ + 1]
      /\ table' = WithoutKeys(swept) /\ deferred' = Deferred(swept)
      /\ elem' = Discarded(swept)
      /\ units' = units - Cost(elem, Unpinned(swept))
      /\ pinnedUnits' = p + (IF Pins(v) = 0 THEN elem[v].cost ELSE 0)
  BY DEF Lookup
<1>2. swept \in SUBSET InTable /\ v \in InTable /\ InTable \subseteq Values
  BY <1>1, SweptInTable DEF IInv, Placed, InTable
<1>3. PaidFor(tab, el, pin, u, p) /\ Cost(elem, swept \ Unpinned(swept)) \in Nat
  BY <1>1, <1>2, RemovalPays
<1>4. Placed(tab, deferred', el, pin) /\ Tabled(tab) = InTable \ swept
  BY <1>1, <1>2, Removal
<1>5. v \in Tabled(tab) /\ v \in Values
  BY <1>1, <1>2, <1>4
<1>6. el[v] = elem[v] /\ elem[v].cost \in Nat
  <2>1. v \notin Unpinned(swept)
    BY <1>1 DEF Unpinned
  <2>2. v \in Tabled(table)
    BY <1>2, Bridge
  <2>3. {v} \in SUBSET Alive(elem)
    BY <2>2, PlacedPriced DEF IInv
  <2>4. Priced(elem, {v})
    BY <2>3, PlacedPriced DEF IInv
  <2> QED BY <1>1, <1>5, <2>1, <2>4 DEF Discarded, Priced
<1>7. \A w \in Values \ {v} : pn2[w] = pin[w]
  BY <1>1 DEF IInv, Placed
<1>8. PinsIn(pn2, v) # 0
  <2> DEFINE n == pin[v][update] + 1
  <2>1. pin \in [Values -> [BOOLEAN -> Nat]] /\ pin[v] \in [BOOLEAN -> Nat]
    BY <1>5 DEF IInv, Placed
  <2>2. n \in Nat /\ n # 0
    BY <2>1
  <2> HIDE DEF n, v
  <2>3. pn2 = [pin EXCEPT ![v][update] = n]
    BY <1>1 DEF n
  <2>4. pn2 \in [Values -> [BOOLEAN -> Nat]]
    BY <1>5, <2>1, <2>2, <2>3
  <2>5. pn2[v][update] = n
    BY <1>5, <2>1, <2>3
  <2>6. pn2[v][TRUE] # 0 \/ pn2[v][FALSE] # 0
    BY <2>2, <2>5, Zenon
  <2> HIDE DEF pn2
  <2> QED BY <1>5, <2>4, <2>6, PinsAreNumbers, Zenon
<1>9. Pins(v) = PinsIn(pin, v)
  BY Bridge
<1>10. p \in Int
  BY <1>3, <1>4, PlacedPriced, CostNat DEF PaidFor
<1> DEFINE q == p - (IF PinsIn(pin, v) # 0 THEN el[v].cost ELSE 0)
                  + (IF PinsIn(pn2, v) # 0 THEN el[v].cost ELSE 0)
<1> HIDE DEF u, p, tab, el, pn2, v
<1>11. PaidFor(tab, el, pn2, u, q)
  BY <1>3, <1>4, <1>5, <1>7, PinPaid
<1>12. q = pinnedUnits'
  BY <1>1, <1>6, <1>8, <1>9, <1>10
<1> HIDE DEF q
<1>13. PaidFor(tab, el, pn2, u, pinnedUnits')
  BY <1>11, <1>12
<1> QED BY <1>13, BooksNext DEF tab, el, pn2, u

LEMMA ReleaseDeferredBalances ==
  ASSUME IInv, Books, NEW v \in Values, NEW update \in BOOLEAN,
         ReleaseDeferred(v, update)
  PROVE  Books'
<1>1. /\ v \in deferred /\ pin[v][update] > 0
      /\ pin' = [pin EXCEPT ![v][update] = @ - 1]
      /\ table' = table /\ pinnedUnits' = pinnedUnits
      /\ IF Pins(v) = 1
         THEN elem' = [elem EXCEPT ![v] = NoElem] /\ units' = units - elem[v].cost
         ELSE elem' = elem /\ units' = units
  BY DEF ReleaseDeferred
<1>2. \A w \in Values \ {v} : pin'[w] = pin[w]
  BY <1>1, PinLess
<1>3. v \notin Tabled(table) /\ Placed(table, deferred, elem, pin)
  BY <1>1 DEF IInv, Placed
<1>4. PaidFor(table, elem, pin', units, pinnedUnits)
  BY <1>2, <1>3, OtherPinPaid DEF Books
<1>5. CASE Pins(v) # 1
  BY <1>1, <1>4, <1>5, BooksNext
<1>6. CASE Pins(v) = 1
  <2>1. elem' = [elem EXCEPT ![v] = NoElem] /\ units' = units - elem[v].cost
    BY <1>1, <1>6
  <2> DEFINE all == Alive(elem)
             one == {v}
             held == Held(table, pin')
             rest == all \ one
  <2>2. one \in SUBSET all /\ Priced(elem, all) /\ Priced(elem, one)
    <3>1. v \in all
      BY <1>1, <1>3, PlacedPriced
    <3>2. all \in SUBSET all /\ one \in SUBSET all
      BY <3>1
    <3> QED BY <1>3, <3>2, PlacedPriced
  <2>3. Alive(elem') = rest
    BY <2>1, <1>3 DEF Alive, Placed
  <2>4. Cost(elem, one) = elem[v].cost
    BY <2>2, CostOne
  <2>5. rest \in SUBSET Values /\ \A w \in rest : elem'[w].cost = elem[w].cost
    BY <2>1, <1>3 DEF Alive, Placed
  <2>6. held \in SUBSET Values /\ \A w \in held : elem'[w].cost = elem[w].cost
    BY <2>1, <1>3 DEF Held, Tabled, Placed
  <2>7. units = Cost(elem, all) /\ pinnedUnits = Cost(elem, held)
    BY <1>4 DEF PaidFor
  <2> HIDE DEF all, one, held
  <2>8. /\ Cost(elem, all) = Cost(elem, one) + Cost(elem, rest)
        /\ Cost(elem, one) \in Nat /\ Cost(elem, rest) \in Nat
    BY <2>2, CostSplits
  <2> HIDE DEF rest
  <2>9. Cost(elem', rest) = Cost(elem, rest) /\ Cost(elem', held) = Cost(elem, held)
    BY <2>5, <2>6, CostSame
  <2>10. units' = Cost(elem', rest) /\ pinnedUnits' = Cost(elem', held)
    BY <1>1, <2>1, <2>4, <2>7, <2>8, <2>9
  <2>11. PaidFor(table', elem', pin', units', pinnedUnits')
    BY <1>1, <2>3, <2>10 DEF PaidFor, held
  <2> QED BY <2>11, BooksNext
<1> QED BY <1>5, <1>6

LEMMA ReleaseBalances ==
  ASSUME IInv, Books, NEW v \in Values, NEW update \in BOOLEAN, Release(v, update)
  PROVE  Books'
<1>1. /\ v \in InTable /\ pin[v][update] > 0
      /\ pin' = [pin EXCEPT ![v][update] = @ - 1]
  BY DEF Release
<1>2. /\ pin' = [pin EXCEPT ![v][update] = pin[v][update] - 1]
      /\ pin[v][update] - 1 \in Nat
      /\ \A w \in Values \ {v} : pin'[w] = pin[w]
      /\ PinsIn(pin', v) = Pins(v) - 1 /\ Pins(v) \in Nat
  BY <1>1, PinLess
<1>3. /\ v \in Tabled(table) /\ elem[v] # NoElem /\ Pins(v) = PinsIn(pin, v)
      /\ Placed(table, deferred, elem, pin)
  BY <1>1, Bridge DEF IInv, Placed
<1>4. Placed(table, deferred, elem, pin')
  BY <1>2, <1>3, PinPlaced DEF IInv
<1>5. Pins(v) # 0
  <2>1. pin \in [Values -> [BOOLEAN -> Nat]] /\ pin[v][update] # 0
    BY <1>1, <1>3 DEF Placed
  <2>2. pin[v][TRUE] # 0 \/ pin[v][FALSE] # 0
    BY <2>1, Zenon
  <2> QED BY <1>3, <2>1, <2>2, PinsAreNumbers, Zenon
<1>6. Priced(elem, {v}) /\ elem[v].cost \in Nat /\ Cost(elem, {v}) = elem[v].cost
  <2>1. v \in Alive(elem)
    BY <1>3 DEF Alive
  <2>2. {v} \in SUBSET Alive(elem)
    BY <2>1
  <2>3. Priced(elem, {v})
    BY <1>3, <2>2, PlacedPriced
  <2> QED BY <2>3, CostOne DEF Priced
<1>7. pinnedUnits \in Int /\ units \in Int
  BY <1>3, PlacedPriced, CostNat DEF Books, PaidFor
<1> DEFINE q == pinnedUnits - (IF PinsIn(pin, v) # 0 THEN elem[v].cost ELSE 0)
                  + (IF PinsIn(pin', v) # 0 THEN elem[v].cost ELSE 0)
<1>8. PaidFor(table, elem, pin', units, q)
  <2> DEFINE pn2 == pin'
  <2>1. \A w \in Values \ {v} : pn2[w] = pin[w]
    BY <1>2
  <2> HIDE DEF pn2
  <2>2. PaidFor(table, elem, pn2, units,
                pinnedUnits - (IF PinsIn(pin, v) # 0 THEN elem[v].cost ELSE 0)
                  + (IF PinsIn(pn2, v) # 0 THEN elem[v].cost ELSE 0))
    BY <1>3, <2>1, PinPaid DEF Books
  <2> QED BY <2>2 DEF pn2
<1>9. q = pinnedUnits - (IF Pins(v) > 1 THEN 0 ELSE elem[v].cost)
  <2>1. PinsIn(pin', v) # 0 <=> Pins(v) > 1
    BY <1>2, <1>5
  <2> QED BY <1>3, <1>5, <1>6, <1>7, <2>1
<1> HIDE DEF q
<1>10. ASSUME elem' = [elem EXCEPT ![v] = Used(@, update)], table' = table,
              units' = units, pinnedUnits' = q
       PROVE  Books'
  <2>1. \A w \in Values : /\ elem'[w] = NoElem <=> elem[w] = NoElem
                          /\ elem[w] # NoElem => elem'[w].cost = elem[w].cost
    <3>1. elem'[v] = Used(elem[v], update) /\ \A w \in Values \ {v} : elem'[w] = elem[w]
      BY <1>3, <1>10 DEF Placed
    <3>2. elem[v] \in Elem
      BY <1>3 DEF Placed
    <3>3. Used(elem[v], update) \in Elem /\ Used(elem[v], update).cost = elem[v].cost
      BY <3>2 DEF Used, Elem
    <3> QED BY <3>1, <3>2, <3>3, NoElemIsNoElem
  <2>2. PaidFor(table, elem', pin', units, q)
    BY <1>4, <1>8, <2>1, AlikePaid
  <2> QED BY <1>10, <2>2, BooksNext
<1>11. CASE Pins(v) > 1
  <2>1. elem' = [elem EXCEPT ![v] = Used(@, update)] /\ table' = table
        /\ units' = units /\ pinnedUnits' = pinnedUnits
    BY <1>11 DEF Release
  <2> QED BY <1>7, <1>9, <1>10, <1>11, <2>1
<1>12. CASE ~(Pins(v) > 1) /\ units > maxUnits
  <2>1. /\ table' = WithoutKeys({v}) /\ elem' = [elem EXCEPT ![v] = NoElem]
        /\ units' = units - elem[v].cost /\ pinnedUnits' = q
    BY <1>9, <1>12 DEF Release
  <2> DEFINE one == {v}
             none == one \ one
             tab2 == table'
             el2 == elem'
             pn2 == pin'
  <2>2. one \in SUBSET Tabled(table) /\ \A w \in one : PinsIn(pn2, w) = 0
    BY <1>2, <1>3, <1>5, <1>12
  <2>3. /\ tab2 = [k \in Keys |-> IF table[k] \in one THEN NoValue ELSE table[k]]
        /\ el2 = [w \in Values |-> IF w \in one THEN NoElem ELSE elem[w]]
    BY <1>3, <2>1 DEF WithoutKeys, Placed
  <2>4. Cost(elem, none) = 0 /\ Cost(elem, one) = elem[v].cost
    BY <1>6, CostNone
  <2>5. Placed(table, deferred, elem, pn2) /\ PaidFor(table, elem, pn2, units, q)
    BY <1>4, <1>8
  <2>6. q \in Int
    BY <1>6, <1>7, <1>9
  <2> HIDE DEF one, tab2, el2, pn2
  <2>7. PaidFor(tab2, el2, pn2, units - Cost(elem, one), q - Cost(elem, none))
    BY <2>2, <2>3, <2>5, RemovedPaid
  <2>8. PaidFor(tab2, el2, pn2, units', pinnedUnits')
    BY <2>1, <2>4, <2>6, <2>7
  <2> QED BY <2>8, BooksNext DEF tab2, el2, pn2
<1>13. CASE ~(Pins(v) > 1) /\ ~(units > maxUnits)
  <2>1. elem' = [elem EXCEPT ![v] = Used(@, update)] /\ table' = table
        /\ units' = units /\ pinnedUnits' = q
    BY <1>9, <1>13 DEF Release
  <2> QED BY <1>10, <2>1
<1> QED BY <1>11, <1>12, <1>13

LEMMA InsertBalances ==
  ASSUME IInv, Books, NEW k \in Keys, NEW v \in Values, NEW cost \in Costs,
         InsertPinned(k, v, cost)
  PROVE  Books'
<1> DEFINE old == {table[k]} \ {NoValue}
           total == units - Cost(elem, Unpinned(old)) + cost
           gone == Evicted(Unlinked(order, old), total, maxUnits, elem)
           S == old \cup gone
           e == [key |-> k, cost |-> cost, age |-> 0]
<1>1. /\ elem[v] = NoElem
      /\ pin' = [pin EXCEPT ![v][TRUE] = 1]
      /\ table' = [WithoutKeys(gone) EXCEPT ![k] = v]
      /\ elem' = [Discarded(S) EXCEPT ![v] = e]
      /\ units' = total - Cost(elem, gone)
      /\ pinnedUnits' = pinnedUnits - Cost(elem, old \ Unpinned(old)) + cost
  BY DEF InsertPinned
<1>0. total = units - Cost(elem, Unpinned(old)) + cost
  OBVIOUS
<1>2. old \in SUBSET InTable
  BY DEF IInv, Placed, InTable
<1>3. ToSet(Unlinked(order, old)) = ToSet(order) \ old /\ ToSet(order) \subseteq InTable
  BY Bridge, UnlinkedLeaves DEF IInv, Chained
<1> HIDE DEF total, old
<1>4. /\ gone \in SUBSET InTable /\ gone \cap old = {}
      /\ \A w \in gone : Pins(w) = 0
  BY <1>3, EvictedUnpinned
<1> HIDE DEF gone
<1>5. S \in SUBSET InTable
  BY <1>2, <1>4
<1>6. /\ Placed(WithoutKeys(S), Deferred(S), Discarded(S), pin)
      /\ PaidFor(WithoutKeys(S), Discarded(S), pin, units - Cost(elem, Unpinned(S)),
                 pinnedUnits - Cost(elem, S \ Unpinned(S)))
      /\ Cost(elem, Unpinned(S)) \in Nat /\ Cost(elem, S \ Unpinned(S)) \in Nat
  BY <1>5, Removal, RemovalPays
<1>7. S \ Unpinned(S) = old \ Unpinned(old)
  BY <1>4 DEF Unpinned
<1>8. /\ Cost(elem, Unpinned(S)) = Cost(elem, Unpinned(old)) + Cost(elem, gone)
      /\ Cost(elem, Unpinned(old)) \in Nat /\ Cost(elem, gone) \in Nat
  <2> DEFINE all == Unpinned(S)
             some == Unpinned(old)
  <2>1. gone = all \ some /\ some \in SUBSET all
    BY <1>4, <1>5 DEF Unpinned, InTable
  <2>2. all \in SUBSET Alive(elem)
    <3>1. all \in SUBSET Tabled(table)
      BY <1>5, Bridge DEF Unpinned
    <3> QED BY <3>1, PlacedPriced DEF IInv
  <2>3. Priced(elem, all)
    BY <2>2, PlacedPriced DEF IInv
  <2> HIDE DEF all, some
  <2>4. /\ Cost(elem, all) = Cost(elem, some) + Cost(elem, gone)
        /\ Cost(elem, some) \in Nat /\ Cost(elem, gone) \in Nat
    BY <2>1, <2>3, CostSplits
  <2> QED BY <2>4 DEF all, some
<1>9. /\ WithoutKeys(S)[k] = NoValue
      /\ table' = [WithoutKeys(S) EXCEPT ![k] = v]
  <2>1. WithoutKeys(S)[k] = NoValue
    BY DEF WithoutKeys, old
  <2>2. ASSUME NEW j \in Keys, j # k
        PROVE  WithoutKeys(gone)[j] = WithoutKeys(S)[j]
    <3>1. table[j] \in old => j = k
      BY OneKey DEF IInv, old
    <3> QED BY <2>2, <3>1 DEF WithoutKeys
  <2>3. /\ WithoutKeys(gone) = [j \in Keys |-> WithoutKeys(gone)[j]]
        /\ WithoutKeys(S) = [j \in Keys |-> WithoutKeys(S)[j]]
    BY DEF WithoutKeys
  <2> QED BY <1>1, <2>1, <2>2, <2>3
<1>10. Discarded(S)[v] = NoElem
  BY <1>1 DEF Discarded
<1>11. e \in Elem /\ e.key = k /\ e.cost = cost
  BY DEF Elem
<1>12. cost \in Nat /\ units \in Int /\ pinnedUnits \in Int
  <2>1. cost \in Nat
    BY SizesAssumption
  <2>2. units \in Int /\ pinnedUnits \in Int
    BY PlacedPriced, CostNat DEF IInv, Books, PaidFor
  <2> QED BY <2>1, <2>2
<1> HIDE DEF S, e
<1> DEFINE tab == WithoutKeys(S)
           def == Deferred(S)
           el == Discarded(S)
           pn == pin
           tab2 == table'
           el2 == elem'
           pn2 == pin'
           u == units - Cost(elem, Unpinned(S))
           p == pinnedUnits - Cost(elem, S \ Unpinned(S))
<1>13. pn2 \in [Values -> [BOOLEAN -> Nat]] /\ \A w \in Values \ {v} : pn2[w] = pn[w]
  BY <1>1 DEF IInv, Placed
<1>14. PinsIn(pn2, v) # 0
  <2>1. pin[v] \in [BOOLEAN -> Nat] /\ pn2[v] = [pin[v] EXCEPT ![TRUE] = 1]
    BY <1>1 DEF IInv, Placed
  <2>2. pn2[v][TRUE] # 0
    <3>1. pn2[v][TRUE] = 1
      BY <2>1, Zenon
    <3> QED BY <3>1
  <2> HIDE DEF pn2
  <2> QED BY <1>13, <2>2, PinsAreNumbers, Zenon
<1>15. u + e.cost = units' /\ p + e.cost = pinnedUnits'
  <2> DEFINE a == Cost(elem, Unpinned(S))
             b == Cost(elem, Unpinned(old))
             c == Cost(elem, gone)
             d == Cost(elem, S \ Unpinned(S))
  <2>1. /\ a = b + c /\ b \in Nat /\ c \in Nat /\ d \in Nat
        /\ u = units - a /\ p = pinnedUnits - d /\ e.cost = cost
        /\ units' = (units - b + cost) - c /\ pinnedUnits' = pinnedUnits - d + cost
    BY <1>0, <1>1, <1>6, <1>7, <1>8, <1>11
  <2> HIDE DEF a, b, c, d, u, p
  <2> QED BY <1>12, <2>1
<1>16. PaidFor(tab, el, pn, u, p) /\ Placed(tab, def, el, pn) /\ tab[k] = NoValue
       /\ el[v] = NoElem /\ tab2 = [tab EXCEPT ![k] = v] /\ el2 = [el EXCEPT ![v] = e]
  BY <1>1, <1>6, <1>9, <1>10
<1> HIDE DEF tab, def, el, pn, tab2, el2, pn2, u, p
<1>17. Inserted(tab, def, el, pn, k, v, e, tab2, el2, pn2)
  BY <1>11, <1>13, <1>16 DEF Inserted
<1>18. PaidFor(tab2, el2, pn2, u + e.cost, p + e.cost)
  BY <1>14, <1>16, <1>17, InsertedPaid
<1>19. PaidFor(tab2, el2, pn2, units', pinnedUnits')
  BY <1>15, <1>18
<1> QED BY <1>19, BooksNext DEF tab2, el2, pn2

LEMMA UpdateSizeBalances ==
  ASSUME IInv, Books, NEW k \in Keys, NEW v \in Values \cup {NoValue}, NEW cost \in Costs,
         UpdateSize(k, v, cost)
  PROVE  Books'
<1> DEFINE some == Resized(k, v)
           sized == [w \in Values |-> IF w \in some THEN [elem[w] EXCEPT !.cost = cost]
                                     ELSE elem[w]]
           both == (some \ Unpinned(some)) \ deferred
           total == units - Cost(elem, some) + Cost(sized, some)
           pinned == pinnedUnits - Cost(elem, both) + Cost(sized, both)
           gone == Evicted(order, total, maxUnits, sized)
<1>1. /\ table' = WithoutKeys(gone)
      /\ elem' = [w \in Values |-> IF w \in gone THEN NoElem ELSE sized[w]]
      /\ pin' = pin
      /\ units' = total - Cost(sized, gone) /\ pinnedUnits' = pinned
  BY DEF UpdateSize
<1>2. some \in SUBSET Values /\ \A w \in some : elem[w] # NoElem
  BY DEF Resized, IInv, Placed, Tabled
<1>3. both = some \cap Held(table, pin)
  <2>1. \A w \in some : w \in Tabled(table) \/ w \in deferred
    BY <1>2 DEF IInv, Placed
  <2>2. Tabled(table) \cap deferred = {}
    BY DEF IInv, Placed
  <2> HIDE DEF some
  <2> QED BY <2>1, <2>2, Bridge DEF Held, Unpinned
<1> HIDE DEF some
<1>4. Placed(table, deferred, sized, pin) /\ Placed(table, deferred, elem, pin)
  BY <1>2, SizedAlike DEF IInv
<1>5. some \in SUBSET Alive(elem) /\ \A w \in Values \ some : sized[w] = elem[w]
  BY <1>2 DEF Alive
<1> HIDE DEF sized, both
<1>6. PaidFor(table, sized, pin, total, pinned)
  BY <1>3, <1>4, <1>5, SizedPaid DEF Books
<1> HIDE DEF total, pinned
<1>7. ToSet(order) \subseteq InTable
  BY Bridge DEF IInv, Chained
<1>8. gone \in SUBSET Tabled(table) /\ \A w \in gone : PinsIn(pin, w) = 0
  BY <1>7, EvictedUnpinned, Bridge
<1>9. pinned \in Int
  BY <1>4, <1>6, PlacedPriced, CostNat DEF PaidFor
<1> DEFINE none == gone \ gone
           tab2 == table'
           el2 == elem'
<1>10. Cost(sized, none) = 0
  BY CostNone
<1>11. /\ tab2 = [j \in Keys |-> IF table[j] \in gone THEN NoValue ELSE table[j]]
       /\ el2 = [w \in Values |-> IF w \in gone THEN NoElem ELSE sized[w]]
  BY <1>1 DEF WithoutKeys
<1> HIDE DEF gone, tab2, el2
<1>12. PaidFor(tab2, el2, pin, total - Cost(sized, gone), pinned - Cost(sized, none))
  BY <1>4, <1>6, <1>8, <1>11, RemovedPaid
<1>13. PaidFor(tab2, el2, pin, units', pinnedUnits')
  BY <1>1, <1>9, <1>10, <1>12
<1> QED BY <1>1, <1>13, BooksNext DEF tab2, el2

LEMMA SetMaxSizeBalances ==
  ASSUME IInv, Books, NEW max, SetMaxSize(max)
  PROVE  Books'
<1> DEFINE gone == Evicted(order, units, max, elem)
<1>1. /\ table' = WithoutKeys(gone) /\ elem' = Discarded(gone)
      /\ units' = units - Cost(elem, gone)
      /\ pin' = pin /\ pinnedUnits' = pinnedUnits
  BY DEF SetMaxSize
<1>2. ToSet(order) \subseteq InTable
  BY Bridge DEF IInv, Chained
<1>3. gone \in SUBSET InTable /\ Unpinned(gone) = gone
  BY <1>2, EvictedUnpinned DEF Unpinned
<1> HIDE DEF gone
<1>4. /\ PaidFor(table', elem', pin, units - Cost(elem, Unpinned(gone)),
                 pinnedUnits - Cost(elem, gone \ Unpinned(gone)))
      /\ pinnedUnits \in Int
  BY <1>1, <1>3, RemovalPays, PlacedPriced, CostNat DEF IInv, Books, PaidFor
<1>5. gone \ Unpinned(gone) = {}
  BY <1>3
<1>6. Cost(elem, gone \ Unpinned(gone)) = 0
  BY <1>5, CostNone
<1>7. PaidFor(table', elem', pin', units', pinnedUnits')
  BY <1>1, <1>3, <1>4, <1>6
<1> QED BY <1>7, BooksNext

LEMMA TickBalances == ASSUME IInv, Books, Tick PROVE Books'
<1>1. /\ elem' = [v \in Values |-> IF elem[v] = NoElem THEN NoElem
                                   ELSE [elem[v] EXCEPT !.age = Older(@)]]
      /\ table' = table /\ pin' = pin /\ units' = units /\ pinnedUnits' = pinnedUnits
  BY DEF Tick
<1>2. Placed(table, deferred, elem, pin) /\ elem \in [Values -> Elem \cup {NoElem}]
  BY DEF IInv, Placed
<1>3. ASSUME NEW v \in Values, elem[v] # NoElem
      PROVE  elem'[v] \in Elem /\ elem'[v].cost = elem[v].cost
  <2>1. elem[v] \in Elem /\ elem'[v] = [elem[v] EXCEPT !.age = Older(elem[v].age)]
    BY <1>1, <1>2, <1>3
  <2>2. Older(elem[v].age) \in Nat
    BY <2>1 DEF Elem, Older
  <2> QED BY <2>1, <2>2 DEF Elem
<1>4. \A v \in Values : /\ elem'[v] = NoElem <=> elem[v] = NoElem
                        /\ elem[v] # NoElem => elem'[v].cost = elem[v].cost
  BY <1>1, <1>3, NoElemIsNoElem
<1>5. PaidFor(table, elem', pin, units, pinnedUnits)
  BY <1>2, <1>4, AlikePaid DEF Books
<1> QED BY <1>1, <1>5, BooksNext

LEMMA NextBalances == IInv /\ Books /\ [Next]_vars => Books'
<1> SUFFICES ASSUME IInv, Books, [Next]_vars PROVE Books'
  OBVIOUS
<1>1. ASSUME NEW k \in Keys, NEW update \in BOOLEAN, Lookup(k, update) PROVE Books'
  BY <1>1, LookupBalances
<1>2. ASSUME NEW v \in Values, NEW update \in BOOLEAN,
             Release(v, update) \/ ReleaseDeferred(v, update)
      PROVE  Books'
  BY <1>2, ReleaseBalances, ReleaseDeferredBalances
<1>3. ASSUME NEW k \in Keys, NEW v \in Values, NEW cost \in Costs,
             InsertPinned(k, v, cost)
      PROVE  Books'
  BY <1>3, InsertBalances
<1>4. ASSUME NEW k \in Keys, NEW v \in Values \cup {NoValue}, NEW cost \in Costs,
             UpdateSize(k, v, cost)
      PROVE  Books'
  BY <1>4, UpdateSizeBalances
<1>5. ASSUME NEW max \in 0 .. MaxSize, SetMaxSize(max) PROVE Books'
  BY <1>5, SetMaxSizeBalances
<1>6. CASE Tick
  BY <1>6, TickBalances
<1>7. CASE UNCHANGED vars
  <2>1. /\ table' = table /\ elem' = elem /\ pin' = pin
        /\ units' = units /\ pinnedUnits' = pinnedUnits
    BY <1>7 DEF vars
  <2> QED BY <2>1, BooksNext DEF Books
<1> QED BY <1>1, <1>2, <1>3, <1>4, <1>5, <1>6, <1>7, RemovesBalance DEF Next

LEMMA BooksBalance == Spec => []Books
  BY InitBooks, NextBalances, CacheInvariance, PTL DEF Spec

\* units_ and pinned_units_, which every operation changes by differences, are at
\* all times what the live entries take, and what the pinned ones of the table
\* do: for any keys, values, costs, sizes and idle times, also when lookups with
\* different options pin one value at once.
THEOREM UnitsCounted == Spec => []UnitsAddUp
<1>1. Spec => []Books
  BY BooksBalance
<1>2. Books => UnitsAddUp
  <2>1. Alive(elem) = Live /\ Held(table, pin) = InTable \ Unpinned(InTable)
    BY Bridge DEF Alive, Live, Held, Unpinned
  <2> QED BY <2>1 DEF Books, PaidFor, UnitsAddUp
<1> QED BY <1>1, <1>2, PTL

-----------------------------------------------------------------------------
(* What the garbage collector leaves.                                      *)

\* What is unpinned behind entry i takes no more than E, if E has all of it.
LEMMA FewBehind ==
  ASSUME NEW list \in Seq(Values), NEW cost, \A v \in ToSet(list) : cost[v].cost \in Nat,
         NEW E \in SUBSET ToSet(list), NEW i \in DOMAIN list,
         \A j \in DOMAIN list : i < j /\ Pins(list[j]) = 0 => list[j] \in E
  PROVE  /\ Cost(cost, Unpinned(Behind(list, i))) <= Cost(cost, E)
         /\ Cost(cost, Unpinned(Behind(list, i))) \in Nat /\ Cost(cost, E) \in Nat
<1> DEFINE back == Unpinned(Behind(list, i))
<1>1. ToSet(list) \subseteq Values /\ Len(list) \in Nat /\ DOMAIN list = 1 .. Len(list)
  BY DEF ToSet
<1>2. \A j \in i + 1 .. Len(list) : j \in DOMAIN list /\ i < j
  BY <1>1
<1>3. back \in SUBSET E
  BY <1>2 DEF Unpinned, Behind
<1>4. Priced(cost, E)
  BY <1>1 DEF Priced
<1> HIDE DEF back
<1>5. /\ Cost(cost, E) = Cost(cost, back) + Cost(cost, E \ back)
      /\ Cost(cost, E) \in Nat /\ Cost(cost, back) \in Nat /\ Cost(cost, E \ back) \in Nat
  BY <1>3, <1>4, CostSplits
<1> QED BY <1>5 DEF back

\* The garbage collector stops early only when it has freed enough.
LEMMA FreedEnough ==
  ASSUME NEW list \in Seq(Values), NEW cost, \A v \in ToSet(list) : cost[v].cost \in Nat,
         NEW total \in Int, NEW max \in Int,
         total - Cost(cost, Evicted(list, total, max, cost)) > max
  PROVE  Unpinned(ToSet(list)) \subseteq Evicted(list, total, max, cost)
<1> DEFINE few(i) == total - Cost(cost, Unpinned(Behind(list, i))) > max
           E == Evicted(list, total, max, cost)
           Left == {i \in DOMAIN list : Pins(list[i]) = 0 /\ ~few(i)}
           Back == {Len(list) - i : i \in Left}
<1>1. E = {list[i] : i \in {i \in DOMAIN list : Pins(list[i]) = 0 /\ few(i)}}
  BY DEF Evicted
<1>2. Len(list) \in Nat /\ DOMAIN list = 1 .. Len(list) /\ ToSet(list) \subseteq Values
  BY DEF ToSet
<1>3. total - Cost(cost, E) > max
  OBVIOUS
<1> HIDE DEF few, E
<1>4. SUFFICES ASSUME Left # {} PROVE FALSE
  <2>1. ASSUME NEW v \in Unpinned(ToSet(list)), Left = {} PROVE v \in E
    <3>1. PICK i \in DOMAIN list : v = list[i] /\ Pins(list[i]) = 0
      BY DEF Unpinned, ToSet
    <3> QED BY <1>1, <2>1, <3>1
  <2> QED BY <2>1 DEF E
<1>5. Back \in SUBSET Nat /\ Back # {}
  BY <1>2, <1>4
<1> HIDE DEF Back
<1>6. PICK b \in Back : \A c \in Back : b <= c
  BY <1>5, SmallestNumber
<1>7. PICK i \in Left : b = Len(list) - i
  BY DEF Back
<1>8. ASSUME NEW j \in DOMAIN list, i < j, Pins(list[j]) = 0 PROVE list[j] \in E
  <2>1. j \notin Left
    <3>1. j \in Left => Len(list) - j \in Back
      BY DEF Back
    <3>2. ~(Len(list) - i <= Len(list) - j)
      BY <1>2, <1>8
    <3> QED BY <1>6, <1>7, <3>1, <3>2
  <2> QED BY <1>1, <1>8, <2>1
<1>9. E \in SUBSET ToSet(list) /\ i \in DOMAIN list
  BY <1>1 DEF ToSet
<1> HIDE DEF Left
<1>10. /\ Cost(cost, Unpinned(Behind(list, i))) <= Cost(cost, E)
       /\ Cost(cost, Unpinned(Behind(list, i))) \in Nat /\ Cost(cost, E) \in Nat
  BY <1>8, <1>9, FewBehind
<1>11. ~few(i)
  BY DEF Left
<1> QED BY <1>3, <1>10, <1>11 DEF few

\* Of two unpinned entries the garbage collector takes the one further back.
LEMMA OlderFirst ==
  ASSUME NEW list \in Seq(Values), NEW cost, \A v \in ToSet(list) : cost[v].cost \in Nat,
         NEW total \in Int, NEW max \in Int,
         NEW i \in DOMAIN list, NEW j \in DOMAIN list, Once(list),
         list[i] \in Evicted(list, total, max, cost), Pins(list[j]) = 0,
         list[j] \notin Evicted(list, total, max, cost)
  PROVE  j < i
<1> DEFINE back(n) == Unpinned(Behind(list, n))
           few(n) == total - Cost(cost, back(n)) > max
<1>1. Evicted(list, total, max, cost) =
        {list[n] : n \in {n \in DOMAIN list : Pins(list[n]) = 0 /\ few(n)}}
  BY DEF Evicted
<1> HIDE DEF few
<1>2. Len(list) \in Nat /\ DOMAIN list = 1 .. Len(list)
  OBVIOUS
<1>3. few(i) /\ ~few(j)
  <2>1. PICK n \in DOMAIN list : few(n) /\ list[n] = list[i]
    BY <1>1
  <2>2. n = i
    BY <2>1 DEF Once
  <2> QED BY <1>1, <2>1, <2>2
<1>4. ASSUME i < j PROVE FALSE
  <2>1. back(j) \in SUBSET back(i) /\ back(i) \in SUBSET ToSet(list)
    <3>1. \A n \in j + 1 .. Len(list) : n \in i + 1 .. Len(list)
      BY <1>2, <1>4
    <3>2. \A n \in i + 1 .. Len(list) : n \in DOMAIN list
      BY <1>2
    <3> QED BY <3>1, <3>2 DEF Unpinned, Behind, ToSet
  <2>2. Priced(cost, back(i))
    BY <2>1 DEF Priced, ToSet
  <2> HIDE DEF back
  <2> DEFINE bi == back(i)
             bj == back(j)
  <2>3. bj \in SUBSET bi /\ Priced(cost, bi)
    BY <2>1, <2>2
  <2> HIDE DEF bi, bj
  <2>4. /\ Cost(cost, bi) = Cost(cost, bj) + Cost(cost, bi \ bj)
        /\ Cost(cost, bj) \in Nat /\ Cost(cost, bi \ bj) \in Nat
    BY <2>3, CostSplits
  <2>5. total - Cost(cost, bi) > max /\ ~(total - Cost(cost, bj) > max)
    BY <1>3 DEF few, bi, bj
  <2> QED BY <2>4, <2>5
<1>5. i # j
  BY <1>3
<1> QED BY <1>2, <1>4, <1>5

\* While the cache is overfull, everything in its table is pinned.
Overfull(tab, pn, u, max) == u > max => \A v \in Tabled(tab) : PinsIn(pn, v) # 0

\* The sizes are numbers and the promise of the garbage collector holds.
Lean == maxUnits \in Nat /\ Overfull(table, pin, units, maxUnits)

LEMMA LeanNext ==
  ASSUME maxUnits' \in Nat, Overfull(table', pin', units', maxUnits')
  PROVE  Lean'
BY DEF Lean, Overfull, Tabled, PinsIn

\* The unpinned entries of the table are on the list.
LEMMA UnpinnedListed ==
  ASSUME ~MixedPins, IInv, NEW v \in InTable, Pins(v) = 0
  PROVE  v \in ToSet(order)
<1>1. v \in Tabled(table) /\ v \in Values /\ PinsIn(pin, v) = 0
  BY Bridge DEF Tabled
<1>2. pin[v][TRUE] = 0
  <2>1. pin \in [Values -> [BOOLEAN -> Nat]]
    BY DEF IInv, Placed
  <2> QED BY <1>1, <2>1, PinsAreNumbers, Zenon
<1>3. ToSet(order) = Linkable(table, pin)
  BY DEF IInv, Chained
<1> QED BY <1>1, <1>2, <1>3, Zenon DEF Linkable

LEMMA ListPriced ==
  ASSUME IInv
  PROVE  /\ \A v \in InTable : elem[v] \in Elem /\ elem[v].cost \in Nat
         /\ order \in Seq(Values) /\ ToSet(order) \subseteq InTable
<1>1. Placed(table, deferred, elem, pin) /\ Tabled(table) = InTable
  BY Bridge DEF IInv
<1>2. \A v \in InTable : elem[v] \in Elem
  BY <1>1, PlacedPriced DEF Placed, Tabled
<1>3. \A v \in InTable : elem[v].cost \in Nat
  BY <1>2, SizesAssumption DEF Elem
<1> QED BY <1>1, <1>2, <1>3 DEF IInv, Chained

LEMMA UnitsAreNumbers ==
  ASSUME IInv, Books
  PROVE  units \in Nat /\ pinnedUnits \in Nat
BY PlacedPriced, CostNat DEF IInv, Books, PaidFor

\* What a removal frees, and what it leaves.
LEMMA RemovalLean ==
  ASSUME IInv, Books, Lean, NEW S \in SUBSET InTable,
         table' = WithoutKeys(S), units' = units - Cost(elem, Unpinned(S)),
         maxUnits' = maxUnits,
         \A v \in InTable \ S : Pins(v) # 0 => PinsIn(pin', v) # 0
  PROVE  Lean'
<1>1. Cost(elem, Unpinned(S)) \in Nat /\ units \in Nat
  BY RemovalPays, UnitsAreNumbers
<1>2. Tabled(table') = InTable \ S
  BY Removal
<1>3. units > maxUnits => \A v \in InTable : Pins(v) # 0
  BY Bridge DEF Lean, Overfull
<1>4. units' > maxUnits' => units > maxUnits
  BY <1>1 DEF Lean
<1>5. Overfull(table', pin', units', maxUnits')
  BY <1>2, <1>3, <1>4 DEF Overfull
<1> QED BY <1>5, LeanNext DEF Lean

LEMMA InitLean == Init => Lean
<1> SUFFICES ASSUME Init PROVE Lean
  OBVIOUS
<1>1. maxUnits \in Nat /\ units = 0 /\ maxUnits = MaxSize
  BY SizesAssumption DEF Init
<1>2. ~(units > maxUnits)
  BY <1>1
<1> QED BY <1>1, <1>2 DEF Lean, Overfull

LEMMA NextLean == ~MixedPins => (IInv /\ Books /\ Lean /\ [Next]_vars => Lean')
<1> SUFFICES ASSUME ~MixedPins, IInv, Books, Lean, [Next]_vars PROVE Lean'
  OBVIOUS
<1>0. /\ units \in Nat /\ maxUnits \in Nat /\ ToSet(order) \subseteq InTable
      /\ order \in Seq(Values)
      /\ units > maxUnits => \A v \in InTable : Pins(v) # 0
  BY UnitsAreNumbers, ListPriced, Bridge DEF Lean, Overfull
<1>1. ASSUME NEW k \in Keys, NEW update \in BOOLEAN, Lookup(k, update) PROVE Lean'
  <2> DEFINE swept == Idle(order)
             n == pin[table[k]][update] + 1
  <2>1. /\ table' = WithoutKeys(swept) /\ units' = units - Cost(elem, Unpinned(swept))
        /\ maxUnits' = maxUnits /\ pin' = [pin EXCEPT ![table[k]][update] = n]
    BY <1>1 DEF Lookup
  <2>2. swept \in SUBSET InTable
    BY SweptInTable
  <2>3. ASSUME NEW v \in InTable, Pins(v) # 0 PROVE PinsIn(pin', v) # 0
    <3>1. pin \in [Values -> [BOOLEAN -> Nat]] /\ v \in Values /\ pin[v] \in [BOOLEAN -> Nat]
      BY DEF IInv, Placed, InTable
    <3>2. CASE table[k] # v
      <4>1. pin'[v] = pin[v]
        BY <2>1, <3>1, <3>2
      <4> QED BY <2>3, <4>1 DEF Pins, PinsIn
    <3>3. CASE table[k] = v
      <4>1. n \in Nat /\ n # 0
        <5>1. pin[v][update] \in Nat
          BY <3>1
        <5> QED BY <3>3, <5>1
      <4> HIDE DEF n
      <4>2. pin' \in [Values -> [BOOLEAN -> Nat]]
        BY <2>1, <3>1, <4>1
      <4>3. pin'[v][update] = n
        BY <2>1, <3>1, <3>3
      <4>4. pin'[v][TRUE] # 0 \/ pin'[v][FALSE] # 0
        BY <4>1, <4>3, Zenon
      <4> DEFINE pn2 == pin'
      <4> HIDE DEF pn2
      <4>5. PinsIn(pn2, v) # 0
        BY <3>1, <4>2, <4>4, PinsAreNumbers, Zenon DEF pn2
      <4> QED BY <4>5 DEF pn2
    <3> QED BY <3>2, <3>3
  <2> HIDE DEF swept
  <2> QED BY <2>1, <2>2, <2>3, RemovalLean
<1>2. ASSUME NEW v \in Values, NEW update \in BOOLEAN, ReleaseDeferred(v, update)
      PROVE  Lean'
  <2>1. /\ v \in deferred /\ table' = table /\ maxUnits' = maxUnits
        /\ \A w \in Values \ {v} : pin'[w] = pin[w]
    BY <1>2, PinLess DEF ReleaseDeferred
  <2>2. v \in Alive(elem) /\ {v} \in SUBSET Alive(elem)
    BY <2>1, PlacedPriced DEF IInv
  <2>3. elem[v].cost \in Nat
    BY <2>2, PlacedPriced DEF IInv, Priced
  <2>4. units' > maxUnits' => units > maxUnits
    BY <1>0, <1>2, <2>1, <2>3 DEF ReleaseDeferred
  <2>5. \A w \in InTable : w \in Values /\ w # v
    BY <2>1, Bridge DEF IInv, Placed, InTable
  <2>6. \A w \in InTable : PinsIn(pin', w) = Pins(w)
    BY <2>1, <2>5 DEF Pins, PinsIn
  <2>7. Overfull(table', pin', units', maxUnits')
    BY <1>0, <2>1, <2>4, <2>6, Bridge DEF Overfull
  <2> QED BY <1>0, <2>1, <2>7, LeanNext
<1>3. ASSUME NEW v \in Values, NEW update \in BOOLEAN, Release(v, update) PROVE Lean'
  <2>1. /\ v \in InTable /\ maxUnits' = maxUnits
        /\ \A w \in Values \ {v} : pin'[w] = pin[w]
        /\ PinsIn(pin', v) = Pins(v) - 1 /\ Pins(v) \in Nat
    BY <1>3, PinLess DEF Release
  <2>2. elem[v].cost \in Nat
    BY <2>1, ListPriced
  <2>3. \A w \in InTable : w # v => PinsIn(pin', w) = Pins(w)
    BY <2>1 DEF Pins, PinsIn, InTable
  <2>4. CASE Pins(v) > 1
    <3>1. table' = table /\ units' = units
      BY <1>3, <2>4 DEF Release
    <3>2. PinsIn(pin', v) # 0
      BY <2>1, <2>4
    <3>3. Overfull(table', pin', units', maxUnits')
      BY <1>0, <2>1, <2>3, <3>1, <3>2, Bridge DEF Overfull
    <3> QED BY <1>0, <2>1, <3>3, LeanNext
  <2>5. CASE ~(Pins(v) > 1) /\ units > maxUnits
    <3>1. table' = WithoutKeys({v}) /\ units' = units - elem[v].cost
      BY <1>3, <2>5 DEF Release
    <3>2. \A w \in Tabled(table') : w \in InTable /\ w # v
      <4>1. {v} \in SUBSET InTable
        BY <2>1
      <4>2. Tabled(table') = InTable \ {v}
        BY <3>1, <4>1, Removal
      <4> QED BY <4>2
    <3>3. Overfull(table', pin', units', maxUnits')
      BY <1>0, <2>3, <2>5, <3>2 DEF Overfull
    <3> QED BY <1>0, <2>1, <3>3, LeanNext
  <2>6. CASE ~(Pins(v) > 1) /\ ~(units > maxUnits)
    <3>1. units' = units
      BY <1>3, <2>6 DEF Release
    <3>2. Overfull(table', pin', units', maxUnits')
      BY <2>1, <2>6, <3>1 DEF Overfull
    <3> QED BY <1>0, <2>1, <3>2, LeanNext
  <2> QED BY <2>4, <2>5, <2>6
<1>4. ASSUME NEW k \in Keys, NEW v \in Values, NEW cost \in Costs,
             InsertPinned(k, v, cost)
      PROVE  Lean'
  <2> DEFINE old == {table[k]} \ {NoValue}
             total == units - Cost(elem, Unpinned(old)) + cost
             list == Unlinked(order, old)
             gone == Evicted(list, total, maxUnits, elem)
  <2>1. /\ elem[v] = NoElem
        /\ pin' = [pin EXCEPT ![v][TRUE] = 1]
        /\ table' = [WithoutKeys(gone) EXCEPT ![k] = v]
        /\ units' = total - Cost(elem, gone) /\ maxUnits' = maxUnits
    BY <1>4 DEF InsertPinned
  <2>2. /\ list \in Seq(Values) /\ ToSet(list) = ToSet(order) \ old
    BY <1>0, UnlinkedLeaves
  <2>3. old \in SUBSET InTable
    BY DEF IInv, Placed, InTable
  <2>4. total \in Int
    <3>1. Cost(elem, Unpinned(old)) \in Nat
      BY <2>3, RemovalPays
    <3>2. cost \in Nat
      BY SizesAssumption
    <3> QED BY <1>0, <3>1, <3>2
  <2>5. \A w \in ToSet(list) : elem[w].cost \in Nat
    BY <1>0, <2>2, ListPriced
  <2>6. ASSUME NEW w \in Tabled(table'), w # v
        PROVE  w \in InTable /\ w \notin gone /\ w \notin old /\ PinsIn(pin', w) = Pins(w)
    <3>1. PICK j \in Keys : table'[j] = w
      BY DEF Tabled
    <3>2. j # k /\ WithoutKeys(gone)[j] = w /\ w \in Values
      BY <2>1, <2>6, <3>1 DEF WithoutKeys, Tabled
    <3>3. table[j] = w /\ w \notin gone
      BY <3>2, SetsAssumption DEF WithoutKeys
    <3>4. w \notin old
      BY <3>2, <3>3, OneKey DEF IInv
    <3>5. pin'[w] = pin[w]
      BY <2>1, <2>6, <3>2 DEF IInv, Placed
    <3> QED BY <3>2, <3>3, <3>4, <3>5 DEF InTable, Pins, PinsIn
  <2>7. PinsIn(pin', v) # 0
    <3>1. pin \in [Values -> [BOOLEAN -> Nat]] /\ pin[v] \in [BOOLEAN -> Nat]
      BY DEF IInv, Placed
    <3>2. pin'[v] = [pin[v] EXCEPT ![TRUE] = 1] /\ pin' \in [Values -> [BOOLEAN -> Nat]]
      BY <2>1, <3>1
    <3>3. pin'[v][TRUE] # 0
      <4>1. pin'[v][TRUE] = 1
        BY <3>1, <3>2, Zenon
      <4> QED BY <4>1
    <3> DEFINE pn2 == pin'
    <3> HIDE DEF pn2
    <3>4. PinsIn(pn2, v) # 0
      BY <3>2, <3>3, PinsAreNumbers, Zenon DEF pn2
    <3> QED BY <3>4 DEF pn2
  <2> HIDE DEF total, list
  <2>8. ASSUME units' > maxUnits' PROVE \A w \in Tabled(table') : PinsIn(pin', w) # 0
    <3>1. Unpinned(ToSet(list)) \subseteq gone
      <4>1. total - Cost(elem, Evicted(list, total, maxUnits, elem)) > maxUnits
        BY <2>1, <2>8
      <4>2. maxUnits \in Int /\ list \in Seq(Values)
        BY <1>0, <2>2
      <4> QED BY <2>4, <2>5, <4>1, <4>2, FreedEnough
    <3> HIDE DEF gone
    <3>2. ASSUME NEW w \in Tabled(table'), w # v PROVE PinsIn(pin', w) # 0
      <4>1. w \in InTable /\ w \notin gone /\ w \notin old /\ PinsIn(pin', w) = Pins(w)
        BY <2>6, <3>2
      <4>2. ASSUME Pins(w) = 0 PROVE FALSE
        <5>1. w \in ToSet(order)
          BY <4>1, <4>2, UnpinnedListed
        <5> QED BY <2>2, <3>1, <4>1, <4>2, <5>1 DEF Unpinned
      <4> QED BY <4>1, <4>2
    <3> QED BY <2>7, <3>2
  <2>9. Overfull(table', pin', units', maxUnits')
    BY <2>8 DEF Overfull
  <2> QED BY <1>0, <2>1, <2>9, LeanNext
<1>5. ASSUME NEW tot \in Int, NEW max \in Nat, NEW cost,
             \A w \in InTable : cost[w].cost \in Nat,
             table' = WithoutKeys(Evicted(order, tot, max, cost)), pin' = pin,
             units' = tot - Cost(cost, Evicted(order, tot, max, cost)), maxUnits' = max
      PROVE  Lean'
  <2> DEFINE gone == Evicted(order, tot, max, cost)
  <2>1. \A w \in ToSet(order) : cost[w].cost \in Nat
    BY <1>0, <1>5
  <2>2. gone \in SUBSET InTable
    BY <1>0, EvictedUnpinned
  <2>3. Tabled(table') = InTable \ gone
    BY <1>5, <2>2, Removal
  <2>4. ASSUME units' > maxUnits' PROVE \A w \in Tabled(table') : PinsIn(pin', w) # 0
    <3>1. Unpinned(ToSet(order)) \subseteq gone
      BY <1>0, <1>5, <2>1, <2>4, FreedEnough
    <3> HIDE DEF gone
    <3>2. ASSUME NEW w \in InTable \ gone PROVE Pins(w) # 0
      BY <3>1, <3>2, UnpinnedListed DEF Unpinned
    <3> QED BY <1>5, <2>3, <3>2, Bridge
  <2>5. Overfull(table', pin', units', maxUnits')
    BY <2>4 DEF Overfull
  <2> QED BY <1>5, <2>5, LeanNext
<1>6. ASSUME NEW k \in Keys, NEW v \in Values \cup {NoValue}, NEW cost \in Costs,
             UpdateSize(k, v, cost)
      PROVE  Lean'
  <2> DEFINE some == Resized(k, v)
             sized == [w \in Values |-> IF w \in some THEN [elem[w] EXCEPT !.cost = cost]
                                       ELSE elem[w]]
             tot == units - Cost(elem, some) + Cost(sized, some)
             gone == Evicted(order, tot, maxUnits, sized)
  <2>1. /\ table' = WithoutKeys(gone) /\ pin' = pin
        /\ units' = tot - Cost(sized, gone) /\ maxUnits' = maxUnits
    BY <1>6 DEF UpdateSize
  <2>2. some \in SUBSET Values /\ \A w \in some : elem[w] # NoElem
    BY DEF Resized, IInv, Placed, Tabled
  <2> HIDE DEF some
  <2>3. Placed(table, deferred, sized, pin) /\ Placed(table, deferred, elem, pin)
    BY <2>2, SizedAlike DEF IInv
  <2>4. some \in SUBSET Alive(elem) /\ some \in SUBSET Alive(sized)
    <3>1. Alive(elem) = Tabled(table) \cup deferred /\ Alive(sized) = Tabled(table) \cup deferred
      <4> HIDE DEF sized
      <4> QED BY <2>3 DEF Alive, Placed, Tabled
    <3> QED BY <2>2, <3>1 DEF Alive
  <2> HIDE DEF sized
  <2>5. Cost(elem, some) \in Nat /\ Cost(sized, some) \in Nat
    BY <2>3, <2>4, PlacedPriced, CostNat
  <2>6. \A w \in InTable : sized[w].cost \in Nat
    <3>1. InTable \in SUBSET Alive(sized)
      BY <2>3, PlacedPriced, Bridge
    <3>2. Priced(sized, InTable)
      BY <2>3, <3>1, PlacedPriced
    <3> QED BY <3>2 DEF Priced
  <2>7. tot \in Int
    BY <1>0, <2>5
  <2> HIDE DEF tot
  <2> QED BY <1>0, <1>5, <2>1, <2>6, <2>7
<1>7. ASSUME NEW max \in 0 .. MaxSize, SetMaxSize(max) PROVE Lean'
  <2>1. max \in Nat /\ units \in Int /\ \A w \in InTable : elem[w].cost \in Nat
    BY <1>0, ListPriced
  <2>2. /\ table' = WithoutKeys(Evicted(order, units, max, elem)) /\ pin' = pin
        /\ units' = units - Cost(elem, Evicted(order, units, max, elem))
        /\ maxUnits' = max
    BY <1>7 DEF SetMaxSize
  <2> QED BY <1>5, <2>1, <2>2
<1>8. ASSUME NEW S \in SUBSET InTable, RemoveSet(S), UNCHANGED <<lru, pin, maxUnits>>
      PROVE  Lean'
  <2>1. \A v \in InTable : PinsIn(pin', v) = Pins(v)
    BY <1>8, Bridge
  <2> QED BY <1>8, <2>1, RemovalLean DEF RemoveSet
<1>9. ASSUME NEW k \in Keys, RemoveKey(k) PROVE Lean'
  <2>1. {table[k]} \in SUBSET InTable
    BY <1>9 DEF RemoveKey, IInv, Placed, InTable
  <2> QED BY <1>8, <1>9, <2>1 DEF RemoveKey
<1>10. CASE RemoveAll
  BY <1>8, <1>10 DEF RemoveAll
<1>11. CASE RemoveUnpinned
  <2>1. Unpinned(ToSet(order)) \in SUBSET InTable
    BY <1>0 DEF Unpinned
  <2> QED BY <1>8, <1>11, <2>1 DEF RemoveUnpinned
<1>12. CASE RemoveExpiredEntries
  BY <1>8, <1>12, SweptInTable DEF RemoveExpiredEntries
<1>13. CASE Tick \/ UNCHANGED vars
  <2>1. table' = table /\ pin' = pin /\ units' = units /\ maxUnits' = maxUnits
    BY <1>13 DEF Tick, vars
  <2> QED BY <2>1, LeanNext DEF Lean
<1> QED BY <1>1, <1>2, <1>3, <1>4, <1>6, <1>7, <1>9, <1>10, <1>11, <1>12, <1>13 DEF Next

LEMMA StaysLean == ASSUME ~MixedPins PROVE Spec => []Lean
<1>1. IInv /\ Books /\ Lean /\ [Next]_vars => Lean'
  BY NextLean
<1> QED BY <1>1, InitLean, BooksBalance, CacheInvariance, PTL DEF Spec

\* The cache takes more than its size only while every entry of its table is
\* pinned: whatever was inserted, resized, released or given a smaller maximum,
\* the garbage collector has freed what it could.  For any keys, values, costs,
\* sizes and idle times, as long as the pins of a value at any time were made
\* with the same options.
THEOREM GarbageCollected ==
  ASSUME ~MixedPins
  PROVE  Spec => []OverfullIsPinned
<1>1. Lean => OverfullIsPinned
  <2>1. ASSUME Lean PROVE OverfullIsPinned
    <3>1. units > maxUnits => \A v \in InTable : Pins(v) # 0
      BY <2>1, Bridge DEF Lean, Overfull
    <3> QED BY <3>1 DEF OverfullIsPinned, Unpinned
  <2> QED BY <2>1
<1> QED BY <1>1, StaysLean, PTL

-----------------------------------------------------------------------------
(* The order of the list.                                                  *)

\* The list runs from the newest entry to the oldest.
Sorted(ord, el) ==
  \A i, j \in DOMAIN ord : i < j => el[ord[i]].age <= el[ord[j]].age

ByAge == Sorted(order, elem)

\* What is unlinked does not disturb the order.
LEMMA UnlinkedSorted ==
  ASSUME NEW ord \in Seq(Values), NEW S, NEW el, Sorted(ord, el)
  PROVE  Sorted(Unlinked(ord, S), el)
BY UnlinkedLeaves DEF InOrder, Sorted

\* Only the ages of what is on the list matter.
LEMMA SortedSame ==
  ASSUME NEW ord, NEW el, NEW el2, Sorted(ord, el),
         \A v \in ToSet(ord) : el2[v].age = el[v].age
  PROVE  Sorted(ord, el2)
BY DEF Sorted, ToSet

\* A new or just used entry goes in front.
LEMMA LinkedSorted ==
  ASSUME NEW ord \in Seq(Values), NEW v \in Values, NEW el, Sorted(ord, el),
         el[v].age = 0, \A w \in ToSet(ord) : el[w].age \in Nat
  PROVE  Sorted(<<v>> \o ord, el)
<1> DEFINE more == <<v>> \o ord
<1>1. /\ Len(ord) \in Nat
      /\ DOMAIN ord = 1 .. Len(ord) /\ DOMAIN more = 1 .. Len(ord) + 1
      /\ more[1] = v
      /\ \A i \in 2 .. Len(ord) + 1 : more[i] = ord[i - 1]
  OBVIOUS
<1> HIDE DEF more
<1>2. ASSUME NEW i \in DOMAIN more, NEW j \in DOMAIN more, i < j
      PROVE  el[more[i]].age <= el[more[j]].age
  <2>1. j - 1 \in DOMAIN ord /\ more[j] = ord[j - 1]
    BY <1>1, <1>2
  <2>2. CASE i = 1
    <3>1. more[j] \in ToSet(ord)
      BY <2>1 DEF ToSet
    <3> QED BY <1>1, <2>2, <3>1
  <2>3. CASE i # 1
    <3>1. i - 1 \in DOMAIN ord /\ more[i] = ord[i - 1] /\ i - 1 < j - 1
      BY <1>1, <1>2, <2>3
    <3> QED BY <2>1, <3>1 DEF Sorted
  <2> QED BY <2>2, <2>3
<1>3. Sorted(more, el)
  BY <1>2 DEF Sorted
<1> QED BY <1>3 DEF more

LEMMA SortedNext == ASSUME Sorted(order', elem') PROVE ByAge'
  BY DEF ByAge, Sorted

\* Removing S, with what else happens to the ages of the rest left out.
LEMMA RemovalSorted ==
  ASSUME IInv, ByAge, NEW S, order' = Unlinked(order, S),
         \A v \in ToSet(order) \ S : elem'[v].age = elem[v].age
  PROVE  ByAge'
<1>1. order \in Seq(Values)
  BY ListPriced
<1>2. Sorted(Unlinked(order, S), elem) /\ ToSet(Unlinked(order, S)) = ToSet(order) \ S
  BY <1>1, UnlinkedSorted, UnlinkedLeaves DEF ByAge
<1>3. Sorted(order', elem')
  BY <1>2, SortedSame
<1> QED BY <1>3, SortedNext

LEMMA NextSorted == ~MixedPins => (IInv /\ ByAge /\ [Next]_vars => ByAge')
<1> SUFFICES ASSUME ~MixedPins, IInv, ByAge, [Next]_vars PROVE ByAge'
  OBVIOUS
<1>0. /\ order \in Seq(Values) /\ ToSet(order) \subseteq InTable
      /\ ToSet(order) \subseteq Values
      /\ \A v \in ToSet(order) : elem[v] \in Elem
      /\ elem \in [Values -> Elem \cup {NoElem}]
  <2>1. InTable \subseteq Values
    BY DEF InTable
  <2> QED BY <2>1, ListPriced DEF IInv, Placed
<1>1. ASSUME NEW S, order' = Unlinked(order, S), NEW R \in SUBSET S, elem' = Discarded(R)
      PROVE  ByAge'
  <2>1. \A v \in ToSet(order) \ S : elem'[v].age = elem[v].age
    BY <1>0, <1>1 DEF Discarded, Unpinned
  <2> QED BY <1>1, <2>1, RemovalSorted
<1>2. ASSUME NEW k \in Keys, NEW update \in BOOLEAN, Lookup(k, update) PROVE ByAge'
  <2> DEFINE swept == Idle(order)
             off == IF Pins(table[k]) = 0 /\ lru /\ update THEN swept \cup {table[k]}
                    ELSE swept
  <2>1. order' = Unlinked(order, off) /\ elem' = Discarded(swept)
    BY <1>2 DEF Lookup
  <2>2. swept \in SUBSET off
    OBVIOUS
  <2> HIDE DEF swept, off
  <2> QED BY <1>1, <2>1, <2>2
<1>3. ASSUME NEW v \in Values, NEW update \in BOOLEAN, ReleaseDeferred(v, update)
      PROVE  ByAge'
  <2>1. v \notin ToSet(order)
    BY <1>0, <1>3, Bridge DEF ReleaseDeferred, IInv, Placed
  <2>2. \A w \in ToSet(order) : elem'[w] = elem[w]
    BY <1>0, <1>3, <2>1 DEF ReleaseDeferred
  <2>3. order' = order
    BY <1>3 DEF ReleaseDeferred
  <2>4. Sorted(order', elem')
    BY <2>2, <2>3, SortedSame DEF ByAge
  <2> QED BY <2>4, SortedNext
<1>4. ASSUME NEW v \in Values, NEW update \in BOOLEAN, Release(v, update) PROVE ByAge'
  <2>1. /\ v \in InTable /\ pin[v][update] > 0
        /\ pin' = [pin EXCEPT ![v][update] = @ - 1]
    BY <1>4 DEF Release
  <2>2. v \in ToSet(order) <=> (lru => pin[v][TRUE] = 0)
    BY <2>1, Bridge DEF IInv, Chained, Linkable
  <2>3. lru /\ update => v \notin ToSet(order)
    <3>1. update = TRUE => pin[v][TRUE] # 0
      BY <2>1, PinLess
    <3> QED BY <2>2, <3>1, Zenon
  <2>4. elem[v] \in Elem
    BY <2>1, ListPriced
  <2>5. ASSUME elem' = [elem EXCEPT ![v] = Used(@, update)]
        PROVE  /\ Sorted(order, elem')
               /\ \A w \in ToSet(order) : elem'[w].age \in Nat
               /\ lru /\ update => elem'[v].age = 0
    <3>1. \A w \in Values : elem'[w] = IF w = v THEN Used(elem[v], update) ELSE elem[w]
      BY <1>0, <2>5
    <3>2. ~(lru /\ update) => Used(elem[v], update) = elem[v]
      BY DEF Used
    <3>3. \A w \in ToSet(order) : elem'[w] = elem[w]
      BY <1>0, <2>3, <3>1, <3>2
    <3>4. Sorted(order, elem')
      BY <3>3, SortedSame DEF ByAge
    <3>5. \A w \in ToSet(order) : elem'[w].age \in Nat
      BY <1>0, <3>3 DEF Elem
    <3>6. lru /\ update => elem'[v].age = 0
      BY <2>4, <3>1 DEF Used, Elem
    <3> QED BY <3>4, <3>5, <3>6
  <2>6. CASE Pins(v) > 1
    <3>1. order' = order /\ elem' = [elem EXCEPT ![v] = Used(@, update)]
      BY <1>4, <2>6 DEF Release
    <3> QED BY <2>5, <3>1, SortedNext
  <2>7. CASE ~(Pins(v) > 1) /\ units > maxUnits
    <3>1. order' = Unlinked(order, {v}) /\ elem' = [elem EXCEPT ![v] = NoElem]
      BY <1>4, <2>7 DEF Release
    <3>2. \A w \in ToSet(order) \ {v} : elem'[w].age = elem[w].age
      BY <1>0, <3>1
    <3> QED BY <3>1, <3>2, RemovalSorted
  <2>8. CASE ~(Pins(v) > 1) /\ ~(units > maxUnits)
    <3>1. /\ order' = IF lru /\ update THEN <<v>> \o order ELSE order
          /\ elem' = [elem EXCEPT ![v] = Used(@, update)]
      BY <1>4, <2>8 DEF Release, Linked
    <3>2. CASE lru /\ update
      <4>1. Sorted(<<v>> \o order, elem')
        BY <1>0, <2>5, <3>1, <3>2, LinkedSorted
      <4> QED BY <3>1, <3>2, <4>1, SortedNext
    <3>3. CASE ~(lru /\ update)
      BY <2>5, <3>1, <3>3, SortedNext
    <3> QED BY <3>2, <3>3
  <2> QED BY <2>6, <2>7, <2>8
<1>5. ASSUME NEW k \in Keys, NEW v \in Values, NEW cost \in Costs,
             InsertPinned(k, v, cost)
      PROVE  ByAge'
  <2> DEFINE old == {table[k]} \ {NoValue}
             total == units - Cost(elem, Unpinned(old)) + cost
             gone == Evicted(Unlinked(order, old), total, maxUnits, elem)
             S == old \cup gone
             e == [key |-> k, cost |-> cost, age |-> 0]
             rest == Unlinked(order, S)
  <2>1. /\ elem[v] = NoElem
        /\ order' = (IF lru THEN <<>> ELSE <<v>>) \o rest
        /\ elem' = [Discarded(S) EXCEPT ![v] = e]
    BY <1>5 DEF InsertPinned
  <2>2. e.age = 0
    OBVIOUS
  <2> HIDE DEF S, e
  <2>3. /\ rest \in Seq(Values) /\ ToSet(rest) = ToSet(order) \ S
        /\ Sorted(rest, elem)
    BY <1>0, UnlinkedLeaves, UnlinkedSorted DEF ByAge
  <2>4. v \notin ToSet(order)
    BY <1>0, <2>1, NoElemIsNoElem
  <2>5. \A w \in ToSet(rest) : elem'[w] = elem[w]
    BY <1>0, <2>1, <2>3, <2>4 DEF Discarded, Unpinned
  <2>6. elem'[v].age = 0
    BY <2>1, <2>2 DEF Discarded
  <2>7. Sorted(rest, elem') /\ \A w \in ToSet(rest) : elem'[w].age \in Nat
    <3>1. Sorted(rest, elem')
      BY <2>3, <2>5, SortedSame
    <3> QED BY <1>0, <2>3, <2>5, <3>1 DEF Elem
  <2> HIDE DEF rest
  <2>8. CASE lru
    <3>1. order' = rest
      BY <2>1, <2>3, <2>8, ConcatEmptySeq
    <3> QED BY <2>7, <3>1, SortedNext
  <2>9. CASE ~lru
    <3>1. Sorted(<<v>> \o rest, elem')
      BY <2>3, <2>6, <2>7, LinkedSorted
    <3> QED BY <2>1, <2>9, <3>1, SortedNext
  <2> QED BY <2>8, <2>9
<1>6. ASSUME NEW k \in Keys, NEW v \in Values \cup {NoValue}, NEW cost \in Costs,
             UpdateSize(k, v, cost)
      PROVE  ByAge'
  <2> DEFINE some == Resized(k, v)
             sized == [w \in Values |-> IF w \in some THEN [elem[w] EXCEPT !.cost = cost]
                                       ELSE elem[w]]
             total == units - Cost(elem, some) + Cost(sized, some)
             gone == Evicted(order, total, maxUnits, sized)
  <2>1. /\ order' = Unlinked(order, gone)
        /\ elem' = [w \in Values |-> IF w \in gone THEN NoElem ELSE sized[w]]
    BY <1>6 DEF UpdateSize
  <2> HIDE DEF gone, some
  <2>2. ASSUME NEW w \in ToSet(order) \ gone PROVE elem'[w].age = elem[w].age
    <3>1. elem'[w] = sized[w] /\ elem[w] \in Elem
      BY <1>0, <2>1
    <3>2. sized[w].age = elem[w].age
      BY <1>0, <3>1 DEF Elem
    <3> QED BY <3>1, <3>2
  <2> QED BY <2>1, <2>2, RemovalSorted
<1>7. ASSUME NEW max, SetMaxSize(max) PROVE ByAge'
  <2> DEFINE gone == Evicted(order, units, max, elem)
  <2>1. order' = Unlinked(order, gone) /\ elem' = Discarded(gone)
    BY <1>7 DEF SetMaxSize
  <2> HIDE DEF gone
  <2> QED BY <1>1, <2>1
<1>8. CASE Tick
  <2>1. /\ order' = order
        /\ \A v \in ToSet(order) : elem'[v].age = Older(elem[v].age) /\ elem[v].age \in Nat
    <3>1. order' = order
      BY <1>8 DEF Tick
    <3>2. ASSUME NEW v \in ToSet(order)
          PROVE  elem'[v].age = Older(elem[v].age) /\ elem[v].age \in Nat
      <4>1. v \in Values /\ elem[v] \in Elem /\ elem[v] # NoElem
        BY <1>0, NoElemIsNoElem
      <4>2. elem'[v] = [elem[v] EXCEPT !.age = Older(elem[v].age)]
        BY <1>8, <4>1 DEF Tick
      <4> QED BY <4>1, <4>2 DEF Elem
    <3> QED BY <3>1, <3>2
  <2>2. ASSUME NEW m \in Nat, NEW n \in Nat, m <= n PROVE Older(m) <= Older(n)
    BY <2>2, SizesAssumption DEF Older
  <2>3. Sorted(order', elem')
    <3>1. SUFFICES ASSUME NEW i \in DOMAIN order, NEW j \in DOMAIN order, i < j
                   PROVE  elem'[order[i]].age <= elem'[order[j]].age
      BY <2>1 DEF Sorted
    <3>2. order[i] \in ToSet(order) /\ order[j] \in ToSet(order)
      BY DEF ToSet
    <3>3. elem[order[i]].age <= elem[order[j]].age
      BY <3>1 DEF ByAge, Sorted
    <3> QED BY <2>1, <2>2, <3>2, <3>3
  <2> QED BY <2>3, SortedNext
<1>9. CASE UNCHANGED vars
  BY <1>9, SortedNext DEF vars, ByAge
<1>10. ASSUME NEW S, RemoveSet(S) PROVE ByAge'
  BY <1>1, <1>10 DEF RemoveSet
<1>11. CASE (\E k \in Keys : RemoveKey(k)) \/ RemoveAll \/ RemoveUnpinned
              \/ RemoveExpiredEntries
  BY <1>10, <1>11 DEF RemoveKey, RemoveAll, RemoveUnpinned, RemoveExpiredEntries
<1> QED BY <1>2, <1>3, <1>4, <1>5, <1>6, <1>7, <1>8, <1>9, <1>11 DEF Next

\* The list runs from the newest entry to the oldest, whatever is linked,
\* unlinked or aged: for any keys, values, costs, sizes and idle times, as long
\* as the pins of a value at any time were made with the same options.
THEOREM ListSorted ==
  ASSUME ~MixedPins
  PROVE  Spec => []ByAge
<1>1. Init => ByAge
  BY DEF Init, ByAge, Sorted
<1>2. IInv /\ ByAge /\ [Next]_vars => ByAge'
  BY NextSorted
<1> QED BY <1>1, <1>2, CacheInvariance, PTL DEF Spec

\* A sweep, which stops at the first young entry of the list, misses no entry
\* that is too old, but for the ones that the LRU mode keeps off the list while
\* they are pinned: for any keys, values, costs, sizes and idle times, as long
\* as the pins of a value at any time were made with the same options.
THEOREM SweepFindsAll ==
  ASSUME ~MixedPins
  PROVE  Spec => []SweepIsComplete
<1>1. ASSUME IInv, ByAge PROVE SweepIsComplete
  <2>1. SUFFICES ASSUME MaxIdle >= 0, NEW v \in InTable, elem[v].age > MaxIdle,
                        ~(lru /\ Pins(v) > 0)
                 PROVE  v \in Idle(order)
    BY DEF SweepIsComplete
  <2>2. v \in Tabled(table) /\ v \in Values /\ Pins(v) = PinsIn(pin, v)
        /\ pin \in [Values -> [BOOLEAN -> Nat]] /\ Pins(v) \in Nat
    <3>1. pin \in [Values -> [BOOLEAN -> Nat]] /\ v \in Tabled(table) /\ v \in Values
      BY <1>1, <2>1, Bridge DEF IInv, Placed, Tabled
    <3>2. Pins(v) = PinsIn(pin, v)
      BY Bridge
    <3> QED BY <3>1, <3>2, PinsAreNumbers
  <2>3. lru => pin[v][TRUE] = 0
    <3>1. lru => PinsIn(pin, v) = 0
      BY <2>1, <2>2
    <3> QED BY <2>2, <3>1, PinsAreNumbers, Zenon
  <2>4. v \in ToSet(order)
    BY <1>1, <2>2, <2>3 DEF IInv, Chained, Linkable
  <2>5. PICK i \in DOMAIN order : order[i] = v
    BY <2>4 DEF ToSet
  <2>6. /\ order \in Seq(Values) /\ Len(order) \in Nat /\ DOMAIN order = 1 .. Len(order)
        /\ \A w \in ToSet(order) : elem[w].age \in Nat
    <3>1. order \in Seq(Values) /\ \A w \in ToSet(order) : elem[w] \in Elem
      BY <1>1, ListPriced
    <3> QED BY <3>1 DEF Elem
  <2>7. ASSUME NEW j \in i .. Len(order) PROVE elem[order[j]].age > MaxIdle
    <3>1. j \in DOMAIN order /\ (j = i \/ i < j)
      BY <2>6
    <3>2. elem[order[i]].age \in Nat /\ elem[order[j]].age \in Nat
      BY <2>6, <3>1 DEF ToSet
    <3>3. i < j => elem[order[i]].age <= elem[order[j]].age
      BY <1>1, <3>1 DEF ByAge, Sorted
    <3> QED BY <2>1, <2>5, <3>1, <3>2, <3>3, SizesAssumption
  <2> QED BY <2>1, <2>4, <2>5, <2>7 DEF Idle
<1>2. Spec => []ByAge
  BY ListSorted
<1> QED BY <1>1, <1>2, CacheInvariance, PTL

\* What an insertion evicts is no younger than what it leaves unpinned.
LEMMA EvictsOldest ==
  ASSUME ~MixedPins, IInv, Books, Lean, ByAge,
         NEW k \in Keys, NEW v \in Values, NEW cost \in Costs, InsertPinned(k, v, cost),
         NEW i \in Keys \ {k}, NEW j \in Keys \ {k},
         table[i] # NoValue, table'[i] = NoValue,
         table'[j] # NoValue, Pins(table[j]) = 0
  PROVE  elem[table[i]].age >= elem[table[j]].age
<1> DEFINE old == {table[k]} \ {NoValue}
           total == units - Cost(elem, Unpinned(old)) + cost
           list == Unlinked(order, old)
           gone == Evicted(list, total, maxUnits, elem)
           a == table[i]
           b == table[j]
<1>1. table' = [WithoutKeys(gone) EXCEPT ![k] = v]
  BY DEF InsertPinned
<1>2. a \in gone /\ b \notin gone /\ b # NoValue
  BY <1>1 DEF WithoutKeys
<1>3. /\ order \in Seq(Values) /\ ToSet(order) \subseteq InTable
      /\ \A w \in ToSet(order) : elem[w].cost \in Nat /\ elem[w].age \in Nat
  <2>1. \A w \in ToSet(order) : elem[w] \in Elem
    BY ListPriced
  <2> QED BY <2>1, ListPriced DEF Elem
<1>4. /\ list \in Seq(Values) /\ ToSet(list) = ToSet(order) \ old /\ Sorted(list, elem)
      /\ Once(list)
  BY <1>3, UnlinkedLeaves, UnlinkedSorted DEF ByAge, IInv, Chained
<1>5. old \in SUBSET InTable /\ b \in InTable /\ b \notin old
  <2>1. b \in InTable
    BY <1>2 DEF IInv, Placed, InTable
  <2>2. b \notin old
    BY <1>2, OneKey DEF IInv
  <2> QED BY <2>1, <2>2 DEF IInv, Placed, InTable
<1>6. total \in Int /\ maxUnits \in Int
  <2>1. Cost(elem, Unpinned(old)) \in Nat
    BY <1>5, RemovalPays
  <2>2. cost \in Nat /\ units \in Nat /\ maxUnits \in Nat
    BY SizesAssumption, UnitsAreNumbers DEF Lean
  <2> QED BY <2>1, <2>2
<1>7. b \in ToSet(list)
  BY <1>4, <1>5, UnpinnedListed
<1> HIDE DEF total, old, list
<1>8. PICK x \in DOMAIN list : list[x] = a
  BY <1>2 DEF Evicted
<1>9. PICK y \in DOMAIN list : list[y] = b
  BY <1>7 DEF ToSet
<1>10. \A w \in ToSet(list) : elem[w].cost \in Nat
  BY <1>3, <1>4
<1>11. y < x
  <2> HIDE DEF a, b
  <2>1. list[x] \in gone /\ list[y] \notin gone
    BY <1>2, <1>8, <1>9
  <2>2. Pins(list[y]) = 0
    BY <1>9 DEF b
  <2> QED BY <1>4, <1>6, <1>10, <2>1, <2>2, OlderFirst
<1>12. elem[list[y]].age <= elem[list[x]].age
  BY <1>4, <1>11 DEF Sorted
<1>13. elem[a].age \in Nat /\ elem[b].age \in Nat
  <2>1. list[x] \in ToSet(list) /\ list[y] \in ToSet(list)
    BY DEF ToSet
  <2>2. a \in ToSet(order) /\ b \in ToSet(order)
    BY <1>4, <1>8, <1>9, <2>1
  <2> HIDE DEF a, b
  <2> QED BY <1>3, <2>2
<1> HIDE DEF a, b
<1>14. elem[a].age >= elem[b].age
  BY <1>8, <1>9, <1>12, <1>13
<1> QED BY <1>14 DEF a, b

\* What an insertion evicts is no younger than any unpinned entry it leaves, for
\* any keys, values, costs, sizes and idle times, as long as the pins of a value
\* at any time were made with the same options.
THEOREM OldestGoesFirst ==
  ASSUME ~MixedPins
  PROVE  Spec => OldestEvicted
<1> DEFINE Rule ==
      \A k \in Keys, v \in Values, cost \in Costs :
        InsertPinned(k, v, cost) =>
          \A i, j \in Keys \ {k} :
            /\ table[i] # NoValue /\ table'[i] = NoValue
            /\ table'[j] # NoValue /\ Pins(table[j]) = 0
            => elem[table[i]].age >= elem[table[j]].age
<1>1. IInv /\ Books /\ Lean /\ ByAge => Rule
  BY EvictsOldest
<1>2. IInv /\ Books /\ Lean /\ ByAge => [Rule]_vars
  BY <1>1
<1>3. Spec => []IInv /\ []Books /\ []Lean /\ []ByAge
  BY CacheInvariance, BooksBalance, StaysLean, ListSorted, PTL
<1> HIDE DEF Rule
<1>4. Spec => [][Rule]_vars
  BY <1>2, <1>3, PTL
<1> QED BY <1>4 DEF Rule, OldestEvicted
=============================================================================
