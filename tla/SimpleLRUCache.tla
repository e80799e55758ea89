--------------------------- MODULE SimpleLRUCache ---------------------------
(***************************************************************************)
(* The cache under the three aggregators: SimpleLRUCacheBase               *)
(* (utils/simple_lru_cache_inl.h), in both of its modes, with pins, costs  *)
(* and the deferred removal of entries that are still pinned.              *)
(*                                                                         *)
(* A value is inserted under a key, looked up (which pins it), released,   *)
(* and removed by its owner, by the sweep of entries that are too old or   *)
(* by the garbage collector.  A removed entry that is pinned goes to the   *)
(* deferred table until its last release.  The cache has no lock: its      *)
(* operations are called one at a time, and each is one action.  The       *)
(* deleter of the owner is RemoveElement(); here it does not call the      *)
(* cache again (QuotaAggregator models the deleter that does).             *)
(*                                                                         *)
(* Abstractions.  Values and keys are tokens; a value that was deleted may *)
(* come back as a new one.  Time is kept as ages that saturate.  Key       *)
(* iteration and the debugging output are left out.                        *)
(***************************************************************************)
EXTENDS Integers, Sequences, FiniteSets, SequencesExt

CONSTANTS
  Keys,       \* keys of entries
  Values,     \* values, each inserted by one owner under one key at a time
  NoValue,    \* table[k] = NoValue: the table has no entry for k
  NoElem,     \* elem[v] = NoElem: v is not in the cache
  Costs,      \* units an entry may take
  MaxIdle,    \* max_idle_ in ticks, or -1 when entries do not expire
  MaxSize,    \* the largest size given to SetMaxSize()
  MaxPins,    \* bound: pins of one value
  MixedPins   \* whether lookups with different options may pin one value at once

VARIABLES
  lru,          \* lru_: eviction by last use, not by age
  table,        \* table_: Keys -> Values or NoValue
  deferred,     \* the values in defer_
  order,        \* the LRU list, from head_.next (newest) to head_.prev
  elem,         \* Values -> Elem or NoElem
  pin,          \* per value, its unreleased pins, by update_eviction_order()
  units,        \* units_
  pinnedUnits,  \* pinned_units_
  maxUnits      \* max_units_

vars == <<lru, table, deferred, order, elem, pin, units, pinnedUnits, maxUnits>>

Elem == [key : Keys, cost : Costs, age : Nat]

ASSUME SetsAssumption ==
  /\ IsFiniteSet(Keys) /\ IsFiniteSet(Values)
  /\ NoValue \notin Values
  /\ NoElem \notin [key : Keys, cost : Nat, age : Nat]

ASSUME SizesAssumption ==
  /\ Costs \subseteq Nat \ {0}
  /\ MaxIdle \in Nat \cup {-1}
  /\ MaxSize \in Nat
  /\ MaxPins \in Nat
  /\ MixedPins \in BOOLEAN

-----------------------------------------------------------------------------
Pins(v) == pin[v][TRUE] + pin[v][FALSE]

InTable == {v \in Values : \E k \in Keys : table[k] = v}

\* Units of the values in S, by the costs of f.
Cost(f, S) == SumFunctionOnSet([v \in S |-> f[v].cost], S)

Unpinned(S) == {v \in S : Pins(v) = 0}

\* The entries DiscardIdle() removes: from the old end of the list, up to the
\* first that is young enough.  In the age-based mode they may be pinned.
Idle(list) ==
  {v \in ToSet(list) :
     /\ MaxIdle >= 0
     /\ \E i \in DOMAIN list :
          v = list[i] /\ \A j \in i .. Len(list) : elem[list[j]].age > MaxIdle}

\* What the list holds on the old side of position i, seen from its new end.
Behind(list, i) == {list[j] : j \in i + 1 .. Len(list)}

\* Mutated form: the garbage collector stops one unit too early.
EvictedShort(list, total, max, cost) ==
  {list[i] : i \in {i \in DOMAIN list :
     /\ Pins(list[i]) = 0
     /\ total - Cost(cost, Unpinned(Behind(list, i))) > max + 1}}

\* The entries GarbageCollect() removes: the unpinned ones, oldest first, as
\* long as the cache is overfull.
Evicted(list, total, max, cost) ==
  {list[i] : i \in {i \in DOMAIN list :
     /\ Pins(list[i]) = 0
     /\ total - Cost(cost, Unpinned(Behind(list, i))) > max}}

\* Removing the entries of S: all leave the table and the list, ...
WithoutKeys(S) == [k \in Keys |-> IF table[k] \in S THEN NoValue ELSE table[k]]

\* (the list of what is left is written out by position, for the proofs)
Kept(list, S) == {i \in DOMAIN list : list[i] \notin S}

Unlinked(list, S) ==
  LET kept == Kept(list, S)
      At(n) == CHOOSE i \in kept : Cardinality({j \in kept : j <= i}) = n
  IN [n \in 1 .. Cardinality(kept) |-> list[At(n)]]

\* Mutated form: a pinned entry is not remembered.
DeferredNever(S) == deferred

\* ... the pinned ones are deferred, and the others are deleted.
Deferred(S) == deferred \cup (S \ Unpinned(S))

\* Mutated form: a pinned entry is deleted although it is deferred.
DiscardedPinned(S) == [v \in Values |-> IF v \in S THEN NoElem ELSE elem[v]]

Discarded(S) == [v \in Values |-> IF v \in Unpinned(S) THEN NoElem ELSE elem[v]]

-----------------------------------------------------------------------------
\* A new cache of MaxSize units, in either mode.
Init ==
  /\ lru \in BOOLEAN
  /\ table = [k \in Keys |-> NoValue]
  /\ deferred = {}
  /\ order = <<>>
  /\ elem = [v \in Values |-> NoElem]
  /\ pin = [v \in Values |-> [update \in BOOLEAN |-> 0]]
  /\ units = 0
  /\ pinnedUnits = 0
  /\ maxUnits = MaxSize

\* The entries of S leave the table, and nothing else happens.
RemoveSet(S) ==
  /\ table' = WithoutKeys(S)
  /\ deferred' = Deferred(S)
  /\ order' = Unlinked(order, S)
  /\ elem' = Discarded(S)
  /\ units' = units - Cost(elem, Unpinned(S))
  /\ pinnedUnits' = pinnedUnits - Cost(elem, S \ Unpinned(S))

RemoveKey(k) ==
  /\ table[k] # NoValue
  /\ RemoveSet({table[k]})
  /\ UNCHANGED <<lru, pin, maxUnits>>

RemoveAll == RemoveSet(InTable) /\ UNCHANGED <<lru, pin, maxUnits>>

\* RemoveUnpinned() walks the LRU list.
RemoveUnpinned ==
  RemoveSet(Unpinned(ToSet(order))) /\ UNCHANGED <<lru, pin, maxUnits>>

\* RemoveExpiredEntries(); also a lookup that finds nothing.
RemoveExpiredEntries ==
  RemoveSet(Idle(order)) /\ UNCHANGED <<lru, pin, maxUnits>>

\* A lookup that finds the entry of k, after the sweep, pins it.  In the LRU
\* mode the first pin takes it off the list, unless the lookup leaves the
\* eviction order alone.
Lookup(k, update) ==
  LET v == table[k]
      swept == Idle(order)
      first == Pins(v) = 0
  IN /\ v \notin swept \cup {NoValue}
     /\ Pins(v) < MaxPins
     /\ MixedPins \/ pin[v][~update] = 0
     /\ pin' = [pin EXCEPT ![v][update] = @ + 1]
     /\ table' = WithoutKeys(swept)
     /\ deferred' = Deferred(swept)
     /\ order' = Unlinked(order, IF first /\ lru /\ update THEN swept \cup {v}
                                 ELSE swept)
     /\ elem' = Discarded(swept)
     /\ units' = units - Cost(elem, Unpinned(swept))
     /\ pinnedUnits' = pinnedUnits - Cost(elem, swept \ Unpinned(swept))
                         + (IF first THEN elem[v].cost ELSE 0)
     /\ UNCHANGED <<lru, maxUnits>>

\* Mutated form: a value that the caller does not hold may be released.
ReleaseDeferredUnasked(v, update) ==
  /\ v \in deferred
  /\ pin' = [pin EXCEPT ![v][update] = @ - 1]
  /\ UNCHANGED <<lru, table, deferred, order, elem, units, pinnedUnits, maxUnits>>

\* The last release of a deferred value deletes it.
ReleaseDeferred(v, update) ==
  /\ v \in deferred
  /\ pin[v][update] > 0
  /\ pin' = [pin EXCEPT ![v][update] = @ - 1]
  /\ IF Pins(v) = 1
     THEN /\ deferred' = deferred \ {v}
          /\ elem' = [elem EXCEPT ![v] = NoElem]
          /\ units' = units - elem[v].cost
     ELSE UNCHANGED <<deferred, elem, units>>
  /\ UNCHANGED <<lru, table, order, pinnedUnits, maxUnits>>

\* Mutated form: the time of the last use stays.
UsedLongAgo(e, update) == e

\* A release in the LRU mode is a use, unless it leaves the order alone.
Used(e, update) == IF lru /\ update THEN [e EXCEPT !.age = 0] ELSE e

\* Mutated form: a value is put back at the old end of the list.
LinkedLast(v) == Append(order, v)

\* Mutated form: a value that is released stays off the list.
LinkedNever(v) == order

\* Link(&head_).  Linking an element that is still linked breaks the list; the
\* model then keeps it twice.
Linked(v) == <<v>> \o order

\* The last release of a value in the table makes it evictable again, or, when
\* the cache is overfull, removes it.
Release(v, update) ==
  /\ v \in InTable
  /\ pin[v][update] > 0
  /\ pin' = [pin EXCEPT ![v][update] = @ - 1]
  /\ IF Pins(v) > 1
     THEN /\ elem' = [elem EXCEPT ![v] = Used(@, update)]
          /\ UNCHANGED <<table, order, units, pinnedUnits>>
     ELSE /\ pinnedUnits' = pinnedUnits - elem[v].cost
          /\ IF units > maxUnits
             THEN /\ table' = WithoutKeys({v})
                  /\ order' = Unlinked(order, {v})
                  /\ elem' = [elem EXCEPT ![v] = NoElem]
                  /\ units' = units - elem[v].cost
             ELSE /\ order' = IF lru /\ update THEN Linked(v) ELSE order
                  /\ elem' = [elem EXCEPT ![v] = Used(@, update)]
                  /\ UNCHANGED <<table, units>>
  /\ UNCHANGED <<lru, deferred, maxUnits>>

\* InsertPinned() of a new value v: the old entry of k is removed, v is pinned
\* (and linked at once in the age-based mode), and the garbage collector runs.
InsertPinned(k, v, cost) ==
  LET old == {table[k]} \ {NoValue}
      total == units - Cost(elem, Unpinned(old)) + cost
      gone == Evicted(Unlinked(order, old), total, maxUnits, elem)
  IN /\ elem[v] = NoElem
     /\ MaxPins > 0
     /\ pin' = [pin EXCEPT ![v][TRUE] = 1]
     /\ table' = [WithoutKeys(gone) EXCEPT ![k] = v]
     /\ deferred' = Deferred(old)
     /\ order' = (IF lru THEN <<>> ELSE <<v>>) \o Unlinked(order, old \cup gone)
     /\ elem' = [Discarded(old \cup gone) EXCEPT
                   ![v] = [key |-> k, cost |-> cost, age |-> 0]]
     /\ units' = total - Cost(elem, gone)
     /\ pinnedUnits' = pinnedUnits - Cost(elem, old \ Unpinned(old)) + cost
     /\ UNCHANGED <<lru, maxUnits>>

\* UpdateSize(): a null value stands for the entry of the key in the table, or
\* else for all the deferred ones of the key.
Resized(k, v) ==
  IF table[k] # NoValue /\ v \in {NoValue, table[k]} THEN {table[k]}
  ELSE {w \in deferred : elem[w].key = k /\ v \in {NoValue, w}}

\* Mutated form: a new size that needs no more room frees none either.
UpdateSizeKeepingUnits(k, v, cost) ==
  /\ Resized(k, v) # {}
  /\ elem' = [w \in Values |-> IF w \in Resized(k, v)
                               THEN [elem[w] EXCEPT !.cost = cost] ELSE elem[w]]
  /\ UNCHANGED <<lru, table, deferred, order, pin, units, pinnedUnits, maxUnits>>

UpdateSize(k, v, cost) ==
  LET some == Resized(k, v)
      sized == [w \in Values |-> IF w \in some THEN [elem[w] EXCEPT !.cost = cost]
                                 ELSE elem[w]]
      pinnedInTable == (some \ Unpinned(some)) \ deferred
      total == units - Cost(elem, some) + Cost(sized, some)
      gone == Evicted(order, total, maxUnits, sized)
  IN /\ some # {}
     /\ table' = WithoutKeys(gone)
     /\ order' = Unlinked(order, gone)
     /\ elem' = [w \in Values |-> IF w \in gone THEN NoElem ELSE sized[w]]
     /\ units' = total - Cost(sized, gone)
     /\ pinnedUnits' = pinnedUnits - Cost(elem, pinnedInTable)
                         + Cost(sized, pinnedInTable)
     /\ UNCHANGED <<lru, deferred, pin, maxUnits>>

SetMaxSize(max) ==
  LET gone == Evicted(order, units, max, elem)
  IN /\ maxUnits' = max
     /\ table' = WithoutKeys(gone)
     /\ order' = Unlinked(order, gone)
     /\ elem' = Discarded(gone)
     /\ units' = units - Cost(elem, gone)
     /\ UNCHANGED <<lru, deferred, pin, pinnedUnits>>

Older(age) == IF age <= MaxIdle THEN age + 1 ELSE age

Tick ==
  /\ elem' = [v \in Values |-> IF elem[v] = NoElem THEN NoElem
                               ELSE [elem[v] EXCEPT !.age = Older(@)]]
  /\ UNCHANGED <<lru, table, deferred, order, pin, units, pinnedUnits, maxUnits>>

\* Insert() is InsertPinned() and Release(); Clear(), which may be called only
\* when nothing is pinned, is RemoveAll().
Next ==
  \/ \E k \in Keys, update \in BOOLEAN : Lookup(k, update)
  \/ \E v \in Values, update \in BOOLEAN :
       Release(v, update) \/ ReleaseDeferred(v, update)
  \/ \E k \in Keys, v \in Values, cost \in Costs : InsertPinned(k, v, cost)
  \/ \E k \in Keys, v \in Values \cup {NoValue}, cost \in Costs :
       UpdateSize(k, v, cost)
  \/ \E k \in Keys : RemoveKey(k)
  \/ RemoveAll
  \/ RemoveUnpinned
  \/ RemoveExpiredEntries
  \/ \E max \in 0 .. MaxSize : SetMaxSize(max)
  \/ Tick

Spec == Init /\ [][Next]_vars

-----------------------------------------------------------------------------
(* Properties.                                                             *)

Live == {v \in Values : elem[v] # NoElem}

\* Type invariant of the cache.
TypeOK ==
  /\ lru \in BOOLEAN
  /\ table \in [Keys -> Values \cup {NoValue}]
  /\ deferred \subseteq Values
  /\ order \in Seq(Values)
  /\ elem \in [Values -> Elem \cup {NoElem}]
  /\ pin \in [Values -> [BOOLEAN -> Nat]]
  /\ units \in Int
  /\ pinnedUnits \in Int
  /\ maxUnits \in Nat

\* "Each live Elem is either in table_ or defer_. Each Elem in defer_ has a
\* non-zero pin count" (simple_lru_cache_inl.h:545,547): a live value is in the
\* table, under its key, or deferred and pinned, but not both; and nothing else
\* is in either.
OnePlace ==
  /\ Live = InTable \cup deferred
  /\ InTable \cap deferred = {}
  /\ \A k \in Keys : table[k] # NoValue => elem[table[k]].key = k
  /\ \A v \in deferred : Pins(v) > 0

\* A value is not deleted while somebody holds it, although its key may have
\* been removed, inserted again or evicted meanwhile.
PinnedIsLive == \A v \in Values : Pins(v) > 0 => v \in Live

Listed(v) == Cardinality({i \in DOMAIN order : order[i] = v})

\* "LRU list contains elements in table_ that can be removed to free space"
\* (simple_lru_cache_inl.h:546): every entry of the table that is not pinned is
\* linked once, nothing is linked twice, and nothing that left the table is
\* linked; in the age-based mode, the pinned entries are linked as well.
ListComplete ==
  /\ \A v \in Unpinned(InTable) : Listed(v) = 1
  /\ ~lru => \A v \in InTable : Listed(v) = 1
  /\ \A v \in Values : Listed(v) <= (IF v \in InTable THEN 1 ELSE 0)

\* units_ and pinned_units_ are what the entries take, the deferred ones
\* included in the first and not in the second.
UnitsAddUp ==
  /\ units = Cost(elem, Live)
  /\ pinnedUnits = Cost(elem, InTable \ Unpinned(InTable))

\* The cache is overfull only while nothing can be evicted: every entry that is
\* left is pinned.
OverfullIsPinned == units > maxUnits => Unpinned(InTable) = {}

\* "There are no pinned elements on the list in the LRU mode"
\* (simple_lru_cache_inl.h, asserted by DiscardIdle()), so that a sweep in that
\* mode removes nothing that is held.  It does: a lookup that leaves the eviction
\* order alone pins an entry and leaves it on the list.
SweptIsUnpinned == lru => \A v \in Idle(order) : Pins(v) = 0

\* A sweep, whenever it comes, finds all there is to remove although it stops at
\* the first young entry of the list: every entry that is too old is among
\* those, but for the ones the LRU mode keeps off the list while they are pinned.
SweepIsComplete ==
  MaxIdle >= 0 =>
    \A v \in InTable :
      elem[v].age > MaxIdle => v \in Idle(order) \/ (lru /\ Pins(v) > 0)

\* The garbage collector takes the entries that were not used, or inserted, for
\* longest: what an insertion evicts is no younger than any unpinned entry it
\* leaves.
OldestEvicted ==
  [][\A k \in Keys, v \in Values, cost \in Costs :
       InsertPinned(k, v, cost) =>
         \A i, j \in Keys \ {k} :
           /\ table[i] # NoValue /\ table'[i] = NoValue
           /\ table'[j] # NoValue /\ Pins(table[j]) = 0
           => elem[table[i]].age >= elem[table[j]].age]_vars
=============================================================================
