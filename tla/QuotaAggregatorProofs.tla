----------------------- MODULE QuotaAggregatorProofs -----------------------
(***************************************************************************)
(* Proofs about QuotaAggregator, for every cache size, interval, set of    *)
(* costs and finite set of keys.                                           *)
(*                                                                         *)
(* Every operation changes the cache by a sweep: a set of entries leaves   *)
(* the table and OnCacheEntryDelete() puts some of them back.  The lemmas  *)
(* therefore follow one key through a sweep; an action is a sweep followed *)
(* by a change of the one key it was called for.                           *)
(***************************************************************************)
EXTENDS QuotaAggregator, FiniteSetTheorems, TLAPS

\* NoElem is not the value of a cached element.
LEMMA NoElemIsNoElem == NoElem \notin CacheElem
BY KeysAssumption DEF CacheElem

\* An element that is put back in the table is an element.
LEMMA DeleteType ==
  ASSUME NEW e \in CacheElem
  PROVE  OnCacheEntryDelete(e) \in CacheElem \cup {NoElem}
BY DEF OnCacheEntryDelete, CacheElem

\* The temporary element is an element.
LEMMA TemporaryType == TemporaryElem \in CacheElem
BY DEF TemporaryElem, CacheElem

\* The types of what a sweep leaves behind.
LEMMA SweepType ==
  ASSUME TypeOK, NEW S \in SUBSET Cached(cache)
  PROVE  /\ Remove(S) \in [Keys -> CacheElem \cup {NoElem}]
         /\ Buffered(S) \in [Keys -> Nat]
         /\ Orphaned(S) \in [Keys -> Nat]
         /\ Settled(S) \in [Keys -> Int]
<1>1. \A k \in S : k \in Keys /\ cache[k] \in CacheElem
  BY DEF TypeOK, Cached
<1>2. \A k \in S : OnCacheEntryDelete(cache[k]) \in CacheElem \cup {NoElem}
  BY <1>1, DeleteType
<1>3. Remove(S) \in [Keys -> CacheElem \cup {NoElem}]
  BY <1>2 DEF Remove, TypeOK
<1>4. Buffered(S) \in [Keys -> Nat]
  BY DEF Buffered, TypeOK
<1>5. Orphaned(S) \in [Keys -> Nat]
  BY DEF Orphaned, TypeOK
<1>6. \A k \in S : cache[k].agg \in Nat
  BY <1>1 DEF CacheElem
<1>7. Settled(S) \in [Keys -> Int]
  BY <1>6 DEF Settled, TypeOK
<1> QED BY <1>3, <1>4, <1>5, <1>7

\* The sets an operation sweeps hold cached keys only.
LEMMA SweptAreCached ==
  /\ Expired(cache) \in SUBSET Cached(cache)
  /\ Candidates \in SUBSET Cached(cache)
BY DEF Expired, Candidates

-----------------------------------------------------------------------------
(* Type correctness.                                                       *)

LEMMA InsertTemporaryType ==
  ASSUME TypeOK, NEW k \in Keys, NEW S \in SUBSET Cached(cache),
         InsertTemporary(k, S)
  PROVE  TypeOK'
BY SweepType, TemporaryType DEF InsertTemporary, TypeOK

\* The initial state is typed.
LEMMA InitType == Init => TypeOK
<1> SUFFICES ASSUME Init PROVE TypeOK
  OBVIOUS
<1>1. inFlushAll \in BOOLEAN /\ runaway \in BOOLEAN
  BY DEF Init
<1>2. cache \in [Keys -> CacheElem \cup {NoElem}]
  BY DEF Init
<1>3. \A f \in {buffered, sent, orphans, owed} : f = [k \in Keys |-> 0]
  BY DEF Init
<1> QED BY <1>1, <1>2, <1>3 DEF TypeOK

\* An element that grows older is an element.
LEMMA TickType ==
  ASSUME NEW e \in CacheElem
  PROVE  [e EXCEPT !.sinceInsert = Older(@, RefreshInterval + 1),
                   !.sinceRefresh = Older(@, ExpirationInterval)] \in CacheElem
<1>1. \A age, limit \in Nat : Older(age, limit) \in Nat
  BY DEF Older
<1>2. e.sinceInsert \in Nat /\ e.sinceRefresh \in Nat
  BY DEF CacheElem
<1>3. RefreshInterval + 1 \in Nat /\ ExpirationInterval \in Nat
  BY OptionsAssumption
<1>4. /\ Older(e.sinceInsert, RefreshInterval + 1) \in Nat
      /\ Older(e.sinceRefresh, ExpirationInterval) \in Nat
  BY <1>1, <1>2, <1>3
<1> QED BY <1>4 DEF CacheElem

\* The types of all variables are kept by every operation of the quota cache,
\* by its requests and answers, and by the clock.
THEOREM TypeCorrect == Spec => []TypeOK
<1>1. Init => TypeOK
  BY InitType
<1>2. TypeOK /\ [Next]_vars => TypeOK'
  <2> SUFFICES ASSUME TypeOK, [Next]_vars PROVE TypeOK'
    OBVIOUS
  <2> DEFINE E == Expired(cache)
  <2> E \in SUBSET Cached(cache)
    BY SweptAreCached
  <2> HIDE DEF E
  <2>1. ASSUME NEW k \in Keys, NEW c \in Costs, QuotaHit(k, c)
        PROVE  TypeOK'
    <3> DEFINE swept == Remove(E)
               granted == IF swept[k].positive THEN c ELSE 0
    <3>1. swept[k] \in CacheElem
      BY <2>1, SweepType DEF QuotaHit, Hit, E
    <3>2. granted \in Nat
      BY BoundsAssumption
    <3>3. [swept[k] EXCEPT !.agg = @ + granted] \in CacheElem
      <4> HIDE DEF swept, granted
      <4> QED BY <3>1, <3>2 DEF CacheElem
    <3>4. cache' = [swept EXCEPT ![k] = [swept[k] EXCEPT !.agg = @ + granted]]
      BY <2>1, SweepType DEF QuotaHit, E
    <3>5. cache' \in [Keys -> CacheElem \cup {NoElem}]
      <4> HIDE DEF granted
      <4> QED BY <3>3, <3>4, SweepType
    <3>6. owed' = [Settled(E) EXCEPT ![k] = @ + granted]
      BY <2>1 DEF QuotaHit, E
    <3>7. owed' \in [Keys -> Int]
      <4> HIDE DEF granted
      <4> QED BY <3>2, <3>6, SweepType
    <3> QED BY <2>1, <3>5, <3>7, SweepType DEF QuotaHit, TypeOK, E
  <2>2. ASSUME NEW k \in Keys, QuotaMiss(k)
        PROVE  TypeOK'
    BY <2>2, InsertTemporaryType DEF QuotaMiss, E
  <2>3. ASSUME NEW k \in Keys, QuotaMissEvict(k)
        PROVE  TypeOK'
    <3>1. PICK v \in Candidates, T \in SUBSET Candidates :
            InsertTemporary(k, E \cup T \cup {v})
      BY <2>3 DEF QuotaMissEvict, E
    <3>2. E \cup T \cup {v} \in SUBSET Cached(cache)
      BY SweptAreCached
    <3> QED BY <3>1, <3>2, InsertTemporaryType
  <2>4. ASSUME NEW k \in Keys, QuotaRunaway(k)
        PROVE  TypeOK'
    BY <2>4 DEF QuotaRunaway, TypeOK
  <2>5. ASSUME NEW k \in Keys, FlushOut(k)
        PROVE  TypeOK'
    BY <2>5 DEF FlushOut, TypeOK
  <2>6. ASSUME NEW k \in Keys, NEW allowed \in BOOLEAN, Answer(k, allowed)
        PROVE  TypeOK'
    <3> DEFINE swept == Remove(E)
    <3>1. sent' \in [Keys -> Nat]
      BY <2>6 DEF Answer, TypeOK
    <3>2. cache' \in [Keys -> CacheElem \cup {NoElem}]
      <4>1. CASE Hit(k)
        <5>1. swept[k] \in CacheElem
          BY <4>1, SweepType DEF Hit, E
        <5>2. AnsweredElem(swept[k], allowed) \in CacheElem
          BY <5>1 DEF AnsweredElem, CacheElem
        <5>3. cache' = [swept EXCEPT ![k] = AnsweredElem(swept[k], allowed)]
          BY <2>6, <4>1, SweepType DEF Answer, E
        <5> QED BY <5>2, <5>3, SweepType
      <4>2. CASE ~Hit(k)
        BY <2>6, <4>2, SweepType DEF Answer, E
      <4> QED BY <4>1, <4>2
    <3>3. owed' \in [Keys -> Int]
      <4>1. CASE Hit(k)
        <5>1. swept[k].agg \in Nat
          BY <4>1, SweepType DEF Hit, CacheElem, E
        <5>2. owed' = Settled(E)
              \/ owed' = [Settled(E) EXCEPT ![k] = @ - swept[k].agg]
          BY <2>6 DEF Answer, E
        <5> QED BY <5>1, <5>2, SweepType
      <4>2. CASE ~Hit(k)
        BY <2>6, <4>2, SweepType DEF Answer, E
      <4> QED BY <4>1, <4>2
    <3> QED BY <2>6, <3>1, <3>2, <3>3, SweepType DEF Answer, TypeOK, E
  <2>7. CASE Flush
    BY <2>7, SweepType DEF Flush, TypeOK, E
  <2>8. CASE FlushAll
    <3>1. \A k \in Keys : cache[k] # NoElem => cache[k].agg \in Nat
      BY DEF TypeOK, CacheElem
    <3> QED BY <2>8, <3>1 DEF FlushAll, TypeOK
  <2>9. CASE Tick
    BY <2>9, TickType DEF Tick, TypeOK
  <2>10. CASE UNCHANGED vars
    BY <2>10 DEF vars, TypeOK
  <2> QED
    BY <2>1, <2>2, <2>3, <2>4, <2>5, <2>6, <2>7, <2>8, <2>9, <2>10
    DEF Next, Quota
<1> QED BY <1>1, <1>2, PTL DEF Spec
-----------------------------------------------------------------------------
(* The invariants, for one key: e is its entry in the table, n the number  *)
(* of its requests under way, o its orphans and w the tokens it owes.      *)

Waits(e) == e # NoElem /\ e.inFlight

Holds(e) == IF e = NoElem THEN 0 ELSE e.agg

KeyInv(e, n, o, w) ==
  /\ n <= o + (IF Waits(e) THEN 1 ELSE 0)
  /\ Waits(e) => n > 0
  /\ w = Holds(e)
  /\ e # NoElem /\ ~e.positive => Holds(e) = 0

KeysInv == \A k \in Keys :
             KeyInv(cache[k], buffered[k] + sent[k], orphans[k], owed[k])

\* The inductive invariant.  Its parts need each other: that a denied element
\* holds nothing is what makes the probe that refreshes it settle no tokens.
IInv ==
  /\ TypeOK
  /\ OneRequestPerElement
  /\ InFlightAwaited
  /\ Ledger
  /\ DeniedOwesNothing

\* The invariant speaks of every key by itself.
LEMMA IInvByKey == IInv <=> TypeOK /\ KeysInv
BY DEF IInv, KeysInv, KeyInv, Waits, Holds, OneRequestPerElement,
       InFlightAwaited, Ledger, DeniedOwesNothing, InFlight, Outstanding,
       Aggregated, Denied

\* The fate of an element that leaves the table, for one key.
LEMMA DeleteKeepsKeyInv ==
  ASSUME NEW e \in CacheElem, NEW n \in Nat, NEW o \in Nat, NEW w \in Int,
         KeyInv(e, n, o, w)
  PROVE  KeyInv(OnCacheEntryDelete(e),
                IF Refreshes(e) THEN n + 1 ELSE n,
                IF Drops(e) /\ e.inFlight THEN o + 1 ELSE o,
                IF Drops(e) \/ Refreshes(e) THEN w - e.agg ELSE w)
<1>1. e # NoElem /\ e.inFlight \in BOOLEAN /\ e.agg \in Nat
  BY NoElemIsNoElem DEF CacheElem
<1>2. CASE Drops(e)
  <2>1. OnCacheEntryDelete(e) = NoElem /\ ~Refreshes(e)
    BY <1>2 DEF OnCacheEntryDelete, Refreshes
  <2>2. w - e.agg = 0
    BY <1>1 DEF KeyInv, Holds
  <2> QED BY <1>1, <1>2, <2>1, <2>2 DEF KeyInv, Waits, Holds
<1>3. CASE ~Drops(e) /\ Refreshes(e)
  <2>1. /\ OnCacheEntryDelete(e) \in CacheElem
        /\ OnCacheEntryDelete(e).inFlight
        /\ OnCacheEntryDelete(e).agg = 0
    BY <1>3 DEF OnCacheEntryDelete, CacheElem
  <2>2. ~e.inFlight
    BY <1>3 DEF Refreshes
  <2>3. OnCacheEntryDelete(e) # NoElem
    BY <2>1, NoElemIsNoElem
  <2> QED BY <1>1, <1>3, <2>1, <2>2, <2>3 DEF KeyInv, Waits, Holds
<1>4. CASE ~Drops(e) /\ ~Refreshes(e)
  <2>1. /\ OnCacheEntryDelete(e) \in CacheElem
        /\ OnCacheEntryDelete(e).inFlight = e.inFlight
        /\ OnCacheEntryDelete(e).positive = e.positive
        /\ OnCacheEntryDelete(e).agg = e.agg
    BY <1>4 DEF OnCacheEntryDelete, CacheElem
  <2>2. OnCacheEntryDelete(e) # NoElem
    BY <2>1, NoElemIsNoElem
  <2> QED BY <1>1, <1>4, <2>1, <2>2 DEF KeyInv, Waits, Holds
<1> QED BY <1>2, <1>3, <1>4

\* A sweep keeps the invariant of every key.
LEMMA SweepKeepsKeyInv ==
  ASSUME TypeOK, KeysInv, NEW S \in SUBSET Cached(cache), NEW k \in Keys
  PROVE  KeyInv(Remove(S)[k], Buffered(S)[k] + sent[k],
                Orphaned(S)[k], Settled(S)[k])
<1>1. KeyInv(cache[k], buffered[k] + sent[k], orphans[k], owed[k])
  BY DEF KeysInv
<1>2. CASE k \notin S
  BY <1>1, <1>2 DEF Remove, Buffered, Orphaned, Settled
<1>3. CASE k \in S
  <2>1. cache[k] \in CacheElem
    BY <1>3 DEF Cached, TypeOK
  <2>2. /\ buffered[k] \in Nat /\ sent[k] \in Nat
        /\ orphans[k] \in Nat /\ owed[k] \in Int
    BY DEF TypeOK
  <2>3. /\ Remove(S)[k] = OnCacheEntryDelete(cache[k])
        /\ Buffered(S)[k] + sent[k] =
             IF Refreshes(cache[k]) THEN buffered[k] + sent[k] + 1
                                    ELSE buffered[k] + sent[k]
        /\ Orphaned(S)[k] = IF Drops(cache[k]) /\ cache[k].inFlight
                            THEN orphans[k] + 1 ELSE orphans[k]
        /\ Settled(S)[k] = IF Drops(cache[k]) \/ Refreshes(cache[k])
                           THEN owed[k] - cache[k].agg ELSE owed[k]
    BY <1>3, <2>2 DEF Remove, Buffered, Orphaned, Settled
  <2>4. buffered[k] + sent[k] \in Nat
    BY <2>2
  <2> QED BY <1>1, <2>1, <2>2, <2>3, <2>4, DeleteKeepsKeyInv
<1> QED BY <1>2, <1>3

\* Inserting a temporary element keeps the invariant of every key.
LEMMA InsertTemporaryKeepsKeysInv ==
  ASSUME TypeOK, KeysInv, NEW k \in Keys, NEW S \in SUBSET Cached(cache),
         InsertTemporary(k, S), Remove(S)[k] = NoElem
  PROVE  KeysInv'
<1> SUFFICES ASSUME NEW j \in Keys
             PROVE  KeyInv(cache'[j], buffered'[j] + sent'[j],
                           orphans'[j], owed'[j])
  BY DEF KeysInv
<1>1. KeyInv(Remove(S)[j], Buffered(S)[j] + sent[j],
             Orphaned(S)[j], Settled(S)[j])
  BY SweepKeepsKeyInv
<1>2. CASE j # k
  BY <1>1, <1>2, SweepType DEF InsertTemporary
<1>3. CASE j = k
  <2>1. /\ cache'[k] = TemporaryElem
        /\ buffered'[k] = Buffered(S)[k] + 1
        /\ sent'[k] = sent[k]
        /\ orphans'[k] = Orphaned(S)[k]
        /\ owed'[k] = Settled(S)[k]
    BY SweepType DEF InsertTemporary
  <2>2. /\ Buffered(S)[k] \in Nat /\ sent[k] \in Nat
        /\ Orphaned(S)[k] \in Nat
    BY SweepType DEF TypeOK
  <2>3. ~Waits(NoElem) /\ Holds(NoElem) = 0
    BY DEF Waits, Holds
  <2>4. Waits(TemporaryElem) /\ Holds(TemporaryElem) = 0
        /\ TemporaryElem.positive
    BY TemporaryType, NoElemIsNoElem DEF TemporaryElem, Waits, Holds
  <2> QED BY <1>1, <1>3, <2>1, <2>2, <2>3, <2>4 DEF KeyInv
<1> QED BY <1>2, <1>3

\* A sweep that spares the key of a miss leaves it absent.
LEMMA MissStaysAbsent ==
  ASSUME TypeOK, NEW k \in Keys, ~Hit(k), NEW T \in SUBSET Candidates
  PROVE  Remove(Expired(cache) \cup T)[k] = NoElem
<1>1. k \notin Candidates
  BY DEF Hit, Candidates, Cached, Remove
<1> QED BY <1>1 DEF Hit, Remove

\* The changes of one key after a sweep: every other key is as the sweep
\* left it.
LEMMA OneKeyKeepsKeysInv ==
  ASSUME TypeOK, KeysInv, NEW k \in Keys,
         \A j \in Keys \ {k} :
           /\ cache'[j] = Remove(Expired(cache))[j]
           /\ buffered'[j] + sent'[j] = Buffered(Expired(cache))[j] + sent[j]
           /\ orphans'[j] = Orphaned(Expired(cache))[j]
           /\ owed'[j] = Settled(Expired(cache))[j],
         KeyInv(cache'[k], buffered'[k] + sent'[k], orphans'[k], owed'[k])
  PROVE  KeysInv'
BY SweepKeepsKeyInv, SweptAreCached DEF KeysInv

\* Of one signature there is a request for the cached element and for each
\* element dropped while it waited, and no more; a waiting element has one; the
\* granted tokens are held once, and a denied element holds none.
THEOREM QuotaInvariant == Spec => []IInv
<1>1. Init => IInv
  <2> SUFFICES ASSUME Init PROVE TypeOK /\ KeysInv
    BY IInvByKey
  <2>1. \A k \in Keys : /\ cache[k] = NoElem /\ buffered[k] = 0
                        /\ sent[k] = 0 /\ orphans[k] = 0 /\ owed[k] = 0
    BY DEF Init
  <2> QED BY <2>1, InitType DEF KeysInv, KeyInv, Waits, Holds
<1>2. TypeOK /\ TypeOK' /\ IInv /\ [Next]_vars => IInv'
  <2> SUFFICES ASSUME TypeOK, TypeOK', KeysInv, [Next]_vars
               PROVE  KeysInv'
    BY IInvByKey, PTL
  <2> DEFINE E == Expired(cache)
  <2>0. E \in SUBSET Cached(cache)
    BY SweptAreCached
  <2> HIDE DEF E
  <2>1. ASSUME NEW k \in Keys, NEW c \in Costs, QuotaHit(k, c)
        PROVE  KeysInv'
    <3> DEFINE swept == Remove(E)
               granted == IF swept[k].positive THEN c ELSE 0
    <3>1. swept[k] \in CacheElem
      BY <2>0, <2>1, SweepType DEF QuotaHit, Hit, E
    <3>2. granted \in Nat /\ (~swept[k].positive => granted = 0)
      BY BoundsAssumption
    <3>3. cache' = [swept EXCEPT ![k] = [swept[k] EXCEPT !.agg = @ + granted]]
      BY <2>0, <2>1, SweepType DEF QuotaHit, E
    <3>4. KeyInv(swept[k], Buffered(E)[k] + sent[k],
                 Orphaned(E)[k], Settled(E)[k])
      BY <2>0, SweepKeepsKeyInv
    <3>5. /\ buffered' = Buffered(E) /\ sent' = sent
          /\ orphans' = Orphaned(E)
          /\ owed' = [Settled(E) EXCEPT ![k] = @ + granted]
      BY <2>1 DEF QuotaHit, E
    <3> HIDE DEF swept, granted
    <3>6. /\ cache'[k] \in CacheElem
          /\ cache'[k].agg = swept[k].agg + granted
          /\ cache'[k].positive = swept[k].positive
          /\ cache'[k].inFlight = swept[k].inFlight
          /\ owed'[k] = Settled(E)[k] + granted
      BY <2>0, <3>1, <3>2, <3>3, <3>5, SweepType DEF swept, CacheElem
    <3>7. swept[k] # NoElem /\ cache'[k] # NoElem
      BY <3>1, <3>6, NoElemIsNoElem
    <3>8. KeyInv(cache'[k], buffered'[k] + sent'[k], orphans'[k], owed'[k])
      BY <3>1, <3>2, <3>4, <3>5, <3>6, <3>7 DEF KeyInv, Waits, Holds, CacheElem
    <3> QED
      BY <2>0, <3>3, <3>5, <3>8, SweepType, OneKeyKeepsKeysInv DEF E, swept
  <2>2. ASSUME NEW k \in Keys, QuotaMiss(k)
        PROVE  KeysInv'
    <3>1. Remove(Expired(cache) \cup {})[k] = NoElem
      BY <2>2, MissStaysAbsent DEF QuotaMiss
    <3>2. Expired(cache) \cup {} = Expired(cache)
      OBVIOUS
    <3> QED
      BY <2>2, <3>1, <3>2, SweptAreCached, InsertTemporaryKeepsKeysInv
      DEF QuotaMiss
  <2>3. ASSUME NEW k \in Keys, QuotaMissEvict(k)
        PROVE  KeysInv'
    <3>1. PICK v \in Candidates, T \in SUBSET Candidates :
            InsertTemporary(k, Expired(cache) \cup T \cup {v})
      BY <2>3 DEF QuotaMissEvict
    <3>2. T \cup {v} \in SUBSET Candidates
      OBVIOUS
    <3>3. Expired(cache) \cup T \cup {v} = Expired(cache) \cup (T \cup {v})
      OBVIOUS
    <3>4. Remove(Expired(cache) \cup T \cup {v})[k] = NoElem
      BY <2>3, <3>2, <3>3, MissStaysAbsent DEF QuotaMissEvict
    <3>5. Expired(cache) \cup T \cup {v} \in SUBSET Cached(cache)
      BY SweptAreCached
    <3> QED BY <3>1, <3>4, <3>5, InsertTemporaryKeepsKeysInv
  <2>4. ASSUME NEW k \in Keys, QuotaRunaway(k)
        PROVE  KeysInv'
    BY <2>4 DEF QuotaRunaway, KeysInv
  <2>5. ASSUME NEW k \in Keys, FlushOut(k)
        PROVE  KeysInv'
    <3>1. \A j \in Keys : buffered'[j] + sent'[j] = buffered[j] + sent[j]
      BY <2>5 DEF FlushOut, TypeOK
    <3> QED BY <2>5, <3>1 DEF FlushOut, KeysInv
  <2>6. ASSUME NEW k \in Keys, NEW allowed \in BOOLEAN, Answer(k, allowed)
        PROVE  KeysInv'
    <3> DEFINE swept == Remove(E)
    <3>1. KeyInv(swept[k], Buffered(E)[k] + sent[k],
                 Orphaned(E)[k], Settled(E)[k])
      BY <2>0, SweepKeepsKeyInv
    <3>2. /\ sent[k] \in Nat /\ sent[k] > 0
          /\ sent' = [sent EXCEPT ![k] = @ - 1]
          /\ buffered' = Buffered(E) /\ orphans' = Orphaned(E)
      BY <2>6 DEF Answer, TypeOK, E
    <3>3. /\ buffered'[k] + sent'[k] = Buffered(E)[k] + sent[k] - 1
          /\ \A j \in Keys \ {k} : sent'[j] = sent[j]
          /\ Buffered(E)[k] \in Nat /\ Orphaned(E)[k] \in Nat
          /\ Settled(E)[k] \in Int
      BY <2>0, <3>2, SweepType DEF TypeOK
    <3>4. CASE ~Hit(k)
      <4>1. swept[k] = NoElem /\ cache' = swept /\ owed' = Settled(E)
        BY <2>6, <3>4 DEF Answer, Hit, E
      <4>2. KeyInv(cache'[k], buffered'[k] + sent'[k], orphans'[k], owed'[k])
        BY <3>1, <3>2, <3>3, <4>1 DEF KeyInv, Waits, Holds
      <4> QED
        BY <2>0, <3>2, <3>3, <4>1, <4>2, SweepType, OneKeyKeepsKeysInv DEF E
    <3>5. CASE Hit(k)
      <4>1. swept[k] \in CacheElem /\ swept[k] # NoElem
        BY <2>0, <3>5, SweepType DEF Hit, E
      <4>2. /\ cache' = [swept EXCEPT ![k] = AnsweredElem(swept[k], allowed)]
            /\ owed' = IF ~allowed
                       THEN [Settled(E) EXCEPT ![k] = @ - swept[k].agg]
                       ELSE Settled(E)
        BY <2>0, <2>6, <3>5, SweepType DEF Answer, E
      <4>3. /\ AnsweredElem(swept[k], allowed) \in CacheElem
            /\ ~AnsweredElem(swept[k], allowed).inFlight
            /\ AnsweredElem(swept[k], allowed).positive = allowed
            /\ AnsweredElem(swept[k], allowed).agg =
                 IF allowed THEN swept[k].agg ELSE 0
        BY <4>1 DEF AnsweredElem, CacheElem
      <4>4. /\ cache'[k] = AnsweredElem(swept[k], allowed)
            /\ owed'[k] = IF ~allowed THEN Settled(E)[k] - swept[k].agg
                                      ELSE Settled(E)[k]
        BY <2>0, <4>2, SweepType
      <4>5. cache'[k] # NoElem /\ swept[k].agg \in Nat
        BY <4>1, <4>3, <4>4, NoElemIsNoElem DEF CacheElem
      <4>6. KeyInv(cache'[k], buffered'[k] + sent'[k], orphans'[k], owed'[k])
        <5> HIDE DEF swept
        <5> QED BY <3>1, <3>2, <3>3, <4>1, <4>3, <4>4, <4>5
                DEF KeyInv, Waits, Holds
      <4> QED
        BY <2>0, <3>2, <3>3, <4>2, <4>6, SweepType, OneKeyKeepsKeysInv DEF E
    <3> QED BY <3>4, <3>5
  <2>7. CASE Flush
    BY <2>0, <2>7, SweepKeepsKeyInv DEF Flush, KeysInv, E
  <2>8. CASE FlushAll
    <3> SUFFICES ASSUME NEW k \in Keys
                 PROVE  KeyInv(cache'[k], buffered'[k] + sent'[k],
                               orphans'[k], owed'[k])
      BY DEF KeysInv
    <3>1. KeyInv(cache[k], buffered[k] + sent[k], orphans[k], owed[k])
      BY DEF KeysInv
    <3>2. /\ buffered[k] \in Nat /\ sent[k] \in Nat /\ orphans[k] \in Nat
          /\ owed[k] \in Int
          /\ cache[k] # NoElem => cache[k].agg \in Nat
      BY DEF TypeOK, CacheElem
    <3>3. /\ cache'[k] = NoElem
          /\ buffered'[k] = buffered[k] /\ sent'[k] = sent[k]
          /\ orphans'[k] = IF Waits(cache[k]) THEN orphans[k] + 1
                                              ELSE orphans[k]
          /\ owed'[k] = IF cache[k] # NoElem THEN owed[k] - cache[k].agg
                                             ELSE owed[k]
      BY <2>8 DEF FlushAll, Waits
    <3> QED BY <3>1, <3>2, <3>3 DEF KeyInv, Waits, Holds
  <2>9. CASE Tick
    <3> SUFFICES ASSUME NEW k \in Keys
                 PROVE  KeyInv(cache'[k], buffered'[k] + sent'[k],
                               orphans'[k], owed'[k])
      BY DEF KeysInv
    <3>1. KeyInv(cache[k], buffered[k] + sent[k], orphans[k], owed[k])
      BY DEF KeysInv
    <3>2. CASE cache[k] = NoElem
      BY <2>9, <3>1, <3>2 DEF Tick
    <3>3. CASE cache[k] # NoElem
      <4>1. /\ cache'[k].inFlight = cache[k].inFlight
            /\ cache'[k].positive = cache[k].positive
            /\ cache'[k].agg = cache[k].agg
        BY <2>9, <3>3 DEF Tick, TypeOK, CacheElem
      <4>2. cache'[k] # NoElem
        BY <2>9, <3>3, NoElemIsNoElem, TickType DEF Tick, TypeOK
      <4> QED BY <2>9, <3>1, <3>3, <4>1, <4>2 DEF Tick, KeyInv, Waits, Holds
    <3> QED BY <3>2, <3>3
  <2>10. CASE UNCHANGED vars
    BY <2>10 DEF vars, KeysInv
  <2> QED
    BY <2>1, <2>2, <2>3, <2>4, <2>5, <2>6, <2>7, <2>8, <2>9, <2>10
    DEF Next, Quota
<1>3. IInv => TypeOK
  BY DEF IInv
<1> QED BY <1>1, <1>2, <1>3, TypeCorrect, PTL DEF Spec

\* Every request a signature has under way belongs to its cached element or to
\* one that was dropped while it waited.
THEOREM RequestsMatchElements == Spec => []OneRequestPerElement
BY QuotaInvariant, PTL DEF IInv

\* A waiting element has a request under way that can wake it.
THEOREM WaitingIsAwaited == Spec => []InFlightAwaited
BY QuotaInvariant, PTL DEF IInv

\* The granted tokens that are not settled are those the elements hold.
THEOREM LedgerBalances == Spec => []Ledger
BY QuotaInvariant, PTL DEF IInv

\* A denied element holds no tokens.
THEOREM DenialClearsTokens == Spec => []DeniedOwesNothing
BY QuotaInvariant, PTL DEF IInv

-----------------------------------------------------------------------------
(* What a step may do to a denial and to aggregated tokens.                *)

\* A sweep ends a denial only by dropping its element, and takes tokens only
\* by dropping it or by building a request.
LEMMA SweepKeepsPromises ==
  ASSUME TypeOK, NEW S \in SUBSET Cached(cache), NEW k \in Keys,
         ~(inFlushAll \/ cache[k].sinceRefresh >= ExpirationInterval)
  PROVE  /\ Denied(k) => Remove(S)[k] # NoElem /\ ~Remove(S)[k].positive
         /\ \/ Holds(Remove(S)[k]) >= Aggregated(k)
            \/ Buffered(S)[k] > buffered[k]
         /\ cache[k] # NoElem => Remove(S)[k] # NoElem
<1>1. CASE k \notin S
  <2>1. Remove(S)[k] = cache[k]
    BY <1>1 DEF Remove
  <2>2. cache[k] = NoElem \/ cache[k].agg \in Nat
    BY DEF TypeOK, CacheElem
  <2> QED BY <2>1, <2>2 DEF Denied, Holds, Aggregated
<1>2. CASE k \in S
  <2> DEFINE e == cache[k]
  <2>1. e \in CacheElem /\ e # NoElem
    BY <1>2 DEF Cached, TypeOK
  <2>2. Remove(S)[k] = OnCacheEntryDelete(e) /\ ~Drops(e)
    BY <1>2 DEF Remove, Drops, ShouldDrop
  <2>3. /\ OnCacheEntryDelete(e) \in CacheElem
        /\ OnCacheEntryDelete(e).positive = e.positive
        /\ Refreshes(e) \/ OnCacheEntryDelete(e).agg = e.agg
    BY <2>1, <2>2 DEF OnCacheEntryDelete, CacheElem
  <2>4. OnCacheEntryDelete(e) # NoElem
    BY <2>3, NoElemIsNoElem
  <2>5. Refreshes(e) => Buffered(S)[k] > buffered[k]
    BY <1>2 DEF Buffered, TypeOK
  <2>6. OnCacheEntryDelete(e).agg \in Nat
    BY <2>3 DEF CacheElem
  <2> QED
    BY <2>1, <2>2, <2>3, <2>4, <2>5, <2>6 DEF Denied, Holds, Aggregated
<1> QED BY <1>1, <1>2

\* One step, for one key whose element is neither flushed out nor expired and
\* that gets no answer.
PromisesKept(k) ==
  /\ Denied(k) => Denied(k)'
  /\ Aggregated(k)' >= Aggregated(k) \/ buffered'[k] > buffered[k]

\* A step that only sweeps breaks no promise.
LEMMA SweepStep ==
  ASSUME TypeOK, TypeOK', NEW S \in SUBSET Cached(cache), NEW k \in Keys,
         ~(inFlushAll \/ cache[k].sinceRefresh >= ExpirationInterval),
         cache'[k] = Remove(S)[k], buffered'[k] >= Buffered(S)[k]
  PROVE  PromisesKept(k)
<1>1. buffered'[k] \in Nat /\ Buffered(S)[k] \in Nat /\ buffered[k] \in Nat
  BY SweepType DEF TypeOK
<1>2. Aggregated(k)' = Holds(Remove(S)[k])
  BY DEF Aggregated, Holds
<1>3. Denied(k)' <=> Remove(S)[k] # NoElem /\ ~Remove(S)[k].positive
  BY DEF Denied
<1> QED BY <1>1, <1>2, <1>3, SweepKeepsPromises DEF PromisesKept

\* An insertion for a key that missed.
LEMMA InsertStep ==
  ASSUME TypeOK, TypeOK', NEW j \in Keys, NEW k \in Keys,
         NEW T \in SUBSET Candidates, ~Hit(j),
         InsertTemporary(j, Expired(cache) \cup T),
         ~(inFlushAll \/ cache[k].sinceRefresh >= ExpirationInterval)
  PROVE  PromisesKept(k)
<1> DEFINE S == Expired(cache) \cup T
<1>1. S \in SUBSET Cached(cache)
  BY SweptAreCached
<1> HIDE DEF S
<1>2. buffered' = [Buffered(S) EXCEPT ![j] = @ + 1]
      /\ cache' = [Remove(S) EXCEPT ![j] = TemporaryElem]
  BY DEF InsertTemporary, S
<1>3. buffered'[k] >= Buffered(S)[k]
  BY <1>1, <1>2, SweepType
<1>4. CASE j # k
  <2>1. cache'[k] = Remove(S)[k]
    BY <1>1, <1>2, <1>4, SweepType
  <2> QED BY <1>1, <1>3, <2>1, SweepStep
<1>5. CASE j = k
  <2>1. Remove(S)[k] = NoElem
    BY <1>5, MissStaysAbsent DEF S
  <2>2. cache[k] = NoElem
    BY <1>1, <2>1, SweepKeepsPromises
  <2>3. Aggregated(k) = 0 /\ Aggregated(k)' \in Nat /\ ~Denied(k)
    BY <2>2 DEF Aggregated, Denied, TypeOK, CacheElem
  <2> QED BY <2>3 DEF PromisesKept
<1> QED BY <1>4, <1>5

\* No step breaks a promise.
LEMMA NextKeepsPromises ==
  ASSUME TypeOK, TypeOK', [Next]_vars, NEW k \in Keys,
         ~(inFlushAll' \/ cache[k].sinceRefresh >= ExpirationInterval),
         ~(sent'[k] < sent[k])
  PROVE  PromisesKept(k)
<1> DEFINE E == Expired(cache)
<1>0. E \in SUBSET Cached(cache) /\ {} \in SUBSET Candidates
  BY SweptAreCached
<1>1. ~inFlushAll
  BY DEF Next, Quota, QuotaHit, QuotaMiss, QuotaMissEvict, QuotaRunaway,
         InsertTemporary, FlushOut, Answer, Flush, FlushAll, Tick, vars
<1>2. Buffered(E)[k] \in Nat /\ buffered[k] \in Nat /\ sent[k] \in Nat
  BY <1>0, SweepType DEF TypeOK
<1>3. ASSUME cache'[k] = cache[k], buffered'[k] = buffered[k]
      PROVE  PromisesKept(k)
  <2>1. cache[k] = NoElem \/ cache[k].agg \in Nat
    BY DEF TypeOK, CacheElem
  <2> QED BY <1>3, <2>1 DEF PromisesKept, Denied, Aggregated
<1> HIDE DEF E
<1>4. ASSUME NEW j \in Keys, NEW c \in Costs, QuotaHit(j, c)
      PROVE  PromisesKept(k)
  <2> DEFINE granted == IF Remove(E)[j].positive THEN c ELSE 0
  <2>1. Remove(E)[j] \in CacheElem /\ granted \in Nat
    BY <1>0, <1>4, SweepType, BoundsAssumption DEF QuotaHit, Hit, E
  <2>2. cache' = [Remove(E) EXCEPT ![j] = [Remove(E)[j] EXCEPT
                                             !.agg = @ + granted]]
        /\ buffered' = Buffered(E)
    BY <1>0, <1>4, SweepType DEF QuotaHit, E
  <2> HIDE DEF granted
  <2>3. CASE j # k
    <3>1. cache'[k] = Remove(E)[k]
      BY <1>0, <2>2, <2>3, SweepType
    <3> QED BY <1>0, <1>1, <1>2, <2>2, <3>1, SweepStep
  <2>4. CASE j = k
    <3>1. /\ cache'[k] \in CacheElem
          /\ cache'[k].positive = Remove(E)[k].positive
          /\ cache'[k].agg >= Remove(E)[k].agg
          /\ cache'[k].agg \in Nat /\ Remove(E)[k].agg \in Nat
      BY <1>0, <2>1, <2>2, <2>4, SweepType DEF CacheElem
    <3>2. cache'[k] # NoElem /\ Remove(E)[k] # NoElem
      BY <2>1, <2>4, <3>1, NoElemIsNoElem
    <3>3. Denied(k) => ~Remove(E)[k].positive
      BY <1>0, <1>1, SweepKeepsPromises
    <3>4. \/ Holds(Remove(E)[k]) >= Aggregated(k)
          \/ Buffered(E)[k] > buffered[k]
      BY <1>0, <1>1, SweepKeepsPromises
    <3>5. Aggregated(k) \in Nat
      BY DEF Aggregated, TypeOK, CacheElem
    <3>6. /\ Aggregated(k)' = cache'[k].agg
          /\ Holds(Remove(E)[k]) = Remove(E)[k].agg
      BY <3>2 DEF Aggregated, Holds
    <3> QED
      BY <2>2, <3>1, <3>2, <3>3, <3>4, <3>5, <3>6 DEF PromisesKept, Denied
  <2> QED BY <2>3, <2>4
<1>5. ASSUME NEW j \in Keys, QuotaMiss(j)
      PROVE  PromisesKept(k)
  <2>1. InsertTemporary(j, Expired(cache) \cup {}) /\ ~Hit(j)
    BY <1>5 DEF QuotaMiss
  <2> QED BY <1>0, <1>1, <2>1, InsertStep
<1>6. ASSUME NEW j \in Keys, QuotaMissEvict(j)
      PROVE  PromisesKept(k)
  <2>1. PICK v \in Candidates, T \in SUBSET Candidates :
          InsertTemporary(j, Expired(cache) \cup T \cup {v})
    BY <1>6 DEF QuotaMissEvict
  <2>2. /\ T \cup {v} \in SUBSET Candidates
        /\ Expired(cache) \cup T \cup {v} = Expired(cache) \cup (T \cup {v})
    OBVIOUS
  <2>3. InsertTemporary(j, Expired(cache) \cup (T \cup {v})) /\ ~Hit(j)
    BY <1>6, <2>1, <2>2 DEF QuotaMissEvict
  <2> QED BY <1>1, <2>2, <2>3, InsertStep
<1>7. ASSUME NEW j \in Keys, QuotaRunaway(j)
      PROVE  PromisesKept(k)
  BY <1>3, <1>7 DEF QuotaRunaway
<1>8. ASSUME NEW j \in Keys, FlushOut(j)
      PROVE  PromisesKept(k)
  <2>1. CASE j # k
    BY <1>3, <1>8, <2>1 DEF FlushOut, TypeOK
  <2>2. CASE j = k
    <3>1. cache' = cache
      BY <1>8 DEF FlushOut
    <3>2. cache[k] = NoElem \/ cache[k].agg \in Nat
      BY DEF TypeOK, CacheElem
    <3> QED BY <3>1, <3>2 DEF PromisesKept, Denied, Aggregated
  <2> QED BY <2>1, <2>2
<1>9. ASSUME NEW j \in Keys, NEW allowed \in BOOLEAN, Answer(j, allowed)
      PROVE  PromisesKept(k)
  <2>1. j # k
    BY <1>2, <1>9 DEF Answer, TypeOK
  <2>2. cache'[k] = Remove(E)[k] /\ buffered' = Buffered(E)
    BY <1>0, <1>9, <2>1, SweepType DEF Answer, E
  <2> QED BY <1>0, <1>1, <1>2, <2>2, SweepStep
<1>10. CASE Flush
  BY <1>0, <1>1, <1>2, <1>10, SweepStep DEF Flush, E
<1>11. CASE FlushAll
  BY <1>11 DEF FlushAll
<1>12. CASE Tick
  <2>1. CASE cache[k] = NoElem
    BY <1>3, <1>12, <2>1 DEF Tick
  <2>2. CASE cache[k] # NoElem
    <3>1. /\ cache'[k].positive = cache[k].positive
          /\ cache'[k].agg = cache[k].agg
          /\ cache[k].agg \in Nat
      BY <1>12, <2>2 DEF Tick, TypeOK, CacheElem
    <3>2. cache'[k] # NoElem
      BY <1>12, <2>2, NoElemIsNoElem, TickType DEF Tick, TypeOK
    <3> QED BY <2>2, <3>1, <3>2 DEF PromisesKept, Denied, Aggregated
  <2> QED BY <2>1, <2>2
<1>13. CASE UNCHANGED vars
  BY <1>3, <1>13 DEF vars
<1> QED
  BY <1>4, <1>5, <1>6, <1>7, <1>8, <1>9, <1>10, <1>11, <1>12, <1>13
  DEF Next, Quota

\* A denial ends only by an answer for its key, by expiration or by FlushAll().
THEOREM DenialIsKept == Spec => DenialHolds
<1>1. TypeOK /\ TypeOK' /\ [Next]_vars =>
        [\A k \in Keys :
           Denied(k) /\ ~Denied(k)' =>
             \/ sent'[k] < sent[k]
             \/ cache[k].sinceRefresh >= ExpirationInterval
             \/ inFlushAll']_vars
  BY NextKeepsPromises DEF PromisesKept
<1> QED BY <1>1, TypeCorrect, PTL DEF Spec, DenialHolds

\* Aggregated tokens leave an element only by a request, by an answer for its
\* key, by expiration or by FlushAll().
THEOREM TokensAreKept == Spec => TokensNotLost
<1>1. ASSUME TypeOK, TypeOK', NEW k \in Keys
      PROVE  Aggregated(k) \in Nat /\ Aggregated(k)' \in Nat
  BY <1>1 DEF Aggregated, TypeOK, CacheElem
<1>2. TypeOK /\ TypeOK' /\ [Next]_vars =>
        [\A k \in Keys :
           Aggregated(k)' < Aggregated(k) =>
             \/ buffered'[k] > buffered[k]
             \/ sent'[k] < sent[k]
             \/ cache[k].sinceRefresh >= ExpirationInterval
             \/ inFlushAll']_vars
  BY <1>1, NextKeepsPromises DEF PromisesKept
<1> QED BY <1>2, TypeCorrect, PTL DEF Spec, TokensNotLost

-----------------------------------------------------------------------------
(* The size of the cache.                                                  *)

\* A removal adds no entry, and the droppable ones it meets are gone.
LEMMA SweptCached ==
  ASSUME NEW S \in SUBSET Cached(cache)
  PROVE  /\ Cached(Remove(S)) \subseteq Cached(cache)
         /\ \A v \in S : Drops(cache[v]) => v \notin Cached(Remove(S))
BY DEF Cached, Remove, OnCacheEntryDelete

\* A table with no more entries than another one is no larger.
LEMMA FewerCached ==
  ASSUME NEW old, NEW new, Cached(new) \subseteq Cached(old)
  PROVE  /\ IsFiniteSet(Cached(new)) /\ Cardinality(Cached(new)) \in Nat
         /\ Cardinality(Cached(old)) \in Nat
         /\ Cardinality(Cached(new)) <= Cardinality(Cached(old))
<1>1. Cached(old) \subseteq Keys
  BY DEF Cached
<1>2. IsFiniteSet(Cached(old))
  BY <1>1, KeysAssumption, FS_Subset
<1> QED BY <1>2, FS_Subset, FS_CardinalityType

\* One entry more takes one place more.
LEMMA OneMoreCached ==
  ASSUME NEW new, NEW R, IsFiniteSet(R), NEW k,
         Cached(new) \subseteq R \cup {k}, Cardinality(R) < Capacity
  PROVE  Cardinality(Cached(new)) <= Capacity
<1>1. /\ IsFiniteSet(R \cup {k})
      /\ Cardinality(R \cup {k}) <= Cardinality(R) + 1
      /\ Cardinality(R) \in Nat
      /\ Cardinality(R \cup {k}) \in Nat
  BY FS_AddElement, FS_CardinalityType
<1>2. /\ Cardinality(Cached(new)) <= Cardinality(R \cup {k})
      /\ Cardinality(Cached(new)) \in Nat
  BY <1>1, FS_Subset, FS_CardinalityType
<1> QED BY <1>1, <1>2, OptionsAssumption

\* A key that is found after the sweep was cached before it.
LEMMA HitIsCached ==
  ASSUME NEW k \in Keys, Hit(k)
  PROVE  k \in Cached(cache)
BY DEF Hit, Remove, Expired, Cached

\* The cache never holds more elements than num_entries, although an eviction
\* puts back all it may not drop: it ends with an element that is dropped.
THEOREM CacheIsBounded == Spec => []WithinCapacity
<1>1. Init => WithinCapacity
  <2> SUFFICES ASSUME Init PROVE WithinCapacity
    OBVIOUS
  <2>1. Cached(cache) = {}
    BY DEF Init, Cached
  <2> QED BY <2>1, FS_EmptySet, OptionsAssumption DEF WithinCapacity
<1>2. TypeOK /\ WithinCapacity /\ [Next]_vars => WithinCapacity'
  <2> SUFFICES ASSUME TypeOK, WithinCapacity, [Next]_vars PROVE WithinCapacity'
    OBVIOUS
  <2> DEFINE E == Expired(cache)
  <2>0. E \in SUBSET Cached(cache) /\ Cached(Remove(E)) \subseteq Cached(cache)
    BY SweptAreCached, SweptCached
  <2>1. ASSUME Cached(cache') \subseteq Cached(cache)
        PROVE  WithinCapacity'
    <3>1. /\ Cardinality(Cached(cache')) \in Nat
          /\ Cardinality(Cached(cache)) \in Nat
          /\ Cardinality(Cached(cache')) <= Cardinality(Cached(cache))
      BY <2>1, FewerCached
    <3> QED BY <3>1, OptionsAssumption DEF WithinCapacity
  <2>2. ASSUME NEW k \in Keys, NEW c \in Costs, QuotaHit(k, c)
        PROVE  WithinCapacity'
    <3>1. k \in Cached(cache)
      BY <2>2, HitIsCached DEF QuotaHit
    <3>2. Cached(cache') \subseteq Cached(Remove(E)) \cup {k}
      BY <2>2 DEF QuotaHit, Cached, Remove
    <3> QED BY <2>0, <2>1, <3>1, <3>2
  <2>3. ASSUME NEW k \in Keys, NEW S, InsertTemporary(k, S)
        PROVE  Cached(cache') \subseteq Cached(Remove(S)) \cup {k}
    BY <2>3 DEF InsertTemporary, Cached, Remove
  <2>4. ASSUME NEW k \in Keys, QuotaMiss(k)
        PROVE  WithinCapacity'
    <3>1. IsFiniteSet(Cached(Remove(E)))
      BY <2>0, FewerCached
    <3> QED BY <2>3, <2>4, <3>1, OneMoreCached DEF QuotaMiss, Room, WithinCapacity
  <2>5. ASSUME NEW k \in Keys, QuotaMissEvict(k)
        PROVE  WithinCapacity'
    <3>1. PICK v \in Candidates, T \in SUBSET Candidates :
            Drops(cache[v]) /\ InsertTemporary(k, E \cup T \cup {v})
      BY <2>5 DEF QuotaMissEvict
    <3> DEFINE S == E \cup T \cup {v}
    <3>2. S \in SUBSET Cached(cache) /\ v \in S /\ v \in Cached(cache)
      BY <2>0, <3>1 DEF Candidates
    <3>3. Cached(Remove(S)) \subseteq Cached(cache) \ {v}
      BY <3>1, <3>2, SweptCached
    <3>4. Cached(cache') \subseteq (Cached(cache) \ {v}) \cup {k}
      BY <2>3, <3>1, <3>3
    <3>5. /\ IsFiniteSet(Cached(cache)) /\ Cardinality(Cached(cache)) \in Nat
          /\ Cardinality(Cached(cache)) <= Capacity
      BY FewerCached DEF WithinCapacity
    <3>6. /\ IsFiniteSet(Cached(cache) \ {v})
          /\ Cardinality(Cached(cache) \ {v}) = Cardinality(Cached(cache)) - 1
      BY <3>2, <3>5, FS_RemoveElement
    <3>7. Cardinality(Cached(cache) \ {v}) < Capacity
      BY <3>5, <3>6, OptionsAssumption
    <3> QED BY <3>4, <3>6, <3>7, OneMoreCached DEF WithinCapacity
  <2>6. ASSUME NEW k \in Keys, NEW allowed \in BOOLEAN, Answer(k, allowed)
        PROVE  WithinCapacity'
    <3>1. CASE Hit(k)
      <4>1. k \in Cached(cache)
        BY <3>1, HitIsCached
      <4>2. Cached(cache') \subseteq Cached(Remove(E)) \cup {k}
        BY <2>6, <3>1 DEF Answer, Cached, Remove
      <4> QED BY <2>0, <2>1, <4>1, <4>2
    <3>2. CASE ~Hit(k)
      BY <2>0, <2>1, <2>6, <3>2 DEF Answer
    <3> QED BY <3>1, <3>2
  <2>7. CASE Flush
    BY <2>0, <2>1, <2>7 DEF Flush
  <2>8. CASE FlushAll
    <3>1. Cached(cache') \subseteq Cached(cache)
      BY <2>8 DEF FlushAll, Cached
    <3> QED BY <2>1, <3>1
  <2>9. CASE Tick
    <3>1. Cached(cache') \subseteq Cached(cache)
      BY <2>9 DEF Tick, Cached
    <3> QED BY <2>1, <3>1
  <2>10. CASE UNCHANGED cache
    BY <2>10 DEF WithinCapacity, Cached
  <2> QED
    BY <2>2, <2>4, <2>5, <2>6, <2>7, <2>8, <2>9, <2>10
    DEF Next, Quota, QuotaRunaway, FlushOut, vars
<1> QED BY <1>1, <1>2, TypeCorrect, PTL DEF Spec
=============================================================================
