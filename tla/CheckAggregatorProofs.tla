----------------------- MODULE CheckAggregatorProofs -----------------------
(***************************************************************************)
(* Proofs about CheckAggregator, for every cache size, interval, set of    *)
(* operations and finite set of keys.                                      *)
(*                                                                         *)
(* Every operation removes a set of entries from the table and then        *)
(* changes at most the entry of the key it was called for.  The lemmas     *)
(* follow one key through the removal.                                     *)
(***************************************************************************)
EXTENDS CheckAggregator, FiniteSetTheorems, TLAPS

\* NoElem is not the value of a cached element.
LEMMA NoElemIsNoElem == NoElem \notin CacheElem
BY KeysAssumption DEF CacheElem

\* The sets an operation removes hold cached keys only.
LEMMA SweptAreCached ==
  /\ Expired(cache) \in SUBSET Cached(cache)
  /\ Cached(cache) \in SUBSET Cached(cache)
  /\ Victims \in SUBSET Cached(cache)
BY DEF Expired, Victims, Swept, Remove, Cached

\* The types of what a removal leaves behind.
LEMMA SweepType ==
  ASSUME TypeOK, NEW S \in SUBSET Cached(cache)
  PROVE  /\ Remove(S) \in [Keys -> CacheElem \cup {NoElem}]
         /\ Buffered(S) \in [Keys -> Nat]
         /\ Settled(S) \in [Keys -> SUBSET Operations]
BY DEF TypeOK, Remove, Buffered, Settled

\* A cached element survives its use, a renewal and a new verdict.
LEMMA ElemType ==
  ASSUME NEW e \in CacheElem, NEW pass \in BOOLEAN, NEW A \in SUBSET Operations
  PROVE  /\ [Touched(e) EXCEPT !.agg = A] \in CacheElem
         /\ [Refreshing(e) EXCEPT !.agg = A] \in CacheElem
         /\ AnsweredElem(e, pass) \in CacheElem
         /\ NewElem(pass) \in CacheElem
BY DEF Touched, Refreshing, AnsweredElem, NewElem, CacheElem

\* What a check merges is an operation or nothing.
LEMMA MergedType ==
  ASSUME NEW e \in CacheElem, NEW o \in Operations
  PROVE  /\ Merged(e, o) \in SUBSET Operations
         /\ e.agg \cup Merged(e, o) \in SUBSET Operations
BY DEF Merged, CacheElem

\* An element that grows older is an element.
LEMMA TickType ==
  ASSUME NEW e \in CacheElem
  PROVE  [e EXCEPT !.idle = Older(@, Expiration + 1),
                   !.sinceCheck = Older(@, FlushInterval),
                   !.sinceAnswer = Older(@, Expiration + 1)] \in CacheElem
<1>1. \A age, limit \in Nat : Older(age, limit) \in Nat
  BY DEF Older
<1>2. e.idle \in Nat /\ e.sinceCheck \in Nat /\ e.sinceAnswer \in Nat
  BY DEF CacheElem
<1>3. Expiration + 1 \in Nat /\ FlushInterval \in Nat
  BY OptionsAssumption
<1>4. /\ Older(e.idle, Expiration + 1) \in Nat
      /\ Older(e.sinceCheck, FlushInterval) \in Nat
      /\ Older(e.sinceAnswer, Expiration + 1) \in Nat
  BY <1>1, <1>2, <1>3
<1> QED BY <1>4 DEF CacheElem

\* A call that returns leaves the counts of calls what they are.
LEMMA CallReturnsType ==
  ASSUME TypeOK, NEW k \in Keys, CallReturns(k)
  PROVE  misses' \in [Keys -> Nat] /\ refreshes' \in [Keys -> Nat]
<1>1. CASE misses[k] > 0 /\ misses' = [misses EXCEPT ![k] = @ - 1]
           /\ UNCHANGED refreshes
  BY <1>1 DEF TypeOK
<1>2. CASE refreshes[k] > 0 /\ refreshes' = [refreshes EXCEPT ![k] = @ - 1]
           /\ UNCHANGED misses
  BY <1>2 DEF TypeOK
<1> QED BY <1>1, <1>2 DEF CallReturns

-----------------------------------------------------------------------------
(* One key through a step.                                                 *)

\* A step is a removal of S followed by a change of the entry of k, to which
\* the operations of M are added.
SweepThenChange(S, k, M) ==
  /\ S \in SUBSET Cached(cache)
  /\ cache' \in [Keys -> CacheElem \cup {NoElem}]
  /\ \A j \in Keys \ {k} : cache'[j] = Remove(S)[j]
  /\ buffered' = Buffered(S)
  /\ owed' = [Settled(S) EXCEPT ![k] = @ \cup M]

\* A check that is answered from the cache, ...
LEMMA CheckHitChanges ==
  ASSUME TypeOK, NEW k \in Keys, NEW o \in Operations, CheckHit(k, o)
  PROVE  /\ Swept[k] \in CacheElem
         /\ Merged(Swept[k], o) \in SUBSET Operations
         /\ SweepThenChange(Expired(cache), k, Merged(Swept[k], o))
         /\ cache'[k] = [Touched(Swept[k]) EXCEPT
                           !.agg = @ \cup Merged(Swept[k], o)]
         /\ cache'[k] \in CacheElem
<1>1. /\ Swept \in [Keys -> CacheElem \cup {NoElem}]
      /\ Settled(Expired(cache)) \in [Keys -> SUBSET Operations]
  BY SweptAreCached, SweepType DEF Swept
<1>2. Swept[k] \in CacheElem
  BY <1>1 DEF CheckHit, Hit
<1>3. Merged(Swept[k], o) \in SUBSET Operations
  BY <1>2, MergedType
<1>4. Touched(Swept[k]).agg \cup Merged(Swept[k], o) \in SUBSET Operations
  BY <1>2, MergedType DEF Touched, CacheElem
<1> DEFINE new == [Touched(Swept[k]) EXCEPT !.agg = @ \cup Merged(Swept[k], o)]
<1>5. new \in CacheElem
  BY <1>2, <1>4, ElemType
<1>6. cache' = [Swept EXCEPT ![k] = new]
  BY <1>1 DEF CheckHit
<1> HIDE DEF new
<1>7. /\ cache' \in [Keys -> CacheElem \cup {NoElem}]
      /\ cache'[k] = new
      /\ \A j \in Keys \ {k} : cache'[j] = Swept[j]
  BY <1>1, <1>5, <1>6
<1> QED
  BY <1>2, <1>3, <1>5, <1>7, SweptAreCached
  DEF SweepThenChange, CheckHit, MergeInto, Swept, new

\* ... and one that renews the verdict.
LEMMA CheckRefreshChanges ==
  ASSUME TypeOK, NEW k \in Keys, NEW o \in Operations, CheckRefresh(k, o)
  PROVE  /\ Swept[k] \in CacheElem
         /\ Merged(Swept[k], o) \in SUBSET Operations
         /\ SweepThenChange(Expired(cache), k, Merged(Swept[k], o))
         /\ cache'[k] = [Refreshing(Swept[k]) EXCEPT
                           !.agg = @ \cup Merged(Swept[k], o)]
         /\ cache'[k] \in CacheElem
<1>1. /\ Swept \in [Keys -> CacheElem \cup {NoElem}]
      /\ Settled(Expired(cache)) \in [Keys -> SUBSET Operations]
  BY SweptAreCached, SweepType DEF Swept
<1>2. Swept[k] \in CacheElem
  BY <1>1 DEF CheckRefresh, Hit
<1>3. Merged(Swept[k], o) \in SUBSET Operations
  BY <1>2, MergedType
<1>4. Refreshing(Swept[k]).agg \cup Merged(Swept[k], o) \in SUBSET Operations
  BY <1>2, MergedType DEF Refreshing, Touched, CacheElem
<1> DEFINE new == [Refreshing(Swept[k]) EXCEPT !.agg = @ \cup Merged(Swept[k], o)]
<1>5. new \in CacheElem
  BY <1>2, <1>4, ElemType
<1>6. cache' = [Swept EXCEPT ![k] = new]
  BY <1>1 DEF CheckRefresh
<1> HIDE DEF new
<1>7. /\ cache' \in [Keys -> CacheElem \cup {NoElem}]
      /\ cache'[k] = new
      /\ \A j \in Keys \ {k} : cache'[j] = Swept[j]
  BY <1>1, <1>5, <1>6
<1> QED
  BY <1>2, <1>3, <1>5, <1>7, SweptAreCached
  DEF SweepThenChange, CheckRefresh, MergeInto, Swept, new

\* An answer for a cached key, ...
LEMMA AnswerHitChanges ==
  ASSUME TypeOK, NEW k \in Keys, NEW pass \in BOOLEAN, AnswerHit(k, pass)
  PROVE  /\ Swept[k] \in CacheElem
         /\ SweepThenChange(Expired(cache), k, {})
         /\ cache'[k] = AnsweredElem(Swept[k], pass)
         /\ cache'[k] \in CacheElem
<1>1. /\ Swept \in [Keys -> CacheElem \cup {NoElem}]
      /\ Settled(Expired(cache)) \in [Keys -> SUBSET Operations]
  BY SweptAreCached, SweepType DEF Swept
<1>2. Swept[k] \in CacheElem
  BY <1>1 DEF AnswerHit, Hit
<1>3. AnsweredElem(Swept[k], pass) \in CacheElem
  BY <1>2, ElemType
<1>4. owed' = [Settled(Expired(cache)) EXCEPT ![k] = @ \cup {}]
  BY <1>1 DEF AnswerHit
<1> QED
  BY <1>1, <1>2, <1>3, <1>4, SweptAreCached
  DEF SweepThenChange, AnswerHit, Swept

\* ... and for one that is not.
LEMMA InsertAnswerChanges ==
  ASSUME TypeOK, NEW k \in Keys, NEW pass \in BOOLEAN,
         NEW S \in SUBSET Cached(cache), InsertAnswer(k, pass, S)
  PROVE  /\ SweepThenChange(S, k, {})
         /\ cache'[k] = NewElem(pass)
         /\ cache'[k] \in CacheElem
<1>1. /\ Remove(S) \in [Keys -> CacheElem \cup {NoElem}]
      /\ Settled(S) \in [Keys -> SUBSET Operations]
  BY SweepType
<1>2. NewElem(pass) \in CacheElem
  BY DEF NewElem, CacheElem
<1>3. owed' = [Settled(S) EXCEPT ![k] = @ \cup {}]
  BY <1>1 DEF InsertAnswer
<1> QED BY <1>1, <1>2, <1>3 DEF SweepThenChange, InsertAnswer

\* The sets AnswerMiss() removes hold cached keys, and its key is not left.
LEMMA AnswerMissSets ==
  ASSUME TypeOK, NEW k \in Keys, NEW pass \in BOOLEAN, AnswerMiss(k, pass)
  PROVE  \E S \in SUBSET Cached(cache) :
           /\ InsertAnswer(k, pass, S)
           /\ Remove(S)[k] = NoElem
           /\ \/ S = Expired(cache) /\ Room
              \/ \E v \in Victims : S = Expired(cache) \cup {v} /\ ~Room
<1>1. CASE Room /\ InsertAnswer(k, pass, Expired(cache))
  BY <1>1, SweptAreCached DEF AnswerMiss, Hit, Swept
<1>2. CASE ~Room /\ \E v \in Victims :
                      InsertAnswer(k, pass, Expired(cache) \cup {v})
  <2>1. PICK v \in Victims : InsertAnswer(k, pass, Expired(cache) \cup {v})
    BY <1>2
  <2> DEFINE S == Expired(cache) \cup {v}
  <2>2. S \in SUBSET Cached(cache)
    BY SweptAreCached
  <2>3. Remove(S)[k] = NoElem
    BY DEF AnswerMiss, Hit, Swept, Remove
  <2> QED BY <1>2, <2>1, <2>2, <2>3
<1> QED BY <1>1, <1>2 DEF AnswerMiss

-----------------------------------------------------------------------------
(* Type correctness.                                                       *)

LEMMA ChangeType ==
  ASSUME TypeOK, NEW k \in Keys, NEW S, NEW M \in SUBSET Operations,
         SweepThenChange(S, k, M)
  PROVE  /\ cache' \in [Keys -> CacheElem \cup {NoElem}]
         /\ buffered' \in [Keys -> Nat]
         /\ owed' \in [Keys -> SUBSET Operations]
BY SweepType DEF SweepThenChange

\* The types of all variables are kept by every check, by every answer, by the
\* flushes and by the clock.
THEOREM TypeCorrect == Spec => []TypeOK
<1>1. Init => TypeOK
  <2> SUFFICES ASSUME Init PROVE TypeOK
    OBVIOUS
  <2>1. FlushInterval \in Nat
    BY OptionsAssumption
  <2> QED BY <2>1 DEF Init, TypeOK
<1>2. TypeOK /\ [Next]_vars => TypeOK'
  <2> SUFFICES ASSUME TypeOK, [Next]_vars PROVE TypeOK'
    OBVIOUS
  <2>1. ASSUME NEW k \in Keys, CheckImportant(k)
        PROVE  TypeOK'
    BY <2>1 DEF CheckImportant, TypeOK
  <2>2. ASSUME NEW k \in Keys, CheckMiss(k)
        PROVE  TypeOK'
    BY <2>2, SweptAreCached, SweepType DEF CheckMiss, Swept, TypeOK
  <2>3. ASSUME NEW k \in Keys, NEW o \in Operations, CheckHit(k, o)
        PROVE  TypeOK'
    <3>1. /\ cache' \in [Keys -> CacheElem \cup {NoElem}]
          /\ buffered' \in [Keys -> Nat]
          /\ owed' \in [Keys -> SUBSET Operations]
      BY <2>3, CheckHitChanges, ChangeType
    <3> QED BY <2>3, <3>1 DEF CheckHit, TypeOK
  <2>4. ASSUME NEW k \in Keys, NEW o \in Operations, CheckRefresh(k, o)
        PROVE  TypeOK'
    <3>1. /\ cache' \in [Keys -> CacheElem \cup {NoElem}]
          /\ buffered' \in [Keys -> Nat]
          /\ owed' \in [Keys -> SUBSET Operations]
      BY <2>4, CheckRefreshChanges, ChangeType
    <3> QED BY <2>4, <3>1 DEF CheckRefresh, TypeOK
  <2>5. ASSUME NEW k \in Keys, CallFails(k)
        PROVE  TypeOK'
    BY <2>5, CallReturnsType DEF CallFails, TypeOK
  <2>6. ASSUME NEW k \in Keys, NEW pass \in BOOLEAN, AnswerHit(k, pass)
        PROVE  TypeOK'
    <3>1. /\ cache' \in [Keys -> CacheElem \cup {NoElem}]
          /\ buffered' \in [Keys -> Nat]
          /\ owed' \in [Keys -> SUBSET Operations]
      BY <2>6, AnswerHitChanges, ChangeType
    <3> QED BY <2>6, <3>1, CallReturnsType DEF AnswerHit, TypeOK
  <2>7. ASSUME NEW k \in Keys, NEW pass \in BOOLEAN, AnswerMiss(k, pass)
        PROVE  TypeOK'
    <3>1. PICK S \in SUBSET Cached(cache) : InsertAnswer(k, pass, S)
      BY <2>7, AnswerMissSets
    <3>2. /\ cache' \in [Keys -> CacheElem \cup {NoElem}]
          /\ buffered' \in [Keys -> Nat]
          /\ owed' \in [Keys -> SUBSET Operations]
      BY <3>1, InsertAnswerChanges, ChangeType
    <3> QED BY <2>7, <3>1, <3>2, CallReturnsType DEF AnswerMiss, InsertAnswer, TypeOK
  <2>8. ASSUME NEW k \in Keys, FlushOut(k)
        PROVE  TypeOK'
    BY <2>8 DEF FlushOut, TypeOK
  <2>9. CASE Flush
    BY <2>9, SweptAreCached, SweepType DEF Flush, Swept, TypeOK
  <2>10. CASE FlushAll
    <3>1. Remove(Keys) \in [Keys -> CacheElem \cup {NoElem}]
      BY DEF Remove
    <3> QED BY <2>10, <3>1, SweptAreCached, SweepType DEF FlushAll, TypeOK
  <2>11. CASE Tick
    <3>1. cache' \in [Keys -> CacheElem \cup {NoElem}]
      BY <2>11, TickType DEF Tick, TypeOK
    <3>2. \A age \in Nat : Older(age, FlushInterval) \in Nat
      BY DEF Older
    <3>3. sinceRefresh' \in [Keys -> Nat]
      BY <2>11, <3>2 DEF Tick, TypeOK
    <3> QED BY <2>11, <3>1, <3>3 DEF Tick, TypeOK
  <2>12. CASE UNCHANGED vars
    BY <2>12 DEF vars, TypeOK
  <2> QED
    BY <2>1, <2>2, <2>3, <2>4, <2>5, <2>6, <2>7, <2>8, <2>9, <2>10, <2>11,
       <2>12
    DEF Next, Check, Answer
<1> QED BY <1>1, <1>2, PTL DEF Spec

-----------------------------------------------------------------------------
(* The ledger and the clock of renewals, for one key: e is its entry in    *)
(* the table, w what it owes and s the age of its last renewal.            *)

Holds(e) == IF e = NoElem THEN {} ELSE e.agg

KeyInv(e, w, s) ==
  /\ w = Holds(e)
  /\ e # NoElem => e.sinceCheck <= s

KeysInv == \A k \in Keys : KeyInv(cache[k], owed[k], sinceRefresh[k])

\* The inductive invariant.  A verdict was asked for no earlier than the key's
\* last renewal: every insertion and every renewal restarts its clock, and a
\* renewal restarts both.
RenewalClock ==
  \A k \in Keys : cache[k] # NoElem => cache[k].sinceCheck <= sinceRefresh[k]

IInv == TypeOK /\ Ledger /\ RenewalClock

\* The invariant speaks of every key by itself.
LEMMA IInvByKey == IInv <=> TypeOK /\ KeysInv
BY DEF IInv, KeysInv, KeyInv, Ledger, RenewalClock, Holds, Aggregated

\* A removal keeps the invariant of every key.
LEMMA SweepKeepsKeyInv ==
  ASSUME TypeOK, KeysInv, NEW S \in SUBSET Cached(cache), NEW k \in Keys
  PROVE  KeyInv(Remove(S)[k], Settled(S)[k], sinceRefresh[k])
<1>1. KeyInv(cache[k], owed[k], sinceRefresh[k])
  BY DEF KeysInv
<1>2. CASE k \notin S
  BY <1>1, <1>2 DEF Remove, Settled
<1>3. CASE k \in S
  <2>1. cache[k] # NoElem
    BY <1>3 DEF Cached
  <2>2. Remove(S)[k] = NoElem /\ Settled(S)[k] = owed[k] \ cache[k].agg
    BY <1>3 DEF Remove, Settled
  <2>3. owed[k] = cache[k].agg
    BY <1>1, <2>1 DEF KeyInv, Holds
  <2> QED BY <2>2, <2>3 DEF KeyInv, Holds
<1> QED BY <1>2, <1>3

\* A step on the entry of k: what is left to show is about k alone.
LEMMA ChangeKeepsKeysInv ==
  ASSUME TypeOK, KeysInv, NEW k \in Keys, NEW S, NEW M \in SUBSET Operations,
         SweepThenChange(S, k, M),
         \A j \in Keys \ {k} : sinceRefresh'[j] = sinceRefresh[j],
         KeyInv(cache'[k], Settled(S)[k] \cup M, sinceRefresh'[k])
  PROVE  KeysInv'
<1> SUFFICES ASSUME NEW j \in Keys
             PROVE  KeyInv(cache'[j], owed'[j], sinceRefresh'[j])
  BY DEF KeysInv
<1>1. S \in SUBSET Cached(cache)
  BY DEF SweepThenChange
<1>2. owed' = [Settled(S) EXCEPT ![k] = @ \cup M]
  BY DEF SweepThenChange
<1>3. Settled(S) \in [Keys -> SUBSET Operations]
  BY <1>1, SweepType
<1>4. CASE j = k
  BY <1>2, <1>3, <1>4
<1>5. CASE j # k
  <2>1. KeyInv(Remove(S)[j], Settled(S)[j], sinceRefresh[j])
    BY <1>1, SweepKeepsKeyInv
  <2>2. cache'[j] = Remove(S)[j]
    BY <1>5 DEF SweepThenChange
  <2>3. owed'[j] = Settled(S)[j]
    BY <1>2, <1>3, <1>5
  <2> QED BY <1>5, <2>1, <2>2, <2>3
<1> QED BY <1>4, <1>5

\* A removal that changes no other entry.
LEMMA SweepKeepsKeysInv ==
  ASSUME TypeOK, KeysInv, NEW S \in SUBSET Cached(cache),
         cache' = Remove(S), owed' = Settled(S), UNCHANGED sinceRefresh
  PROVE  KeysInv'
BY SweepKeepsKeyInv DEF KeysInv

\* What is merged for a key is owed to the server, once, and its verdict is not
\* older than its last renewal allows.
THEOREM CheckInvariant == Spec => []IInv
<1>1. Init => IInv
  <2> SUFFICES ASSUME Init PROVE TypeOK /\ KeysInv
    BY IInvByKey
  <2>1. FlushInterval \in Nat
    BY OptionsAssumption
  <2>2. TypeOK
    BY <2>1 DEF Init, TypeOK
  <2> QED BY <2>2 DEF Init, KeysInv, KeyInv, Holds
<1>2. TypeOK /\ TypeOK' /\ IInv /\ [Next]_vars => IInv'
  <2> SUFFICES ASSUME TypeOK, TypeOK', KeysInv, [Next]_vars
               PROVE  KeysInv'
    BY IInvByKey, PTL
  <2> DEFINE E == Expired(cache)
  <2>0. E \in SUBSET Cached(cache)
    BY SweptAreCached
  <2> HIDE DEF E
  <2>1. ASSUME NEW k \in Keys, CheckImportant(k)
        PROVE  KeysInv'
    BY <2>1 DEF CheckImportant, KeysInv
  <2>2. ASSUME NEW k \in Keys, CheckMiss(k)
        PROVE  KeysInv'
    BY <2>0, <2>2, SweepKeepsKeysInv DEF CheckMiss, Swept, E
  <2>3. ASSUME NEW k \in Keys, NEW o \in Operations, CheckHit(k, o)
        PROVE  KeysInv'
    <3> DEFINE M == Merged(Swept[k], o)
    <3>1. /\ Swept[k] \in CacheElem
          /\ M \in SUBSET Operations
          /\ SweepThenChange(E, k, M)
          /\ cache'[k] = [Touched(Swept[k]) EXCEPT !.agg = @ \cup M]
          /\ cache'[k] \in CacheElem
      BY <2>3, CheckHitChanges DEF E
    <3>2. KeyInv(Swept[k], Settled(E)[k], sinceRefresh[k])
      BY <2>0, SweepKeepsKeyInv DEF Swept, E
    <3> HIDE DEF M
    <3>3. /\ cache'[k].agg = Swept[k].agg \cup M
          /\ cache'[k].sinceCheck = Swept[k].sinceCheck
      BY <3>1 DEF Touched, CacheElem
    <3>4. cache'[k] # NoElem /\ Swept[k] # NoElem
      BY <3>1, NoElemIsNoElem
    <3>5. sinceRefresh' = sinceRefresh
      BY <2>3 DEF CheckHit
    <3>6. KeyInv(cache'[k], Settled(E)[k] \cup M, sinceRefresh'[k])
      BY <3>2, <3>3, <3>4, <3>5 DEF KeyInv, Holds
    <3> QED BY <3>1, <3>5, <3>6, ChangeKeepsKeysInv
  <2>4. ASSUME NEW k \in Keys, NEW o \in Operations, CheckRefresh(k, o)
        PROVE  KeysInv'
    <3> DEFINE M == Merged(Swept[k], o)
    <3>1. /\ Swept[k] \in CacheElem
          /\ M \in SUBSET Operations
          /\ SweepThenChange(E, k, M)
          /\ cache'[k] = [Refreshing(Swept[k]) EXCEPT !.agg = @ \cup M]
          /\ cache'[k] \in CacheElem
      BY <2>4, CheckRefreshChanges DEF E
    <3>2. KeyInv(Swept[k], Settled(E)[k], sinceRefresh[k])
      BY <2>0, SweepKeepsKeyInv DEF Swept, E
    <3> HIDE DEF M
    <3>3. /\ cache'[k].agg = Swept[k].agg \cup M
          /\ cache'[k].sinceCheck = 0
      BY <3>1 DEF Refreshing, Touched, CacheElem
    <3>4. cache'[k] # NoElem /\ Swept[k] # NoElem
      BY <3>1, NoElemIsNoElem
    <3>5. sinceRefresh' = [sinceRefresh EXCEPT ![k] = 0]
      BY <2>4 DEF CheckRefresh
    <3>6. /\ sinceRefresh'[k] = 0
          /\ \A j \in Keys \ {k} : sinceRefresh'[j] = sinceRefresh[j]
      BY <3>5 DEF TypeOK
    <3>7. KeyInv(cache'[k], Settled(E)[k] \cup M, sinceRefresh'[k])
      BY <3>2, <3>3, <3>4, <3>6 DEF KeyInv, Holds
    <3> QED BY <3>1, <3>6, <3>7, ChangeKeepsKeysInv
  <2>5. ASSUME NEW k \in Keys, CallFails(k)
        PROVE  KeysInv'
    BY <2>5 DEF CallFails, KeysInv
  <2>6. ASSUME NEW k \in Keys, NEW pass \in BOOLEAN, AnswerHit(k, pass)
        PROVE  KeysInv'
    <3>1. /\ Swept[k] \in CacheElem
          /\ SweepThenChange(E, k, {})
          /\ cache'[k] = AnsweredElem(Swept[k], pass)
          /\ cache'[k] \in CacheElem
      BY <2>6, AnswerHitChanges DEF E
    <3>2. KeyInv(Swept[k], Settled(E)[k], sinceRefresh[k])
      BY <2>0, SweepKeepsKeyInv DEF Swept, E
    <3>3. cache'[k].agg = Swept[k].agg /\ cache'[k].sinceCheck = 0
      BY <3>1 DEF AnsweredElem, Touched, CacheElem
    <3>4. cache'[k] # NoElem /\ Swept[k] # NoElem
      BY <3>1, NoElemIsNoElem
    <3>5. sinceRefresh' = sinceRefresh /\ sinceRefresh[k] \in Nat
      BY <2>6 DEF AnswerHit, TypeOK
    <3>6. KeyInv(cache'[k], Settled(E)[k] \cup {}, sinceRefresh'[k])
      BY <3>2, <3>3, <3>4, <3>5 DEF KeyInv, Holds
    <3> QED BY <3>1, <3>5, <3>6, ChangeKeepsKeysInv
  <2>7. ASSUME NEW k \in Keys, NEW pass \in BOOLEAN, AnswerMiss(k, pass)
        PROVE  KeysInv'
    <3>1. PICK S \in SUBSET Cached(cache) :
            InsertAnswer(k, pass, S) /\ Remove(S)[k] = NoElem
      BY <2>7, AnswerMissSets
    <3>2. /\ SweepThenChange(S, k, {})
          /\ cache'[k] = NewElem(pass)
          /\ cache'[k] \in CacheElem
      BY <3>1, InsertAnswerChanges
    <3>3. Settled(S)[k] = {}
      BY <3>1, SweepKeepsKeyInv DEF KeyInv, Holds
    <3>4. cache'[k].agg = {} /\ cache'[k].sinceCheck = 0 /\ cache'[k] # NoElem
      BY <3>2, NoElemIsNoElem DEF NewElem
    <3>5. sinceRefresh' = sinceRefresh /\ sinceRefresh[k] \in Nat
      BY <3>1 DEF InsertAnswer, TypeOK
    <3>6. KeyInv(cache'[k], Settled(S)[k] \cup {}, sinceRefresh'[k])
      BY <3>3, <3>4, <3>5 DEF KeyInv, Holds
    <3> QED BY <3>2, <3>5, <3>6, ChangeKeepsKeysInv
  <2>8. ASSUME NEW k \in Keys, FlushOut(k)
        PROVE  KeysInv'
    BY <2>8 DEF FlushOut, KeysInv
  <2>9. CASE Flush
    BY <2>0, <2>9, SweepKeepsKeysInv DEF Flush, Swept, E
  <2>10. CASE FlushAll
    <3>1. Remove(Keys) = Remove(Cached(cache))
      BY DEF Remove, Cached, TypeOK
    <3> QED BY <2>10, <3>1, SweepKeepsKeysInv, SweptAreCached DEF FlushAll
  <2>11. CASE Tick
    <3> SUFFICES ASSUME NEW k \in Keys
                 PROVE  KeyInv(cache'[k], owed'[k], sinceRefresh'[k])
      BY DEF KeysInv
    <3>1. /\ KeyInv(cache[k], owed[k], sinceRefresh[k])
          /\ owed'[k] = owed[k]
          /\ sinceRefresh'[k] = Older(sinceRefresh[k], FlushInterval)
      BY <2>11 DEF KeysInv, Tick
    <3>2. CASE cache[k] = NoElem
      BY <2>11, <3>1, <3>2 DEF Tick, KeyInv, Holds
    <3>3. CASE cache[k] # NoElem
      <4>1. cache[k] \in CacheElem /\ cache[k].sinceCheck \in Nat
        BY <3>3 DEF TypeOK, CacheElem
      <4>2. /\ cache'[k].agg = cache[k].agg
            /\ cache'[k].sinceCheck = Older(cache[k].sinceCheck, FlushInterval)
        BY <2>11, <3>3, <4>1 DEF Tick, CacheElem
      <4>3. cache'[k] # NoElem
        BY <2>11, <3>3, <4>1, TickType, NoElemIsNoElem DEF Tick
      <4>4. Older(cache[k].sinceCheck, FlushInterval)
              <= Older(sinceRefresh[k], FlushInterval)
        BY <3>1, <3>3, <4>1, OptionsAssumption DEF KeyInv, Older, TypeOK
      <4> QED BY <3>1, <3>3, <4>2, <4>3, <4>4 DEF KeyInv, Holds
    <3> QED BY <3>2, <3>3
  <2>12. CASE UNCHANGED vars
    BY <2>12 DEF vars, KeysInv
  <2> QED
    BY <2>1, <2>2, <2>3, <2>4, <2>5, <2>6, <2>7, <2>8, <2>9, <2>10, <2>11,
       <2>12
    DEF Next, Check, Answer
<1> QED BY <1>1, <1>2, TypeCorrect, PTL DEF Spec

\* What is merged for a key and not yet sent is in its cached element.
THEOREM LedgerBalances == Spec => []Ledger
BY CheckInvariant, PTL DEF IInv

-----------------------------------------------------------------------------
(* What a step may do to merged operations and to renewals.                *)

\* A removal takes what was merged for a key only by building a request.
LEMMA SweepSends ==
  ASSUME TypeOK, NEW S \in SUBSET Cached(cache), NEW k \in Keys
  PROVE  /\ Holds(Remove(S)[k]) = Aggregated(k)
              \/ Aggregated(k) = {}
              \/ Buffered(S)[k] > buffered[k]
         /\ Remove(S)[k] # NoElem => Remove(S)[k] = cache[k]
<1>1. CASE k \notin S
  BY <1>1 DEF Remove, Holds, Aggregated
<1>2. CASE k \in S
  <2>1. cache[k] # NoElem /\ buffered[k] \in Nat
    BY <1>2 DEF Cached, TypeOK
  <2>2. cache[k].agg # {} => Buffered(S)[k] > buffered[k]
    BY <1>2, <2>1 DEF Buffered, HasPendingCheckRequest
  <2> QED BY <1>2, <2>1, <2>2 DEF Remove, Aggregated
<1> QED BY <1>1, <1>2

\* A step sends what was merged for k, or keeps it.
SentOrKept(k) ==
  \/ Aggregated(k) \subseteq Aggregated(k)'
  \/ buffered'[k] > buffered[k]

\* A change of the entry of i after a removal: it may add to what is left.
LEMMA ChangeSendsOrKeeps ==
  ASSUME TypeOK, NEW i \in Keys, NEW S, NEW M, SweepThenChange(S, i, M),
         Holds(Remove(S)[i]) \subseteq Holds(cache'[i]), NEW k \in Keys
  PROVE  SentOrKept(k)
<1>1. S \in SUBSET Cached(cache) /\ buffered' = Buffered(S)
  BY DEF SweepThenChange
<1>2. Holds(Remove(S)[k]) \subseteq Holds(cache'[k])
  BY DEF SweepThenChange
<1>3. Aggregated(k)' = Holds(cache'[k])
  BY DEF Aggregated, Holds
<1> QED BY <1>1, <1>2, <1>3, SweepSends DEF SentOrKept

\* A sweep sends what it takes from the cache.
LEMMA SweepSendsOrKeeps ==
  ASSUME TypeOK, NEW S \in SUBSET Cached(cache),
         cache' = Remove(S), buffered' = Buffered(S), NEW k \in Keys
  PROVE  SentOrKept(k)
<1>1. Aggregated(k)' = Holds(Remove(S)[k])
  BY DEF Aggregated, Holds
<1> QED BY <1>1, SweepSends DEF SentOrKept

\* So does every step.
LEMMA NextSendsOrKeeps ==
  ASSUME TypeOK, [Next]_vars, NEW k \in Keys
  PROVE  SentOrKept(k)
<1> DEFINE E == Expired(cache)
<1>0. E \in SUBSET Cached(cache)
  BY SweptAreCached
<1> HIDE DEF E
<1>1. ASSUME cache'[k] = cache[k]
      PROVE  SentOrKept(k)
  BY <1>1 DEF SentOrKept, Aggregated
<1>2. ASSUME NEW i \in Keys, CheckMiss(i)
      PROVE  SentOrKept(k)
  BY <1>0, <1>2, SweepSendsOrKeeps DEF CheckMiss, Swept, E
<1>3. ASSUME NEW i \in Keys, NEW o \in Operations, CheckHit(i, o)
      PROVE  SentOrKept(k)
  <2> DEFINE M == Merged(Swept[i], o)
  <2>1. /\ Swept[i] \in CacheElem
        /\ SweepThenChange(E, i, M)
        /\ cache'[i] = [Touched(Swept[i]) EXCEPT !.agg = @ \cup M]
        /\ cache'[i] \in CacheElem
    BY <1>3, CheckHitChanges DEF E
  <2> HIDE DEF M
  <2>2. cache'[i].agg = Swept[i].agg \cup M
    BY <2>1 DEF Touched, CacheElem
  <2>3. Holds(Remove(E)[i]) \subseteq Holds(cache'[i])
    BY <2>1, <2>2, NoElemIsNoElem DEF Holds, Swept, E
  <2> QED BY <2>1, <2>3, ChangeSendsOrKeeps
<1>4. ASSUME NEW i \in Keys, NEW o \in Operations, CheckRefresh(i, o)
      PROVE  SentOrKept(k)
  <2> DEFINE M == Merged(Swept[i], o)
  <2>1. /\ Swept[i] \in CacheElem
        /\ SweepThenChange(E, i, M)
        /\ cache'[i] = [Refreshing(Swept[i]) EXCEPT !.agg = @ \cup M]
        /\ cache'[i] \in CacheElem
    BY <1>4, CheckRefreshChanges DEF E
  <2> HIDE DEF M
  <2>2. cache'[i].agg = Swept[i].agg \cup M
    BY <2>1 DEF Refreshing, Touched, CacheElem
  <2>3. Holds(Remove(E)[i]) \subseteq Holds(cache'[i])
    BY <2>1, <2>2, NoElemIsNoElem DEF Holds, Swept, E
  <2> QED BY <2>1, <2>3, ChangeSendsOrKeeps
<1>5. ASSUME NEW i \in Keys, NEW pass \in BOOLEAN, AnswerHit(i, pass)
      PROVE  SentOrKept(k)
  <2>1. /\ Swept[i] \in CacheElem
        /\ SweepThenChange(E, i, {})
        /\ cache'[i] = AnsweredElem(Swept[i], pass)
        /\ cache'[i] \in CacheElem
    BY <1>5, AnswerHitChanges DEF E
  <2>2. cache'[i].agg = Swept[i].agg
    BY <2>1 DEF AnsweredElem, Touched, CacheElem
  <2>3. Holds(Remove(E)[i]) \subseteq Holds(cache'[i])
    BY <2>1, <2>2, NoElemIsNoElem DEF Holds, Swept, E
  <2> QED BY <2>1, <2>3, ChangeSendsOrKeeps
<1>6. ASSUME NEW i \in Keys, NEW pass \in BOOLEAN, AnswerMiss(i, pass)
      PROVE  SentOrKept(k)
  <2>1. PICK S \in SUBSET Cached(cache) :
          InsertAnswer(i, pass, S) /\ Remove(S)[i] = NoElem
    BY <1>6, AnswerMissSets
  <2>2. SweepThenChange(S, i, {})
    BY <2>1, InsertAnswerChanges
  <2>3. Holds(Remove(S)[i]) \subseteq Holds(cache'[i])
    BY <2>1 DEF Holds
  <2> QED BY <2>2, <2>3, ChangeSendsOrKeeps
<1>7. CASE Flush
  BY <1>0, <1>7, SweepSendsOrKeeps DEF Flush, Swept, E
<1>8. CASE FlushAll
  <2>1. Remove(Keys) = Remove(Cached(cache))
    BY DEF Remove, Cached, TypeOK
  <2> QED BY <1>8, <2>1, SweepSendsOrKeeps, SweptAreCached DEF FlushAll
<1>9. CASE Tick
  <2>1. CASE cache[k] = NoElem
    BY <1>1, <1>9, <2>1 DEF Tick
  <2>2. CASE cache[k] # NoElem
    <3>1. cache[k] \in CacheElem /\ cache'[k].agg = cache[k].agg
      BY <1>9, <2>2 DEF Tick, TypeOK, CacheElem
    <3>2. cache'[k] # NoElem
      BY <1>9, <2>2, <3>1, TickType, NoElemIsNoElem DEF Tick
    <3> QED BY <2>2, <3>1, <3>2 DEF SentOrKept, Aggregated
  <2> QED BY <2>1, <2>2
<1>10. CASE UNCHANGED vars
  BY <1>1, <1>10 DEF vars
<1> QED
  BY <1>1, <1>2, <1>3, <1>4, <1>5, <1>6, <1>7, <1>8, <1>9, <1>10
  DEF Next, Check, Answer, CheckImportant, CallFails, FlushOut

\* Merged operations leave the cache only in a request.
THEOREM OperationsAreSent == Spec => OperationsNotLost
<1>1. TypeOK /\ [Next]_vars =>
        [\A k \in Keys :
           Aggregated(k) \ Aggregated(k)' # {} => buffered'[k] > buffered[k]]_vars
  BY NextSendsOrKeeps DEF SentOrKept
<1> QED BY <1>1, TypeCorrect, PTL DEF Spec, OperationsNotLost

\* A call that returns is not a renewal.
LEMMA CallReturnsRenewsNothing ==
  ASSUME TypeOK, NEW i \in Keys, CallReturns(i), NEW k \in Keys
  PROVE  ~(refreshes'[k] > refreshes[k])
<1>1. refreshes[k] \in Nat
  BY DEF TypeOK
<1>2. CASE refreshes' = refreshes
  BY <1>1, <1>2
<1>3. CASE refreshes' = [refreshes EXCEPT ![i] = @ - 1]
  BY <1>1, <1>3 DEF TypeOK
<1> QED BY <1>2, <1>3 DEF CallReturns

\* A verdict is renewed at most once per flush interval.
THEOREM RenewalsAreSpaced == Spec => RefreshesSpaced
<1>1. ASSUME IInv, [Next]_vars, NEW k \in Keys, refreshes'[k] > refreshes[k]
      PROVE  sinceRefresh[k] >= FlushInterval
  <2>1. TypeOK /\ KeysInv /\ refreshes[k] \in Nat
    BY <1>1, IInvByKey DEF TypeOK
  <2>2. ~(refreshes' = refreshes)
    BY <1>1, <2>1
  <2>3. ASSUME NEW i \in Keys, NEW o \in Operations, CheckRefresh(i, o)
        PROVE  sinceRefresh[k] >= FlushInterval
    <3>1. i = k
      BY <1>1, <2>1, <2>3 DEF CheckRefresh, TypeOK
    <3>2. Swept[k] \in CacheElem /\ Swept[k].sinceCheck >= FlushInterval
      BY <2>1, <2>3, <3>1, CheckRefreshChanges DEF CheckRefresh, ShouldFlush
    <3>3. Swept[k] = cache[k] /\ cache[k] # NoElem
      BY <2>1, <3>2, SweptAreCached, SweepSends, NoElemIsNoElem DEF Swept
    <3>4. cache[k].sinceCheck <= sinceRefresh[k]
      BY <2>1, <3>3 DEF KeysInv, KeyInv
    <3>5. cache[k].sinceCheck \in Nat /\ sinceRefresh[k] \in Nat
      BY <2>1, <3>2, <3>3 DEF CacheElem, TypeOK
    <3> QED BY <3>2, <3>3, <3>4, <3>5, OptionsAssumption
  <2>4. ASSUME NEW i \in Keys, CallReturns(i)
        PROVE  FALSE
    BY <1>1, <2>1, <2>4, CallReturnsRenewsNothing
  <2> QED
    BY <1>1, <2>2, <2>3, <2>4
    DEF Next, Check, Answer, CheckImportant, CheckMiss, CheckHit, CallFails,
        AnswerHit, AnswerMiss, FlushOut, Flush, FlushAll, Tick, vars
<1>2. IInv /\ [Next]_vars =>
        [\A k \in Keys :
           refreshes'[k] > refreshes[k] => sinceRefresh[k] >= FlushInterval]_vars
  BY <1>1
<1> QED BY <1>2, CheckInvariant, PTL DEF Spec, RefreshesSpaced

-----------------------------------------------------------------------------
(* The size of the cache.                                                  *)

\* A table with no more entries than another one is no larger.
LEMMA FewerCached ==
  ASSUME NEW old, NEW new, Cached(new) \subseteq Cached(old)
  PROVE  /\ IsFiniteSet(Cached(new)) /\ Cardinality(Cached(new)) \in Nat
         /\ Cardinality(Cached(old)) \in Nat
         /\ Cardinality(Cached(new)) <= Cardinality(Cached(old))
<1>1. Cached(old) \subseteq Keys
  BY DEF Cached
<1>2. IsFiniteSet(Cached(old))
  BY <1>1, KeysAssumption, FS_Subset
<1> QED BY <1>2, FS_Subset, FS_CardinalityType

\* One entry more takes one place more.
LEMMA OneMoreCached ==
  ASSUME NEW new, NEW R, IsFiniteSet(R), NEW k,
         Cached(new) \subseteq R \cup {k}, Cardinality(R) < Capacity
  PROVE  Cardinality(Cached(new)) <= Capacity
<1>1. /\ IsFiniteSet(R \cup {k})
      /\ Cardinality(R \cup {k}) <= Cardinality(R) + 1
      /\ Cardinality(R) \in Nat
      /\ Cardinality(R \cup {k}) \in Nat
  BY FS_AddElement, FS_CardinalityType
<1>2. /\ Cardinality(Cached(new)) <= Cardinality(R \cup {k})
      /\ Cardinality(Cached(new)) \in Nat
  BY <1>1, FS_Subset, FS_CardinalityType
<1> QED BY <1>1, <1>2, OptionsAssumption

\* What is left when S is removed.
LEMMA SweptCached ==
  ASSUME NEW S
  PROVE  Cached(Remove(S)) = Cached(cache) \ S
BY DEF Cached, Remove

\* Of an operation that looked a cached key up, or removed entries only.
LEMMA SameKeysCached ==
  ASSUME NEW S, NEW k, NEW M, SweepThenChange(S, k, M), k \in Cached(cache)
  PROVE  Cached(cache') \subseteq Cached(cache)
BY DEF SweepThenChange, Cached, Remove

\* The cache never holds more elements than num_entries: an answer for a key
\* that is not cached evicts another element when there is no room.
THEOREM CacheIsBounded == Spec => []WithinCapacity
<1>1. Init => WithinCapacity
  <2> SUFFICES ASSUME Init PROVE WithinCapacity
    OBVIOUS
  <2>1. Cached(cache) = {}
    BY DEF Init, Cached
  <2> QED BY <2>1, FS_EmptySet, OptionsAssumption DEF WithinCapacity
<1>2. TypeOK /\ WithinCapacity /\ [Next]_vars => WithinCapacity'
  <2> SUFFICES ASSUME TypeOK, WithinCapacity, [Next]_vars PROVE WithinCapacity'
    OBVIOUS
  <2> DEFINE E == Expired(cache)
  <2>0. Swept = Remove(E) /\ Cached(Swept) = Cached(cache) \ E
    BY SweptCached DEF Swept
  <2> HIDE DEF E
  <2>1. ASSUME Cached(cache') \subseteq Cached(cache)
        PROVE  WithinCapacity'
    <3>1. /\ Cardinality(Cached(cache')) \in Nat
          /\ Cardinality(Cached(cache)) \in Nat
          /\ Cardinality(Cached(cache')) <= Cardinality(Cached(cache))
      BY <2>1, FewerCached
    <3> QED BY <3>1, OptionsAssumption DEF WithinCapacity
  <2>2. ASSUME NEW k \in Keys, CheckMiss(k)
        PROVE  WithinCapacity'
    BY <2>0, <2>1, <2>2 DEF CheckMiss
  <2>3. ASSUME NEW k \in Keys, NEW o \in Operations,
               CheckHit(k, o) \/ CheckRefresh(k, o)
        PROVE  WithinCapacity'
    <3>1. k \in Cached(cache)
      BY <2>0, <2>3 DEF CheckHit, CheckRefresh, Hit, Cached, Swept, Remove
    <3>2. SweepThenChange(Expired(cache), k, Merged(Swept[k], o))
      BY <2>3, CheckHitChanges, CheckRefreshChanges
    <3> QED BY <2>1, <3>1, <3>2, SameKeysCached
  <2>4. ASSUME NEW k \in Keys, NEW pass \in BOOLEAN, AnswerHit(k, pass)
        PROVE  WithinCapacity'
    <3>1. k \in Cached(cache)
      BY <2>4 DEF AnswerHit, Hit, Cached, Swept, Remove
    <3> QED BY <2>1, <2>4, <3>1, AnswerHitChanges, SameKeysCached
  <2>5. ASSUME NEW k \in Keys, NEW pass \in BOOLEAN, AnswerMiss(k, pass)
        PROVE  WithinCapacity'
    <3>1. PICK S \in SUBSET Cached(cache) :
            /\ InsertAnswer(k, pass, S)
            /\ \/ S = E /\ Room
               \/ \E v \in Victims : S = E \cup {v} /\ ~Room
      BY <2>5, AnswerMissSets DEF E
    <3>2. Cached(cache') \subseteq Cached(Remove(S)) \cup {k}
      BY <3>1, InsertAnswerChanges DEF SweepThenChange, Cached
    <3>3. Cached(Remove(S)) = Cached(cache) \ S
      BY SweptCached
    <3>4. /\ IsFiniteSet(Cached(Swept))
          /\ Cardinality(Cached(Swept)) \in Nat
          /\ Cardinality(Cached(cache)) \in Nat
          /\ Cardinality(Cached(Swept)) <= Cardinality(Cached(cache))
      BY <2>0, FewerCached
    <3>5. CASE S = E /\ Room
      BY <2>0, <3>2, <3>3, <3>4, <3>5, OneMoreCached DEF Room, WithinCapacity
    <3>6. CASE \E v \in Victims : S = E \cup {v} /\ ~Room
      <4>1. PICK v \in Victims : S = E \cup {v}
        BY <3>6
      <4>2. v \in Cached(Swept)
        BY DEF Victims
      <4>3. Cached(Remove(S)) = Cached(Swept) \ {v}
        BY <2>0, <3>3, <4>1
      <4>4. /\ IsFiniteSet(Cached(Swept) \ {v})
            /\ Cardinality(Cached(Swept) \ {v}) = Cardinality(Cached(Swept)) - 1
        BY <3>4, <4>2, FS_RemoveElement
      <4>5. Cardinality(Cached(Swept) \ {v}) < Capacity
        BY <3>4, <4>4, OptionsAssumption DEF WithinCapacity
      <4> QED BY <3>2, <4>3, <4>4, <4>5, OneMoreCached DEF WithinCapacity
    <3> QED BY <3>1, <3>5, <3>6
  <2>6. CASE Flush
    BY <2>0, <2>1, <2>6 DEF Flush
  <2>7. CASE FlushAll
    BY <2>1, <2>7, SweptCached DEF FlushAll
  <2>8. CASE Tick
    <3>1. Cached(cache') \subseteq Cached(cache)
      BY <2>8 DEF Tick, Cached
    <3> QED BY <2>1, <3>1
  <2>9. CASE UNCHANGED cache
    BY <2>9 DEF WithinCapacity, Cached
  <2> QED
    BY <2>2, <2>3, <2>4, <2>5, <2>6, <2>7, <2>8, <2>9
    DEF Next, Check, Answer, CheckImportant, CallFails, FlushOut, vars
<1> QED BY <1>1, <1>2, TypeCorrect, PTL DEF Spec
=============================================================================
