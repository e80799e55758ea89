-------------------------- MODULE CheckAggregator --------------------------
(***************************************************************************)
(* The check cache: CheckAggregatorImpl (src/check_aggregator_impl.{h,cc}) *)
(* with the half of the client that sends the checks it cannot answer and  *)
(* brings the answers back (ServiceControlClientImpl::Check).              *)
(*                                                                         *)
(* A check is answered by the cached verdict of its signature.  What it    *)
(* carries is merged into the cached element and goes to the server when   *)
(* the element leaves the cache.  The first check after flush_interval_ms  *)
(* is sent to the server itself, to renew the verdict; its answer comes    *)
(* back at any later time, after others, or never.                         *)
(*                                                                         *)
(* Abstractions.  A key stands for a check signature.  An aggregate is the *)
(* set of the operations merged into it, equal ones counted once.  Ages    *)
(* saturate where no comparison of the code tells a larger one apart.      *)
(* is_flushing_ (it only chooses a log line) and quota_scale_ (always 0)   *)
(* are left out, and so are requests that are refused as invalid.          *)
(***************************************************************************)
EXTENDS Integers, FiniteSets

CONSTANTS
  Keys,           \* check signatures
  Operations,     \* operations checks carry, told apart by their content
  NoElem,         \* cache[k] = NoElem: the cache has no entry for k
  Capacity,       \* CheckAggregationOptions::num_entries
  FlushInterval,  \* CheckAggregationOptions::flush_interval_ms, in ticks
  Expiration,     \* CheckAggregationOptions::expiration_ms
  MaxCalls,       \* bound: checks of one key sent and not yet answered
  MaxBuffered     \* bound: flushed requests of one key in stack buffers

VARIABLES
  cache,     \* the LRU table: Keys -> CacheElem or NoElem
  misses,    \* per key, calls sent because no verdict could be used
  refreshes, \* per key, calls sent to renew a cached verdict
  buffered,  \* per key, flushed requests in stack buffers
  owed,      \* history: per key, operations merged into the cache that no
             \* flushed request has taken yet
  sinceRefresh  \* history: per key, age of the last call to renew a verdict

vars == <<cache, misses, refreshes, buffered, owed, sinceRefresh>>

ASSUME KeysAssumption ==
  /\ IsFiniteSet(Keys)
  /\ NoElem \notin [pass : BOOLEAN, agg : SUBSET Operations, idle : Nat,
                    sinceCheck : Nat, sinceAnswer : Nat]

\* The constructor of the options raises expiration_ms above flush_interval_ms.
ASSUME OptionsAssumption ==
  /\ Capacity \in Nat \ {0}
  /\ FlushInterval \in Nat
  /\ Expiration \in Nat
  /\ Expiration > FlushInterval

ASSUME BoundsAssumption ==
  /\ MaxCalls \in Nat
  /\ MaxBuffered \in Nat

-----------------------------------------------------------------------------
(* Cache elements.                                                         *)

\* pass: the cached response has no check_errors; agg: what operation_aggregator_
\* holds (empty when it is null); idle: age of last_use_; sinceCheck: age of
\* last_check_time_; sinceAnswer: history, age of the cached response.
CacheElem ==
  [pass : BOOLEAN, agg : SUBSET Operations, idle : Nat,
   sinceCheck : Nat, sinceAnswer : Nat]

Cached(table) == {k \in Keys : table[k] # NoElem}

\* Entries DiscardIdle() removes: idle for strictly longer than expiration_ms.
Expired(table) == {k \in Cached(table) : table[k].idle > Expiration}

ShouldFlush(e) == e.sinceCheck >= FlushInterval

HasPendingCheckRequest(e) == e.agg # {}

\* OnCacheEntryDelete() deletes the element; what it merged is put in the
\* stack buffer first.  So the entries of S leave the table ...
Remove(S) == [k \in Keys |-> IF k \in S THEN NoElem ELSE cache[k]]

\* ... their operations are in requests ...
Settled(S) ==
  [k \in Keys |-> IF k \in S THEN owed[k] \ cache[k].agg ELSE owed[k]]

\* Mutated form: only a passing element has its operations sent.
BufferedIfPassing(S) ==
  [k \in Keys |->
     IF k \in S /\ HasPendingCheckRequest(cache[k]) /\ cache[k].pass
     THEN buffered[k] + 1 ELSE buffered[k]]

\* ... and the requests in the stack buffer.
Buffered(S) ==
  [k \in Keys |->
     IF k \in S /\ HasPendingCheckRequest(cache[k])
     THEN buffered[k] + 1 ELSE buffered[k]]

-----------------------------------------------------------------------------
Init ==
  /\ cache = [k \in Keys |-> NoElem]
  /\ misses = [k \in Keys |-> 0]
  /\ refreshes = [k \in Keys |-> 0]
  /\ buffered = [k \in Keys |-> 0]
  /\ owed = [k \in Keys |-> {}]
  /\ sinceRefresh = [k \in Keys |-> FlushInterval]

\* A lookup first removes the expired entries.
Swept == Remove(Expired(cache))

Hit(k) == Swept[k] # NoElem

\* Mutated form: the cache may hold one element more.
RoomForOneTooMany == Cardinality(Cached(Swept)) <= Capacity

Room == Cardinality(Cached(Swept)) < Capacity

\* An element that was looked up is released at the head of the LRU list.
Touched(e) == [e EXCEPT !.idle = 0]

\* Check() of an importance other than LOW does not touch the cache, but its
\* answer will.
CheckImportant(k) ==
  /\ misses[k] < MaxCalls
  /\ misses' = [misses EXCEPT ![k] = @ + 1]
  /\ UNCHANGED <<cache, refreshes, buffered, owed, sinceRefresh>>

\* No verdict is cached: the caller gets NOT_FOUND and sends its check.
CheckMiss(k) ==
  /\ ~Hit(k)
  /\ misses[k] < MaxCalls
  /\ misses' = [misses EXCEPT ![k] = @ + 1]
  /\ cache' = Swept
  /\ buffered' = Buffered(Expired(cache))
  /\ owed' = Settled(Expired(cache))
  /\ UNCHANGED <<refreshes, sinceRefresh>>

\* Check() merges the operation o into a passing element, and nothing into a
\* failing one.
Merged(e, o) == IF e.pass THEN {o} ELSE {}

MergeInto(k, o) ==
  /\ Merged(Swept[k], o) # {} => buffered[k] < MaxBuffered
  /\ buffered' = Buffered(Expired(cache))
  /\ owed' = [Settled(Expired(cache)) EXCEPT ![k] = @ \cup Merged(Swept[k], o)]

\* The cached verdict is the answer.
CheckHit(k, o) ==
  /\ Hit(k)
  /\ ~ShouldFlush(Swept[k])
  /\ MergeInto(k, o)
  /\ cache' = [Swept EXCEPT ![k] =
                 [Touched(Swept[k]) EXCEPT !.agg = @ \cup Merged(Swept[k], o)]]
  /\ UNCHANGED <<misses, refreshes, sinceRefresh>>

\* Mutated form: last_check_time_ is not set.
RefreshingAgain(e) == Touched(e)

\* The element while its verdict is renewed: the time of the last check is now,
\* "to block more check requests".
Refreshing(e) == [Touched(e) EXCEPT !.sinceCheck = 0]

\* The first check after the flush interval is sent: the caller gets NOT_FOUND,
\* although its operation was merged.
CheckRefresh(k, o) ==
  /\ Hit(k)
  /\ ShouldFlush(Swept[k])
  /\ refreshes[k] < MaxCalls
  /\ MergeInto(k, o)
  /\ cache' = [Swept EXCEPT ![k] =
                 [Refreshing(Swept[k]) EXCEPT !.agg = @ \cup Merged(Swept[k], o)]]
  /\ refreshes' = [refreshes EXCEPT ![k] = @ + 1]
  /\ sinceRefresh' = [sinceRefresh EXCEPT ![k] = 0]
  /\ UNCHANGED misses

\* on_done of the transport: a call of either kind is over.
CallReturns(k) ==
  \/ /\ misses[k] > 0
     /\ misses' = [misses EXCEPT ![k] = @ - 1]
     /\ UNCHANGED refreshes
  \/ /\ refreshes[k] > 0
     /\ refreshes' = [refreshes EXCEPT ![k] = @ - 1]
     /\ UNCHANGED misses

\* A failed call caches nothing.
CallFails(k) ==
  /\ CallReturns(k)
  /\ UNCHANGED <<cache, buffered, owed, sinceRefresh>>

\* Mutated form: a new verdict forgets what was merged under the old one.
AnsweredElemForgetting(e, pass) ==
  [Touched(e) EXCEPT !.pass = pass, !.agg = {},
                     !.sinceCheck = 0, !.sinceAnswer = 0]

\* CacheResponse() for a cached key: only the verdict changes.
AnsweredElem(e, pass) ==
  [Touched(e) EXCEPT !.pass = pass, !.sinceCheck = 0, !.sinceAnswer = 0]

AnswerHit(k, pass) ==
  /\ Hit(k)
  /\ CallReturns(k)
  /\ cache' = [Swept EXCEPT ![k] = AnsweredElem(@, pass)]
  /\ buffered' = Buffered(Expired(cache))
  /\ owed' = Settled(Expired(cache))
  /\ UNCHANGED sinceRefresh

\* The entries that may be evicted to make room: those idle for longest.
Victims ==
  {v \in Cached(Swept) : \A w \in Cached(Swept) : cache[w].idle <= cache[v].idle}

NewElem(pass) ==
  [pass |-> pass, agg |-> {}, idle |-> 0, sinceCheck |-> 0, sinceAnswer |-> 0]

InsertAnswer(k, pass, S) ==
  /\ cache' = [Remove(S) EXCEPT ![k] = NewElem(pass)]
  /\ buffered' = Buffered(S)
  /\ owed' = Settled(S)
  /\ UNCHANGED sinceRefresh

\* CacheResponse() for a key that is not cached, whether or not it was when the
\* call was sent.
AnswerMiss(k, pass) ==
  /\ ~Hit(k)
  /\ CallReturns(k)
  /\ \/ Room /\ InsertAnswer(k, pass, Expired(cache))
     \/ ~Room /\ \E v \in Victims : InsertAnswer(k, pass, Expired(cache) \cup {v})

\* Mutated form: a request is handed over although there is none.
FlushOutUnguarded(k) ==
  /\ buffered' = [buffered EXCEPT ![k] = @ - 1]
  /\ UNCHANGED <<cache, misses, refreshes, owed, sinceRefresh>>

\* The transport gets a flushed request; CheckFlushCallback() discards the
\* answer, whatever it is.
FlushOut(k) ==
  /\ buffered[k] > 0
  /\ buffered' = [buffered EXCEPT ![k] = @ - 1]
  /\ UNCHANGED <<cache, misses, refreshes, owed, sinceRefresh>>

\* Mutated form: Flush() leaves the expired entries alone.
FlushNothing == UNCHANGED vars

\* Flush(), called by the periodic timer of the client.
Flush ==
  /\ cache' = Swept
  /\ buffered' = Buffered(Expired(cache))
  /\ owed' = Settled(Expired(cache))
  /\ UNCHANGED <<misses, refreshes, sinceRefresh>>

\* FlushAll() empties the cache; every merged operation is in a request.
FlushAll ==
  /\ cache' = Remove(Keys)
  /\ buffered' = Buffered(Cached(cache))
  /\ owed' = Settled(Cached(cache))
  /\ UNCHANGED <<misses, refreshes, sinceRefresh>>

Older(age, limit) == IF age < limit THEN age + 1 ELSE age

\* One tick of SimpleCycleTimer::Now().
Tick ==
  /\ cache' = [k \in Keys |->
       IF cache[k] = NoElem THEN NoElem
       ELSE [cache[k] EXCEPT !.idle = Older(@, Expiration + 1),
                             !.sinceCheck = Older(@, FlushInterval),
                             !.sinceAnswer = Older(@, Expiration + 1)]]
  /\ sinceRefresh' = [k \in Keys |-> Older(sinceRefresh[k], FlushInterval)]
  /\ UNCHANGED <<misses, refreshes, buffered, owed>>

Check(k) ==
  \/ CheckImportant(k)
  \/ CheckMiss(k)
  \/ \E o \in Operations : CheckHit(k, o) \/ CheckRefresh(k, o)

Answer(k) ==
  \/ CallFails(k)
  \/ \E pass \in BOOLEAN : AnswerHit(k, pass) \/ AnswerMiss(k, pass)

Next ==
  \/ \E k \in Keys : Check(k) \/ Answer(k) \/ FlushOut(k)
  \/ Flush
  \/ FlushAll
  \/ Tick

Spec == Init /\ [][Next]_vars

\* The clock advances, the periodic timer calls Flush(), and a thread that
\* leaves an operation empties its stack buffer.
Fairness ==
  /\ WF_vars(Tick)
  /\ WF_vars(Flush)
  /\ \A k \in Keys : WF_vars(FlushOut(k))

FairSpec == Spec /\ Fairness

-----------------------------------------------------------------------------
(* Properties.                                                             *)

Aggregated(k) == IF cache[k] = NoElem THEN {} ELSE cache[k].agg

\* Type invariant of the check cache and of the calls it has under way.
TypeOK ==
  /\ cache \in [Keys -> CacheElem \cup {NoElem}]
  /\ misses \in [Keys -> Nat]
  /\ refreshes \in [Keys -> Nat]
  /\ buffered \in [Keys -> Nat]
  /\ owed \in [Keys -> SUBSET Operations]
  /\ sinceRefresh \in [Keys -> Nat]

\* The ledger of merged operations: what no request has taken yet is in the
\* cache, under the key it was checked for, and nothing else is; a verdict that
\* changes from pass to fail keeps what was merged before.
Ledger == \A k \in Keys : owed[k] = Aggregated(k)

\* The cache keeps no more than num_entries elements, however many answers
\* arrive for keys that are not cached.
WithinCapacity == Cardinality(Cached(cache)) <= Capacity

\* Merged operations leave the cache only in a request: expiration, eviction,
\* a late answer or FlushAll() never drops one.
OperationsNotLost ==
  [][\A k \in Keys :
       Aggregated(k) \ Aggregated(k)' # {} => buffered'[k] > buffered[k]]_vars

\* A verdict is renewed at most once per flush_interval_ms, even when its
\* answers are late or lost and its element was dropped and cached again
\* meanwhile ("there could be up to RPC_time/flush_interval ongoing check
\* requests", check_aggregator_impl.h:188).
RefreshesSpaced ==
  [][\A k \in Keys :
       refreshes'[k] > refreshes[k] => sinceRefresh[k] >= FlushInterval]_vars

Used(k) == cache[k] # NoElem /\ cache'[k] # NoElem /\ cache'[k].idle < cache[k].idle

\* What is merged for a key reaches the server once the key is no longer used:
\* time and again there is nothing of it in the cache, or it is used again.
IdleOperationsFlushed ==
  \A k \in Keys : []<>(Aggregated(k) = {}) \/ []<><<Used(k)>>_vars

\* aggregation_options.h:96 gives the "Maximum milliseconds before aggregated
\* check requests are flushed to the server. The flush is triggered by a check
\* request": where checks trigger requests for a key time and again, what is
\* merged for it is flushed time and again.
OperationsFlushed ==
  \A k \in Keys :
    []<><<refreshes'[k] > refreshes[k]>>_vars => []<>(Aggregated(k) = {})

\* aggregation_options.h:82 promises that response_expiration_ms is "the
\* maximum milliseconds before a cached check response is invalidated": no
\* element a check can still find holds an older one.
VerdictFresh ==
  \A k \in Keys : Hit(k) => cache[k].sinceAnswer <= Expiration
=============================================================================
