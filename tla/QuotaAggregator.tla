-------------------------- MODULE QuotaAggregator --------------------------
(***************************************************************************)
(* The quota cache: QuotaAggregatorImpl (src/quota_aggregator_impl.{h,cc}) *)
(* with the half of the client that carries its requests to the server and *)
(* its answers back (AllocateQuotaFlushCallback).                          *)
(*                                                                         *)
(* A caller of Quota() is answered from the cache at once.  The tokens it  *)
(* was granted are added to the cached element and sent to the server      *)
(* later, in one request, when the element is refreshed.  Every operation  *)
(* runs under cache_mutex_ and is one action here; the requests it removed *)
(* from the cache leave its stack buffer afterwards, one by one, and the   *)
(* server's answers come back in any order or never.                       *)
(*                                                                         *)
(* Abstractions.  A key stands for a request signature (method, consumer,  *)
(* metric names).  The costs of the metrics of a request are one number.   *)
(* Time is counted in ticks and kept as ages that saturate where no        *)
(* comparison of the code can tell a larger one apart.                     *)
(***************************************************************************)
EXTENDS Integers, FiniteSets

CONSTANTS
  Keys,                \* request signatures
  NoElem,              \* cache[k] = NoElem: the cache has no entry for k
  Capacity,            \* QuotaAggregationOptions::num_entries
  RefreshInterval,     \* QuotaAggregationOptions::refresh_interval_ms, in ticks
  ExpirationInterval,  \* QuotaAggregationOptions::expiration_interval_ms
  Costs,               \* tokens one request may ask for
  MaxOwed,             \* bound: tokens of one key granted and not yet settled
  MaxOrphans           \* bound: insertions of a key stop after this many of
                       \* its elements were dropped while waiting for an answer

VARIABLES
  cache,       \* the LRU table: Keys -> CacheElem or NoElem
  inFlushAll,  \* in_flush_all_
  buffered,    \* per key, requests in stack buffers, not yet handed over
  sent,        \* per key, requests handed to the transport, not yet answered
  runaway,     \* an eviction recursed without end: the process is lost
  orphans,     \* history: elements dropped while waiting for an answer
  owed         \* history: tokens granted, not yet requested nor given up

vars == <<cache, inFlushAll, buffered, sent, runaway, orphans, owed>>

ASSUME KeysAssumption ==
  /\ IsFiniteSet(Keys)
  /\ NoElem \notin [positive : BOOLEAN, agg : Nat, inFlight : BOOLEAN,
                    sinceInsert : Nat, sinceRefresh : Nat]

ASSUME OptionsAssumption ==
  /\ Capacity \in Nat \ {0}
  /\ RefreshInterval \in Nat
  /\ ExpirationInterval \in Nat

ASSUME BoundsAssumption ==
  /\ Costs \subseteq Nat \ {0}
  /\ MaxOwed \in Nat
  /\ MaxOrphans \in Nat

-----------------------------------------------------------------------------
(* Cache elements.                                                         *)

\* positive: the cached response has no allocate_errors; agg: tokens held by
\* operation_aggregator_ (0 when it is null: every request costs something);
\* inFlight: in_flight_; sinceInsert: age of the LRU entry (last_use_ in
\* age-based mode); sinceRefresh: age of last_refresh_time_.
CacheElem ==
  [positive : BOOLEAN, agg : Nat, inFlight : BOOLEAN,
   sinceInsert : Nat, sinceRefresh : Nat]

Cached(table) == {k \in Keys : table[k] # NoElem}

\* A request for k that found no element inserts a temporary positive one and
\* sends the request itself, so that nothing is left to aggregate.
TemporaryElem ==
  [positive |-> TRUE, agg |-> 0, inFlight |-> TRUE,
   sinceInsert |-> 0, sinceRefresh |-> 0]

\* Entries DiscardIdle() removes: strictly older than the refresh interval.
Expired(table) ==
  {k \in Cached(table) : table[k].sinceInsert > RefreshInterval}

\* Mutated form: the wrong interval.
ShouldDropEarly(e) == e.sinceRefresh >= RefreshInterval

ShouldDrop(e) == e.sinceRefresh >= ExpirationInterval

\* Mutated form: an element is dropped when it is due for a refresh.
DropsWhenDue(e) == inFlushAll \/ e.sinceInsert > RefreshInterval

\* Mutated form: an element waiting for its answer is never dropped.
DropsAnswered(e) == inFlushAll \/ (ShouldDrop(e) /\ ~e.inFlight)

\* What OnCacheEntryDelete() does with an element that leaves the table:
\* it deletes it, ...
Drops(e) == inFlushAll \/ ShouldDrop(e)

\* Mutated form: an element that still waits for its answer is refreshed again.
RefreshesInFlight(e) == ~Drops(e) /\ (e.agg > 0 \/ ~e.positive)

\* ... or sends the aggregated tokens (or, for a negative element, a
\* CHECK_ONLY probe) and puts it back, or just puts it back.
Refreshes(e) ==
  /\ ~Drops(e)
  /\ ~e.inFlight
  /\ e.agg > 0 \/ ~e.positive

\* Mutated forms: the aggregate is sent but not cleared; a refresh clears the
\* errors of the answer it wants to renew.
OnDeleteKeepingAggregate(e) ==
  IF Drops(e) THEN NoElem
  ELSE IF Refreshes(e)
       THEN [e EXCEPT !.inFlight = TRUE, !.sinceInsert = 0, !.sinceRefresh = 0]
       ELSE [e EXCEPT !.sinceInsert = 0]

OnDeleteClearingErrors(e) ==
  IF Drops(e) THEN NoElem
  ELSE IF Refreshes(e)
       THEN [e EXCEPT !.positive = TRUE, !.inFlight = TRUE, !.agg = 0,
                      !.sinceInsert = 0, !.sinceRefresh = 0]
       ELSE [e EXCEPT !.sinceInsert = 0]

\* The element put back in the table by OnCacheEntryDelete(), or NoElem.
OnCacheEntryDelete(e) ==
  IF Drops(e) THEN NoElem
  ELSE IF Refreshes(e)
       THEN [e EXCEPT !.inFlight = TRUE, !.agg = 0,
                      !.sinceInsert = 0, !.sinceRefresh = 0]
       ELSE [e EXCEPT !.sinceInsert = 0]

\* The table after the entries of S were removed from it, oldest first.  An
\* element that is put back is not looked at again by the same operation: it
\* is then neither expired, nor dropped, nor refreshed.
Remove(S) ==
  [k \in Keys |-> IF k \in S THEN OnCacheEntryDelete(cache[k]) ELSE cache[k]]

\* The requests in stack buffers after those removals.
Buffered(S) ==
  [k \in Keys |->
     IF k \in S /\ Refreshes(cache[k]) THEN buffered[k] + 1 ELSE buffered[k]]

\* History of those removals: a dropped element that was waiting is an orphan,
\* and the tokens of a dropped or refreshed element are settled.
Orphaned(S) ==
  [k \in Keys |->
     IF k \in S /\ Drops(cache[k]) /\ cache[k].inFlight
     THEN orphans[k] + 1 ELSE orphans[k]]

Settled(S) ==
  [k \in Keys |->
     IF k \in S /\ (Drops(cache[k]) \/ Refreshes(cache[k]))
     THEN owed[k] - cache[k].agg ELSE owed[k]]

-----------------------------------------------------------------------------
Init ==
  /\ cache = [k \in Keys |-> NoElem]
  /\ inFlushAll = FALSE
  /\ buffered = [k \in Keys |-> 0]
  /\ sent = [k \in Keys |-> 0]
  /\ runaway = FALSE
  /\ orphans = [k \in Keys |-> 0]
  /\ owed = [k \in Keys |-> 0]

\* A lookup first removes the expired entries, so an operation that looks k up
\* sees k only when its element survived that sweep.
Hit(k) == Remove(Expired(cache))[k] # NoElem

\* Mutated form: the cache may hold one element more.
RoomForOneTooMany == Cardinality(Cached(Remove(Expired(cache)))) <= Capacity

\* No eviction is needed to insert one more element after the sweep.
Room == Cardinality(Cached(Remove(Expired(cache)))) < Capacity

\* Quota() for a cached key: the tokens are added to a positive element, and a
\* negative one refuses them.
QuotaHit(k, c) ==
  LET swept == Remove(Expired(cache))
      granted == IF swept[k].positive THEN c ELSE 0
  IN /\ Hit(k)
     /\ granted > 0 => Settled(Expired(cache))[k] + granted <= MaxOwed
     /\ cache' = [swept EXCEPT ![k].agg = @ + granted]
     /\ owed' = [Settled(Expired(cache)) EXCEPT ![k] = @ + granted]
     /\ buffered' = Buffered(Expired(cache))
     /\ orphans' = Orphaned(Expired(cache))
     /\ UNCHANGED <<inFlushAll, sent, runaway>>

\* A Quota() that missed inserts a temporary element and puts the request in
\* the stack buffer; the entries of S, the expired ones and those the garbage
\* collector met, left the table on the way.
InsertTemporary(k, S) ==
  /\ Orphaned(S)[k] < MaxOrphans
  /\ cache' = [Remove(S) EXCEPT ![k] = TemporaryElem]
  /\ buffered' = [Buffered(S) EXCEPT ![k] = @ + 1]
  /\ owed' = Settled(S)
  /\ orphans' = Orphaned(S)
  /\ UNCHANGED <<inFlushAll, sent, runaway>>

QuotaMiss(k) ==
  /\ ~Hit(k)
  /\ Room
  /\ InsertTemporary(k, Expired(cache))

\* The entries the garbage collector may meet before it drops v: those that
\* are not younger, taking entries of one tick in any order.  None of them is
\* droppable, so each is put back behind a nested garbage collection, and the
\* collection goes on until v makes room.
Candidates == Cached(cache) \ Expired(cache)

MetBefore(v, T) ==
  /\ T \subseteq Candidates \ {v}
  /\ \A k \in T : ~Drops(cache[k])
                  /\ cache[k].sinceInsert >= cache[v].sinceInsert
  /\ \A k \in Candidates \ (T \cup {v}) :
       cache[k].sinceInsert <= cache[v].sinceInsert

QuotaMissEvict(k) ==
  /\ ~Hit(k)
  /\ ~Room
  /\ \E v \in Candidates : \E T \in SUBSET Candidates :
       /\ Drops(cache[v])
       /\ MetBefore(v, T)
       /\ InsertTemporary(k, Expired(cache) \cup T \cup {v})

\* Every element is put back: the last one put back finds the cache overfull
\* when it is released, is removed again, put back again, and so on without end.
QuotaRunaway(k) ==
  /\ ~Hit(k)
  /\ ~Room
  /\ \A v \in Candidates : ~Drops(cache[v])
  /\ runaway' = TRUE
  /\ UNCHANGED <<cache, inFlushAll, buffered, sent, orphans, owed>>

Quota(k) ==
  \/ \E c \in Costs : QuotaHit(k, c)
  \/ QuotaMiss(k)
  \/ QuotaMissEvict(k)
  \/ QuotaRunaway(k)

\* Mutated form: a request is handed over although there is none.
FlushOutUnguarded(k) ==
  /\ buffered' = [buffered EXCEPT ![k] = @ - 1]
  /\ sent' = [sent EXCEPT ![k] = @ + 1]
  /\ UNCHANGED <<cache, inFlushAll, runaway, orphans, owed>>

\* A stack buffer is emptied after the operation unlocked cache_mutex_: the
\* transport gets one of its requests.
FlushOut(k) ==
  /\ buffered[k] > 0
  /\ buffered' = [buffered EXCEPT ![k] = @ - 1]
  /\ sent' = [sent EXCEPT ![k] = @ + 1]
  /\ UNCHANGED <<cache, inFlushAll, runaway, orphans, owed>>

\* Mutated forms: in_flight_ stays set; a denial keeps the aggregate.
AnsweredElemStillInFlight(e, allowed) ==
  [e EXCEPT !.positive = allowed, !.agg = IF allowed THEN @ ELSE 0]

AnsweredElemKeepingTokens(e, allowed) ==
  [e EXCEPT !.inFlight = FALSE, !.positive = allowed]

\* CacheResponse(): the element of the key, if there is one, takes the answer.
AnsweredElem(e, allowed) ==
  [e EXCEPT !.inFlight = FALSE, !.positive = allowed,
            !.agg = IF allowed THEN @ ELSE 0]

\* on_done of the transport.  An error is cached as a positive dummy response
\* (the client fails open), so there are two answers to tell apart.
Answer(k, allowed) ==
  LET swept == Remove(Expired(cache))
      settled == Settled(Expired(cache))
  IN /\ sent[k] > 0
     /\ sent' = [sent EXCEPT ![k] = @ - 1]
     /\ cache' = IF Hit(k)
                 THEN [swept EXCEPT ![k] = AnsweredElem(@, allowed)]
                 ELSE swept
     /\ owed' = IF Hit(k) /\ ~allowed
                THEN [settled EXCEPT ![k] = @ - swept[k].agg]
                ELSE settled
     /\ buffered' = Buffered(Expired(cache))
     /\ orphans' = Orphaned(Expired(cache))
     /\ UNCHANGED <<inFlushAll, runaway>>

\* Mutated form: Flush() leaves the expired entries alone.
FlushNothing == UNCHANGED vars

\* Flush(), called by the periodic timer of the client.
Flush ==
  /\ cache' = Remove(Expired(cache))
  /\ owed' = Settled(Expired(cache))
  /\ buffered' = Buffered(Expired(cache))
  /\ orphans' = Orphaned(Expired(cache))
  /\ UNCHANGED <<inFlushAll, sent, runaway>>

\* FlushAll() deletes every element with what it aggregated; in_flush_all_
\* is never reset, so later elements are deleted when they expire.
FlushAll ==
  /\ inFlushAll' = TRUE
  /\ cache' = [k \in Keys |-> NoElem]
  /\ owed' = [k \in Keys |->
       IF cache[k] # NoElem THEN owed[k] - cache[k].agg ELSE owed[k]]
  /\ orphans' = [k \in Keys |->
       IF cache[k] # NoElem /\ cache[k].inFlight
       THEN orphans[k] + 1 ELSE orphans[k]]
  /\ UNCHANGED <<buffered, sent, runaway>>

\* One tick of SimpleCycleTimer::Now(); the ages saturate where no comparison
\* tells a larger one apart.
Older(age, limit) == IF age < limit THEN age + 1 ELSE age

Tick ==
  /\ cache' = [k \in Keys |->
       IF cache[k] = NoElem THEN NoElem
       ELSE [cache[k] EXCEPT
               !.sinceInsert = Older(@, RefreshInterval + 1),
               !.sinceRefresh = Older(@, ExpirationInterval)]]
  /\ UNCHANGED <<inFlushAll, buffered, sent, runaway, orphans, owed>>

Next ==
  /\ ~runaway
  /\ \/ \E k \in Keys : Quota(k)
     \/ \E k \in Keys : FlushOut(k)
     \/ \E k \in Keys, allowed \in BOOLEAN : Answer(k, allowed)
     \/ Flush
     \/ FlushAll
     \/ Tick

Spec == Init /\ [][Next]_vars

\* The clock advances and the periodic timer calls Flush().  Nothing is assumed
\* of callers, of the transport or of the server.
Fairness == WF_vars(~runaway /\ Tick) /\ WF_vars(~runaway /\ Flush)

FairSpec == Spec /\ Fairness

-----------------------------------------------------------------------------
(* Properties.                                                             *)

InFlight(k) == cache[k] # NoElem /\ cache[k].inFlight

Denied(k) == cache[k] # NoElem /\ ~cache[k].positive

Outstanding(k) == buffered[k] + sent[k]

Aggregated(k) == IF cache[k] = NoElem THEN 0 ELSE cache[k].agg

\* Type invariant of the quota cache and of the requests it has under way.
TypeOK ==
  /\ cache \in [Keys -> CacheElem \cup {NoElem}]
  /\ inFlushAll \in BOOLEAN
  /\ buffered \in [Keys -> Nat]
  /\ sent \in [Keys -> Nat]
  /\ runaway \in BOOLEAN
  /\ orphans \in [Keys -> Nat]
  /\ owed \in [Keys -> Int]

\* in_flight_ keeps the requests of a signature apart: beyond the request the
\* cached element waits for, only elements that were dropped while they waited
\* can have one under way.  A late answer to such an orphan clears in_flight_
\* of its successor, and even then the requests never outnumber this.
OneRequestPerElement ==
  \A k \in Keys :
    Outstanding(k) <= orphans[k] + (IF InFlight(k) THEN 1 ELSE 0)

\* An element marked in_flight_ has a request under way that can still clear
\* the mark: without one it would neither send its tokens nor renew a denial
\* until it expires.
InFlightAwaited == \A k \in Keys : InFlight(k) => Outstanding(k) > 0

\* The ledger of granted tokens: all of them and nothing else is held by the
\* element of their key until they are sent, denied or dropped, so that no
\* token is charged to the server twice and none before it was granted.
Ledger == \A k \in Keys : owed[k] = Aggregated(k)

\* A denied key holds no tokens: what a refresh of it sends is a probe only.
DeniedOwesNothing == \A k \in Keys : Denied(k) => Aggregated(k) = 0

\* The cache never keeps more than num_entries elements, although every
\* element that is evicted may put itself back.
WithinCapacity == Cardinality(Cached(cache)) <= Capacity

\* A denial is not forgotten by a refresh, an eviction or another key's
\* request: it ends by an answer for its key, after expiration_interval_ms
\* without a refresh, or by FlushAll().
DenialHolds ==
  [][\A k \in Keys :
       Denied(k) /\ ~Denied(k)' =>
         \/ sent'[k] < sent[k]
         \/ cache[k].sinceRefresh >= ExpirationInterval
         \/ inFlushAll']_vars

\* Tokens leave an element in a request, or by an answer for its key, or after
\* expiration_interval_ms without a refresh, or by FlushAll(): an eviction or
\* a sweep alone never loses them.
TokensNotLost ==
  [][\A k \in Keys :
       Aggregated(k)' < Aggregated(k) =>
         \/ buffered'[k] > buffered[k]
         \/ sent'[k] < sent[k]
         \/ cache[k].sinceRefresh >= ExpirationInterval
         \/ inFlushAll']_vars

\* Granted tokens do not stay in the cache for ever, even when the server
\* never answers and callers never cease: time and again the element of a key
\* holds none, or a request takes what it holds to the server.
TokensSettle ==
  \A k \in Keys :
    []<>(Aggregated(k) = 0) \/ []<><<buffered'[k] > buffered[k]>>_vars

\* A denied key is asked about again: the timer has a probe under way for it,
\* or the denial ends.
DenialProbed == \A k \in Keys : Denied(k) ~> (Outstanding(k) > 0 \/ ~Denied(k))

\* aggregation_options.h:47 says cache_entries is "the maximum number of cache
\* entries that can be kept": a request for one key more is served by evicting
\* another one.
EvictionEnds == ~runaway
=============================================================================
