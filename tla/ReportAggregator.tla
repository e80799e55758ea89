------------------------- MODULE ReportAggregator -------------------------
(***************************************************************************)
(* The report cache: ReportAggregatorImpl (src/report_aggregator_impl.cc)  *)
(* and the operations it merges (src/operation_aggregator.cc).             *)
(*                                                                         *)
(* A report of operations of low importance is taken apart: each operation *)
(* is merged into the cached one of its signature, or cached itself.  An   *)
(* operation leaves the cache when it is flush_interval_ms old, however    *)
(* much it is used, when it was merged so often that it is too big, or     *)
(* when room is needed; on its way out it shares requests with others that *)
(* left during the same call.                                              *)
(*                                                                         *)
(* A call of Report() handles its operations one by one under cache_mutex_ *)
(* and hands its stack buffer over when it has returned; no other call can *)
(* come in between, but the buffers of finished calls are being emptied.   *)
(*                                                                         *)
(* Abstractions.  A key stands for an operation signature.  An operation   *)
(* is its log entries and the number of reported operations merged in it;  *)
(* metric values and times are left out.  Reports of high importance and   *)
(* invalid ones never reach the cache.                                     *)
(***************************************************************************)
EXTENDS Integers, Sequences, FiniteSets, Bags, SequencesExt

CONSTANTS
  Keys,                \* operation signatures
  NoElem,              \* cache[k] = NoElem: the cache has no entry for k
  Capacity,            \* ReportAggregationOptions::num_entries
  FlushInterval,       \* ReportAggregationOptions::flush_interval_ms, in ticks
  MaxLogEntries,       \* kMaxLogEntries
  MaxOperationsToSend, \* kMaxOperationsToSend
  LogEntries,          \* numbers of log entries a reported operation may have
  MaxReport,           \* bound: operations of one report
  MaxOwed              \* bound: operations of one key not yet sent

VARIABLES
  cache,   \* the LRU table: Keys -> CacheElem or NoElem
  todo,    \* operations the running Report() has yet to add, or <<>>
  buffer,  \* requests in the stack buffer of the running Report()
  outbox,  \* requests in the stack buffers of calls that have returned
  owed     \* history: per key, operations reported and not yet sent

vars == <<cache, todo, buffer, outbox, owed>>

ASSUME KeysAssumption ==
  /\ IsFiniteSet(Keys)
  /\ NoElem \notin [merged : Nat, entries : Nat, age : Nat, lone : BOOLEAN]

ASSUME OptionsAssumption ==
  /\ Capacity \in Nat \ {0}
  /\ FlushInterval \in Nat
  /\ MaxLogEntries \in Nat \ {0}
  /\ MaxOperationsToSend \in Nat \ {0}
  /\ LogEntries \subseteq Nat
  /\ MaxReport \in Nat
  /\ MaxOwed \in Nat

-----------------------------------------------------------------------------
\* merged: reported operations in this one; entries: its log entries; age: time
\* since the entry was inserted; lone: nothing was ever merged into it.
CacheElem == [merged : Nat, entries : Nat, age : Nat, lone : BOOLEAN]

Operation == [key : Keys, entries : LogEntries]

Cached(table) == {k \in Keys : table[k] # NoElem}

\* Entries DiscardIdle() removes: strictly older than the flush interval.
Expired(table) == {k \in Cached(table) : table[k].age > FlushInterval}

\* Mutated form: one log entry late.
TooBigLate(e) == e.entries > MaxLogEntries

TooBig(e) == e.entries >= MaxLogEntries

MergeOperation(e, op) ==
  [e EXCEPT !.merged = @ + 1, !.entries = @ + op.entries, !.lone = FALSE]

NewElem(op) == [merged |-> 1, entries |-> op.entries, age |-> 0, lone |-> TRUE]

\* Mutated forms: the size of a request is not limited; a new request takes the
\* place of one that is full.
AddedUnlimited(requests, sent) ==
  LET last == Len(requests)
  IN IF last > 0 THEN [requests EXCEPT ![last] = Append(@, sent)]
     ELSE <<<<sent>>>>

AddedOverwriting(requests, sent) ==
  LET last == Len(requests)
  IN IF last > 0 /\ Len(requests[last]) + 1 <= MaxOperationsToSend
     THEN [requests EXCEPT ![last] = Append(@, sent)]
     ELSE <<<<sent>>>>

\* StackBuffer::Add() with MergeItem(): the operation joins the last request
\* when that may carry one more.
Added(requests, sent) ==
  LET last == Len(requests)
  IN IF last > 0 /\ Len(requests[last]) + 1 <= MaxOperationsToSend
     THEN [requests EXCEPT ![last] = Append(@, sent)]
     ELSE Append(requests, <<sent>>)

\* What an element of key k is when it leaves the table.
Sending(table, k) == [key |-> k, merged |-> table[k].merged]

\* The requests when the elements of the keys in seq were removed in that order:
\* OnCacheEntryDelete() sends each, whatever it holds.
Flushed(table, seq, requests) ==
  LET after[n \in 0 .. Len(seq)] ==
        IF n = 0 THEN requests ELSE Added(after[n - 1], Sending(table, seq[n]))
  IN after[Len(seq)]

\* Mutated form: entries that were sent stay in the table.
WithoutErasing(table, S) == table

Without(table, S) == [k \in Keys |-> IF k \in S THEN NoElem ELSE table[k]]

\* The orders a sweep may remove the entries of S in: oldest first, those of
\* one tick in any order.
OldestFirst(S) ==
  {seq \in SetToSeqs(S) : \A i, j \in 1 .. Len(seq) :
                            i < j => cache[seq[i]].age >= cache[seq[j]].age}

-----------------------------------------------------------------------------
Init ==
  /\ cache = [k \in Keys |-> NoElem]
  /\ todo = <<>>
  /\ buffer = <<>>
  /\ outbox = EmptyBag
  /\ owed = [k \in Keys |-> 0]

\* Reported operations of key k in a report.
Reported(report, k) == Cardinality({i \in DOMAIN report : report[i].key = k})

\* Report() takes cache_mutex_ and has the operations of its request to add.
Report(report) ==
  /\ todo = <<>>
  /\ report # <<>>
  /\ \A k \in Keys : owed[k] + Reported(report, k) <= MaxOwed
  /\ todo' = report
  /\ owed' = [k \in Keys |-> owed[k] + Reported(report, k)]
  /\ UNCHANGED <<cache, buffer, outbox>>

\* The running Report() is done with one operation and left the table and the
\* stack buffer so; when it was the last one, the buffer is there to be emptied.
Processed(table, requests) ==
  /\ cache' = table
  /\ todo' = Tail(todo)
  /\ IF Len(todo) = 1
     THEN buffer' = <<>> /\ outbox' = outbox (+) ToBag(requests)
     ELSE buffer' = requests /\ UNCHANGED outbox
  /\ UNCHANGED owed

\* The operation is merged into the cached one, which leaves when it is too big.
MergeCached ==
  /\ todo # <<>>
  /\ \E swept \in OldestFirst(Expired(cache)) :
       LET op == Head(todo)
           table == Without(cache, Expired(cache))
           merged == [table EXCEPT ![op.key] = MergeOperation(@, op)]
           requests == Flushed(cache, swept, buffer)
       IN /\ table[op.key] # NoElem
          /\ IF TooBig(merged[op.key])
             THEN Processed(Without(merged, {op.key}),
                            Flushed(merged, <<op.key>>, requests))
             ELSE Processed(merged, requests)

\* Mutated form: the cache may hold one element more.
RoomForOneTooMany(table) == Cardinality(Cached(table)) <= Capacity

Room(table) == Cardinality(Cached(table)) < Capacity

\* The oldest entries; one of them is evicted to make room.
Victims(table) ==
  {v \in Cached(table) : \A k \in Cached(table) : table[k].age <= table[v].age}

\* The operation is cached itself, however big it is.
InsertNew ==
  /\ todo # <<>>
  /\ \E swept \in OldestFirst(Expired(cache)) :
       LET op == Head(todo)
           table == Without(cache, Expired(cache))
           requests == Flushed(cache, swept, buffer)
       IN /\ table[op.key] = NoElem
          /\ \/ /\ Room(table)
                /\ Processed([table EXCEPT ![op.key] = NewElem(op)], requests)
             \/ /\ ~Room(table)
                /\ \E v \in Victims(table) :
                     Processed([Without(table, {v}) EXCEPT ![op.key] = NewElem(op)],
                               Flushed(table, <<v>>, requests))

\* Mutated form: Flush() leaves the expired entries alone.
FlushNothing == UNCHANGED vars

\* Flush(), called by the periodic timer of the client.
Flush ==
  /\ todo = <<>>
  /\ \E swept \in OldestFirst(Expired(cache)) :
       outbox' = outbox (+) ToBag(Flushed(cache, swept, <<>>))
  /\ cache' = Without(cache, Expired(cache))
  /\ UNCHANGED <<todo, buffer, owed>>

\* FlushAll() walks the hash table, in any order.
FlushAll ==
  /\ todo = <<>>
  /\ \E swept \in SetToSeqs(Cached(cache)) :
       outbox' = outbox (+) ToBag(Flushed(cache, swept, <<>>))
  /\ cache' = Without(cache, Keys)
  /\ UNCHANGED <<todo, buffer, owed>>

\* Reported operations of key k that a request carries.
Carried(request, k) ==
  SumFunction([i \in DOMAIN request |->
                 IF request[i].key = k THEN request[i].merged ELSE 0])

\* ReportFlushCallback(): the transport gets a request; a failure is logged and
\* nothing is sent again.
FlushOut(request) ==
  /\ request \in BagToSet(outbox)
  /\ outbox' = outbox (-) SetToBag({request})
  /\ owed' = [k \in Keys |-> owed[k] - Carried(request, k)]
  /\ UNCHANGED <<cache, todo, buffer>>

Older(age) == IF age <= FlushInterval THEN age + 1 ELSE age

Tick ==
  /\ cache' = [k \in Keys |-> IF cache[k] = NoElem THEN NoElem
                              ELSE [cache[k] EXCEPT !.age = Older(@)]]
  /\ UNCHANGED <<todo, buffer, outbox, owed>>

Next ==
  \/ \E report \in BoundedSeq(Operation, MaxReport) : Report(report)
  \/ MergeCached
  \/ InsertNew
  \/ Flush
  \/ FlushAll
  \/ \E request \in BagToSet(outbox) : FlushOut(request)
  \/ Tick

Spec == Init /\ [][Next]_vars

\* The clock advances, the timer calls Flush(), and a call that has begun goes
\* on.  Flush() may find the mutex taken every time it comes: a running call
\* sweeps as well.
Fairness == WF_vars(Tick) /\ WF_vars(Flush) /\ WF_vars(MergeCached \/ InsertNew)

FairSpec == Spec /\ Fairness

-----------------------------------------------------------------------------
(* Properties.                                                             *)

Sent == [key : Keys, merged : Nat]

\* Type invariant of the report cache and of the requests on their way out.
TypeOK ==
  /\ cache \in [Keys -> CacheElem \cup {NoElem}]
  /\ todo \in Seq(Operation)
  /\ buffer \in Seq(Seq(Sent))
  /\ BagToSet(outbox) \subseteq Seq(Sent)
  /\ owed \in [Keys -> Nat]

Aggregated(k) == IF cache[k] = NoElem THEN 0 ELSE cache[k].merged

Buffered(k) == SumFunction([i \in DOMAIN buffer |-> Carried(buffer[i], k)])

Waiting(k) == SumFunction([r \in BagToSet(outbox) |-> outbox[r] * Carried(r, k)])

\* No reported operation is lost and none is sent twice, by expiration,
\* eviction, growth or FlushAll(): those not yet sent are in the report being
\* added, in the cache, or in a stack buffer.
OperationsConserved ==
  \A k \in Keys :
    owed[k] = Reported(todo, k) + Aggregated(k) + Buffered(k) + Waiting(k)

\* A request carries at most kMaxOperationsToSend operations, though many leave
\* the cache in one call.
RequestsLimited ==
  \A r \in BagToSet(outbox) \cup ToSet(buffer) : Len(r) <= MaxOperationsToSend

\* An operation stops growing: what something was merged into holds less than
\* kMaxLogEntries log entries while it stays in the cache.
GrownStaySmall ==
  \A k \in Cached(cache) : cache[k].lone \/ cache[k].entries < MaxLogEntries

\* The cache keeps no more than num_entries operations, whatever a report
\* carries.
WithinCapacity == Cardinality(Cached(cache)) <= Capacity

\* A signature in steady use is flushed all the same: its age counts from the
\* insertion, not from the last use, so that time and again it has no element in
\* the cache or a new one.
SteadyReportsFlushed ==
  \A k \in Keys : []<>(cache[k] = NoElem \/ cache[k].age = 0)
=============================================================================
