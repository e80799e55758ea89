# Verification of the Service Control client

The repository is a C++ client library for Google Service Control. A program
asks it whether a call may go on (`Check`), charges quota (`Quota`) and reports
what was done (`Report`). To keep the number of remote calls low the library
answers from three caches, aggregates what it did not send, and sends the
aggregates later. This directory holds a TLA+ model of that machinery, the TLC
configurations that check it, and proofs about it.

## 1. Inventory

| component | state | operations | talks to |
|---|---|---|---|
| client (`src/src/service_control_client_impl.*`) | three aggregators, transports, ten statistics counters, the timer | `Check`, `Quota`, `Report` (asynchronous, synchronous, with a transport of their own), `Flush`, `FlushAll`, `GetStatistics`, constructor, destructor, three flush callbacks, `on_done` | calls the aggregators; the transports call `on_done` from any thread, even in place; the timer calls `Flush` of the aggregators |
| check aggregator (`check_aggregator_impl.*`) | LRU cache of verdicts with the operations merged into them, `last_check_time_`, `is_flushing_` | `Check`, `CacheResponse`, `Flush`, `FlushAll`, `OnCacheEntryDelete` | the cache; removed items handler |
| quota aggregator (`quota_aggregator_impl.*`) | age-based cache of answers with aggregated tokens, `in_flight_`, `last_refresh_time_`, `in_flush_all_` | `Quota`, `CacheResponse`, `Flush`, `FlushAll`, `OnCacheEntryDelete` (which inserts again) | the cache, in both directions; removed items handler |
| report aggregator (`report_aggregator_impl.*`) | age-based cache of merged operations | `Report`, `Flush`, `FlushAll`, `OnCacheEntryDelete`, `MergeItem` | the cache; removed items handler |
| removed items handler (`cache_removed_items_handler.h`) | `stack_buffer_`, `flush_callback_`, `callback_mutex_`; a `StackBuffer` on the stack of every operation | `AddRemovedItem`, `FlushOut`, `SetFlushCallback` | the flush callback |
| LRU cache (`utils/simple_lru_cache_inl.h`) | table, deferred table, LRU list, pins, units, idle limit | lookup, release, insert, remove, sweep, garbage collection | the deleter of its owner, which may call it again |
| operation aggregators (`operation_aggregator.*`, `quota_operation_aggregator.*`) | one merged operation | merge, `ToOperationProto`, `TooBig` | distribution merge |
| distribution merge, money arithmetic, signatures, md5 (`utils/`, `money_utils.*`, `signature.*`) | none | pure functions | |
| options (`include/aggregation_options.h`) | sizes and intervals | constructors | |

What is hard here:

- **Removal is not the end.** A quota element that leaves the cache is put back
  by its own deleter, from inside the sweep or the eviction that removed it.
- **Answers are late.** They come after the element was dropped, replaced,
  refreshed again or flushed; or never. The client must neither charge tokens
  twice nor wait for ever.
- **Locks and callbacks.** What leaves a cache under `cache_mutex_` is sent
  under `callback_mutex_`, and the transport may answer before it returns.
- **Going away.** Timers and answers outlive the client.
- **Time.** Four intervals interact: refresh, expiration (of quota and of
  checks), flush.

What makes each part correct:

- quota: requests of a signature are limited by its elements; a waiting element
  is awaited; every granted token is held, sent, denied or given up, once; a
  denial lasts until it is answered; nothing is kept for ever;
- check: what is merged is sent, from wherever the element leaves; verdicts are
  renewed at a bounded rate; the cache keeps its size;
- removed items handler: a thread's items go to its own buffer, every item is
  sent exactly once, nothing calls a client that is gone, nobody deadlocks;
- report: no operation is lost, duplicated or kept beyond its interval; requests
  keep their size limit;
- LRU cache: an entry is in the table or deferred, never both; pins protect
  values; sizes add up; eviction ends;
- client: every call is answered once, whoever answers it and whenever; the
  counters count each request once; an answer that comes late uses nothing that
  is gone; entries leave, or ask the server again, in time although one timer
  serves three caches;
- merges: an aggregate says what was reported, in whatever order; sums of money
  are exact or their overflow is noticed; merged distributions are those of all
  samples; what shares a signature asks for the same.


## 2. Modules

| module | models | composes with |
|---|---|---|
| `QuotaAggregator` | quota cache, and the half of the client that sends its requests and brings answers back | `MCQuotaAggregator` (TLC), `QuotaAggregatorProofs` (TLAPS) |
| `CheckAggregator` | check cache, and the calls its callers send when it answers NOT_FOUND | `MCCheckAggregator`, `CheckAggregatorProofs` |
| `ReportAggregator` | report cache, one operation of a report at a time, and the packing of requests | `MCReportAggregator`, `ReportAggregatorProofs` |
| `CacheRemovedItemsHandler` | the two mutexes, `stack_buffer_`, the stack buffers, the flush callback, answers in place, the client's destructor | `MCCacheRemovedItemsHandler`, `CacheRemovedItemsHandlerProofs`; implements `Delivery` |
| `Delivery` | the abstract specification: what an aggregator promises of the items it is given | `CacheRemovedItemsHandlerProofs` |
| `SimpleLRUCache` | the cache under all three, in LRU and age-based mode | `MCSimpleLRUCache`, `SimpleLRUCacheProofs` |
| `ServiceControlClient` | the client between callers, aggregators and transports: calls, answers, flush callbacks, counters, destructor | `MCServiceControlClient`, `ServiceControlClientProofs` |
| `FlushTimer` | the period of the timer, and how long an entry of each cache may stay | `MCValues`, `ValuesProofs` |
| `OperationAggregator` | both operation aggregators: how operations and metric values are merged | `MCValues`, `ValuesProofs` |
| `DistributionHelper` | initialising, sampling and merging distributions | `MCValues`, `ValuesProofs` |
| `MoneyUtils` | `TryAddMoney()` and `ValidateMoney()`, and a running total | `MCMoneyUtils`, `MCValues`, `ValuesProofs` |
| `Signature` | the bytes a signature is the hash of | `MCValues`, `ValuesProofs` |
| `SumLemmas` | no code: the laws of sums over finite sets, and of steps one after the other | `ReportAggregatorProofs`, `SimpleLRUCacheProofs`, `ValuesProofs` |

The aggregator modules treat an operation under `cache_mutex_` as one action and
what follows the unlock as others. That this is right, whatever the threads do,
is the subject of `CacheRemovedItemsHandler`, which splits the operation into
lock, swap, work, swap back, unlock, and one action per flushed request, and
leaves open what the work does to the cache. In the same way the aggregator
modules use the part of the cache they need (a table from keys to elements with
ages, a sweep, an eviction), and `SimpleLRUCache` shows that the code delivers
it: the sweep misses no entry that is too old, the eviction takes the oldest,
and the size is exact. `ServiceControlClient` in turn leaves open what an
aggregator answers and when it flushes, and follows the calls and the answers.

### QuotaAggregator

`cache` is the LRU table; an element has `positive` (the cached response has no
`allocate_errors`), `agg` (tokens in `operation_aggregator_`), `inFlight`
(`in_flight_`) and two ages, of the LRU entry and of `last_refresh_time_`.
`buffered` and `sent` count, per key, requests in stack buffers and requests at
the transport. `owed` and `orphans` are history: tokens granted and not settled,
elements dropped while they waited. `inFlushAll` is `in_flush_all_`, which the
code sets and never resets.

Every removal goes through `OnCacheEntryDelete`, which may put the element back;
`Remove(S)`, `Buffered(S)`, `Settled(S)` and `Orphaned(S)` are what the removal
of the entries of `S` does to the table, the requests and the history. An
operation is a removal followed by a change of one key: `QuotaHit`, `QuotaMiss`,
`QuotaMissEvict` (a full cache), `Answer` (`CacheResponse` from `on_done`, with
errors cached as positive answers, as the client does), `Flush`, `FlushAll`,
`Tick`. `QuotaRunaway` is a full cache none of whose elements may be dropped
(section 5). `FlushOut` hands one request to the transport.

### CheckAggregator

An element has `pass`, the merged operations `agg` (a set of tokens; which
operation is which matters, its metric values do not), the age `idle` since its
last use, and the age `sinceCheck` of `last_check_time_`. `misses` and
`refreshes` are the calls callers have under way because there was no verdict
(or the check was important) and because the flush interval was over. A removed
element with merged operations leaves a request (`Buffered`), whose answer
`CheckFlushCallback` discards. `CheckHit`, `CheckRefresh`, `CheckMiss`,
`CheckImportant`, `AnswerHit`, `AnswerMiss` (with eviction), `CallFails`,
`Flush`, `FlushAll` and `Tick` are its actions.

### ReportAggregator

`todo` is what the running `Report()` has yet to add, so that an entry can
expire, be evicted or grow too big between two operations of one report; a
running call keeps others out, as `cache_mutex_` does, but the buffers of
finished calls (`outbox`, a bag of requests) are being emptied meanwhile.
`Added` is `StackBuffer::Add` with `MergeItem`: an operation joins the last
request or opens a new one. The order of a sweep (`OldestFirst`) and of
`FlushAll` over the hash table is left open where the code leaves it open.

### CacheRemovedItemsHandler

Per thread, `frames` is the stack of its calls into one aggregator; a frame's
`at` is the program counter, `requests` its `StackBuffer`. `cacheMutex` and
`callbackMutex` hold a thread or `Nobody`; `stackBuffer` is the pointer, a
thread and the depth of a frame. `connected` is the flush callback, `closing`
the progress of `~ServiceControlClientImpl()`. Users call while there is a
client; background threads (timers, transports with late answers) at any time.
`AnswerInPlace` pushes a second frame from inside the callback. `delivered` and
`discarded` are history.

### SimpleLRUCache

`table`, `deferred` (`defer_`), `order` (the linked list), `elem`, `pin` (per
value and per `update_eviction_order()`), `units`, `pinnedUnits`, `maxUnits`. Each
operation of the class is an action. Linking a value twice, which in the code
corrupts the list, keeps it twice in `order`, so that `ListComplete` sees it.
What the garbage collector takes (`Evicted`) is written by position: an unpinned
entry goes if, with the unpinned ones behind it gone, the cache is still
overfull. `Unlinked` keeps the rest of the list, position by position.

### Delivery

Items are fresh, pending, given or dropped. `Accept` makes one pending, `Give`
hands a request of at most `Limit` of them to the transport, `Close` is the
client going away, after which `Drop` may give items up. The handler implements
it: pending is what is in the cache or in any buffer of any frame of any thread
(`Promised` in `CacheRemovedItemsHandler`). Which thread holds what, the locks,
the order of requests and the merging are what the refinement hides.

### ServiceControlClient

Each call and each request given to a flush callback is an actor. `at` is how
far its thread is (`entered`, `sent`: inside the transport, `waiting` for the
future of a synchronous call, `returned`), `answer` how far its answer is. The
two advance independently, so that an answer may come from inside the transport,
before the request is counted, or after the call returned. `stat` has the ten
counters, each atomic by itself. After the transport returned, `CountInFlight` and
`CountFlush` raise the counter of the requests; a report then is at `counted`, and
its operations are added in a step of their own (`CountOperations`,
`CountFlushedOperations`), as the code does. `ReadCounter` is one of the ten reads
of `GetStatistics()`, in the order of `ReadOrder`, into `snapshot`; anything may
happen between two of them. An
asynchronous `on_done` runs in `Answer`; that of a synchronous call moves the
promise to its own frame (`promise`), makes the future ready (`SetValue`), and is
still busy with it when the caller may run (`ValueSet`). `Begin`, `AnsweredInPlace`
(null transport, or the aggregator has an answer), `NotFound`, `FlushOut`,
`BeginClose`, `Disconnect` (which waits for `callback_mutex_`) and `Destroyed` are
the rest. `misused` records uses of what is gone: the aggregator of a client,
the client, a promise in a frame that returned.

### The parts without threads

`FlushTimer`: `GetNextFlushInterval` is the shortest interval of the three caches
in use. One `entry`, of any cache, is followed: its age in the cache, and for a
quota element the time since its last request (`sent`), whether the answer is
still to come, whether it has merged tokens, whether it is denied. `Advance` is a
tick, and the timer when its period is over. `Swept` is what
`RemoveExpiredEntries()` makes of the entry and `Deleted` what `OnCacheEntryDelete`
of its cache does: a check or a report is gone, a quota element is dropped when
`sent` has reached its expiration and is otherwise put back, if it owes anything
with a new request. `Disturbed` is a sweep or an eviction by somebody else,
`UseCheck`, `UseQuota` and `AnswerQuota` what callers and the server do to the
entry; a report's age is not restarted by use, nor a quota's.
`OperationAggregator`: `MergeOperation` merges one operation into the aggregate of
a check or report, with `MergeMetricValueSets` by name and labels, and into the quota aggregate, by name alone; sums wrap at the
word. `DistributionHelper`: two distributions in any of the three bucket forms are
sampled and merged into each other, with mean and squared deviations as rational
numbers (in `Parts`). `BucketIndex` is the number of bounds not above the sample,
or one less where the quotient of the code is a whole number that may be rounded
down; how linear and exponential options compute and clip that quotient is not
repeated. `MoneyUtils`: `TryAddMoney` with the wrapping
additions, the carry, the repair of signs and the overflow tests in the order of
the code; the word and the billion are constants. `Signature`: byte sequences,
the list of the strings that are hashed with a delimiter before each
(`Delimited`), and the order of `std::map` (`Sorted`: the place of a string is the
number of those that are less).

These share no state. `MCValues` puts them side by side: a behaviour runs one
part, chosen at the start, and leaves the others in one initial state, so that
each property is checked over all behaviours of its own part.

## 3. What the runs check

Twelve runs, one for each question. "states" are distinct states.

| run | instance | states | question |
|---|---|---|---|
| `quota_safety` | 2 keys, room for both | 76 338 | Do requests, tokens and denials stay consistent under every order of calls, drops, refreshes and late answers, and does everything settle? |
| `quota_full` | 3 keys, room for 2 | 9 564 | Does an eviction stay within `num_entries`? |
| `quota_runaway` | 2 keys, room for 1 | violation | Does every eviction end? No. |
| `check_safety` | 2 keys, room for 1, 2 operations | 35 964 | Are merged operations sent from wherever an element leaves, are renewals spaced, is what is left idle flushed? |
| `report_safety` | 3 signatures, room for 2, reports of up to 2 operations | 81 759 | Is every reported operation sent exactly once and in time, in requests of limited size? |
| `lru_safety` | 3 keys, 3 values, costs 1 and 2, room for 2 units, both modes | 219 540 | Do table, deferred entries, list, pins and units stay consistent, and do sweep and eviction take the right entries? |
| `handler_threads` | 2 users and 1 background thread, 2 items, requests of 2, answers in place | 148 622 | Does the handler implement `Delivery`; does an item ever go to another thread's buffer, or reach a client that is gone; does the destructor return and every buffer empty? |
| `handler_inplace` | 1 user, 1 background thread, answers in place | violation | Can a thread wait for a mutex it holds? Yes. |
| `client_calls` | 2 calls, one of them synchronous, 1 flushed request, flushed reports of 2 operations, 1 thread in `GetStatistics()` | 1 007 483 | Is each call answered once and each request counted once, does what `GetStatistics()` reads add up, and does an answer, in whatever order and after the client is gone, use only its own copies? |
| `client_gone` | 1 call, 1 flushed request | violation | Does an answer use anything that is gone? Yes: that to a flushed quota request. |
| `values_safety` | the parts of `MCValues` | 436 293 | Are sums of money, merged distributions, merged operations and signatures what they should be, and do entries leave or ask again in time? |
| `money_small` | one currency, 3 units, 3 nanos to the unit | violation | Is OUT_OF_RANGE returned only for an overflow? No. |

Deadlock is checked where a thread might be stuck with work to do: in
`client_calls` (`Terminated` is the one state in which all is done) and in every
run whose system never stops. It is not checked in `quota_full`, whose states
after a runaway eviction have no successor by design; in `handler_threads`, where
the deadlock of section 5 is a behaviour of the code, and the safety properties
have to hold up to it, the liveness ones unless a thread waits for itself; nor in
`values_safety`, where behaviours end when nothing is left to merge.

### Bounds, and why they are enough

- *Keys, values, items.* The code treats a signature, a value, an item alone,
  but for two things they share: room and the order of eviction. Two keys in a
  cache of one, or three in a cache of two, let every key be the one that is
  evicted, the one that stays and the one that comes.
- *Intervals.* One tick for the refresh and flush intervals; expiration is longer
  (two or three ticks), so that an element can be refreshed, wait and be
  refreshed again before it expires. The constructor of the check options forces
  that; the one of the quota options takes what it is given, 60 seconds to one by
  default, and `QuotaAggregator` assumes nothing of it: the proofs cover any two. Ages saturate
  one tick past the last comparison of the code that could tell them apart, so
  the clock itself is not bounded. For the timer, all triples of intervals of 0,
  1 or 3 ticks or disabled, with an expiration of 1 or 4, shorter and longer than
  an interval, and an `INT_MAX` of 9, which is longer than any; `MaxAge` is beyond
  every sum that the property speaks of.
- `MaxOwed` (quota, report), `MaxOrphans` (quota), `MaxCalls` and `MaxBuffered`
  (check), `MaxOps` (handler), `MaxReport` (report), `MaxPins` (cache) stop a
  caller, never the code: they are in guards of actions that begin an operation
  or take one more item, and no action that answers, flushes, sweeps or releases
  has one. Two of a kind are enough for the order of any two to matter: two
  orphans, two calls, two operations of a report, two pins of a value.
- *Client.* Calls meet only in the counters, the aggregators they hold and the
  client: two calls and a flushed request, of all combinations of kinds, so that
  two direct reports, or a direct and a flushed one, can be between their two
  increments at once while a third thread reads. What two flushed requests do is
  the same for the counters and is in the proof. `GetStatistics()` changes nothing
  that another thread sees, so that one reader, again and again, is enough.
- *Words.* Four values of either sign, and three nanos to the unit (`UnitsMax`,
  `Billion`, `WordMax`), hold every case the code distinguishes: either operand
  of either sign or zero, sums at, one past and far past each end, carries up
  and down with and without wrapping. The proofs make them arbitrary.
- `MaxSamples` = 4 and `MaxMerged` = 3: a merge of two distributions that were
  themselves merged, and a third operation merged into the result of two. The
  samples are under, on, between and above the bounds; the bucket options match,
  do not match, or are refused. The operations are one for each case of a value,
  of its times and of its labels.
- `Requests`: all pairs of requests that differ in any field, with empty names,
  names that are prefixes of each other, and labels and metrics in any order.
- `MixedPins = FALSE` in `lru_safety`: the lookups that pin one value at the
  same time have the same options, as they do throughout the library. The code
  does not ask for it, and with mixed options the list does break (see the
  hazards).
- `SetTimeout()` is called only at the start, as the aggregators do: `MaxIdle`
  is a constant.

### Fairness

- Quota and check: the clock advances and the timer that the client starts calls
  `Flush()` again and again (`WF(Tick)`, `WF(Flush)`); for checks, a thread that
  left an operation empties its buffer (`WF(FlushOut)`), since nothing there
  waits. Nothing is assumed of callers, of the transport or of the server:
  `TokensSettle` and `DenialProbed` hold although no answer may ever come.
- Report: the clock, the timer, and that a call which has begun goes on
  (`WF(MergeCached \/ InsertNew)`). The timer may find the mutex taken every time
  it comes; a running call sweeps too.
- Handler: a thread inside a call goes on when it can (`WF(Step(t))` for every
  thread), and the destructor takes `callback_mutex_` when it can. Weak fairness
  of a lock is justified by `MaxOps`: every thread starts a bounded number of
  operations, so that a mutex does not change hands for ever without the waiter.
  The code promises no more; `std::mutex` is not fair.
- Client: threads that make a call run on, and a transport calls `on_done` in the
  end, which is its contract (`src/mock_transport.h:76`, "It MUST be called
  later"). A call takes finitely many steps, so that one weak fairness of all
  these steps together is enough (`Fairness`): they do not all stand still while
  one could be taken. Nothing is assumed of
  flushed requests, their answers, or the destructor.

## 4. What is proved

TLAPS proves the following for every value of the constants, that is any finite
set of keys, any set of threads, calls, values and items, any cache size,
interval, word and bound. Assumed are only the named assumptions of the modules,
which TLC evaluates in the runs: for the caches `KeysAssumption` (finitely many
keys; the value for "no element" is not an element), `OptionsAssumption` (what
the option constructors enforce) and `BoundsAssumption`; for the LRU cache
`SetsAssumption` and `SizesAssumption`; for the handler `ThreadsAssumption` (the
owner is a user; users are not background threads; "nobody" is neither a thread
nor a pointer) and `LimitsAssumption`; for the client `ActorsAssumption` (calls
are not flushes, and there are finitely many of each); for money
`MoneyAssumption` (a unit has at least two nanos and the word holds at least
two units); for distributions `SamplesAssumption` (finitely many whole numbers
for samples, and enough parts to a unit that every mean is a whole number of
them) and `OptionsAssumption` (bounds are whole numbers, and explicit ones are
some); for merged operations `MetricsAssumption` and `OperationsAssumption`
(values of the metrics there are, in words, with times that are numbers); for
signatures `RequestsAssumption` (strings have no delimiter in them, labels are
finite maps of strings, metrics and their values are lists); for the timer
`IntervalsAssumption` (intervals fit an `int`, and ages are told apart far enough).

- **`QuotaAggregatorProofs`**: `TypeCorrect`; `QuotaInvariant` and from it
  `RequestsMatchElements`, `WaitingIsAwaited`, `LedgerBalances`,
  `DenialClearsTokens`; the action properties `DenialIsKept` and
  `TokensAreKept`; `CacheIsBounded`.
  The invariant is the conjunction of the type invariant and the four state
  properties. None of them is inductive alone: that a waiting element has a
  request under way needs the count of requests, because an answer takes one and
  clears one mark; that a denied element holds nothing is needed for the ledger
  when the denial is renewed by a probe. Each is a statement about one key
  (`KeyInv`), so the proof follows one key through `OnCacheEntryDelete`
  (`DeleteKeepsKeyInv`), through the removal of a set (`SweepKeepsKeyInv`), and
  through the change an operation makes to its own key.
- **`CheckAggregatorProofs`**: `TypeCorrect`; `CheckInvariant` and from it
  `LedgerBalances`; `OperationsAreSent`; `RenewalsAreSpaced`; `CacheIsBounded`.
  `RefreshesSpaced` speaks of the time since the last renewal of a key, which
  outlives its element; the invariant adds that no element's clock is ahead of
  it (`RenewalClock`: `sinceCheck <= sinceRefresh`), so that an element which is
  due has not been renewed for as long. The size of the cache is by cardinality:
  an answer for a key that is not cached finds room, or takes one place and
  frees one.
- **`CacheRemovedItemsHandlerProofs`**: `TypeCorrect`; `HandlerInvariant`;
  `BufferIsOwn`; `QuietAfterClose`. The invariant has four parts: whoever is
  between lock and unlock holds `cache_mutex_` (`Locked`); the pointer is set
  exactly while its frame is at work (`Swapped`); a callback holds
  `callback_mutex_`, runs in one frame at a time, and all but the innermost
  frame of a thread are inside it (`Called`, which is what makes re-entrance
  harmless to the first two); after the disconnect there is none (`Closed`).
  The proof first reduces each step to what it does to the places of the frames,
  then has one lemma per action.
  The second part is the refinement of `Delivery`, `Implements`. It rests on one
  more invariant: every item is in one place, that is fresh, cached, in exactly
  one request of one buffer of one frame, given, or dropped. Without it a
  flushed request could hold an item that another buffer still holds, and the
  abstract `Give` would not take it from what is pending. Each step of the
  handler is then shown to be a step of `Delivery` or to leave the mapped
  variables alone: `Put` is `Accept`, the hand-over of a request is `Give` or
  `Drop`, the disconnect is `Close`, all others stutter.
- **`SimpleLRUCacheProofs`**: `CacheInvariance`, and from it `EntriesInOnePlace`,
  `PinsProtect` and `ListHoldsWhatItShould`. The invariant has a part about
  places (`Placed`: entries are what is in the table or deferred, a deferred
  entry is pinned, and a pinned value has an entry) and one about the list
  (`Chained`: it holds values of the table; and, as long as pins do not mix,
  once each and exactly those that no pin took off). `OnePlace` needs the pins,
  since the last release decides what is deleted; `ListComplete` is not inductive
  because it says nothing of entries that are pinned, which the next release
  links. Both parts are operators of the state's components, since an action
  changes them in several steps: a lookup sweeps, then pins; an insertion removes
  the old entry, collects garbage, then inserts. `UnlinkedLeaves` is what
  unlinking does to a list, by counting positions.
  Three more invariants stand on that one. `Books`: the two counters of units,
  which the code changes by differences, are sums of costs, in both modes and
  whatever pins; from it `UnitsCounted`. `Lean`: a cache that is too large has
  nothing unpinned in its table; from it `GarbageCollected`. It needs the books,
  because the collector stops by the counter, and that the list has everything
  it may take, because it looks nowhere else. `ByAge`: the list runs from the
  newest entry to the oldest (`ListSorted`); from it `SweepFindsAll` and
  `OldestGoesFirst`, which are about a loop that stops at the first young entry
  and one that starts from the end. Whatever speaks of the list being complete
  is proved for pins that do not mix, and is false for others (section 5, 9).
- **`ServiceControlClientProofs`**: `Invariance`, and from it `TypeCorrect`,
  `AnsweredOnce`, `OwnCopies` and `StatisticsExact`. For the first two the
  invariant says who owes a call its answer (its thread, its transport, or
  nobody because it was given) and that an answer is under way only for what was
  sent; for the third, that a promise left its caller before it is set
  (`PromiseMoves`) and that a client with threads inside is not gone
  (`ClientHeld`), which the destructor's wait for a running callback keeps true;
  for the last, that each counter is the number of actors that have counted, the
  operations lagging by those between the two increments (`StatInv`), by adding
  one actor at a time to a cardinality, and that what has been read is at most
  what the counter is now (`SnapshotBehind`): the operations are read last, and are
  then what they should be for the reports of that moment, up to the threads in
  between; the reports read before are no more.
- **`ValuesProofs`**, money: `MoneyInvariance`, `AdditionsExact` and
  `OverflowsDetected`. A running total stays an amount that validates, also after
  saturation; and the last addition was exact if it returned OK, and noticed its
  overflow otherwise. The sum before the carry is repaired is bounded by one
  lemma per combination of signs, because the two overflow tests are right for
  different reasons: a positive sum wraps once, to something not positive; a
  negative one may wrap and be carried back across zero.
- **`ValuesProofs`**, distributions: `SummaryInvariance`, `SummariesExact` and
  `SamplesCounted`. `SummaryExact` divides by nothing but is still not what a
  step preserves. The invariant (`IsSummary`) says that the number of samples
  times the mean is their sum, and that the squared deviations are the sum of the
  squares less the number times the square of the mean: the update of the code
  for one sample and the one for a merge, which look nothing alike, are then two
  identities of polynomials, given that the quotients are exact. For the buckets
  the bounds are shown to rise (for exponential ones the powers of the growth
  factor are a recursive function, which `Iteration` builds step by step), so
  that the bounds not above a sample are the first ones (`BelowAreFirst`) and the
  bucket that the code computes is on the right side of every bound
  (`OnTheRightSide`), also where a quotient of doubles may fall short. The
  invariant (`Placed`) is about sums from each bucket on. `SamplesCounted` has a
  hypothesis, `NoneBetween`: `Merge()` takes bounds for the same that differ by
  10^-5 of themselves, and adds the counters; a sample between two such bounds
  stays where the other distribution put it. That is what the code does, and
  without the hypothesis the property is false.
- **`ValuesProofs`**, merged operations: `AggregateInvariance` and
  `AggregateSays`. The property looks at all operations at once, the code at one
  value after the other, so the proof is about the table of an aggregator when
  the values at some places were put into it (`ReportTable`, `QuotaTable`): each
  cell is empty, the sum or the latest of the values at the places that are its
  own. One more value, from a place after the others, keeps this
  (`MetricPutKeeps`, `QuotaPutKeeps`); the sum is right up to whole words
  (`SumStaysRight`), and of values that end at one time the one put last stays.
  All values of an operation are a run of such steps (`LastMerged`), and values
  already merged stay at their places when an operation is appended.
- **`ValuesProofs`**, signatures: `Separation`, for any requests, any strings and
  any number of labels and metrics. All is about joined sequences. The last zero
  of the bytes is the last delimiter, since a string has none, so that the last
  string can be told and taken away, and so on: the bytes say which strings were
  hashed, empty ones too (`DelimitedSeparates`). Strings in the order of a map
  have one place each (`SortedIs`), so that the list says which set it is. Labels
  are pairs, and twice as many strings say how many labels (`LabelsSeparate`). In
  a report or a quota request only one part has an unknown number of strings; in
  a check there are several, and where one ends is only known if the numbers are
  (`Shape`), which is what `ChecksSeparate` fails for (section 5, 8).
  `FlattenSeq` of the community modules is recursive; its laws (`FlattenIs`,
  `FlattenStep`, `FlattenType`, `FlattenSeparates`) are proved from a shortest list
  without them.
- **`ValuesProofs`**, timer: `TimerInvariance` and `ServedInTime`. While the timer
  runs, it has not reached its period, and what is in a cache is no older than
  its interval and the time since the timer fired (`InTime`); so no entry gets as
  old as its own interval and the shortest one together. That would be all if
  removal were the end. For quotas the invariant adds that the last request of
  an element is older than its stay in the cache by no more than the expiration
  (`EntryKnown`), which is what the test of the deleter, made each time it puts the
  element back, keeps true.
- **`ReportAggregatorProofs`**: `TableInvariance`, and from it `Bounded` and
  `GrownLeave`. What is merged into may grow beyond the limit and leaves in the
  same step; what is inserted alone may be large. Then `Accounting`, and from it
  `TypeCorrect`, `NothingLost` and `RequestsSmall`: for each signature the
  operations counted in the table, in the buffers of the running call and of
  finished ones, at the transport and in the report at hand are as many as were
  reported. What leaves the table is packed in some order that the code takes
  from a hash table: the lemmas about `Flushed` hold for each order, since what
  one removal does to the accounts does not depend on it, and the state after
  all of them is a run of such steps.
- **`SumLemmas`**: `SumFunctionOnSet` of the community modules folds over a set in
  an order that nobody knows, and induction over it is not available. Its laws
  (that any element may come first, splitting, adding, growing by one element,
  counting by value) are proved from a smallest set without them, which the
  library's theorem on well-founded orders gives: such a set is not empty, and
  has the law less one element. `Iteration` does the same with numbers.

Only model-checked:

- Liveness (`TokensSettle`, `DenialProbed`, `IdleOperationsFlushed`,
  `SteadyReportsFlushed`, `ClientCloses`, `RemovedItemsLeave`, `CallsAnswered`):
  fairness and ENABLED are out of the prover's reach.
- The violations of section 5, which need one behaviour and not all.

## 5. Where code and documentation disagree

Four are violations that a run exhibits:

1. `quota_runaway`. `OnCacheEntryDelete()` of the quota cache inserts the element
   again while the cache is overfull. If no element may be dropped yet, the
   release after that insertion finds the cache overfull, removes the element,
   and the deleter inserts it again: the recursion does not end. It takes one
   request for one signature more than `num_entries`, within
   `expiration_interval_ms`. Four states.
2. `handler_inplace`. The removed items are buffered so that a callback may enter
   the aggregator again. A transport that answers a quota request in place makes
   `CacheResponse()` do so under `callback_mutex_`; if that removes an expired
   element, its own flush waits for the mutex its thread holds. Sixteen states.
3. `client_gone`. The destructor explains (lines 123-129) why answers that come
   after it are harmless: each holds the aggregator it needs. The answer to a
   flushed quota request holds `this` and uses its `quota_aggregator_` (line
   148). Nine states: flush, return, destroy, answer.
4. `money_small`. `src/money_utils.h:45` returns OUT_OF_RANGE "If arithmetic
   overflow occurs during the additions". With no units in either operand, the
   sum of units is zero, which both overflow tests take for a wrapped word:
   0.1 + 0.1 is the largest amount and -0.6 + -0.6 the smallest. One addition.

For others the modules state the documented property, beside those that hold. To
see one fail, add it to the configuration of its module:

5. `OperationsFlushed` (`CheckAggregator`, a PROPERTY; one key suffices).
   `include/aggregation_options.h:96` says merged checks are flushed after
   `flush_interval_ms`, triggered by a check. The check that finds the interval
   over is sent alone; the merged ones stay, and the use has just restarted the
   idle time that would have removed them. For a signature in steady use they
   stay for good.
6. `VerdictFresh` (`CheckAggregator`). `include/aggregation_options.h:82` bounds
   the age of a response by `response_expiration_ms`. The code bounds the time
   since its last use.
7. `AllFlushedOut` (`CacheRemovedItemsHandler`). The destructor says "Flush out
   all cached data". What a timer thread has taken from the cache and not yet
   sent is dropped when the destructor clears the callback, since stopping the
   timer does not wait.
8. `ChecksSeparate` (`Signature`). The signature of a check does not say where its
   labels end and its metrics begin, nor which labels are of which metric: two
   checks with the same strings in other places share a verdict. Of metric sets
   with one name only the last counts. Quota properties and project settings,
   and the currency code of money values, which
   `src/signature.h:45-50` lists, are not part of it; nor is the currency code, listed
   in lines 39-40, part of the signature of a metric value in a report.
9. `SweptIsUnpinned` (`SimpleLRUCache`). `utils/simple_lru_cache_inl.h:923` says,
   and asserts, "There are no pinned elements on the list in the LRU mode". A
   lookup that leaves the eviction order alone pins an entry and leaves it on the
   list; a sweep that finds it too old removes it from the table, or stops a
   debug build. Nothing is deleted too early: the entry is deferred (`PinnedIsLive`).

Read, and modelled as the code has it:

- `include/service_control_client.h:114-116` promises a timer of the library's own
  where none is given; none is made, and nothing is flushed in time then
  (`HasTimer`).
- An interval of 0 in one cache leaves all three without a timer, and an entry
  that is just too young when the timer fires stays for another period: nearly
  twice `flush_interval_ms`, which `include/aggregation_options.h:125` calls the
  maximum (`EntriesServedInTime` has the bound that holds). In the same way a quota
  element may outlive `expiration_interval_ms` by nearly two of its refresh
  intervals. With all three caches disabled a timer of `INT_MAX` ms is started
  that has nothing to sweep; the property says nothing then.
- `GetStatistics()` reads its ten counters one by one, while calls and flushes go
  on; the header promises no more. What it returns may show more requests sent
  than calls begun, by the calls begun since their total was read, and reports
  without their operations, by those of the threads between the two increments
  (`SnapshotAddsUp`). The increments of one report are not one step:
  `CountersCatchUp` says by how much the operations lag.
- `src/operation_aggregator.cc:64-65` adds MONEY values, and makes "no change when
  the bucket options does not match". MONEY values are not added, and the times
  of a value grow before the bucket options are compared.
- `InitExplicit()` accepts no bounds at all; the first sample then reads the first
  bound of none. The models have at least one.
- The flush callbacks call the transports of the client without the test for null
  that direct calls make: flushed requests of a client made without that
  transport throw.

The properties of the passing runs hold beside these: `WithinCapacity` and
`TokensNotLost` up to a runaway eviction, `IdleOperationsFlushed` for the keys
that are not in steady use, `DeliversEachOnce` with what is dropped after the
close counted, `AnswersUseOwnCopies` with all answers but the one of (3),
`OverflowDetected` with all sums that have units.

## 6. Not modelled

- `src/aggregator_interface.h` and the headers under `include/` declare what the
  other components implement; `utils/stl_util.h`, `google_macros.h`, `md5.*`,
  `thread.h` and the status helpers hold no state of the program. md5 is taken to
  tell all inputs apart, and `std::mutex`, futures and `shared_ptr` to do what the
  standard says.
- The sample transport (`sample/`) and the test doubles: pure I/O and tests.
- Rounding, infinities and NaN of doubles. Means are kept exactly; where rounding
  decides what is counted, in the quotients that find a bucket, both outcomes are
  allowed.
- Requests that are refused as invalid, and reports of high importance, which
  never reach a cache. Exceptions.
- `ToOperationProto()` and the wording of statuses: formatting.
- A clock that steps back. `SimpleCycleTimer::Now()` reads the wall clock; the
  sorted list the sweep relies on is then no longer sorted.
- `SetTimeout()` on a cache in use, iteration and debugging output of the cache;
  `IsOverfull()` is not overridden anywhere.
- Log lines, `is_flushing_` (which only chooses one), `quota_scale_`.

## 7. Plan

Done, in this order: quota cache, check cache, handler, report cache, LRU cache;
proofs of the first three; client and its timer; the pure merges; `Delivery` and
its refinement; proofs of the client, of money, of the report table, of the
refinement and of the LRU cache; sums, and with them the accounts of the report
cache, the units, the garbage collection and the order of the LRU cache, the
summaries and the buckets of distributions; merged operations; the timer; signatures. What
could come next:

1. `ReportAggregator` as an implementation of `Delivery`. Its operations would need
   identities, which it now leaves out (it counts them), or `Delivery` a version
   that counts.
2. The clock as a wall clock, that may step back, to say how long an entry may be
   missed by sweeps.
