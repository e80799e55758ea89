----------------------------- MODULE FlushTimer -----------------------------
(***************************************************************************)
(* When the periodic timer of the client flushes, and for how long an      *)
(* entry of the three caches may stay                                      *)
(* (src/service_control_client_impl.cc, the constructor): the period is    *)
(* the shortest interval of the three, and each time it is over all three  *)
(* are swept of what is older than their own interval.  An entry of the    *)
(* check or of the report cache is then gone.  The deleter of the quota    *)
(* cache puts an element back, until its last request to the server is as  *)
(* old as expiration_interval_ms.                                          *)
(*                                                                         *)
(* Abstractions.  A tick is a millisecond, and the timer that the          *)
(* application provides is punctual.  One entry is followed, of any of the *)
(* caches, as entries do not age together; what other entries do to it,    *)
(* that is sweeps and evictions at any time, is left open.  A check counts *)
(* its age from its last use, the others from when they were inserted.     *)
(***************************************************************************)
EXTENDS Integers, FiniteSetsExt

CONSTANTS
  Intervals,    \* intervals, in ticks, that the options of a cache may have
  Expirations,  \* what expiration_interval_ms of the quota cache may be
  IntMax,       \* INT_MAX
  MaxAge        \* ages are told apart up to this one

VARIABLES
  interval,    \* per cache, its interval, or Disabled when num_entries <= 0
  expiration,  \* expiration_interval_ms of the quota cache
  wanted,      \* the application provides a periodic timer
  elapsed,     \* ticks since the timer was started or last fired, 0 without one
  entry        \* the entry that is followed, or NoEntry

timerVars == <<interval, expiration, wanted, elapsed, entry>>

Caches == {"check", "quota", "report"}
Disabled == -1

\* Intervals are ints, and MaxAge is longer than any that is asked for.
ASSUME IntervalsAssumption ==
  /\ IntMax \in Nat \ {0}
  /\ Intervals \subseteq 0 .. IntMax
  /\ Expirations \subseteq 0 .. IntMax
  /\ MaxAge \in Nat
  /\ \A i \in Intervals, x \in Expirations : x + 2 * i < MaxAge

\* An entry: its age in the cache, and, for quotas alone, the time since it was
\* last sent to the server, whether the answer is still to come (in_flight_),
\* whether it has merged tokens, and whether the last answer was negative.
Entries == [cache : Caches, age : 0 .. MaxAge, sent : 0 .. MaxAge,
            inFlight : BOOLEAN, aggregated : BOOLEAN, denied : BOOLEAN]

NoEntry == [cache |-> "none"]

Present(c) == entry # NoEntry /\ entry.cache = c

-----------------------------------------------------------------------------
\* Mutated form: the -1 of a disabled cache is taken as it is.
IntervalAsIs(i) == i

\* What GetNextFlushInterval() of an aggregator is to the client: that of a
\* disabled cache is negative, and never comes first.
NextInterval(i) == IF i < 0 THEN IntMax ELSE i

\* Mutated form: the longest interval is long enough for all.
LongestInterval == Max({NextInterval(interval[c]) : c \in Caches})

GetNextFlushInterval == Min({NextInterval(interval[c]) : c \in Caches})

\* The client starts a timer.
HasTimer == wanted /\ GetNextFlushInterval > 0

\* The constructor of QuotaAggregationOptions takes any two intervals.
TimerInit ==
  /\ interval \in [Caches -> Intervals \cup {Disabled}]
  /\ expiration \in Expirations
  /\ wanted \in BOOLEAN
  /\ elapsed = 0
  /\ entry = NoEntry

\* A key that is not cached is: a quota element waits for its first answer.
Enter(c) ==
  /\ entry = NoEntry
  /\ interval[c] # Disabled
  /\ entry' = [cache |-> c, age |-> 0, sent |-> 0, inFlight |-> c = "quota",
               aggregated |-> FALSE, denied |-> FALSE]
  /\ UNCHANGED <<interval, expiration, wanted, elapsed>>

\* A check for the key makes its entry young again.
UseCheck ==
  /\ Present("check")
  /\ entry' = [entry EXCEPT !.age = 0]
  /\ UNCHANGED <<interval, expiration, wanted, elapsed>>

\* A quota request for the key is merged unless it is denied.
UseQuota ==
  /\ Present("quota")
  /\ entry' = [entry EXCEPT !.aggregated = @ \/ ~entry.denied]
  /\ UNCHANGED <<interval, expiration, wanted, elapsed>>

\* The server answers a quota request, be it of an element that was dropped
\* before; a negative answer drops what was merged.
AnswerQuota ==
  /\ Present("quota")
  /\ \E negative \in BOOLEAN :
       entry' = [entry EXCEPT !.inFlight = FALSE, !.denied = negative,
                              !.aggregated = @ /\ ~negative]
  /\ UNCHANGED <<interval, expiration, wanted, elapsed>>

\* Mutated form: an element that waits for its answer is not dropped.
AnsweredAndOld(e) == ~e.inFlight /\ e.sent >= expiration

ShouldDropEntry(e) == e.sent >= expiration

\* A quota element with tokens, or a denied one, asks the server again.
AsksAgain(e) == ~e.inFlight /\ (e.aggregated \/ e.denied)

\* What the deleter of its cache, OnCacheEntryDelete(), makes of entry e.
Deleted(e) ==
  IF e.cache # "quota" \/ ShouldDropEntry(e) THEN NoEntry
  ELSE IF AsksAgain(e)
  THEN [e EXCEPT !.age = 0, !.sent = 0, !.inFlight = TRUE, !.aggregated = FALSE]
  ELSE [e EXCEPT !.age = 0]

\* What Flush() of its aggregator, RemoveExpiredEntries(), makes of entry e.
Swept(e) == IF e.age > interval[e.cache] THEN Deleted(e) ELSE e

\* The cache is swept or too full at any time, by what others do to it or by a
\* Flush() of the application.
Disturbed ==
  /\ entry # NoEntry
  /\ entry' \in {Swept(entry), Deleted(entry)}
  /\ UNCHANGED <<interval, expiration, wanted, elapsed>>

\* Entry e one tick later.
Aged(e) == [e EXCEPT !.age = Min({@ + 1, MaxAge}), !.sent = Min({@ + 1, MaxAge})]

\* The time advances, and the timer fires when its period is over.
Advance ==
  LET fires == HasTimer /\ elapsed + 1 = GetNextFlushInterval
  IN /\ elapsed' = IF HasTimer /\ ~fires THEN elapsed + 1 ELSE 0
     /\ entry' = IF entry = NoEntry THEN NoEntry
                 ELSE IF fires THEN Swept(Aged(entry)) ELSE Aged(entry)
     /\ UNCHANGED <<interval, expiration, wanted>>

TimerNext ==
  \/ Advance
  \/ \E c \in Caches : Enter(c)
  \/ UseCheck \/ UseQuota \/ AnswerQuota
  \/ Disturbed

TimerSpec == TimerInit /\ [][TimerNext]_timerVars

-----------------------------------------------------------------------------
(* Properties.                                                             *)

\* One timer serves three caches, each in time: unless a cache in use has an
\* interval of 0, which leaves all without a timer, a check that is not used
\* and a report, used or not, outlive their interval by less than the interval
\* of any cache in use, disabled ones not counting; and so does the time until
\* a quota element is looked at, which sends what it has merged and probes a
\* denial.  A quota element is put back again and again, but not for ever: it
\* is dropped or asks the server within its expiration and that time, although
\* the server may never answer.  (aggregation_options.h:125 has the interval
\* itself as the maximum for reports; one just too young waits one more period.)
EntriesServedInTime ==
  LET used == {c \in Caches : interval[c] # Disabled}
  IN wanted /\ (\A c \in used : interval[c] > 0) /\ entry # NoEntry =>
       \A d \in used :
         LET limit == interval[entry.cache] + interval[d]
         IN /\ entry.age < limit
            /\ entry.cache = "quota" => entry.sent < expiration + limit
=============================================================================
