------------------------ MODULE ServiceControlClient ------------------------
(***************************************************************************)
(* The client: ServiceControlClientImpl                                    *)
(* (src/service_control_client_impl.cc) between its callers, the three     *)
(* aggregators and the transports.                                         *)
(*                                                                         *)
(* A call is counted, refused when its transport is null, answered in      *)
(* place when the aggregator has an answer, and otherwise given to its     *)
(* transport, which calls on_done from any thread, even before it returns. *)
(* What leaves an aggregator comes back through a flush callback and goes  *)
(* to the transport of the client.  The ten counters are atomic one by     *)
(* one: a report raises two of them in two steps, and GetStatistics()      *)
(* reads them in ten.  The client may be destroyed while answers are still *)
(* to come.                                                                *)
(*                                                                         *)
(* Abstractions.  What an aggregator answers, and when it flushes, is left *)
(* open: the modules of the aggregators say it.  Each call and each        *)
(* flushed request is an actor of its own: calls of one thread interleave  *)
(* no less than this allows, and neither do the flushes of a call, an      *)
(* answer, the timer or the destructor.  Of the callback mutex of an       *)
(* aggregator only this is kept, that the destructor waits for it.  One    *)
(* thread at a time is in GetStatistics(), again and again: it changes     *)
(* nothing that another could see.                                         *)
(***************************************************************************)
EXTENDS Integers, FiniteSets, Sequences

CONSTANTS
  Calls,      \* calls of Check(), Quota() and Report()
  SyncCalls,  \* those without on_done: the caller waits for the answer
  Flushes,    \* requests that flush callbacks are given
  FlushedOps  \* operations a flushed report carries; one reported directly has 1

Kinds == {"check", "quota", "report"}

VARIABLES
  kind,      \* the aggregator a call or a flushed request belongs to
  at,        \* progress of the thread that makes a call or flushes a request
  answer,    \* its answer: no, pending, setting, notifying, given
  done,      \* per call, how often its on_done has run
  promise,   \* per synchronous call, the frame that owns its promise
  ready,     \* per synchronous call, whether its future has the status
  stat,      \* the ten counters of the client
  reading,   \* how many of them GetStatistics() has read, 0 outside of it
  snapshot,  \* what it has read, 0 for a counter that it has not
  connected, \* the aggregators whose flush callback is set
  client,    \* open, closing, gone
  misused    \* what was used after it was gone

vars == <<kind, at, answer, done, promise, ready, stat, reading, snapshot,
          connected, client, misused>>

\* The state of the calls, the thread in GetStatistics(), and the client.
answers == <<done, promise, ready>>
reader == <<reading, snapshot>>
object == <<connected, client>>

ASSUME ActorsAssumption ==
  /\ SyncCalls \subseteq Calls
  /\ Calls \cap Flushes = {}
  /\ IsFiniteSet(Calls) /\ IsFiniteSet(Flushes)
  /\ FlushedOps \in Nat

-----------------------------------------------------------------------------
Actors == Calls \cup Flushes

\* Three counters for each kind, and the operations of the reports sent.
Total(k) == <<"total", k>>
ByFlush(k) == <<"byFlush", k>>
InFlight(k) == <<"inFlight", k>>
Operations == <<"operations", "report">>

Counters == ({"total", "byFlush", "inFlight"} \X Kinds) \cup {Operations}

Zero == [x \in Counters |-> 0]

Init ==
  /\ kind \in [Actors -> Kinds]
  /\ at = [x \in Actors |-> "idle"]
  /\ answer = [x \in Actors |-> "no"]
  /\ done = [c \in Calls |-> 0]
  /\ promise = [c \in SyncCalls |-> "caller"]
  /\ ready = [c \in SyncCalls |-> FALSE]
  /\ stat = Zero
  /\ reading = 0
  /\ snapshot = Zero
  /\ connected = Kinds
  /\ client = "open"
  /\ misused = {}

\* Something is used that is gone when the condition holds.
Use(what, isGone) == misused' = IF isGone THEN misused \cup {what} ELSE misused

(* ------------------------------- the calls ----------------------------- *)

\* A call begins: it is counted before anything is looked at.
Begin(c) ==
  /\ client = "open"
  /\ at[c] = "idle"
  /\ at' = [at EXCEPT ![c] = "entered"]
  /\ stat' = [stat EXCEPT ![Total(kind[c])] = @ + 1]
  /\ UNCHANGED <<kind, answer, answers, reader, object, misused>>

\* Where the thread of call c goes after on_done or the transport returned: a
\* synchronous caller waits for the future.
Returned(c) == IF c \in SyncCalls THEN "waiting" ELSE "returned"

\* on_done of call c, run by the calling thread.  That of a synchronous call
\* moves the promise of the caller and sets it.
DoneInPlace(c) ==
  /\ done' = [done EXCEPT ![c] = @ + 1]
  /\ promise' = [x \in SyncCalls |-> IF x = c THEN "answerer" ELSE promise[x]]
  /\ ready' = [x \in SyncCalls |-> x = c \/ ready[x]]

\* The transport is null, or the aggregator has an answer: on_done at once.
AnsweredInPlace(c) ==
  /\ at[c] = "entered"
  /\ at' = [at EXCEPT ![c] = Returned(c)]
  /\ DoneInPlace(c)
  /\ UNCHANGED <<kind, answer, stat, reader, object, misused>>

\* Mutated form: without the return the call goes on to on_done.
NotFoundFallsThrough(c) ==
  /\ at[c] = "entered"
  /\ at' = [at EXCEPT ![c] = "sent"]
  /\ answer' = [answer EXCEPT ![c] = "pending"]
  /\ DoneInPlace(c)
  /\ UNCHANGED <<kind, stat, reader, object, misused>>

\* The aggregator answers NOT_FOUND, and the transport is given the request.
NotFound(c) ==
  /\ at[c] = "entered"
  /\ at' = [at EXCEPT ![c] = "sent"]
  /\ answer' = [answer EXCEPT ![c] = "pending"]
  /\ UNCHANGED <<kind, answers, stat, reader, object, misused>>

\* The transport has returned, whether or not it has answered: the request is
\* counted, ...
CountInFlight(c) ==
  /\ at[c] = "sent"
  /\ at' = [at EXCEPT ![c] = IF kind[c] = "report" THEN "counted" ELSE Returned(c)]
  /\ stat' = [stat EXCEPT ![InFlight(kind[c])] = @ + 1]
  /\ Use("client", client = "gone")
  /\ UNCHANGED <<kind, answer, answers, reader, object>>

\* ... and then the operation of a report, in a counter of its own.
CountOperations(c) ==
  /\ at[c] = "counted"
  /\ at' = [at EXCEPT ![c] = Returned(c)]
  /\ stat' = [stat EXCEPT ![Operations] = @ + 1]
  /\ Use("client", client = "gone")
  /\ UNCHANGED <<kind, answer, answers, reader, object>>

\* A synchronous caller wakes up and returns: its frame is gone, and with it
\* the promise if that is still there.
SyncReturns(c) ==
  /\ at[c] = "waiting"
  /\ ready[c]
  /\ at' = [at EXCEPT ![c] = "returned"]
  /\ UNCHANGED <<kind, answer, answers, stat, reader, object, misused>>

(* ------------------------------ the answers ---------------------------- *)

\* Mutated form: the answer of a call finds its aggregator through this.
HoldsNothing(c) == FALSE

\* The lambda of the call c holds the aggregator that it gives the answer to.
HoldsAggregator(c) == answer[c] = "pending" /\ kind[c] # "report"

\* The aggregator of kind k is held by the client and by answers to come.
AggregatorAlive(k) ==
  client # "gone" \/ \E c \in Calls : kind[c] = k /\ HoldsAggregator(c)

\* The answer of c is for the aggregator: a check's if the call succeeded, a
\* quota's in any case, for a failed call with a dummy response.
ForAggregator(c, ok) == \/ kind[c] = "check" /\ ok
                        \/ kind[c] = "quota"

\* Mutated form: a failed asynchronous call is logged, and on_done forgotten.
AnswerIfOk(c) ==
  /\ answer[c] = "pending"
  /\ \E ok \in BOOLEAN :
       /\ Use("aggregator", ForAggregator(c, ok) /\ ~AggregatorAlive(kind[c]))
       /\ done' = [done EXCEPT ![c] = IF ok \/ c \in SyncCalls THEN @ + 1 ELSE @]
  /\ answer' = [answer EXCEPT ![c] = IF c \in SyncCalls THEN "setting" ELSE "given"]
  /\ promise' = [x \in SyncCalls |-> IF x = c THEN "answerer" ELSE promise[x]]
  /\ UNCHANGED <<kind, at, ready, stat, reader, object>>

\* Mutated form: the promise is set where it is, in the frame of the caller.
AnswerUnmoved(c) ==
  /\ answer[c] = "pending"
  /\ \E ok \in BOOLEAN :
       Use("aggregator", ForAggregator(c, ok) /\ ~AggregatorAlive(kind[c]))
  /\ answer' = [answer EXCEPT ![c] = IF c \in SyncCalls THEN "setting" ELSE "given"]
  /\ done' = [done EXCEPT ![c] = @ + 1]
  /\ UNCHANGED <<kind, at, promise, ready, stat, reader, object>>

\* The transport answers call c: the lambda gives the response to the
\* aggregator and runs on_done, which for a synchronous call moves the promise
\* to its own frame and begins to set it.
Answer(c) ==
  /\ answer[c] = "pending"
  /\ \E ok \in BOOLEAN :
       Use("aggregator", ForAggregator(c, ok) /\ ~AggregatorAlive(kind[c]))
  /\ answer' = [answer EXCEPT ![c] = IF c \in SyncCalls THEN "setting" ELSE "given"]
  /\ done' = [done EXCEPT ![c] = @ + 1]
  /\ promise' = [x \in SyncCalls |-> IF x = c THEN "answerer" ELSE promise[x]]
  /\ UNCHANGED <<kind, at, ready, stat, reader, object>>

\* set_value() makes the future ready and wakes the caller, ...
SetValue(c) ==
  /\ answer[c] = "setting"
  /\ answer' = [answer EXCEPT ![c] = "notifying"]
  /\ ready' = [ready EXCEPT ![c] = TRUE]
  /\ UNCHANGED <<kind, at, done, promise, stat, reader, object, misused>>

\* ... and is still busy with the promise when the caller may run.
ValueSet(c) ==
  /\ answer[c] = "notifying"
  /\ answer' = [answer EXCEPT ![c] = "given"]
  /\ Use("promise", promise[c] = "caller" /\ at[c] = "returned")
  /\ UNCHANGED <<kind, at, answers, stat, reader, object>>

(* --------------------------- the flush callbacks ----------------------- *)

\* A flush callback gives a request to the transport of the client.
FlushOut(f) ==
  /\ at[f] = "idle"
  /\ kind[f] \in connected
  /\ at' = [at EXCEPT ![f] = "sent"]
  /\ answer' = [answer EXCEPT ![f] = "pending"]
  /\ UNCHANGED <<kind, answers, stat, reader, object, misused>>

\* Mutated form: the counter of the direct calls.
CountFlushInFlight(f) ==
  /\ at[f] = "sent"
  /\ at' = [at EXCEPT ![f] = IF kind[f] = "report" THEN "counted" ELSE "returned"]
  /\ stat' = [stat EXCEPT ![InFlight(kind[f])] = @ + 1]
  /\ Use("client", client = "gone")
  /\ UNCHANGED <<kind, answer, answers, reader, object>>

\* The transport has returned: the callback counts the request, ...
CountFlush(f) ==
  /\ at[f] = "sent"
  /\ at' = [at EXCEPT ![f] = IF kind[f] = "report" THEN "counted" ELSE "returned"]
  /\ stat' = [stat EXCEPT ![ByFlush(kind[f])] = @ + 1]
  /\ Use("client", client = "gone")
  /\ UNCHANGED <<kind, answer, answers, reader, object>>

\* Mutated form: the operations of a flushed report are not counted.
CallbackReturns(f) ==
  /\ at[f] = "counted"
  /\ at' = [at EXCEPT ![f] = "returned"]
  /\ UNCHANGED <<kind, answer, answers, stat, reader, object, misused>>

\* ... and then the operations of a report.
CountFlushedOperations(f) ==
  /\ at[f] = "counted"
  /\ at' = [at EXCEPT ![f] = "returned"]
  /\ stat' = [stat EXCEPT ![Operations] = @ + FlushedOps]
  /\ Use("client", client = "gone")
  /\ UNCHANGED <<kind, answer, answers, reader, object>>

\* The answer to a flushed request, before or after the callback returned.
\* That of a quota request reads quota_aggregator_ of this.
AnswerFlush(f) ==
  /\ answer[f] = "pending"
  /\ answer' = [answer EXCEPT ![f] = "given"]
  /\ Use("flushed quota", kind[f] = "quota" /\ client = "gone")
  /\ UNCHANGED <<kind, at, answers, stat, reader, object>>

(* ---------------------------- the statistics --------------------------- *)

\* Mutated form: the operations are read before the reports.
OperationsFirst ==
  << Operations,
     Total("check"), ByFlush("check"), InFlight("check"),
     Total("quota"), ByFlush("quota"), InFlight("quota"),
     Total("report"), ByFlush("report"), InFlight("report") >>

\* The order in which GetStatistics() reads the counters.
ReadOrder ==
  << Total("check"), ByFlush("check"), InFlight("check"),
     Total("quota"), ByFlush("quota"), InFlight("quota"),
     Total("report"), ByFlush("report"), InFlight("report"), Operations >>

\* GetStatistics() reads the next counter.
ReadCounter ==
  /\ client = "open"
  /\ reading < Len(ReadOrder)
  /\ reading' = reading + 1
  /\ snapshot' = [snapshot EXCEPT ![ReadOrder[reading + 1]]
                                     = stat[ReadOrder[reading + 1]]]
  /\ UNCHANGED <<kind, at, answer, answers, stat, object, misused>>

\* GetStatistics() returns what it has read.
StatisticsReturned ==
  /\ reading = Len(ReadOrder)
  /\ reading' = 0
  /\ snapshot' = Zero
  /\ UNCHANGED <<kind, at, answer, answers, stat, object, misused>>

(* ----------------------------- the destructor -------------------------- *)

\* Callers do not destroy a client that they are calling.
BeginClose ==
  /\ client = "open"
  /\ \A c \in Calls : at[c] \in {"idle", "returned"}
  /\ reading = 0
  /\ client' = "closing"
  /\ UNCHANGED <<kind, at, answer, answers, stat, reader, connected, misused>>

\* The order in which the destructor clears the flush callbacks.
NextToClear == IF "check" \in connected THEN "check"
              ELSE IF "quota" \in connected THEN "quota" ELSE "report"

\* Mutated form: SetFlushCallback() without the callback mutex.
DisconnectAtOnce ==
  /\ client = "closing"
  /\ connected # {}
  /\ connected' = connected \ {NextToClear}
  /\ UNCHANGED <<kind, at, answer, answers, stat, reader, client, misused>>

\* SetFlushCallback(NULL), after FlushAll() and Stop(), waits for a callback
\* that is running.
Disconnect ==
  /\ client = "closing"
  /\ connected # {}
  /\ \A f \in Flushes : kind[f] = NextToClear => at[f] \notin {"sent", "counted"}
  /\ connected' = connected \ {NextToClear}
  /\ UNCHANGED <<kind, at, answer, answers, stat, reader, client, misused>>

\* The destructor ends, and the members go.
Destroyed ==
  /\ client = "closing"
  /\ connected = {}
  /\ client' = "gone"
  /\ UNCHANGED <<kind, at, answer, answers, stat, reader, connected, misused>>

\* Nothing is left to do: the client is gone and every answer was given.
Terminated ==
  /\ client = "gone"
  /\ \A x \in Actors : answer[x] \in {"no", "given"}
  /\ UNCHANGED vars

CallStep(c) == \/ AnsweredInPlace(c) \/ NotFound(c)
               \/ CountInFlight(c) \/ CountOperations(c)
               \/ c \in SyncCalls /\ SyncReturns(c)

AnswerStep(c) == \/ Answer(c)
                 \/ c \in SyncCalls /\ (SetValue(c) \/ ValueSet(c))

Next ==
  \/ \E c \in Calls : Begin(c) \/ CallStep(c) \/ AnswerStep(c)
  \/ \E f \in Flushes : \/ FlushOut(f) \/ AnswerFlush(f)
                       \/ CountFlush(f) \/ CountFlushedOperations(f)
  \/ ReadCounter \/ StatisticsReturned
  \/ BeginClose \/ Disconnect \/ Destroyed
  \/ Terminated

Spec == Init /\ [][Next]_vars

\* A thread that makes a call runs on, and a transport calls on_done in the end
\* (src/mock_transport.h:76, "It MUST be called later").  A call takes finitely
\* many steps, so that it is enough to ask that they do not all stand still.
Fairness == WF_vars(\E c \in Calls : CallStep(c) \/ AnswerStep(c))

FairSpec == Spec /\ Fairness

-----------------------------------------------------------------------------
InAnswer == {"pending", "setting", "notifying"}

TypeOK ==
  /\ kind \in [Actors -> Kinds]
  /\ at \in [Actors -> {"idle", "entered", "sent", "counted", "waiting", "returned"}]
  /\ answer \in [Actors -> {"no", "given"} \cup InAnswer]
  /\ done \in [Calls -> 0..1]
  /\ promise \in [SyncCalls -> {"caller", "answerer"}]
  /\ ready \in [SyncCalls -> BOOLEAN]
  /\ stat \in [Counters -> Nat]
  /\ reading \in 0..Len(ReadOrder)
  /\ snapshot \in [Counters -> Nat]
  /\ connected \in SUBSET Kinds
  /\ client \in {"open", "closing", "gone"}
  /\ misused \subseteq {"aggregator", "client", "promise", "flushed quota"}

\* A caller is owed one run of on_done for each call: it ran already, or is
\* still to come from the transport, or the call has not got that far.  It
\* never runs twice, whether the answer comes in place, from inside the
\* transport or later, and a synchronous call does not return before it.
OneAnswerPerCall ==
  \A c \in Calls :
    /\ done[c] + (IF answer[c] = "pending" THEN 1 ELSE 0)
         = IF at[c] \in {"idle", "entered"} THEN 0 ELSE 1
    /\ c \in SyncCalls /\ at[c] = "returned" => done[c] = 1

\* The requests of one kind that transports were given, and that the thread
\* among the actors has counted.
Counted(S, k) ==
  Cardinality({x \in S : kind[x] = k /\ answer[x] # "no" /\ at[x] # "sent"})

\* The operations that threads still have to add, of reports they have counted.
Uncounted == Cardinality({c \in Calls : at[c] = "counted"})
             + FlushedOps * Cardinality({f \in Flushes : at[f] = "counted"})

\* Each request to a transport is counted once, as a direct or a flushed one, no
\* sooner than the transport returns and whenever its answer comes.  The counter
\* of operations is behind that of the reports by those of the threads between
\* the two.
CountersCatchUp ==
  /\ \A k \in Kinds :
       /\ stat[InFlight(k)] = Counted(Calls, k)
       /\ stat[ByFlush(k)] = Counted(Flushes, k)
       /\ stat[InFlight(k)] <= stat[Total(k)]
       /\ stat[Total(k)] = Cardinality({c \in Calls : kind[c] = k /\ at[c] # "idle"})
  /\ stat[Operations] + Uncounted =
       stat[InFlight("report")] + FlushedOps * stat[ByFlush("report")]

\* What GetStatistics() has when its last read is done, though calls and flushes
\* went on between its reads: no counter is ahead of the client, so that more
\* calls may show as sent than as begun only by those begun since their total
\* was read; and no report shows without its operations, but for those of the
\* threads between the two counters at that moment.
SnapshotAddsUp ==
  reading' = Len(ReadOrder) /\ reading < Len(ReadOrder) =>
    /\ \A x \in Counters : snapshot'[x] <= stat[x]
    /\ \A k \in Kinds : snapshot'[InFlight(k)] - snapshot'[Total(k)]
                         <= stat[Total(k)] - snapshot'[Total(k)]
    /\ snapshot'[InFlight("report")] + FlushedOps * snapshot'[ByFlush("report")]
         <= snapshot'[Operations] + Uncounted

\* The counters follow the requests at every step, and what GetStatistics()
\* reads of them one by one adds up, but for what is named above.
StatisticsCatchUp == []CountersCatchUp /\ [][SnapshotAddsUp]_vars

\* An answer that comes when the client, or the frame of a synchronous call, is
\* gone uses neither the aggregator of the client nor the promise of the
\* caller, and no flush callback runs in a client that is gone: the lambdas
\* hold the aggregator, the promise is moved, and the destructor waits.
AnswersUseOwnCopies == misused \subseteq {"flushed quota"}

\* The destructor says that answers after the destruction are all right
\* (service_control_client_impl.cc:123-129).
NothingGoneIsUsed == misused = {}

\* In the end every call that was begun has run its on_done, and has returned to
\* a caller that waits, whatever becomes of the client after it returned.
CallsAnswered ==
  <>[](\A c \in Calls : at[c] # "idle" => done[c] = 1 /\ at[c] = "returned")
=============================================================================
