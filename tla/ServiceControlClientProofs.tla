--------------------- MODULE ServiceControlClientProofs ---------------------
(***************************************************************************)
(* Proofs about ServiceControlClient, for any calls, any flushes and any   *)
(* interleaving of them with the destructor.                               *)
(***************************************************************************)
EXTENDS ServiceControlClient, FiniteSetTheorems, TLAPS

\* A request has an answer to come only once it was given to a transport.
AnswersHaveRequests ==
  \A x \in Actors : at[x] \in {"idle", "entered"} => answer[x] = "no"

\* The promise of a synchronous call moves with on_done, and is set after it.
PromiseMoves ==
  \A c \in SyncCalls :
    /\ promise[c] = "answerer" <=> done[c] = 1
    /\ ready[c] \/ answer[c] \in {"setting", "notifying"} => done[c] = 1

\* No thread is in a client that closes; a flush callback that is running is
\* one that is still connected.
ClientHeld ==
  /\ client # "open" => \A c \in Calls : at[c] \in {"idle", "returned"}
  /\ client = "gone" => connected = {}
  /\ \A f \in Flushes : at[f] \in {"sent", "counted"} => kind[f] \in connected

IInv == /\ TypeOK /\ AnswersHaveRequests /\ OneAnswerPerCall /\ PromiseMoves
        /\ ClientHeld /\ AnswersUseOwnCopies

-----------------------------------------------------------------------------
\* Raising a counter keeps the counters numbers, and lowers none.
LEMMA Raising ==
  ASSUME stat \in [Counters -> Nat], NEW y \in Counters, NEW n \in Nat,
         stat' = [stat EXCEPT ![y] = @ + n]
  PROVE  /\ stat' \in [Counters -> Nat]
         /\ stat'[y] = stat[y] + n
         /\ \A x \in Counters : x # y => stat'[x] = stat[x]
         /\ \A x \in Counters : stat[x] <= stat'[x]
  OBVIOUS

\* The names of the counters.
LEMMA CounterNames ==
  /\ Operations \in Counters /\ "report" \in Kinds
  /\ \A k \in Kinds : /\ Total(k) \in Counters /\ ByFlush(k) \in Counters
                      /\ InFlight(k) \in Counters
                      /\ Total(k) # Operations /\ ByFlush(k) # Operations
                      /\ InFlight(k) # Operations
  /\ \A j, k \in Kinds : /\ Total(j) # ByFlush(k) /\ Total(j) # InFlight(k)
                         /\ ByFlush(j) # InFlight(k)
                         /\ Total(j) = Total(k) => j = k
                         /\ ByFlush(j) = ByFlush(k) => j = k
                         /\ InFlight(j) = InFlight(k) => j = k
  BY DEF Total, ByFlush, InFlight, Operations, Counters, Kinds

\* GetStatistics() reads all ten, the operations last.
LEMMA ReadOrderNames ==
  /\ Len(ReadOrder) = 10
  /\ \A i \in 1..10 : ReadOrder[i] \in Counters
  /\ ReadOrder[10] = Operations
  BY DEF ReadOrder, Total, ByFlush, InFlight, Operations, Counters, Kinds

LEMMA InitHolds == Init => IInv
  BY ActorsAssumption, ReadOrderNames
  DEF Init, IInv, TypeOK, AnswersHaveRequests, OneAnswerPerCall, PromiseMoves,
      ClientHeld, AnswersUseOwnCopies, Zero, Actors

\* What is owed to call c.
Owed(c) ==
  /\ done[c] + (IF answer[c] = "pending" THEN 1 ELSE 0)
       = IF at[c] \in {"idle", "entered"} THEN 0 ELSE 1
  /\ c \in SyncCalls /\ at[c] = "returned" => done[c] = 1

\* A step of call c owes nothing new to the others.
LEMMA OwedToOthers ==
  ASSUME OneAnswerPerCall, NEW c \in Calls, Owed(c)',
         \A x \in Calls \ {c} :
           done'[x] = done[x] /\ answer'[x] = answer[x] /\ at'[x] = at[x]
  PROVE  OneAnswerPerCall'
<1> SUFFICES ASSUME NEW x \in Calls PROVE Owed(x)'
  BY DEF OneAnswerPerCall, Owed
<1>1. CASE x = c
  BY <1>1
<1>2. CASE x # c
  BY <1>2 DEF OneAnswerPerCall, Owed
<1> QED BY <1>1, <1>2

LEMMA BeginKeeps ==
  ASSUME IInv, NEW c \in Calls, Begin(c)
  PROVE  IInv'
<1> USE ActorsAssumption DEF IInv, Begin, answers, reader, object
<1>0. stat' \in [Counters -> Nat]
  BY Raising, CounterNames DEF TypeOK, Actors
<1>1. TypeOK'
  BY <1>0 DEF TypeOK, Actors, InAnswer
<1>2. AnswersHaveRequests' /\ OneAnswerPerCall' /\ PromiseMoves'
  BY DEF TypeOK, Actors, InAnswer, AnswersHaveRequests, OneAnswerPerCall, PromiseMoves
<1>3. ClientHeld' /\ AnswersUseOwnCopies'
  BY DEF TypeOK, Actors, InAnswer, ClientHeld, AnswersUseOwnCopies
<1> QED BY <1>1, <1>2, <1>3

LEMMA InPlaceKeeps ==
  ASSUME IInv, NEW c \in Calls, AnsweredInPlace(c)
  PROVE  IInv'
<1> USE ActorsAssumption DEF IInv
<1>0. answer[c] = "no" /\ done[c] = 0
  <2>1. at[c] = "entered" /\ c \in Actors
    BY DEF AnsweredInPlace, Actors
  <2>2. answer[c] = "no"
    BY <2>1 DEF AnswersHaveRequests
  <2>3. done[c] + 0 = 0 /\ done[c] \in 0..1
    BY <2>1, <2>2 DEF OneAnswerPerCall, TypeOK
  <2> QED BY <2>2, <2>3
<1>1. /\ at' = [at EXCEPT ![c] = Returned(c)]
      /\ done' = [done EXCEPT ![c] = 1]
      /\ UNCHANGED <<kind, answer, stat, reading, snapshot, connected, client,
                     misused>>
  BY <1>0 DEF AnsweredInPlace, DoneInPlace, reader, object
<1>2. /\ promise' = [x \in SyncCalls |-> IF x = c THEN "answerer" ELSE promise[x]]
      /\ ready' = [x \in SyncCalls |-> x = c \/ ready[x]]
  BY DEF AnsweredInPlace, DoneInPlace
<1>3. at[c] = "entered"
  BY DEF AnsweredInPlace
<1>4. TypeOK'
  <2>1. ready' \in [SyncCalls -> BOOLEAN]
    BY <1>2 DEF TypeOK
  <2>2. promise' \in [SyncCalls -> {"caller", "answerer"}]
    BY <1>2 DEF TypeOK
  <2>3. at' \in [Actors -> {"idle", "entered", "sent", "counted", "waiting", "returned"}]
    BY <1>1 DEF TypeOK, Actors, Returned
  <2>4. done \in [Calls -> 0..1]
    BY DEF TypeOK
  <2>5. done' \in [Calls -> 0..1]
    BY <1>1, <2>4
  <2> QED BY <1>1, <2>1, <2>2, <2>3, <2>5 DEF TypeOK
<1>5. AnswersHaveRequests'
  BY <1>1 DEF TypeOK, Actors, InAnswer, AnswersHaveRequests, Returned
<1>6. OneAnswerPerCall'
  <2>1. Owed(c)'
    <3>1. done'[c] = 1 /\ answer'[c] = "no" /\ at'[c] \in {"waiting", "returned"}
      BY <1>0, <1>1 DEF TypeOK, Actors, Returned
    <3> QED BY <3>1 DEF Owed
  <2> QED BY <1>1, <2>1, OwedToOthers DEF TypeOK, Actors
<1>7. PromiseMoves'
  <2> SUFFICES ASSUME NEW x \in SyncCalls
               PROVE  /\ promise'[x] = "answerer" <=> done'[x] = 1
                      /\ ready'[x] \/ answer'[x] \in {"setting", "notifying"}
                           => done'[x] = 1
    BY DEF PromiseMoves
  <2>1. CASE x = c
    BY <1>1, <1>2, <2>1 DEF TypeOK
  <2>2. CASE x # c
    <3>1. done'[x] = done[x] /\ answer'[x] = answer[x]
      BY <1>1, <2>2 DEF TypeOK
    <3>2. promise'[x] = promise[x] /\ (ready'[x] <=> ready[x])
      BY <1>2, <2>2, Zenon
    <3> QED BY <3>1, <3>2 DEF PromiseMoves
  <2> QED BY <2>1, <2>2
<1>8. ClientHeld' /\ AnswersUseOwnCopies'
  BY <1>1, <1>3 DEF TypeOK, Actors, InAnswer, ClientHeld, AnswersUseOwnCopies
<1> QED BY <1>4, <1>5, <1>6, <1>7, <1>8

LEMMA NotFoundKeeps ==
  ASSUME IInv, NEW c \in Calls, NotFound(c)
  PROVE  IInv'
<1> USE ActorsAssumption DEF IInv, NotFound, answers, reader, object
<1>1. TypeOK'
  BY DEF TypeOK, Actors, InAnswer
<1>2. AnswersHaveRequests' /\ OneAnswerPerCall'
  <2>1. answer[c] = "no" /\ done[c] + 0 = 0 /\ done[c] \in 0..1
    BY DEF TypeOK, Actors, AnswersHaveRequests, OneAnswerPerCall
  <2>2. Owed(c)'
    <3>1. done'[c] = done[c]
      OBVIOUS
    <3>2. at'[c] = "sent" /\ answer'[c] = "pending"
      BY DEF TypeOK, Actors
    <3> QED BY <2>1, <3>1, <3>2 DEF Owed
  <2>3. OneAnswerPerCall'
    BY <2>2, OwedToOthers DEF TypeOK, Actors
  <2> QED BY <2>3 DEF TypeOK, Actors, AnswersHaveRequests
<1>3. PromiseMoves'
  BY DEF TypeOK, Actors, InAnswer, PromiseMoves
<1>4. ClientHeld' /\ AnswersUseOwnCopies'
  BY DEF TypeOK, Actors, InAnswer, ClientHeld, AnswersUseOwnCopies
<1> QED BY <1>1, <1>2, <1>3, <1>4

LEMMA CountKeeps ==
  ASSUME IInv, NEW c \in Calls, CountInFlight(c) \/ CountOperations(c)
  PROVE  IInv'
<1> USE ActorsAssumption DEF IInv
<1>1. at[c] \in {"sent", "counted"}
  BY DEF CountInFlight, CountOperations
<1>2. \E a \in {"counted", "waiting", "returned"} :
        /\ at' = [at EXCEPT ![c] = a]
        /\ a = "returned" => c \notin SyncCalls
  BY DEF CountInFlight, CountOperations, Returned
<1>3. misused' = misused
  BY <1>1 DEF CountInFlight, CountOperations, Use, TypeOK, ClientHeld
<1>4. UNCHANGED <<kind, answer, done, promise, ready, reading, snapshot,
                  connected, client>>
  BY DEF CountInFlight, CountOperations, answers, reader, object
<1>5. stat' \in [Counters -> Nat]
  BY Raising, CounterNames DEF CountInFlight, CountOperations, TypeOK, Actors
<1>6. TypeOK'
  BY <1>2, <1>3, <1>4, <1>5 DEF TypeOK, Actors
<1>7. AnswersHaveRequests' /\ PromiseMoves'
  BY <1>1, <1>2, <1>4 DEF TypeOK, Actors, AnswersHaveRequests, PromiseMoves
<1>8. OneAnswerPerCall'
  <2>1. Owed(c)'
    <3>1. done'[c] = done[c] /\ answer'[c] = answer[c]
      BY <1>4
    <3>2. at'[c] \notin {"idle", "entered"} /\ (at'[c] = "returned" => c \notin SyncCalls)
      BY <1>2 DEF TypeOK, Actors
    <3>3. done[c] + (IF answer[c] = "pending" THEN 1 ELSE 0) = 1
      BY <1>1 DEF OneAnswerPerCall
    <3> QED BY <3>1, <3>2, <3>3 DEF Owed
  <2> QED BY <1>2, <1>4, <2>1, OwedToOthers DEF TypeOK, Actors
<1>9. ClientHeld' /\ AnswersUseOwnCopies'
  BY <1>1, <1>2, <1>3, <1>4 DEF TypeOK, Actors, ClientHeld, AnswersUseOwnCopies
<1> QED BY <1>6, <1>7, <1>8, <1>9

LEMMA SyncReturnsKeeps ==
  ASSUME IInv, NEW c \in SyncCalls, SyncReturns(c)
  PROVE  IInv'
<1> USE ActorsAssumption DEF IInv, SyncReturns, answers, reader, object
<1>1. TypeOK'
  BY DEF TypeOK, Actors, InAnswer
<1>2. AnswersHaveRequests' /\ OneAnswerPerCall' /\ PromiseMoves'
  BY DEF TypeOK, Actors, InAnswer, AnswersHaveRequests, OneAnswerPerCall, PromiseMoves
<1>3. ClientHeld' /\ AnswersUseOwnCopies'
  BY DEF TypeOK, Actors, InAnswer, ClientHeld, AnswersUseOwnCopies
<1> QED BY <1>1, <1>2, <1>3

\* The lambda of a call that is answered holds the aggregator it gives it to.
LEMMA AnswererHolds ==
  ASSUME TypeOK, NEW c \in Calls, answer[c] = "pending", NEW ok \in BOOLEAN
  PROVE  ~(ForAggregator(c, ok) /\ ~AggregatorAlive(kind[c]))
  BY DEF ForAggregator, AggregatorAlive, HoldsAggregator

LEMMA AnswerKeeps ==
  ASSUME IInv, NEW c \in Calls, Answer(c)
  PROVE  IInv'
<1> USE ActorsAssumption DEF IInv
<1>1. answer[c] = "pending" /\ misused' = misused
  BY AnswererHolds DEF Answer, Use
<1>2. done[c] = 0 /\ at[c] \notin {"idle", "entered"}
  <2>1. done[c] + 1 = (IF at[c] \in {"idle", "entered"} THEN 0 ELSE 1)
    BY <1>1 DEF OneAnswerPerCall
  <2>2. done[c] \in 0..1
    BY DEF TypeOK
  <2> QED BY <2>1, <2>2
<1>3. \E a \in {"setting", "given"} :
        /\ answer' = [answer EXCEPT ![c] = a]
        /\ a = "setting" => c \in SyncCalls
  BY DEF Answer
<1>4. /\ done' = [done EXCEPT ![c] = 1]
      /\ UNCHANGED <<kind, at, ready, stat, reading, snapshot, connected, client>>
  BY <1>2 DEF Answer, reader, object
<1>5. promise' = [x \in SyncCalls |-> IF x = c THEN "answerer" ELSE promise[x]]
  BY DEF Answer
<1>6. TypeOK'
  <2>1. answer' \in [Actors -> {"no", "given"} \cup InAnswer]
    BY <1>3 DEF TypeOK, InAnswer
  <2>2. done' \in [Calls -> 0..1]
    <3>1. done \in [Calls -> 0..1]
      BY DEF TypeOK
    <3> QED BY <1>4, <3>1
  <2>3. promise' \in [SyncCalls -> {"caller", "answerer"}]
    BY <1>5 DEF TypeOK
  <2> QED BY <1>1, <1>4, <2>1, <2>2, <2>3 DEF TypeOK
<1>7. AnswersHaveRequests'
  BY <1>2, <1>3, <1>4 DEF TypeOK, Actors, AnswersHaveRequests
<1>8. OneAnswerPerCall'
  <2>1. Owed(c)'
    <3>1. done'[c] = 1 /\ at'[c] = at[c]
      BY <1>4 DEF TypeOK
    <3>2. answer'[c] # "pending"
      BY <1>3 DEF TypeOK, Actors
    <3> QED BY <1>2, <3>1, <3>2 DEF Owed
  <2> QED BY <1>3, <1>4, <2>1, OwedToOthers DEF TypeOK, Actors
<1>9. PromiseMoves'
  <2> SUFFICES ASSUME NEW x \in SyncCalls
               PROVE  /\ promise'[x] = "answerer" <=> done'[x] = 1
                      /\ ready'[x] \/ answer'[x] \in {"setting", "notifying"}
                           => done'[x] = 1
    BY DEF PromiseMoves
  <2>1. CASE x = c
    BY <1>4, <1>5, <2>1 DEF TypeOK
  <2>2. CASE x # c
    <3>1. done'[x] = done[x] /\ answer'[x] = answer[x] /\ ready' = ready
      BY <1>3, <1>4, <2>2 DEF TypeOK, Actors
    <3>2. promise'[x] = promise[x]
      BY <1>5, <2>2
    <3> QED BY <3>1, <3>2 DEF PromiseMoves
  <2> QED BY <2>1, <2>2
<1>10. ClientHeld' /\ AnswersUseOwnCopies'
  BY <1>1, <1>4 DEF ClientHeld, AnswersUseOwnCopies
<1> QED BY <1>6, <1>7, <1>8, <1>9, <1>10

LEMMA SetValueKeeps ==
  ASSUME IInv, NEW c \in SyncCalls, SetValue(c)
  PROVE  IInv'
<1> USE ActorsAssumption DEF IInv, SetValue, reader, object
<1>1. TypeOK'
  BY DEF TypeOK, Actors, InAnswer
<1>2. AnswersHaveRequests' /\ OneAnswerPerCall'
  BY DEF TypeOK, Actors, InAnswer, AnswersHaveRequests, OneAnswerPerCall
<1>3. PromiseMoves'
  BY DEF TypeOK, Actors, InAnswer, PromiseMoves
<1>4. ClientHeld' /\ AnswersUseOwnCopies'
  BY DEF TypeOK, Actors, InAnswer, ClientHeld, AnswersUseOwnCopies
<1> QED BY <1>1, <1>2, <1>3, <1>4

LEMMA ValueSetKeeps ==
  ASSUME IInv, NEW c \in SyncCalls, ValueSet(c)
  PROVE  IInv'
<1> USE ActorsAssumption DEF IInv
<1>0. misused' = misused
  BY DEF ValueSet, Use, PromiseMoves
<1> USE <1>0 DEF ValueSet, answers, reader, object
<1>1. TypeOK'
  BY DEF TypeOK, Actors, InAnswer
<1>2. AnswersHaveRequests' /\ OneAnswerPerCall'
  BY DEF TypeOK, Actors, InAnswer, AnswersHaveRequests, OneAnswerPerCall
<1>3. PromiseMoves'
  BY DEF TypeOK, Actors, InAnswer, PromiseMoves
<1>4. ClientHeld' /\ AnswersUseOwnCopies'
  BY DEF TypeOK, Actors, InAnswer, ClientHeld, AnswersUseOwnCopies
<1> QED BY <1>1, <1>2, <1>3, <1>4

LEMMA FlushKeeps ==
  ASSUME IInv, NEW f \in Flushes,
         \/ FlushOut(f) \/ AnswerFlush(f)
         \/ CountFlush(f) \/ CountFlushedOperations(f)
  PROVE  IInv'
<1> USE ActorsAssumption DEF IInv, answers, reader, object
<1>1. CASE FlushOut(f)
  <2>1. TypeOK'
    BY <1>1 DEF FlushOut, TypeOK, Actors, InAnswer
  <2>2. AnswersHaveRequests' /\ OneAnswerPerCall' /\ PromiseMoves'
    BY <1>1 DEF FlushOut, TypeOK, Actors, AnswersHaveRequests,
                OneAnswerPerCall, PromiseMoves
  <2>3. ClientHeld' /\ AnswersUseOwnCopies'
    BY <1>1 DEF FlushOut, TypeOK, Actors, ClientHeld, AnswersUseOwnCopies
  <2> QED BY <2>1, <2>2, <2>3
<1>2. CASE CountFlush(f) \/ CountFlushedOperations(f)
  <2>0. misused' = misused
    BY <1>2 DEF CountFlush, CountFlushedOperations, Use, ClientHeld
  <2>1. stat' \in [Counters -> Nat]
    BY <1>2, Raising, CounterNames DEF CountFlush, CountFlushedOperations, TypeOK, Actors
  <2>2. \E a \in {"counted", "returned"} : at' = [at EXCEPT ![f] = a]
    BY <1>2 DEF CountFlush, CountFlushedOperations
  <2>3. at[f] \in {"sent", "counted"}
    BY <1>2 DEF CountFlush, CountFlushedOperations
  <2>4. UNCHANGED <<kind, answer, done, promise, ready, reading, snapshot,
                    connected, client>>
    BY <1>2 DEF CountFlush, CountFlushedOperations
  <2>5. TypeOK'
    <3>1. at' \in [Actors -> {"idle", "entered", "sent", "counted", "waiting", "returned"}]
      BY <2>2 DEF TypeOK
    <3> QED BY <2>0, <2>1, <2>4, <3>1 DEF TypeOK
  <2>6. AnswersHaveRequests' /\ OneAnswerPerCall' /\ PromiseMoves'
    <3>1. \A c \in Calls : at'[c] = at[c]
      BY <2>2 DEF TypeOK, Actors
    <3>2. AnswersHaveRequests'
      BY <2>2, <2>3, <2>4 DEF TypeOK, AnswersHaveRequests
    <3>3. OneAnswerPerCall' /\ PromiseMoves'
      BY <2>4, <3>1 DEF OneAnswerPerCall, PromiseMoves
    <3> QED BY <3>2, <3>3
  <2>7. ClientHeld' /\ AnswersUseOwnCopies'
    BY <2>0, <2>2, <2>3, <2>4 DEF TypeOK, Actors, InAnswer, ClientHeld, AnswersUseOwnCopies
  <2> QED BY <2>5, <2>6, <2>7
<1>3. CASE AnswerFlush(f)
  <2>0. misused' = misused \/ misused' = misused \cup {"flushed quota"}
    BY <1>3 DEF AnswerFlush, Use
  <2>1. TypeOK'
    <3>1. /\ kind' = kind /\ at' = at /\ done' = done /\ promise' = promise
          /\ ready' = ready /\ stat' = stat /\ connected' = connected
          /\ client' = client /\ reading' = reading /\ snapshot' = snapshot
      BY <1>3 DEF AnswerFlush
    <3>2. answer' \in [Actors -> {"no", "given"} \cup InAnswer]
      BY <1>3 DEF AnswerFlush, TypeOK
    <3>3. misused' \subseteq {"aggregator", "client", "promise", "flushed quota"}
      BY <2>0 DEF TypeOK
    <3> QED BY <3>1, <3>2, <3>3 DEF TypeOK
  <2>2. AnswersHaveRequests' /\ OneAnswerPerCall' /\ PromiseMoves'
    <3>1. \A c \in Calls : answer'[c] = answer[c]
      BY <1>3 DEF AnswerFlush, TypeOK, Actors
    <3>2. UNCHANGED <<at, done, promise, ready>>
      BY <1>3 DEF AnswerFlush
    <3>3. answer[f] = "pending" /\ answer' = [answer EXCEPT ![f] = "given"]
      BY <1>3 DEF AnswerFlush
    <3>4. AnswersHaveRequests'
      BY <3>2, <3>3 DEF TypeOK, AnswersHaveRequests
    <3>5. OneAnswerPerCall' /\ PromiseMoves'
      BY <3>1, <3>2 DEF OneAnswerPerCall, PromiseMoves
    <3> QED BY <3>4, <3>5
  <2>3. ClientHeld' /\ AnswersUseOwnCopies'
    <3>1. UNCHANGED <<kind, at, connected, client>>
      BY <1>3 DEF AnswerFlush
    <3> QED BY <2>0, <3>1 DEF ClientHeld, AnswersUseOwnCopies
  <2> QED BY <2>1, <2>2, <2>3
<1> QED BY <1>1, <1>2, <1>3

\* GetStatistics() changes nothing but what it has read.
LEMMA ReaderKeeps ==
  ASSUME IInv, ReadCounter \/ StatisticsReturned
  PROVE  IInv'
<1> USE ActorsAssumption DEF IInv, answers, object
<1>1. UNCHANGED <<kind, at, answer, done, promise, ready, stat, connected, client,
                  misused>>
  BY DEF ReadCounter, StatisticsReturned
<1>2. reading' \in 0..Len(ReadOrder) /\ snapshot' \in [Counters -> Nat]
  <2>1. CASE ReadCounter
    <3>1. reading \in 0..9 /\ reading' = reading + 1
      <4>1. reading \in 0..Len(ReadOrder) /\ reading < Len(ReadOrder)
            /\ reading' = reading + 1
        BY <2>1 DEF ReadCounter, TypeOK
      <4>2. Len(ReadOrder) = 10
        BY ReadOrderNames
      <4> QED BY <4>1, <4>2
    <3>2. ReadOrder[reading + 1] \in Counters
      BY <3>1, ReadOrderNames
    <3>3. snapshot' \in [Counters -> Nat]
      BY <2>1, <3>2 DEF ReadCounter, TypeOK
    <3> QED BY <3>1, <3>3, ReadOrderNames
  <2>2. CASE StatisticsReturned
    BY <2>2, ReadOrderNames DEF StatisticsReturned, Zero
  <2> QED BY <2>1, <2>2
<1>3. TypeOK'
  BY <1>1, <1>2 DEF TypeOK
<1>4. AnswersHaveRequests' /\ OneAnswerPerCall' /\ PromiseMoves'
  BY <1>1 DEF AnswersHaveRequests, OneAnswerPerCall, PromiseMoves
<1>5. ClientHeld' /\ AnswersUseOwnCopies'
  BY <1>1 DEF ClientHeld, AnswersUseOwnCopies
<1> QED BY <1>3, <1>4, <1>5

LEMMA DestructorKeeps ==
  ASSUME IInv, BeginClose \/ Disconnect \/ Destroyed
  PROVE  IInv'
<1> USE DEF IInv, answers, reader, object
<1>1. CASE BeginClose
  BY <1>1 DEF BeginClose, TypeOK, AnswersHaveRequests, OneAnswerPerCall,
              PromiseMoves, ClientHeld, AnswersUseOwnCopies, HoldsAggregator
<1>2. CASE Disconnect
  BY <1>2 DEF Disconnect, TypeOK, AnswersHaveRequests, OneAnswerPerCall,
              PromiseMoves, ClientHeld, AnswersUseOwnCopies, Actors
<1>3. CASE Destroyed
  BY <1>3 DEF Destroyed, TypeOK, AnswersHaveRequests, OneAnswerPerCall,
              PromiseMoves, ClientHeld, AnswersUseOwnCopies
<1> QED BY <1>1, <1>2, <1>3

LEMMA StutterKeeps == IInv /\ UNCHANGED vars => IInv'
<1> SUFFICES ASSUME IInv, UNCHANGED vars PROVE IInv'
  OBVIOUS
<1>1. TypeOK'
  BY DEF IInv, vars, TypeOK
<1>2. AnswersHaveRequests' /\ OneAnswerPerCall' /\ PromiseMoves'
  BY DEF IInv, vars, AnswersHaveRequests, OneAnswerPerCall, PromiseMoves
<1>3. ClientHeld' /\ AnswersUseOwnCopies'
  BY DEF IInv, vars, ClientHeld, AnswersUseOwnCopies
<1> QED BY <1>1, <1>2, <1>3 DEF IInv

LEMMA StepKeeps == IInv /\ [Next]_vars => IInv'
<1> SUFFICES ASSUME IInv, [Next]_vars PROVE IInv'
  OBVIOUS
<1>1. ASSUME NEW c \in Calls, Begin(c) \/ CallStep(c) \/ AnswerStep(c) PROVE IInv'
  BY <1>1, BeginKeeps, InPlaceKeeps, NotFoundKeeps, CountKeeps, SyncReturnsKeeps,
     AnswerKeeps, SetValueKeeps, ValueSetKeeps DEF CallStep, AnswerStep
<1>2. ASSUME NEW f \in Flushes,
             \/ FlushOut(f) \/ AnswerFlush(f)
             \/ CountFlush(f) \/ CountFlushedOperations(f)
      PROVE  IInv'
  BY <1>2, FlushKeeps
<1>3. CASE Terminated \/ UNCHANGED vars
  BY <1>3, StutterKeeps DEF Terminated
<1> QED BY <1>1, <1>2, <1>3, ReaderKeeps, DestructorKeeps DEF Next

-----------------------------------------------------------------------------
(* The statistics.                                                         *)

\* A request that a transport was given is one; the threads between the two
\* counters have a report.
SentAreRequests ==
  \A x \in Actors : /\ at[x] \in {"sent", "counted"} => answer[x] # "no"
                    /\ at[x] = "counted" => kind[x] = "report"

CountedSet(S, k) ==
  {x \in S : kind[x] = k /\ answer[x] # "no" /\ at[x] # "sent"}

BegunSet(k) == {c \in Calls : kind[c] = k /\ at[c] # "idle"}

\* The threads between the two counters of a report.
Between(S) == {x \in S : at[x] = "counted"}

\* The conjuncts of CountersCatchUp from which the others follow.
RequestsTally ==
  \A k \in Kinds : /\ stat[InFlight(k)] = Cardinality(CountedSet(Calls, k))
                   /\ stat[ByFlush(k)] = Cardinality(CountedSet(Flushes, k))
                   /\ stat[Total(k)] = Cardinality(BegunSet(k))

OperationsTally ==
  stat[Operations] + Cardinality(Between(Calls))
    + FlushedOps * Cardinality(Between(Flushes))
    = stat[InFlight("report")] + FlushedOps * stat[ByFlush("report")]

\* What GetStatistics() has read is not ahead of the counters.
SnapshotBehind == \A x \in Counters : snapshot[x] <= stat[x]

StatInv == SentAreRequests /\ RequestsTally /\ OperationsTally /\ SnapshotBehind

LEMMA BetweenFinite ==
  /\ IsFiniteSet(Between(Calls)) /\ IsFiniteSet(Between(Flushes))
  /\ Cardinality(Between(Calls)) \in Nat /\ Cardinality(Between(Flushes)) \in Nat
<1>1. Between(Calls) \subseteq Calls /\ Between(Flushes) \subseteq Flushes
  BY DEF Between
<1>2. IsFiniteSet(Between(Calls)) /\ IsFiniteSet(Between(Flushes))
  BY <1>1, ActorsAssumption, FS_Subset
<1> QED BY <1>2, FS_CardinalityType

\* Products of numbers.
LEMMA Products ==
  \A m, n \in Nat : /\ m * n \in Nat /\ m * (n + 1) = m * n + m
                    /\ \A l \in Nat : l <= n => m * l <= m * n
<1>1. \A m, n \in Nat : m * n \in Nat /\ m * (n + 1) = m * n + m
  OBVIOUS
<1>2. ASSUME NEW m \in Nat, NEW n \in Nat, NEW l \in Nat, l <= n
      PROVE  m * l <= m * n
  <2>1. n = l + (n - l) /\ n - l \in Nat
    BY <1>2
  <2>2. m * n = m * l + m * (n - l)
    BY <2>1
  <2>3. m * l \in Nat /\ m * (n - l) \in Nat
    BY <1>1, <2>1
  <2> QED BY <2>2, <2>3
<1> QED BY <1>1, <1>2

\* The operations owed are those of the threads between the counters.
LEMMA OwedOperations ==
  ASSUME TypeOK, OperationsTally
  PROVE  stat[Operations] + Uncounted =
           stat[InFlight("report")] + FlushedOps * stat[ByFlush("report")]
<1> DEFINE a == Cardinality(Between(Calls))
           b == FlushedOps * Cardinality(Between(Flushes))
           o == stat[Operations]
<1>1. a \in Nat /\ b \in Nat /\ o \in Nat
  <2>1. a \in Nat /\ b \in Nat
    BY BetweenFinite, Products, ActorsAssumption
  <2>2. o \in Nat
    BY CounterNames DEF TypeOK
  <2> QED BY <2>1, <2>2
<1>2. Uncounted = a + b
  BY DEF Uncounted, Between
<1>3. o + a + b = stat[InFlight("report")] + FlushedOps * stat[ByFlush("report")]
  BY DEF OperationsTally
<1> HIDE DEF a, b, o
<1>4. o + Uncounted = o + a + b
  BY <1>1, <1>2
<1> QED BY <1>3, <1>4 DEF o

LEMMA TallyCatchesUp == IInv /\ StatInv => CountersCatchUp
<1> SUFFICES ASSUME IInv, StatInv PROVE CountersCatchUp
  OBVIOUS
<1>1. ASSUME NEW k \in Kinds
      PROVE  /\ stat[InFlight(k)] = Counted(Calls, k)
             /\ stat[ByFlush(k)] = Counted(Flushes, k)
             /\ stat[InFlight(k)] <= stat[Total(k)]
             /\ stat[Total(k)] = Cardinality({c \in Calls : kind[c] = k /\ at[c] # "idle"})
  <2>1. CountedSet(Calls, k) \subseteq BegunSet(k)
    BY DEF CountedSet, BegunSet, IInv, AnswersHaveRequests, Actors
  <2>2. IsFiniteSet(BegunSet(k))
    BY ActorsAssumption, FS_Subset DEF BegunSet
  <2>3. Cardinality(CountedSet(Calls, k)) <= Cardinality(BegunSet(k))
    BY <2>1, <2>2, FS_Subset
  <2> QED BY <2>3 DEF StatInv, RequestsTally, Counted, CountedSet, BegunSet
<1>2. stat[Operations] + Uncounted =
        stat[InFlight("report")] + FlushedOps * stat[ByFlush("report")]
  BY OwedOperations DEF IInv, StatInv
<1> QED BY <1>1, <1>2 DEF CountersCatchUp

-----------------------------------------------------------------------------
(* A step that counts nothing.                                             *)

LEMMA NothingCounted ==
  ASSUME RequestsTally, OperationsTally, kind' = kind, stat' = stat,
         \A x \in Actors : /\ answer'[x] # "no" /\ at'[x] # "sent"
                                <=> answer[x] # "no" /\ at[x] # "sent"
                           /\ at'[x] = "counted" <=> at[x] = "counted",
         \A c \in Calls : at'[c] = "idle" <=> at[c] = "idle"
  PROVE  RequestsTally' /\ OperationsTally'
<1>1. \A k \in Kinds : /\ CountedSet(Calls, k)' = CountedSet(Calls, k)
                       /\ CountedSet(Flushes, k)' = CountedSet(Flushes, k)
                       /\ BegunSet(k)' = BegunSet(k)
  BY DEF CountedSet, BegunSet, Actors
<1>2. Between(Calls)' = Between(Calls) /\ Between(Flushes)' = Between(Flushes)
  BY DEF Between, Actors
<1>3. RequestsTally'
  BY <1>1 DEF RequestsTally
<1>4. OperationsTally'
  BY <1>2 DEF OperationsTally
<1> QED BY <1>3, <1>4

\* One more in a finite set, and one less.
LEMMA OneMore ==
  ASSUME NEW S, NEW T, IsFiniteSet(S), NEW x, x \notin S, T = S \cup {x}
  PROVE  Cardinality(T) = Cardinality(S) + 1 /\ Cardinality(S) \in Nat
  BY FS_AddElement, FS_CardinalityType

LEMMA OneLess ==
  ASSUME NEW S, NEW T, IsFiniteSet(S), NEW x, x \in S, T = S \ {x}
  PROVE  Cardinality(S) = Cardinality(T) + 1 /\ Cardinality(T) \in Nat
<1>1. IsFiniteSet(T) /\ x \notin T /\ S = T \cup {x}
  BY FS_Subset
<1> QED BY <1>1, OneMore

-----------------------------------------------------------------------------
(* The steps that count.                                                   *)

\* A thread goes on from where it was to a: what that does to the sets counted.
LEMMA SetsMoved ==
  ASSUME IInv, SentAreRequests, NEW x \in Actors,
         NEW a \in {"counted", "waiting", "returned"},
         kind' = kind, answer' = answer, at' = [at EXCEPT ![x] = a],
         at[x] \in {"sent", "counted"}, at[x] # a,
         NEW S \in {Calls, Flushes}
  PROVE  /\ \A k \in Kinds : x \notin S \/ kind[x] # k \/ at[x] = "counted"
                               => CountedSet(S, k)' = CountedSet(S, k)
         /\ \A k \in Kinds : x \in S /\ kind[x] = k /\ at[x] = "sent" =>
              CountedSet(S, k)' = CountedSet(S, k) \cup {x} /\ x \notin CountedSet(S, k)
         /\ x \notin S \/ (at[x] = "sent" /\ a # "counted") => Between(S)' = Between(S)
         /\ x \in S /\ a = "counted" =>
              Between(S)' = Between(S) \cup {x} /\ x \notin Between(S)
         /\ x \in S /\ at[x] = "counted" =>
              Between(S)' = Between(S) \ {x} /\ x \in Between(S)
         /\ \A k \in Kinds : BegunSet(k)' = BegunSet(k)
<1>1. S \subseteq Actors /\ Calls \subseteq Actors /\ answer[x] # "no"
  BY DEF Actors, SentAreRequests
<1>2. \A y \in Actors : /\ y = x => at'[y] = a
                        /\ y # x => at'[y] = at[y]
  BY DEF IInv, TypeOK
<1>3. ASSUME NEW k \in Kinds
      PROVE  /\ x \notin S \/ kind[x] # k \/ at[x] = "counted"
                  => CountedSet(S, k)' = CountedSet(S, k)
             /\ BegunSet(k)' = BegunSet(k)
  <2>1. ASSUME x \notin S \/ kind[x] # k \/ at[x] = "counted"
        PROVE  \A y \in S : kind[y] = k =>
                 (answer[y] # "no" /\ at'[y] # "sent" <=> answer[y] # "no" /\ at[y] # "sent")
    BY <1>1, <1>2, <2>1
  <2>2. \A y \in Calls : at'[y] = "idle" <=> at[y] = "idle"
    BY <1>1, <1>2
  <2> QED BY <2>1, <2>2 DEF CountedSet, BegunSet
<1>4. ASSUME NEW k \in Kinds, x \in S, kind[x] = k, at[x] = "sent"
      PROVE  CountedSet(S, k)' = CountedSet(S, k) \cup {x} /\ x \notin CountedSet(S, k)
  <2>1. at'[x] # "sent"
    BY <1>2, <1>4
  <2>2. \A y \in S : y # x => at'[y] = at[y]
    BY <1>1, <1>2
  <2>3. CountedSet(S, k)' = {y \in S : kind[y] = k /\ answer[y] # "no" /\ at'[y] # "sent"}
    BY DEF CountedSet
  <2> QED BY <1>1, <1>4, <2>1, <2>2, <2>3 DEF CountedSet
<1>5. x \notin S \/ (at[x] = "sent" /\ a # "counted") => Between(S)' = Between(S)
  BY <1>1, <1>2 DEF Between
<1>6. x \in S /\ a = "counted" =>
        Between(S)' = Between(S) \cup {x} /\ x \notin Between(S)
  <2> SUFFICES ASSUME x \in S, a = "counted"
               PROVE  Between(S)' = Between(S) \cup {x} /\ x \notin Between(S)
    OBVIOUS
  <2>1. at'[x] = "counted" /\ at[x] # "counted"
    BY <1>2
  <2>2. \A y \in S : y # x => at'[y] = at[y]
    BY <1>1, <1>2
  <2> QED BY <2>1, <2>2 DEF Between
<1>7. x \in S /\ at[x] = "counted" =>
        Between(S)' = Between(S) \ {x} /\ x \in Between(S)
  BY <1>1, <1>2 DEF Between
<1> QED BY <1>3, <1>4, <1>5, <1>6, <1>7

LEMMA CountedFinite ==
  \A k \in Kinds : /\ IsFiniteSet(CountedSet(Calls, k))
                   /\ IsFiniteSet(CountedSet(Flushes, k))
                   /\ IsFiniteSet(BegunSet(k))
<1>1. ASSUME NEW k \in Kinds
      PROVE  /\ CountedSet(Calls, k) \subseteq Calls /\ BegunSet(k) \subseteq Calls
             /\ CountedSet(Flushes, k) \subseteq Flushes
  BY DEF CountedSet, BegunSet
<1> QED BY <1>1, ActorsAssumption, FS_Subset

LEMMA BeginTallies ==
  ASSUME IInv, StatInv, NEW c \in Calls, Begin(c)
  PROVE  RequestsTally' /\ OperationsTally'
<1> USE ActorsAssumption DEF IInv, StatInv, reader, object
<1>p. PICK K \in Kinds : K = kind[c]
  BY DEF TypeOK, Actors
<1>0. K \in Kinds /\ Total(K) \in Counters /\ kind[c] = K
  BY <1>p, CounterNames
<1>a. /\ at[c] = "idle" /\ at' = [at EXCEPT ![c] = "entered"]
      /\ kind' = kind /\ answer' = answer
      /\ stat' = [stat EXCEPT ![Total(K)] = @ + 1]
  BY <1>p DEF Begin
<1>1. /\ stat'[Total(K)] = stat[Total(K)] + 1
      /\ \A x \in Counters : x # Total(K) => stat'[x] = stat[x]
  BY <1>0, <1>a, Raising DEF TypeOK
<1>2. answer[c] = "no"
  BY <1>a DEF AnswersHaveRequests, Actors
<1>3. ASSUME NEW k \in Kinds
      PROVE  /\ CountedSet(Calls, k)' = CountedSet(Calls, k)
             /\ CountedSet(Flushes, k)' = CountedSet(Flushes, k)
             /\ k # K => BegunSet(k)' = BegunSet(k)
  BY <1>0, <1>a, <1>2 DEF CountedSet, BegunSet, TypeOK, Actors
<1>4. Between(Calls)' = Between(Calls) /\ Between(Flushes)' = Between(Flushes)
  BY <1>a DEF Between, TypeOK, Actors
<1>5. Cardinality(BegunSet(K))' = Cardinality(BegunSet(K)) + 1
  <2>1. BegunSet(K)' = BegunSet(K) \cup {c} /\ c \notin BegunSet(K)
    BY <1>0, <1>a DEF BegunSet, TypeOK, Actors
  <2> QED BY <1>0, <2>1, OneMore, CountedFinite
<1>6. ASSUME NEW k \in Kinds
      PROVE  /\ stat'[InFlight(k)] = stat[InFlight(k)]
             /\ stat'[ByFlush(k)] = stat[ByFlush(k)]
             /\ stat'[Total(k)] = Cardinality(BegunSet(k))'
  <2>1. stat'[InFlight(k)] = stat[InFlight(k)] /\ stat'[ByFlush(k)] = stat[ByFlush(k)]
    BY <1>0, <1>1, CounterNames
  <2>2. CASE k = K
    BY <1>1, <1>5, <2>1, <2>2 DEF RequestsTally
  <2>3. CASE k # K
    <3>1. stat'[Total(k)] = stat[Total(k)]
      BY <1>0, <1>1, <2>3, CounterNames
    <3> QED BY <1>3, <2>1, <2>3, <3>1 DEF RequestsTally
  <2> QED BY <2>2, <2>3
<1>7. RequestsTally'
  BY <1>3, <1>6 DEF RequestsTally
<1>8. OperationsTally'
  <2>1. stat'[Operations] = stat[Operations]
    BY <1>0, <1>1, CounterNames
  <2> QED BY <1>4, <1>6, <2>1, CounterNames DEF OperationsTally
<1> QED BY <1>7, <1>8

LEMMA CountTallies ==
  ASSUME IInv, StatInv, NEW c \in Calls, CountInFlight(c)
  PROVE  RequestsTally' /\ OperationsTally'
<1> USE ActorsAssumption DEF IInv, StatInv, reader, object
<1>p. PICK K \in Kinds : K = kind[c]
  BY DEF TypeOK, Actors
<1>0. K \in Kinds /\ InFlight(K) \in Counters /\ c \notin Flushes /\ c \in Actors
      /\ kind[c] = K
  BY <1>p, CounterNames DEF Actors
<1>a. /\ at[c] = "sent" /\ kind' = kind /\ answer' = answer
      /\ stat' = [stat EXCEPT ![InFlight(K)] = @ + 1]
  BY <1>p DEF CountInFlight
<1> DEFINE a == IF K = "report" THEN "counted" ELSE Returned(c)
<1>b. /\ at' = [at EXCEPT ![c] = a] /\ a \in {"counted", "waiting", "returned"}
      /\ a = "counted" <=> K = "report"
  BY <1>p DEF CountInFlight, Returned
<1> HIDE DEF a
<1>1. /\ stat'[InFlight(K)] = stat[InFlight(K)] + 1
      /\ \A x \in Counters : x # InFlight(K) => stat'[x] = stat[x]
  BY <1>0, <1>a, Raising DEF TypeOK
<1>2. /\ \A k \in Kinds : /\ K # k => CountedSet(Calls, k)' = CountedSet(Calls, k)
                          /\ CountedSet(Flushes, k)' = CountedSet(Flushes, k)
                          /\ BegunSet(k)' = BegunSet(k)
      /\ CountedSet(Calls, K)' = CountedSet(Calls, K) \cup {c}
      /\ c \notin CountedSet(Calls, K)
      /\ Between(Flushes)' = Between(Flushes)
      /\ K # "report" => Between(Calls)' = Between(Calls)
      /\ K = "report" =>
           Between(Calls)' = Between(Calls) \cup {c} /\ c \notin Between(Calls)
  <2>1. a \in {"counted", "waiting", "returned"} /\ at[c] # a /\ at[c] \in {"sent", "counted"}
    BY <1>a, <1>b
  <2>2. \A k \in Kinds : CountedSet(Flushes, k)' = CountedSet(Flushes, k)
    BY <1>0, <1>a, <1>b, <2>1, SetsMoved
  <2>5. Between(Flushes)' = Between(Flushes)
    <3>1. \A x \in Flushes : at'[x] = at[x]
      BY <1>0, <1>b DEF TypeOK, Actors
    <3> QED BY <3>1 DEF Between
  <2>6. \A k \in Kinds : BegunSet(k)' = BegunSet(k)
    BY <1>0, <1>a, <1>b, <2>1, SetsMoved
  <2>3. /\ \A k \in Kinds : K # k => CountedSet(Calls, k)' = CountedSet(Calls, k)
        /\ CountedSet(Calls, K)' = CountedSet(Calls, K) \cup {c}
        /\ c \notin CountedSet(Calls, K)
    BY <1>0, <1>a, <1>b, <2>1, SetsMoved
  <2>4. /\ K # "report" => Between(Calls)' = Between(Calls)
        /\ K = "report" => Between(Calls)' = Between(Calls) \cup {c} /\ c \notin Between(Calls)
    BY <1>0, <1>a, <1>b, <2>1, SetsMoved
  <2> QED BY <2>2, <2>3, <2>4, <2>5, <2>6
<1>3. Cardinality(CountedSet(Calls, K))' =
        Cardinality(CountedSet(Calls, K)) + 1
  BY <1>0, <1>2, OneMore, CountedFinite
<1>4. ASSUME NEW k \in Kinds
      PROVE  /\ stat'[InFlight(k)] = Cardinality(CountedSet(Calls, k))'
             /\ stat'[ByFlush(k)] = stat[ByFlush(k)]
             /\ stat'[Total(k)] = stat[Total(k)]
             /\ k # K => stat'[InFlight(k)] = stat[InFlight(k)]
  <2>1. stat'[Total(k)] = stat[Total(k)] /\ stat'[ByFlush(k)] = stat[ByFlush(k)]
    BY <1>0, <1>1, CounterNames
  <2>2. CASE k = K
    BY <1>1, <1>3, <2>1, <2>2 DEF RequestsTally
  <2>3. CASE k # K
    <3>1. stat'[InFlight(k)] = stat[InFlight(k)]
      BY <1>0, <1>1, <2>3, CounterNames
    <3> QED BY <1>2, <2>1, <2>3, <3>1 DEF RequestsTally
  <2> QED BY <2>2, <2>3
<1>5. RequestsTally'
  BY <1>2, <1>4 DEF RequestsTally
<1>6. OperationsTally'
  <2>1. stat'[Operations] = stat[Operations] /\ stat'[ByFlush("report")] = stat[ByFlush("report")]
    BY <1>0, <1>1, <1>4, CounterNames
  <2>2. CASE K = "report"
    <3> DEFINE o == stat[Operations]
               b == Cardinality(Between(Calls))
               i == stat[InFlight("report")]
               m == FlushedOps * Cardinality(Between(Flushes))
               n == FlushedOps * stat[ByFlush("report")]
    <3>1. Cardinality(Between(Calls))' = b + 1
      BY <1>2, <2>2, OneMore, BetweenFinite
    <3>2. stat'[InFlight("report")] = i + 1
      BY <1>1, <2>2
    <3>3. o + b + m = i + n
      BY DEF OperationsTally
    <3>4. o \in Nat /\ b \in Nat /\ i \in Nat /\ m \in Nat /\ n \in Nat
      BY CounterNames, BetweenFinite, Products DEF TypeOK
    <3>5. OperationsTally' <=> o + (b + 1) + m = (i + 1) + n
      BY <1>2, <2>1, <3>1, <3>2 DEF OperationsTally
    <3> HIDE DEF o, b, i, m, n
    <3> QED BY <3>3, <3>4, <3>5
  <2>3. CASE K # "report"
    BY <1>2, <1>4, <2>1, <2>3, CounterNames DEF OperationsTally
  <2> QED BY <2>2, <2>3
<1> QED BY <1>5, <1>6

LEMMA CountOperationsTallies ==
  ASSUME IInv, StatInv, NEW c \in Calls, CountOperations(c)
  PROVE  RequestsTally' /\ OperationsTally'
<1> USE ActorsAssumption DEF IInv, StatInv, reader, object
<1>0. c \notin Flushes /\ c \in Actors
  BY DEF Actors
<1>a. /\ at[c] = "counted" /\ kind' = kind /\ answer' = answer
      /\ at' = [at EXCEPT ![c] = Returned(c)]
      /\ stat' = [stat EXCEPT ![Operations] = @ + 1]
      /\ Returned(c) \in {"waiting", "returned"}
  BY DEF CountOperations, Returned
<1>1. /\ stat'[Operations] = stat[Operations] + 1
      /\ \A x \in Counters : x # Operations => stat'[x] = stat[x]
  BY <1>a, Raising, CounterNames DEF TypeOK
<1>2. /\ \A k \in Kinds : /\ CountedSet(Calls, k)' = CountedSet(Calls, k)
                          /\ CountedSet(Flushes, k)' = CountedSet(Flushes, k)
                          /\ BegunSet(k)' = BegunSet(k)
      /\ Between(Flushes)' = Between(Flushes)
      /\ Between(Calls)' = Between(Calls) \ {c} /\ c \in Between(Calls)
  BY <1>0, <1>a, SetsMoved
<1>3. \A k \in Kinds : /\ stat'[InFlight(k)] = stat[InFlight(k)]
                       /\ stat'[ByFlush(k)] = stat[ByFlush(k)]
                       /\ stat'[Total(k)] = stat[Total(k)]
  BY <1>1, CounterNames
<1>4. RequestsTally'
  BY <1>2, <1>3 DEF RequestsTally
<1>5. OperationsTally'
  <2> DEFINE o == stat[Operations]
             b == Cardinality(Between(Calls))'
             i == stat[InFlight("report")]
             m == FlushedOps * Cardinality(Between(Flushes))
             n == FlushedOps * stat[ByFlush("report")]
  <2>1. Cardinality(Between(Calls)) = b + 1 /\ b \in Nat
    BY <1>2, OneLess, BetweenFinite
  <2>2. o + (b + 1) + m = i + n
    BY <2>1 DEF OperationsTally
  <2>3. o \in Nat /\ i \in Nat /\ m \in Nat /\ n \in Nat
    BY CounterNames, BetweenFinite, Products DEF TypeOK
  <2>4. OperationsTally' <=> (o + 1) + b + m = i + n
    BY <1>1, <1>2, <1>3, CounterNames DEF OperationsTally
  <2> HIDE DEF o, b, i, m, n
  <2> QED BY <2>1, <2>2, <2>3, <2>4
<1> QED BY <1>4, <1>5

LEMMA CountFlushTallies ==
  ASSUME IInv, StatInv, NEW f \in Flushes, CountFlush(f)
  PROVE  RequestsTally' /\ OperationsTally'
<1> USE ActorsAssumption DEF IInv, StatInv, reader, object
<1>p. PICK K \in Kinds : K = kind[f]
  BY DEF TypeOK, Actors
<1>0. K \in Kinds /\ ByFlush(K) \in Counters /\ f \notin Calls /\ f \in Actors
      /\ kind[f] = K
  BY <1>p, CounterNames DEF Actors
<1>a. /\ at[f] = "sent" /\ kind' = kind /\ answer' = answer
      /\ stat' = [stat EXCEPT ![ByFlush(K)] = @ + 1]
  BY <1>p DEF CountFlush
<1> DEFINE a == IF K = "report" THEN "counted" ELSE "returned"
<1>b. /\ at' = [at EXCEPT ![f] = a] /\ a \in {"counted", "waiting", "returned"}
      /\ a = "counted" <=> K = "report"
  BY <1>p DEF CountFlush
<1> HIDE DEF a
<1>1. /\ stat'[ByFlush(K)] = stat[ByFlush(K)] + 1
      /\ \A x \in Counters : x # ByFlush(K) => stat'[x] = stat[x]
  BY <1>0, <1>a, Raising DEF TypeOK
<1>2. /\ \A k \in Kinds : /\ K # k => CountedSet(Flushes, k)' = CountedSet(Flushes, k)
                          /\ CountedSet(Calls, k)' = CountedSet(Calls, k)
                          /\ BegunSet(k)' = BegunSet(k)
      /\ CountedSet(Flushes, K)' = CountedSet(Flushes, K) \cup {f}
      /\ f \notin CountedSet(Flushes, K)
      /\ Between(Calls)' = Between(Calls)
      /\ K # "report" => Between(Flushes)' = Between(Flushes)
      /\ K = "report" =>
           Between(Flushes)' = Between(Flushes) \cup {f} /\ f \notin Between(Flushes)
  <2>1. a \in {"counted", "waiting", "returned"} /\ at[f] # a /\ at[f] \in {"sent", "counted"}
    BY <1>a, <1>b
  <2>2. \A k \in Kinds : CountedSet(Calls, k)' = CountedSet(Calls, k)
    BY <1>0, <1>a, <1>b, <2>1, SetsMoved
  <2>5. Between(Calls)' = Between(Calls)
    <3>1. \A x \in Calls : at'[x] = at[x]
      BY <1>0, <1>b DEF TypeOK, Actors
    <3> QED BY <3>1 DEF Between
  <2>6. \A k \in Kinds : BegunSet(k)' = BegunSet(k)
    BY <1>0, <1>a, <1>b, <2>1, SetsMoved
  <2>3. /\ \A k \in Kinds : K # k => CountedSet(Flushes, k)' = CountedSet(Flushes, k)
        /\ CountedSet(Flushes, K)' = CountedSet(Flushes, K) \cup {f}
        /\ f \notin CountedSet(Flushes, K)
    BY <1>0, <1>a, <1>b, <2>1, SetsMoved
  <2>4. /\ K # "report" => Between(Flushes)' = Between(Flushes)
        /\ K = "report" => Between(Flushes)' = Between(Flushes) \cup {f} /\ f \notin Between(Flushes)
    BY <1>0, <1>a, <1>b, <2>1, SetsMoved
  <2> QED BY <2>2, <2>3, <2>4, <2>5, <2>6
<1>3. Cardinality(CountedSet(Flushes, K))' =
        Cardinality(CountedSet(Flushes, K)) + 1
  BY <1>0, <1>2, OneMore, CountedFinite
<1>4. ASSUME NEW k \in Kinds
      PROVE  /\ stat'[ByFlush(k)] = Cardinality(CountedSet(Flushes, k))'
             /\ stat'[InFlight(k)] = stat[InFlight(k)]
             /\ stat'[Total(k)] = stat[Total(k)]
             /\ k # K => stat'[ByFlush(k)] = stat[ByFlush(k)]
  <2>1. stat'[Total(k)] = stat[Total(k)] /\ stat'[InFlight(k)] = stat[InFlight(k)]
    BY <1>0, <1>1, CounterNames
  <2>2. CASE k = K
    BY <1>1, <1>3, <2>1, <2>2 DEF RequestsTally
  <2>3. CASE k # K
    <3>1. stat'[ByFlush(k)] = stat[ByFlush(k)]
      BY <1>0, <1>1, <2>3, CounterNames
    <3> QED BY <1>2, <2>1, <2>3, <3>1 DEF RequestsTally
  <2> QED BY <2>2, <2>3
<1>5. RequestsTally'
  BY <1>2, <1>4 DEF RequestsTally
<1>6. OperationsTally'
  <2>1. stat'[Operations] = stat[Operations] /\ stat'[InFlight("report")] = stat[InFlight("report")]
    BY <1>0, <1>1, <1>4, CounterNames
  <2>2. CASE K = "report"
    <3> DEFINE o == stat[Operations] + Cardinality(Between(Calls))
               m == FlushedOps * Cardinality(Between(Flushes))
               i == stat[InFlight("report")]
               n == FlushedOps * stat[ByFlush("report")]
    <3>1. Cardinality(Between(Flushes))' = Cardinality(Between(Flushes)) + 1
      BY <1>2, <2>2, OneMore, BetweenFinite
    <3>2. stat'[ByFlush("report")] = stat[ByFlush("report")] + 1
      BY <1>1, <2>2
    <3>3. o + m = i + n
      BY DEF OperationsTally
    <3>4. o \in Nat /\ i \in Nat /\ m \in Nat /\ n \in Nat
      <4>1. /\ stat[Operations] \in Nat /\ i \in Nat
            /\ stat[ByFlush("report")] \in Nat
        BY CounterNames DEF TypeOK
      <4>2. o \in Nat /\ m \in Nat
        BY <4>1, BetweenFinite, Products
      <4> QED BY <4>1, <4>2, Products
    <3>5. /\ FlushedOps * (Cardinality(Between(Flushes)) + 1) = m + FlushedOps
          /\ FlushedOps * (stat[ByFlush("report")] + 1) = n + FlushedOps
      BY CounterNames, BetweenFinite, Products DEF TypeOK
    <3>6. OperationsTally' <=> o + (m + FlushedOps) = i + (n + FlushedOps)
      BY <1>2, <2>1, <3>1, <3>2, <3>5 DEF OperationsTally
    <3> HIDE DEF o, m, i, n
    <3> QED BY <3>3, <3>4, <3>6
  <2>3. CASE K # "report"
    BY <1>2, <1>4, <2>1, <2>3, CounterNames DEF OperationsTally
  <2> QED BY <2>2, <2>3
<1> QED BY <1>5, <1>6

LEMMA CountFlushedOperationsTallies ==
  ASSUME IInv, StatInv, NEW f \in Flushes, CountFlushedOperations(f)
  PROVE  RequestsTally' /\ OperationsTally'
<1> USE ActorsAssumption DEF IInv, StatInv, reader, object
<1>0. f \notin Calls /\ f \in Actors
  BY DEF Actors
<1>a. /\ at[f] = "counted" /\ kind' = kind /\ answer' = answer
      /\ at' = [at EXCEPT ![f] = "returned"]
      /\ stat' = [stat EXCEPT ![Operations] = @ + FlushedOps]
  BY DEF CountFlushedOperations
<1>1. /\ stat'[Operations] = stat[Operations] + FlushedOps
      /\ \A x \in Counters : x # Operations => stat'[x] = stat[x]
  BY <1>a, Raising, CounterNames DEF TypeOK
<1>2. /\ \A k \in Kinds : /\ CountedSet(Calls, k)' = CountedSet(Calls, k)
                          /\ CountedSet(Flushes, k)' = CountedSet(Flushes, k)
                          /\ BegunSet(k)' = BegunSet(k)
      /\ Between(Calls)' = Between(Calls)
      /\ Between(Flushes)' = Between(Flushes) \ {f} /\ f \in Between(Flushes)
  BY <1>0, <1>a, SetsMoved
<1>3. \A k \in Kinds : /\ stat'[InFlight(k)] = stat[InFlight(k)]
                       /\ stat'[ByFlush(k)] = stat[ByFlush(k)]
                       /\ stat'[Total(k)] = stat[Total(k)]
  BY <1>1, CounterNames
<1>4. RequestsTally'
  BY <1>2, <1>3 DEF RequestsTally
<1>5. OperationsTally'
  <2> DEFINE o == stat[Operations]
             b == Cardinality(Between(Calls))
             m == FlushedOps * Cardinality(Between(Flushes))'
             i == stat[InFlight("report")]
             n == FlushedOps * stat[ByFlush("report")]
  <2>1. /\ Cardinality(Between(Flushes)) = Cardinality(Between(Flushes))' + 1
        /\ Cardinality(Between(Flushes))' \in Nat
    BY <1>2, OneLess, BetweenFinite
  <2>2. FlushedOps * (Cardinality(Between(Flushes))' + 1) = m + FlushedOps
    BY <2>1, Products
  <2>3. o + b + (m + FlushedOps) = i + n
    BY <2>1, <2>2 DEF OperationsTally
  <2>4. o \in Nat /\ b \in Nat /\ i \in Nat /\ m \in Nat /\ n \in Nat
    BY <2>1, CounterNames, BetweenFinite, Products DEF TypeOK
  <2>5. OperationsTally' <=> (o + FlushedOps) + b + m = i + n
    BY <1>1, <1>2, <1>3, CounterNames DEF OperationsTally
  <2> HIDE DEF o, b, m, i, n
  <2> QED BY <2>3, <2>4, <2>5
<1> QED BY <1>4, <1>5

-----------------------------------------------------------------------------
(* The other steps, and all of them.                                       *)

LEMMA StatInit == Init => StatInv
<1> SUFFICES ASSUME Init PROVE StatInv
  OBVIOUS
<1>1. ASSUME NEW k \in Kinds
      PROVE  /\ Cardinality(CountedSet(Calls, k)) = 0
             /\ Cardinality(CountedSet(Flushes, k)) = 0
             /\ Cardinality(BegunSet(k)) = 0
  <2>1. /\ CountedSet(Calls, k) = {} /\ CountedSet(Flushes, k) = {}
        /\ BegunSet(k) = {}
    BY DEF Init, CountedSet, BegunSet, Actors
  <2> QED BY <2>1, FS_EmptySet
<1>2. Cardinality(Between(Calls)) = 0 /\ Cardinality(Between(Flushes)) = 0
  <2>1. Between(Calls) = {} /\ Between(Flushes) = {}
    BY DEF Init, Between, Actors
  <2> QED BY <2>1, FS_EmptySet
<1>3. \A x \in Counters : stat[x] = 0 /\ snapshot[x] = 0
  BY DEF Init, Zero
<1>4. RequestsTally
  BY <1>1, <1>3, CounterNames DEF RequestsTally
<1>5. OperationsTally
  BY <1>2, <1>3, CounterNames, ActorsAssumption DEF OperationsTally
<1>6. SentAreRequests /\ SnapshotBehind
  BY <1>3 DEF Init, SentAreRequests, SnapshotBehind, Actors
<1> QED BY <1>4, <1>5, <1>6 DEF StatInv

\* A step of another action counts nothing.
LEMMA OthersTally ==
  ASSUME IInv, StatInv,
         \/ \E c \in Calls : AnsweredInPlace(c) \/ NotFound(c) \/ AnswerStep(c)
         \/ \E c \in SyncCalls : SyncReturns(c)
         \/ \E f \in Flushes : FlushOut(f) \/ AnswerFlush(f)
         \/ ReadCounter \/ StatisticsReturned
         \/ BeginClose \/ Disconnect \/ Destroyed \/ UNCHANGED vars
  PROVE  RequestsTally' /\ OperationsTally'
<1> USE ActorsAssumption DEF IInv, StatInv, object, reader, answers
<1> DEFINE Same == RequestsTally' /\ OperationsTally'
<1>1. ASSUME NEW c \in Calls, AnsweredInPlace(c) PROVE Same
  <2>1. /\ at[c] = "entered" /\ at' = [at EXCEPT ![c] = Returned(c)]
        /\ kind' = kind /\ stat' = stat /\ answer' = answer
    BY <1>1 DEF AnsweredInPlace
  <2>2. answer[c] = "no"
    BY <2>1 DEF AnswersHaveRequests, Actors
  <2> QED BY <2>1, <2>2, NothingCounted DEF Returned, TypeOK, Actors
<1>2. ASSUME NEW c \in Calls, NotFound(c) PROVE Same
  <2>1. answer[c] = "no"
    BY <1>2 DEF NotFound, AnswersHaveRequests, Actors
  <2> QED BY <1>2, <2>1, NothingCounted DEF NotFound, TypeOK, Actors
<1>3. ASSUME NEW c \in Calls, AnswerStep(c) PROVE Same
  <2>1. /\ kind' = kind /\ stat' = stat /\ at' = at
        /\ answer[c] # "no"
        /\ \E a \in {"setting", "notifying", "given"} :
             answer' = [answer EXCEPT ![c] = a]
    BY <1>3 DEF AnswerStep, Answer, SetValue, ValueSet
  <2> QED BY <2>1, NothingCounted DEF TypeOK, Actors
<1>4. ASSUME NEW c \in SyncCalls, SyncReturns(c) PROVE Same
  BY <1>4, NothingCounted DEF SyncReturns, TypeOK, Actors
<1>5. ASSUME NEW f \in Flushes, FlushOut(f) PROVE Same
  BY <1>5, NothingCounted DEF FlushOut, TypeOK, Actors, AnswersHaveRequests
<1>6. ASSUME NEW f \in Flushes, AnswerFlush(f) PROVE Same
  BY <1>6, NothingCounted DEF AnswerFlush, TypeOK, Actors
<1>7. CASE \/ ReadCounter \/ StatisticsReturned
           \/ BeginClose \/ Disconnect \/ Destroyed \/ UNCHANGED vars
  <2>1. kind' = kind /\ stat' = stat /\ at' = at /\ answer' = answer
    BY <1>7 DEF ReadCounter, StatisticsReturned, BeginClose, Disconnect, Destroyed, vars
  <2> QED BY <2>1, NothingCounted
<1> QED BY <1>1, <1>2, <1>3, <1>4, <1>5, <1>6, <1>7

LEMMA SentKept ==
  ASSUME IInv, SentAreRequests, [Next]_vars
  PROVE  SentAreRequests'
<1> USE ActorsAssumption DEF IInv, object, reader, answers, SentAreRequests, Actors
<1>1. ASSUME NEW c \in Calls, Begin(c) \/ CallStep(c) PROVE SentAreRequests'
  BY <1>1 DEF Begin, CallStep, AnsweredInPlace, NotFound, CountInFlight,
              CountOperations, SyncReturns, Returned, TypeOK
<1>2. ASSUME NEW c \in Calls, AnswerStep(c) PROVE SentAreRequests'
  <2>1. /\ at' = at /\ kind' = kind
        /\ \E a \in {"setting", "notifying", "given"} :
             answer' = [answer EXCEPT ![c] = a]
    BY <1>2 DEF AnswerStep, Answer, SetValue, ValueSet
  <2> QED BY <2>1 DEF TypeOK
<1>3. ASSUME NEW f \in Flushes,
             \/ FlushOut(f) \/ AnswerFlush(f)
             \/ CountFlush(f) \/ CountFlushedOperations(f)
      PROVE  SentAreRequests'
  BY <1>3 DEF FlushOut, CountFlush, CountFlushedOperations, AnswerFlush, TypeOK
<1>4. CASE \/ ReadCounter \/ StatisticsReturned
           \/ BeginClose \/ Disconnect \/ Destroyed \/ Terminated \/ UNCHANGED vars
  BY <1>4 DEF ReadCounter, StatisticsReturned, BeginClose, Disconnect, Destroyed,
              Terminated, vars
<1> QED BY <1>1, <1>2, <1>3, <1>4 DEF Next

\* No counter is ever lowered.
LEMMA CountersGrow ==
  ASSUME IInv, [Next]_vars
  PROVE  \A x \in Counters : stat[x] <= stat'[x]
<1> USE ActorsAssumption DEF IInv
<1>0. stat \in [Counters -> Nat] /\ \A x \in Actors : kind[x] \in Kinds
  BY DEF TypeOK
<1>1. CASE stat' = stat
  BY <1>0, <1>1
<1>2. CASE \E y \in Counters, n \in Nat : stat' = [stat EXCEPT ![y] = @ + n]
  BY <1>0, <1>2, Raising
<1>3. \/ stat' = stat
      \/ \E y \in Counters, n \in Nat : stat' = [stat EXCEPT ![y] = @ + n]
  <2> DEFINE Raised == \E y \in Counters, n \in Nat : stat' = [stat EXCEPT ![y] = @ + n]
  <2>1. ASSUME NEW c \in Calls,
               Begin(c) \/ CountInFlight(c) \/ CountOperations(c)
        PROVE  Raised
    <3>1. kind[c] \in Kinds
      BY <1>0 DEF Actors
    <3>2. \E y \in Counters : stat' = [stat EXCEPT ![y] = @ + 1]
      BY <2>1, <3>1, CounterNames DEF Begin, CountInFlight, CountOperations
    <3> QED BY <3>2
  <2>2. ASSUME NEW f \in Flushes, CountFlush(f) \/ CountFlushedOperations(f)
        PROVE  Raised
    <3>1. kind[f] \in Kinds
      BY <1>0 DEF Actors
    <3>2. CASE CountFlush(f)
      <4>1. ByFlush(kind[f]) \in Counters
        BY <3>1, CounterNames
      <4> QED BY <3>2, <4>1 DEF CountFlush
    <3>3. CASE CountFlushedOperations(f)
      BY <3>3, CounterNames DEF CountFlushedOperations
    <3> QED BY <2>2, <3>2, <3>3
  <2>3. ASSUME NEW c \in Calls, AnsweredInPlace(c) \/ NotFound(c) \/ AnswerStep(c)
                                  \/ (c \in SyncCalls /\ SyncReturns(c))
        PROVE  stat' = stat
    BY <2>3 DEF AnsweredInPlace, NotFound, AnswerStep, Answer, SetValue, ValueSet,
                SyncReturns
  <2>4. ASSUME NEW f \in Flushes, FlushOut(f) \/ AnswerFlush(f) PROVE stat' = stat
    BY <2>4 DEF FlushOut, AnswerFlush
  <2>5. ASSUME \/ ReadCounter \/ StatisticsReturned
               \/ BeginClose \/ Disconnect \/ Destroyed \/ Terminated \/ UNCHANGED vars
        PROVE  stat' = stat
    BY <2>5 DEF ReadCounter, StatisticsReturned, BeginClose, Disconnect, Destroyed,
                Terminated, vars
  <2> HIDE DEF Raised
  <2>6. ASSUME NEW c \in Calls, Begin(c) \/ CallStep(c) \/ AnswerStep(c)
        PROVE  stat' = stat \/ Raised
    <3>1. CASE Begin(c) \/ CountInFlight(c) \/ CountOperations(c)
      <4>1. Raised
        BY <2>1, <3>1
      <4> QED BY <4>1
    <3>2. CASE AnsweredInPlace(c) \/ NotFound(c) \/ AnswerStep(c)
                 \/ (c \in SyncCalls /\ SyncReturns(c))
      <4>1. stat' = stat
        BY <2>3, <3>2
      <4> QED BY <4>1
    <3> QED BY <2>6, <3>1, <3>2 DEF CallStep
  <2>7. (\E f \in Flushes : \/ FlushOut(f) \/ AnswerFlush(f)
                            \/ CountFlush(f) \/ CountFlushedOperations(f))
          => stat' = stat \/ Raised
    BY <2>2, <2>4
  <2>8. stat' = stat \/ Raised
    BY <2>5, <2>6, <2>7 DEF Next
  <2> QED BY <2>8 DEF Raised
<1> QED BY <1>1, <1>2, <1>3

\* Only GetStatistics() changes what it has read.
LEMMA OnlyReads ==
  ASSUME [Next]_vars, ~ReadCounter, ~StatisticsReturned
  PROVE  reading' = reading /\ snapshot' = snapshot
<1> USE DEF reader
<1>1. ASSUME NEW c \in Calls, Begin(c) \/ CallStep(c) \/ AnswerStep(c)
      PROVE  reading' = reading /\ snapshot' = snapshot
  BY <1>1 DEF Begin, CallStep, AnsweredInPlace, NotFound, CountInFlight,
              CountOperations, SyncReturns, AnswerStep, Answer, SetValue, ValueSet
<1>2. ASSUME NEW f \in Flushes,
             \/ FlushOut(f) \/ AnswerFlush(f)
             \/ CountFlush(f) \/ CountFlushedOperations(f)
      PROVE  reading' = reading /\ snapshot' = snapshot
  BY <1>2 DEF FlushOut, CountFlush, CountFlushedOperations, AnswerFlush
<1>3. CASE BeginClose \/ Disconnect \/ Destroyed \/ Terminated \/ UNCHANGED vars
  BY <1>3 DEF BeginClose, Disconnect, Destroyed, Terminated, vars
<1> QED BY <1>1, <1>2, <1>3 DEF Next

\* What a read of GetStatistics() does.
LEMMA OneRead ==
  ASSUME TypeOK, ReadCounter
  PROVE  /\ reading \in 0..9 /\ reading' = reading + 1 /\ stat' = stat
         /\ \A x \in Counters : snapshot'[x] = IF x = ReadOrder[reading + 1]
                                               THEN stat[x] ELSE snapshot[x]
<1>1. reading \in 0..Len(ReadOrder) /\ reading < Len(ReadOrder) /\ reading' = reading + 1
  BY DEF TypeOK, ReadCounter
<1>2. Len(ReadOrder) = 10
  BY ReadOrderNames
<1>3. reading \in 0..9
  BY <1>1, <1>2
<1>4. snapshot' = [snapshot EXCEPT ![ReadOrder[reading + 1]] = stat[ReadOrder[reading + 1]]]
      /\ stat' = stat
  BY DEF ReadCounter
<1> DEFINE y == ReadOrder[reading + 1]
<1>5. \A x \in Counters : snapshot'[x] = IF x = y THEN stat[x] ELSE snapshot[x]
  BY <1>4 DEF TypeOK
<1> QED BY <1>1, <1>3, <1>4, <1>5

LEMMA SnapshotKept ==
  ASSUME IInv, SnapshotBehind, [Next]_vars
  PROVE  SnapshotBehind'
<1> USE DEF IInv, SnapshotBehind
<1>0. \A x \in Counters : stat[x] \in Nat /\ snapshot[x] \in Nat
  BY DEF TypeOK
<1>1. CASE ReadCounter
  <2>1. stat' = stat /\ \A x \in Counters : snapshot'[x] = stat[x] \/ snapshot'[x] = snapshot[x]
    BY <1>1, OneRead
  <2> QED BY <1>0, <2>1
<1>2. CASE StatisticsReturned
  BY <1>0, <1>2 DEF StatisticsReturned, Zero
<1>3. CASE ~ReadCounter /\ ~StatisticsReturned
  <2>1. snapshot' = snapshot
    BY <1>3, OnlyReads
  <2>2. \A x \in Counters : stat[x] <= stat'[x] /\ stat'[x] \in Nat
    BY CountersGrow, StepKeeps DEF TypeOK
  <2> QED BY <1>0, <2>1, <2>2
<1> QED BY <1>1, <1>2, <1>3

LEMMA StatStep == IInv /\ StatInv /\ [Next]_vars => StatInv'
<1> SUFFICES ASSUME IInv, StatInv, [Next]_vars PROVE StatInv'
  OBVIOUS
<1>1. SentAreRequests' /\ SnapshotBehind'
  BY SentKept, SnapshotKept DEF StatInv
<1>2. RequestsTally' /\ OperationsTally'
  BY OthersTally, BeginTallies, CountTallies, CountOperationsTallies,
     CountFlushTallies, CountFlushedOperationsTallies
  DEF Next, CallStep, Terminated
<1> QED BY <1>1, <1>2 DEF StatInv

\* What the last read finishes adds up.
LEMMA LastReadAddsUp == IInv /\ StatInv /\ [Next]_vars => SnapshotAddsUp
<1> SUFFICES ASSUME IInv, StatInv, [Next]_vars,
                    reading' = Len(ReadOrder), reading < Len(ReadOrder)
             PROVE  /\ \A x \in Counters : snapshot'[x] <= stat[x]
                    /\ \A k \in Kinds : snapshot'[InFlight(k)] - snapshot'[Total(k)]
                                          <= stat[Total(k)] - snapshot'[Total(k)]
                    /\ snapshot'[InFlight("report")]
                         + FlushedOps * snapshot'[ByFlush("report")]
                         <= snapshot'[Operations] + Uncounted
  BY DEF SnapshotAddsUp
<1>1. /\ TypeOK /\ TypeOK' /\ SnapshotBehind /\ OperationsTally /\ CountersCatchUp
      /\ FlushedOps \in Nat
  BY StepKeeps, TallyCatchesUp, ActorsAssumption DEF IInv, StatInv
<1>2. ReadCounter
  <2>1. Len(ReadOrder) = 10 /\ reading < 10 /\ reading' = 10
    BY ReadOrderNames, Zenon
  <2>2. ~StatisticsReturned
    BY <2>1 DEF StatisticsReturned
  <2> QED BY <2>1, <2>2, OnlyReads
<1>3. /\ reading + 1 = 10
      /\ \A x \in Counters : snapshot'[x] = IF x = Operations THEN stat[x] ELSE snapshot[x]
  <2>1. /\ reading \in 0..9 /\ reading' = reading + 1
        /\ \A x \in Counters : snapshot'[x] = IF x = ReadOrder[reading + 1]
                                              THEN stat[x] ELSE snapshot[x]
    BY <1>1, <1>2, OneRead
  <2>2. reading + 1 = 10
    BY <2>1, ReadOrderNames
  <2> QED BY <2>1, <2>2, ReadOrderNames
<1>4. \A x \in Counters : /\ stat[x] \in Nat /\ snapshot'[x] \in Nat
                          /\ snapshot'[x] <= stat[x]
  <2>1. ASSUME NEW x \in Counters
        PROVE  /\ stat[x] \in Nat /\ snapshot[x] \in Nat /\ snapshot'[x] \in Nat
               /\ snapshot[x] <= stat[x]
    BY <1>1 DEF TypeOK, SnapshotBehind
  <2>2. ASSUME NEW x \in Counters
        PROVE  snapshot'[x] = stat[x] \/ snapshot'[x] = snapshot[x]
    BY <1>3
  <2> QED BY <2>1, <2>2
<1>5. \A k \in Kinds : snapshot'[InFlight(k)] - snapshot'[Total(k)]
                         <= stat[Total(k)] - snapshot'[Total(k)]
  <2>1. ASSUME NEW k \in Kinds
        PROVE  snapshot'[InFlight(k)] - snapshot'[Total(k)]
                 <= stat[Total(k)] - snapshot'[Total(k)]
    <3>1. InFlight(k) \in Counters /\ Total(k) \in Counters
      BY CounterNames
    <3>2. stat[InFlight(k)] <= stat[Total(k)]
      BY <1>1 DEF CountersCatchUp
    <3> QED BY <1>4, <3>1, <3>2
  <2> QED BY <2>1
<1>6. snapshot'[InFlight("report")] + FlushedOps * snapshot'[ByFlush("report")]
        <= snapshot'[Operations] + Uncounted
  <2> DEFINE m == FlushedOps * snapshot'[ByFlush("report")]
             n == FlushedOps * stat[ByFlush("report")]
             i == snapshot'[InFlight("report")]
             j == stat[InFlight("report")]
  <2>1. m \in Nat /\ n \in Nat /\ m <= n /\ i \in Nat /\ j \in Nat /\ i <= j
    BY <1>1, <1>4, CounterNames, Products
  <2>2. snapshot'[Operations] = stat[Operations]
    BY <1>3, CounterNames
  <2>3. stat[Operations] + Uncounted = j + n
    BY <1>1, OwedOperations
  <2> HIDE DEF i, j, m, n
  <2>4. i + m <= j + n
    BY <2>1
  <2> QED BY <2>2, <2>3, <2>4 DEF i, m
<1> QED BY <1>4, <1>5, <1>6

-----------------------------------------------------------------------------
\* The inductive invariant, for any calls, flushes and threads: who owes each
\* call its answer, who owns each promise, who holds the client and its
\* aggregators, that the counters are what was counted so far, less what threads
\* between two counters have still to add, and that GetStatistics() has read no
\* counter before it was raised.
THEOREM Invariance == Spec => [](IInv /\ StatInv)
<1>1. Init => IInv /\ StatInv
  BY InitHolds, StatInit
<1>2. IInv /\ StatInv /\ [Next]_vars => (IInv /\ StatInv)'
  BY StepKeeps, StatStep
<1> QED BY <1>1, <1>2, PTL DEF Spec

\* Whatever the threads, the transports and the destructor do, the variables
\* stay in their types, and no on_done runs twice.
THEOREM TypeCorrect == Spec => []TypeOK
<1>1. IInv => TypeOK
  BY DEF IInv
<1> QED BY <1>1, Invariance, PTL

\* Every call is owed one run of on_done until it has it, for any calls.
THEOREM AnsweredOnce == Spec => []OneAnswerPerCall
<1>1. IInv => OneAnswerPerCall
  BY DEF IInv
<1> QED BY <1>1, Invariance, PTL

\* Answers never use the aggregators, the promises or the members of a client
\* that are gone, except for the answers to flushed quota requests.
THEOREM OwnCopies == Spec => []AnswersUseOwnCopies
<1>1. IInv => AnswersUseOwnCopies
  BY DEF IInv
<1> QED BY <1>1, Invariance, PTL

\* For any number of calls and flushed requests, raised and read one counter at a
\* time: each request is counted once, the operations of a report after it, and
\* what GetStatistics() returns adds up but for the threads between the two.
THEOREM StatisticsExact == Spec => StatisticsCatchUp
<1> DEFINE Inv == IInv /\ StatInv
<1>1. Spec => []Inv
  BY Invariance
<1>2. Inv => CountersCatchUp
  BY TallyCatchesUp
<1>3. Inv /\ [Next]_vars => [SnapshotAddsUp]_vars
  BY LastReadAddsUp
<1>4. Spec => []CountersCatchUp
  BY <1>1, <1>2, PTL
<1> HIDE DEF Inv
<1>5. Spec => [][SnapshotAddsUp]_vars
  BY <1>1, <1>3, PTL DEF Spec
<1> QED BY <1>4, <1>5, PTL DEF StatisticsCatchUp
=============================================================================
