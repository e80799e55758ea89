---------------------- MODULE CacheRemovedItemsHandler ----------------------
(***************************************************************************)
(* How the threads of a process share an aggregator, from cache_mutex_ to  *)
(* the flush callback: CacheRemovedItemsHandler                            *)
(* (src/cache_removed_items_handler.h), the pattern every operation of the *)
(* three aggregators wraps around its cache, and the destructor of the     *)
(* client that disconnects the callback.                                   *)
(*                                                                         *)
(* An operation takes cache_mutex_, makes stack_buffer_ point to a buffer  *)
(* on its own stack, and collects there what leaves the cache.  When it    *)
(* has released the lock the buffer is destroyed, and each of its requests *)
(* goes to the flush callback under callback_mutex_.  The callback calls   *)
(* the transport, which may answer in place: then the quota client enters  *)
(* its aggregator once more, from inside the callback.                     *)
(*                                                                         *)
(* What the cache keeps is abstracted to a set of items; which of them an  *)
(* operation adds and which leave during it is left open.                  *)
(***************************************************************************)
EXTENDS Integers, Sequences, FiniteSets

CONSTANTS
  Users,        \* threads that call the client
  Background,   \* threads of timers and transports: they hold references to
                \* the aggregator and may enter it after the client is gone
  Owner,        \* the user that destroys the client
  Nobody,       \* holder of a free mutex
  Items,        \* what is cached and flushed
  MergeLimit,   \* operations one request may carry: kMaxOperationsToSend for
                \* reports; 1 for checks and quotas, which never merge
  InPlace,      \* whether the transport may answer a quota call in place
  MaxOps        \* bound: operations one thread starts

VARIABLES
  cached,        \* items in the cache
  fresh,         \* items not yet given to the client
  cacheMutex,    \* holder of cache_mutex_
  callbackMutex, \* holder of callback_mutex_
  stackBuffer,   \* stack_buffer_: the owner and depth of a frame, or Nobody
  frames,        \* per thread, its calls into the aggregator, innermost last
  connected,     \* flush_callback_ is set
  delivered,     \* history: per item, requests with it given to the transport
  discarded,     \* history: items that met a disconnected callback
  closing,       \* progress of the client's destructor
  begun          \* bound: operations each thread has started

vars == <<cached, fresh, cacheMutex, callbackMutex, stackBuffer, frames,
          connected, delivered, discarded, closing, begun>>

Threads == Users \cup Background

ASSUME ThreadsAssumption ==
  /\ Owner \in Users
  /\ Users \cap Background = {}
  /\ Nobody \notin Threads
  /\ Nobody \notin Threads \X Nat

ASSUME LimitsAssumption ==
  /\ MergeLimit \in Nat \ {0}
  /\ InPlace \in BOOLEAN
  /\ MaxOps \in Nat

-----------------------------------------------------------------------------
(* Frames.  at: "lock", the constructed StackBuffer waits for cache_mutex_;   *)
(* "swap", the lock is held; "work", stack_buffer_ points to this frame;   *)
(* "unlock", it was reset; "flush", the lock is released and the buffer is *)
(* being destroyed; "callback", the callback runs; "answered", it ran and  *)
(* the transport answered in place.                                        *)

Frame(all) == [at |-> "lock", all |-> all, requests |-> <<>>]

Idle(t) == frames[t] = <<>>

Depth(t) == Len(frames[t])

Top(t) == frames[t][Depth(t)]

At(t, places) == ~Idle(t) /\ Top(t).at \in places

MovedTo(t, place) == [frames EXCEPT ![t][Depth(t)].at = place]

Pushed(t, all) == [frames EXCEPT ![t] = Append(@, Frame(all))]

\* Mutated form: an item that does not fit replaces the last request.
AddedOverwriting(requests, item) ==
  LET last == Len(requests)
  IN IF last > 0 THEN [requests EXCEPT ![last] = {item}] ELSE <<{item}>>

\* StackBuffer::Add(): an item joins the last request when it still fits.
Added(requests, item) ==
  LET last == Len(requests)
  IN IF last > 0 /\ Cardinality(requests[last]) + 1 <= MergeLimit
     THEN [requests EXCEPT ![last] = @ \cup {item}]
     ELSE Append(requests, {item})

-----------------------------------------------------------------------------
Init ==
  /\ cached = {}
  /\ fresh = Items
  /\ cacheMutex = Nobody
  /\ callbackMutex = Nobody
  /\ stackBuffer = Nobody
  /\ frames = [t \in Threads |-> <<>>]
  /\ connected = TRUE
  /\ delivered = [i \in Items |-> 0]
  /\ discarded = {}
  /\ closing = "no"
  /\ begun = [t \in Threads |-> 0]

\* A thread calls an operation of the aggregator and constructs its
\* StackBuffer: a user while there is a client, a timer or a late answer at
\* any time.  FlushAll() is one of the operations users call.
Begin(t, all) ==
  /\ Idle(t)
  /\ begun[t] < MaxOps
  /\ t \in Users => closing = "no"
  /\ all => t \in Users
  /\ begun' = [begun EXCEPT ![t] = @ + 1]
  /\ frames' = Pushed(t, all)
  /\ UNCHANGED <<cached, fresh, cacheMutex, callbackMutex, stackBuffer,
                 connected, delivered, discarded, closing>>

Lock(t) ==
  /\ At(t, {"lock"})
  /\ cacheMutex = Nobody
  /\ cacheMutex' = t
  /\ frames' = MovedTo(t, "swap")
  /\ UNCHANGED <<cached, fresh, callbackMutex, stackBuffer, connected,
                 delivered, discarded, closing, begun>>

\* Mutated form: the pointer is one frame short.
SwapShort(t) ==
  /\ At(t, {"swap"})
  /\ stackBuffer' = <<t, Depth(t) - 1>>
  /\ frames' = MovedTo(t, "work")
  /\ UNCHANGED <<cached, fresh, cacheMutex, callbackMutex, connected,
                 delivered, discarded, closing, begun>>

\* The constructor of Swapper.
Swap(t) ==
  /\ At(t, {"swap"})
  /\ stackBuffer' = <<t, Depth(t)>>
  /\ frames' = MovedTo(t, "work")
  /\ UNCHANGED <<cached, fresh, cacheMutex, callbackMutex, connected,
                 delivered, discarded, closing, begun>>

\* The operation of a user adds an item to the cache.
Put(t, i) ==
  /\ At(t, {"work"})
  /\ t \in Users /\ Depth(t) = 1 /\ closing = "no"
  /\ i \in fresh
  /\ fresh' = fresh \ {i}
  /\ cached' = cached \cup {i}
  /\ UNCHANGED <<cacheMutex, callbackMutex, stackBuffer, frames, connected,
                 delivered, discarded, closing, begun>>

\* An item leaves the cache: OnCacheEntryDelete() gives it to AddRemovedItem(),
\* which follows stack_buffer_, whosever buffer that is.
Remove(t, i) ==
  /\ At(t, {"work"})
  /\ i \in cached
  /\ cached' = cached \ {i}
  /\ frames' = IF stackBuffer = Nobody THEN frames
               ELSE [frames EXCEPT ![stackBuffer[1]][stackBuffer[2]].requests =
                                     Added(@, i)]
  /\ UNCHANGED <<fresh, cacheMutex, callbackMutex, stackBuffer, connected,
                 delivered, discarded, closing, begun>>

\* Mutated form: the lock is released before stack_buffer_ is reset.
UnswapAfterUnlock(t) ==
  /\ At(t, {"work"})
  /\ Top(t).all => cached = {}
  /\ cacheMutex' = Nobody
  /\ frames' = MovedTo(t, "unlock")
  /\ UNCHANGED <<cached, fresh, callbackMutex, stackBuffer, connected,
                 delivered, discarded, closing, begun>>

\* The destructor of Swapper, when the operation is done: FlushAll() only when
\* the cache is empty.
Unswap(t) ==
  /\ At(t, {"work"})
  /\ Top(t).all => cached = {}
  /\ stackBuffer' = Nobody
  /\ frames' = MovedTo(t, "unlock")
  /\ UNCHANGED <<cached, fresh, cacheMutex, callbackMutex, connected,
                 delivered, discarded, closing, begun>>

Unlock(t) ==
  /\ At(t, {"unlock"})
  /\ cacheMutex' = Nobody
  /\ frames' = MovedTo(t, "flush")
  /\ UNCHANGED <<cached, fresh, callbackMutex, stackBuffer, connected,
                 delivered, discarded, closing, begun>>

NextRequest(t) == Head(Top(t).requests)

\* Mutated form: a request stays in the buffer when its callback is called.
FlushOutKeeping(t) ==
  /\ At(t, {"flush"})
  /\ Top(t).requests # <<>>
  /\ callbackMutex = Nobody
  /\ connected
  /\ callbackMutex' = t
  /\ frames' = MovedTo(t, "callback")
  /\ delivered' = [i \in Items |-> delivered[i] +
                     (IF i \in NextRequest(t) THEN 1 ELSE 0)]
  /\ UNCHANGED <<cached, fresh, cacheMutex, stackBuffer, connected, discarded,
                 closing, begun>>

\* FlushOut() of the next request: the callback is called with callback_mutex_
\* held, or, when there is none, the request is dropped.
FlushOut(t) ==
  /\ At(t, {"flush"})
  /\ Top(t).requests # <<>>
  /\ callbackMutex = Nobody
  /\ IF connected
     THEN /\ callbackMutex' = t
          /\ frames' = [frames EXCEPT ![t][Depth(t)] =
                          [Top(t) EXCEPT !.at = "callback", !.requests = Tail(@)]]
          /\ delivered' = [i \in Items |-> delivered[i] +
                             (IF i \in NextRequest(t) THEN 1 ELSE 0)]
          /\ UNCHANGED discarded
     ELSE /\ frames' = [frames EXCEPT ![t][Depth(t)].requests = Tail(@)]
          /\ discarded' = discarded \cup NextRequest(t)
          /\ UNCHANGED <<callbackMutex, delivered>>
  /\ UNCHANGED <<cached, fresh, cacheMutex, stackBuffer, connected, closing,
                 begun>>

\* The transport calls on_done before it returns: CacheResponse() enters the
\* aggregator from the callback.
AnswerInPlace(t) ==
  /\ InPlace
  /\ At(t, {"callback"})
  /\ frames' = [MovedTo(t, "answered") EXCEPT ![t] = Append(@, Frame(FALSE))]
  /\ UNCHANGED <<cached, fresh, cacheMutex, callbackMutex, stackBuffer,
                 connected, delivered, discarded, closing, begun>>

\* Mutated form: callback_mutex_ stays locked.
CallbackReturnsLocked(t) ==
  /\ At(t, {"callback", "answered"})
  /\ frames' = MovedTo(t, "flush")
  /\ UNCHANGED <<cached, fresh, cacheMutex, callbackMutex, stackBuffer,
                 connected, delivered, discarded, closing, begun>>

CallbackReturns(t) ==
  /\ At(t, {"callback", "answered"})
  /\ callbackMutex' = Nobody
  /\ frames' = MovedTo(t, "flush")
  /\ UNCHANGED <<cached, fresh, cacheMutex, stackBuffer, connected, delivered,
                 discarded, closing, begun>>

\* Mutated form: the buffer is destroyed after its first request.
FinishEarly(t) ==
  /\ At(t, {"flush"})
  /\ frames' = [frames EXCEPT ![t] = SubSeq(@, 1, Len(@) - 1)]
  /\ UNCHANGED <<cached, fresh, cacheMutex, callbackMutex, stackBuffer,
                 connected, delivered, discarded, closing, begun>>

\* The buffer is destroyed and the operation returns.
Finish(t) ==
  /\ At(t, {"flush"})
  /\ Top(t).requests = <<>>
  /\ frames' = [frames EXCEPT ![t] = SubSeq(@, 1, Len(@) - 1)]
  /\ UNCHANGED <<cached, fresh, cacheMutex, callbackMutex, stackBuffer,
                 connected, delivered, discarded, closing, begun>>

\* ~ServiceControlClientImpl(), when no user is in a call: FlushAll(), ...
BeginClose ==
  /\ closing = "no"
  /\ \A u \in Users : Idle(u)
  /\ closing' = "flushing"
  /\ frames' = Pushed(Owner, TRUE)
  /\ UNCHANGED <<cached, fresh, cacheMutex, callbackMutex, stackBuffer,
                 connected, delivered, discarded, begun>>

\* Mutated form: the callback is cleared without callback_mutex_.
DisconnectUnlocked ==
  /\ closing = "flushing"
  /\ Idle(Owner)
  /\ closing' = "closed"
  /\ connected' = FALSE
  /\ UNCHANGED <<cached, fresh, cacheMutex, callbackMutex, stackBuffer, frames,
                 delivered, discarded, begun>>

\* ... Stop() of the timer, which waits for nobody, and SetFlushCallback(NULL).
Disconnect ==
  /\ closing = "flushing"
  /\ Idle(Owner)
  /\ callbackMutex = Nobody
  /\ closing' = "closed"
  /\ connected' = FALSE
  /\ UNCHANGED <<cached, fresh, cacheMutex, callbackMutex, stackBuffer, frames,
                 delivered, discarded, begun>>

\* What a thread does on its own once it is in a call.
Step(t) ==
  \/ Lock(t)
  \/ Swap(t)
  \/ \E i \in Items : Put(t, i) \/ Remove(t, i)
  \/ Unswap(t)
  \/ Unlock(t)
  \/ FlushOut(t)
  \/ AnswerInPlace(t)
  \/ CallbackReturns(t)
  \/ Finish(t)

\* The client is gone and no thread will enter the aggregator again.
Terminated ==
  /\ closing = "closed"
  /\ \A t \in Threads : Idle(t) /\ (t \in Background => begun[t] = MaxOps)
  /\ UNCHANGED vars

Next ==
  \/ \E t \in Threads : Step(t) \/ \E all \in BOOLEAN : Begin(t, all)
  \/ BeginClose
  \/ Disconnect
  \/ Terminated

Spec == Init /\ [][Next]_vars

\* A thread in a call goes on when it can.  Each thread starts MaxOps
\* operations at most, so that a mutex is free for the others time and again.
Fairness == WF_vars(Disconnect) /\ \A t \in Threads : WF_vars(Step(t))

FairSpec == Spec /\ Fairness

-----------------------------------------------------------------------------
(* Properties.                                                             *)

\* Type invariant of the handler and of the calls into it.
TypeOK ==
  /\ cached \subseteq Items
  /\ fresh \subseteq Items
  /\ cacheMutex \in Threads \cup {Nobody}
  /\ callbackMutex \in Threads \cup {Nobody}
  /\ stackBuffer \in (Threads \X (Nat \ {0})) \cup {Nobody}
  /\ frames \in [Threads ->
       Seq([at : {"lock", "swap", "work", "unlock", "flush", "callback",
                  "answered"},
            all : BOOLEAN, requests : Seq(SUBSET Items)])]
  /\ connected \in BOOLEAN
  /\ delivered \in [Items -> Nat]
  /\ discarded \subseteq Items
  /\ closing \in {"no", "flushing", "closed"}
  /\ begun \in [Threads -> Nat]

\* stack_buffer_ never outlives the critical section it was set in: it points
\* to the frame that holds cache_mutex_, so that no thread adds to a buffer
\* that another one is emptying, or that is gone.
OwnBuffer ==
  stackBuffer # Nobody =>
    /\ stackBuffer[1] = cacheMutex
    /\ stackBuffer[2] = Depth(cacheMutex)
    /\ At(cacheMutex, {"work"})

\* The items in the buffers of all threads, those of FlushAll() included.
Buffered ==
  {i \in Items : \E t \in Threads : \E d \in 1 .. Depth(t) :
     \E r \in 1 .. Len(frames[t][d].requests) : i \in frames[t][d].requests[r]}

Promised == INSTANCE Delivery
  WITH Limit <- MergeLimit, pending <- cached \cup Buffered,
       given <- delivered, dropped <- discarded, open <- connected

\* The threads and locks of the handler implement Delivery: between them they
\* lose no item, give none to the transport twice, put no more into a request
\* than it may carry, and drop nothing before the client is closed.
DeliversEachOnce == Promised!Spec

\* Once the destructor has disconnected the callback no thread is inside it:
\* nobody uses the client that is going away.
QuietAfterDisconnect ==
  closing = "closed" => \A t \in Threads : \A d \in 1 .. Depth(t) :
                          frames[t][d].at \notin {"callback", "answered"}

\* Thread t waits for callback_mutex_, which it holds itself.
WaitsForItself(t) ==
  At(t, {"flush"}) /\ Top(t).requests # <<>> /\ callbackMutex = t

\* cache_removed_items_handler.h:26-33 buffers removed items so that a callback
\* that calls the aggregator again does not cause "dead lock": no thread waits
\* for a mutex it holds itself.
NoSelfDeadlock == \A t \in Threads : ~WaitsForItself(t)

\* The destructor of the client returns, whatever other threads do, unless one
\* of them waits for itself.
ClientCloses == closing = "flushing" ~> (closing = "closed" \/ ~NoSelfDeadlock)

\* What left the cache is given to the transport or, after the client is gone,
\* discarded: it does not stay in a buffer, unless a thread waits for itself.
RemovedItemsLeave ==
  \A i \in Items : (i \notin fresh /\ i \notin cached) ~>
                     (delivered[i] > 0 \/ i \in discarded \/ ~NoSelfDeadlock)

\* service_control_client_impl.cc:117 says of FlushAll() in the destructor:
\* "Flush out all cached data".  No item given to the client is discarded.
AllFlushedOut == discarded = {}
=============================================================================
