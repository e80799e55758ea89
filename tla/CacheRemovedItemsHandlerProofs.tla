------------------- MODULE CacheRemovedItemsHandlerProofs -------------------
(***************************************************************************)
(* Proofs about CacheRemovedItemsHandler, for any number of threads, items *)
(* and operations, with and without answers in place: stack_buffer_ stays  *)
(* inside its critical section, no callback runs once the client has       *)
(* disconnected it, and the threads and locks implement Delivery.          *)
(*                                                                         *)
(* Every step changes the innermost frame of one thread, or adds one, or   *)
(* takes one off.  The lemmas of the first part say so, and the invariant  *)
(* is about the places of the frames only.                                 *)
(*                                                                         *)
(* The step simulation of the second part rests on one more invariant,     *)
(* that an item is in one place only: not yet given to the client, in the  *)
(* cache, or in one request of one buffer.  Without it a request given to  *)
(* the transport could still be pending somewhere else.                    *)
(***************************************************************************)
EXTENDS CacheRemovedItemsHandler, FiniteSetTheorems, SequenceTheorems, TLAPS

Places ==
  {"lock", "swap", "work", "unlock", "flush", "callback", "answered"}

FrameType == [at : Places, all : BOOLEAN, requests : Seq(SUBSET Items)]

\* The frames of a thread are a sequence of frames.
LEMMA TypeOfFrames == TypeOK => frames \in [Threads -> Seq(FrameType)]
BY DEF TypeOK, FrameType, Places

-----------------------------------------------------------------------------
(* Frames.                                                                 *)

\* The innermost frame of t is replaced by f.
TopReplaced(t, f) ==
  /\ frames' \in [Threads -> Seq(FrameType)]
  /\ \A u \in Threads \ {t} : frames'[u] = frames[u]
  /\ Len(frames'[t]) = Len(frames[t])
  /\ \A d \in 1 .. Len(frames[t]) :
       frames'[t][d] = IF d = Len(frames[t]) THEN f ELSE frames[t][d]

\* A thread in a call has an innermost frame.
LEMMA InnermostFrame ==
  ASSUME TypeOK, NEW t \in Threads, ~Idle(t)
  PROVE  /\ Depth(t) \in Nat \ {0}
         /\ Top(t) \in FrameType
         /\ Depth(t) = Len(frames[t])
         /\ Top(t) = frames[t][Len(frames[t])]
BY TypeOfFrames DEF Idle, Depth, Top

\* An update of the innermost frame replaces it, and nothing else.
LEMMA ReplaceTop ==
  ASSUME TypeOK, NEW t \in Threads, ~Idle(t), NEW f \in FrameType,
         frames' = [frames EXCEPT ![t][Depth(t)] = f]
  PROVE  TopReplaced(t, f)
<1> DEFINE n == Len(frames[t])
           s == [frames[t] EXCEPT ![n] = f]
<1>1. n \in Nat \ {0} /\ frames[t] \in Seq(FrameType)
  BY InnermostFrame, TypeOfFrames
<1>2. frames' = [frames EXCEPT ![t] = s]
  BY InnermostFrame
<1>3. s \in Seq(FrameType) /\ Len(s) = n
      /\ \A d \in 1 .. n : s[d] = IF d = n THEN f ELSE frames[t][d]
  BY <1>1
<1> HIDE DEF s
<1>4. frames'[t] = s /\ \A u \in Threads \ {t} : frames'[u] = frames[u]
  BY <1>2, TypeOfFrames
<1>5. frames' \in [Threads -> Seq(FrameType)]
  BY <1>2, <1>3, TypeOfFrames
<1> QED BY <1>3, <1>4, <1>5 DEF TopReplaced

\* The innermost frame of t is now at place.
Moved(t, place) == \E f \in FrameType : f.at = place /\ TopReplaced(t, f)

\* MovedTo() moves the innermost frame.
LEMMA MoveTop ==
  ASSUME TypeOK, NEW t \in Threads, ~Idle(t), NEW place \in Places,
         frames' = MovedTo(t, place)
  PROVE  Moved(t, place)
<1> DEFINE f == [Top(t) EXCEPT !.at = place]
<1>1. f \in FrameType /\ f.at = place
  BY InnermostFrame DEF FrameType
<1>2. frames' = [frames EXCEPT ![t][Depth(t)] = f]
  BY DEF MovedTo, Top
<1> HIDE DEF f
<1> QED BY <1>1, <1>2, ReplaceTop DEF Moved

\* A frame for a new call of the aggregator is added to those of t.
FramePushed(t) ==
  /\ frames' \in [Threads -> Seq(FrameType)]
  /\ \A u \in Threads \ {t} : frames'[u] = frames[u]
  /\ Len(frames'[t]) = Len(frames[t]) + 1
  /\ \A d \in 1 .. Len(frames[t]) : frames'[t][d] = frames[t][d]
  /\ frames'[t][Len(frames[t]) + 1].at = "lock"
  /\ frames'[t][Len(frames[t]) + 1].requests = <<>>

\* Pushed() adds a frame.
LEMMA PushFrame ==
  ASSUME TypeOK, NEW t \in Threads, NEW all \in BOOLEAN, frames' = Pushed(t, all)
  PROVE  FramePushed(t)
<1> DEFINE s == Append(frames[t], Frame(all))
<1>1. Frame(all) \in FrameType /\ Frame(all).at = "lock" /\ Frame(all).requests = <<>>
  BY DEF Frame, FrameType, Places
<1>2. frames' = [frames EXCEPT ![t] = s]
  BY DEF Pushed
<1>3. /\ s \in Seq(FrameType)
      /\ Len(s) = Len(frames[t]) + 1
      /\ \A d \in 1 .. Len(frames[t]) : s[d] = frames[t][d]
      /\ s[Len(frames[t]) + 1] = Frame(all)
  BY <1>1, TypeOfFrames
<1> HIDE DEF s
<1>4. frames'[t] = s /\ \A u \in Threads \ {t} : frames'[u] = frames[u]
  BY <1>2, TypeOfFrames
<1>5. frames' \in [Threads -> Seq(FrameType)]
  BY <1>2, <1>3, TypeOfFrames
<1> QED BY <1>1, <1>3, <1>4, <1>5 DEF FramePushed

\* The innermost frame of t is gone.
FramePopped(t) ==
  /\ frames' \in [Threads -> Seq(FrameType)]
  /\ \A u \in Threads \ {t} : frames'[u] = frames[u]
  /\ Len(frames'[t]) = Len(frames[t]) - 1
  /\ \A d \in 1 .. Len(frames[t]) - 1 : frames'[t][d] = frames[t][d]

\* The frame of a call that returns is taken off.
LEMMA PopFrame ==
  ASSUME TypeOK, NEW t \in Threads, ~Idle(t),
         frames' = [frames EXCEPT ![t] = SubSeq(@, 1, Len(@) - 1)]
  PROVE  FramePopped(t)
<1> DEFINE s == SubSeq(frames[t], 1, Len(frames[t]) - 1)
<1>1. Len(frames[t]) \in Nat \ {0} /\ frames[t] \in Seq(FrameType)
  BY InnermostFrame, TypeOfFrames
<1>2. /\ s \in Seq(FrameType)
      /\ Len(s) = Len(frames[t]) - 1
      /\ \A d \in 1 .. Len(frames[t]) - 1 : s[d] = frames[t][d]
  BY <1>1
<1> HIDE DEF s
<1>3. frames' = [frames EXCEPT ![t] = s]
  BY DEF s
<1>4. frames'[t] = s /\ \A u \in Threads \ {t} : frames'[u] = frames[u]
  BY <1>3, TypeOfFrames
<1>5. frames' \in [Threads -> Seq(FrameType)]
  BY <1>2, <1>3, TypeOfFrames
<1> QED BY <1>2, <1>4, <1>5 DEF FramePopped

\* What a request buffer becomes is a request buffer.
LEMMA AddedType ==
  ASSUME NEW r \in Seq(SUBSET Items), NEW i \in Items
  PROVE  Added(r, i) \in Seq(SUBSET Items)
<1>1. CASE Len(r) > 0
  <2>1. r[Len(r)] \cup {i} \in SUBSET Items
    BY <1>1
  <2> QED BY <1>1, <2>1 DEF Added
<1>2. CASE ~(Len(r) > 0)
  BY <1>2 DEF Added
<1> QED BY <1>1, <1>2

-----------------------------------------------------------------------------
(* The inductive invariant.                                                *)

Critical == {"swap", "work", "unlock"}

Calling == {"callback", "answered"}

Place(t, d) == frames[t][d].at

Inner(t, place) == Depth(t) > 0 /\ Place(t, Depth(t)) = place

\* The holder of cache_mutex_ is in its critical section.
Locked ==
  \A t \in Threads : \A d \in 1 .. Depth(t) :
    Place(t, d) \in Critical => cacheMutex = t

\* stack_buffer_ points to the innermost frame of the holder, and it does so
\* for as long as that frame is at work.
Swapped ==
  /\ stackBuffer # Nobody =>
       /\ cacheMutex \in Threads
       /\ stackBuffer = <<cacheMutex, Depth(cacheMutex)>>
       /\ Inner(cacheMutex, "work")
  /\ \A t \in Threads : Inner(t, "work") => stackBuffer # Nobody

\* A callback runs in one frame of one thread, the holder of callback_mutex_.
\* Frames further out than the innermost one are inside it.
Called ==
  \A t \in Threads : \A d \in 1 .. Depth(t) :
    /\ Place(t, d) \in Calling => callbackMutex = t
    /\ d < Depth(t) => Place(t, d) = "answered"
    /\ \A c \in 1 .. Depth(t) :
         Place(t, c) \in Calling /\ Place(t, d) \in Calling => c = d

\* The client is closed when it is disconnected, and then no callback runs.
Closed ==
  /\ closing = "closed" => ~connected
  /\ ~connected => \A t \in Threads : \A d \in 1 .. Depth(t) :
                     Place(t, d) \notin Calling

IInv == TypeOK /\ Locked /\ Swapped /\ Called /\ Closed

\* The guards of the actions, in terms of places.
LEMMA AtByPlace ==
  ASSUME TypeOK, NEW t \in Threads, NEW P
  PROVE  /\ At(t, P) <=> Depth(t) > 0 /\ Place(t, Depth(t)) \in P
         /\ Idle(t) <=> Depth(t) = 0
         /\ Depth(t) \in Nat
BY TypeOfFrames DEF At, Idle, Depth, Top, Place

\* The invariant is strong enough.
LEMMA InvariantImplies == IInv => OwnBuffer /\ QuietAfterDisconnect
<1> SUFFICES ASSUME IInv PROVE OwnBuffer /\ QuietAfterDisconnect
  OBVIOUS
<1>1. TypeOK
  BY DEF IInv
<1>2. OwnBuffer
  <2> SUFFICES ASSUME stackBuffer # Nobody
               PROVE  /\ stackBuffer[1] = cacheMutex
                      /\ stackBuffer[2] = Depth(cacheMutex)
                      /\ At(cacheMutex, {"work"})
    BY DEF OwnBuffer
  <2>1. /\ cacheMutex \in Threads
        /\ stackBuffer = <<cacheMutex, Depth(cacheMutex)>>
        /\ Inner(cacheMutex, "work")
    BY DEF IInv, Swapped
  <2>2. At(cacheMutex, {"work"})
    BY <1>1, <2>1, AtByPlace DEF Inner
  <2> QED BY <2>1, <2>2
<1>3. QuietAfterDisconnect
  BY DEF IInv, QuietAfterDisconnect, Closed, Calling, Place
<1> QED BY <1>2, <1>3

\* It holds at first.
LEMMA InitHolds == Init => IInv
<1> SUFFICES ASSUME Init PROVE IInv
  OBVIOUS
<1>1. \A t \in Threads : frames[t] = <<>> /\ Depth(t) = 0 /\ ~Inner(t, "work")
  BY DEF Init, Depth, Inner
<1>2. TypeOK
  BY <1>1 DEF Init, TypeOK
<1> QED
  BY <1>1, <1>2 DEF Init, IInv, Locked, Swapped, Called, Closed

-----------------------------------------------------------------------------
(* Type correctness.                                                       *)

\* What a step of a thread does to its frames.
LEMMA StepFrames ==
  ASSUME IInv, NEW t \in Threads, Step(t)
  PROVE  \/ Lock(t) /\ Moved(t, "swap")
         \/ Swap(t) /\ Moved(t, "work")
         \/ \E i \in Items : Put(t, i) /\ UNCHANGED frames
         \/ \E i \in Items : Remove(t, i) /\ Moved(t, "work")
         \/ Unswap(t) /\ Moved(t, "unlock")
         \/ Unlock(t) /\ Moved(t, "flush")
         \/ FlushOut(t) /\ connected /\ Moved(t, "callback")
         \/ FlushOut(t) /\ ~connected /\ Moved(t, "flush")
         \/ AnswerInPlace(t)
         \/ CallbackReturns(t) /\ Moved(t, "flush")
         \/ Finish(t) /\ FramePopped(t)
<1>1. TypeOK
  BY DEF IInv
<1>3. CASE Lock(t)
  BY <1>1, <1>3, MoveTop DEF Lock, At, Places
<1>4. CASE Swap(t)
  BY <1>1, <1>4, MoveTop DEF Swap, At, Places
<1>5. ASSUME NEW i \in Items, Put(t, i)
      PROVE  UNCHANGED frames
  BY <1>5 DEF Put
<1>6. ASSUME NEW i \in Items, Remove(t, i)
      PROVE  Moved(t, "work")
  <2>1. ~Idle(t) /\ Top(t).at = "work"
    BY <1>6 DEF Remove, At
  <2>2. Top(t) \in FrameType
    BY <1>1, <2>1, InnermostFrame
  <2>9. Inner(t, "work") /\ Depth(t) \in Nat
    BY <1>1, <2>1, AtByPlace DEF At, Inner, Top, Place
  <2>3. stackBuffer # Nobody /\ cacheMutex \in Threads
        /\ stackBuffer = <<cacheMutex, Depth(cacheMutex)>>
    BY <2>1, <2>9 DEF IInv, Swapped
  <2>4. cacheMutex = t
    BY <2>9 DEF IInv, Locked, Critical, Inner
  <2> DEFINE f == [Top(t) EXCEPT !.requests = Added(@, i)]
  <2>5. f \in FrameType /\ f.at = "work"
    BY <2>1, <2>2, AddedType DEF FrameType
  <2>6. frames' = [frames EXCEPT ![t][Depth(t)] = f]
    BY <1>6, <2>3, <2>4 DEF Remove, Top
  <2> HIDE DEF f
  <2> QED BY <1>1, <2>1, <2>5, <2>6, ReplaceTop DEF Moved
<1>7. CASE Unswap(t)
  BY <1>1, <1>7, MoveTop DEF Unswap, At, Places
<1>8. CASE Unlock(t)
  BY <1>1, <1>8, MoveTop DEF Unlock, At, Places
<1>9. CASE FlushOut(t)
  <2>1. ~Idle(t) /\ Top(t).at = "flush" /\ Top(t).requests # <<>>
    BY <1>9 DEF FlushOut, At
  <2>2. Top(t) \in FrameType
    BY <1>1, <2>1, InnermostFrame
  <2>3. Tail(Top(t).requests) \in Seq(SUBSET Items)
    BY <2>1, <2>2 DEF FrameType
  <2>4. CASE connected
    <3> DEFINE f == [Top(t) EXCEPT !.at = "callback", !.requests = Tail(@)]
    <3>1. f \in FrameType /\ f.at = "callback"
      BY <2>2, <2>3 DEF FrameType, Places
    <3>2. frames' = [frames EXCEPT ![t][Depth(t)] = f]
      BY <1>9, <2>4 DEF FlushOut, Top
    <3> HIDE DEF f
    <3> QED BY <1>1, <1>9, <2>1, <2>4, <3>1, <3>2, ReplaceTop DEF Moved
  <2>5. CASE ~connected
    <3> DEFINE f == [Top(t) EXCEPT !.requests = Tail(@)]
    <3>1. f \in FrameType /\ f.at = "flush"
      BY <2>1, <2>2, <2>3 DEF FrameType
    <3>2. frames' = [frames EXCEPT ![t][Depth(t)] = f]
      BY <1>9, <2>5 DEF FlushOut, Top
    <3> HIDE DEF f
    <3> QED BY <1>1, <1>9, <2>1, <2>5, <3>1, <3>2, ReplaceTop DEF Moved
  <2> QED BY <2>4, <2>5
<1>10. CASE CallbackReturns(t)
  BY <1>1, <1>10, MoveTop DEF CallbackReturns, At, Places
<1>11. CASE Finish(t)
  BY <1>1, <1>11, PopFrame DEF Finish, At
<1> QED
  BY <1>3, <1>4, <1>5, <1>6, <1>7, <1>8, <1>9, <1>10, <1>11 DEF Step

\* The callback of t calls the aggregator again.
AnsweredPushed(t) ==
  /\ frames' \in [Threads -> Seq(FrameType)]
  /\ \A u \in Threads \ {t} : frames'[u] = frames[u]
  /\ Len(frames'[t]) = Len(frames[t]) + 1
  /\ \A d \in 1 .. Len(frames[t]) - 1 : frames'[t][d] = frames[t][d]
  /\ frames'[t][Len(frames[t])].at = "answered"
  /\ frames'[t][Len(frames[t])].requests = Top(t).requests
  /\ frames'[t][Len(frames[t]) + 1].at = "lock"
  /\ frames'[t][Len(frames[t]) + 1].requests = <<>>

\* The last element of a sequence is replaced, and one is added.
LEMMA ReplaceLastAppend ==
  ASSUME NEW S, NEW q \in Seq(S), Len(q) > 0, NEW f \in S, NEW g \in S
  PROVE  /\ Append([q EXCEPT ![Len(q)] = f], g) \in Seq(S)
         /\ Len(Append([q EXCEPT ![Len(q)] = f], g)) = Len(q) + 1
         /\ \A d \in 1 .. Len(q) - 1 :
              Append([q EXCEPT ![Len(q)] = f], g)[d] = q[d]
         /\ Append([q EXCEPT ![Len(q)] = f], g)[Len(q)] = f
         /\ Append([q EXCEPT ![Len(q)] = f], g)[Len(q) + 1] = g
<1> DEFINE r == [q EXCEPT ![Len(q)] = f]
<1>1. /\ r \in Seq(S)
      /\ Len(r) = Len(q)
      /\ r[Len(q)] = f
      /\ \A d \in 1 .. Len(q) - 1 : r[d] = q[d]
  OBVIOUS
<1> HIDE DEF r
<1>2. /\ Append(r, g) \in Seq(S)
      /\ Len(Append(r, g)) = Len(q) + 1
      /\ \A d \in 1 .. Len(q) : Append(r, g)[d] = r[d]
      /\ Append(r, g)[Len(q) + 1] = g
  BY <1>1, AppendProperties
<1>3. /\ Append(r, g) \in Seq(S)
      /\ Len(Append(r, g)) = Len(q) + 1
      /\ \A d \in 1 .. Len(q) - 1 : Append(r, g)[d] = q[d]
      /\ Append(r, g)[Len(q)] = f
      /\ Append(r, g)[Len(q) + 1] = g
  BY <1>1, <1>2
<1> QED BY <1>3 DEF r

\* An answer in place does that to the frames.
LEMMA AnswerFrames ==
  ASSUME TypeOK, NEW t \in Threads, AnswerInPlace(t)
  PROVE  AnsweredPushed(t)
<1> DEFINE n == Len(frames[t])
           f == [Top(t) EXCEPT !.at = "answered"]
           g == Frame(FALSE)
           s == Append([frames[t] EXCEPT ![n] = f], g)
<1>1. ~Idle(t)
  BY DEF AnswerInPlace, At
<1>2. n \in Nat \ {0} /\ frames[t] \in Seq(FrameType) /\ Top(t) \in FrameType
  BY <1>1, InnermostFrame, TypeOfFrames
<1>3. f \in FrameType /\ f.at = "answered" /\ f.requests = Top(t).requests
  BY <1>2 DEF FrameType, Places
<1>4. g \in FrameType /\ g.at = "lock" /\ g.requests = <<>>
  BY DEF Frame, FrameType, Places
<1>5. MovedTo(t, "answered") = [frames EXCEPT ![t] = [frames[t] EXCEPT ![n] = f]]
  BY <1>1, InnermostFrame, TypeOfFrames DEF MovedTo, Top
<1> HIDE DEF f
<1>6. frames' = [frames EXCEPT ![t] = s]
  <2>1. MovedTo(t, "answered")[t] = [frames[t] EXCEPT ![n] = f]
    BY <1>5, TypeOfFrames
  <2>2. frames' = [MovedTo(t, "answered") EXCEPT ![t] = s]
    BY <2>1 DEF AnswerInPlace
  <2> QED BY <1>5, <2>2, TypeOfFrames
<1> HIDE DEF g
<1>7. /\ s \in Seq(FrameType)
      /\ Len(s) = n + 1
      /\ \A d \in 1 .. n - 1 : s[d] = frames[t][d]
      /\ s[n] = f
      /\ s[n + 1] = g
  BY <1>2, <1>3, <1>4, ReplaceLastAppend
<1> HIDE DEF s
<1>8. frames'[t] = s /\ \A u \in Threads \ {t} : frames'[u] = frames[u]
  BY <1>6, TypeOfFrames
<1>9. frames' \in [Threads -> Seq(FrameType)]
  BY <1>6, <1>7, TypeOfFrames
<1> QED BY <1>3, <1>4, <1>7, <1>8, <1>9 DEF AnsweredPushed

\* The types of everything else a step of a thread changes.
LEMMA StepType ==
  ASSUME IInv, NEW t \in Threads, Step(t)
  PROVE  TypeOK'
<1>1. TypeOK
  BY DEF IInv
<1> DEFINE T == [at : {"lock", "swap", "work", "unlock", "flush", "callback",
                       "answered"}, all : BOOLEAN, requests : Seq(SUBSET Items)]
<1>2. T = FrameType
  BY DEF FrameType, Places
<1>3. frames' \in [Threads -> Seq(T)]
  <2>1. \/ \E place \in Places : Moved(t, place)
        \/ AnsweredPushed(t)
        \/ FramePopped(t)
        \/ UNCHANGED frames
    <3>1. \A place \in {"swap", "work", "unlock", "flush", "callback"} :
            place \in Places
      BY DEF Places
    <3>2. AnswerInPlace(t) => AnsweredPushed(t)
      BY <1>1, AnswerFrames
    <3> QED BY <3>1, <3>2, StepFrames
  <2> QED BY <1>1, <1>2, <2>1, TypeOfFrames
          DEF Moved, TopReplaced, AnsweredPushed, FramePopped
<1>4. CASE Lock(t) \/ Unlock(t) \/ Unswap(t) \/ AnswerInPlace(t)
           \/ CallbackReturns(t) \/ Finish(t)
  BY <1>1, <1>3, <1>4
  DEF TypeOK, Lock, Unlock, Unswap, AnswerInPlace, CallbackReturns, Finish
<1>5. CASE Swap(t)
  <2>1. Depth(t) \in Nat \ {0}
    BY <1>1, <1>5, InnermostFrame DEF Swap, At
  <2> QED BY <1>1, <1>3, <1>5, <2>1 DEF TypeOK, Swap
<1>6. ASSUME NEW i \in Items, Put(t, i) \/ Remove(t, i)
      PROVE  TypeOK'
  BY <1>1, <1>3, <1>6 DEF TypeOK, Put, Remove
<1>7. CASE FlushOut(t)
  <2>1. ~Idle(t) /\ Top(t).requests # <<>>
    BY <1>7 DEF FlushOut, At
  <2>2. NextRequest(t) \in SUBSET Items
    BY <1>1, <2>1, InnermostFrame DEF NextRequest, FrameType
  <2>3. CASE connected
    <3>1. delivered' \in [Items -> Nat]
      <4> DEFINE more(i) == IF i \in NextRequest(t) THEN 1 ELSE 0
      <4>1. delivered' = [i \in Items |-> delivered[i] + more(i)]
        BY <1>7, <2>3 DEF FlushOut
      <4>2. \A i \in Items : delivered[i] \in Nat /\ more(i) \in Nat
        BY <1>1 DEF TypeOK
      <4> HIDE DEF more
      <4> QED BY <4>1, <4>2
    <3> QED BY <1>1, <1>3, <1>7, <2>3, <3>1 DEF TypeOK, FlushOut
  <2>4. CASE ~connected
    BY <1>1, <1>3, <1>7, <2>2, <2>4 DEF TypeOK, FlushOut
  <2> QED BY <2>3, <2>4
<1> QED BY <1>4, <1>5, <1>6, <1>7 DEF Step

-----------------------------------------------------------------------------
(* The invariant, seen through the places of the frames.                   *)

\* The frames of the other threads stay where they are.
OthersStay(t) ==
  \A u \in Threads \ {t} :
    /\ Depth(u)' = Depth(u)
    /\ \A d \in 1 .. Depth(u) : Place(u, d)' = Place(u, d)

\* What a move, a push, an answer and a return do to the places.
LEMMA MovedPlaces ==
  ASSUME TypeOK, NEW t \in Threads, NEW place, Moved(t, place)
  PROVE  /\ OthersStay(t)
         /\ Depth(t)' = Depth(t)
         /\ \A d \in 1 .. Depth(t) :
              Place(t, d)' = IF d = Depth(t) THEN place ELSE Place(t, d)
BY TypeOfFrames DEF Moved, TopReplaced, OthersStay, Depth, Place

LEMMA PushedPlaces ==
  ASSUME TypeOK, NEW t \in Threads, FramePushed(t)
  PROVE  /\ OthersStay(t)
         /\ Depth(t)' = Depth(t) + 1
         /\ \A d \in 1 .. Depth(t) + 1 :
              Place(t, d)' = IF d = Depth(t) + 1 THEN "lock" ELSE Place(t, d)
<1>1. OthersStay(t)
  BY DEF FramePushed, OthersStay, Depth, Place
<1>2. Depth(t)' = Depth(t) + 1
  BY DEF FramePushed, Depth
<1>3. ASSUME NEW d \in 1 .. Depth(t) + 1
      PROVE  Place(t, d)' = IF d = Depth(t) + 1 THEN "lock" ELSE Place(t, d)
  <2>1. CASE d = Depth(t) + 1
    BY <2>1 DEF FramePushed, Depth, Place
  <2>2. CASE d # Depth(t) + 1
    <3>1. d \in 1 .. Len(frames[t])
      BY <2>2, TypeOfFrames DEF Depth
    <3> QED BY <2>2, <3>1 DEF FramePushed, Place
  <2> QED BY <2>1, <2>2
<1> QED BY <1>1, <1>2, <1>3

LEMMA AnsweredPlaces ==
  ASSUME TypeOK, NEW t \in Threads, AnsweredPushed(t)
  PROVE  /\ OthersStay(t)
         /\ Depth(t)' = Depth(t) + 1
         /\ \A d \in 1 .. Depth(t) + 1 :
              Place(t, d)' = IF d = Depth(t) + 1 THEN "lock"
                             ELSE IF d = Depth(t) THEN "answered" ELSE Place(t, d)
<1>1. OthersStay(t)
  BY DEF AnsweredPushed, OthersStay, Depth, Place
<1>2. Depth(t)' = Depth(t) + 1
  BY DEF AnsweredPushed, Depth
<1>3. ASSUME NEW d \in 1 .. Depth(t) + 1
      PROVE  Place(t, d)' = IF d = Depth(t) + 1 THEN "lock"
                            ELSE IF d = Depth(t) THEN "answered" ELSE Place(t, d)
  <2>1. Len(frames[t]) \in Nat
    BY TypeOfFrames
  <2>2. /\ frames'[t][Len(frames[t])].at = "answered"
        /\ frames'[t][Len(frames[t]) + 1].at = "lock"
        /\ \A c \in 1 .. Len(frames[t]) - 1 : frames'[t][c] = frames[t][c]
    BY DEF AnsweredPushed
  <2> QED BY <2>1, <2>2 DEF Depth, Place
<1> QED BY <1>1, <1>2, <1>3

LEMMA PoppedPlaces ==
  ASSUME TypeOK, NEW t \in Threads, FramePopped(t)
  PROVE  /\ OthersStay(t)
         /\ Depth(t)' = Depth(t) - 1
         /\ \A d \in 1 .. Depth(t) - 1 : Place(t, d)' = Place(t, d)
BY TypeOfFrames DEF FramePopped, OthersStay, Depth, Place

-----------------------------------------------------------------------------
(* Every step keeps the invariant.                                         *)

\* Steps that leave every frame where it is.
LEMMA FramesStay ==
  ASSUME UNCHANGED frames, NEW t \in Threads
  PROVE  /\ Depth(t)' = Depth(t)
         /\ \A d : Place(t, d)' = Place(t, d)
BY DEF Depth, Place

\* The holder of nothing takes cache_mutex_, which was free: no frame was in a
\* critical section.
LEMMA LockKeeps ==
  ASSUME IInv, TypeOK', NEW t \in Threads, Lock(t), Moved(t, "swap")
  PROVE  IInv'
<1>1. TypeOK
  BY DEF IInv
<1>2. /\ cacheMutex = Nobody /\ cacheMutex' = t
      /\ UNCHANGED <<callbackMutex, stackBuffer, connected, closing>>
  BY DEF Lock
<1>3. Depth(t) \in Nat \ {0} /\ Place(t, Depth(t)) = "lock"
  BY <1>1, AtByPlace DEF Lock
<1>4. \A u \in Threads : Depth(u) \in Nat
  BY <1>1, AtByPlace
<1>5. /\ OthersStay(t)
      /\ Depth(t)' = Depth(t)
      /\ \A d \in 1 .. Depth(t) :
           Place(t, d)' = IF d = Depth(t) THEN "swap" ELSE Place(t, d)
  BY <1>1, MovedPlaces
<1>6. Locked'
  BY <1>2, <1>4, <1>5, ThreadsAssumption DEF IInv, Locked, OthersStay
<1>7. Swapped'
  BY <1>2, <1>3, <1>4, <1>5, ThreadsAssumption
  DEF IInv, Swapped, Inner, OthersStay
<1>8. Called'
  BY <1>2, <1>3, <1>4, <1>5 DEF IInv, Called, Calling, OthersStay
<1>9. Closed'
  BY <1>2, <1>3, <1>4, <1>5 DEF IInv, Closed, Calling, OthersStay
<1> QED BY <1>6, <1>7, <1>8, <1>9 DEF IInv

\* The pointer is set by the thread that holds cache_mutex_.
LEMMA SwapKeeps ==
  ASSUME IInv, TypeOK', NEW t \in Threads, Swap(t), Moved(t, "work")
  PROVE  IInv'
<1>1. TypeOK
  BY DEF IInv
<1>2. /\ stackBuffer' = <<t, Depth(t)>>
      /\ UNCHANGED <<cacheMutex, callbackMutex, connected, closing>>
  BY DEF Swap
<1>3. Depth(t) \in Nat \ {0} /\ Place(t, Depth(t)) = "swap"
  BY <1>1, AtByPlace DEF Swap
<1>4. \A u \in Threads : Depth(u) \in Nat
  BY <1>1, AtByPlace
<1>5. /\ OthersStay(t)
      /\ Depth(t)' = Depth(t)
      /\ \A d \in 1 .. Depth(t) :
           Place(t, d)' = IF d = Depth(t) THEN "work" ELSE Place(t, d)
  BY <1>1, MovedPlaces
<1>6. Locked'
  BY <1>2, <1>3, <1>4, <1>5, ThreadsAssumption
  DEF IInv, Locked, Critical, OthersStay
<1>7. Swapped'
  BY <1>2, <1>3, <1>4, <1>5, ThreadsAssumption
  DEF IInv, Locked, Critical, Swapped, Inner, OthersStay
<1>8. Called'
  BY <1>2, <1>3, <1>4, <1>5, ThreadsAssumption
  DEF IInv, Called, Calling, OthersStay
<1>9. Closed'
  BY <1>2, <1>3, <1>4, <1>5, ThreadsAssumption
  DEF IInv, Closed, Calling, OthersStay
<1> QED BY <1>6, <1>7, <1>8, <1>9 DEF IInv

\* Removing an item moves no frame.
LEMMA RemoveKeeps ==
  ASSUME IInv, TypeOK', NEW t \in Threads, NEW i \in Items, Remove(t, i), Moved(t, "work")
  PROVE  IInv'
<1>1. TypeOK
  BY DEF IInv
<1>2. UNCHANGED <<cacheMutex, callbackMutex, stackBuffer, connected, closing>>
  BY DEF Remove
<1>3. Depth(t) \in Nat \ {0} /\ Place(t, Depth(t)) = "work"
  BY <1>1, AtByPlace DEF Remove
<1>4. \A u \in Threads : Depth(u) \in Nat
  BY <1>1, AtByPlace
<1>5. /\ OthersStay(t)
      /\ Depth(t)' = Depth(t)
      /\ \A d \in 1 .. Depth(t) :
           Place(t, d)' = IF d = Depth(t) THEN "work" ELSE Place(t, d)
  BY <1>1, MovedPlaces
<1>6. Locked'
  BY <1>2, <1>3, <1>4, <1>5, ThreadsAssumption
  DEF IInv, Locked, Critical, OthersStay
<1>7. Swapped'
  BY <1>2, <1>3, <1>4, <1>5, ThreadsAssumption
  DEF IInv, Swapped, Inner, OthersStay
<1>8. Called'
  BY <1>2, <1>3, <1>4, <1>5, ThreadsAssumption
  DEF IInv, Called, Calling, OthersStay
<1>9. Closed'
  BY <1>2, <1>3, <1>4, <1>5, ThreadsAssumption
  DEF IInv, Closed, Calling, OthersStay
<1> QED BY <1>6, <1>7, <1>8, <1>9 DEF IInv

\* The pointer is reset before the lock is released.
LEMMA UnswapKeeps ==
  ASSUME IInv, TypeOK', NEW t \in Threads, Unswap(t), Moved(t, "unlock")
  PROVE  IInv'
<1>1. TypeOK
  BY DEF IInv
<1>2. /\ stackBuffer' = Nobody
      /\ UNCHANGED <<cacheMutex, callbackMutex, connected, closing>>
  BY DEF Unswap
<1>3. Depth(t) \in Nat \ {0} /\ Place(t, Depth(t)) = "work"
  BY <1>1, AtByPlace DEF Unswap
<1>4. \A u \in Threads : Depth(u) \in Nat
  BY <1>1, AtByPlace
<1>5. /\ OthersStay(t)
      /\ Depth(t)' = Depth(t)
      /\ \A d \in 1 .. Depth(t) :
           Place(t, d)' = IF d = Depth(t) THEN "unlock" ELSE Place(t, d)
  BY <1>1, MovedPlaces
<1>6. Locked'
  BY <1>2, <1>3, <1>4, <1>5, ThreadsAssumption
  DEF IInv, Locked, Critical, OthersStay
<1>7. Swapped'
  BY <1>2, <1>3, <1>4, <1>5, ThreadsAssumption
  DEF IInv, Locked, Critical, Swapped, Inner, OthersStay
<1>8. Called'
  BY <1>2, <1>3, <1>4, <1>5, ThreadsAssumption
  DEF IInv, Called, Calling, OthersStay
<1>9. Closed'
  BY <1>2, <1>3, <1>4, <1>5, ThreadsAssumption
  DEF IInv, Closed, Calling, OthersStay
<1> QED BY <1>6, <1>7, <1>8, <1>9 DEF IInv

\* The thread leaves its only critical section.
LEMMA UnlockKeeps ==
  ASSUME IInv, TypeOK', NEW t \in Threads, Unlock(t), Moved(t, "flush")
  PROVE  IInv'
<1>1. TypeOK
  BY DEF IInv
<1>2. /\ cacheMutex' = Nobody
      /\ UNCHANGED <<callbackMutex, stackBuffer, connected, closing>>
  BY DEF Unlock
<1>3. Depth(t) \in Nat \ {0} /\ Place(t, Depth(t)) = "unlock"
  BY <1>1, AtByPlace DEF Unlock
<1>4. \A u \in Threads : Depth(u) \in Nat
  BY <1>1, AtByPlace
<1>5. /\ OthersStay(t)
      /\ Depth(t)' = Depth(t)
      /\ \A d \in 1 .. Depth(t) :
           Place(t, d)' = IF d = Depth(t) THEN "flush" ELSE Place(t, d)
  BY <1>1, MovedPlaces
<1>6. Locked'
  BY <1>2, <1>3, <1>4, <1>5, ThreadsAssumption
  DEF IInv, Locked, Critical, Called, Calling, OthersStay
<1>7. Swapped'
  BY <1>2, <1>3, <1>4, <1>5, ThreadsAssumption
  DEF IInv, Locked, Critical, Swapped, Inner, OthersStay
<1>8. Called'
  BY <1>2, <1>3, <1>4, <1>5, ThreadsAssumption
  DEF IInv, Called, Calling, OthersStay
<1>9. Closed'
  BY <1>2, <1>3, <1>4, <1>5, ThreadsAssumption
  DEF IInv, Closed, Calling, OthersStay
<1> QED BY <1>6, <1>7, <1>8, <1>9 DEF IInv

\* A callback starts when callback_mutex_ is free, so that no other one runs.
LEMMA CallKeeps ==
  ASSUME IInv, TypeOK', NEW t \in Threads, FlushOut(t), connected, Moved(t, "callback")
  PROVE  IInv'
<1>1. TypeOK
  BY DEF IInv
<1>2. /\ callbackMutex = Nobody /\ callbackMutex' = t /\ connected
      /\ UNCHANGED <<cacheMutex, stackBuffer, connected, closing>>
  BY DEF FlushOut
<1>3. Depth(t) \in Nat \ {0} /\ Place(t, Depth(t)) = "flush"
  BY <1>1, AtByPlace DEF FlushOut
<1>4. \A u \in Threads : Depth(u) \in Nat
  BY <1>1, AtByPlace
<1>5. /\ OthersStay(t)
      /\ Depth(t)' = Depth(t)
      /\ \A d \in 1 .. Depth(t) :
           Place(t, d)' = IF d = Depth(t) THEN "callback" ELSE Place(t, d)
  BY <1>1, MovedPlaces
<1>6. Locked'
  BY <1>2, <1>3, <1>4, <1>5, ThreadsAssumption
  DEF IInv, Locked, Critical, OthersStay
<1>7. Swapped'
  BY <1>2, <1>3, <1>4, <1>5, ThreadsAssumption
  DEF IInv, Swapped, Inner, OthersStay
<1>8. Called'
  BY <1>2, <1>3, <1>4, <1>5, ThreadsAssumption
  DEF IInv, Called, Calling, OthersStay
<1>9. Closed'
  BY <1>2, <1>3, <1>4, <1>5, ThreadsAssumption
  DEF IInv, Closed, Calling, OthersStay
<1> QED BY <1>6, <1>7, <1>8, <1>9 DEF IInv

\* A request that meets no callback moves no frame.
LEMMA DropKeeps ==
  ASSUME IInv, TypeOK', NEW t \in Threads, FlushOut(t), ~connected, Moved(t, "flush")
  PROVE  IInv'
<1>1. TypeOK
  BY DEF IInv
<1>2. UNCHANGED <<cacheMutex, callbackMutex, stackBuffer, connected, closing>>
  BY DEF FlushOut
<1>3. Depth(t) \in Nat \ {0} /\ Place(t, Depth(t)) = "flush"
  BY <1>1, AtByPlace DEF FlushOut
<1>4. \A u \in Threads : Depth(u) \in Nat
  BY <1>1, AtByPlace
<1>5. /\ OthersStay(t)
      /\ Depth(t)' = Depth(t)
      /\ \A d \in 1 .. Depth(t) :
           Place(t, d)' = IF d = Depth(t) THEN "flush" ELSE Place(t, d)
  BY <1>1, MovedPlaces
<1>6. Locked'
  BY <1>2, <1>3, <1>4, <1>5, ThreadsAssumption
  DEF IInv, Locked, Critical, OthersStay
<1>7. Swapped'
  BY <1>2, <1>3, <1>4, <1>5, ThreadsAssumption
  DEF IInv, Swapped, Inner, OthersStay
<1>8. Called'
  BY <1>2, <1>3, <1>4, <1>5, ThreadsAssumption
  DEF IInv, Called, Calling, OthersStay
<1>9. Closed'
  BY <1>2, <1>3, <1>4, <1>5, ThreadsAssumption
  DEF IInv, Closed, Calling, OthersStay
<1> QED BY <1>6, <1>7, <1>8, <1>9 DEF IInv

\* The only callback of the process returns.
LEMMA ReturnKeeps ==
  ASSUME IInv, TypeOK', NEW t \in Threads, CallbackReturns(t), Moved(t, "flush")
  PROVE  IInv'
<1>1. TypeOK
  BY DEF IInv
<1>2. /\ callbackMutex' = Nobody
      /\ UNCHANGED <<cacheMutex, stackBuffer, connected, closing>>
  BY DEF CallbackReturns
<1>3. Depth(t) \in Nat \ {0} /\ Place(t, Depth(t)) \in Calling
  BY <1>1, AtByPlace DEF CallbackReturns, Calling
<1>4. \A u \in Threads : Depth(u) \in Nat
  BY <1>1, AtByPlace
<1>5. /\ OthersStay(t)
      /\ Depth(t)' = Depth(t)
      /\ \A d \in 1 .. Depth(t) :
           Place(t, d)' = IF d = Depth(t) THEN "flush" ELSE Place(t, d)
  BY <1>1, MovedPlaces
<1>6. Locked'
  BY <1>2, <1>3, <1>4, <1>5, ThreadsAssumption
  DEF IInv, Locked, Critical, OthersStay
<1>7. Swapped'
  BY <1>2, <1>3, <1>4, <1>5, ThreadsAssumption
  DEF IInv, Swapped, Inner, Calling, OthersStay
<1>8. Called'
  BY <1>2, <1>3, <1>4, <1>5, ThreadsAssumption
  DEF IInv, Called, Calling, OthersStay
<1>9. Closed'
  BY <1>2, <1>3, <1>4, <1>5, ThreadsAssumption
  DEF IInv, Closed, Calling, OthersStay
<1> QED BY <1>6, <1>7, <1>8, <1>9 DEF IInv

\* An answer in place enters the aggregator from the only callback.
LEMMA AnswerKeeps ==
  ASSUME IInv, TypeOK', NEW t \in Threads, AnswerInPlace(t)
  PROVE  IInv'
<1>1. TypeOK
  BY DEF IInv
<1>2. UNCHANGED <<cacheMutex, callbackMutex, stackBuffer, connected, closing>>
  BY DEF AnswerInPlace
<1>3. Depth(t) \in Nat \ {0} /\ Place(t, Depth(t)) = "callback"
  BY <1>1, AtByPlace DEF AnswerInPlace
<1>4. \A u \in Threads : Depth(u) \in Nat
  BY <1>1, AtByPlace
<1>5. /\ OthersStay(t)
      /\ Depth(t)' = Depth(t) + 1
      /\ \A d \in 1 .. Depth(t) + 1 :
           Place(t, d)' = IF d = Depth(t) + 1 THEN "lock"
                          ELSE IF d = Depth(t) THEN "answered" ELSE Place(t, d)
  BY <1>1, AnswerFrames, AnsweredPlaces
<1>6. Locked'
  BY <1>2, <1>3, <1>4, <1>5, ThreadsAssumption
  DEF IInv, Locked, Critical, OthersStay
<1>7. Swapped'
  BY <1>2, <1>3, <1>4, <1>5, ThreadsAssumption
  DEF IInv, Swapped, Inner, OthersStay
<1>8. Called'
  BY <1>2, <1>3, <1>4, <1>5, ThreadsAssumption
  DEF IInv, Called, Calling, OthersStay
<1>9. Closed'
  BY <1>2, <1>3, <1>4, <1>5, ThreadsAssumption
  DEF IInv, Closed, Calling, OthersStay
<1> QED BY <1>6, <1>7, <1>8, <1>9 DEF IInv

\* The frame that returns is in no critical section and runs no callback.
LEMMA FinishKeeps ==
  ASSUME IInv, TypeOK', NEW t \in Threads, Finish(t), FramePopped(t)
  PROVE  IInv'
<1>1. TypeOK
  BY DEF IInv
<1>2. UNCHANGED <<cacheMutex, callbackMutex, stackBuffer, connected, closing>>
  BY DEF Finish
<1>3. Depth(t) \in Nat \ {0} /\ Place(t, Depth(t)) = "flush"
  BY <1>1, AtByPlace DEF Finish
<1>4. \A u \in Threads : Depth(u) \in Nat
  BY <1>1, AtByPlace
<1>5. /\ OthersStay(t)
      /\ Depth(t)' = Depth(t) - 1
      /\ \A d \in 1 .. Depth(t) - 1 : Place(t, d)' = Place(t, d)
  BY <1>1, PoppedPlaces
<1>6. Locked'
  BY <1>2, <1>3, <1>4, <1>5, ThreadsAssumption
  DEF IInv, Locked, Critical, OthersStay
<1>7. Swapped'
  BY <1>2, <1>3, <1>4, <1>5, ThreadsAssumption
  DEF IInv, Swapped, Inner, Called, OthersStay
<1>8. Called'
  BY <1>2, <1>3, <1>4, <1>5, ThreadsAssumption
  DEF IInv, Called, Calling, OthersStay
<1>9. Closed'
  BY <1>2, <1>3, <1>4, <1>5, ThreadsAssumption
  DEF IInv, Closed, Calling, OthersStay
<1> QED BY <1>6, <1>7, <1>8, <1>9 DEF IInv

\* A step of a thread.
LEMMA StepKeeps ==
  ASSUME IInv, NEW t \in Threads, Step(t)
  PROVE  IInv'
<1>1. TypeOK'
  BY StepType
<1>2. ASSUME NEW i \in Items, Put(t, i)
      PROVE  IInv'
  <2>1. UNCHANGED <<frames, cacheMutex, callbackMutex, stackBuffer, connected,
                    closing>>
    BY <1>2 DEF Put
  <2>2. \A u \in Threads : Depth(u)' = Depth(u) /\ \A d : Place(u, d)' = Place(u, d)
    BY <2>1, FramesStay
  <2> QED BY <1>1, <2>1, <2>2 DEF IInv, Locked, Swapped, Called, Closed, Inner
<1> QED
  BY <1>1, <1>2, StepFrames, LockKeeps, SwapKeeps, RemoveKeeps, UnswapKeeps,
     UnlockKeeps, CallKeeps, DropKeeps, AnswerKeeps, ReturnKeeps, FinishKeeps

\* An idle thread calls the aggregator: an operation begins, or the client is
\* closed.
LEMMA PushKeeps ==
  ASSUME IInv, TypeOK', NEW t \in Threads, NEW all \in BOOLEAN, Idle(t),
         frames' = Pushed(t, all), closing' = "closed" => closing = "closed",
         UNCHANGED <<cacheMutex, callbackMutex, stackBuffer, connected>>
  PROVE  IInv'
<1>1. TypeOK
  BY DEF IInv
<1>2. Depth(t) = 0
  BY <1>1, AtByPlace
<1>3. \A u \in Threads : Depth(u) \in Nat
  BY <1>1, AtByPlace
<1>4. OthersStay(t) /\ Depth(t)' = 1 /\ Place(t, 1)' = "lock"
  BY <1>1, <1>2, PushFrame, PushedPlaces
<1>5. Locked'
  BY <1>3, <1>4 DEF IInv, Locked, Critical, OthersStay
<1>6. Swapped'
  BY <1>2, <1>3, <1>4 DEF IInv, Swapped, Inner, OthersStay
<1>7. Called'
  BY <1>3, <1>4 DEF IInv, Called, Calling, OthersStay
<1>8. Closed'
  BY <1>3, <1>4 DEF IInv, Closed, Calling, OthersStay
<1> QED BY <1>5, <1>6, <1>7, <1>8 DEF IInv

\* Whoever closes the client holds callback_mutex_, so that no callback runs.
LEMMA DisconnectKeeps ==
  ASSUME IInv, Disconnect
  PROVE  IInv'
<1>1. /\ callbackMutex = Nobody /\ connected' = FALSE
      /\ UNCHANGED <<frames, cacheMutex, callbackMutex, stackBuffer>>
  BY DEF Disconnect
<1>2. \A u \in Threads : Depth(u)' = Depth(u) /\ \A d : Place(u, d)' = Place(u, d)
  BY <1>1, FramesStay
<1>3. TypeOK'
  BY DEF IInv, TypeOK, Disconnect
<1>4. Locked' /\ Swapped' /\ Called'
  BY <1>1, <1>2 DEF IInv, Locked, Swapped, Called, Inner
<1>5. Closed'
  BY <1>1, <1>2, ThreadsAssumption DEF IInv, Called, Closed
<1> QED BY <1>3, <1>4, <1>5 DEF IInv

\* Every step keeps the invariant.
LEMMA NextKeeps == IInv /\ [Next]_vars => IInv'
<1> SUFFICES ASSUME IInv, [Next]_vars PROVE IInv'
  OBVIOUS
<1> DEFINE T == [at : {"lock", "swap", "work", "unlock", "flush", "callback",
                       "answered"}, all : BOOLEAN, requests : Seq(SUBSET Items)]
<1>1. T = FrameType
  BY DEF FrameType, Places
<1>2. ASSUME NEW t \in Threads, Step(t)
      PROVE  IInv'
  BY <1>2, StepKeeps
<1>3. ASSUME NEW t \in Threads, NEW all \in BOOLEAN, Begin(t, all)
      PROVE  IInv'
  <2>1. frames' \in [Threads -> Seq(T)]
    BY <1>3, <1>1, PushFrame DEF IInv, Begin, FramePushed
  <2>2. TypeOK
    BY DEF IInv
  <2>3. begun' \in [Threads -> Nat]
    BY <1>3, <2>2 DEF TypeOK, Begin
  <2>4. UNCHANGED <<cached, fresh, cacheMutex, callbackMutex, stackBuffer,
                    connected, delivered, discarded, closing>>
    BY <1>3 DEF Begin
  <2> HIDE DEF T
  <2>5. TypeOK'
    BY <2>1, <2>2, <2>3, <2>4 DEF TypeOK, T
  <2> QED BY <1>3, <2>5, PushKeeps DEF Begin
<1>4. CASE BeginClose
  <2>1. Owner \in Threads /\ TRUE \in BOOLEAN /\ Idle(Owner)
    BY <1>4, ThreadsAssumption DEF BeginClose, Threads
  <2>2. frames' \in [Threads -> Seq(T)]
    BY <1>4, <2>1, <1>1, PushFrame DEF IInv, BeginClose, FramePushed
  <2>3. TypeOK'
    BY <1>4, <2>2 DEF IInv, TypeOK, BeginClose
  <2> QED BY <1>4, <2>1, <2>3, PushKeeps DEF BeginClose
<1>5. CASE Disconnect
  BY <1>5, DisconnectKeeps
<1>6. CASE Terminated \/ UNCHANGED vars
  <2>1. UNCHANGED vars
    BY <1>6 DEF Terminated
  <2>2. \A u \in Threads : Depth(u)' = Depth(u) /\ \A d : Place(u, d)' = Place(u, d)
    BY <2>1, FramesStay DEF vars
  <2>3. TypeOK'
    BY <2>1 DEF IInv, TypeOK, vars
  <2> QED BY <2>1, <2>2, <2>3
          DEF IInv, Locked, Swapped, Called, Closed, Inner, vars
<1> QED BY <1>2, <1>3, <1>4, <1>5, <1>6 DEF Next

-----------------------------------------------------------------------------
(* Theorems.                                                               *)

\* The inductive invariant: whoever is in a critical section holds its mutex,
\* the pointer is set only inside it, and callbacks are called one at a time.
THEOREM HandlerInvariant == Spec => []IInv
<1> QED BY InitHolds, NextKeeps, PTL DEF Spec

\* Frames, mutexes, the pointer and the counters of calls and deliveries keep
\* their types, whatever threads do.
THEOREM TypeCorrect == Spec => []TypeOK
<1>1. IInv => TypeOK
  BY DEF IInv
<1> QED BY <1>1, HandlerInvariant, PTL

\* stack_buffer_ points to the buffer of the thread that holds cache_mutex_,
\* or nowhere: no thread adds to the buffer of another one.
THEOREM BufferIsOwn == Spec => []OwnBuffer
<1> QED BY InvariantImplies, HandlerInvariant, PTL

\* After SetFlushCallback(NULL) in the destructor no thread runs a callback,
\* so that none uses the client that is going away.
THEOREM QuietAfterClose == Spec => []QuietAfterDisconnect
<1> QED BY InvariantImplies, HandlerInvariant, PTL

-----------------------------------------------------------------------------
(* One buffer.                                                             *)

\* The items of the requests of a buffer.
Pile(q) == {i \in Items : \E r \in 1 .. Len(q) : i \in q[r]}

\* Its requests share no item, and each may be sent.
Fine(q) ==
  /\ q \in Seq(SUBSET Items)
  /\ \A a, b \in 1 .. Len(q) : a # b => q[a] \cap q[b] = {}
  /\ \A a \in 1 .. Len(q) : IsFiniteSet(q[a]) /\ Cardinality(q[a]) \in 1 .. MergeLimit

LEMMA EmptyBuffer == Fine(<<>>) /\ Pile(<<>>) = {}
  BY DEF Fine, Pile

LEMMA AddedItem ==
  ASSUME NEW q, Fine(q), NEW i \in Items, i \notin Pile(q)
  PROVE  Fine(Added(q, i)) /\ Pile(Added(q, i)) = Pile(q) \cup {i}
<1> DEFINE n == Len(q)
           fits == n > 0 /\ Cardinality(q[n]) + 1 <= MergeLimit
<1>0. n \in Nat /\ q \in Seq(SUBSET Items) /\ MergeLimit \in Nat /\ MergeLimit >= 1
  BY LimitsAssumption DEF Fine
<1>1. CASE fits
  <2> DEFINE s == [q EXCEPT ![n] = @ \cup {i}]
  <2>1. Added(q, i) = s
    BY <1>1 DEF Added
  <2>2. /\ s \in Seq(SUBSET Items) /\ Len(s) = n
        /\ s[n] = q[n] \cup {i}
        /\ \A a \in 1 .. n - 1 : s[a] = q[a]
    <3>1. n \in 1 .. n /\ q[n] \cup {i} \in SUBSET Items
      BY <1>0, <1>1
    <3> QED BY <1>0, <3>1
  <2> HIDE DEF s
  <2>3. i \notin q[n] /\ \A a \in 1 .. n - 1 : i \notin q[a]
    BY <1>0, <1>1 DEF Pile
  <2>4. IsFiniteSet(s[n]) /\ Cardinality(s[n]) \in 1 .. MergeLimit
    <3>1. IsFiniteSet(q[n]) /\ Cardinality(q[n]) \in 1 .. MergeLimit
      BY <1>0, <1>1 DEF Fine
    <3>2. IsFiniteSet(s[n]) /\ Cardinality(s[n]) = Cardinality(q[n]) + 1
      <4>1. /\ Cardinality(q[n] \cup {i}) = Cardinality(q[n]) + 1
            /\ IsFiniteSet(q[n] \cup {i})
        BY <2>3, <3>1, FS_AddElement
      <4> QED BY <2>2, <4>1
    <3> QED BY <1>0, <1>1, <3>1, <3>2
  <2>5. \A a \in 1 .. n : IsFiniteSet(s[a]) /\ Cardinality(s[a]) \in 1 .. MergeLimit
    <3> SUFFICES ASSUME NEW a \in 1 .. n
                 PROVE  IsFiniteSet(s[a]) /\ Cardinality(s[a]) \in 1 .. MergeLimit
      OBVIOUS
    <3>1. CASE a = n
      BY <2>4, <3>1
    <3>2. CASE a # n
      <4>1. a \in 1 .. n - 1 /\ s[a] = q[a]
        BY <1>0, <2>2, <3>2
      <4> QED BY <4>1 DEF Fine
    <3> QED BY <3>1, <3>2
  <2>6. \A a, b \in 1 .. n : a # b => s[a] \cap s[b] = {}
    <3> SUFFICES ASSUME NEW a \in 1 .. n, NEW b \in 1 .. n, a # b, NEW x \in s[a],
                        x \in s[b]
                 PROVE  FALSE
      OBVIOUS
    <3>1. \A c \in 1 .. n : x \in s[c] => x \in q[c] \/ (c = n /\ x = i)
      BY <1>0, <2>2
    <3>2. ~(x \in q[a] /\ x \in q[b])
      BY DEF Fine
    <3>3. \A c \in 1 .. n : i \notin q[c]
      BY <1>0, <2>3
    <3> QED BY <3>1, <3>2, <3>3
  <2>7. Pile(s) = Pile(q) \cup {i}
    BY <1>0, <1>1, <2>2 DEF Pile
  <2> QED BY <2>1, <2>2, <2>5, <2>6, <2>7 DEF Fine
<1>2. CASE ~fits
  <2> DEFINE s == Append(q, {i})
  <2>1. Added(q, i) = s
    BY <1>2 DEF Added
  <2>2. /\ s \in Seq(SUBSET Items) /\ Len(s) = n + 1
        /\ s[n + 1] = {i}
        /\ \A a \in 1 .. n : s[a] = q[a]
    BY <1>0
  <2> HIDE DEF s
  <2>3. \A a \in 1 .. n : i \notin q[a]
    BY <1>0 DEF Pile
  <2>4. IsFiniteSet({i}) /\ Cardinality({i}) = 1
    BY FS_Singleton
  <2>5. \A a \in 1 .. n + 1 : IsFiniteSet(s[a]) /\ Cardinality(s[a]) \in 1 .. MergeLimit
    <3> SUFFICES ASSUME NEW a \in 1 .. n + 1
                 PROVE  IsFiniteSet(s[a]) /\ Cardinality(s[a]) \in 1 .. MergeLimit
      OBVIOUS
    <3>1. CASE a = n + 1
      <4>1. s[a] = {i} /\ 1 \in 1 .. MergeLimit
        BY <1>0, <2>2, <3>1
      <4> QED BY <2>4, <4>1
    <3>2. CASE a \in 1 .. n
      BY <2>2, <3>2 DEF Fine
    <3> QED BY <1>0, <3>1, <3>2
  <2>6. \A a, b \in 1 .. n + 1 : a # b => s[a] \cap s[b] = {}
    <3> SUFFICES ASSUME NEW a \in 1 .. n + 1, NEW b \in 1 .. n + 1, a # b
                 PROVE  s[a] \cap s[b] = {}
      OBVIOUS
    <3>1. CASE a \in 1 .. n /\ b \in 1 .. n
      BY <2>2, <3>1 DEF Fine
    <3>2. CASE a = n + 1 \/ b = n + 1
      BY <1>0, <2>2, <2>3, <3>2
    <3> QED BY <1>0, <3>1, <3>2
  <2>7. Pile(s) = Pile(q) \cup {i}
    BY <1>0, <2>2 DEF Pile
  <2> QED BY <2>1, <2>2, <2>5, <2>6, <2>7 DEF Fine
<1> QED BY <1>1, <1>2

LEMMA FirstRequest ==
  ASSUME NEW q, Fine(q), q # <<>>
  PROVE  /\ Fine(Tail(q)) /\ Pile(Tail(q)) = Pile(q) \ Head(q)
         /\ Head(q) \subseteq Pile(q) /\ Head(q) \subseteq Items
         /\ Cardinality(Head(q)) \in 1 .. MergeLimit
<1> DEFINE n == Len(q)
<1>1. /\ q \in Seq(SUBSET Items) /\ n \in Nat \ {0} /\ 1 \in 1 .. n
      /\ Head(q) = q[1] /\ Head(q) \in SUBSET Items
  BY DEF Fine
<1>2. /\ Tail(q) \in Seq(SUBSET Items) /\ Len(Tail(q)) = n - 1
      /\ \A a \in 1 .. n - 1 : Tail(q)[a] = q[a + 1]
  BY <1>1
<1>3. \A a \in 1 .. n - 1 : a + 1 \in 1 .. n /\ a + 1 # 1
  BY <1>1
<1>4. Fine(Tail(q))
  BY <1>1, <1>2, <1>3 DEF Fine
<1>5. Pile(Tail(q)) = Pile(q) \ Head(q)
  <2>1. ASSUME NEW i \in Pile(Tail(q)) PROVE i \in Pile(q) \ Head(q)
    <3>1. PICK a \in 1 .. n - 1 : i \in q[a + 1]
      BY <1>2, <2>1 DEF Pile
    <3>2. q[a + 1] \cap q[1] = {}
      BY <1>1, <1>3 DEF Fine
    <3> QED BY <1>1, <1>3, <2>1, <3>1, <3>2 DEF Pile
  <2>2. ASSUME NEW i \in Pile(q) \ Head(q) PROVE i \in Pile(Tail(q))
    <3>1. PICK a \in 1 .. n : i \in q[a]
      BY <2>2 DEF Pile
    <3>2. a # 1 /\ a - 1 \in 1 .. n - 1 /\ (a - 1) + 1 = a
      BY <1>1, <2>2, <3>1
    <3>3. i \in Tail(q)[a - 1]
      BY <1>2, <3>1, <3>2
    <3> QED BY <1>2, <2>2, <3>2, <3>3 DEF Pile
  <2> QED BY <2>1, <2>2
<1>6. Head(q) \subseteq Pile(q)
  BY <1>1 DEF Pile
<1> QED BY <1>1, <1>4, <1>5, <1>6 DEF Fine

-----------------------------------------------------------------------------
(* The buffers of all frames.                                              *)

\* The items in the buffer of frame d of thread t, none when there is no such
\* frame.
Held(fs, t, d) == IF d \in 1 .. Len(fs[t]) THEN Pile(fs[t][d].requests) ELSE {}

AllFine(fs) ==
  \A t \in Threads : \A d \in 1 .. Len(fs[t]) : Fine(fs[t][d].requests)

\* The items in buffers.
Out(fs) == {i \in Items : \E t \in Threads : \E d \in Nat : i \in Held(fs, t, d)}

LEMMA BufferedIsOut ==
  ASSUME TypeOK
  PROVE  Buffered = Out(frames)
<1>1. \A t \in Threads : Depth(t) = Len(frames[t]) /\ Len(frames[t]) \in Nat
  BY TypeOfFrames DEF Depth
<1>2. ASSUME NEW i \in Buffered PROVE i \in Out(frames)
  <2>0. PICK t \in Threads : \E d \in 1 .. Depth(t) : i \in Pile(frames[t][d].requests)
    BY <1>2 DEF Buffered, Pile
  <2>1. PICK d \in 1 .. Depth(t) : i \in Pile(frames[t][d].requests)
    BY <2>0
  <2>2. d \in Nat /\ i \in Held(frames, t, d)
    BY <1>1, <2>1 DEF Held
  <2> QED BY <1>2, <2>2 DEF Buffered, Out
<1>3. ASSUME NEW i \in Out(frames) PROVE i \in Buffered
  <2>1. PICK t \in Threads, d \in Nat : i \in Held(frames, t, d)
    BY <1>3 DEF Out
  <2>2. d \in 1 .. Depth(t) /\ i \in Pile(frames[t][d].requests)
    BY <1>1, <2>1 DEF Held
  <2> QED BY <1>3, <2>1, <2>2 DEF Buffered, Out, Pile
<1> QED BY <1>2, <1>3

\* The innermost buffer of t becomes q, and no other buffer changes.
BufferBecomes(t, q) ==
  /\ Held(frames', t, Len(frames[t])) = Pile(q)
  /\ \A u \in Threads : \A d \in Nat :
       u # t \/ d # Len(frames[t]) => Held(frames', u, d) = Held(frames, u, d)
  /\ AllFine(frames) /\ Fine(q) => AllFine(frames')

LEMMA ReplacedBuffer ==
  ASSUME TypeOK, NEW t \in Threads, ~Idle(t), NEW f \in FrameType, TopReplaced(t, f)
  PROVE  BufferBecomes(t, f.requests)
<1>1. Len(frames[t]) \in Nat \ {0} /\ Len(frames[t]) \in 1 .. Len(frames[t])
  BY InnermostFrame
<1>2. Held(frames', t, Len(frames[t])) = Pile(f.requests)
  BY <1>1 DEF TopReplaced, Held
<1>3. ASSUME NEW u \in Threads, NEW d \in Nat, u # t \/ d # Len(frames[t])
      PROVE  Held(frames', u, d) = Held(frames, u, d)
  <2>1. CASE u # t
    BY <2>1 DEF TopReplaced, Held
  <2>2. CASE u = t /\ d # Len(frames[t])
    BY <2>2 DEF TopReplaced, Held
  <2> QED BY <1>3, <2>1, <2>2
<1>4. ASSUME AllFine(frames), Fine(f.requests)
      PROVE  AllFine(frames')
  <2> SUFFICES ASSUME NEW u \in Threads, NEW d \in 1 .. Len(frames'[u])
               PROVE  Fine(frames'[u][d].requests)
    BY DEF AllFine
  <2>1. CASE u # t
    BY <1>4, <2>1 DEF TopReplaced, AllFine
  <2>2. CASE u = t
    BY <1>4, <2>2 DEF TopReplaced, AllFine
  <2> QED BY <2>1, <2>2
<1> QED BY <1>2, <1>3, <1>4 DEF BufferBecomes

LEMMA MovedBuffer ==
  ASSUME TypeOK, NEW t \in Threads, ~Idle(t), NEW place \in Places,
         frames' = MovedTo(t, place)
  PROVE  BufferBecomes(t, Top(t).requests)
<1> DEFINE f == [Top(t) EXCEPT !.at = place]
<1>1. f \in FrameType /\ f.requests = Top(t).requests
  BY InnermostFrame DEF FrameType
<1>2. frames' = [frames EXCEPT ![t][Depth(t)] = f]
  BY DEF MovedTo, Top
<1> HIDE DEF f
<1>3. TopReplaced(t, f)
  BY <1>1, <1>2, ReplaceTop
<1> QED BY <1>1, <1>3, ReplacedBuffer

\* No buffer changes.
BuffersStay ==
  /\ \A u \in Threads : \A d \in Nat : Held(frames', u, d) = Held(frames, u, d)
  /\ AllFine(frames) => AllFine(frames')

LEMMA TopHeld ==
  ASSUME TypeOK, NEW t \in Threads, ~Idle(t)
  PROVE  /\ Held(frames, t, Len(frames[t])) = Pile(Top(t).requests)
         /\ Len(frames[t]) \in Nat \ {0}
         /\ AllFine(frames) => Fine(Top(t).requests)
<1>1. /\ Len(frames[t]) \in Nat \ {0} /\ Len(frames[t]) \in 1 .. Len(frames[t])
      /\ Top(t) = frames[t][Len(frames[t])]
  BY InnermostFrame
<1> QED BY <1>1 DEF Held, AllFine

LEMMA SameTopStays ==
  ASSUME TypeOK, NEW t \in Threads, ~Idle(t), BufferBecomes(t, Top(t).requests)
  PROVE  BuffersStay
  BY TopHeld DEF BufferBecomes, BuffersStay

LEMMA PushedStays ==
  ASSUME TypeOK, NEW t \in Threads, FramePushed(t)
  PROVE  BuffersStay
<1>1. Len(frames[t]) \in Nat
  BY TypeOfFrames
<1>2. ASSUME NEW u \in Threads, NEW d \in Nat
      PROVE  Held(frames', u, d) = Held(frames, u, d)
  <2>1. CASE u # t
    BY <2>1 DEF FramePushed, Held
  <2>2. CASE u = t /\ d = Len(frames[t]) + 1
    <3>1. Held(frames', u, d) = Pile(<<>>)
      BY <1>1, <2>2 DEF FramePushed, Held
    <3>2. Held(frames, u, d) = {}
      BY <1>1, <2>2 DEF Held
    <3> QED BY <3>1, <3>2, EmptyBuffer
  <2>3. CASE u = t /\ d # Len(frames[t]) + 1
    BY <1>1, <2>3 DEF FramePushed, Held
  <2> QED BY <2>1, <2>2, <2>3
<1>3. ASSUME AllFine(frames) PROVE AllFine(frames')
  <2> SUFFICES ASSUME NEW u \in Threads, NEW d \in 1 .. Len(frames'[u])
               PROVE  Fine(frames'[u][d].requests)
    BY DEF AllFine
  <2>1. CASE u # t
    BY <1>3, <2>1 DEF FramePushed, AllFine
  <2>2. CASE u = t /\ d = Len(frames[t]) + 1
    BY <2>2, EmptyBuffer DEF FramePushed
  <2>3. CASE u = t /\ d # Len(frames[t]) + 1
    BY <1>1, <1>3, <2>3 DEF FramePushed, AllFine
  <2> QED BY <2>1, <2>2, <2>3
<1> QED BY <1>2, <1>3 DEF BuffersStay

LEMMA AnsweredStays ==
  ASSUME TypeOK, NEW t \in Threads, ~Idle(t), AnsweredPushed(t)
  PROVE  BuffersStay
<1>1. Len(frames[t]) \in Nat \ {0} /\ Top(t) = frames[t][Len(frames[t])]
  BY InnermostFrame
<1>2. /\ Len(frames'[t]) = Len(frames[t]) + 1
      /\ \A d \in 1 .. Len(frames[t]) : frames'[t][d].requests = frames[t][d].requests
      /\ frames'[t][Len(frames[t]) + 1].requests = <<>>
      /\ \A u \in Threads \ {t} : frames'[u] = frames[u]
  BY <1>1 DEF AnsweredPushed
<1>3. ASSUME NEW u \in Threads, NEW d \in Nat
      PROVE  Held(frames', u, d) = Held(frames, u, d)
  <2>1. CASE u # t
    BY <1>2, <2>1 DEF Held
  <2>2. CASE u = t /\ d = Len(frames[t]) + 1
    <3>1. Held(frames', u, d) = Pile(<<>>)
      BY <1>1, <1>2, <2>2 DEF Held
    <3>2. Held(frames, u, d) = {}
      BY <1>1, <2>2 DEF Held
    <3> QED BY <3>1, <3>2, EmptyBuffer
  <2>3. CASE u = t /\ d # Len(frames[t]) + 1
    BY <1>1, <1>2, <2>3 DEF Held
  <2> QED BY <2>1, <2>2, <2>3
<1>4. ASSUME AllFine(frames) PROVE AllFine(frames')
  <2> SUFFICES ASSUME NEW u \in Threads, NEW d \in 1 .. Len(frames'[u])
               PROVE  Fine(frames'[u][d].requests)
    BY DEF AllFine
  <2>1. CASE u # t
    BY <1>2, <1>4, <2>1 DEF AllFine
  <2>2. CASE u = t /\ d = Len(frames[t]) + 1
    BY <1>2, <2>2, EmptyBuffer
  <2>3. CASE u = t /\ d # Len(frames[t]) + 1
    BY <1>1, <1>2, <1>4, <2>3 DEF AllFine
  <2> QED BY <2>1, <2>2, <2>3
<1> QED BY <1>3, <1>4 DEF BuffersStay

LEMMA PoppedStays ==
  ASSUME TypeOK, NEW t \in Threads, ~Idle(t), Top(t).requests = <<>>, FramePopped(t)
  PROVE  BuffersStay
<1>1. Len(frames[t]) \in Nat \ {0}
  BY InnermostFrame
<1>2. ASSUME NEW u \in Threads, NEW d \in Nat
      PROVE  Held(frames', u, d) = Held(frames, u, d)
  <2>1. CASE u # t
    BY <2>1 DEF FramePopped, Held
  <2>2. CASE u = t /\ d = Len(frames[t])
    <3>1. Held(frames', u, d) = {}
      BY <1>1, <2>2 DEF FramePopped, Held
    <3> QED BY <2>2, <3>1, TopHeld, EmptyBuffer
  <2>3. CASE u = t /\ d # Len(frames[t])
    BY <1>1, <2>3 DEF FramePopped, Held
  <2> QED BY <2>1, <2>2, <2>3
<1>3. ASSUME AllFine(frames) PROVE AllFine(frames')
  <2> SUFFICES ASSUME NEW u \in Threads, NEW d \in 1 .. Len(frames'[u])
               PROVE  Fine(frames'[u][d].requests)
    BY DEF AllFine
  <2>1. CASE u # t
    BY <1>3, <2>1 DEF FramePopped, AllFine
  <2>2. CASE u = t
    BY <1>1, <1>3, <2>2 DEF FramePopped, AllFine
  <2> QED BY <2>1, <2>2
<1> QED BY <1>2, <1>3 DEF BuffersStay

\* What a step of a thread does to the items.
LEMMA StepBuffers ==
  ASSUME IInv, NEW t \in Threads, Step(t)
  PROVE  \/ \E i \in Items : Put(t, i) /\ BuffersStay
         \/ \E i \in Items : /\ Remove(t, i) /\ ~Idle(t)
                             /\ BufferBecomes(t, Added(Top(t).requests, i))
         \/ /\ FlushOut(t) /\ ~Idle(t) /\ Top(t).requests # <<>>
            /\ BufferBecomes(t, Tail(Top(t).requests))
         \/ /\ UNCHANGED <<cached, fresh, connected, delivered, discarded, closing>>
            /\ BuffersStay
<1>1. TypeOK
  BY DEF IInv
<1>2. CASE Lock(t) \/ Swap(t) \/ Unswap(t) \/ Unlock(t) \/ CallbackReturns(t)
  <2>1. /\ ~Idle(t)
        /\ \E place \in Places : frames' = MovedTo(t, place)
        /\ UNCHANGED <<cached, fresh, connected, delivered, discarded, closing>>
    BY <1>2 DEF Lock, Swap, Unswap, Unlock, CallbackReturns, At, Places
  <2> QED BY <1>1, <2>1, MovedBuffer, SameTopStays
<1>3. ASSUME NEW i \in Items, Put(t, i) PROVE BuffersStay
  BY <1>3 DEF Put, BuffersStay
<1>4. ASSUME NEW i \in Items, Remove(t, i)
      PROVE  ~Idle(t) /\ BufferBecomes(t, Added(Top(t).requests, i))
  <2>1. ~Idle(t) /\ Top(t).at = "work"
    BY <1>4 DEF Remove, At
  <2>2. Top(t) \in FrameType
    BY <1>1, <2>1, InnermostFrame
  <2>3. Inner(t, "work") /\ Depth(t) \in Nat
    BY <1>1, <2>1, AtByPlace DEF At, Inner, Top, Place
  <2>4. stackBuffer # Nobody /\ cacheMutex \in Threads
        /\ stackBuffer = <<cacheMutex, Depth(cacheMutex)>>
    BY <2>1, <2>3 DEF IInv, Swapped
  <2>5. cacheMutex = t
    BY <2>3 DEF IInv, Locked, Critical, Inner
  <2> DEFINE f == [Top(t) EXCEPT !.requests = Added(@, i)]
  <2>6. f \in FrameType /\ f.requests = Added(Top(t).requests, i)
    BY <2>2, AddedType DEF FrameType
  <2>7. frames' = [frames EXCEPT ![t][Depth(t)] = f]
    BY <1>4, <2>4, <2>5 DEF Remove, Top
  <2> HIDE DEF f
  <2>8. TopReplaced(t, f)
    BY <1>1, <2>1, <2>6, <2>7, ReplaceTop
  <2> QED BY <1>1, <2>1, <2>6, <2>8, ReplacedBuffer
<1>5. CASE FlushOut(t)
  <2>1. ~Idle(t) /\ Top(t).requests # <<>>
    BY <1>5 DEF FlushOut, At
  <2>2. Top(t) \in FrameType
    BY <1>1, <2>1, InnermostFrame
  <2>3. Tail(Top(t).requests) \in Seq(SUBSET Items)
    BY <2>1, <2>2 DEF FrameType
  <2>4. \E f \in FrameType : /\ f.requests = Tail(Top(t).requests)
                             /\ frames' = [frames EXCEPT ![t][Depth(t)] = f]
    <3>1. CASE connected
      <4> DEFINE f == [Top(t) EXCEPT !.at = "callback", !.requests = Tail(@)]
      <4>1. f \in FrameType /\ f.requests = Tail(Top(t).requests)
        BY <2>2, <2>3 DEF FrameType, Places
      <4>2. frames' = [frames EXCEPT ![t][Depth(t)] = f]
        BY <1>5, <3>1 DEF FlushOut, Top
      <4> HIDE DEF f
      <4> QED BY <4>1, <4>2
    <3>2. CASE ~connected
      <4> DEFINE f == [Top(t) EXCEPT !.requests = Tail(@)]
      <4>1. f \in FrameType /\ f.requests = Tail(Top(t).requests)
        BY <2>2, <2>3 DEF FrameType
      <4>2. frames' = [frames EXCEPT ![t][Depth(t)] = f]
        BY <1>5, <3>2 DEF FlushOut, Top
      <4> HIDE DEF f
      <4> QED BY <4>1, <4>2
    <3> QED BY <3>1, <3>2
  <2>5. PICK f \in FrameType : /\ f.requests = Tail(Top(t).requests)
                               /\ frames' = [frames EXCEPT ![t][Depth(t)] = f]
    BY <2>4
  <2>6. TopReplaced(t, f)
    BY <1>1, <2>1, <2>5, ReplaceTop
  <2>7. BufferBecomes(t, f.requests)
    BY <1>1, <2>1, <2>6, ReplacedBuffer
  <2> QED BY <1>5, <2>1, <2>5, <2>7
<1>6. CASE AnswerInPlace(t)
  <2>1. ~Idle(t) /\ AnsweredPushed(t)
    BY <1>1, <1>6, AnswerFrames DEF AnswerInPlace, At
  <2>2. BuffersStay
    BY <1>1, <2>1, AnsweredStays
  <2> QED BY <1>6, <2>2 DEF AnswerInPlace
<1>7. CASE Finish(t)
  <2>1. ~Idle(t) /\ Top(t).requests = <<>> /\ FramePopped(t)
    BY <1>1, <1>7, PopFrame DEF Finish, At
  <2>2. BuffersStay
    BY <1>1, <2>1, PoppedStays
  <2> QED BY <1>7, <2>2 DEF Finish
<1> QED BY <1>2, <1>3, <1>4, <1>5, <1>6, <1>7 DEF Step

-----------------------------------------------------------------------------
(* An item is in one place.                                                *)

OnePlace(fs, inCache, new) ==
  /\ AllFine(fs)
  /\ \A t, u \in Threads : \A d, e \in Nat :
       t # u \/ d # e => Held(fs, t, d) \cap Held(fs, u, e) = {}
  /\ Out(fs) \cap inCache = {}
  /\ Out(fs) \cap new = {}
  /\ inCache \cap new = {}

\* The client is connected until it is closed.
Open == connected \/ closing = "closed"

DeliveryInv == IInv /\ OnePlace(frames, cached, fresh) /\ Open

LEMMA HeldIsOut ==
  ASSUME NEW fs, NEW t \in Threads, NEW d \in Nat
  PROVE  Held(fs, t, d) \subseteq Out(fs)
  BY DEF Held, Out, Pile

LEMMA StayingBuffers ==
  ASSUME BuffersStay
  PROVE  /\ Out(frames') = Out(frames)
         /\ \A c, n : OnePlace(frames, c, n) => OnePlace(frames', c, n)
<1>1. Out(frames') = Out(frames)
  BY DEF BuffersStay, Out
<1>2. ASSUME NEW c, NEW n, OnePlace(frames, c, n)
      PROVE  OnePlace(frames', c, n)
  <2>1. ASSUME NEW t \in Threads, NEW u \in Threads, NEW d \in Nat, NEW e \in Nat,
               t # u \/ d # e
        PROVE  Held(frames', t, d) \cap Held(frames', u, e) = {}
    BY <1>2, <2>1 DEF OnePlace, BuffersStay
  <2> QED BY <1>1, <1>2, <2>1 DEF OnePlace, BuffersStay
<1> QED BY <1>1, <1>2

\* An item of the cache goes to the innermost buffer of t.
LEMMA RemovedToBuffer ==
  ASSUME TypeOK, NEW c, NEW n, OnePlace(frames, c, n), NEW t \in Threads, ~Idle(t),
         NEW i \in Items, i \in c, BufferBecomes(t, Added(Top(t).requests, i))
  PROVE  /\ Out(frames') = Out(frames) \cup {i}
         /\ OnePlace(frames', c \ {i}, n)
<1> DEFINE m == Len(frames[t])
<1>1. /\ m \in Nat /\ Held(frames, t, m) = Pile(Top(t).requests)
      /\ Fine(Top(t).requests)
  BY TopHeld DEF OnePlace
<1>2. i \notin Out(frames)
  BY DEF OnePlace
<1>3. i \notin Pile(Top(t).requests)
  BY <1>1, <1>2, HeldIsOut
<1>4. /\ Fine(Added(Top(t).requests, i))
      /\ Pile(Added(Top(t).requests, i)) = Pile(Top(t).requests) \cup {i}
  BY <1>1, <1>3, AddedItem
<1>5. /\ Held(frames', t, m) = Held(frames, t, m) \cup {i}
      /\ \A u \in Threads : \A d \in Nat :
           u # t \/ d # m => Held(frames', u, d) = Held(frames, u, d)
      /\ AllFine(frames')
  BY <1>1, <1>4 DEF BufferBecomes, OnePlace
<1> HIDE DEF m
<1>6. Out(frames') = Out(frames) \cup {i}
  <2>1. ASSUME NEW x \in Out(frames') PROVE x \in Out(frames) \cup {i}
    <3>1. PICK u \in Threads, d \in Nat : x \in Held(frames', u, d)
      BY <2>1 DEF Out
    <3>2. x \in Held(frames, u, d) \/ x = i
      BY <1>5, <3>1
    <3> QED BY <3>2, HeldIsOut
  <2>2. ASSUME NEW x \in Out(frames) PROVE x \in Out(frames')
    <3>1. PICK u \in Threads, d \in Nat : x \in Held(frames, u, d)
      BY <2>2 DEF Out
    <3>2. x \in Held(frames', u, d)
      BY <1>5, <3>1
    <3> QED BY <3>2, HeldIsOut
  <2>3. i \in Out(frames')
    BY <1>1, <1>5, HeldIsOut
  <2> QED BY <2>1, <2>2, <2>3
<1>7. ASSUME NEW v \in Threads, NEW u \in Threads, NEW d \in Nat, NEW e \in Nat,
             v # u \/ d # e
      PROVE  Held(frames', v, d) \cap Held(frames', u, e) = {}
  <2>1. i \notin Held(frames, v, d) /\ i \notin Held(frames, u, e)
    BY <1>2, HeldIsOut
  <2>2. Held(frames, v, d) \cap Held(frames, u, e) = {}
    BY <1>7 DEF OnePlace
  <2>3. CASE v = t /\ d = m
    BY <1>5, <1>7, <2>1, <2>2, <2>3
  <2>4. CASE u = t /\ e = m
    BY <1>5, <1>7, <2>1, <2>2, <2>4
  <2>5. CASE ~(v = t /\ d = m) /\ ~(u = t /\ e = m)
    BY <1>5, <2>2, <2>5
  <2> QED BY <2>3, <2>4, <2>5
<1>8. /\ Out(frames') \cap (c \ {i}) = {} /\ Out(frames') \cap n = {}
      /\ (c \ {i}) \cap n = {}
  BY <1>6 DEF OnePlace
<1> QED BY <1>5, <1>6, <1>7, <1>8 DEF OnePlace

\* The first request of the innermost buffer of t leaves it.
LEMMA RequestLeaves ==
  ASSUME TypeOK, NEW c, NEW n, OnePlace(frames, c, n), NEW t \in Threads, ~Idle(t),
         Top(t).requests # <<>>, BufferBecomes(t, Tail(Top(t).requests))
  PROVE  /\ Out(frames') = Out(frames) \ NextRequest(t)
         /\ NextRequest(t) \subseteq Out(frames)
         /\ Cardinality(NextRequest(t)) \in 1 .. MergeLimit
         /\ OnePlace(frames', c, n)
<1> DEFINE m == Len(frames[t])
           request == NextRequest(t)
<1>1. /\ m \in Nat /\ Held(frames, t, m) = Pile(Top(t).requests)
      /\ Fine(Top(t).requests)
  BY TopHeld DEF OnePlace
<1>2. /\ Fine(Tail(Top(t).requests))
      /\ Pile(Tail(Top(t).requests)) = Pile(Top(t).requests) \ request
      /\ request \subseteq Pile(Top(t).requests)
      /\ Cardinality(request) \in 1 .. MergeLimit
  BY <1>1, FirstRequest DEF NextRequest
<1>3. /\ Held(frames', t, m) = Held(frames, t, m) \ request
      /\ \A u \in Threads : \A d \in Nat :
           u # t \/ d # m => Held(frames', u, d) = Held(frames, u, d)
      /\ AllFine(frames')
  BY <1>1, <1>2 DEF BufferBecomes, OnePlace
<1>4. request \subseteq Held(frames, t, m)
  BY <1>1, <1>2
<1> HIDE DEF m, request
<1>5. \A u \in Threads : \A d \in Nat :
        u # t \/ d # m => Held(frames, u, d) \cap request = {}
  BY <1>1, <1>4 DEF OnePlace
<1>6. \A u \in Threads : \A d \in Nat :
        Held(frames', u, d) = Held(frames, u, d) \ request
  BY <1>3, <1>5
<1>7. Out(frames') = Out(frames) \ request
  BY <1>6 DEF Out
<1>8. request \subseteq Out(frames)
  BY <1>1, <1>4, HeldIsOut
<1>9. ASSUME NEW v \in Threads, NEW u \in Threads, NEW d \in Nat, NEW e \in Nat,
             v # u \/ d # e
      PROVE  Held(frames', v, d) \cap Held(frames', u, e) = {}
  <2>1. Held(frames, v, d) \cap Held(frames, u, e) = {}
    BY <1>9 DEF OnePlace
  <2>2. /\ Held(frames', v, d) \subseteq Held(frames, v, d)
        /\ Held(frames', u, e) \subseteq Held(frames, u, e)
    BY <1>6
  <2> QED BY <2>1, <2>2
<1>10. OnePlace(frames', c, n)
  BY <1>3, <1>7, <1>9 DEF OnePlace
<1> QED BY <1>2, <1>7, <1>8, <1>10 DEF request

-----------------------------------------------------------------------------
(* The simulation.                                                         *)

\* What Delivery calls pending.
Pending == cached \cup Buffered

LEMMA PendingIs == TypeOK => Pending = cached \cup Out(frames)
  BY BufferedIsOut DEF Pending

LEMMA PendingWillBe == TypeOK' => Pending' = cached' \cup Out(frames')
<1>1. (TypeOK => Pending = cached \cup Out(frames))'
  BY PendingIs, PTL
<1> QED BY <1>1

LEMMA InitSimulates == Init => DeliveryInv /\ Promised!Init
<1> SUFFICES ASSUME Init PROVE DeliveryInv /\ Promised!Init
  OBVIOUS
<1>1. IInv
  BY InitHolds
<1>2. /\ \A t \in Threads : Len(frames[t]) = 0
      /\ \A t \in Threads : \A d \in Nat : Held(frames, t, d) = {}
  BY DEF Init, Held
<1>3. Out(frames) = {}
  BY <1>2 DEF Out
<1>4. AllFine(frames)
  BY <1>2 DEF AllFine
<1>5. OnePlace(frames, cached, fresh)
  BY <1>2, <1>3, <1>4 DEF Init, OnePlace
<1>6. cached \cup Buffered = {}
  BY <1>1, <1>3, BufferedIsOut DEF Init, IInv
<1> QED BY <1>1, <1>5, <1>6 DEF DeliveryInv, Open, Init, Promised!Init

\* What a step does to the items and to Delivery.
Simulated ==
  /\ OnePlace(frames', cached', fresh')
  /\ [Promised!Next]_(Promised!vars)

LEMMA StaySimulates ==
  ASSUME DeliveryInv, IInv', BuffersStay,
         UNCHANGED <<cached, fresh, connected, delivered, discarded>>
  PROVE  Simulated
<1>1. TypeOK /\ TypeOK'
  BY DEF DeliveryInv, IInv
<1>2. Out(frames') = Out(frames) /\ OnePlace(frames', cached, fresh)
  BY StayingBuffers DEF DeliveryInv
<1>3. Pending' = Pending
  BY <1>1, <1>2, PendingIs, PendingWillBe
<1> QED BY <1>2, <1>3 DEF Simulated, Pending, Promised!vars

LEMMA PutSimulates ==
  ASSUME DeliveryInv, IInv', NEW t \in Threads, NEW i \in Items, Put(t, i), BuffersStay
  PROVE  Simulated
<1>1. TypeOK /\ TypeOK' /\ connected
  BY DEF DeliveryInv, IInv, Open, Put
<1>2. Out(frames') = Out(frames) /\ OnePlace(frames', cached, fresh)
  BY StayingBuffers DEF DeliveryInv
<1>3. /\ i \in fresh /\ fresh' = fresh \ {i} /\ cached' = cached \cup {i}
      /\ UNCHANGED <<delivered, discarded, connected>>
  BY DEF Put
<1>4. Pending' = Pending \cup {i}
  BY <1>1, <1>2, <1>3, PendingIs, PendingWillBe
<1>5. OnePlace(frames', cached', fresh')
  BY <1>2, <1>3 DEF OnePlace
<1>6. Promised!Accept(i)
  BY <1>1, <1>3, <1>4 DEF Promised!Accept, Pending
<1> QED BY <1>5, <1>6 DEF Simulated, Promised!Next

LEMMA RemoveSimulates ==
  ASSUME DeliveryInv, IInv', NEW t \in Threads, NEW i \in Items, Remove(t, i), ~Idle(t),
         BufferBecomes(t, Added(Top(t).requests, i))
  PROVE  Simulated
<1>1. TypeOK /\ TypeOK'
  BY DEF DeliveryInv, IInv
<1>2. /\ i \in cached /\ cached' = cached \ {i}
      /\ UNCHANGED <<fresh, delivered, discarded, connected>>
  BY DEF Remove
<1>3. Out(frames') = Out(frames) \cup {i} /\ OnePlace(frames', cached', fresh')
  BY <1>1, <1>2, RemovedToBuffer DEF DeliveryInv
<1>4. Pending' = Pending
  BY <1>1, <1>2, <1>3, PendingIs, PendingWillBe
<1> QED BY <1>2, <1>3, <1>4 DEF Simulated, Pending, Promised!vars

LEMMA FlushSimulates ==
  ASSUME DeliveryInv, IInv', NEW t \in Threads, FlushOut(t), ~Idle(t),
         Top(t).requests # <<>>, BufferBecomes(t, Tail(Top(t).requests))
  PROVE  Simulated
<1> DEFINE request == NextRequest(t)
<1>1. TypeOK /\ TypeOK'
  BY DEF DeliveryInv, IInv
<1>2. UNCHANGED <<cached, fresh, connected>>
  BY DEF FlushOut
<1>3. /\ Out(frames') = Out(frames) \ request
      /\ request \subseteq Out(frames)
      /\ Cardinality(request) \in 1 .. MergeLimit
      /\ OnePlace(frames', cached, fresh)
  BY <1>1, RequestLeaves DEF DeliveryInv
<1>4. request \subseteq Pending /\ request \in SUBSET Items
  BY <1>1, <1>3, PendingIs DEF Out
<1>5. Pending' = Pending \ request
  <2>1. request \cap cached = {}
    BY <1>3 DEF DeliveryInv, OnePlace
  <2> QED BY <1>1, <1>2, <1>3, <2>1, PendingIs, PendingWillBe
<1>6. CASE connected
  <2>1. /\ delivered' = [i \in Items |-> delivered[i] + (IF i \in request THEN 1 ELSE 0)]
        /\ discarded' = discarded
    BY <1>6 DEF FlushOut
  <2>2. Promised!Give(request)
    <3>1. Promised!Cardinality(request) = Cardinality(request)
      BY DEF Promised!Cardinality, Cardinality
    <3> HIDE DEF request
    <3> QED BY <1>2, <1>3, <1>4, <1>5, <1>6, <2>1, <3>1
            DEF Promised!Give, Pending
  <2> QED BY <1>2, <1>3, <1>4, <2>2 DEF Simulated, Promised!Next
<1>7. CASE ~connected
  <2>1. delivered' = delivered /\ discarded' = discarded \cup request
    BY <1>7 DEF FlushOut
  <2>2. Promised!Drop(request)
    BY <1>2, <1>4, <1>5, <1>7, <2>1 DEF Promised!Drop, Pending
  <2> QED BY <1>2, <1>3, <1>4, <2>2 DEF Simulated, Promised!Next
<1> QED BY <1>6, <1>7

LEMMA StepSimulates ==
  ASSUME DeliveryInv, IInv', NEW t \in Threads, Step(t)
  PROVE  Simulated /\ Open'
<1>1. IInv
  BY DEF DeliveryInv
<1>2. Simulated
  BY <1>1, StepBuffers, StaySimulates, PutSimulates, RemoveSimulates, FlushSimulates
<1>3. UNCHANGED <<connected, closing>>
  BY DEF Step, Lock, Swap, Put, Remove, Unswap, Unlock, FlushOut, AnswerInPlace,
         CallbackReturns, Finish
<1> QED BY <1>2, <1>3 DEF DeliveryInv, Open

LEMMA NextSimulates ==
  DeliveryInv /\ [Next]_vars => DeliveryInv' /\ [Promised!Next]_(Promised!vars)
<1> SUFFICES ASSUME DeliveryInv, [Next]_vars
             PROVE  DeliveryInv' /\ [Promised!Next]_(Promised!vars)
  OBVIOUS
<1>0. IInv /\ TypeOK /\ IInv'
  BY NextKeeps DEF DeliveryInv, IInv
<1> SUFFICES Simulated /\ Open'
  BY <1>0 DEF DeliveryInv, Simulated
<1>1. ASSUME NEW t \in Threads, Step(t) PROVE Simulated /\ Open'
  BY <1>0, <1>1, StepSimulates
<1>2. ASSUME NEW t \in Threads, NEW all \in BOOLEAN, Begin(t, all)
      PROVE  Simulated /\ Open'
  <2>1. BuffersStay
    BY <1>0, <1>2, PushFrame, PushedStays DEF Begin
  <2>2. UNCHANGED <<cached, fresh, connected, delivered, discarded, closing>>
    BY <1>2 DEF Begin
  <2>3. Simulated
    BY <1>0, <2>1, <2>2, StaySimulates
  <2> QED BY <2>2, <2>3 DEF DeliveryInv, Open
<1>3. CASE BeginClose
  <2>1. BuffersStay
    BY <1>0, <1>3, PushFrame, PushedStays, ThreadsAssumption DEF BeginClose, Threads
  <2>2. UNCHANGED <<cached, fresh, connected, delivered, discarded>>
    BY <1>3 DEF BeginClose
  <2>3. Simulated
    BY <1>0, <2>1, <2>2, StaySimulates
  <2> QED BY <1>3, <2>2, <2>3 DEF DeliveryInv, Open, BeginClose
<1>4. CASE Disconnect
  <2>1. /\ connected /\ connected' = FALSE /\ closing' = "closed"
        /\ UNCHANGED <<cached, fresh, frames, delivered, discarded>>
    BY <1>4 DEF Disconnect, DeliveryInv, Open
  <2>2. BuffersStay
    BY <2>1 DEF BuffersStay
  <2>3. Out(frames') = Out(frames) /\ OnePlace(frames', cached', fresh')
    BY <2>1, <2>2, StayingBuffers DEF DeliveryInv
  <2>4. Pending' = Pending
    BY <1>0, <2>1, <2>3, PendingIs, PendingWillBe DEF IInv
  <2>5. Promised!Close
    BY <2>1, <2>4 DEF Promised!Close, Pending
  <2> QED BY <2>1, <2>3, <2>5 DEF Simulated, Open, Promised!Next
<1>5. CASE Terminated \/ UNCHANGED vars
  <2>1. UNCHANGED vars
    BY <1>5 DEF Terminated
  <2>2. BuffersStay
    BY <2>1 DEF BuffersStay, vars
  <2>3. Simulated
    BY <1>0, <2>1, <2>2, StaySimulates DEF vars
  <2> QED BY <2>1, <2>3 DEF DeliveryInv, Open, vars
<1> QED BY <1>1, <1>2, <1>3, <1>4, <1>5 DEF Next

-----------------------------------------------------------------------------
\* The handler implements Delivery: whatever the threads, the locks and the
\* destructor do, each item accepted is given to the transport at most once, in
\* requests that are not too large, and is dropped only after the client closed.
THEOREM Implements == Spec => DeliversEachOnce
<1>1. Init => DeliveryInv /\ Promised!Init
  BY InitSimulates
<1>2. DeliveryInv /\ [Next]_vars => DeliveryInv' /\ [Promised!Next]_(Promised!vars)
  BY NextSimulates
<1> QED BY <1>1, <1>2, PTL DEF Spec, DeliversEachOnce, Promised!Spec
=============================================================================
