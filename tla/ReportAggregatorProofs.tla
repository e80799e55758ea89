----------------------- MODULE ReportAggregatorProofs -----------------------
(***************************************************************************)
(* Proofs about ReportAggregator: for any keys, capacity, limits and       *)
(* reports, the table stays within its capacity and what was merged in it  *)
(* stays small; no operation is lost or sent twice; no request carries too *)
(* many.                                                                   *)
(*                                                                         *)
(* The first part is about the table alone.  The second part follows what  *)
(* leaves it: Held() counts the operations of a key in a list of requests, *)
(* Total() those in the bag of requests under way, and each action moves   *)
(* operations from one account to another.  What Flushed() computes is     *)
(* proved for every order of removal: SumLemmas has the sums and the       *)
(* iteration of steps that this takes.                                     *)
(***************************************************************************)
EXTENDS ReportAggregator, SumLemmas, FiniteSetTheorems, SequenceTheorems, TLAPS

Typed ==
  /\ cache \in [Keys -> CacheElem \cup {NoElem}]
  /\ todo \in Seq(Operation)

TableInv == Typed /\ WithinCapacity /\ GrownStaySmall

-----------------------------------------------------------------------------
LEMMA Options == /\ Capacity \in Nat /\ Capacity > 0
                 /\ MaxLogEntries \in Nat /\ LogEntries \subseteq Nat
                 /\ NoElem \notin CacheElem /\ IsFiniteSet(Keys)
  BY OptionsAssumption, KeysAssumption DEF CacheElem

\* What was removed from a table left only entries that it had.
LEMMA Removed ==
  ASSUME NEW table \in [Keys -> CacheElem \cup {NoElem}], NEW S
  PROVE  /\ Without(table, S) \in [Keys -> CacheElem \cup {NoElem}]
         /\ Cached(Without(table, S)) = Cached(table) \ S
         /\ \A k \in Cached(Without(table, S)) : Without(table, S)[k] = table[k]
  BY DEF Without, Cached

LEMMA CountedKeys ==
  ASSUME NEW S, S \subseteq Keys, NEW T, T \subseteq S
  PROVE  /\ IsFiniteSet(S)
         /\ Cardinality(S) \in Nat /\ Cardinality(T) <= Cardinality(S)
<1>1. IsFiniteSet(S)
  BY Options, FS_Subset
<1> QED BY <1>1, FS_Subset, FS_CardinalityType

\* A table that is one of the invariant.
Good(table) ==
  /\ table \in [Keys -> CacheElem \cup {NoElem}]
  /\ Cardinality(Cached(table)) <= Capacity
  /\ \A k \in Cached(table) : table[k].lone \/ table[k].entries < MaxLogEntries

LEMMA FewerIsGood ==
  ASSUME NEW table, Good(table), NEW S
  PROVE  Good(Without(table, S))
<1>1. Cached(Without(table, S)) \subseteq Cached(table)
  BY Removed DEF Good
<1>2. /\ Cardinality(Cached(Without(table, S))) <= Cardinality(Cached(table))
      /\ Cardinality(Cached(Without(table, S))) \in Nat
      /\ Cardinality(Cached(table)) \in Nat
  <2>1. Cached(table) \subseteq Keys
    BY DEF Cached
  <2> QED BY <1>1, <2>1, CountedKeys
<1> QED BY <1>1, <1>2, Removed, Options DEF Good

\* A new entry, where there is room.
LEMMA InsertIsGood ==
  ASSUME NEW table, Good(table), Room(table), NEW op \in Operation
  PROVE  Good([table EXCEPT ![op.key] = NewElem(op)])
<1> DEFINE new == [table EXCEPT ![op.key] = NewElem(op)]
<1>0. op.key \in Keys /\ op.entries \in Nat
  BY Options DEF Operation
<1>1. NewElem(op) \in CacheElem /\ NewElem(op).lone
  BY <1>0 DEF NewElem, CacheElem
<1>2. new \in [Keys -> CacheElem \cup {NoElem}]
  BY <1>0, <1>1 DEF Good
<1>3. Cached(new) = Cached(table) \cup {op.key}
  BY <1>0, <1>1, Options DEF Good, Cached
<1>4. /\ IsFiniteSet(Cached(table)) /\ Cardinality(Cached(table)) \in Nat
      /\ Cardinality(Cached(new)) <= Cardinality(Cached(table)) + 1
      /\ Cardinality(Cached(new)) \in Nat
  <2>1. IsFiniteSet(Cached(table)) /\ Cardinality(Cached(table)) \in Nat
    <3>1. Cached(table) \subseteq Keys
      BY DEF Cached
    <3> QED BY <3>1, CountedKeys
  <2>2. \/ Cardinality(Cached(table) \cup {op.key}) = Cardinality(Cached(table))
        \/ Cardinality(Cached(table) \cup {op.key}) = Cardinality(Cached(table)) + 1
    BY <2>1, FS_AddElement
  <2> HIDE DEF new
  <2> QED BY <1>3, <2>1, <2>2
<1>5. Cardinality(Cached(new)) <= Capacity
  BY <1>4, Options DEF Room
<1>6. ASSUME NEW k \in Cached(new)
      PROVE  new[k].lone \/ new[k].entries < MaxLogEntries
  <2>1. CASE k = op.key
    BY <1>0, <1>1, <2>1 DEF Good
  <2>2. CASE k # op.key
    BY <1>3, <1>6, <2>2 DEF Good, Cached
  <2> QED BY <2>1, <2>2
<1> QED BY <1>2, <1>5, <1>6 DEF Good

LEMMA MergedType ==
  ASSUME NEW e \in CacheElem, NEW op, op.entries \in Nat
  PROVE  MergeOperation(e, op) \in CacheElem
<1>1. e.merged + 1 \in Nat /\ e.entries + op.entries \in Nat /\ FALSE \in BOOLEAN
  BY DEF CacheElem
<1>2. e \in [merged : Nat, entries : Nat, age : Nat, lone : BOOLEAN]
  BY DEF CacheElem
<1>3. [e EXCEPT !.merged = e.merged + 1, !.entries = e.entries + op.entries,
               !.lone = FALSE] \in [merged : Nat, entries : Nat, age : Nat,
                                    lone : BOOLEAN]
  BY <1>1, <1>2, Zenon
<1> QED BY <1>3 DEF MergeOperation, CacheElem

\* An entry merged into that is not too big.
LEMMA MergeKeepsTyped ==
  ASSUME NEW table, Good(table), NEW op \in Operation, table[op.key] # NoElem
  PROVE  LET merged == [table EXCEPT ![op.key] = MergeOperation(@, op)]
         IN /\ merged \in [Keys -> CacheElem \cup {NoElem}]
            /\ Cached(merged) = Cached(table)
            /\ \A k \in Keys \ {op.key} : merged[k] = table[k]
            /\ merged[op.key] \in CacheElem
<1>0. op.key \in Keys /\ op.entries \in Nat /\ table[op.key] \in CacheElem
  BY Options DEF Operation, Good
<1>1. MergeOperation(table[op.key], op) \in CacheElem
  BY <1>0, MergedType
<1> QED BY <1>0, <1>1, Options DEF Good, Cached

LEMMA InitGood == Init => TableInv
<1> SUFFICES ASSUME Init PROVE TableInv
  OBVIOUS
<1>1. Cached(cache) = {}
  BY DEF Init, Cached
<1>2. Cardinality(Cached(cache)) <= Capacity
  BY <1>1, FS_EmptySet, Options
<1>3. Typed
  BY DEF Init, Typed
<1> QED BY <1>1, <1>2, <1>3 DEF TableInv, WithinCapacity, GrownStaySmall

LEMMA GoodTable == TableInv <=> Good(cache) /\ todo \in Seq(Operation)
  BY DEF TableInv, Typed, Good, WithinCapacity, GrownStaySmall

LEMMA Reports ==
  ASSUME NEW report \in BoundedSeq(Operation, MaxReport)
  PROVE  report \in Seq(Operation)
  BY OptionsAssumption DEF BoundedSeq, SeqOf

LEMMA NextOperation ==
  ASSUME TableInv, todo # <<>>
  PROVE  Head(todo) \in Operation /\ Tail(todo) \in Seq(Operation)
  BY DEF TableInv, Typed

LEMMA MergeGood ==
  ASSUME TableInv, MergeCached
  PROVE  Good(cache') /\ todo' \in Seq(Operation)
<1> DEFINE op == Head(todo)
           table == Without(cache, Expired(cache))
           merged == [table EXCEPT ![op.key] = MergeOperation(@, op)]
<1>1. /\ todo # <<>> /\ table[op.key] # NoElem /\ todo' = Tail(todo)
      /\ cache' = IF TooBig(merged[op.key]) THEN Without(merged, {op.key})
                  ELSE merged
  BY DEF MergeCached, Processed
<1>2. op \in Operation /\ todo' \in Seq(Operation)
  BY <1>1, NextOperation
<1>3. Good(table)
  BY GoodTable, FewerIsGood
<1> HIDE DEF op, table
<1>4. /\ merged \in [Keys -> CacheElem \cup {NoElem}]
      /\ Cached(merged) = Cached(table)
      /\ \A k \in Keys \ {op.key} : merged[k] = table[k]
      /\ merged[op.key] \in CacheElem
  BY <1>1, <1>2, <1>3, MergeKeepsTyped
<1> HIDE DEF merged
<1>5. CASE TooBig(merged[op.key])
  <2>1. cache' = Without(merged, {op.key})
    BY <1>1, <1>5
  <2>2. /\ cache' \in [Keys -> CacheElem \cup {NoElem}]
        /\ Cached(cache') = Cached(table) \ {op.key}
        /\ \A k \in Cached(cache') : cache'[k] = merged[k]
    BY <2>1, <1>4, Removed
  <2>3. \A k \in Cached(cache') : cache'[k] = table[k] /\ k \in Cached(table)
    BY <1>4, <2>2 DEF Cached
  <2>4. Cardinality(Cached(cache')) <= Capacity
    <3>1. Cached(table) \subseteq Keys /\ Cached(cache') \subseteq Cached(table)
      BY <2>2 DEF Cached
    <3>2. Cached(cache') \subseteq Keys
      BY <3>1
    <3>3. /\ Cardinality(Cached(cache')) <= Cardinality(Cached(table))
          /\ Cardinality(Cached(cache')) \in Nat /\ Cardinality(Cached(table)) \in Nat
      BY <3>1, <3>2, CountedKeys
    <3> QED BY <1>3, <3>3, Options DEF Good
  <2> QED BY <1>2, <1>3, <2>2, <2>3, <2>4 DEF Good
<1>6. CASE ~TooBig(merged[op.key])
  <2>1. cache' = merged
    BY <1>1, <1>6
  <2>2. merged[op.key].entries < MaxLogEntries
    <3>1. merged[op.key].entries \in Nat
      BY <1>4 DEF CacheElem
    <3> QED BY <1>6, <3>1, Options DEF TooBig
  <2>3. ASSUME NEW k \in Cached(merged)
        PROVE  merged[k].lone \/ merged[k].entries < MaxLogEntries
    <3>1. CASE k = op.key
      BY <2>2, <3>1
    <3>2. CASE k # op.key
      <4>1. k \in Cached(table) /\ merged[k] = table[k]
        BY <1>4, <2>3, <3>2 DEF Cached
      <4> QED BY <1>3, <4>1 DEF Good
    <3> QED BY <3>1, <3>2
  <2> QED BY <1>2, <1>3, <1>4, <2>1, <2>3 DEF Good
<1> QED BY <1>5, <1>6

LEMMA InsertGood ==
  ASSUME TableInv, InsertNew
  PROVE  Good(cache') /\ todo' \in Seq(Operation)
<1> DEFINE op == Head(todo)
           table == Without(cache, Expired(cache))
<1>1. /\ todo # <<>> /\ table[op.key] = NoElem /\ todo' = Tail(todo)
      /\ \/ Room(table) /\ cache' = [table EXCEPT ![op.key] = NewElem(op)]
         \/ \E v \in Victims(table) :
              cache' = [Without(table, {v}) EXCEPT ![op.key] = NewElem(op)]
  BY DEF InsertNew, Processed
<1>2. op \in Operation /\ todo' \in Seq(Operation)
  BY <1>1, NextOperation
<1>3. Good(table)
  BY GoodTable, FewerIsGood
<1> HIDE DEF op, table
<1>4. CASE Room(table) /\ cache' = [table EXCEPT ![op.key] = NewElem(op)]
  BY <1>2, <1>3, <1>4, InsertIsGood
<1>5. ASSUME NEW v \in Victims(table),
             cache' = [Without(table, {v}) EXCEPT ![op.key] = NewElem(op)]
      PROVE  Good(cache')
  <2>1. Good(Without(table, {v}))
    BY <1>3, FewerIsGood
  <2>2. Cached(Without(table, {v})) = Cached(table) \ {v} /\ v \in Cached(table)
    BY <1>3, Removed DEF Good, Victims
  <2>3. Cached(table) \subseteq Keys
    BY DEF Cached
  <2>4. /\ IsFiniteSet(Cached(table)) /\ Cardinality(Cached(table)) \in Nat
        /\ Cardinality(Cached(table) \ {v}) = Cardinality(Cached(table)) - 1
    BY <2>2, <2>3, CountedKeys, FS_RemoveElement
  <2>5. Room(Without(table, {v}))
    <3>1. Cardinality(Cached(table)) <= Capacity
      BY <1>3 DEF Good
    <3>2. Cardinality(Cached(table)) - 1 < Capacity
      BY <2>4, <3>1, Options
    <3> QED BY <2>2, <2>4, <3>2 DEF Room
  <2> QED BY <1>2, <1>5, <2>1, <2>5, InsertIsGood
<1> QED BY <1>1, <1>2, <1>4, <1>5

LEMMA StepGood == TableInv /\ [Next]_vars => TableInv'
<1> SUFFICES ASSUME TableInv, [Next]_vars
             PROVE  Good(cache') /\ todo' \in Seq(Operation)
  BY DEF TableInv, Typed, Good, WithinCapacity, GrownStaySmall
<1>0. Good(cache) /\ todo \in Seq(Operation)
  BY GoodTable
<1>1. ASSUME NEW report \in BoundedSeq(Operation, MaxReport), Report(report)
      PROVE  Good(cache') /\ todo' \in Seq(Operation)
  BY <1>0, <1>1, Reports DEF Report
<1>2. CASE Flush
  BY <1>0, <1>2, FewerIsGood DEF Flush
<1>3. CASE FlushAll
  BY <1>0, <1>3, FewerIsGood DEF FlushAll
<1>4. ASSUME NEW request, FlushOut(request)
      PROVE  Good(cache') /\ todo' \in Seq(Operation)
  BY <1>0, <1>4 DEF FlushOut
<1>5. CASE Tick
  <2>1. /\ todo' = todo
        /\ cache' = [k \in Keys |-> IF cache[k] = NoElem THEN NoElem
                                    ELSE [cache[k] EXCEPT !.age = Older(@)]]
    BY <1>5 DEF Tick
  <2>2. ASSUME NEW k \in Keys, cache[k] # NoElem
        PROVE  /\ cache[k] \in CacheElem /\ cache'[k] \in CacheElem
               /\ cache'[k].lone = cache[k].lone
               /\ cache'[k].entries = cache[k].entries
    <3>1. cache[k] \in CacheElem
      BY <1>0, <2>2 DEF Good
    <3>2. Older(cache[k].age) \in Nat
      BY <3>1 DEF Older, CacheElem
    <3>3. cache'[k] = [cache[k] EXCEPT !.age = Older(cache[k].age)]
      BY <2>1, <2>2
    <3> QED BY <3>1, <3>2, <3>3 DEF CacheElem
  <2>3. Cached(cache') = Cached(cache)
    BY <2>1, <2>2, Options DEF Cached
  <2>4. cache' \in [Keys -> CacheElem \cup {NoElem}]
    BY <2>1, <2>2
  <2> QED BY <1>0, <2>1, <2>2, <2>3, <2>4 DEF Good, Cached
<1>6. CASE UNCHANGED vars
  BY <1>0, <1>6 DEF vars
<1> QED BY <1>1, <1>2, <1>3, <1>4, <1>5, <1>6, MergeGood, InsertGood DEF Next

\* The inductive invariant of the report cache: its entries are merged
\* operations, no more than num_entries, and all that were merged into are small.
THEOREM TableInvariance == Spec => []TableInv
  BY InitGood, StepGood, PTL DEF Spec

\* The report cache keeps no more than num_entries operations, for any number
\* of signatures and however many operations a report carries.
THEOREM Bounded == Spec => []WithinCapacity
<1>1. TableInv => WithinCapacity
  BY DEF TableInv
<1> QED BY <1>1, TableInvariance, PTL

\* What operations were merged into leaves before it has kMaxLogEntries log
\* entries, whatever the limit and the reports.
THEOREM GrownLeave == Spec => []GrownStaySmall
<1>1. TableInv => GrownStaySmall
  BY DEF TableInv
<1> QED BY <1>1, TableInvariance, PTL

-----------------------------------------------------------------------------
(* Counting what requests carry.                                           *)

Requests == Seq(Seq(Sent))

\* What an operation that was sent, and what a list of requests, counts for k.
Share(sent, k) == IF sent.key = k THEN sent.merged ELSE 0
Held(requests, k) == SumFunction([i \in DOMAIN requests |-> Carried(requests[i], k)])

Limited(requests) ==
  \A i \in 1 .. Len(requests) : Len(requests[i]) <= MaxOperationsToSend

LEMMA CarriedSum ==
  ASSUME NEW r \in Seq(Sent), NEW k, NEW f, \A i \in 1 .. Len(r) : f[i] = Share(r[i], k)
  PROVE  Carried(r, k) = SumFunctionOnSet(f, 1 .. Len(r))
<1> DEFINE g == [i \in DOMAIN r |-> IF r[i].key = k THEN r[i].merged ELSE 0]
<1>1. DOMAIN r = 1 .. Len(r) /\ IsFiniteSet(1 .. Len(r))
  BY FS_Interval
<1>2. DOMAIN g = 1 .. Len(r) /\ \A i \in 1 .. Len(r) : f[i] = g[i]
  BY <1>1 DEF Share
<1>3. Carried(r, k) = SumFunctionOnSet(g, 1 .. Len(r))
  BY <1>2 DEF Carried, SumFunction
<1> HIDE DEF g
<1> QED BY <1>1, <1>2, <1>3, SumSame

LEMMA ShareIsNat == ASSUME NEW s \in Sent, NEW k PROVE Share(s, k) \in Nat
  BY DEF Share, Sent

LEMMA CarriedIsNat ==
  ASSUME NEW r \in Seq(Sent), NEW k
  PROVE  Carried(r, k) \in Nat
<1> DEFINE f == [i \in 1 .. Len(r) |-> Share(r[i], k)]
<1>1. \A i \in 1 .. Len(r) : f[i] = Share(r[i], k) /\ f[i] \in Nat
  BY ShareIsNat
<1> HIDE DEF f
<1>2. IsFiniteSet(1 .. Len(r))
  BY FS_Interval
<1> QED BY <1>1, <1>2, CarriedSum, SumNat

LEMMA CarriedAppends ==
  ASSUME NEW r \in Seq(Sent), NEW s \in Sent, NEW k
  PROVE  /\ Carried(Append(r, s), k) = Carried(r, k) + Share(s, k)
         /\ Append(r, s) \in Seq(Sent)
<1> DEFINE n == Len(r)
           f == [i \in 1 .. n + 1 |-> Share(Append(r, s)[i], k)]
<1>1. /\ Append(r, s) \in Seq(Sent) /\ Len(Append(r, s)) = n + 1 /\ n \in Nat
      /\ \A i \in 1 .. n : Append(r, s)[i] = r[i]
      /\ Append(r, s)[n + 1] = s
  BY AppendProperties
<1>2. /\ \A i \in 1 .. n + 1 : f[i] = Share(Append(r, s)[i], k) /\ f[i] \in Int
      /\ \A i \in 1 .. n : f[i] = Share(r[i], k)
      /\ f[n + 1] = Share(s, k)
  <2>1. \A i \in 1 .. n + 1 : Append(r, s)[i] \in Sent
    BY <1>1
  <2> QED BY <1>1, <2>1, ShareIsNat
<1> HIDE DEF f
<1>3. Carried(Append(r, s), k) = SumFunctionOnSet(f, 1 .. n + 1)
  BY <1>1, <1>2, CarriedSum
<1>4. Carried(r, k) = SumFunctionOnSet(f, 1 .. n)
  BY <1>2, CarriedSum
<1> HIDE DEF n
<1>5. SumFunctionOnSet(f, 1 .. n + 1) = SumFunctionOnSet(f, 1 .. n) + f[n + 1]
  BY <1>1, <1>2, SumAppends
<1> QED BY <1>1, <1>2, <1>3, <1>4, <1>5

LEMMA CarriedOne ==
  ASSUME NEW s \in Sent, NEW k
  PROVE  Carried(<<s>>, k) = Share(s, k) /\ <<s>> \in Seq(Sent) /\ Len(<<s>>) = 1
<1> DEFINE none == <<>>
<1>1. none \in Seq(Sent) /\ Append(none, s) = <<s>>
  OBVIOUS
<1>2. Carried(none, k) = 0
  BY SumEmpty DEF Carried, SumFunction
<1> HIDE DEF none
<1>3. /\ Carried(Append(none, s), k) = Carried(none, k) + Share(s, k)
      /\ Append(none, s) \in Seq(Sent)
  BY <1>1, CarriedAppends
<1> QED BY <1>1, <1>2, <1>3, ShareIsNat

LEMMA HeldSum ==
  ASSUME NEW q \in Requests, NEW k, NEW f, \A i \in 1 .. Len(q) : f[i] = Carried(q[i], k)
  PROVE  Held(q, k) = SumFunctionOnSet(f, 1 .. Len(q))
<1> DEFINE g == [i \in DOMAIN q |-> Carried(q[i], k)]
<1>1. DOMAIN q = 1 .. Len(q) /\ IsFiniteSet(1 .. Len(q))
  BY FS_Interval DEF Requests
<1>2. DOMAIN g = 1 .. Len(q) /\ \A i \in 1 .. Len(q) : f[i] = g[i]
  BY <1>1
<1>3. Held(q, k) = SumFunctionOnSet(g, 1 .. Len(q))
  BY <1>2 DEF Held, SumFunction
<1> HIDE DEF g
<1> QED BY <1>1, <1>2, <1>3, SumSame

LEMMA HeldIsNat ==
  ASSUME NEW q \in Requests, NEW k
  PROVE  Held(q, k) \in Nat
<1> DEFINE f == [i \in 1 .. Len(q) |-> Carried(q[i], k)]
<1>1. \A i \in 1 .. Len(q) : f[i] = Carried(q[i], k) /\ f[i] \in Nat
  BY CarriedIsNat DEF Requests
<1> HIDE DEF f
<1>2. IsFiniteSet(1 .. Len(q))
  BY FS_Interval DEF Requests
<1> QED BY <1>1, <1>2, HeldSum, SumNat

LEMMA HeldAppends ==
  ASSUME NEW q \in Requests, NEW r \in Seq(Sent), NEW k
  PROVE  Held(Append(q, r), k) = Held(q, k) + Carried(r, k)
<1> DEFINE n == Len(q)
           f == [i \in 1 .. n + 1 |-> Carried(Append(q, r)[i], k)]
<1>1. /\ Append(q, r) \in Requests /\ Len(Append(q, r)) = n + 1 /\ n \in Nat
      /\ \A i \in 1 .. n : Append(q, r)[i] = q[i]
      /\ Append(q, r)[n + 1] = r
  BY AppendProperties DEF Requests
<1>2. /\ \A i \in 1 .. n + 1 : f[i] = Carried(Append(q, r)[i], k) /\ f[i] \in Int
      /\ \A i \in 1 .. n : f[i] = Carried(q[i], k)
      /\ f[n + 1] = Carried(r, k)
  <2>1. \A i \in 1 .. n + 1 : Append(q, r)[i] \in Seq(Sent)
    BY <1>1 DEF Requests
  <2> QED BY <1>1, <2>1, CarriedIsNat
<1> HIDE DEF f
<1>3. Held(Append(q, r), k) = SumFunctionOnSet(f, 1 .. n + 1)
  BY <1>1, <1>2, HeldSum
<1>4. Held(q, k) = SumFunctionOnSet(f, 1 .. n)
  BY <1>2, HeldSum
<1> HIDE DEF n
<1>5. SumFunctionOnSet(f, 1 .. n + 1) = SumFunctionOnSet(f, 1 .. n) + f[n + 1]
  BY <1>1, <1>2, SumAppends
<1> QED BY <1>1, <1>2, <1>3, <1>4, <1>5

LEMMA HeldChanges ==
  ASSUME NEW q \in Requests, NEW j \in 1 .. Len(q), NEW r \in Seq(Sent), NEW k
  PROVE  /\ [q EXCEPT ![j] = r] \in Requests
         /\ Held([q EXCEPT ![j] = r], k) = Held(q, k) - Carried(q[j], k) + Carried(r, k)
<1> DEFINE n == Len(q)
           p == [q EXCEPT ![j] = r]
           f == [i \in 1 .. n |-> Carried(q[i], k)]
           g == [i \in 1 .. n |-> Carried(p[i], k)]
<1>1. /\ p \in Requests /\ Len(p) = n
      /\ \A i \in 1 .. n : p[i] = IF i = j THEN r ELSE q[i]
  BY ExceptSeq DEF Requests
<1> HIDE DEF p
<1>2. /\ \A i \in 1 .. n : /\ f[i] = Carried(q[i], k) /\ f[i] \in Int
                           /\ g[i] = Carried(p[i], k) /\ g[i] \in Int
      /\ \A i \in (1 .. n) \ {j} : g[i] = f[i]
      /\ g[j] = Carried(r, k) /\ f[j] = Carried(q[j], k)
  <2>1. \A i \in 1 .. n : q[i] \in Seq(Sent) /\ p[i] \in Seq(Sent)
    BY <1>1 DEF Requests
  <2> QED BY <1>1, <2>1, CarriedIsNat
<1> HIDE DEF f, g
<1>3. Held(p, k) = SumFunctionOnSet(g, 1 .. n)
  BY <1>1, <1>2, HeldSum
<1>4. Held(q, k) = SumFunctionOnSet(f, 1 .. n)
  BY <1>2, HeldSum
<1>5. IsFiniteSet(1 .. n) /\ j \in 1 .. n
  BY FS_Interval DEF Requests
<1> DEFINE D == 1 .. n
<1>61. \A y \in D : f[y] \in Int /\ g[y] \in Int
  BY <1>2
<1>62. \A y \in D \ {j} : g[y] = f[y]
  BY <1>2
<1>63. IsFiniteSet(D) /\ j \in D
  BY <1>5
<1> HIDE DEF n, D
<1>64. ASSUME NEW y \in D, y = j
       PROVE  SumFunctionOnSet(g, D) = SumFunctionOnSet(f, D) - f[y] + g[y]
  <2>1. \A z \in D \ {y} : g[z] = f[z]
    BY <1>62, <1>64
  <2>2. IsFiniteSet(D)
    BY <1>63
  <2> QED BY <1>61, <2>1, <2>2, SumChanges
<1>7. SumFunctionOnSet(g, D) = SumFunctionOnSet(f, D) - f[j] + g[j]
  BY <1>63, <1>64
<1> QED BY <1>1, <1>2, <1>3, <1>4, <1>7 DEF p, D

\* An operation that is added to some requests is in them once, and none of them
\* has too many.
LEMMA AddedHolds ==
  ASSUME NEW q \in Requests, NEW s \in Sent
  PROVE  /\ Added(q, s) \in Requests
         /\ \A k : Held(Added(q, s), k) = Held(q, k) + Share(s, k)
         /\ Limited(q) => Limited(Added(q, s))
<1> DEFINE n == Len(q)
           r == Append(q[n], s)
<1>1. CASE n > 0 /\ Len(q[n]) + 1 <= MaxOperationsToSend
  <2>1. n \in 1 .. Len(q) /\ q[n] \in Seq(Sent)
    BY <1>1 DEF Requests
  <2>2. r \in Seq(Sent) /\ Len(r) = Len(q[n]) + 1
    BY <2>1, AppendProperties
  <2>3. Added(q, s) = [q EXCEPT ![n] = r]
    BY <1>1 DEF Added
  <2>4. ASSUME NEW k PROVE Held(Added(q, s), k) = Held(q, k) + Share(s, k)
    <3> HIDE DEF n, r
    <3>1. Held([q EXCEPT ![n] = r], k) = Held(q, k) - Carried(q[n], k) + Carried(r, k)
      BY <2>1, <2>2, <2>3, HeldChanges, Zenon
    <3>2. Carried(r, k) = Carried(q[n], k) + Share(s, k)
      BY <2>1, CarriedAppends DEF r
    <3> QED BY <2>1, <2>3, <3>1, <3>2, HeldIsNat, CarriedIsNat, ShareIsNat
  <2>5. Added(q, s) \in Requests
    BY <2>1, <2>2, <2>3, HeldChanges
  <2>6. ASSUME Limited(q) PROVE Limited(Added(q, s))
    <3>1. /\ Len(Added(q, s)) = n
          /\ \A i \in 1 .. n : Added(q, s)[i] = IF i = n THEN r ELSE q[i]
      BY <2>1, <2>2, <2>3, ExceptSeq DEF Requests
    <3> QED BY <1>1, <2>2, <2>6, <3>1 DEF Limited
  <2> QED BY <2>4, <2>5, <2>6
<1>2. CASE ~(n > 0 /\ Len(q[n]) + 1 <= MaxOperationsToSend)
  <2>1. Added(q, s) = Append(q, <<s>>) /\ <<s>> \in Seq(Sent) /\ Len(<<s>>) = 1
    BY <1>2, CarriedOne DEF Added
  <2>2. ASSUME NEW k PROVE Held(Added(q, s), k) = Held(q, k) + Share(s, k)
    BY <2>1, HeldAppends, CarriedOne
  <2>3. /\ Append(q, <<s>>) \in Requests /\ Len(Append(q, <<s>>)) = n + 1
        /\ \A i \in 1 .. n : Append(q, <<s>>)[i] = q[i]
        /\ Append(q, <<s>>)[n + 1] = <<s>>
    BY <2>1, AppendProperties DEF Requests
  <2>4. ASSUME Limited(q) PROVE Limited(Added(q, s))
    <3>1. 1 <= MaxOperationsToSend /\ n \in Nat
      BY OptionsAssumption DEF Requests
    <3> HIDE DEF n
    <3> QED BY <2>1, <2>3, <2>4, <3>1 DEF Limited, n
  <2> QED BY <2>1, <2>2, <2>3, <2>4
<1> QED BY <1>1, <1>2

-----------------------------------------------------------------------------
(* What a flush makes of the requests.                                     *)

\* The orders in which the elements of a finite set can leave name each one once.
LEMMA Orders ==
  ASSUME NEW S, IsFiniteSet(S), NEW seq \in SetToSeqs(S)
  PROVE  /\ seq \in Seq(S) /\ Len(seq) = Cardinality(S) /\ Len(seq) \in Nat
         /\ \A i, j \in 1 .. Len(seq) : i # j => seq[i] # seq[j]
         /\ \A x \in S : \E i \in 1 .. Len(seq) : seq[i] = x
<1> DEFINE n == Cardinality(S)
<1>1. n \in Nat
  BY FS_CardinalityType
<1>2. seq \in [1 .. n -> S] /\ \A i, j \in 1 .. n : i # j => seq[i] # seq[j]
  BY DEF SetToSeqs
<1> HIDE DEF n
<1>3. seq \in Injection(1 .. n, S)
  BY <1>2 DEF Injection, IsInjective
<1>4. IsFiniteSet(1 .. n) /\ Cardinality(1 .. n) = n
  BY <1>1, FS_Interval
<1>5. seq \in Surjection(1 .. n, S)
  BY <1>3, <1>4, FS_Injection DEF n
<1>6. \A x \in S : \E i \in 1 .. n : seq[i] = x
  BY <1>5 DEF Surjection
<1>7. seq \in Seq(S) /\ Len(seq) = n
  BY <1>1, <1>2
<1> QED BY <1>1, <1>2, <1>6, <1>7 DEF n

LEMMA OneOrder ==
  ASSUME NEW x
  PROVE  <<x>> \in SetToSeqs({x}) /\ IsFiniteSet({x})
<1>1. Cardinality({x}) = 1 /\ IsFiniteSet({x})
  BY FS_Singleton
<1>2. <<x>> \in [1 .. 1 -> {x}]
  OBVIOUS
<1>3. \A i, j \in 1 .. 1 : i # j => <<x>>[i] # <<x>>[j]
  OBVIOUS
<1> QED BY <1>1, <1>2, <1>3 DEF SetToSeqs

\* F goes through the requests while the elements of the keys in seq leave.
Flushing(F, table, seq, q) ==
  /\ F \in [0 .. Len(seq) -> Requests]
  /\ F[0] = q
  /\ \A i \in 1 .. Len(seq) : F[i] = Added(F[i - 1], Sending(table, seq[i]))
  /\ Flushed(table, seq, q) = F[Len(seq)]

\* Running a flush ends in what its last step makes of the one before.
LEMMA FlushedSteps ==
  ASSUME NEW table, NEW S, NEW seq \in Seq(S), NEW q \in Requests,
         \A i \in 1 .. Len(seq) : Sending(table, seq[i]) \in Sent
  PROVE  \E F : Flushing(F, table, seq, q)
<1> DEFINE n == Len(seq)
           one(i) == Sending(table, seq[i])
           step == [i \in 1 .. n |-> [x \in Requests |-> Added(x, one(i))]]
           Runs(A) == A = [i \in 0 .. n |-> IF i = 0 THEN q ELSE Added(A[i - 1], one(i))]
           A == CHOOSE A : Runs(A)
<1>1. n \in Nat /\ \A i \in 1 .. n : one(i) \in Sent
  OBVIOUS
<1>2. Flushed(table, seq, q) = A[n]
  BY DEF Flushed
<1> HIDE DEF n, one
<1>3. step \in [1 .. n -> [Requests -> Requests]]
  <2>1. \A i \in 1 .. n : \A x \in Requests : Added(x, one(i)) \in Requests
    BY <1>1, AddedHolds
  <2> QED BY <2>1
<1> HIDE DEF step
<1>4. PICK F : IsRun(F, step, n, Requests, q)
  BY <1>1, <1>3, Iteration
<1>5. ASSUME NEW i \in 1 .. n
      PROVE  F[i] = Added(F[i - 1], one(i)) /\ i \in 0 .. n /\ i - 1 \in 0 .. n
  <2>1. i - 1 \in 0 .. n /\ i \in 0 .. n
    BY <1>1
  <2>2. F[i - 1] \in Requests
    BY <1>4, <2>1 DEF IsRun
  <2>3. step[i][F[i - 1]] = Added(F[i - 1], one(i))
    BY <2>2 DEF step
  <2> QED BY <1>4, <2>1, <2>3 DEF IsRun
<1>6. Runs(F)
  <2> DEFINE G == [i \in 0 .. n |-> IF i = 0 THEN q ELSE Added(F[i - 1], one(i))]
  <2>1. \A i \in 0 .. n : F[i] = G[i]
    BY <1>1, <1>4, <1>5 DEF IsRun
  <2>2. F = [i \in 0 .. n |-> F[i]] /\ G = [i \in 0 .. n |-> G[i]]
    BY <1>4 DEF IsRun
  <2> HIDE DEF G
  <2>3. F = G
    BY <2>1, <2>2
  <2> QED BY <2>3 DEF G
<1>7. Runs(A)
  BY <1>6
<1>8. DOMAIN A = 0 .. n /\ A[0] = q /\ \A i \in 1 .. n : A[i] = Added(A[i - 1], one(i))
  <2> HIDE DEF A
  <2>1. 0 \in 0 .. n
    BY <1>1
  <2>2. \A i \in 0 .. n : A[i] = IF i = 0 THEN q ELSE Added(A[i - 1], one(i))
    BY <1>7
  <2>3. \A i \in 1 .. n : i \in 0 .. n /\ i # 0
    BY <1>1
  <2> QED BY <1>7, <2>1, <2>2, <2>3
<1> HIDE DEF A, Runs
<1>9. A[n] = F[n]
  <2> DEFINE T == {i \in 0 .. n : A[i] # F[i]}
  <2>1. SUFFICES ASSUME T # {} PROVE FALSE
    BY <1>1
  <2>2. T \in SUBSET Nat
    BY <1>1
  <2> HIDE DEF T
  <2>3. PICK i \in T : \A j \in T : i <= j
    BY <2>1, <2>2, SmallestNumber
  <2>4. i \in 0 .. n /\ A[i] # F[i]
    BY DEF T
  <2>5. i # 0
    BY <1>4, <1>8, <2>4 DEF IsRun
  <2>6. i - 1 \in 0 .. n /\ i \in 1 .. n /\ ~ (i <= i - 1)
    BY <1>1, <2>4, <2>5
  <2>7. A[i - 1] = F[i - 1]
    BY <2>3, <2>6 DEF T
  <2> QED BY <1>5, <1>8, <2>4, <2>6, <2>7
<1>10. Flushing(F, table, seq, q)
  BY <1>2, <1>4, <1>5, <1>9 DEF n, one, Flushing, IsRun
<1> QED BY <1>10

\* The share of key k in what left, when each element of S did once.
LEMMA SharesAddUp ==
  ASSUME NEW table, NEW S, IsFiniteSet(S), NEW seq \in SetToSeqs(S), NEW k,
         \A x \in S : Sending(table, x) \in Sent,
         NEW f, \A i \in 1 .. Len(seq) : f[i] = Share(Sending(table, seq[i]), k)
  PROVE  SumFunctionOnSet(f, 1 .. Len(seq)) = IF k \in S THEN table[k].merged ELSE 0
<1> DEFINE D == 1 .. Len(seq)
           Left(x) == IF x = k THEN table[k].merged ELSE 0
<1>1. /\ seq \in Seq(S) /\ Len(seq) \in Nat
      /\ \A i, j \in D : i # j => seq[i] # seq[j]
      /\ \A x \in S : \E i \in D : seq[i] = x
  BY Orders
<1>2. IsFiniteSet(D) /\ \A i \in D : seq[i] \in S
  BY <1>1, FS_Interval
<1>3. \A i \in D : f[i] = IF seq[i] = k THEN table[k].merged ELSE 0
  BY DEF Share, Sending
<1>4. \A i \in D : f[i] \in Int
  BY <1>2, ShareIsNat
<1>5. CASE k \in S
  <2>1. PICK j \in D : seq[j] = k
    BY <1>1, <1>5
  <2>2. \A i \in D \ {j} : f[i] = 0
    BY <1>1, <1>3, <2>1
  <2>3. f[j] = table[k].merged /\ f[j] \in Int
    BY <1>3, <1>4, <2>1
  <2> HIDE DEF D
  <2>4. IsFiniteSet(D \ {j})
    BY <1>2, FS_Subset
  <2>5. SumFunctionOnSet(f, D \ {j}) = 0
    BY <2>2, <2>4, SumZero
  <2>6. SumFunctionOnSet(f, D) = f[j] + SumFunctionOnSet(f, D \ {j})
    BY <1>2, <1>4, SumTakes
  <2> QED BY <1>5, <2>3, <2>5, <2>6 DEF D
<1>6. CASE k \notin S
  <2>1. \A i \in D : f[i] = 0
    BY <1>2, <1>3, <1>6
  <2> HIDE DEF D
  <2> QED BY <1>2, <1>6, <2>1, SumZero DEF D
<1> QED BY <1>5, <1>6

\* Whatever order the elements of S leave in, the requests hold each of them,
\* and none has too many.
LEMMA FlushedHolds ==
  ASSUME NEW table, NEW S, IsFiniteSet(S), NEW seq \in SetToSeqs(S), NEW q \in Requests,
         \A x \in S : Sending(table, x) \in Sent
  PROVE  /\ Flushed(table, seq, q) \in Requests
         /\ \A k : Held(Flushed(table, seq, q), k) =
                     Held(q, k) + (IF k \in S THEN table[k].merged ELSE 0)
         /\ Limited(q) => Limited(Flushed(table, seq, q))
<1> DEFINE n == Len(seq)
           one(i) == Sending(table, seq[i])
<1>1. seq \in Seq(S) /\ n \in Nat
  BY Orders
<1>2. \A i \in 1 .. n : one(i) \in Sent
  BY <1>1
<1>3. PICK F : Flushing(F, table, seq, q)
  <2>1. \A i \in 1 .. Len(seq) : Sending(table, seq[i]) \in Sent
    BY <1>2
  <2> QED BY <1>1, <2>1, FlushedSteps
<1>31. /\ F \in [0 .. n -> Requests] /\ F[0] = q
       /\ \A i \in 1 .. n : F[i] = Added(F[i - 1], one(i))
       /\ Flushed(table, seq, q) = F[n]
  BY <1>3 DEF Flushing
<1> HIDE DEF n, one
<1>4. 0 \in 0 .. n /\ n \in 0 .. n
  BY <1>1
<1>5. ASSUME NEW i \in 0 .. n, i # 0
      PROVE  i \in 1 .. n /\ i - 1 \in 0 .. n /\ ~ (i <= i - 1) /\ F[i - 1] \in Requests
  BY <1>1, <1>31, <1>5
<1>6. ASSUME NEW k
      PROVE  Held(F[n], k) = Held(q, k) + (IF k \in S THEN table[k].merged ELSE 0)
  <2> DEFINE f == [i \in 1 .. n |-> Share(one(i), k)]
             Sum(i) == SumFunctionOnSet(f, 1 .. i)
             T == {i \in 0 .. n : Held(F[i], k) # Held(q, k) + Sum(i)}
  <2>1. \A i \in 1 .. n : f[i] = Share(one(i), k) /\ f[i] \in Int
    BY <1>2, ShareIsNat
  <2>2. Held(q, k) \in Int
    BY HeldIsNat
  <2>3. ASSUME T # {} PROVE FALSE
    <3>1. T \in SUBSET Nat
      BY <1>1
    <3> HIDE DEF T
    <3>2. PICK i \in T : \A j \in T : i <= j
      BY <2>3, <3>1, SmallestNumber
    <3>3. i \in 0 .. n /\ Held(F[i], k) # Held(q, k) + Sum(i)
      BY DEF T
    <3>4. i # 0
      <4>1. 1 .. 0 = {}
        OBVIOUS
      <4>2. Sum(0) = 0
        BY <4>1, SumEmpty
      <4> HIDE DEF Sum
      <4> QED BY <1>31, <2>2, <3>3, <4>2
    <3>5. i \in 1 .. n /\ i - 1 \in 0 .. n /\ F[i - 1] \in Requests /\ i - 1 \notin T
      BY <1>5, <3>2, <3>3, <3>4
    <3>6. Held(F[i - 1], k) = Held(q, k) + Sum(i - 1)
      BY <3>5 DEF T
    <3> HIDE DEF f
    <3>7. Sum(i) = Sum(i - 1) + f[i]
      <4> DEFINE m == i - 1
      <4>1. m \in Nat /\ i = m + 1 /\ \A j \in 1 .. m + 1 : f[j] \in Int
        BY <1>1, <2>1, <3>5
      <4> HIDE DEF m
      <4>2. SumFunctionOnSet(f, 1 .. m + 1) = SumFunctionOnSet(f, 1 .. m) + f[m + 1]
        BY <4>1, SumAppends
      <4>3. m = i - 1
        BY DEF m
      <4> QED BY <4>1, <4>2, <4>3
    <3>8. Held(F[i], k) = Held(F[i - 1], k) + Share(one(i), k)
      BY <1>2, <1>31, <3>5, AddedHolds
    <3>9. f[i] = Share(one(i), k) /\ f[i] \in Int /\ Sum(i - 1) \in Int
      <4>1. \A j \in 1 .. i - 1 : j \in 1 .. n
        BY <1>1, <3>5
      <4>2. IsFiniteSet(1 .. i - 1)
        BY <1>1, <3>5, FS_Interval
      <4> QED BY <2>1, <3>5, <4>1, <4>2, SumInt
    <3> HIDE DEF Sum
    <3> QED BY <2>2, <3>3, <3>6, <3>7, <3>8, <3>9
  <2>4. Held(F[n], k) = Held(q, k) + Sum(n)
    BY <1>4, <2>3
  <2>5. Sum(n) = IF k \in S THEN table[k].merged ELSE 0
    <3>1. \A i \in 1 .. Len(seq) : f[i] = Share(Sending(table, seq[i]), k)
      BY <2>1 DEF n, one
    <3> HIDE DEF f
    <3>2. SumFunctionOnSet(f, 1 .. Len(seq)) = IF k \in S THEN table[k].merged ELSE 0
      BY <3>1, SharesAddUp
    <3> QED BY <3>2 DEF n
  <2> HIDE DEF Sum
  <2> QED BY <2>4, <2>5
<1>7. ASSUME Limited(q) PROVE Limited(F[n])
  <2> DEFINE T == {i \in 0 .. n : ~ Limited(F[i])}
  <2>1. SUFFICES ASSUME T # {} PROVE FALSE
    BY <1>4
  <2>2. T \in SUBSET Nat
    BY <1>1
  <2> HIDE DEF T
  <2>3. PICK i \in T : \A j \in T : i <= j
    BY <2>1, <2>2, SmallestNumber
  <2>4. i \in 0 .. n /\ ~ Limited(F[i])
    BY DEF T
  <2>5. i # 0
    BY <1>31, <1>7, <2>4
  <2>6. i \in 1 .. n /\ i - 1 \in 0 .. n /\ F[i - 1] \in Requests /\ i - 1 \notin T
    BY <1>5, <2>3, <2>4, <2>5
  <2>7. Limited(F[i - 1])
    BY <2>6 DEF T
  <2> QED BY <1>2, <1>31, <2>4, <2>6, <2>7, AddedHolds
<1> QED BY <1>31, <1>4, <1>6, <1>7

-----------------------------------------------------------------------------
(* The bag of requests under way.                                          *)

\* The stack buffers of finished calls: finitely many requests, some of them
\* several times.
GoodBag(b) ==
  /\ IsFiniteSet(BagToSet(b))
  /\ BagToSet(b) \subseteq Seq(Sent)
  /\ b \in [BagToSet(b) -> Nat \ {0}]

Total(b, k) == SumFunction([r \in BagToSet(b) |-> b[r] * Carried(r, k)])

Copies(b, r) == IF r \in BagToSet(b) THEN b[r] ELSE 0

LEMMA Distribute ==
  ASSUME NEW n \in Int, NEW m \in Int, NEW c \in Int
  PROVE  (n + m) * c = n * c + m * c /\ n * c \in Int /\ 0 * c = 0
  OBVIOUS

LEMMA CopiesType ==
  ASSUME NEW b, GoodBag(b), NEW r
  PROVE  Copies(b, r) \in Nat
  BY DEF GoodBag, Copies

\* The sum over more requests than the bag has.
LEMMA TotalOver ==
  ASSUME NEW b, GoodBag(b), NEW R, IsFiniteSet(R), R \subseteq Seq(Sent),
         BagToSet(b) \subseteq R, NEW k, NEW f,
         \A r \in R : f[r] = Copies(b, r) * Carried(r, k)
  PROVE  Total(b, k) = SumFunctionOnSet(f, R) /\ Total(b, k) \in Int
<1> DEFINE D == BagToSet(b)
           g == [r \in D |-> b[r] * Carried(r, k)]
<1>1. \A r \in R : Copies(b, r) \in Int /\ Carried(r, k) \in Int
  BY CopiesType, CarriedIsNat
<1>2. \A r \in R : f[r] \in Int
  BY <1>1, Distribute
<1>3. ASSUME NEW r \in R \ D PROVE f[r] = 0
  <2>1. f[r] = 0 * Carried(r, k)
    BY <1>3 DEF Copies
  <2> QED BY <1>1, <2>1, Distribute
<1>4. \A r \in D : g[r] = f[r]
  BY DEF Copies
<1>5. Total(b, k) = SumFunctionOnSet(g, D)
  <2>1. DOMAIN g = D
    OBVIOUS
  <2> QED BY <2>1 DEF Total, SumFunction
<1>6. IsFiniteSet(D) /\ D \in SUBSET R
  BY DEF GoodBag
<1> HIDE DEF D, g
<1>7. SumFunctionOnSet(g, D) = SumFunctionOnSet(f, D)
  BY <1>4, <1>6, SumSame
<1>8. SumFunctionOnSet(f, R) = SumFunctionOnSet(f, D)
  BY <1>2, <1>3, <1>6, SumPads
<1>9. SumFunctionOnSet(f, R) \in Int
  BY <1>2, SumInt
<1> QED BY <1>5, <1>7, <1>8, <1>9

LEMMA TotalInt ==
  ASSUME NEW b, GoodBag(b), NEW k
  PROVE  Total(b, k) \in Int
<1> DEFINE f == [r \in BagToSet(b) |-> Copies(b, r) * Carried(r, k)]
<1>1. \A r \in BagToSet(b) : f[r] = Copies(b, r) * Carried(r, k)
  OBVIOUS
<1> HIDE DEF f
<1> QED BY <1>1, TotalOver DEF GoodBag

LEMMA HowOften ==
  ASSUME NEW q \in Requests, NEW r
  PROVE  /\ Cardinality({i \in 1 .. Len(q) : q[i] = r}) \in Nat
         /\ (\E i \in 1 .. Len(q) : q[i] = r) <=>
              Cardinality({i \in 1 .. Len(q) : q[i] = r}) # 0
<1> DEFINE C == {i \in 1 .. Len(q) : q[i] = r}
<1>1. IsFiniteSet(1 .. Len(q)) /\ C \subseteq 1 .. Len(q)
  BY FS_Interval DEF Requests
<1>2. IsFiniteSet(C)
  BY <1>1, FS_Subset
<1>3. Cardinality(C) \in Nat /\ (Cardinality(C) = 0 <=> C = {})
  BY <1>2, FS_CardinalityType, FS_EmptySet
<1> QED BY <1>3

\* Handing a stack buffer over adds what it holds.
LEMMA HandedOver ==
  ASSUME NEW b, GoodBag(b), NEW q \in Requests
  PROVE  /\ GoodBag(b (+) ToBag(q))
         /\ BagToSet(b (+) ToBag(q)) = BagToSet(b) \cup ToSet(q)
         /\ \A k : Total(b (+) ToBag(q), k) = Total(b, k) + Held(q, k)
<1> DEFINE new == b (+) ToBag(q)
           D == 1 .. Len(q)
           R == BagToSet(b) \cup ToSet(q)
           Often(r) == Cardinality({i \in D : q[i] = r})
<1>1. DOMAIN q = D /\ Range(q) = ToSet(q) /\ ToSet(q) = {q[i] : i \in D}
  BY DEF ToSet, Range, Requests
<1>2. DOMAIN ToBag(q) = ToSet(q) /\ \A r \in ToSet(q) : ToBag(q)[r] = Often(r)
  BY <1>1 DEF ToBag
<1>3. BagToSet(new) = R
  BY <1>2 DEF BagToSet, (+)
<1>4. \A r \in R : Often(r) \in Nat /\ (r \notin ToSet(q) => Often(r) = 0)
                   /\ (r \in ToSet(q) => Often(r) # 0)
  BY <1>1, HowOften
<1> HIDE DEF Often
<1>5. ASSUME NEW r \in R
      PROVE  new[r] = Copies(b, r) + Often(r) /\ Copies(b, r) \in Nat /\ new[r] \in Nat \ {0}
  <2>1. new[r] = (IF r \in DOMAIN b THEN b[r] ELSE 0)
                 + (IF r \in DOMAIN ToBag(q) THEN ToBag(q)[r] ELSE 0)
    BY <1>2 DEF BagToSet, (+)
  <2>2. new[r] = Copies(b, r) + Often(r)
    BY <1>2, <1>4, <2>1 DEF Copies, BagToSet
  <2>3. Copies(b, r) \in Nat /\ (r \in BagToSet(b) => Copies(b, r) # 0)
    BY CopiesType DEF Copies, GoodBag
  <2> QED BY <1>4, <2>2, <2>3
<1>6. IsFiniteSet(R) /\ R \subseteq Seq(Sent)
  <2>1. IsFiniteSet(ToSet(q))
    <3>1. q \in Surjection(D, ToSet(q))
      BY <1>1 DEF Surjection, Requests
    <3>2. IsFiniteSet(D)
      BY FS_Interval DEF Requests
    <3> HIDE DEF D
    <3> QED BY <3>1, <3>2, FS_Surjection
  <2>2. ToSet(q) \subseteq Seq(Sent)
    BY <1>1 DEF Requests
  <2> QED BY <2>1, <2>2, FS_Union DEF GoodBag
<1>7. new \in [R -> Nat \ {0}]
  <2>1. new = [r \in R |-> new[r]]
    BY <1>2 DEF BagToSet, (+)
  <2> HIDE DEF new, R
  <2> QED BY <1>5, <2>1
<1> HIDE DEF new
<1>8. GoodBag(new)
  BY <1>3, <1>6, <1>7 DEF GoodBag
<1>9. ASSUME NEW k PROVE Total(new, k) = Total(b, k) + Held(q, k)
  <2> DEFINE c == [r \in R |-> Carried(r, k)]
             f == [r \in R |-> Copies(b, r) * Carried(r, k)]
             g == [r \in R |-> Often(r) * c[r]]
             h == [r \in R |-> Copies(new, r) * Carried(r, k)]
             e == [i \in D |-> c[q[i]]]
  <2>1. \A r \in R : c[r] \in Int /\ c[r] = Carried(r, k)
    BY <1>6, CarriedIsNat
  <2>2. \A r \in R : f[r] \in Int /\ g[r] \in Int /\ h[r] = f[r] + g[r]
    <3>1. ASSUME NEW r \in R PROVE f[r] \in Int /\ g[r] \in Int /\ h[r] = f[r] + g[r]
      <4>1. Copies(new, r) = Copies(b, r) + Often(r)
        BY <1>3, <1>5 DEF Copies
      <4>2. /\ f[r] = Copies(b, r) * c[r] /\ g[r] = Often(r) * c[r]
            /\ h[r] = Copies(new, r) * c[r]
        BY <2>1
      <4> HIDE DEF f, g, h, c
      <4>3. Copies(b, r) \in Int /\ Often(r) \in Int /\ c[r] \in Int
        <5>1. Copies(b, r) \in Nat /\ Often(r) \in Nat
          BY <1>4, <1>5
        <5> QED BY <2>1, <5>1
      <4> QED BY <4>1, <4>2, <4>3, Distribute
    <3> QED BY <3>1
  <2>3. Total(new, k) = SumFunctionOnSet(h, R)
    <3>1. \A r \in R : h[r] = Copies(new, r) * Carried(r, k)
      OBVIOUS
    <3>2. BagToSet(new) \subseteq R
      BY <1>3
    <3> HIDE DEF h, R
    <3> QED BY <1>6, <1>8, <3>1, <3>2, TotalOver
  <2>4. Total(b, k) = SumFunctionOnSet(f, R) /\ Total(b, k) \in Int
    <3>1. \A r \in R : f[r] = Copies(b, r) * Carried(r, k)
      OBVIOUS
    <3>2. BagToSet(b) \subseteq R
      OBVIOUS
    <3> HIDE DEF f, R
    <3> QED BY <1>6, <3>1, <3>2, TotalOver
  <2>5. Held(q, k) = SumFunctionOnSet(e, D)
    <3>1. \A i \in 1 .. Len(q) : e[i] = Carried(q[i], k)
      BY <1>1
    <3> HIDE DEF e
    <3> QED BY <3>1, HeldSum
  <2>6. SumFunctionOnSet(e, D) = SumFunctionOnSet(g, R)
    <3>1. IsFiniteSet(D) /\ \A i \in D : q[i] \in R
      BY <1>1, FS_Interval DEF Requests
    <3>2. \A i \in D : e[i] = c[q[i]]
      OBVIOUS
    <3>3. \A r \in R : g[r] = Cardinality({i \in D : q[i] = r}) * c[r]
      BY DEF Often
    <3>4. IsFiniteSet(D)
      BY <3>1
    <3>5. \A i \in D : q[i] \in R
      BY <3>1
    <3>6. IsFiniteSet(R)
      BY <1>6
    <3>7. \A r \in R : c[r] \in Int
      BY <2>1
    <3> HIDE DEF D, R, c, e, g
    <3> QED BY <3>2, <3>3, <3>4, <3>5, <3>6, <3>7, SumByValue
  <2> HIDE DEF e, f, g, h, R
  <2>7. SumFunctionOnSet(h, R) = SumFunctionOnSet(f, R) + SumFunctionOnSet(g, R)
    BY <1>6, <2>2, SumAdds
  <2> QED BY <2>3, <2>4, <2>5, <2>6, <2>7
<1> QED BY <1>3, <1>8, <1>9 DEF new

\* Sending a request takes away what it carries.
LEMMA SentOff ==
  ASSUME NEW b, GoodBag(b), NEW v \in BagToSet(b)
  PROVE  /\ GoodBag(b (-) SetToBag({v}))
         /\ BagToSet(b (-) SetToBag({v})) \subseteq BagToSet(b)
         /\ \A k : Total(b, k) = Total(b (-) SetToBag({v}), k) + Carried(v, k)
<1> DEFINE new == b (-) SetToBag({v})
           R == BagToSet(b)
           less == [r \in R |-> IF r = v THEN b[r] - 1 ELSE b[r]]
<1>1. /\ IsFiniteSet(R) /\ R \subseteq Seq(Sent)
      /\ \A r \in R : b[r] \in Nat \ {0}
  BY DEF GoodBag
<1>2. less \in [R -> Nat]
  BY <1>1
<1>3. new = [r \in {d \in R : less[d] > 0} |-> less[r]]
  BY DEF (-), SetToBag, BagToSet
<1> HIDE DEF less, R
<1>4. BagToSet(new) = {r \in R : less[r] > 0} /\ \A r \in BagToSet(new) : new[r] = less[r]
  BY <1>3 DEF BagToSet
<1>5. \A r \in R : Copies(new, r) = less[r]
  BY <1>2, <1>4 DEF Copies
<1>6. new \in [BagToSet(new) -> Nat \ {0}]
  <2>1. \A r \in BagToSet(new) : new[r] \in Nat \ {0}
    BY <1>2, <1>4
  <2> QED BY <1>3, <1>4, <2>1
<1> HIDE DEF new
<1>7. GoodBag(new) /\ BagToSet(new) \subseteq R
  BY <1>1, <1>4, <1>6, FS_Subset DEF GoodBag
<1>8. ASSUME NEW k PROVE Total(b, k) = Total(new, k) + Carried(v, k)
  <2> DEFINE c == [r \in R |-> Carried(r, k)]
             f == [r \in R |-> Copies(new, r) * Carried(r, k)]
             g == [r \in R |-> Copies(b, r) * Carried(r, k)]
  <2>1. \A r \in R : c[r] \in Int /\ c[r] = Carried(r, k)
    BY <1>1, CarriedIsNat
  <2>2. Total(new, k) = SumFunctionOnSet(f, R)
    <3>1. \A r \in R : f[r] = Copies(new, r) * Carried(r, k)
      OBVIOUS
    <3> HIDE DEF f
    <3> QED BY <1>1, <1>7, <3>1, TotalOver
  <2>3. Total(b, k) = SumFunctionOnSet(g, R)
    <3>1. \A r \in R : g[r] = Copies(b, r) * Carried(r, k)
      OBVIOUS
    <3>2. BagToSet(b) \subseteq R
      BY DEF R
    <3> HIDE DEF g
    <3> QED BY <1>1, <3>1, <3>2, TotalOver
  <2> DEFINE m2 == [r \in R |-> b[r]]
  <2>4. v \in R /\ less \in [R -> Int] /\ m2 \in [R -> Int] /\ IsFiniteSet(R)
    BY <1>1, <1>2 DEF less, R
  <2>41. (\A r \in R \ {v} : m2[r] = less[r]) /\ m2[v] = less[v] + 1
    BY <1>1, <1>2 DEF less, R
  <2>42. \A r \in R : c[r] \in Int
    BY <2>1
  <2>5. \A r \in R : f[r] = less[r] * c[r] /\ g[r] = m2[r] * c[r]
    BY <1>5, <2>1 DEF Copies, R
  <2>6. c[v] = Carried(v, k)
    BY <2>1, <2>4
  <2> HIDE DEF c, f, g, m2
  <2>7. SumFunctionOnSet(g, R) = SumFunctionOnSet(f, R) + c[v]
    BY <2>4, <2>41, <2>42, <2>5, CountedOnceMore
  <2> QED BY <2>2, <2>3, <2>6, <2>7
<1> QED BY <1>7, <1>8 DEF new, R

-----------------------------------------------------------------------------
(* The accounts.                                                           *)

LEMMA ProductNat ==
  ASSUME NEW n \in Nat, NEW m \in Nat
  PROVE  n * m \in Nat
  OBVIOUS

LEMMA TotalNat ==
  ASSUME NEW b, GoodBag(b), NEW k
  PROVE  Total(b, k) \in Nat
<1> DEFINE D == BagToSet(b)
           f == [r \in D |-> b[r] * Carried(r, k)]
<1>1. \A r \in D : b[r] \in Nat /\ Carried(r, k) \in Nat
  BY CarriedIsNat DEF GoodBag
<1>2. \A r \in D : f[r] \in Nat
  BY <1>1, ProductNat
<1>3. Total(b, k) = SumFunctionOnSet(f, D)
  <2>1. DOMAIN f = D
    OBVIOUS
  <2> QED BY <2>1 DEF Total, SumFunction
<1>4. IsFiniteSet(D)
  BY DEF GoodBag
<1> HIDE DEF f, D
<1> QED BY <1>2, <1>3, <1>4, SumNat

\* The operations of a report are its first and the rest.
LEMMA ReportedTail ==
  ASSUME NEW report \in Seq(Operation), report # <<>>, NEW k
  PROVE  /\ Reported(report, k) =
              Reported(Tail(report), k) + (IF Head(report).key = k THEN 1 ELSE 0)
         /\ Reported(Tail(report), k) \in Nat
<1> DEFINE n == Len(report)
           S == {i \in 1 .. n : report[i].key = k}
           T == {i \in 1 .. n - 1 : Tail(report)[i].key = k}
           f == [i \in T |-> i + 1]
<1>1. n \in Nat /\ n >= 1 /\ DOMAIN report = 1 .. n /\ Head(report) = report[1]
  OBVIOUS
<1>2. /\ DOMAIN Tail(report) = 1 .. n - 1
      /\ \A i \in 1 .. n - 1 : Tail(report)[i] = report[i + 1]
  OBVIOUS
<1>3. Reported(report, k) = Cardinality(S) /\ Reported(Tail(report), k) = Cardinality(T)
  BY <1>1, <1>2 DEF Reported
<1> HIDE DEF n
<1>4. f \in Bijection(T, S \ {1})
  <2>1. \A i \in T : i + 1 \in S \ {1}
    BY <1>1, <1>2
  <2>2. \A j \in S \ {1} : j - 1 \in T /\ f[j - 1] = j
    BY <1>1, <1>2
  <2>3. f \in [T -> S \ {1}]
    BY <2>1
  <2>4. \A i, j \in T : f[i] = f[j] => i = j
    BY <1>1
  <2> HIDE DEF S, T, f
  <2>5. f \in Injection(T, S \ {1})
    BY <2>3, <2>4 DEF Injection, IsInjective
  <2>6. f \in Surjection(T, S \ {1})
    BY <2>2, <2>3 DEF Surjection
  <2> QED BY <2>5, <2>6 DEF Bijection
<1>5. IsFiniteSet(S) /\ IsFiniteSet(T)
  <2>1. IsFiniteSet(1 .. n) /\ IsFiniteSet(1 .. n - 1)
    BY <1>1, FS_Interval
  <2> QED BY <2>1, FS_Subset
<1> HIDE DEF S, T, f
<1>6. Cardinality(S \ {1}) = Cardinality(T) /\ Cardinality(T) \in Nat
  BY <1>4, <1>5, FS_Bijection, FS_CardinalityType DEF ExistsBijection
<1>7. 1 \in S <=> Head(report).key = k
  BY <1>1 DEF S
<1>8. CASE 1 \in S
  <2>1. Cardinality(S \ {1}) = Cardinality(S) - 1 /\ Cardinality(S) \in Nat
    BY <1>5, <1>8, FS_RemoveElement, FS_CardinalityType
  <2>2. Cardinality(S) = Cardinality(T) + 1
    BY <1>6, <2>1
  <2>3. Head(report).key = k
    BY <1>7, <1>8
  <2> QED BY <1>3, <1>6, <2>2, <2>3
<1>9. CASE 1 \notin S
  <2>1. S \ {1} = S
    BY <1>9
  <2>2. Cardinality(S) = Cardinality(T)
    BY <1>6, <2>1
  <2>3. Head(report).key # k
    BY <1>7, <1>9
  <2>4. Reported(report, k) = Reported(Tail(report), k)
    BY <1>3, <2>2
  <2>5. Reported(Tail(report), k) \in Nat
    BY <1>3, <1>6
  <2> QED BY <2>3, <2>4, <2>5
<1> QED BY <1>8, <1>9

LEMMA ReportedNone ==
  ASSUME NEW k
  PROVE  Reported(<<>>, k) = 0
<1>1. {i \in DOMAIN <<>> : <<>>[i].key = k} = {}
  OBVIOUS
<1> QED BY <1>1, FS_EmptySet DEF Reported

LEMMA ReportedNat ==
  ASSUME NEW report \in Seq(Operation), NEW k
  PROVE  Reported(report, k) \in Nat
<1>1. IsFiniteSet(DOMAIN report)
  BY FS_Interval
<1>2. IsFiniteSet({i \in DOMAIN report : report[i].key = k})
  BY <1>1, FS_Subset
<1> QED BY <1>2, FS_CardinalityType DEF Reported

-----------------------------------------------------------------------------
Table(table) == table \in [Keys -> CacheElem \cup {NoElem}]

Agg(table, k) == IF table[k] = NoElem THEN 0 ELSE table[k].merged

LEMMA AggNat ==
  ASSUME NEW table, Table(table), NEW k \in Keys
  PROVE  Agg(table, k) \in Nat
  BY DEF Table, Agg, CacheElem

\* What is flushed goes from the table to the requests.
LEMMA FlushMoves ==
  ASSUME NEW table, Table(table), NEW S, S \subseteq Cached(table),
         NEW seq \in SetToSeqs(S), NEW q \in Requests
  PROVE  /\ Table(Without(table, S))
         /\ Flushed(table, seq, q) \in Requests
         /\ \A k \in Keys : Agg(Without(table, S), k) + Held(Flushed(table, seq, q), k)
                              = Agg(table, k) + Held(q, k)
         /\ Limited(q) => Limited(Flushed(table, seq, q))
<1> DEFINE new == Flushed(table, seq, q)
<1>1. S \subseteq Keys /\ IsFiniteSet(S)
  BY CountedKeys DEF Cached
<1>2. \A x \in S : Sending(table, x) \in Sent
  BY <1>1 DEF Sending, Sent, Table, Cached, CacheElem
<1>3. /\ new \in Requests
      /\ \A k : Held(new, k) = Held(q, k) + (IF k \in S THEN table[k].merged ELSE 0)
      /\ Limited(q) => Limited(new)
  BY <1>1, <1>2, FlushedHolds
<1>4. Table(Without(table, S))
  BY Removed DEF Table
<1> HIDE DEF new
<1>5. ASSUME NEW k \in Keys
      PROVE  Agg(Without(table, S), k) + Held(new, k) = Agg(table, k) + Held(q, k)
  <2>1. Agg(Without(table, S), k) = IF k \in S THEN 0 ELSE Agg(table, k)
    BY DEF Agg, Without
  <2>2. k \in S => Agg(table, k) = table[k].merged
    BY DEF Agg, Cached
  <2>3. Agg(table, k) \in Nat /\ Held(q, k) \in Nat
    BY AggNat, HeldIsNat
  <2>4. Held(new, k) = Held(q, k) + (IF k \in S THEN table[k].merged ELSE 0)
    BY <1>3
  <2>5. CASE k \in S
    BY <2>1, <2>2, <2>3, <2>4, <2>5
  <2>6. CASE k \notin S
    BY <2>1, <2>3, <2>4, <2>6
  <2> QED BY <2>5, <2>6
<1> QED BY <1>3, <1>4, <1>5 DEF new

LEMMA NoRequests ==
  /\ <<>> \in Requests /\ Limited(<<>>)
  /\ \A k : Held(<<>>, k) = 0
<1>1. \A k : Held(<<>>, k) = 0
  BY SumEmpty DEF Held, SumFunction
<1> QED BY <1>1 DEF Requests, Limited

LEMMA LimitedMembers ==
  ASSUME NEW q \in Requests
  PROVE  Limited(q) <=> \A r \in ToSet(q) : Len(r) <= MaxOperationsToSend
  BY DEF Limited, ToSet, Requests

\* The inductive invariant of what is under way: it counts the operations that
\* are in the report being added, in the table, and in the stack buffers.
UnderWay ==
  /\ buffer \in Requests
  /\ GoodBag(outbox)
  /\ owed \in [Keys -> Nat]
  /\ RequestsLimited
  /\ OperationsConserved

ReportInv == TableInv /\ UnderWay

\* The invariant in the terms of the lemmas above.
Accounted(table, report, requests, bag, due) ==
  /\ requests \in Requests /\ Limited(requests)
  /\ GoodBag(bag)
  /\ \A r \in BagToSet(bag) : Len(r) <= MaxOperationsToSend
  /\ due \in [Keys -> Nat]
  /\ \A k \in Keys : due[k] = Reported(report, k) + Agg(table, k)
                                + Held(requests, k) + Total(bag, k)

LEMMA UnderWayIs == UnderWay <=> Accounted(cache, todo, buffer, outbox, owed)
<1>1. \A k : /\ Aggregated(k) = Agg(cache, k) /\ Buffered(k) = Held(buffer, k)
             /\ Waiting(k) = Total(outbox, k)
  BY DEF Aggregated, Agg, Buffered, Held, Waiting, Total
<1>2. buffer \in Requests => (RequestsLimited <=>
        Limited(buffer) /\ \A r \in BagToSet(outbox) : Len(r) <= MaxOperationsToSend)
  BY LimitedMembers DEF RequestsLimited
<1> QED BY <1>1, <1>2 DEF UnderWay, OperationsConserved, Accounted

LEMMA UnderWayNext == UnderWay' <=> Accounted(cache', todo', buffer', outbox', owed')
<1>1. \A k : /\ Aggregated(k)' = Agg(cache', k) /\ Buffered(k)' = Held(buffer', k)
             /\ Waiting(k)' = Total(outbox', k)
  BY DEF Aggregated, Agg, Buffered, Held, Waiting, Total
<1>2. buffer' \in Requests => (RequestsLimited' <=>
        Limited(buffer') /\ \A r \in BagToSet(outbox') : Len(r) <= MaxOperationsToSend)
  BY LimitedMembers DEF RequestsLimited
<1> QED BY <1>1, <1>2 DEF UnderWay, OperationsConserved, Accounted

-----------------------------------------------------------------------------
(* An operation is processed.                                              *)

\* When an operation was processed, the table and the requests hold one more of
\* its key.
LEMMA ProcessedKeeps ==
  ASSUME ReportInv, todo # <<>>, NEW table, NEW requests \in Requests,
         Limited(requests), Table(table), Processed(table, requests),
         \A k \in Keys : Agg(table, k) + Held(requests, k) =
           Agg(cache, k) + Held(buffer, k) + (IF Head(todo).key = k THEN 1 ELSE 0)
  PROVE  UnderWay'
<1>1. /\ cache' = table /\ todo' = Tail(todo) /\ owed' = owed
      /\ \/ Len(todo) = 1 /\ buffer' = <<>> /\ outbox' = outbox (+) ToBag(requests)
         \/ Len(todo) # 1 /\ buffer' = requests /\ outbox' = outbox
  BY DEF Processed
<1>2. /\ buffer \in Requests /\ GoodBag(outbox) /\ owed \in [Keys -> Nat]
      /\ \A r \in BagToSet(outbox) : Len(r) <= MaxOperationsToSend
      /\ \A k \in Keys : owed[k] = Reported(todo, k) + Agg(cache, k)
                                     + Held(buffer, k) + Total(outbox, k)
  BY UnderWayIs DEF ReportInv, Accounted
<1>3. todo \in Seq(Operation) /\ Table(cache)
  BY DEF ReportInv, TableInv, Typed, Table
<1>4. /\ buffer' \in Requests /\ Limited(buffer') /\ GoodBag(outbox')
      /\ \A r \in BagToSet(outbox') : Len(r) <= MaxOperationsToSend
      /\ \A k : Held(buffer', k) + Total(outbox', k) = Held(requests, k) + Total(outbox, k)
  <2>1. \A k : Held(requests, k) \in Nat /\ Total(outbox, k) \in Int
    BY <1>2, HeldIsNat, TotalInt
  <2>2. CASE buffer' = <<>> /\ outbox' = outbox (+) ToBag(requests)
    <3>1. /\ GoodBag(outbox') /\ BagToSet(outbox') = BagToSet(outbox) \cup ToSet(requests)
          /\ \A k : Total(outbox', k) = Total(outbox, k) + Held(requests, k)
      BY <1>2, <2>2, HandedOver
    <3>2. buffer' \in Requests /\ Limited(buffer') /\ \A k : Held(buffer', k) = 0
      BY <2>2, NoRequests
    <3>3. \A r \in ToSet(requests) : Len(r) <= MaxOperationsToSend
      BY LimitedMembers
    <3> QED BY <1>2, <2>1, <3>1, <3>2, <3>3
  <2>3. CASE buffer' = requests /\ outbox' = outbox
    BY <1>2, <2>3
  <2> QED BY <1>1, <2>2, <2>3
<1>5. ASSUME NEW k \in Keys
      PROVE  owed[k] = Reported(Tail(todo), k) + Agg(table, k)
                         + Held(buffer', k) + Total(outbox', k)
  <2> DEFINE one == IF Head(todo).key = k THEN 1 ELSE 0
  <2>1. /\ Reported(todo, k) = Reported(Tail(todo), k) + one
        /\ Reported(Tail(todo), k) \in Nat /\ one \in Nat
    BY <1>3, ReportedTail
  <2>2. Agg(table, k) + Held(requests, k) = Agg(cache, k) + Held(buffer, k) + one
    OBVIOUS
  <2>3. /\ Agg(table, k) \in Nat /\ Agg(cache, k) \in Nat /\ Held(requests, k) \in Nat
        /\ Held(buffer, k) \in Nat /\ Total(outbox, k) \in Nat
        /\ Held(buffer', k) \in Nat /\ Total(outbox', k) \in Nat
    BY <1>2, <1>3, <1>4, AggNat, HeldIsNat, TotalNat
  <2>4. Held(buffer', k) + Total(outbox', k) = Held(requests, k) + Total(outbox, k)
    BY <1>4
  <2>5. owed[k] = Reported(todo, k) + Agg(cache, k) + Held(buffer, k) + Total(outbox, k)
    BY <1>2
  <2>6. owed[k] = (Reported(Tail(todo), k) + one) + Agg(cache, k)
                    + Held(buffer, k) + Total(outbox, k)
    BY <2>1, <2>5
  <2>7. owed[k] \in Int
    BY <1>2
  <2> DEFINE due == owed[k]
             left == Reported(Tail(todo), k)
             kept == Agg(table, k)
             cached == Agg(cache, k)
             held == Held(requests, k)
             buffered == Held(buffer, k)
             waiting == Total(outbox, k)
             after == Held(buffer', k) + Total(outbox', k)
  <2>8. /\ due \in Int /\ left \in Int /\ kept \in Int /\ cached \in Int /\ held \in Int
        /\ buffered \in Int /\ waiting \in Int /\ after \in Int /\ one \in Int
        /\ due = left + one + cached + buffered + waiting
        /\ kept + held = cached + buffered + one
        /\ after = held + waiting
    BY <2>1, <2>2, <2>3, <2>4, <2>6, <2>7
  <2>9. due = left + kept + after
    <3> HIDE DEF due, left, kept, cached, held, buffered, waiting, after, one
    <3> QED BY <2>8
  <2> QED BY <2>1, <2>3, <2>9
<1>6. \A k \in Keys : owed'[k] = Reported(todo', k) + Agg(cache', k)
                                   + Held(buffer', k) + Total(outbox', k)
  BY <1>1, <1>5
<1> QED BY <1>1, <1>2, <1>4, <1>6, UnderWayNext DEF Accounted

LEMMA InvIs ==
  ASSUME ReportInv
  PROVE  /\ Table(cache) /\ todo \in Seq(Operation)
         /\ Accounted(cache, todo, buffer, outbox, owed)
         /\ Expired(cache) \subseteq Cached(cache)
  BY UnderWayIs DEF ReportInv, TableInv, Typed, Table, Expired

LEMMA Swept ==
  ASSUME NEW S, NEW seq \in OldestFirst(S)
  PROVE  seq \in SetToSeqs(S)
  BY DEF OldestFirst

\* The sweep that the handling of an operation begins with.
LEMMA SweepKeeps ==
  ASSUME ReportInv, NEW swept \in OldestFirst(Expired(cache))
  PROVE  /\ Table(Without(cache, Expired(cache)))
         /\ Flushed(cache, swept, buffer) \in Requests
         /\ Limited(Flushed(cache, swept, buffer))
         /\ \A k \in Keys :
              Agg(Without(cache, Expired(cache)), k) + Held(Flushed(cache, swept, buffer), k)
                = Agg(cache, k) + Held(buffer, k)
  BY InvIs, Swept, FlushMoves DEF Accounted

LEMMA ReplaceType ==
  ASSUME NEW table, Table(table), NEW x \in Keys, NEW e \in CacheElem
  PROVE  /\ Table([table EXCEPT ![x] = e])
         /\ x \in Cached([table EXCEPT ![x] = e])
         /\ \A k \in Keys : Agg([table EXCEPT ![x] = e], k) =
              IF k = x THEN e.merged ELSE Agg(table, k)
  BY Options DEF Table, Agg, Cached

LEMMA MergeCounts ==
  ASSUME NEW table, Table(table), NEW op \in Operation, table[op.key] # NoElem
  PROVE  LET merged == [table EXCEPT ![op.key] = MergeOperation(@, op)]
         IN /\ Table(merged) /\ op.key \in Cached(merged)
            /\ \A k \in Keys : Agg(merged, k) =
                                 Agg(table, k) + (IF op.key = k THEN 1 ELSE 0)
<1> DEFINE e == MergeOperation(table[op.key], op)
           merged == [table EXCEPT ![op.key] = e]
<1>1. op.key \in Keys /\ op.entries \in Nat /\ table[op.key] \in CacheElem
  BY Options DEF Operation, Table
<1>2. e \in CacheElem
  BY <1>1, MergedType
<1>3. e.merged = Agg(table, op.key) + 1
  BY <1>1 DEF MergeOperation, Agg, CacheElem
<1> HIDE DEF e
<1>4. /\ Table(merged) /\ op.key \in Cached(merged)
      /\ \A k \in Keys : Agg(merged, k) = IF k = op.key THEN e.merged ELSE Agg(table, k)
  BY <1>1, <1>2, ReplaceType
<1> HIDE DEF merged
<1>5. ASSUME NEW k \in Keys
      PROVE  Agg(merged, k) = Agg(table, k) + (IF op.key = k THEN 1 ELSE 0)
  <2>1. Agg(table, k) \in Nat
    BY AggNat
  <2> QED BY <1>3, <1>4, <2>1
<1> QED BY <1>4, <1>5 DEF merged, e

LEMMA InsertCounts ==
  ASSUME NEW table, Table(table), NEW op \in Operation, table[op.key] = NoElem
  PROVE  LET new == [table EXCEPT ![op.key] = NewElem(op)]
         IN /\ Table(new)
            /\ \A k \in Keys : Agg(new, k) =
                                 Agg(table, k) + (IF op.key = k THEN 1 ELSE 0)
<1> DEFINE e == NewElem(op)
           new == [table EXCEPT ![op.key] = e]
<1>1. op.key \in Keys /\ op.entries \in Nat
  BY Options DEF Operation
<1>2. e \in CacheElem /\ e.merged = Agg(table, op.key) + 1
  BY <1>1 DEF NewElem, Agg, CacheElem
<1> HIDE DEF e
<1>3. /\ Table(new)
      /\ \A k \in Keys : Agg(new, k) = IF k = op.key THEN e.merged ELSE Agg(table, k)
  BY <1>1, <1>2, ReplaceType
<1> HIDE DEF new
<1>4. ASSUME NEW k \in Keys
      PROVE  Agg(new, k) = Agg(table, k) + (IF op.key = k THEN 1 ELSE 0)
  <2>1. Agg(table, k) \in Nat
    BY AggNat
  <2> QED BY <1>2, <1>3, <2>1
<1> QED BY <1>3, <1>4 DEF new, e

LEMMA MergeKeepsAccount ==
  ASSUME ReportInv, MergeCached
  PROVE  UnderWay'
<1>1. PICK swept \in OldestFirst(Expired(cache)) :
        LET op == Head(todo)
            table == Without(cache, Expired(cache))
            merged == [table EXCEPT ![op.key] = MergeOperation(@, op)]
            requests == Flushed(cache, swept, buffer)
        IN /\ table[op.key] # NoElem
           /\ IF TooBig(merged[op.key])
              THEN Processed(Without(merged, {op.key}),
                             Flushed(merged, <<op.key>>, requests))
              ELSE Processed(merged, requests)
  BY DEF MergeCached
<1> DEFINE op == Head(todo)
           table == Without(cache, Expired(cache))
           merged == [table EXCEPT ![op.key] = MergeOperation(@, op)]
           requests == Flushed(cache, swept, buffer)
           last == Flushed(merged, <<op.key>>, requests)
           one(k) == IF op.key = k THEN 1 ELSE 0
<1>2. /\ todo # <<>> /\ table[op.key] # NoElem
      /\ \/ Processed(Without(merged, {op.key}), last)
         \/ Processed(merged, requests)
  BY <1>1 DEF MergeCached
<1>3. op \in Operation
  BY <1>2, InvIs
<1>4. /\ Table(table) /\ requests \in Requests /\ Limited(requests)
      /\ \A k \in Keys : Agg(table, k) + Held(requests, k) = Agg(cache, k) + Held(buffer, k)
  BY SweepKeeps
<1> HIDE DEF table, requests, op
<1>5. /\ Table(merged) /\ op.key \in Cached(merged)
      /\ \A k \in Keys : Agg(merged, k) = Agg(table, k) + one(k)
  BY <1>2, <1>3, <1>4, MergeCounts
<1> HIDE DEF merged, last
<1>6. /\ Table(Without(merged, {op.key})) /\ last \in Requests /\ Limited(last)
      /\ \A k \in Keys : Agg(Without(merged, {op.key}), k) + Held(last, k) =
                           Agg(merged, k) + Held(requests, k)
  <2> DEFINE S == {op.key}
             seq == <<op.key>>
  <2>1. seq \in SetToSeqs(S) /\ S \subseteq Cached(merged) /\ last = Flushed(merged, seq, requests)
    BY <1>5, OneOrder DEF last
  <2> HIDE DEF S, seq
  <2>2. /\ Table(Without(merged, S)) /\ last \in Requests /\ Limited(last)
        /\ \A k \in Keys : Agg(Without(merged, S), k) + Held(last, k) =
                             Agg(merged, k) + Held(requests, k)
    BY <1>4, <1>5, <2>1, FlushMoves
  <2> QED BY <2>2 DEF S
<1>7. \A k \in Keys : Agg(merged, k) + Held(requests, k) =
                        Agg(cache, k) + Held(buffer, k) + one(k)
  <2>1. ASSUME NEW k \in Keys
        PROVE  Agg(merged, k) + Held(requests, k) = Agg(cache, k) + Held(buffer, k) + one(k)
    <3>1. /\ Agg(table, k) \in Nat /\ Agg(cache, k) \in Nat /\ Held(requests, k) \in Nat
          /\ Held(buffer, k) \in Nat /\ one(k) \in Nat
      BY <1>4, AggNat, HeldIsNat, InvIs DEF Accounted
    <3>2. Agg(table, k) + Held(requests, k) = Agg(cache, k) + Held(buffer, k)
      BY <1>4
    <3>3. Agg(merged, k) = Agg(table, k) + one(k)
      BY <1>5
    <3> HIDE DEF one
    <3> QED BY <3>1, <3>2, <3>3
  <2> QED BY <2>1
<1>8. CASE Processed(merged, requests)
  BY <1>2, <1>4, <1>5, <1>7, <1>8, ProcessedKeeps DEF op
<1>9. CASE Processed(Without(merged, {op.key}), last)
  BY <1>2, <1>6, <1>7, <1>9, ProcessedKeeps DEF op
<1> QED BY <1>2, <1>8, <1>9

LEMMA InsertKeepsAccount ==
  ASSUME ReportInv, InsertNew
  PROVE  UnderWay'
<1>1. PICK swept \in OldestFirst(Expired(cache)) :
        LET op == Head(todo)
            table == Without(cache, Expired(cache))
            requests == Flushed(cache, swept, buffer)
        IN /\ table[op.key] = NoElem
           /\ \/ /\ Room(table)
                 /\ Processed([table EXCEPT ![op.key] = NewElem(op)], requests)
              \/ /\ ~Room(table)
                 /\ \E v \in Victims(table) :
                      Processed([Without(table, {v}) EXCEPT ![op.key] = NewElem(op)],
                                Flushed(table, <<v>>, requests))
  BY DEF InsertNew
<1> DEFINE op == Head(todo)
           table == Without(cache, Expired(cache))
           requests == Flushed(cache, swept, buffer)
           one(k) == IF op.key = k THEN 1 ELSE 0
<1>2. /\ todo # <<>> /\ table[op.key] = NoElem
      /\ \/ Processed([table EXCEPT ![op.key] = NewElem(op)], requests)
         \/ \E v \in Victims(table) :
              Processed([Without(table, {v}) EXCEPT ![op.key] = NewElem(op)],
                        Flushed(table, <<v>>, requests))
  BY <1>1 DEF InsertNew
<1>3. op \in Operation
  BY <1>2, InvIs
<1>4. /\ Table(table) /\ requests \in Requests /\ Limited(requests)
      /\ \A k \in Keys : Agg(table, k) + Held(requests, k) = Agg(cache, k) + Held(buffer, k)
  BY SweepKeeps
<1> HIDE DEF table, requests, op
\* Inserting into a table that the requests and it make up what was there.
<1>5. ASSUME NEW t, Table(t), t[op.key] = NoElem, NEW q \in Requests, Limited(q),
             \A k \in Keys : Agg(t, k) + Held(q, k) = Agg(cache, k) + Held(buffer, k),
             Processed([t EXCEPT ![op.key] = NewElem(op)], q)
      PROVE  UnderWay'
  <2> DEFINE new == [t EXCEPT ![op.key] = NewElem(op)]
  <2>1. Table(new) /\ \A k \in Keys : Agg(new, k) = Agg(t, k) + one(k)
    BY <1>3, <1>5, InsertCounts
  <2>2. Processed(new, q)
    BY <1>5
  <2> HIDE DEF new
  <2>3. ASSUME NEW k \in Keys
        PROVE  Agg(new, k) + Held(q, k) = Agg(cache, k) + Held(buffer, k) + one(k)
    <3>1. /\ Agg(t, k) \in Nat /\ Agg(cache, k) \in Nat /\ Held(q, k) \in Nat
          /\ Held(buffer, k) \in Nat /\ one(k) \in Nat
      BY <1>5, AggNat, HeldIsNat, InvIs DEF Accounted
    <3>2. Agg(t, k) + Held(q, k) = Agg(cache, k) + Held(buffer, k)
      BY <1>5
    <3>3. Agg(new, k) = Agg(t, k) + one(k)
      BY <2>1
    <3> HIDE DEF one
    <3> QED BY <3>1, <3>2, <3>3
  <2> QED BY <1>2, <1>5, <2>1, <2>2, <2>3, ProcessedKeeps DEF op
<1>6. CASE Processed([table EXCEPT ![op.key] = NewElem(op)], requests)
  BY <1>2, <1>4, <1>5, <1>6
<1>7. ASSUME NEW v \in Victims(table),
             Processed([Without(table, {v}) EXCEPT ![op.key] = NewElem(op)],
                       Flushed(table, <<v>>, requests))
      PROVE  UnderWay'
  <2> DEFINE t == Without(table, {v})
             q == Flushed(table, <<v>>, requests)
  <2>1. <<v>> \in SetToSeqs({v}) /\ {v} \subseteq Cached(table)
    BY OneOrder DEF Victims
  <2>2. /\ Table(t) /\ q \in Requests /\ Limited(q)
        /\ \A k \in Keys : Agg(t, k) + Held(q, k) = Agg(table, k) + Held(requests, k)
    BY <1>4, <2>1, FlushMoves
  <2>3. t[op.key] = NoElem
    BY <1>2, <1>3 DEF Without, Operation
  <2>4. Processed([t EXCEPT ![op.key] = NewElem(op)], q)
    BY <1>7
  <2>5. \A k \in Keys : Agg(t, k) + Held(q, k) = Agg(cache, k) + Held(buffer, k)
    BY <1>4, <2>2
  <2> HIDE DEF t, q
  <2> QED BY <1>5, <2>2, <2>3, <2>4, <2>5
<1> QED BY <1>2, <1>6, <1>7

-----------------------------------------------------------------------------
(* The steps, and the theorems.                                            *)

\* A flush outside of a report puts what it takes from the table into the bag.
LEMMA FlushKeepsAccount ==
  ASSUME ReportInv, NEW S, S \subseteq Cached(cache), NEW swept \in SetToSeqs(S),
         outbox' = outbox (+) ToBag(Flushed(cache, swept, <<>>)),
         cache' = Without(cache, S), UNCHANGED <<todo, buffer, owed>>
  PROVE  UnderWay'
<1> DEFINE none == <<>>
           q == Flushed(cache, swept, none)
<1>1. none \in Requests /\ Limited(none) /\ \A k : Held(none, k) = 0
  BY NoRequests
<1>2. outbox' = outbox (+) ToBag(q)
  OBVIOUS
<1> HIDE DEF none
<1>3. /\ Table(cache') /\ q \in Requests /\ Limited(q)
      /\ \A k \in Keys : Agg(cache', k) + Held(q, k) = Agg(cache, k) + Held(none, k)
  BY <1>1, InvIs, FlushMoves
<1> HIDE DEF q
<1>4. Accounted(cache, todo, buffer, outbox, owed)
  BY InvIs
<1>5. /\ GoodBag(outbox') /\ BagToSet(outbox') = BagToSet(outbox) \cup ToSet(q)
      /\ \A k : Total(outbox', k) = Total(outbox, k) + Held(q, k)
  BY <1>2, <1>3, <1>4, HandedOver DEF Accounted
<1>6. \A r \in ToSet(q) : Len(r) <= MaxOperationsToSend
  BY <1>3, LimitedMembers
<1>7. ASSUME NEW k \in Keys
      PROVE  owed[k] = Reported(todo, k) + Agg(cache', k) + Held(buffer, k)
                         + Total(outbox', k)
  <2> DEFINE left == Reported(todo, k)
             kept == Agg(cache', k)
             cached == Agg(cache, k)
             held == Held(q, k)
             buffered == Held(buffer, k)
             waiting == Total(outbox, k)
             after == Total(outbox', k)
             due == owed[k]
  <2>1. /\ left \in Nat /\ kept \in Nat /\ cached \in Nat /\ held \in Nat
        /\ buffered \in Nat /\ waiting \in Nat /\ due \in Nat
    BY <1>3, <1>4, InvIs, ReportedNat, AggNat, HeldIsNat, TotalNat DEF Accounted
  <2>2. after = waiting + held
    BY <1>5
  <2>3. kept + held = cached
    <3>1. kept + held = cached + Held(none, k) /\ Held(none, k) = 0
      BY <1>1, <1>3
    <3> HIDE DEF kept, held, cached
    <3> QED BY <2>1, <3>1
  <2>4. due = left + cached + buffered + waiting
    BY <1>4 DEF Accounted
  <2>5. due = left + kept + buffered + after
    <3> HIDE DEF left, kept, cached, held, buffered, waiting, after, due
    <3> QED BY <2>1, <2>2, <2>3, <2>4
  <2> QED BY <2>5
<1> QED BY <1>3, <1>4, <1>5, <1>6, <1>7, UnderWayNext DEF Accounted

LEMMA FlushAllRemoves == ASSUME Table(cache)
  PROVE Without(cache, Keys) = Without(cache, Cached(cache))
  BY DEF Table, Without, Cached

LEMMA SendKeepsAccount ==
  ASSUME ReportInv, NEW request, FlushOut(request)
  PROVE  UnderWay'
<1>1. /\ request \in BagToSet(outbox) /\ outbox' = outbox (-) SetToBag({request})
      /\ owed' = [k \in Keys |-> owed[k] - Carried(request, k)]
      /\ cache' = cache /\ todo' = todo /\ buffer' = buffer
  BY DEF FlushOut
<1>2. Accounted(cache, todo, buffer, outbox, owed)
  BY InvIs
<1>3. /\ GoodBag(outbox') /\ BagToSet(outbox') \subseteq BagToSet(outbox)
      /\ \A k : Total(outbox, k) = Total(outbox', k) + Carried(request, k)
  BY <1>1, <1>2, SentOff DEF Accounted
<1>4. request \in Seq(Sent)
  BY <1>1, <1>2 DEF Accounted, GoodBag
<1>5. ASSUME NEW k \in Keys
      PROVE  /\ owed'[k] = Reported(todo, k) + Agg(cache, k) + Held(buffer, k)
                             + Total(outbox', k)
             /\ owed'[k] \in Nat
  <2> DEFINE left == Reported(todo, k)
             cached == Agg(cache, k)
             buffered == Held(buffer, k)
             waiting == Total(outbox, k)
             after == Total(outbox', k)
             gone == Carried(request, k)
             due == owed[k]
  <2>1. /\ left \in Nat /\ cached \in Nat /\ buffered \in Nat /\ after \in Nat
        /\ gone \in Nat /\ due \in Nat
    BY <1>2, <1>3, <1>4, InvIs, ReportedNat, AggNat, HeldIsNat, TotalNat, CarriedIsNat
       DEF Accounted
  <2>2. waiting = after + gone
    BY <1>3
  <2>3. due = left + cached + buffered + waiting
    BY <1>2 DEF Accounted
  <2>4. due - gone = left + cached + buffered + after /\ due - gone \in Nat
    <3> HIDE DEF left, cached, buffered, waiting, after, gone, due
    <3> QED BY <2>1, <2>2, <2>3
  <2>5. owed'[k] = due - gone
    BY <1>1
  <2> QED BY <2>4, <2>5
<1>6. owed' \in [Keys -> Nat]
  BY <1>1, <1>5
<1> QED BY <1>1, <1>2, <1>3, <1>5, <1>6, UnderWayNext DEF Accounted

LEMMA CallKeepsAccount ==
  ASSUME ReportInv, NEW report \in Seq(Operation), Report(report)
  PROVE  UnderWay'
<1>1. /\ todo = <<>> /\ todo' = report
      /\ owed' = [k \in Keys |-> owed[k] + Reported(report, k)]
      /\ cache' = cache /\ buffer' = buffer /\ outbox' = outbox
  BY DEF Report
<1>2. Accounted(cache, todo, buffer, outbox, owed)
  BY InvIs
<1>3. ASSUME NEW k \in Keys
      PROVE  /\ owed'[k] = Reported(report, k) + Agg(cache, k) + Held(buffer, k)
                             + Total(outbox, k)
             /\ owed'[k] \in Nat
  <2> DEFINE left == Reported(report, k)
             cached == Agg(cache, k)
             buffered == Held(buffer, k)
             waiting == Total(outbox, k)
             due == owed[k]
  <2>1. /\ left \in Nat /\ cached \in Nat /\ buffered \in Nat /\ waiting \in Nat
        /\ due \in Nat
    BY <1>2, InvIs, ReportedNat, AggNat, HeldIsNat, TotalNat DEF Accounted
  <2>2. due = Reported(todo, k) + cached + buffered + waiting /\ Reported(todo, k) = 0
    BY <1>1, <1>2, ReportedNone DEF Accounted
  <2>3. due + left = left + cached + buffered + waiting /\ due + left \in Nat
    <3> HIDE DEF left, cached, buffered, waiting, due
    <3> QED BY <2>1, <2>2
  <2>4. owed'[k] = due + left
    BY <1>1
  <2> QED BY <2>3, <2>4
<1>4. owed' \in [Keys -> Nat]
  BY <1>1, <1>3
<1> QED BY <1>1, <1>2, <1>3, <1>4, UnderWayNext DEF Accounted

LEMMA TickKeepsAccount ==
  ASSUME ReportInv, Tick
  PROVE  UnderWay'
<1>1. /\ cache' = [k \in Keys |-> IF cache[k] = NoElem THEN NoElem
                                  ELSE [cache[k] EXCEPT !.age = Older(@)]]
      /\ todo' = todo /\ buffer' = buffer /\ outbox' = outbox /\ owed' = owed
  BY DEF Tick
<1>2. Accounted(cache, todo, buffer, outbox, owed) /\ Table(cache)
  BY InvIs
<1>3. ASSUME NEW k \in Keys PROVE Agg(cache', k) = Agg(cache, k)
  <2>1. CASE cache[k] = NoElem
    BY <1>1, <2>1 DEF Agg
  <2>2. CASE cache[k] # NoElem
    <3>1. cache[k] \in CacheElem
      BY <1>2, <2>2 DEF Table
    <3>2. Older(cache[k].age) \in Nat
      BY <3>1 DEF Older, CacheElem
    <3>3. cache'[k] = [cache[k] EXCEPT !.age = Older(cache[k].age)]
      BY <1>1, <2>2
    <3>4. cache'[k] \in CacheElem /\ cache'[k].merged = cache[k].merged
      BY <3>1, <3>2, <3>3 DEF CacheElem
    <3> QED BY <2>2, <3>4, Options DEF Agg
  <2> QED BY <2>1, <2>2
<1> QED BY <1>1, <1>2, <1>3, UnderWayNext DEF Accounted

LEMMA ReportInvInit == Init => ReportInv
<1> SUFFICES ASSUME Init PROVE UnderWay
  BY InitGood DEF ReportInv
<1>1. /\ cache = [k \in Keys |-> NoElem] /\ todo = <<>> /\ buffer = <<>>
      /\ outbox = EmptyBag /\ owed = [k \in Keys |-> 0]
  BY DEF Init
<1>2. BagToSet(outbox) = {} /\ GoodBag(outbox)
  <2>1. BagToSet(outbox) = {} /\ outbox = [e \in {} |-> 1]
    BY <1>1 DEF EmptyBag, SetToBag, BagToSet
  <2> QED BY <2>1, FS_EmptySet DEF GoodBag
<1>3. ASSUME NEW k \in Keys
      PROVE  /\ Reported(todo, k) = 0 /\ Agg(cache, k) = 0 /\ Held(buffer, k) = 0
             /\ Total(outbox, k) = 0
  <2>1. Total(outbox, k) = 0
    <3> DEFINE f == [r \in BagToSet(outbox) |-> outbox[r] * Carried(r, k)]
    <3>1. DOMAIN f = {}
      BY <1>2
    <3> HIDE DEF f
    <3>2. SumFunction(f) = 0
      BY <3>1, SumEmpty DEF SumFunction
    <3> QED BY <3>2 DEF Total, f
  <2> QED BY <1>1, <2>1, ReportedNone, NoRequests DEF Agg
<1>4. buffer \in Requests /\ Limited(buffer) /\ owed \in [Keys -> Nat]
  BY <1>1, NoRequests
<1>5. \A k \in Keys : owed[k] = Reported(todo, k) + Agg(cache, k) + Held(buffer, k)
                                + Total(outbox, k)
  BY <1>1, <1>3
<1> QED BY <1>2, <1>4, <1>5, UnderWayIs DEF Accounted

LEMMA ReportInvStep == ReportInv /\ [Next]_vars => ReportInv'
<1> SUFFICES ASSUME ReportInv, [Next]_vars PROVE UnderWay'
  BY StepGood DEF ReportInv
<1>1. ASSUME NEW report \in BoundedSeq(Operation, MaxReport), Report(report)
      PROVE  UnderWay'
  BY <1>1, Reports, CallKeepsAccount
<1>2. CASE MergeCached
  BY <1>2, MergeKeepsAccount
<1>3. CASE InsertNew
  BY <1>3, InsertKeepsAccount
<1>4. CASE Flush
  <2>1. PICK swept \in OldestFirst(Expired(cache)) :
          outbox' = outbox (+) ToBag(Flushed(cache, swept, <<>>))
    BY <1>4 DEF Flush
  <2>2. swept \in SetToSeqs(Expired(cache)) /\ Expired(cache) \subseteq Cached(cache)
    BY Swept, InvIs
  <2>3. cache' = Without(cache, Expired(cache)) /\ UNCHANGED <<todo, buffer, owed>>
    BY <1>4 DEF Flush
  <2> QED BY <2>1, <2>2, <2>3, FlushKeepsAccount
<1>5. CASE FlushAll
  <2>1. PICK swept \in SetToSeqs(Cached(cache)) :
          outbox' = outbox (+) ToBag(Flushed(cache, swept, <<>>))
    BY <1>5 DEF FlushAll
  <2>2. cache' = Without(cache, Cached(cache)) /\ UNCHANGED <<todo, buffer, owed>>
    BY <1>5, InvIs, FlushAllRemoves DEF FlushAll
  <2> QED BY <2>1, <2>2, FlushKeepsAccount
<1>6. ASSUME NEW request \in BagToSet(outbox), FlushOut(request) PROVE UnderWay'
  BY <1>6, SendKeepsAccount
<1>7. CASE Tick
  BY <1>7, TickKeepsAccount
<1>8. CASE UNCHANGED vars
  <2>1. /\ cache' = cache /\ todo' = todo /\ buffer' = buffer /\ outbox' = outbox
        /\ owed' = owed
    BY <1>8 DEF vars
  <2>2. Accounted(cache', todo', buffer', outbox', owed')
    BY <2>1, InvIs
  <2> QED BY <2>2, UnderWayNext
<1> QED BY <1>1, <1>2, <1>3, <1>4, <1>5, <1>6, <1>7, <1>8 DEF Next

\* The inductive invariant of the whole report cache: to that of its table it
\* adds what its stack buffers hold, and the accounts of every key.
THEOREM Accounting == Spec => []ReportInv
  BY ReportInvInit, ReportInvStep, PTL DEF Spec

\* No operation given to Report() is lost on its way to the transport, and none
\* gets there twice: however entries merge, grow too big, expire, are evicted
\* or flushed, and in whatever order, what the callers reported and the server
\* has not been sent is in the report at hand, the cache or a stack buffer.
THEOREM NothingLost == Spec => []OperationsConserved
<1>1. ReportInv => OperationsConserved
  BY DEF ReportInv, UnderWay
<1> QED BY <1>1, Accounting, PTL

\* StackBuffer::Add() never makes a request of more than kMaxOperationsToSend
\* operations, whatever the limit and however many entries leave in one call.
THEOREM RequestsSmall == Spec => []RequestsLimited
<1>1. ReportInv => RequestsLimited
  BY DEF ReportInv, UnderWay
<1> QED BY <1>1, Accounting, PTL

\* The type invariant of the report cache, the requests on their way included.
THEOREM TypeCorrect == Spec => []TypeOK
<1>1. ReportInv => TypeOK
  BY DEF ReportInv, UnderWay, TableInv, Typed, TypeOK, GoodBag, Requests
<1> QED BY <1>1, Accounting, PTL
=============================================================================
