------------------------ MODULE OperationAggregator ------------------------
(***************************************************************************)
(* How operations are merged: OperationAggregator                          *)
(* (src/operation_aggregator.cc) for checks and reports, and               *)
(* QuotaOperationAggregator (src/quota_operation_aggregator.cc).           *)
(*                                                                         *)
(* An aggregator is made of one operation and others are merged into it:   *)
(* time spans grow, log entries are appended, and metric values with one   *)
(* metric name and one set of labels become one value, a sum for metrics   *)
(* of kind DELTA and the latest value for the others.                      *)
(*                                                                         *)
(* Abstractions.  Times are numbers, 0 for a time that is not set.  The    *)
(* labels of a value are its signature.  A double is an integer of the     *)
(* same size, and a distribution its bucket options and its count          *)
(* (DistributionHelper has the rest).  Importance, ids and user labels are *)
(* those of the first operation.                                           *)
(***************************************************************************)
EXTENDS Integers, Sequences, FiniteSets, Functions, SequencesExt

CONSTANTS
  Operations,   \* operations that are reported
  MetricNames,  \* names of their metrics
  Labels,       \* signatures of the labels of a metric value
  DeltaMetrics, \* metrics of kind DELTA: those not in metric_kinds are, too
  NoMetric,     \* a value that an aggregator does not have
  WordMax,      \* INT64_MAX
  MaxMerged     \* bound: operations merged in one aggregator

VARIABLES
  operation,    \* the aggregate: times, log entries, values
  quota,        \* per metric, the value of the quota aggregator
  given         \* history: the operations merged so far, in order

operationVars == <<operation, quota, given>>

ASSUME MetricsAssumption ==
  /\ DeltaMetrics \subseteq MetricNames
  /\ WordMax \in Nat
  /\ MaxMerged \in Nat \ {0}

\* Metric values of the cases and bucket options that are reported.
MetricValues ==
  LET reported == UNION {ToSet(op.values) : op \in Operations}
  IN [name : MetricNames, labels : Labels,
      case : {v.case : v \in reported}, buckets : {v.buckets : v \in reported},
      value : -WordMax - 1 .. WordMax, start : Nat, end : Nat]

ASSUME OperationsAssumption ==
  /\ NoMetric \notin MetricValues
  /\ \A op \in Operations : /\ op.start \in Nat /\ op.end \in Nat
                           /\ op.values \in Seq(MetricValues)

-----------------------------------------------------------------------------
\* A metric value of an operation: its metric and labels, value_case(), the
\* value, the bucket options of a distribution, and the time span.
MetricValue(name, labels, case, value, buckets, start, end) ==
  [name |-> name, labels |-> labels, case |-> case, value |-> value,
   buckets |-> buckets, start |-> start, end |-> end]

\* Signed addition of two words.
Plus(x, y) == LET n == 2 * (WordMax + 1)
              IN ((x + y + WordMax + 1) % n) - (WordMax + 1)

\* The earlier of two start times and the later of two end times, if set.
Start(from, to) == IF from # 0 /\ (to = 0 \/ from < to) THEN from ELSE to
End(from, to) == IF from # 0 /\ (to = 0 \/ to < from) THEN from ELSE to

\* Mutated form: the later value replaces the earlier only when it is newer.
MergeGaugeNewer(from, to) == IF from.end <= to.end THEN to ELSE from

\* MergeCumulativeOrGaugeMetricValue(): a time that is not set is the first.
MergeCumulativeOrGaugeMetricValue(from, to) ==
  IF from.end < to.end THEN to ELSE from

\* Mutated form: the start time is that of the first value that has one.
MergeDeltaKeepingStart(from, to, summed) ==
  IF from.case # to.case THEN to
  ELSE [to EXCEPT
          !.start = IF @ = 0 THEN from.start ELSE @, !.end = End(from.end, @),
          !.value = IF to.case \in summed /\ from.buckets = to.buckets
                    THEN Plus(@, from.value) ELSE @]

\* MergeDeltaMetricValue(): values of one case, if the case can be summed;
\* distributions with other bucket options leave the value, not the times.
MergeDeltaMetricValue(from, to, summed) ==
  IF from.case # to.case THEN to
  ELSE [to EXCEPT
          !.start = Start(from.start, @), !.end = End(from.end, @),
          !.value = IF to.case \in summed /\ from.buckets = to.buckets
                    THEN Plus(@, from.value) ELSE @]

SummedInReports == {"int64", "double", "distribution"}
SummedInQuota == {"int64"}

MergeMetricValue(from, to) ==
  IF from.name \in DeltaMetrics
  THEN MergeDeltaMetricValue(from, to, SummedInReports)
  ELSE MergeCumulativeOrGaugeMetricValue(from, to)

\* A value joins the one with its metric and labels, or is the first.
MetricPut(table, v) ==
  LET old == table[v.name][v.labels]
  IN [table EXCEPT ![v.name][v.labels] =
        IF old = NoMetric THEN v ELSE MergeMetricValue(v, old)]

\* MergeMetricValueSets(): the values of an operation, one after the other.
MergeMetricValueSets(table, values) ==
  LET merged[i \in 0 .. Len(values)] ==
        IF i = 0 THEN table ELSE MetricPut(merged[i - 1], values[i])
  IN merged[Len(values)]

NoValues == [n \in MetricNames |-> [l \in Labels |-> NoMetric]]

\* In a quota the metric alone counts.
QuotaPut(table, v) ==
  LET old == table[v.name]
  IN [table EXCEPT ![v.name] =
        IF old = NoMetric THEN v ELSE MergeDeltaMetricValue(v, old, SummedInQuota)]

\* QuotaOperationAggregator::MergeOperation(): the times of the operation stay as
\* they are.
QuotaMerged(table, values) ==
  LET merged[i \in 0 .. Len(values)] ==
        IF i = 0 THEN table ELSE QuotaPut(merged[i - 1], values[i])
  IN merged[Len(values)]

\* The constructor; the quota aggregator merges into itself what it is made of.
Constructed(op) ==
  [start |-> op.start, end |-> op.end, logs |-> op.logs,
   values |-> MergeMetricValueSets(NoValues, op.values)]

OperationInit ==
  \E op \in Operations :
    /\ operation = Constructed(op)
    /\ quota = QuotaMerged([n \in MetricNames |-> NoMetric], op.values)
    /\ given = <<op>>

\* Mutated form: the values are merged, the log entries of a report are not.
MergeWithoutLogs(op) ==
  /\ Len(given) < MaxMerged
  /\ operation' = [operation EXCEPT
       !.start = Start(op.start, @), !.end = End(op.end, @),
       !.values = MergeMetricValueSets(@, op.values)]
  /\ quota' = QuotaMerged(quota, op.values)
  /\ given' = Append(given, op)

\* MergeOperation() of either aggregator.
MergeOperation(op) ==
  /\ Len(given) < MaxMerged
  /\ operation' = [operation EXCEPT
       !.start = Start(op.start, @), !.end = End(op.end, @),
       !.values = MergeMetricValueSets(@, op.values), !.logs = @ \o op.logs]
  /\ quota' = QuotaMerged(quota, op.values)
  /\ given' = Append(given, op)

OperationNext == \E op \in Operations : MergeOperation(op)

OperationSpec == OperationInit /\ [][OperationNext]_operationVars

-----------------------------------------------------------------------------
(* Properties.  What an aggregate has to be is said here of all operations  *)
(* at once, not of one after the other.                                    *)

\* Where the values of operations are: in which, and at which place in it.
Places(ops) == UNION {{i} \X DOMAIN ops[i].values : i \in DOMAIN ops}

At(ops, p) == ops[p[1]].values[p[2]]

Before(p, q) == p[1] < q[1] \/ (p[1] = q[1] /\ p[2] < q[2])

\* Every value reported for a metric and labels.
History(ops, name, labels) ==
  {p \in Places(ops) : At(ops, p).name = name /\ At(ops, p).labels \in labels}

\* A time is the earliest that is set, or the latest.
IsEarliestSet(time, times) ==
  IF times \subseteq {0} THEN time = 0
  ELSE time \in times \ {0} /\ \A t \in times \ {0} : time <= t

IsLast(time, times) == time \in times /\ \A t \in times : t <= time

\* The sum of the values of one kind in some places: those of the case of the
\* first count, those with its bucket options and a case in summed are added, to
\* a word.
IsDelta(v, ops, places, summed) ==
  \E first \in places :
    LET like == At(ops, first)
        same == {p \in places : At(ops, p).case = like.case}
        added == {p \in same : At(ops, p).buckets = like.buckets}
        sum == SumFunctionOnSet([p \in added |-> At(ops, p).value], added)
    IN /\ \A p \in places : p = first \/ Before(first, p)
       /\ v.case = like.case /\ v.buckets = like.buckets
       /\ IsEarliestSet(v.start, {At(ops, p).start : p \in same})
       /\ IsLast(v.end, {At(ops, p).end : p \in same})
       /\ v.value \in -WordMax - 1 .. WordMax
       /\ IF like.case \in summed
          THEN (v.value - sum) % (2 * (WordMax + 1)) = 0
          ELSE v.value = like.value

\* The latest value, of those that end at one time the one reported last.
IsLatest(v, ops, places) ==
  \E p \in places :
    /\ v = At(ops, p)
    /\ \A q \in places : /\ At(ops, q).end <= v.end
                         /\ Before(p, q) => At(ops, q).end < v.end

ValuesAsReported ==
  \A n \in MetricNames :
    /\ \A l \in Labels :
         LET v == operation.values[n][l]
             places == History(given, n, {l})
         IN IF places = {} THEN v = NoMetric
            ELSE IF n \in DeltaMetrics THEN IsDelta(v, given, places, SummedInReports)
            ELSE IsLatest(v, given, places)
    /\ LET places == History(given, n, Labels)
       IN IF places = {} THEN quota[n] = NoMetric
          ELSE IsDelta(quota[n], given, places, SummedInQuota)

SpanCoversAll ==
  /\ IsEarliestSet(operation.start, {given[i].start : i \in DOMAIN given})
  /\ IsLast(operation.end, {given[i].end : i \in DOMAIN given})

LogsKept ==
  operation.logs = FlattenSeq([i \in DOMAIN given |-> given[i].logs])

\* Merged operations say what was reported, whatever the order, the labels and
\* the types of their values: sums and latest values for each metric and its
\* labels, a time span that covers all of theirs, and all log entries, in order.
AggregateAsReported == ValuesAsReported /\ SpanCoversAll /\ LogsKept
=============================================================================
