------------------------------ MODULE Signature ------------------------------
(***************************************************************************)
(* The signatures by which the aggregators find what may be merged         *)
(* (src/signature.cc): the bytes of a request that go to the hash.         *)
(*                                                                         *)
(* Two requests are compared, as a cache compares the one it looks up with *)
(* the ones it holds: under one signature they share a verdict, a quota or *)
(* a total.                                                                *)
(*                                                                         *)
(* Abstractions.  A hash is taken to tell all byte sequences apart.  A     *)
(* string is a sequence of bytes other than the delimiter.  An operation   *)
(* has the fields that any of the signatures reads; its labels are a map,  *)
(* its metrics a list of names with the labels of their values.            *)
(***************************************************************************)
EXTENDS Integers, Sequences, FiniteSets, SequencesExt

CONSTANT
  Requests   \* operations: [name, consumer, labels, metrics]

VARIABLES
  cachedRequest,  \* a request that was cached
  request         \* one that is looked up

signatureVars == <<cachedRequest, request>>

Delimiter == <<0>>

Strings == Seq(Nat \ {0})

\* Maps from strings to strings.
IsLabels(labels) ==
  /\ labels = [k \in DOMAIN labels |-> labels[k]] /\ IsFiniteSet(DOMAIN labels)
  /\ \A k \in DOMAIN labels : k \in Strings /\ labels[k] \in Strings

IsList(list) ==
  Len(list) \in Nat /\ list = [i \in 1 .. Len(list) |-> list[i]]

IsMetric(metric) ==
  /\ metric.name \in Strings /\ IsList(metric.values)
  /\ \A j \in DOMAIN metric.values : IsLabels(metric.values[j])

IsOperation(op) ==
  /\ op.name \in Strings /\ op.consumer \in Strings /\ IsLabels(op.labels)
  /\ IsList(op.metrics) /\ \A i \in DOMAIN op.metrics : IsMetric(op.metrics[i])

ASSUME RequestsAssumption == \A op \in Requests : IsOperation(op)

-----------------------------------------------------------------------------
\* The order of strings: after n common bytes s ends, or has the smaller one.
ByteLess(s, t) ==
  \E n \in 0 .. Len(s) :
    /\ n < Len(t) /\ \A i \in 1 .. n : s[i] = t[i]
    /\ n = Len(s) \/ s[n + 1] < t[n + 1]

\* The order of a std::map: a string has its place after those that are less.
Less(strings, s) == {t \in strings : ByteLess(t, s)}

Sorted(strings) ==
  [i \in 1 .. Cardinality(strings) |->
     CHOOSE s \in strings : Cardinality(Less(strings, s)) = i - 1]

\* The bytes of strings, each after a delimiter; a delimiter alone comes before
\* an empty string.
Delimited(strings) ==
  FlattenSeq([i \in DOMAIN strings |-> Delimiter \o strings[i]])

\* Mutated form: no delimiter between a key and its value.
HashLabelsJoined(labels) ==
  LET keys == Sorted(DOMAIN labels)
  IN FlattenSeq([i \in DOMAIN keys |-> <<keys[i] \o labels[keys[i]]>>])

\* UpdateHashLabels(): the keys in order, each with its value.
UpdateHashLabels(labels) ==
  LET keys == Sorted(DOMAIN labels)
  IN FlattenSeq([i \in DOMAIN keys |-> <<keys[i], labels[keys[i]]>>])

GenerateReportOperationSignature(op) ==
  op.consumer \o Delimited(<<op.name>> \o UpdateHashLabels(op.labels))

GenerateReportMetricValueSignature(labels) == Delimited(UpdateHashLabels(labels))

MetricNamesOf(op) == {op.metrics[i].name : i \in DOMAIN op.metrics}

\* The labels of the values of a metric: of the last set that has its name.
ValuesOf(op, name) ==
  LET sets == {i \in DOMAIN op.metrics : op.metrics[i].name = name}
      last == CHOOSE i \in sets : \A j \in sets : j <= i
  IN op.metrics[last].values

\* A metric of a check: its name and the labels of its values.
HashMetric(op, name) ==
  LET values == ValuesOf(op, name)
  IN <<name>> \o FlattenSeq([i \in DOMAIN values |-> UpdateHashLabels(values[i])])

GenerateCheckRequestSignature(op) ==
  LET names == Sorted(MetricNamesOf(op))
  IN op.name \o Delimited(
       <<op.consumer, <<>>>> \o UpdateHashLabels(op.labels)
       \o FlattenSeq([i \in DOMAIN names |-> HashMetric(op, names[i])])
       \o <<<<>>>>)

\* Mutated form: the metrics in the order of the request.
QuotaSignatureUnsorted(op) ==
  op.name \o Delimited(
    <<op.consumer>> \o [i \in DOMAIN op.metrics |-> op.metrics[i].name])

GenerateAllocateQuotaRequestSignature(op) ==
  op.name \o Delimited(<<op.consumer>> \o Sorted(MetricNamesOf(op)))

SignatureInit == cachedRequest \in Requests /\ request = cachedRequest

\* Bound: one look-up, since all are alike.
LookUp(op) ==
  /\ request = cachedRequest
  /\ request' = op
  /\ UNCHANGED cachedRequest

SignatureNext == \E op \in Requests : LookUp(op)

SignatureSpec == SignatureInit /\ [][SignatureNext]_signatureVars

-----------------------------------------------------------------------------
(* Properties.                                                             *)

Same(Of(_)) == Of(cachedRequest) = Of(request)

\* How many labels and metrics a check has, and how many labels they have.
Shape(op) ==
  LET names == Sorted(MetricNamesOf(op))
  IN <<Cardinality(DOMAIN op.labels),
       [i \in DOMAIN names |->
          LET values == ValuesOf(op, names[i])
          IN [j \in DOMAIN values |-> Cardinality(DOMAIN values[j])]]>>

\* What a check is about, in no order.
Checked(op) == <<op.name, op.consumer, op.labels,
                 [n \in MetricNamesOf(op) |-> ValuesOf(op, n)]>>

\* Requests share a signature exactly if they ask for the same, in whatever
\* order they name labels and metrics, and whichever strings are empty: reports
\* name, consumer and labels, quotas method, consumer and metrics; checks as
\* well, as long as they have equally many labels and metrics.
SignaturesSeparate ==
  /\ Same(GenerateReportOperationSignature)
       <=> Same(LAMBDA op : <<op.consumer, op.name, op.labels>>)
  /\ Same(LAMBDA op : GenerateReportMetricValueSignature(op.labels))
       <=> Same(LAMBDA op : op.labels)
  /\ Same(GenerateAllocateQuotaRequestSignature)
       <=> Same(LAMBDA op : <<op.name, op.consumer, MetricNamesOf(op)>>)
  /\ Same(Shape) =>
       (Same(GenerateCheckRequestSignature) <=> Same(Checked))

\* signature.h:47-50 lists what is "included to generate the signature" of a
\* check, and says that those with the same one can be aggregated: they ask for
\* the same.
ChecksSeparate == Same(GenerateCheckRequestSignature) => Same(Checked)
=============================================================================
