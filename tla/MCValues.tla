------------------------------ MODULE MCValues ------------------------------
(***************************************************************************)
(* Small instances for TLC of the parts without threads: money,            *)
(* distributions, merged operations, signatures and the period of the      *)
(* timer.  They share no state: a behaviour runs one of them and leaves    *)
(* the others in one of their initial states.                              *)
(***************************************************************************)
EXTENDS MoneyUtils, DistributionHelper, OperationAggregator, Signature,
        FlushTimer

VARIABLE part  \* the part that a behaviour runs

vars == <<part, moneyVars, distributionVars, operationVars, signatureVars,
          timerVars>>

-----------------------------------------------------------------------------
(* Inputs.                                                                 *)

\* Samples under, on, between and above the bounds.
SampleValues == {-1, 0, 2, 4}

\* Of every case: options that match, that do not, and that are refused.
OptionValues ==
  {[case |-> "explicit", bounds |-> b] : b \in {<<0, 2>>, <<0, 3>>, <<2, 0>>}}
  \cup {[case |-> "linear", buckets |-> 2, width |-> w, offset |-> 0] : w \in {0, 1, 2}}
  \cup {[case |-> "exponential", buckets |-> n, growth |-> 2, scale |-> 1] : n \in {0, 2}}

Int64(name, labels, value, start, end) ==
  MetricValue(name, labels, "int64", value, "none", start, end)

Dist(buckets, start, end) ==
  MetricValue("delta", "l1", "distribution", 1, buckets, start, end)

\* Sums that wrap, with and without times, other cases under the same labels,
\* and gauges that end at one time or at none.
ReportedValues ==
  {Int64("delta", "l1", 3, 2, 3), Int64("delta", "l1", -4, 0, 1),
   Int64("delta", "l2", 2, 1, 0), Dist("b1", 3, 0), Dist("b2", 1, 4),
   MetricValue("delta", "l2", "money", 1, "none", 2, 2),
   Int64("gauge", "l1", 1, 1, 2), Int64("gauge", "l1", 2, 0, 2),
   Int64("gauge", "l1", 3, 1, 0), Int64("gauge", "l1", 0, 3, 3)}

ReportedOperations ==
  {[start |-> 0, end |-> 0, logs |-> <<>>, values |-> <<v>>] : v \in ReportedValues}
  \cup {[start |-> 1, end |-> 3, logs |-> <<"e1">>, values |-> <<v>>] : v \in ReportedValues}
  \cup {[start |-> 2, end |-> 0, logs |-> <<"e2", "e3">>, values |-> <<>>],
        [start |-> 0, end |-> 2, logs |-> <<>>,
         values |-> <<Int64("delta", "l1", 3, 2, 3), Int64("delta", "l1", 3, 1, 3)>>]}

A == <<1>>
AA == <<1, 1>>
B == <<2>>

NoLabels == [k \in {} |-> <<>>]
OneLabel == [k \in {A} |-> B]

LabelSets == {NoLabels} \cup [{A} -> {<<>>, A, B}] \cup [{A, B} -> {<<>>, A}]
             \cup [{AA} -> {<<>>, A}]

Metric(name, labels) == [name |-> name, values |-> <<labels>>]

\* No metric, one without values, two in either order, one named twice.
MetricLists ==
  {<<>>, <<[name |-> A, values |-> <<>>]>>, <<Metric(A, OneLabel)>>,
   <<Metric(A, NoLabels), Metric(B, NoLabels)>>,
   <<Metric(B, NoLabels), Metric(A, NoLabels)>>,
   <<Metric(B, OneLabel), Metric(A, NoLabels)>>,
   <<Metric(A, OneLabel), Metric(A, NoLabels)>>}

RequestValues == [name : {A, AA}, consumer : {<<>>, A}, labels : LabelSets,
                  metrics : MetricLists]

-----------------------------------------------------------------------------
Runs(p, parked) == part = p \/ parked

Init ==
  /\ part \in {"money", "distribution", "operation", "signature", "timer"}
  /\ MoneyInit /\ Runs("money", augend = CHOOSE m \in Amounts : TRUE)
  /\ DistributionInit
  /\ Runs("distribution", distribution = [d \in Names |-> Empty([case |-> "none"])])
  /\ OperationInit /\ Runs("operation", given = <<CHOOSE op \in Operations : TRUE>>)
  /\ SignatureInit
  /\ Runs("signature", cachedRequest = CHOOSE op \in Requests : TRUE)
  /\ TimerInit
  /\ Runs("timer", /\ ~wanted /\ \A c \in Caches : interval[c] = Disabled
                     /\ expiration = CHOOSE x \in Expirations : TRUE)

Next ==
  \/ /\ part = "money" /\ MoneyNext
     /\ UNCHANGED <<part, distributionVars, operationVars, signatureVars, timerVars>>
  \/ /\ part = "distribution" /\ DistributionNext
     /\ UNCHANGED <<part, moneyVars, operationVars, signatureVars, timerVars>>
  \/ /\ part = "operation" /\ OperationNext
     /\ UNCHANGED <<part, moneyVars, distributionVars, signatureVars, timerVars>>
  \/ /\ part = "signature" /\ SignatureNext
     /\ UNCHANGED <<part, moneyVars, distributionVars, operationVars, timerVars>>
  \/ /\ part = "timer" /\ TimerNext
     /\ UNCHANGED <<part, moneyVars, distributionVars, operationVars, signatureVars>>

Spec == Init /\ [][Next]_vars
=============================================================================
