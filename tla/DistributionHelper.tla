------------------------- MODULE DistributionHelper -------------------------
(***************************************************************************)
(* Distributions of samples (src/utils/distribution_helper.cc): how one is *)
(* initialised, how a sample is added, and how one distribution is merged  *)
(* into another, with three ways to divide the samples into buckets.       *)
(*                                                                         *)
(* Two distributions are initialised, given samples, and merged into each  *)
(* other, in any order; which samples each stands for is kept beside it.   *)
(*                                                                         *)
(* Abstractions.  Samples and bounds are integers; means are kept in parts *)
(* of a unit that all means of so many samples are multiples of: rounding  *)
(* is not modelled, but for the one place where it decides what is         *)
(* counted, the quotients that find a bucket.  Infinite and undefined      *)
(* samples, and explicit buckets without bounds, are left out.             *)
(***************************************************************************)
EXTENDS Integers, Sequences, FiniteSets, FiniteSetsExt

CONSTANTS
  BucketOptions, \* arguments of InitExplicit, InitLinear and InitExponential
  Samples,       \* values of samples
  MaxSamples,    \* bound: samples in a distribution
  Parts,         \* parts of a unit that means are kept in
  Precision      \* 1 / epsilon of IsCloseEnough

VARIABLES
  distribution,  \* the two distributions
  sampled        \* history: per distribution, how often each value went in

distributionVars == <<distribution, sampled>>

Names == {"from", "to"}

\* Every mean of at most MaxSamples samples is a whole number of parts.
ASSUME SamplesAssumption ==
  /\ Samples \subseteq Int /\ IsFiniteSet(Samples)
  /\ MaxSamples \in Nat
  /\ Parts \in Nat \ {0}
  /\ \A n \in 1 .. MaxSamples : Parts % n = 0
  /\ Precision \in Nat \ {0}

-----------------------------------------------------------------------------
(* Buckets.  An option is [case, bounds], [case, buckets, width, offset]   *)
(* or [case, buckets, growth, scale]; [case |-> "none"] when it was        *)
(* refused.                                                                *)

\* Bounds are whole numbers, and explicit ones are some: of none the first
\* sample reads the first all the same.
ASSUME OptionsAssumption ==
  \A o \in BucketOptions :
    \/ o.case = "explicit" /\ o.bounds \in Seq(Int) /\ Len(o.bounds) > 0
    \/ o.case = "linear" /\ {o.buckets, o.width, o.offset} \subseteq Int
    \/ o.case = "exponential" /\ {o.buckets, o.growth, o.scale} \subseteq Int

Accepted(o) ==
  CASE o.case = "explicit" ->
         \A i \in 1 .. Len(o.bounds) - 1 : o.bounds[i] < o.bounds[i + 1]
    [] o.case = "linear" -> o.buckets > 0 /\ o.width > 0
    [] o.case = "exponential" -> o.buckets > 0 /\ o.growth > 1 /\ o.scale > 0

\* Counters of an initialised distribution, numbered from 0.
BucketCount(o) ==
  CASE o.case = "explicit" -> Len(o.bounds) + 1
    [] o.case \in {"linear", "exponential"} -> o.buckets + 2
    [] OTHER -> 0

Empty(o) == [option |-> o, count |-> 0, minimum |-> 0, maximum |-> 0,
             mean |-> 0, squares |-> 0,
             buckets |-> [i \in 0 .. BucketCount(o) - 1 |-> 0]]

\* InitExplicit(), InitLinear() or InitExponential() of a new distribution.
Initialized(o) == IF Accepted(o) THEN Empty(o) ELSE Empty([case |-> "none"])

Magnitude(x) == IF x < 0 THEN -x ELSE x

IsCloseEnough(x, y) == Magnitude(x - y) * Precision <= Magnitude(x)

BucketsApproximatelyEqual(first, second) ==
  /\ first.case = second.case
  /\ CASE first.case = "explicit" ->
            /\ Len(first.bounds) = Len(second.bounds)
            /\ \A i \in DOMAIN first.bounds :
                 IsCloseEnough(first.bounds[i], second.bounds[i])
       [] first.case = "linear" ->
            /\ first.buckets = second.buckets
            /\ IsCloseEnough(first.width, second.width)
            /\ IsCloseEnough(first.offset, second.offset)
       [] first.case = "exponential" ->
            /\ first.buckets = second.buckets
            /\ IsCloseEnough(first.growth, second.growth)
            /\ IsCloseEnough(first.scale, second.scale)
       [] OTHER -> FALSE

\* Powers of the growth factor.
Powers(o) ==
  LET power[i \in 0 .. o.buckets] ==
        IF i = 0 THEN 1 ELSE o.growth * power[i - 1]
  IN power

\* The lower bound of bucket i + 1.
Bound(o, i) ==
  CASE o.case = "explicit" -> o.bounds[i + 1]
    [] o.case = "linear" -> o.offset + i * o.width
    [] o.case = "exponential" -> o.scale * Powers(o)[i]

Bounds(o) == 0 .. BucketCount(o) - 2

\* Bounds not above a value: the bucket it belongs to.
Below(o, value) == Cardinality({i \in Bounds(o) : Bound(o, i) <= value})

\* Mutated form: a value on a bound belongs to the bucket under it.
BucketIndexUnder(o, value) ==
  {Cardinality({i \in Bounds(o) : Bound(o, i) < value})}

\* The buckets a value may be counted in.  std::upper_bound finds that of
\* explicit bounds, and the first and last bound of linear buckets are compared
\* with; otherwise the bucket is a quotient rounded down, of doubles or of their
\* logarithms, which for a value on a bound may turn out just too small.
BucketIndex(o, value) ==
  LET found == Below(o, value)
      quotient == CASE o.case = "explicit" -> FALSE
                    [] o.case = "linear" -> found \in 2 .. o.buckets
                    [] o.case = "exponential" -> found > 1
  IN {found} \cup (IF quotient /\ Bound(o, found - 1) = value THEN {found - 1} ELSE {})

-----------------------------------------------------------------------------
Least(x, y) == IF x < y THEN x ELSE y
Most(x, y) == IF x > y THEN x ELSE y

\* UpdateGeneralStatictics(): of the first sample, or of one more.
Counted(d, value) ==
  LET v == value * Parts
      mean == (d.count * d.mean + v) \div (d.count + 1)
  IN IF d.count = 0
     THEN [d EXCEPT !.count = 1, !.minimum = value, !.maximum = value,
                    !.mean = v, !.squares = 0]
     ELSE [d EXCEPT !.count = @ + 1, !.mean = mean,
                    !.minimum = Least(value, @), !.maximum = Most(value, @),
                    !.squares = @ + (v - d.mean) * (v - mean)]

\* Mutated form: the distances of the two means are left out.
MergedPlainly(from, to) ==
  LET count == to.count + from.count
  IN [to EXCEPT !.count = count,
        !.minimum = Least(from.minimum, @), !.maximum = Most(from.maximum, @),
        !.mean = (to.count * @ + from.count * from.mean) \div count,
        !.squares = @ + from.squares,
        !.buckets = [i \in DOMAIN @ |-> @[i] + from.buckets[i]]]

\* Merge() of two distributions with samples.
Merged(from, to) ==
  LET count == to.count + from.count
      mean == (to.count * to.mean + from.count * from.mean) \div count
      Apart(d) == d.count * (mean - d.mean) * (mean - d.mean)
  IN [to EXCEPT !.count = count, !.mean = mean,
        !.minimum = Least(from.minimum, @), !.maximum = Most(from.maximum, @),
        !.squares = @ + from.squares + Apart(to) + Apart(from),
        !.buckets = [i \in DOMAIN @ |-> @[i] + from.buckets[i]]]

\* Samples that went into a distribution.
Total(times) == SumFunctionOnSet(times, Samples)

DistributionInit ==
  /\ distribution \in [Names -> {Initialized(o) : o \in BucketOptions}]
  /\ sampled = [d \in Names |-> [v \in Samples |-> 0]]

\* AddSample(): refused when the distribution was not initialised.
AddSample(d, value) ==
  LET option == distribution[d].option
      counted == Counted(distribution[d], value)
  IN /\ option.case # "none"
     /\ Total(sampled[d]) < MaxSamples
     /\ \E i \in BucketIndex(option, value) :
          distribution' =
            [distribution EXCEPT ![d] = [counted EXCEPT !.buckets[i] = @ + 1]]
     /\ sampled' = [sampled EXCEPT ![d][value] = @ + 1]

\* Merge(): of distributions that match, into one without samples or with some.
Merge(from, to) ==
  LET f == distribution[from]
      t == distribution[to]
  IN /\ BucketsApproximatelyEqual(f.option, t.option)
     /\ BucketCount(f.option) = BucketCount(t.option)
     /\ f.count > 0
     /\ f.count + t.count <= MaxSamples
     /\ distribution' = [distribution EXCEPT
                           ![to] = IF t.count = 0 THEN f ELSE Merged(f, t)]
     /\ sampled' = [sampled EXCEPT
                      ![to] = [v \in Samples |-> @[v] + sampled[from][v]]]

DistributionNext ==
  \/ \E d \in Names, v \in Samples : AddSample(d, v)
  \/ Merge("from", "to") \/ Merge("to", "from")

DistributionSpec == DistributionInit /\ [][DistributionNext]_distributionVars

-----------------------------------------------------------------------------
(* Properties.                                                             *)

SumOf(times) == SumFunctionOnSet([v \in Samples |-> times[v] * v], Samples)

SumOfSquares(times) ==
  SumFunctionOnSet([v \in Samples |-> times[v] * (v * v)], Samples)

\* However samples came in, one by one or by merging in either direction, the
\* summary is that of all of them: number, extremes, mean, and the sum of the
\* squared deviations from the mean.
SummaryExact ==
  \A d \in Names :
    LET s == distribution[d]
        times == sampled[d]
        taken == {v \in Samples : times[v] > 0}
        sum == SumOf(times)
    IN /\ s.count = Total(times)
       /\ taken # {} =>
            /\ s.minimum = Min(taken) /\ s.maximum = Max(taken)
            /\ s.mean * s.count = sum * Parts
            /\ s.squares * s.count =
                 (s.count * SumOfSquares(times) - sum * sum) * Parts * Parts

\* Samples in the buckets from number i on.
CountedFrom(s, i) ==
  SumFunctionOnSet(s.buckets, {j \in DOMAIN s.buckets : j >= i})

\* Samples above a bound, or on it when that counts.
Above(times, bound, strictly) ==
  SumFunctionOnSet(times, {v \in Samples : v > bound \/ (~strictly /\ v = bound)})

\* The buckets count every sample once, on the right side of every bound; a
\* sample that is a bound may be on either side, but for explicit bounds.
BucketsCountSamples ==
  \A d \in Names :
    LET s == distribution[d]
        times == sampled[d]
    IN /\ CountedFrom(s, 0) = Total(times)
       /\ \A i \in Bounds(s.option) :
            CountedFrom(s, i + 1) \in
              Above(times, Bound(s.option, i), s.option.case # "explicit")
                .. Above(times, Bound(s.option, i), FALSE)
=============================================================================
