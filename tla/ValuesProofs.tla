---------------------------- MODULE ValuesProofs ----------------------------
(***************************************************************************)
(* Proofs about the parts without threads: the addition of money for every *)
(* word and every number of nanos in a unit, the 64 bits and the 10^9 of   *)
(* the code among them; the summaries of distributions for any samples;    *)
(* what operations are merged to, for any operations; what signatures tell *)
(* apart, for any requests; and the period of the timer for any intervals. *)
(*                                                                         *)
(* Money: the sum S of the units, the carry c and the nanos r that are     *)
(* left make the exact sum (S + c) * Billion + r.  What the code computes  *)
(* differs from it just when S + c leaves the word, and that it notices.   *)
(*                                                                         *)
(* Distributions: whatever their order, n samples leave n times the mean   *)
(* equal to their sum, and the squared deviations equal to the sum of the  *)
(* squares less n times the square of the mean.  Their bounds rise, so     *)
(* that those not above a sample are the first ones, and the bucket with   *)
(* that number is the one between the right two.                           *)
(*                                                                         *)
(* Merged operations: the values are put into a table one by one, in the   *)
(* order of their places, and each cell of the table holds the sum or the  *)
(* latest of the values at the places that were put into it.               *)
(*                                                                         *)
(* Signatures: the last delimiter of a sequence of bytes says where its    *)
(* last string begins, and so on down to the first; how many strings there *)
(* are of each kind says which of them they are.                           *)
(*                                                                         *)
(* The timer: since it fired last, what is in a cache is no older than the *)
(* interval of the cache and the time that has passed.                     *)
(***************************************************************************)
EXTENDS MoneyUtils, DistributionHelper, OperationAggregator, Signature, FlushTimer,
        SequenceTheorems, SumLemmas

-----------------------------------------------------------------------------
(* Money.                                                                  *)

\* The parts of TryAddMoney().
Units(x, y) == x.units + y.units

Carried(x, y) == Carry(x.nanos + y.nanos)

Rest(x, y) == (x.nanos + y.nanos) - Carried(x, y) * Billion

Word(x, y) == Wrap(Wrap(Units(x, y)) + Carried(x, y))

Sum(x, y) == TryAddMoney(x, y).sum

Status(x, y) == TryAddMoney(x, y).status

-----------------------------------------------------------------------------
(* Arithmetic.                                                             *)

LEMMA Parameters == /\ UnitsMax \in Nat /\ UnitsMax >= 2
                    /\ Billion \in Nat /\ Billion >= 2
  BY MoneyAssumption

LEMMA TimesGrows ==
  ASSUME NEW a \in Int, NEW b \in Int, NEW n \in Nat, a <= b
  PROVE  a * n <= b * n
<1>1. (b - a) * n >= 0
  OBVIOUS
<1>2. (b - a) * n = b * n - a * n
  OBVIOUS
<1>3. a * n \in Int /\ b * n \in Int
  OBVIOUS
<1> QED BY <1>1, <1>2, <1>3

\* Two additions that wrap, one of them of a carry, wrap once or cancel.
LEMMA WordOf ==
  ASSUME NEW s \in Int, 2 * UnitsMin <= s, s <= 2 * UnitsMax, NEW c \in -1 .. 1
  PROVE  /\ Wrap(Wrap(s) + c) \in UnitsMin .. UnitsMax
         /\ Wrap(Wrap(s) + c) =
              IF s + c > UnitsMax THEN s + c - 2 * (UnitsMax + 1)
              ELSE IF s + c < UnitsMin THEN s + c + 2 * (UnitsMax + 1)
              ELSE s + c
  BY Parameters DEF Wrap, UnitsMin

\* What agreeing the signs does to the number: nothing.
LEMMA SignsAgreeKeeps ==
  ASSUME NEW u \in Int, NEW r \in Int, -Billion < r, r < Billion
  PROVE  /\ SignsAgree(u, r)[1] \in Int /\ SignsAgree(u, r)[2] \in Int
         /\ -Billion < SignsAgree(u, r)[2] /\ SignsAgree(u, r)[2] < Billion
         /\ ~(SignsAgree(u, r)[1] > 0 /\ SignsAgree(u, r)[2] < 0)
         /\ ~(SignsAgree(u, r)[1] < 0 /\ SignsAgree(u, r)[2] > 0)
         /\ SignsAgree(u, r)[1] * Billion + SignsAgree(u, r)[2] = u * Billion + r
<1>0. /\ (u - 1) * Billion = u * Billion - Billion
      /\ (u + 1) * Billion = u * Billion + Billion
      /\ u * Billion \in Int
  BY Parameters
<1>1. CASE u > 0 /\ r < 0
  <2>1. SignsAgree(u, r) = <<u - 1, r + Billion>>
    BY <1>1 DEF SignsAgree
  <2> QED BY <1>0, <1>1, <2>1, Parameters
<1>2. CASE u < 0 /\ r > 0
  <2>1. SignsAgree(u, r) = <<u + 1, r - Billion>>
    BY <1>2 DEF SignsAgree
  <2> QED BY <1>0, <1>2, <2>1, Parameters
<1>3. CASE ~(u > 0 /\ r < 0) /\ ~(u < 0 /\ r > 0)
  <2>1. SignsAgree(u, r) = <<u, r>>
    BY <1>3 DEF SignsAgree
  <2> QED BY <1>0, <1>3, <2>1, Parameters
<1> QED BY <1>1, <1>2, <1>3

-----------------------------------------------------------------------------
(* The parts of one addition.                                              *)

LEMMA Operands ==
  ASSUME NEW x \in Amounts
  PROVE  /\ x.units \in Int /\ UnitsMin <= x.units /\ x.units <= UnitsMax
         /\ x.nanos \in Int /\ -Billion < x.nanos /\ x.nanos < Billion
         /\ x.units > 0 => x.nanos >= 0
         /\ x.units < 0 => x.nanos <= 0
         /\ x.currency \in Currencies
  BY Parameters DEF Amounts, Money, ValidMoney, UnitsMin

LEMMA WordParts ==
  ASSUME NEW x \in Amounts, NEW y \in Amounts
  PROVE  /\ Units(x, y) \in Int /\ Rest(x, y) \in Int
         /\ 2 * UnitsMin <= Units(x, y) /\ Units(x, y) <= 2 * UnitsMax
         /\ Carried(x, y) \in -1 .. 1
         /\ -Billion < Rest(x, y) /\ Rest(x, y) < Billion
         /\ Carried(x, y) = 1 => x.nanos > 0 /\ y.nanos > 0 /\ Rest(x, y) >= 0
         /\ Carried(x, y) = -1 => x.nanos < 0 /\ y.nanos < 0 /\ Rest(x, y) <= 0
         /\ Carried(x, y) = 0 => Rest(x, y) = x.nanos + y.nanos
<1>1. /\ x.nanos + y.nanos >= Billion =>
           Carried(x, y) = 1 /\ Rest(x, y) = x.nanos + y.nanos - Billion
      /\ x.nanos + y.nanos <= -Billion =>
           Carried(x, y) = -1 /\ Rest(x, y) = x.nanos + y.nanos + Billion
      /\ -Billion < x.nanos + y.nanos /\ x.nanos + y.nanos < Billion =>
           Carried(x, y) = 0 /\ Rest(x, y) = x.nanos + y.nanos
  BY Operands, Parameters DEF Carried, Rest, Carry
<1>2. /\ Units(x, y) \in Int
      /\ 2 * UnitsMin <= Units(x, y) /\ Units(x, y) <= 2 * UnitsMax
  BY Operands, Parameters DEF Units, UnitsMin
<1> QED BY <1>1, <1>2, Operands, Parameters

\* The exact sum, of the parts.
LEMMA WordPartsSum ==
  ASSUME NEW x \in Amounts, NEW y \in Amounts
  PROVE  Amount(x) + Amount(y) =
           (Units(x, y) + Carried(x, y)) * Billion + Rest(x, y)
<1>1. (x.units + y.units) * Billion = x.units * Billion + y.units * Billion
  BY Operands, Parameters
<1>2. (Units(x, y) + Carried(x, y)) * Billion =
        Units(x, y) * Billion + Carried(x, y) * Billion
  BY WordParts, Parameters
<1>3. /\ x.units * Billion \in Int /\ y.units * Billion \in Int
      /\ Carried(x, y) * Billion \in Int
  BY Operands, WordParts, Parameters
<1> QED BY <1>1, <1>2, <1>3, Operands DEF Amount, Units, Rest

\* TryAddMoney(), in terms of its parts.
LEMMA Added ==
  ASSUME NEW x \in Amounts, NEW y \in Amounts
  PROVE  /\ x.currency # y.currency =>
              /\ Sum(x, y) = Result(NoCurrency, 0, 0)
              /\ Status(x, y) = "INVALID_ARGUMENT"
         /\ x.currency = y.currency =>
              /\ PositiveOverflow(x, y, SumFields(x, y)[1]) =>
                   /\ Sum(x, y) = Saturated(x.currency, 1)
                   /\ Status(x, y) = "OUT_OF_RANGE"
              /\ /\ ~PositiveOverflow(x, y, SumFields(x, y)[1])
                 /\ NegativeOverflow(x, y, Wrap(Units(x, y)), SumFields(x, y)[1])
                 => /\ Sum(x, y) = Saturated(x.currency, -1)
                    /\ Status(x, y) = "OUT_OF_RANGE"
              /\ /\ ~PositiveOverflow(x, y, SumFields(x, y)[1])
                 /\ ~NegativeOverflow(x, y, Wrap(Units(x, y)), SumFields(x, y)[1])
                 => /\ Sum(x, y) = Result(x.currency, SumFields(x, y)[1], SumFields(x, y)[2])
                    /\ Status(x, y) = "OK"
<1>1. CASE x.currency # y.currency
  <2>1. TryAddMoney(x, y) =
          [sum |-> Result(NoCurrency, 0, 0), status |-> "INVALID_ARGUMENT"]
    BY <1>1, Zenon DEF TryAddMoney
  <2> QED BY <1>1, <2>1 DEF Sum, Status
<1>2. CASE x.currency = y.currency /\ PositiveOverflow(x, y, SumFields(x, y)[1])
  <2>1. TryAddMoney(x, y) =
          [sum |-> Saturated(x.currency, 1), status |-> "OUT_OF_RANGE"]
    BY <1>2, Zenon DEF TryAddMoney
  <2> QED BY <1>2, <2>1 DEF Sum, Status
<1>3. CASE /\ x.currency = y.currency
           /\ ~PositiveOverflow(x, y, SumFields(x, y)[1])
           /\ NegativeOverflow(x, y, Wrap(Units(x, y)), SumFields(x, y)[1])
  <2>1. TryAddMoney(x, y) =
          [sum |-> Saturated(x.currency, -1), status |-> "OUT_OF_RANGE"]
    BY <1>3, Zenon DEF TryAddMoney, Units
  <2> QED BY <1>3, <2>1 DEF Sum, Status
<1>4. CASE /\ x.currency = y.currency
           /\ ~PositiveOverflow(x, y, SumFields(x, y)[1])
           /\ ~NegativeOverflow(x, y, Wrap(Units(x, y)), SumFields(x, y)[1])
  <2>1. TryAddMoney(x, y) =
          [sum |-> Result(x.currency, SumFields(x, y)[1], SumFields(x, y)[2]),
           status |-> "OK"]
    BY <1>4, Zenon DEF TryAddMoney, Units
  <2> QED BY <1>4, <2>1 DEF Sum, Status
<1> QED BY <1>1, <1>2, <1>3, <1>4

\* The fields, of the word and the rest.
LEMMA FieldsAgree ==
  ASSUME NEW x, NEW y
  PROVE  SumFields(x, y) = SignsAgree(Word(x, y), Rest(x, y))
  BY DEF SumFields, Word, Rest, Carried, Units

\* The word holds S + c unless that leaves it, and then the fields have passed
\* to the other sign.
LEMMA FieldsOf ==
  ASSUME NEW x \in Amounts, NEW y \in Amounts
  PROVE  /\ Word(x, y) \in UnitsMin .. UnitsMax
         /\ SumFields(x, y)[1] \in UnitsMin .. UnitsMax
         /\ SumFields(x, y)[2] \in Int
         /\ SumFields(x, y)[1] = 
              IF Word(x, y) > 0 /\ Rest(x, y) < 0 THEN Word(x, y) - 1
              ELSE IF Word(x, y) < 0 /\ Rest(x, y) > 0 THEN Word(x, y) + 1
              ELSE Word(x, y)
<1>1. Word(x, y) \in UnitsMin .. UnitsMax
  BY WordParts, WordOf DEF Word
<1>2. SumFields(x, y)[1] =
        IF Word(x, y) > 0 /\ Rest(x, y) < 0 THEN Word(x, y) - 1
        ELSE IF Word(x, y) < 0 /\ Rest(x, y) > 0 THEN Word(x, y) + 1
        ELSE Word(x, y)
  BY FieldsAgree DEF SignsAgree
<1>3. SumFields(x, y)[2] \in Int
  <2>1. Word(x, y) \in Int
    BY <1>1, Parameters DEF UnitsMin
  <2> QED BY <2>1, WordParts, SignsAgreeKeeps, FieldsAgree
<1> QED BY <1>1, <1>2, <1>3, Parameters DEF UnitsMin

LEMMA SignOf ==
  ASSUME NEW x \in Amounts
  PROVE  /\ GetAmountSign(x) > 0 <=> x.units > 0 \/ (x.units = 0 /\ x.nanos > 0)
         /\ GetAmountSign(x) < 0 <=> x.units < 0 \/ (x.units = 0 /\ x.nanos < 0)
  BY Operands DEF GetAmountSign

\* A sum above the word is noticed, ...
LEMMA AboveNoticed ==
  ASSUME NEW x \in Amounts, NEW y \in Amounts,
         Units(x, y) + Carried(x, y) > UnitsMax
  PROVE  PositiveOverflow(x, y, SumFields(x, y)[1])
<1>1. /\ x.units \in Int /\ y.units \in Int
      /\ x.units <= UnitsMax /\ y.units <= UnitsMax
      /\ Units(x, y) = x.units + y.units
  BY Operands DEF Units
<1>2. Carried(x, y) # -1
  <2> SUFFICES ASSUME Carried(x, y) = -1 PROVE FALSE
    OBVIOUS
  <2>1. x.nanos < 0 /\ y.nanos < 0
    BY WordParts
  <2>2. x.units <= 0 /\ y.units <= 0
    BY <2>1, Operands
  <2> QED BY <1>1, <2>2, Parameters
<1>3. GetAmountSign(x) > 0 /\ GetAmountSign(y) > 0 /\ Rest(x, y) >= 0
  <2>1. CASE Carried(x, y) = 1
    <3>1. x.nanos > 0 /\ y.nanos > 0 /\ Rest(x, y) >= 0
      BY <2>1, WordParts
    <3>2. x.units >= 0 /\ y.units >= 0
      BY <3>1, Operands
    <3> QED BY <3>1, <3>2, <1>1, SignOf
  <2>2. CASE Carried(x, y) = 0
    <3>1. x.units > 0 /\ y.units > 0
      BY <1>1, <2>2, Parameters
    <3>2. x.nanos >= 0 /\ y.nanos >= 0 /\ x.nanos \in Int /\ y.nanos \in Int
      BY <3>1, Operands
    <3>3. Rest(x, y) >= 0
      BY <2>2, <3>2, WordParts
    <3> QED BY <3>1, <3>3, SignOf
  <2> QED BY <1>2, <2>1, <2>2, WordParts
<1>4. Word(x, y) = Units(x, y) + Carried(x, y) - 2 * (UnitsMax + 1)
  BY WordParts, WordOf DEF Word
<1>5. Word(x, y) < 0
  BY <1>1, <1>4, WordParts, Parameters
<1>6. SumFields(x, y)[1] <= 0
  BY <1>3, <1>5, FieldsOf, Parameters DEF UnitsMin
<1> QED BY <1>3, <1>6 DEF PositiveOverflow

\* ... and one below it.
LEMMA BelowNoticed ==
  ASSUME NEW x \in Amounts, NEW y \in Amounts,
         Units(x, y) + Carried(x, y) < UnitsMin
  PROVE  /\ NegativeOverflow(x, y, Wrap(Units(x, y)), SumFields(x, y)[1])
         /\ ~PositiveOverflow(x, y, SumFields(x, y)[1])
<1>1. /\ x.units \in Int /\ y.units \in Int
      /\ x.units >= UnitsMin /\ y.units >= UnitsMin
      /\ Units(x, y) = x.units + y.units
  BY Operands DEF Units
<1>2. Carried(x, y) # 1
  <2> SUFFICES ASSUME Carried(x, y) = 1 PROVE FALSE
    OBVIOUS
  <2>1. x.nanos > 0 /\ y.nanos > 0
    BY WordParts
  <2>2. x.units >= 0 /\ y.units >= 0
    BY <2>1, Operands
  <2> QED BY <1>1, <2>2, Parameters DEF UnitsMin
<1>3. GetAmountSign(x) < 0 /\ GetAmountSign(y) < 0 /\ Rest(x, y) <= 0
  <2>1. CASE Carried(x, y) = -1
    <3>1. x.nanos < 0 /\ y.nanos < 0 /\ Rest(x, y) <= 0
      BY <2>1, WordParts
    <3>2. x.units <= 0 /\ y.units <= 0
      BY <3>1, Operands
    <3> QED BY <3>1, <3>2, <1>1, SignOf
  <2>2. CASE Carried(x, y) = 0
    <3>1. x.units < 0 /\ y.units < 0
      BY <1>1, <2>2, Parameters DEF UnitsMin
    <3>2. x.nanos <= 0 /\ y.nanos <= 0 /\ x.nanos \in Int /\ y.nanos \in Int
      BY <3>1, Operands
    <3>3. Rest(x, y) <= 0
      BY <2>2, <3>2, WordParts
    <3> QED BY <3>1, <3>3, SignOf
  <2> QED BY <1>2, <2>1, <2>2, WordParts
<1>4. Wrap(Units(x, y)) >= 0 \/ SumFields(x, y)[1] >= 0
  <2>1. CASE Units(x, y) < UnitsMin
    BY <1>1, <2>1, Parameters DEF Wrap, UnitsMin
  <2>2. CASE Units(x, y) = UnitsMin /\ Carried(x, y) = -1
    <3>1. Word(x, y) = UnitsMax
      BY <2>2, WordOf, WordParts, Parameters DEF Word, UnitsMin
    <3> QED BY <1>3, <3>1, FieldsOf, Parameters
  <2> QED BY <1>1, <1>2, <2>1, <2>2, WordParts, Parameters DEF UnitsMin
<1>5. ~(GetAmountSign(x) > 0)
  BY <1>3, SignOf, Operands
<1> QED BY <1>3, <1>4, <1>5 DEF NegativeOverflow, PositiveOverflow

\* With units in an operand nothing else is taken for an overflow.
LEMMA NothingElseNoticed ==
  ASSUME NEW x \in Amounts, NEW y \in Amounts, x.units # 0 \/ y.units # 0,
         UnitsMin <= Units(x, y) + Carried(x, y),
         Units(x, y) + Carried(x, y) <= UnitsMax
  PROVE  /\ ~PositiveOverflow(x, y, SumFields(x, y)[1])
         /\ ~NegativeOverflow(x, y, Wrap(Units(x, y)), SumFields(x, y)[1])
<1>1. Word(x, y) = Units(x, y) + Carried(x, y)
  BY WordParts, WordOf, Parameters DEF Word, UnitsMin
<1>2. x.units \in Int /\ y.units \in Int /\ Units(x, y) = x.units + y.units
  BY Operands DEF Units
<1>3. ASSUME GetAmountSign(x) > 0, GetAmountSign(y) > 0
      PROVE  SumFields(x, y)[1] > 0
  <2>1. x.units >= 0 /\ x.nanos >= 0 /\ y.units >= 0 /\ y.nanos >= 0
    BY <1>3, SignOf, Operands
  <2>2. Carried(x, y) # -1
    BY <2>1, WordParts, Operands
  <2>3. Word(x, y) > 0
    BY <1>1, <1>2, <2>1, <2>2, WordParts
  <2>4. Rest(x, y) >= 0
    BY <2>1, <2>2, WordParts, Operands
  <2> QED BY <2>3, <2>4, FieldsOf, WordParts
<1>4. ASSUME GetAmountSign(x) < 0, GetAmountSign(y) < 0
      PROVE  SumFields(x, y)[1] < 0 /\ Wrap(Units(x, y)) < 0
  <2>1. x.units <= 0 /\ x.nanos <= 0 /\ y.units <= 0 /\ y.nanos <= 0
    BY <1>4, SignOf, Operands
  <2>2. Carried(x, y) # 1
    BY <2>1, WordParts, Operands
  <2>3. Word(x, y) < 0
    BY <1>1, <1>2, <2>1, <2>2, WordParts
  <2>4. Rest(x, y) <= 0
    BY <2>1, <2>2, WordParts, Operands
  <2>5. SumFields(x, y)[1] < 0
    BY <2>3, <2>4, FieldsOf, WordParts
  <2>6. Units(x, y) < 0 /\ UnitsMin <= Units(x, y)
    BY <1>2, <2>1, <2>2, WordParts, Parameters DEF UnitsMin
  <2> QED BY <2>5, <2>6, WordParts, Parameters DEF Wrap, UnitsMin
<1>5. SumFields(x, y)[1] \in Int
  BY FieldsOf, Parameters DEF UnitsMin
<1>6. Wrap(Units(x, y)) \in Int
  BY WordParts, Parameters DEF Wrap, UnitsMin
<1>7. ~PositiveOverflow(x, y, SumFields(x, y)[1])
  BY <1>3, <1>5 DEF PositiveOverflow
<1> QED BY <1>4, <1>5, <1>6, <1>7 DEF NegativeOverflow

-----------------------------------------------------------------------------
(* The sum of one addition.                                                *)

LEMMA Ends ==
  ASSUME NEW cur
  PROVE  /\ Amount(Saturated(cur, 1)) = Largest
         /\ Amount(Saturated(cur, -1)) = Smallest
         /\ ValidMoney(Saturated(cur, 1)) /\ ValidMoney(Saturated(cur, -1))
         /\ Saturated(cur, 1) \in [currency : {cur}, units : UnitsMin .. UnitsMax,
                                   nanos : (-Billion + 1) .. (Billion - 1)]
         /\ Saturated(cur, -1) \in [currency : {cur}, units : UnitsMin .. UnitsMax,
                                    nanos : (-Billion + 1) .. (Billion - 1)]
<1>1. /\ Saturated(cur, 1) =
           [currency |-> cur, units |-> UnitsMax, nanos |-> Billion - 1]
      /\ Saturated(cur, -1) =
           [currency |-> cur, units |-> UnitsMin, nanos |-> -Billion + 1]
  BY DEF Saturated, Result
<1>2. /\ UnitsMax * Billion \in Int /\ UnitsMin * Billion \in Int
  BY Parameters DEF UnitsMin
<1>3. /\ Amount(Saturated(cur, 1)) = Largest
      /\ Amount(Saturated(cur, -1)) = Smallest
  BY <1>1, <1>2, Parameters DEF Amount, Largest, Smallest
<1>4. ValidMoney(Saturated(cur, 1)) /\ ValidMoney(Saturated(cur, -1))
  BY <1>1, Parameters DEF ValidMoney, UnitsMin
<1> QED BY <1>1, <1>3, <1>4, Parameters DEF UnitsMin

\* The sum is too large, too small or neither just when S + c is.
LEMMA WhenTooLarge ==
  ASSUME NEW x \in Amounts, NEW y \in Amounts
  PROVE  /\ Amount(x) + Amount(y) > Largest =>
              Units(x, y) + Carried(x, y) > UnitsMax
         /\ Units(x, y) + Carried(x, y) > UnitsMax =>
              (Rest(x, y) >= 0 => Amount(x) + Amount(y) > Largest)
         /\ Amount(x) + Amount(y) < Smallest =>
              Units(x, y) + Carried(x, y) < UnitsMin
         /\ Units(x, y) + Carried(x, y) < UnitsMin =>
              (Rest(x, y) <= 0 => Amount(x) + Amount(y) < Smallest)
<1> DEFINE w == Units(x, y) + Carried(x, y)
<1>1. /\ w \in Int /\ Rest(x, y) \in Int
      /\ -Billion < Rest(x, y) /\ Rest(x, y) < Billion
      /\ Amount(x) + Amount(y) = w * Billion + Rest(x, y)
  BY WordParts, WordPartsSum
<1> HIDE DEF w
<1>2. /\ w * Billion \in Int /\ UnitsMax * Billion \in Int
      /\ UnitsMin * Billion \in Int
      /\ (UnitsMax + 1) * Billion = UnitsMax * Billion + Billion
      /\ (UnitsMin - 1) * Billion = UnitsMin * Billion - Billion
  BY <1>1, Parameters DEF UnitsMin
<1>3. /\ w <= UnitsMax => w * Billion <= UnitsMax * Billion
      /\ w > UnitsMax => w * Billion >= UnitsMax * Billion + Billion
  <2>1. CASE w <= UnitsMax
    BY <2>1, <1>1, TimesGrows, Parameters
  <2>2. CASE w > UnitsMax
    <3>1. UnitsMax + 1 <= w /\ UnitsMax + 1 \in Int
      BY <2>2, <1>1, Parameters
    <3>2. (UnitsMax + 1) * Billion <= w * Billion
      BY <3>1, <1>1, TimesGrows, Parameters
    <3> QED BY <3>2, <1>2, <2>2, <1>1, Parameters
  <2> QED BY <2>1, <2>2, <1>1, Parameters
<1>4. /\ w >= UnitsMin => w * Billion >= UnitsMin * Billion
      /\ w < UnitsMin => w * Billion <= UnitsMin * Billion - Billion
  <2>0. UnitsMin \in Int
    BY Parameters DEF UnitsMin
  <2>1. CASE w >= UnitsMin
    BY <2>0, <2>1, <1>1, TimesGrows, Parameters
  <2>2. CASE w < UnitsMin
    <3>1. w <= UnitsMin - 1 /\ UnitsMin - 1 \in Int
      BY <2>0, <2>2, <1>1
    <3>2. w * Billion <= (UnitsMin - 1) * Billion
      BY <3>1, <1>1, TimesGrows, Parameters
    <3> QED BY <3>2, <1>2, <2>0, <2>2, <1>1, Parameters
  <2> QED BY <2>0, <2>1, <2>2, <1>1
<1>5. UnitsMin \in Int
  BY Parameters DEF UnitsMin
<1>6. /\ Amount(x) + Amount(y) > Largest => w > UnitsMax
      /\ w > UnitsMax => (Rest(x, y) >= 0 => Amount(x) + Amount(y) > Largest)
  BY <1>1, <1>2, <1>3, <1>5, Parameters DEF Largest
<1>7. /\ Amount(x) + Amount(y) < Smallest => w < UnitsMin
      /\ w < UnitsMin => (Rest(x, y) <= 0 => Amount(x) + Amount(y) < Smallest)
  BY <1>1, <1>2, <1>4, <1>5, Parameters DEF Smallest
<1> QED BY <1>6, <1>7 DEF w

\* When nothing is noticed, the fields are the exact sum.
LEMMA FieldsExact ==
  ASSUME NEW x \in Amounts, NEW y \in Amounts,
         ~PositiveOverflow(x, y, SumFields(x, y)[1]),
         ~NegativeOverflow(x, y, Wrap(Units(x, y)), SumFields(x, y)[1])
  PROVE  SumFields(x, y)[1] * Billion + SumFields(x, y)[2] = Amount(x) + Amount(y)
<1>1. /\ UnitsMin <= Units(x, y) + Carried(x, y)
      /\ Units(x, y) + Carried(x, y) <= UnitsMax
  BY AboveNoticed, BelowNoticed, WordParts, Parameters DEF UnitsMin
<1>2. Word(x, y) = Units(x, y) + Carried(x, y)
  BY <1>1, WordParts, WordOf, Parameters DEF Word, UnitsMin
<1>3. Word(x, y) \in Int
  BY <1>2, WordParts
<1>4. SumFields(x, y)[1] * Billion + SumFields(x, y)[2] =
        Word(x, y) * Billion + Rest(x, y)
  BY <1>3, FieldsAgree, SignsAgreeKeeps, WordParts
<1> QED BY <1>2, <1>4, WordPartsSum

\* An addition returns an amount of the currency of its operands, or nothing.
LEMMA SumIsMoney ==
  ASSUME NEW x \in Amounts, NEW y \in Amounts
  PROVE  /\ Sum(x, y) \in Money /\ ValidMoney(Sum(x, y))
         /\ Status(x, y) \in {"OK", "OUT_OF_RANGE", "INVALID_ARGUMENT"}
         /\ Sum(x, y).currency = NoCurrency <=> Status(x, y) = "INVALID_ARGUMENT"
<1>0. x.currency # NoCurrency /\ x.currency \in Currencies
  BY Operands, MoneyAssumption
<1>1. CASE x.currency # y.currency
  BY <1>1, Added, Parameters DEF Result, Money, ValidMoney, UnitsMin
<1>2. CASE /\ x.currency = y.currency
           /\ PositiveOverflow(x, y, SumFields(x, y)[1])
  <2>1. Sum(x, y) = Saturated(x.currency, 1) /\ Status(x, y) = "OUT_OF_RANGE"
    BY <1>2, Added
  <2> QED BY <1>0, <2>1, Ends DEF Money
<1>3. CASE /\ x.currency = y.currency
           /\ ~PositiveOverflow(x, y, SumFields(x, y)[1])
           /\ NegativeOverflow(x, y, Wrap(Units(x, y)), SumFields(x, y)[1])
  <2>1. Sum(x, y) = Saturated(x.currency, -1) /\ Status(x, y) = "OUT_OF_RANGE"
    BY <1>3, Added
  <2> QED BY <1>0, <2>1, Ends DEF Money
<1>4. CASE /\ x.currency = y.currency
           /\ ~PositiveOverflow(x, y, SumFields(x, y)[1])
           /\ ~NegativeOverflow(x, y, Wrap(Units(x, y)), SumFields(x, y)[1])
  <2>1. /\ Sum(x, y) = [currency |-> x.currency, units |-> SumFields(x, y)[1],
                        nanos |-> SumFields(x, y)[2]]
        /\ Status(x, y) = "OK"
    BY <1>4, Added DEF Result
  <2>2. Word(x, y) \in Int
    BY FieldsOf, Parameters DEF UnitsMin
  <2>3. /\ -Billion < SumFields(x, y)[2] /\ SumFields(x, y)[2] < Billion
        /\ ~(SumFields(x, y)[1] > 0 /\ SumFields(x, y)[2] < 0)
        /\ ~(SumFields(x, y)[1] < 0 /\ SumFields(x, y)[2] > 0)
    BY <2>2, FieldsAgree, SignsAgreeKeeps, WordParts
  <2>4. SumFields(x, y)[2] \in (-Billion + 1) .. (Billion - 1)
    BY <2>3, FieldsOf, Parameters
  <2>5. SumFields(x, y)[1] \in UnitsMin .. UnitsMax
    BY FieldsOf
  <2>6. Sum(x, y) \in Money
    BY <1>0, <2>1, <2>4, <2>5 DEF Money
  <2>7. ValidMoney(Sum(x, y))
    BY <2>1, <2>3 DEF ValidMoney
  <2> QED BY <1>0, <2>1, <2>6, <2>7
<1> QED BY <1>1, <1>2, <1>3, <1>4

\* An addition that returns OK is exact, ...
LEMMA OkIsExact ==
  ASSUME NEW x \in Amounts, NEW y \in Amounts, Status(x, y) = "OK"
  PROVE  Amount(Sum(x, y)) = Amount(x) + Amount(y)
<1>1. /\ x.currency = y.currency
      /\ ~PositiveOverflow(x, y, SumFields(x, y)[1])
      /\ ~NegativeOverflow(x, y, Wrap(Units(x, y)), SumFields(x, y)[1])
  BY Added
<1>2. Sum(x, y) = [currency |-> x.currency, units |-> SumFields(x, y)[1],
                   nanos |-> SumFields(x, y)[2]]
  BY <1>1, Added DEF Result
<1> QED BY <1>1, <1>2, FieldsExact DEF Amount

\* ... and one that cannot be is noticed, and nothing else with units is.
LEMMA Noticed ==
  ASSUME NEW x \in Amounts, NEW y \in Amounts, x.currency = y.currency
  PROVE  /\ Amount(x) + Amount(y) > Largest =>
              Status(x, y) = "OUT_OF_RANGE" /\ Amount(Sum(x, y)) = Largest
         /\ Amount(x) + Amount(y) < Smallest =>
              Status(x, y) = "OUT_OF_RANGE" /\ Amount(Sum(x, y)) = Smallest
         /\ Status(x, y) = "OUT_OF_RANGE" /\ (x.units # 0 \/ y.units # 0) =>
              \/ Amount(x) + Amount(y) > Largest
              \/ Amount(x) + Amount(y) < Smallest
<1>1. ASSUME Amount(x) + Amount(y) > Largest
      PROVE  Status(x, y) = "OUT_OF_RANGE" /\ Amount(Sum(x, y)) = Largest
  <2>1. PositiveOverflow(x, y, SumFields(x, y)[1])
    BY <1>1, WhenTooLarge, AboveNoticed
  <2>2. Sum(x, y) = Saturated(x.currency, 1) /\ Status(x, y) = "OUT_OF_RANGE"
    BY <2>1, Added
  <2> QED BY <2>2, Ends
<1>2. ASSUME Amount(x) + Amount(y) < Smallest
      PROVE  Status(x, y) = "OUT_OF_RANGE" /\ Amount(Sum(x, y)) = Smallest
  <2>1. /\ NegativeOverflow(x, y, Wrap(Units(x, y)), SumFields(x, y)[1])
        /\ ~PositiveOverflow(x, y, SumFields(x, y)[1])
    BY <1>2, WhenTooLarge, BelowNoticed
  <2>2. Sum(x, y) = Saturated(x.currency, -1) /\ Status(x, y) = "OUT_OF_RANGE"
    BY <2>1, Added
  <2> QED BY <2>2, Ends
<1>3. ASSUME Status(x, y) = "OUT_OF_RANGE", x.units # 0 \/ y.units # 0
      PROVE  Amount(x) + Amount(y) > Largest \/ Amount(x) + Amount(y) < Smallest
  <2>1. \/ PositiveOverflow(x, y, SumFields(x, y)[1])
        \/ NegativeOverflow(x, y, Wrap(Units(x, y)), SumFields(x, y)[1])
    BY <1>3, Added
  <2>2. \/ Units(x, y) + Carried(x, y) > UnitsMax
        \/ Units(x, y) + Carried(x, y) < UnitsMin
    BY <1>3, <2>1, NothingElseNoticed, WordParts, Parameters DEF UnitsMin
  <2>3. CASE Units(x, y) + Carried(x, y) > UnitsMax
    <3>1. PositiveOverflow(x, y, SumFields(x, y)[1])
      BY <2>3, AboveNoticed
    <3>2. Rest(x, y) >= 0
      <4>1. x.units >= 0 /\ x.nanos >= 0 /\ y.units >= 0 /\ y.nanos >= 0
        BY <3>1, SignOf, Operands DEF PositiveOverflow
      <4> QED BY <4>1, WordParts, Operands
    <3> QED BY <2>3, <3>2, WhenTooLarge
  <2>4. CASE Units(x, y) + Carried(x, y) < UnitsMin
    <3>1. NegativeOverflow(x, y, Wrap(Units(x, y)), SumFields(x, y)[1])
      BY <2>4, BelowNoticed
    <3>2. Rest(x, y) <= 0
      <4>1. x.units <= 0 /\ x.nanos <= 0 /\ y.units <= 0 /\ y.nanos <= 0
        BY <3>1, SignOf, Operands DEF NegativeOverflow
      <4> QED BY <4>1, WordParts, Operands
    <3> QED BY <2>4, <3>2, WhenTooLarge
  <2> QED BY <2>2, <2>3, <2>4
<1> QED BY <1>1, <1>2, <1>3

-----------------------------------------------------------------------------
(* A running total.                                                        *)

MoneyInv == MoneyTypeOK /\ AdditionExact /\ OverflowDetected

\* The total can be an operand unless it was cleared.
LEMMA TotalIsAmount == MoneyInv /\ total.currency # NoCurrency => total \in Amounts
  BY DEF MoneyInv, MoneyTypeOK, AdditionExact, Amounts

LEMMA AddKeeps ==
  ASSUME NEW x \in Amounts, NEW y \in Amounts, AddMoney(x, y)
  PROVE  MoneyInv'
<1>1. /\ augend' = x /\ addend' = y
      /\ total' = Sum(x, y) /\ addition' = Status(x, y)
  BY DEF AddMoney, Sum, Status
<1>2. MoneyTypeOK'
  BY <1>1, SumIsMoney DEF MoneyTypeOK
<1>3. AdditionExact'
  BY <1>1, SumIsMoney, OkIsExact DEF AdditionExact, ExactSum
<1>4. OverflowDetected'
  <2> SUFFICES ASSUME Status(x, y) \in {"OK", "OUT_OF_RANGE"}
               PROVE  OverflowDetected'
    BY <1>1 DEF OverflowDetected
  <2>1. x.currency = y.currency
    BY Added
  <2> QED BY <1>1, <2>1, Noticed DEF OverflowDetected, ExactSum
<1> QED BY <1>2, <1>3, <1>4 DEF MoneyInv

LEMMA StartKeeps ==
  ASSUME NEW x \in Amounts, augend' = x, addend' = x, total' = x, addition' = "none"
  PROVE  MoneyInv'
<1>1. x \in Money /\ x.currency # NoCurrency /\ ValidMoney(x)
  BY DEF Amounts
<1> QED BY <1>1 DEF MoneyInv, MoneyTypeOK, AdditionExact, OverflowDetected

LEMMA MoneyStep == MoneyInv /\ [MoneyNext]_moneyVars => MoneyInv'
<1> SUFFICES ASSUME MoneyInv, [MoneyNext]_moneyVars PROVE MoneyInv'
  OBVIOUS
<1>1. ASSUME NEW m \in Amounts, AddMoney(total, m) PROVE MoneyInv'
  BY <1>1, TotalIsAmount, AddKeeps DEF AddMoney
<1>2. ASSUME NEW m \in Amounts, AddMoney(m, total) PROVE MoneyInv'
  BY <1>2, TotalIsAmount, AddKeeps DEF AddMoney
<1>3. ASSUME NEW m \in Amounts, RestartTotal(m) PROVE MoneyInv'
  BY <1>3, StartKeeps DEF RestartTotal
<1>4. CASE UNCHANGED moneyVars
  BY <1>4 DEF moneyVars, MoneyInv, MoneyTypeOK, AdditionExact, OverflowDetected,
              ExactSum
<1> QED BY <1>1, <1>2, <1>3, <1>4 DEF MoneyNext

LEMMA MoneyStart == MoneyInit => MoneyInv
<1> SUFFICES ASSUME MoneyInit PROVE MoneyInv
  OBVIOUS
<1>1. augend \in Money /\ augend.currency # NoCurrency /\ ValidMoney(augend)
  BY DEF MoneyInit, Amounts
<1> QED BY <1>1 DEF MoneyInit, MoneyInv, MoneyTypeOK, AdditionExact, OverflowDetected

\* The inductive invariant of a running total, for any word and any billion: the
\* operands are amounts that validate, and the last addition kept both promises.
THEOREM MoneyInvariance == MoneySpec => []MoneyInv
  BY MoneyStart, MoneyStep, PTL DEF MoneySpec

\* A running total stays an amount that may be added to, and every addition
\* that returns OK is exact, in words of any size and for any billion.
THEOREM AdditionsExact == MoneySpec => []AdditionExact
<1>1. MoneyInv => AdditionExact
  BY DEF MoneyInv
<1> QED BY <1>1, MoneyInvariance, PTL

\* No overflow passes unnoticed, in words of any size, and none is reported
\* that is none when an operand has units.
THEOREM OverflowsDetected == MoneySpec => []OverflowDetected
<1>1. MoneyInv => OverflowDetected
  BY DEF MoneyInv
<1> QED BY <1>1, MoneyInvariance, PTL

-----------------------------------------------------------------------------
(* Distributions.                                                          *)

\* A multiple of n is divided by n without rest.
LEMMA QuotientExact ==
  ASSUME NEW n \in Nat \ {0}, NEW k \in Int
  PROVE  (n * k) \div n = k
<1> DEFINE q == (n * k) \div n
           r == (n * k) % n
           d == k - q
<1>1. /\ q \in Int /\ r \in Int /\ 0 <= r /\ r < n
      /\ n * k = n * q + r
  OBVIOUS
<1> HIDE DEF q, r
<1>2. d \in Int /\ n * d = r
  <2>1. n * (k - q) = n * k - n * q
    BY <1>1
  <2>2. n * k \in Int /\ n * q \in Int
    BY <1>1
  <2> QED BY <1>1, <2>1, <2>2
<1> HIDE DEF d
<1>3. d = 0
  <2>1. CASE d >= 1
    <3>1. n * (d - 1) >= 0 /\ n * (d - 1) = n * d - n
      BY <1>2, <2>1
    <3> QED BY <1>1, <1>2, <3>1
  <2>2. CASE d <= -1
    <3>1. n * (-1 - d) >= 0 /\ n * (-1 - d) = -n - n * d
      BY <1>2, <2>2
    <3> QED BY <1>1, <1>2, <3>1
  <2> QED BY <1>2, <2>1, <2>2
<1>4. k = q
  BY <1>1, <1>3 DEF d
<1> QED BY <1>4 DEF q

\* A mean of no more than MaxSamples samples is a whole number of parts.
LEMMA MeanExact ==
  ASSUME NEW n \in 1 .. MaxSamples, NEW x \in Int
  PROVE  /\ (x * Parts) \div n \in Int
         /\ n * ((x * Parts) \div n) = x * Parts
<1>1. Parts \in Nat /\ Parts % n = 0 /\ n \in Nat \ {0}
  BY SamplesAssumption
<1> DEFINE q == Parts \div n
<1>2. q \in Int /\ Parts = n * q
  BY <1>1
<1> HIDE DEF q
<1>3. x * q \in Int /\ x * Parts = n * (x * q)
  BY <1>1, <1>2
<1> DEFINE k == x * q
<1>4. (n * k) \div n = k
  BY <1>1, <1>3, QuotientExact
<1>5. x * Parts = n * k /\ k \in Int
  BY <1>3
<1> HIDE DEF k
<1> QED BY <1>1, <1>4, <1>5

\* What a sample v adds to the squared deviations when the mean of n samples
\* goes from m to mean.
LEMMA OneMore ==
  ASSUME NEW n \in Int, NEW m \in Int, NEW mean \in Int, NEW v \in Int,
         (n + 1) * mean = n * m + v
  PROVE  (v - m) * (v - mean) - n * (m * m) = v * v - (n + 1) * (mean * mean)
<1>1. v = (n + 1) * mean - n * m
  <2>1. n * m \in Int /\ (n + 1) * mean \in Int
   OBVIOUS
  <2> QED BY <2>1
<1>2. ((n + 1) * mean - n * m - m) * ((n + 1) * mean - n * m - mean) - n * (m * m)
       = ((n + 1) * mean - n * m) * ((n + 1) * mean - n * m) - (n + 1) * (mean * mean)
  OBVIOUS
<1> QED BY <1>1, <1>2

\* What the distances of two means, of n and of k samples, from that of all add.
LEMMA TwoMeans ==
  ASSUME NEW n \in Int, NEW m \in Int, NEW k \in Int, NEW f \in Int, NEW mean \in Int,
         (n + k) * mean = n * m + k * f
  PROVE  n * (mean - m) * (mean - m) + k * (mean - f) * (mean - f)
           - n * (m * m) - k * (f * f) = - ((n + k) * (mean * mean))
<1>1. n * (mean - m) * (mean - m) + k * (mean - f) * (mean - f)
        - n * (m * m) - k * (f * f)
        = (n + k) * (mean * mean) - 2 * (mean * (n * m + k * f))
  OBVIOUS
<1>2. mean * (n * m + k * f) = (n + k) * (mean * mean)
  <2>1. mean * ((n + k) * mean) = (n + k) * (mean * mean)
    OBVIOUS
  <2> QED BY <2>1
<1>3. (n + k) * (mean * mean) \in Int
  OBVIOUS
<1> DEFINE a == (n + k) * (mean * mean)
           b == n * (mean - m) * (mean - m) + k * (mean - f) * (mean - f)
                 - n * (m * m) - k * (f * f)
<1>4. b = a - 2 * a /\ a \in Int
  BY <1>1, <1>2, <1>3
<1> HIDE DEF a, b
<1>5. b = -a
  BY <1>4
<1> QED BY <1>5 DEF a, b

-----------------------------------------------------------------------------
\* The samples are counted as often as they went in.
Times == [Samples -> Nat]

\* The number of samples, their sum, and the sum of their squares.
LEMMA TotalsAreInts ==
  ASSUME NEW times \in Times
  PROVE  /\ Total(times) \in Nat /\ SumOf(times) \in Int
         /\ SumOfSquares(times) \in Int
         /\ \A v \in Samples : times[v] > 0 => Total(times) > 0
<1> DEFINE f == [v \in Samples |-> times[v] * v]
           g == [v \in Samples |-> times[v] * (v * v)]
<1>0. IsFiniteSet(Samples) /\ Samples \subseteq Int
  BY SamplesAssumption
<1>1. \A v \in Samples : times[v] \in Nat /\ f[v] \in Int /\ g[v] \in Int
  BY <1>0 DEF Times
<1> HIDE DEF f, g
<1>2. Total(times) \in Nat
  BY <1>0, <1>1, SumNat DEF Total
<1>3. SumFunctionOnSet(f, Samples) \in Int
  BY <1>0, <1>1, SumInt
<1>4. SumFunctionOnSet(g, Samples) \in Int
  BY <1>0, <1>1, SumInt
<1>5. ASSUME NEW v \in Samples, times[v] > 0 PROVE Total(times) > 0
  <2> DEFINE none == {}
  <2>1. none \in SUBSET Samples /\ v \in Samples \ none
    OBVIOUS
  <2>2. SumFunctionOnSet(times, none) = 0
    BY SumEmpty
  <2> HIDE DEF none
  <2>3. SumFunctionOnSet(times, none) + times[v] <= Total(times)
    BY <1>0, <1>1, <2>1, SumGrows DEF Total
  <2> QED BY <1>1, <1>2, <1>5, <2>2, <2>3
<1> QED BY <1>2, <1>3, <1>4, <1>5 DEF SumOf, SumOfSquares, f, g

\* A sample comes in once more.
LEMMA TotalsOfOneMore ==
  ASSUME NEW times \in Times, NEW value \in Samples, NEW more \in Times,
         more[value] = times[value] + 1,
         \A v \in Samples \ {value} : more[v] = times[v]
  PROVE  /\ Total(more) = Total(times) + 1
         /\ SumOf(more) = SumOf(times) + value
         /\ SumOfSquares(more) = SumOfSquares(times) + value * value
<1>0. Samples \subseteq Int
  BY SamplesAssumption
<1>f. IsFiniteSet(Samples)
  BY SamplesAssumption
<1>1. /\ \A v \in Samples : times[v] \in Int /\ more[v] \in Int
      /\ times \in [Samples -> Int] /\ more \in [Samples -> Int]
  BY DEF Times
<1>2. Total(more) = Total(times) + 1
  <2>1. Total(more) = Total(times) - times[value] + more[value]
    BY <1>f, <1>1, SumChanges DEF Total
  <2>2. Total(times) \in Int /\ times[value] \in Int
    BY <1>1, TotalsAreInts
  <2> QED BY <1>1, <2>1, <2>2
<1>3. SumOf(more) = SumOf(times) + value
  <2> DEFINE f == [v \in Samples |-> times[v] * v]
             g == [v \in Samples |-> more[v] * v]
             c == [v \in Samples |-> v]
  <2>1. /\ \A v \in Samples : f[v] = times[v] * c[v] /\ g[v] = more[v] * c[v]
        /\ \A v \in Samples : c[v] \in Int
        /\ c[value] = value
    BY <1>0
  <2> HIDE DEF f, g, c
  <2>2. SumFunctionOnSet(g, Samples) = SumFunctionOnSet(f, Samples) + c[value]
    BY <1>f, <1>1, <2>1, CountedOnceMore
  <2> QED BY <2>1, <2>2 DEF SumOf, f, g
<1>4. SumOfSquares(more) = SumOfSquares(times) + value * value
  <2> DEFINE f == [v \in Samples |-> times[v] * (v * v)]
             g == [v \in Samples |-> more[v] * (v * v)]
             c == [v \in Samples |-> v * v]
  <2>1. /\ \A v \in Samples : f[v] = times[v] * c[v] /\ g[v] = more[v] * c[v]
        /\ \A v \in Samples : c[v] \in Int
        /\ c[value] = value * value
    BY <1>0
  <2> HIDE DEF f, g, c
  <2>2. SumFunctionOnSet(g, Samples) = SumFunctionOnSet(f, Samples) + c[value]
    BY <1>f, <1>1, <2>1, CountedOnceMore
  <2> QED BY <2>1, <2>2 DEF SumOfSquares, f, g
<1> QED BY <1>1, <1>2, <1>3, <1>4

\* The samples of two distributions together.
LEMMA TotalsOfBoth ==
  ASSUME NEW times \in Times, NEW others \in Times, NEW both \in Times,
         \A v \in Samples : both[v] = times[v] + others[v]
  PROVE  /\ Total(both) = Total(times) + Total(others)
         /\ SumOf(both) = SumOf(times) + SumOf(others)
         /\ SumOfSquares(both) = SumOfSquares(times) + SumOfSquares(others)
<1>0. Samples \subseteq Int
  BY SamplesAssumption
<1>f. IsFiniteSet(Samples)
  BY SamplesAssumption
<1>1. \A v \in Samples : times[v] \in Int /\ others[v] \in Int
  BY DEF Times
<1>2. Total(both) = Total(times) + Total(others)
  BY <1>f, <1>1, SumAdds DEF Total
<1>3. SumOf(both) = SumOf(times) + SumOf(others)
  <2> DEFINE f == [v \in Samples |-> times[v] * v]
             g == [v \in Samples |-> others[v] * v]
             h == [v \in Samples |-> both[v] * v]
  <2>1. \A v \in Samples : f[v] \in Int /\ g[v] \in Int /\ h[v] = f[v] + g[v]
    BY <1>0, <1>1
  <2> HIDE DEF f, g, h
  <2>2. SumFunctionOnSet(h, Samples) =
          SumFunctionOnSet(f, Samples) + SumFunctionOnSet(g, Samples)
    BY <1>f, <2>1, SumAdds
  <2> QED BY <2>2 DEF SumOf, f, g, h
<1>4. SumOfSquares(both) = SumOfSquares(times) + SumOfSquares(others)
  <2> DEFINE f == [v \in Samples |-> times[v] * (v * v)]
             g == [v \in Samples |-> others[v] * (v * v)]
             h == [v \in Samples |-> both[v] * (v * v)]
  <2>1. \A v \in Samples : f[v] \in Int /\ g[v] \in Int /\ h[v] = f[v] + g[v]
    BY <1>0, <1>1
  <2> HIDE DEF f, g, h
  <2>2. SumFunctionOnSet(h, Samples) =
          SumFunctionOnSet(f, Samples) + SumFunctionOnSet(g, Samples)
    BY <1>f, <2>1, SumAdds
  <2> QED BY <2>2 DEF SumOfSquares, f, g, h
<1> QED BY <1>1, <1>2, <1>3, <1>4

-----------------------------------------------------------------------------
Taken(times) == {v \in Samples : times[v] > 0}

\* The smallest and the largest sample.
Extremes(s, times) ==
  /\ s.minimum \in Taken(times) /\ s.maximum \in Taken(times)
  /\ \A v \in Taken(times) : s.minimum <= v /\ v <= s.maximum

\* A Distribution.
HasFields(s) ==
  s = [option |-> s.option, count |-> s.count, minimum |-> s.minimum,
       maximum |-> s.maximum, mean |-> s.mean, squares |-> s.squares,
       buckets |-> s.buckets]

\* The summary s is that of these samples.  No division is left in it: n times the
\* mean is the sum, and the squared deviations are the squares less n times that
\* of the mean.
IsSummary(s, times) ==
  /\ HasFields(s) /\ times \in Times
  /\ s.count = Total(times) /\ s.count \in 0 .. MaxSamples
  /\ s.mean \in Int /\ s.count * s.mean = SumOf(times) * Parts
  /\ s.squares = SumOfSquares(times) * (Parts * Parts) - s.count * (s.mean * s.mean)
  /\ s.count > 0 => Extremes(s, times)

SummaryInv ==
  /\ distribution = [d \in Names |-> distribution[d]]
  /\ sampled = [d \in Names |-> sampled[d]]
  /\ \A d \in Names : IsSummary(distribution[d], sampled[d])

\* A distribution with a sample more, whatever its buckets then are.
WithSample(s, value, b) == [Counted(s, value) EXCEPT !.buckets = b]

\* The fields that a sample changes.
LEMMA CountedFields ==
  ASSUME NEW s, HasFields(s), NEW value, NEW b, NEW c, c = WithSample(s, value, b)
  PROVE  /\ HasFields(c)
         /\ s.count = 0 => /\ c.count = 1 /\ c.minimum = value /\ c.maximum = value
                           /\ c.mean = value * Parts /\ c.squares = 0
         /\ s.count # 0 =>
              /\ c.count = s.count + 1
              /\ c.minimum = Least(value, s.minimum)
              /\ c.maximum = Most(value, s.maximum)
              /\ c.mean = (s.count * s.mean + value * Parts) \div (s.count + 1)
              /\ c.squares =
                   s.squares + (value * Parts - s.mean) * (value * Parts - c.mean)
<1>1. CASE s.count = 0
  <2>1. Counted(s, value) =
          [s EXCEPT !.count = 1, !.minimum = value, !.maximum = value,
                    !.mean = value * Parts, !.squares = 0]
    BY <1>1 DEF Counted
  <2> QED BY <1>1, <2>1 DEF HasFields, WithSample
<1>2. CASE s.count # 0
  <2> DEFINE mean == (s.count * s.mean + value * Parts) \div (s.count + 1)
             squares == s.squares + (value * Parts - s.mean) * (value * Parts - mean)
             least == Least(value, s.minimum)
             most == Most(value, s.maximum)
             n == s.count + 1
  <2>1. Counted(s, value) =
          [s EXCEPT !.count = n, !.mean = mean, !.minimum = least,
                    !.maximum = most, !.squares = squares]
    BY <1>2 DEF Counted
  <2> HIDE DEF mean, squares, least, most, n
  <2>2. /\ HasFields(c) /\ c.count = n /\ c.mean = mean /\ c.minimum = least
        /\ c.maximum = most /\ c.squares = squares
    BY <2>1 DEF HasFields, WithSample
  <2> QED BY <1>2, <2>2 DEF mean, squares, least, most, n
<1> QED BY <1>1, <1>2

\* The summary of a first sample, and of one more.
LEMMA FirstCounted ==
  ASSUME NEW s, NEW times, IsSummary(s, times), NEW value \in Samples,
         s.count = 0, s.count < MaxSamples, NEW more \in Times,
         more[value] = times[value] + 1,
         \A v \in Samples \ {value} : more[v] = times[v],
         NEW c, HasFields(c), c.count = 1, c.minimum = value, c.maximum = value,
         c.mean = value * Parts, c.squares = 0
  PROVE  IsSummary(c, more)
<1>0. Parts \in Nat /\ MaxSamples \in Nat /\ value \in Int
  BY SamplesAssumption
<1>1. times \in Times /\ Total(times) = 0
  BY DEF IsSummary
<1>2. \A x \in Samples : times[x] = 0
  <2>1. \A x \in Samples : times[x] \in Nat /\ ~(times[x] > 0)
    BY <1>1, TotalsAreInts DEF Times
  <2> QED BY <2>1
<1>3. Taken(more) = {value}
  BY <1>2 DEF Taken
<1>4. SumOf(times) = 0 /\ SumOfSquares(times) = 0
  <2> DEFINE f == [x \in Samples |-> times[x] * x]
             g == [x \in Samples |-> times[x] * (x * x)]
  <2>1. /\ \A x \in Samples : f[x] = 0 /\ g[x] = 0
        /\ IsFiniteSet(Samples)
    BY <1>2, SamplesAssumption
  <2> HIDE DEF f, g
  <2>2. SumFunctionOnSet(f, Samples) = 0
    BY <2>1, SumZero
  <2>3. SumFunctionOnSet(g, Samples) = 0
    BY <2>1, SumZero
  <2> QED BY <2>2, <2>3 DEF SumOf, SumOfSquares, f, g
<1>5. /\ Total(more) = 0 + 1 /\ SumOf(more) = 0 + value
      /\ SumOfSquares(more) = 0 + value * value
  BY <1>1, <1>4, TotalsOfOneMore
<1>6. c.mean \in Int /\ c.count * c.mean = SumOf(more) * Parts
  BY <1>0, <1>5
<1>7. c.squares = SumOfSquares(more) * (Parts * Parts) - c.count * (c.mean * c.mean)
  <2>1. (0 + value * value) * (Parts * Parts)
          - 1 * ((value * Parts) * (value * Parts)) = 0
    BY <1>0
  <2> QED BY <1>5, <2>1
<1>8. Extremes(c, more)
  BY <1>0, <1>3 DEF Extremes
<1>9. c.count = Total(more) /\ c.count \in 0 .. MaxSamples
  BY <1>0, <1>5
<1> QED BY <1>6, <1>7, <1>8, <1>9 DEF IsSummary

LEMMA NextCounted ==
  ASSUME NEW s, NEW times, IsSummary(s, times), NEW value \in Samples,
         s.count # 0, s.count < MaxSamples, NEW more \in Times,
         more[value] = times[value] + 1,
         \A v \in Samples \ {value} : more[v] = times[v],
         NEW c, HasFields(c), c.count = s.count + 1,
         c.minimum = Least(value, s.minimum), c.maximum = Most(value, s.maximum),
         c.mean = (s.count * s.mean + value * Parts) \div (s.count + 1),
         c.squares = s.squares + (value * Parts - s.mean) * (value * Parts - c.mean)
  PROVE  IsSummary(c, more)
<1> DEFINE n == s.count
           m == s.mean
           v == value * Parts
           S == SumOf(times)
           Q == SumOfSquares(times)
           PP == Parts * Parts
<1>0. Parts \in Nat /\ MaxSamples \in Nat /\ value \in Int
  BY SamplesAssumption
<1>1. /\ times \in Times /\ n \in 1 .. MaxSamples /\ n = Total(times)
      /\ m \in Int /\ n * m = S * Parts
      /\ s.squares = Q * PP - n * (m * m)
      /\ Extremes(s, times)
  BY <1>0 DEF IsSummary
<1>2. S \in Int /\ Q \in Int
  BY <1>1, TotalsAreInts
<1>3. /\ Total(more) = n + 1 /\ SumOf(more) = S + value
      /\ SumOfSquares(more) = Q + value * value
  BY <1>1, TotalsOfOneMore
<1>4. n * m + v = (S + value) * Parts /\ n + 1 \in 1 .. MaxSamples
  BY <1>0, <1>1, <1>2
<1>5. c.mean \in Int /\ (n + 1) * c.mean = (S + value) * Parts
  <2> DEFINE x == S + value
             k == n + 1
  <2>1. x \in Int /\ k \in 1 .. MaxSamples /\ c.mean = (x * Parts) \div k
    BY <1>0, <1>2, <1>4
  <2> HIDE DEF x, k
  <2>2. c.mean \in Int /\ k * c.mean = x * Parts
    BY <2>1, MeanExact
  <2> QED BY <2>2 DEF x, k
<1>6. Extremes(c, more)
  <2>1. Taken(more) = Taken(times) \cup {value}
    <3>1. more[value] > 0
      BY <1>1 DEF Times
    <3> QED BY <3>1 DEF Taken
  <2>2. Taken(times) \subseteq Int
    BY SamplesAssumption DEF Taken
  <2> QED BY <1>0, <1>1, <2>1, <2>2 DEF Extremes, Least, Most
<1>7. c.squares = SumOfSquares(more) * PP - c.count * (c.mean * c.mean)
  <2> DEFINE mean == c.mean
             w == value * value
             a == n * (m * m)
             d == (v - m) * (v - mean)
             e == (n + 1) * (mean * mean)
  <2>1. v \in Int /\ n \in Int /\ mean \in Int /\ (n + 1) * mean = n * m + v
    BY <1>0, <1>1, <1>4, <1>5
  <2>2. v * v = w * PP
    BY <1>0
  <2>3. d - a = v * v - e
    <3>0. n \in Int /\ m \in Int
      BY <1>1
    <3> HIDE DEF v, n, m, mean
    <3>1. (v - m) * (v - mean) - n * (m * m) = v * v - (n + 1) * (mean * mean)
      BY <3>0, <2>1, OneMore
    <3> QED BY <3>1
  <2>4. w \in Int /\ a \in Int /\ d \in Int /\ e \in Int /\ PP \in Int
    BY <1>0, <1>1, <2>1
  <2>5. c.squares = (Q * PP - a) + d
    BY <1>1
  <2>6. SumOfSquares(more) * PP - c.count * (c.mean * c.mean) = (Q + w) * PP - e
    BY <1>3
  <2> HIDE DEF w, a, d, e, PP, Q, v
  <2>7. (Q + w) * PP = Q * PP + w * PP /\ Q * PP \in Int /\ w * PP \in Int
    BY <1>2, <2>4
  <2> QED BY <2>2, <2>3, <2>4, <2>5, <2>6, <2>7
<1>8. c.count * c.mean = SumOf(more) * Parts /\ c.count = Total(more)
      /\ c.count \in 0 .. MaxSamples
  BY <1>0, <1>1, <1>3, <1>4, <1>5
<1> HIDE DEF PP
<1> QED BY <1>5, <1>6, <1>7, <1>8 DEF IsSummary, PP

\* A sample that comes in is in the summary.
LEMMA SampleCounted ==
  ASSUME NEW s, NEW times, IsSummary(s, times), NEW value \in Samples,
         Total(times) < MaxSamples, NEW b
  PROVE  IsSummary(WithSample(s, value, b), [times EXCEPT ![value] = @ + 1])
<1> DEFINE c == WithSample(s, value, b)
           more == [times EXCEPT ![value] = @ + 1]
<1>1. /\ more \in Times /\ more[value] = times[value] + 1
      /\ \A v \in Samples \ {value} : more[v] = times[v]
  BY DEF IsSummary, Times
<1>2. HasFields(s) /\ s.count < MaxSamples
  BY DEF IsSummary
<1>3. c = WithSample(s, value, b)
  OBVIOUS
<1> HIDE DEF c, more
<1>4. CASE s.count = 0
  <2>1. /\ HasFields(c) /\ c.count = 1 /\ c.minimum = value /\ c.maximum = value
        /\ c.mean = value * Parts /\ c.squares = 0
    BY <1>2, <1>3, <1>4, CountedFields
  <2>2. IsSummary(c, more)
    BY <1>1, <1>2, <1>4, <2>1, FirstCounted
  <2> QED BY <2>2 DEF c, more
<1>5. CASE s.count # 0
  <2>1. /\ HasFields(c) /\ c.count = s.count + 1
        /\ c.minimum = Least(value, s.minimum) /\ c.maximum = Most(value, s.maximum)
        /\ c.mean = (s.count * s.mean + value * Parts) \div (s.count + 1)
        /\ c.squares = s.squares + (value * Parts - s.mean) * (value * Parts - c.mean)
    BY <1>2, <1>3, <1>5, CountedFields
  <2>2. IsSummary(c, more)
    BY <1>1, <1>2, <1>5, <2>1, NextCounted
  <2> QED BY <2>2 DEF c, more
<1> QED BY <1>4, <1>5

\* The fields that merging changes.
LEMMA MergedFields ==
  ASSUME NEW from, NEW to, HasFields(to), NEW c, c = Merged(from, to)
  PROVE  /\ HasFields(c)
         /\ c.count = to.count + from.count
         /\ c.minimum = Least(from.minimum, to.minimum)
         /\ c.maximum = Most(from.maximum, to.maximum)
         /\ c.mean = (to.count * to.mean + from.count * from.mean)
                       \div (to.count + from.count)
         /\ c.squares = to.squares + from.squares
                          + to.count * (c.mean - to.mean) * (c.mean - to.mean)
                          + from.count * (c.mean - from.mean) * (c.mean - from.mean)
<1> DEFINE n == to.count + from.count
           mean == (to.count * to.mean + from.count * from.mean) \div n
           squares == to.squares + from.squares
                        + to.count * (mean - to.mean) * (mean - to.mean)
                        + from.count * (mean - from.mean) * (mean - from.mean)
           least == Least(from.minimum, to.minimum)
           most == Most(from.maximum, to.maximum)
           b == [i \in DOMAIN to.buckets |-> to.buckets[i] + from.buckets[i]]
<1>1. c = [to EXCEPT !.count = n, !.mean = mean, !.minimum = least,
                     !.maximum = most, !.squares = squares, !.buckets = b]
  BY DEF Merged
<1> HIDE DEF n, mean, squares, least, most, b
<1>2. /\ HasFields(c) /\ c.count = n /\ c.mean = mean /\ c.minimum = least
      /\ c.maximum = most /\ c.squares = squares
  BY <1>1 DEF HasFields
<1> QED BY <1>2 DEF n, mean, squares, least, most

\* Two summaries with samples become that of both.
LEMMA BothCounted ==
  ASSUME NEW f, NEW others, IsSummary(f, others), f.count > 0,
         NEW t, NEW times, IsSummary(t, times), t.count > 0,
         f.count + t.count <= MaxSamples,
         NEW both \in Times, \A v \in Samples : both[v] = times[v] + others[v]
  PROVE  IsSummary(Merged(f, t), both)
<1> DEFINE c == Merged(f, t)
           n == t.count
           m == t.mean
           k == f.count
           l == f.mean
           S == SumOf(times)
           Q == SumOfSquares(times)
           S2 == SumOf(others)
           Q2 == SumOfSquares(others)
           PP == Parts * Parts
<1>0. Parts \in Nat /\ MaxSamples \in Nat
  BY SamplesAssumption
<1>1. /\ times \in Times /\ n \in Nat /\ n > 0 /\ n = Total(times) /\ m \in Int
      /\ n * m = S * Parts
      /\ t.squares = Q * PP - n * (m * m)
      /\ Extremes(t, times) /\ HasFields(t)
  BY <1>0 DEF IsSummary
<1>2. /\ others \in Times /\ k \in Nat /\ k > 0 /\ k = Total(others) /\ l \in Int
      /\ k * l = S2 * Parts
      /\ f.squares = Q2 * PP - k * (l * l)
      /\ Extremes(f, others)
  BY <1>0 DEF IsSummary
<1>3. S \in Int /\ Q \in Int /\ S2 \in Int /\ Q2 \in Int
  BY <1>1, <1>2, TotalsAreInts
<1>4. Total(both) = n + k /\ SumOf(both) = S + S2 /\ SumOfSquares(both) = Q + Q2
  BY <1>1, <1>2, TotalsOfBoth
<1>5. c = Merged(f, t) /\ HasFields(t)
  BY <1>1
<1> HIDE DEF c
<1>6. /\ HasFields(c) /\ c.count = n + k
      /\ c.minimum = Least(f.minimum, t.minimum)
      /\ c.maximum = Most(f.maximum, t.maximum)
      /\ c.mean = (n * m + k * l) \div (n + k)
      /\ c.squares = t.squares + f.squares + n * (c.mean - m) * (c.mean - m)
                       + k * (c.mean - l) * (c.mean - l)
  BY <1>5, MergedFields
<1>7. n * m + k * l = (S + S2) * Parts /\ n + k \in 1 .. MaxSamples
  <2>1. (S + S2) * Parts = S * Parts + S2 * Parts
    BY <1>0, <1>3
  <2> QED BY <1>0, <1>1, <1>2, <2>1
<1>8. c.mean \in Int /\ (n + k) * c.mean = (S + S2) * Parts
  <2> DEFINE x == S + S2
             y == n + k
  <2>1. x \in Int /\ y \in 1 .. MaxSamples /\ c.mean = (x * Parts) \div y
    BY <1>3, <1>6, <1>7
  <2> HIDE DEF x, y
  <2>2. c.mean \in Int /\ y * c.mean = x * Parts
    BY <2>1, MeanExact
  <2> QED BY <2>2 DEF x, y
<1>9. Extremes(c, both)
  <2>1. Taken(both) = Taken(times) \cup Taken(others)
    BY <1>1, <1>2 DEF Taken, Times
  <2>2. Taken(times) \subseteq Int /\ Taken(others) \subseteq Int
    BY SamplesAssumption DEF Taken
  <2> QED BY <1>1, <1>2, <1>6, <2>1, <2>2 DEF Extremes, Least, Most
<1>10. c.squares = SumOfSquares(both) * PP - c.count * (c.mean * c.mean)
  <2> DEFINE mean == c.mean
             a == n * (m * m)
             b == k * (l * l)
             d == n * (mean - m) * (mean - m)
             e == k * (mean - l) * (mean - l)
             g == (n + k) * (mean * mean)
  <2>1. n \in Int /\ m \in Int /\ k \in Int /\ l \in Int /\ mean \in Int
        /\ (n + k) * mean = n * m + k * l
    BY <1>1, <1>2, <1>7, <1>8
  <2>2. d + e - a - b = -g
    <3> HIDE DEF n, m, k, l, mean
    <3>1. n * (mean - m) * (mean - m) + k * (mean - l) * (mean - l)
            - n * (m * m) - k * (l * l) = - ((n + k) * (mean * mean))
      BY <2>1, TwoMeans
    <3> QED BY <3>1
  <2>3. a \in Int /\ b \in Int /\ d \in Int /\ e \in Int /\ g \in Int /\ PP \in Int
    BY <1>0, <2>1
  <2>4. c.squares = (Q * PP - a) + (Q2 * PP - b) + d + e
    BY <1>1, <1>2, <1>6
  <2>5. SumOfSquares(both) * PP - c.count * (c.mean * c.mean) = (Q + Q2) * PP - g
    BY <1>4, <1>6
  <2> HIDE DEF a, b, d, e, g, PP, Q, Q2
  <2>6. (Q + Q2) * PP = Q * PP + Q2 * PP /\ Q * PP \in Int /\ Q2 * PP \in Int
    BY <1>3, <2>3
  <2> QED BY <2>2, <2>3, <2>4, <2>5, <2>6
<1>11. c.count * c.mean = SumOf(both) * Parts /\ c.count = Total(both)
       /\ c.count \in 0 .. MaxSamples
  BY <1>0, <1>4, <1>6, <1>7, <1>8
<1> HIDE DEF PP
<1>12. IsSummary(c, both)
  BY <1>6, <1>8, <1>9, <1>10, <1>11 DEF IsSummary, PP
<1> QED BY <1>12 DEF c

\* A summary that is copied into a distribution without samples is that of both.
LEMMA FirstMerged ==
  ASSUME NEW f, NEW others, IsSummary(f, others),
         NEW times \in Times, Total(times) = 0,
         NEW both \in Times, \A v \in Samples : both[v] = times[v] + others[v]
  PROVE  IsSummary(f, both)
<1>1. others \in Times /\ \A v \in Samples : others[v] \in Nat /\ times[v] \in Nat
  BY DEF IsSummary, Times
<1>2. \A v \in Samples : both[v] = others[v]
  BY <1>1, TotalsAreInts
<1>3. both = others
  BY <1>1, <1>2 DEF Times
<1> QED BY <1>3

-----------------------------------------------------------------------------
\* The steps.
LEMMA SummaryStart == DistributionInit => SummaryInv
<1> SUFFICES ASSUME DistributionInit PROVE SummaryInv
  OBVIOUS
<1>a. /\ distribution = [e \in Names |-> distribution[e]]
      /\ sampled = [e \in Names |-> sampled[e]]
  BY DEF DistributionInit
<1> SUFFICES ASSUME NEW d \in Names PROVE IsSummary(distribution[d], sampled[d])
  BY <1>a DEF SummaryInv
<1> DEFINE times == sampled[d]
           s == distribution[d]
           f == [x \in Samples |-> times[x] * x]
           g == [x \in Samples |-> times[x] * (x * x)]
<1>1. /\ times \in Times /\ \A v \in Samples : times[v] = 0
      /\ IsFiniteSet(Samples)
  BY SamplesAssumption DEF DistributionInit, Times
<1>2. \A v \in Samples : f[v] = 0 /\ g[v] = 0
  BY <1>1, SamplesAssumption
<1> HIDE DEF times, f, g
<1>3. Total(times) = 0
  BY <1>1, SumZero DEF Total
<1>4. SumFunctionOnSet(f, Samples) = 0
  BY <1>1, <1>2, SumZero
<1>5. SumFunctionOnSet(g, Samples) = 0
  BY <1>1, <1>2, SumZero
<1>6. SumOf(times) = 0 /\ SumOfSquares(times) = 0
  BY <1>4, <1>5 DEF SumOf, SumOfSquares, f, g
<1>7. \E o : s = Empty(o)
  BY DEF DistributionInit, Initialized
<1>8. /\ s.count = 0 /\ s.mean = 0 /\ s.squares = 0
      /\ HasFields(s)
  BY <1>7 DEF Empty, HasFields
<1> HIDE DEF s
<1>9. IsSummary(s, times)
  BY <1>1, <1>3, <1>6, <1>8, SamplesAssumption DEF IsSummary
<1> QED BY <1>9 DEF s, times

LEMMA AddSampleKeeps ==
  ASSUME SummaryInv, NEW d \in Names, NEW value \in Samples, AddSample(d, value)
  PROVE  SummaryInv'
<1>1. Total(sampled[d]) < MaxSamples
  BY DEF AddSample
<1> DEFINE B(i) == [Counted(distribution[d], value).buckets EXCEPT ![i] = @ + 1]
<1>2. PICK i : distribution' =
                 [distribution EXCEPT ![d] = WithSample(distribution[d], value, B(i))]
  <2>1. PICK i : distribution' =
                   [distribution EXCEPT
                      ![d] = [Counted(distribution[d], value) EXCEPT !.buckets[i] = @ + 1]]
    BY DEF AddSample
  <2> QED BY <2>1 DEF WithSample
<1>3. sampled' = [sampled EXCEPT ![d] = [sampled[d] EXCEPT ![value] = @ + 1]]
  BY DEF AddSample
<1> HIDE DEF B
<1>4. IsSummary(distribution[d], sampled[d])
  BY DEF SummaryInv
<1>5. IsSummary(WithSample(distribution[d], value, B(i)),
                [sampled[d] EXCEPT ![value] = @ + 1])
  BY <1>1, <1>4, SampleCounted
<1>6. /\ DOMAIN distribution = Names /\ DOMAIN sampled = Names
      /\ \A e \in Names : IsSummary(distribution[e], sampled[e])
  BY DEF SummaryInv
<1>7. /\ distribution'[d] = WithSample(distribution[d], value, B(i))
      /\ sampled'[d] = [sampled[d] EXCEPT ![value] = @ + 1]
      /\ \A e \in Names \ {d} : distribution'[e] = distribution[e] /\ sampled'[e] = sampled[e]
      /\ distribution' = [e \in Names |-> distribution'[e]]
      /\ sampled' = [e \in Names |-> sampled'[e]]
  BY <1>2, <1>3, <1>6
<1>8. ASSUME NEW e \in Names PROVE IsSummary(distribution'[e], sampled'[e])
  BY <1>5, <1>6, <1>7
<1> QED BY <1>7, <1>8 DEF SummaryInv

LEMMA MergeKeeps ==
  ASSUME SummaryInv, NEW from \in Names, NEW to \in Names, Merge(from, to)
  PROVE  SummaryInv'
<1> DEFINE f == distribution[from]
           t == distribution[to]
           both == [v \in Samples |-> sampled[to][v] + sampled[from][v]]
           c == IF t.count = 0 THEN f ELSE Merged(f, t)
<1>1. f.count > 0 /\ f.count + t.count <= MaxSamples
  BY DEF Merge
<1>2. IsSummary(f, sampled[from]) /\ IsSummary(t, sampled[to])
  BY DEF SummaryInv
<1>3. both \in Times /\ \A v \in Samples : both[v] = sampled[to][v] + sampled[from][v]
  BY <1>2 DEF IsSummary, Times
<1>4. /\ distribution' = [distribution EXCEPT ![to] = c]
      /\ sampled' = [sampled EXCEPT ![to] = both]
  BY DEF Merge
<1>5. IsSummary(c, both)
  <2> HIDE DEF both, f, t
  <2>1. CASE t.count = 0
    <3>1. sampled[to] \in Times /\ Total(sampled[to]) = 0
      BY <1>2, <2>1 DEF IsSummary
    <3>2. IsSummary(f, both)
      BY <1>2, <1>3, <3>1, FirstMerged
    <3> QED BY <2>1, <3>2
  <2>2. CASE t.count # 0
    <3>1. t.count > 0
      BY <1>2, <2>2, SamplesAssumption DEF IsSummary
    <3>2. IsSummary(Merged(f, t), both)
      BY <1>1, <1>2, <1>3, <3>1, BothCounted
    <3> QED BY <2>2, <3>2
  <2> QED BY <2>1, <2>2
<1> HIDE DEF c, both
<1>6. /\ DOMAIN distribution = Names /\ DOMAIN sampled = Names
      /\ \A e \in Names : IsSummary(distribution[e], sampled[e])
  BY DEF SummaryInv
<1>7. /\ distribution'[to] = c /\ sampled'[to] = both
      /\ \A e \in Names \ {to} : distribution'[e] = distribution[e] /\ sampled'[e] = sampled[e]
      /\ distribution' = [e \in Names |-> distribution'[e]]
      /\ sampled' = [e \in Names |-> sampled'[e]]
  BY <1>4, <1>6
<1>8. ASSUME NEW e \in Names PROVE IsSummary(distribution'[e], sampled'[e])
  BY <1>5, <1>6, <1>7
<1> QED BY <1>7, <1>8 DEF SummaryInv

\* The inductive invariant of the distributions, for any samples: each has the
\* summary of what went into it, by AddSample() or by Merge().
THEOREM SummaryInvariance == DistributionSpec => []SummaryInv
<1>1. ASSUME SummaryInv, [DistributionNext]_distributionVars PROVE SummaryInv'
  <2>1. CASE UNCHANGED distributionVars
    BY <1>1, <2>1 DEF distributionVars, SummaryInv
  <2>2. "from" \in Names /\ "to" \in Names
    BY DEF Names
  <2> QED BY <1>1, <2>1, <2>2, AddSampleKeeps, MergeKeeps DEF DistributionNext
<1> QED BY <1>1, SummaryStart, PTL DEF DistributionSpec

\* However samples came in, the summary is that of all of them.
THEOREM SummariesExact == DistributionSpec => []SummaryExact
<1>1. ASSUME NEW s, NEW times, IsSummary(s, times)
      PROVE  /\ s.count = Total(times)
             /\ Taken(times) # {} =>
                  /\ s.minimum = Min(Taken(times)) /\ s.maximum = Max(Taken(times))
                  /\ s.mean * s.count = SumOf(times) * Parts
                  /\ s.squares * s.count =
                       (s.count * SumOfSquares(times) - SumOf(times) * SumOf(times))
                         * Parts * Parts
  <2> DEFINE n == s.count
             m == s.mean
             S == SumOf(times)
             Q == SumOfSquares(times)
             T == Taken(times)
             x == s.squares
  <2>1. /\ n = Total(times) /\ n \in Nat /\ m \in Int /\ S \in Int /\ Q \in Int
        /\ Parts \in Nat /\ n * m = S * Parts
        /\ x = Q * (Parts * Parts) - n * (m * m)
    BY <1>1, TotalsAreInts, SamplesAssumption DEF IsSummary
  <2>2. x * n = (n * Q - S * S) * Parts * Parts
    <3> HIDE DEF n, m, S, Q, x
    <3>1. x * n = n * Q * (Parts * Parts) - (n * m) * (n * m)
      BY <2>1
    <3>2. (S * Parts) * (S * Parts) = S * S * (Parts * Parts)
      BY <2>1
    <3>3. (n * Q - S * S) * Parts * Parts = n * Q * (Parts * Parts) - S * S * (Parts * Parts)
      BY <2>1
    <3> QED BY <2>1, <3>1, <3>2, <3>3
  <2>3. ASSUME T # {} PROVE s.minimum = Min(T) /\ s.maximum = Max(T)
    <3>1. PICK v \in T : TRUE
      BY <2>3
    <3>2. n > 0
      BY <1>1, TotalsAreInts, <2>1 DEF IsSummary, Taken
    <3>3. Extremes(s, times)
      BY <1>1, <3>2 DEF IsSummary
    <3>4. T \subseteq Int
      BY SamplesAssumption DEF Taken
    <3>5. /\ s.minimum \in T /\ s.maximum \in T
          /\ \A y \in T : s.minimum <= y /\ y <= s.maximum
      BY <3>3 DEF Extremes
    <3> HIDE DEF T
    <3>6. s.minimum = Min(T)
      <4>1. Min(T) \in T /\ \A y \in T : Min(T) <= y
        BY <3>5 DEF Min
      <4>2. /\ s.minimum \in Int /\ Min(T) \in Int
            /\ s.minimum <= Min(T) /\ Min(T) <= s.minimum
        BY <3>4, <3>5, <4>1
      <4> QED BY <4>2
    <3>7. s.maximum = Max(T)
      <4>1. Max(T) \in T /\ \A y \in T : Max(T) >= y
        <5>1. \E z \in T : \A y \in T : z >= y
          BY <3>4, <3>5
        <5> QED BY <5>1 DEF Max
      <4>2. /\ s.maximum \in Int /\ Max(T) \in Int
            /\ s.maximum <= Max(T) /\ Max(T) <= s.maximum
        BY <3>4, <3>5, <4>1
      <4> QED BY <4>2
    <3> QED BY <3>6, <3>7
  <2>4. m * n = n * m
    BY <2>1
  <2> HIDE DEF n, m, S, Q, T, x
  <2> QED BY <2>1, <2>2, <2>3, <2>4 DEF n, m, S, Q, T, x
<1>2. SummaryInv => SummaryExact
  BY <1>1 DEF SummaryInv, SummaryExact, Taken
<1> QED BY <1>2, SummaryInvariance, PTL

-----------------------------------------------------------------------------
(* Buckets.                                                                *)

\* A sequence of numbers each larger than the one before it rises throughout.
LEMMA Rises ==
  ASSUME NEW n \in Nat, NEW b, \A i \in 0 .. n : b[i] \in Int,
         \A i \in 1 .. n : b[i - 1] < b[i]
  PROVE  \A i, j \in 0 .. n : i < j => b[i] < b[j]
<1> DEFINE Good(j) == \A i \in 0 .. n : i < j => b[i] < b[j]
           T == {j \in 0 .. n : ~Good(j)}
<1>1. SUFFICES ASSUME T # {} PROVE FALSE
  <2>1. ASSUME T = {} PROVE \A j \in 0 .. n : Good(j)
    <3> HIDE DEF Good
    <3> QED BY <2>1
  <2> QED BY <2>1
<1>0. T \in SUBSET Nat
  OBVIOUS
<1> HIDE DEF T
<1>2. PICK j \in T : \A l \in T : j <= l
  BY <1>0, <1>1, SmallestNumber
<1> USE DEF T
<1>3. j \in 0 .. n /\ ~Good(j)
  OBVIOUS
<1>4. PICK i \in 0 .. n : i < j /\ ~(b[i] < b[j])
  BY <1>3
<1>5. j - 1 \in 0 .. n /\ j \in 1 .. n
  BY <1>3, <1>4
<1>6. Good(j - 1)
  BY <1>2, <1>5
<1>7. b[j - 1] < b[j]
  BY <1>5
<1>8. i = j - 1 \/ b[i] < b[j - 1]
  BY <1>3, <1>4, <1>6
<1>9. b[i] \in Int /\ b[j] \in Int /\ b[j - 1] \in Int
  BY <1>3, <1>4, <1>5
<1> HIDE DEF T, Good
<1> QED BY <1>4, <1>7, <1>8, <1>9

\* The powers that the bounds of exponential buckets are made of.
LEMMA PowersOf ==
  ASSUME NEW o, o.buckets \in Nat, o.growth \in Int, o.growth > 1
  PROVE  /\ Powers(o)[0] = 1
         /\ \A i \in 1 .. o.buckets : Powers(o)[i] = o.growth * Powers(o)[i - 1]
         /\ \A i \in 0 .. o.buckets : Powers(o)[i] \in Int /\ Powers(o)[i] > 0
<1> DEFINE n == o.buckets
           x == o.growth
           Multiplied(p) == [i \in 0 .. n |-> IF i = 0 THEN 1 ELSE x * p[i - 1]]
           IsPower(p) == p = Multiplied(p)
           step == [i \in 1 .. n |-> [y \in Int |-> x * y]]
           P == Powers(o)
<1>1. step \in [1 .. n -> [Int -> Int]] /\ 1 \in Int /\ n \in Nat
  OBVIOUS
<1>2. \E p : IsPower(p)
  <2> HIDE DEF step
  <2>1. PICK p : IsRun(p, step, n, Int, 1)
    BY <1>1, Iteration
  <2>2. /\ p = [i \in 0 .. n |-> p[i]] /\ p[0] = 1
        /\ \A i \in 1 .. n : p[i - 1] \in Int /\ p[i] = step[i][p[i - 1]]
    BY <2>1 DEF IsRun
  <2>3. \A i \in 1 .. n : p[i] = x * p[i - 1]
    BY <2>2 DEF step
  <2>4. ASSUME NEW i \in 0 .. n PROVE p[i] = IF i = 0 THEN 1 ELSE x * p[i - 1]
    <3>1. CASE i = 0
      BY <2>2, <3>1
    <3>2. CASE i # 0
      <4>1. i \in 1 .. n
        BY <3>2
      <4> QED BY <2>3, <3>2, <4>1
    <3> QED BY <3>1, <3>2
  <2>5. [i \in 0 .. n |-> p[i]] = Multiplied(p)
    BY <2>4, Zenon
  <2>6. IsPower(p)
    BY <2>2, <2>5, Zenon
  <2> QED BY <2>6
<1>3. P = CHOOSE p : IsPower(p)
  BY DEF Powers
<1>4. IsPower(P)
  <2> HIDE DEF IsPower, P
  <2> QED BY <1>2, <1>3
<1>5. P[0] = 1 /\ \A i \in 1 .. n : P[i] = x * P[i - 1]
  <2> HIDE DEF P
  <2>1. \A i \in 0 .. n : P[i] = IF i = 0 THEN 1 ELSE x * P[i - 1]
    BY <1>4
  <2> QED BY <2>1
<1> DEFINE T == {i \in 0 .. n : ~(P[i] \in Int /\ P[i] > 0)}
<1>6. ASSUME T # {} PROVE FALSE
  <2>0. T \in SUBSET Nat
    OBVIOUS
  <2> HIDE DEF T
  <2>1. PICK i \in T : \A l \in T : i <= l
    BY <2>0, <1>6, SmallestNumber
  <2> USE DEF T
  <2> HIDE DEF P
  <2>2. i # 0
    BY <1>5
  <2>3. i - 1 \in 0 .. n /\ i \in 1 .. n
    BY <2>2
  <2>4. P[i - 1] \in Int /\ P[i - 1] > 0
    BY <2>1, <2>3
  <2>5. x * P[i - 1] \in Int /\ x * P[i - 1] > 0
    BY <2>4
  <2> QED BY <1>5, <2>3, <2>5
<1> HIDE DEF P
<1>7. \A i \in 0 .. n : P[i] \in Int /\ P[i] > 0
  BY <1>6
<1> QED BY <1>5, <1>7 DEF P

\* The options of a distribution that was initialised.
Options == {o \in BucketOptions : Accepted(o)}

\* The bounds between the buckets are numbers, and they rise.
LEMMA BoundsRise ==
  ASSUME NEW o \in Options
  PROVE  /\ BucketCount(o) \in Nat /\ BucketCount(o) > 0
         /\ \A i \in Bounds(o) : Bound(o, i) \in Int
         /\ \A i, j \in Bounds(o) : i < j => Bound(o, i) < Bound(o, j)
<1> DEFINE b == [i \in Bounds(o) |-> Bound(o, i)]
<1>1. ASSUME NEW n \in Nat, Bounds(o) = 0 .. n, BucketCount(o) = n + 2,
             \A i \in 0 .. n : Bound(o, i) \in Int,
             \A i \in 1 .. n : Bound(o, i - 1) < Bound(o, i)
      PROVE  /\ BucketCount(o) \in Nat /\ BucketCount(o) > 0
             /\ \A i \in Bounds(o) : Bound(o, i) \in Int
             /\ \A i, j \in Bounds(o) : i < j => Bound(o, i) < Bound(o, j)
  <2>1. \A i \in 0 .. n : b[i] = Bound(o, i)
    BY <1>1
  <2> HIDE DEF b
  <2>2. (\A i \in 0 .. n : b[i] \in Int) /\ (\A i \in 1 .. n : b[i - 1] < b[i])
    <3>1. \A i \in 1 .. n : i \in 0 .. n /\ i - 1 \in 0 .. n
      BY <1>1
    <3> QED BY <1>1, <2>1, <3>1
  <2>3. \A i, j \in 0 .. n : i < j => b[i] < b[j]
    BY <2>2, Rises
  <2>4. \A i \in Bounds(o) : Bound(o, i) \in Int
    BY <1>1
  <2>5. ASSUME NEW i \in Bounds(o), NEW j \in Bounds(o), i < j
        PROVE  Bound(o, i) < Bound(o, j)
    <3>1. i \in 0 .. n /\ j \in 0 .. n
      BY <1>1
    <3>2. b[i] < b[j] /\ b[i] = Bound(o, i) /\ b[j] = Bound(o, j)
      BY <2>1, <2>3, <2>5, <3>1
    <3> QED BY <3>2
  <2>6. BucketCount(o) \in Nat /\ BucketCount(o) > 0
    BY <1>1
  <2> QED BY <2>4, <2>5, <2>6, Zenon
<1>2. CASE o.case = "explicit"
  <2>1. /\ o.bounds \in Seq(Int) /\ Len(o.bounds) > 0
        /\ \A i \in 1 .. Len(o.bounds) - 1 : o.bounds[i] < o.bounds[i + 1]
        /\ BucketCount(o) = Len(o.bounds) + 1
    BY <1>2, OptionsAssumption DEF Options, Accepted, BucketCount
  <2>2. \A i : Bound(o, i) = o.bounds[i + 1]
    BY <1>2 DEF Bound
  <2> DEFINE n == Len(o.bounds) - 1
  <2>3. n \in Nat /\ BucketCount(o) = n + 2 /\ Bounds(o) = 0 .. n
    BY <2>1 DEF Bounds
  <2>4. \A i \in 0 .. n : Bound(o, i) \in Int
    BY <2>1, <2>2
  <2>5. ASSUME NEW i \in 1 .. n PROVE Bound(o, i - 1) < Bound(o, i)
    <3>1. o.bounds[i] < o.bounds[i + 1] /\ (i - 1) + 1 = i
      BY <2>1
    <3> QED BY <2>2, <3>1
  <2> HIDE DEF n
  <2> QED BY <1>1, <2>3, <2>4, <2>5
<1>3. CASE o.case = "linear"
  <2> DEFINE n == o.buckets
             w == o.width
             a == o.offset
  <2>1. /\ n \in Nat /\ w \in Int /\ a \in Int /\ w > 0
        /\ BucketCount(o) = n + 2 /\ Bounds(o) = 0 .. n
    <3>1. {n, w, a} \subseteq Int /\ Accepted(o)
      BY <1>3, OptionsAssumption DEF Options
    <3>2. n > 0 /\ w > 0
      BY <1>3, <3>1 DEF Accepted
    <3>3. BucketCount(o) = n + 2
      BY <1>3 DEF BucketCount
    <3> HIDE DEF n, w, a
    <3> QED BY <3>1, <3>2, <3>3 DEF Bounds
  <2>2. \A i : Bound(o, i) = a + i * w
    BY <1>3 DEF Bound
  <2> HIDE DEF n, w, a
  <2>3. ASSUME NEW i \in 0 .. n PROVE a + i * w \in Int
    BY <2>1
  <2>4. ASSUME NEW i \in 1 .. n PROVE a + (i - 1) * w < a + i * w
    <3>1. (i - 1) * w = i * w - w /\ i * w \in Int
      BY <2>1
    <3> QED BY <2>1, <3>1
  <2>5. \A i \in 0 .. n : Bound(o, i) \in Int
    BY <2>2, <2>3
  <2>6. \A i \in 1 .. n : Bound(o, i - 1) < Bound(o, i)
    BY <2>2, <2>4
  <2> QED BY <1>1, <2>1, <2>5, <2>6
<1>4. CASE o.case = "exponential"
  <2> DEFINE n == o.buckets
             g == o.growth
             c == o.scale
             P == Powers(o)
  <2>1. /\ n \in Nat /\ g \in Int /\ c \in Int /\ g > 1 /\ c > 0
        /\ BucketCount(o) = n + 2 /\ Bounds(o) = 0 .. n
    <3>1. {n, g, c} \subseteq Int /\ Accepted(o)
      BY <1>4, OptionsAssumption DEF Options
    <3>2. n > 0 /\ g > 1 /\ c > 0
      BY <1>4, <3>1 DEF Accepted
    <3>3. BucketCount(o) = n + 2
      BY <1>4 DEF BucketCount
    <3> HIDE DEF n, g, c
    <3> QED BY <3>1, <3>2, <3>3 DEF Bounds
  <2>2. \A i : Bound(o, i) = c * P[i]
    BY <1>4 DEF Bound
  <2>3. /\ \A i \in 1 .. n : P[i] = g * P[i - 1]
        /\ \A i \in 0 .. n : P[i] \in Int /\ P[i] > 0
    BY <2>1, PowersOf
  <2> HIDE DEF n, g, c, P
  <2>4. \A i \in 0 .. n : Bound(o, i) \in Int
    BY <2>1, <2>2, <2>3
  <2>5. ASSUME NEW i \in 1 .. n PROVE Bound(o, i - 1) < Bound(o, i)
    <3> DEFINE p == P[i - 1]
               q == P[i]
    <3>1. p \in Int /\ p > 0 /\ q = g * p /\ q \in Int
      <4>1. i - 1 \in 0 .. n /\ i \in 0 .. n
        BY <2>1
      <4> QED BY <2>3, <4>1
    <3> HIDE DEF p, q
    <3>2. p < q
      <4>1. (g - 1) * p > 0 /\ (g - 1) * p = g * p - p
        BY <2>1, <3>1
      <4> QED BY <2>1, <3>1, <4>1
    <3>3. c * p < c * q
      <4>1. c * (q - p) > 0 /\ c * (q - p) = c * q - c * p /\ c * q \in Int /\ c * p \in Int
        BY <2>1, <3>1, <3>2
      <4> QED BY <4>1
    <3> QED BY <2>2, <3>3 DEF p, q
  <2> QED BY <1>1, <2>1, <2>4, <2>5
<1> QED BY <1>2, <1>3, <1>4, OptionsAssumption DEF Options

\* The bounds not above a value are the first ones.
LEMMA BelowAreFirst ==
  ASSUME NEW o \in Options, NEW value \in Int
  PROVE  /\ Below(o, value) \in 0 .. BucketCount(o) - 1
         /\ \A i \in Bounds(o) : Bound(o, i) <= value <=> i < Below(o, value)
<1> DEFINE N == BucketCount(o) - 1
           S == {i \in Bounds(o) : Bound(o, i) <= value}
           T == {j \in 0 .. N : j \notin S}
<1>1. N \in Nat /\ Bounds(o) = 0 .. N - 1
  BY BoundsRise DEF Bounds
<1>2. T \in SUBSET Nat /\ N \in T
  BY <1>1
<1>3. S \subseteq 0 .. N - 1
  BY <1>1
<1>4. ASSUME NEW i \in S, NEW j \in Bounds(o), j < i PROVE j \in S
  <2>1. Bound(o, j) < Bound(o, i) /\ Bound(o, i) <= value
        /\ Bound(o, i) \in Int /\ Bound(o, j) \in Int
    BY <1>4, BoundsRise
  <2> QED BY <2>1
<1> HIDE DEF S, N
<1>5. PICK k \in T : \A j \in T : k <= j
  <2> HIDE DEF T
  <2> QED BY <1>2, SmallestNumber
<1>6. k \in 0 .. N /\ k \notin S
  OBVIOUS
<1>7. S = 0 .. k - 1
  <2>1. ASSUME NEW i \in S PROVE i \in 0 .. k - 1
    <3>1. i \in 0 .. N - 1 /\ i # k
      BY <1>3, <1>6
    <3>2. ASSUME k < i PROVE FALSE
      <4>1. k \in Bounds(o)
        BY <1>1, <1>6, <3>1, <3>2
      <4> QED BY <1>4, <1>6, <3>2, <4>1
    <3> QED BY <1>1, <1>6, <3>1, <3>2
  <2>2. ASSUME NEW i \in 0 .. k - 1 PROVE i \in S
    <3>1. i \in 0 .. N /\ i < k /\ i \in Nat
      BY <1>1, <1>6
    <3> QED BY <1>1, <1>5, <1>6, <3>1
  <2> QED BY <2>1, <2>2
<1>8. Below(o, value) = Cardinality(S)
  BY DEF Below, S
<1>9. Cardinality(0 .. k - 1) = k
  <2>1. k \in Nat /\ 0 \in Int /\ k - 1 \in Int
    BY <1>1, <1>6
  <2>2. Cardinality(0 .. k - 1) = IF 0 > k - 1 THEN 0 ELSE k - 1 - 0 + 1
    BY <2>1, FS_Interval
  <2> QED BY <2>1, <2>2
<1>10. Below(o, value) = k
  BY <1>7, <1>8, <1>9
<1>11. ASSUME NEW i \in Bounds(o) PROVE Bound(o, i) <= value <=> i < k
  <2>1. Bound(o, i) <= value <=> i \in S
    BY DEF S
  <2>2. i \in 0 .. N - 1
    BY <1>1
  <2> QED BY <1>1, <1>6, <1>7, <2>1, <2>2
<1> QED BY <1>6, <1>10, <1>11 DEF N

\* A sample is counted on the right side of every bound; on a bound, on either
\* side unless the bounds are explicit.
LEMMA OnTheRightSide ==
  ASSUME NEW o \in Options, NEW value \in Int, NEW j \in BucketIndex(o, value)
  PROVE  /\ j \in 0 .. BucketCount(o) - 1
         /\ \A i \in Bounds(o) :
              /\ Bound(o, i) < value => j >= i + 1
              /\ value < Bound(o, i) => ~(j >= i + 1)
              /\ o.case = "explicit" /\ Bound(o, i) = value => j >= i + 1
<1> DEFINE found == Below(o, value)
           N == BucketCount(o)
<1>1. N \in Nat /\ Bounds(o) = 0 .. N - 2 /\ found \in 0 .. N - 1
  BY BoundsRise, BelowAreFirst DEF Bounds
<1>2. ASSUME NEW i \in Bounds(o)
      PROVE  /\ Bound(o, i) <= value <=> i < found
             /\ Bound(o, i) \in Int /\ i \in Nat
  <2>1. Bound(o, i) <= value <=> i < found
    BY BelowAreFirst
  <2>2. Bound(o, i) \in Int
    BY BoundsRise
  <2>3. i \in Nat
    BY <1>1
  <2> QED BY <2>1, <2>2, <2>3
<1>3. \/ j = found
      \/ o.case # "explicit" /\ j = found - 1 /\ found >= 1 /\ Bound(o, j) = value
  <2>1. CASE o.case = "explicit"
    BY <2>1 DEF BucketIndex
  <2>2. CASE o.case = "linear"
    <3>1. found \in 2 .. o.buckets => found >= 1
      BY <1>1
    <3> HIDE DEF found
    <3> QED BY <2>2, <3>1 DEF BucketIndex, found
  <2>3. CASE o.case = "exponential"
    <3>1. found > 1 => found >= 1
      BY <1>1
    <3> QED BY <2>3, <3>1 DEF BucketIndex
  <2> QED BY <2>1, <2>2, <2>3, OptionsAssumption DEF Options
<1> HIDE DEF found
<1>4. CASE j = found
  <2>1. ASSUME NEW i \in Bounds(o)
        PROVE  /\ Bound(o, i) < value => j >= i + 1
               /\ value < Bound(o, i) => ~(j >= i + 1)
               /\ Bound(o, i) = value => j >= i + 1
    <3> DEFINE b == Bound(o, i)
    <3>1. b \in Int /\ i \in Nat /\ found \in Nat /\ (b <= value <=> i < found)
      BY <1>1, <1>2
    <3> HIDE DEF b
    <3>2. /\ b < value => j >= i + 1
          /\ value < b => ~(j >= i + 1)
          /\ b = value => j >= i + 1
      BY <1>4, <3>1
    <3> QED BY <3>2 DEF b
  <2> QED BY <1>1, <1>4, <2>1
<1>5. CASE j # found
  <2>1. /\ o.case # "explicit" /\ j = found - 1 /\ Bound(o, j) = value
        /\ j \in 0 .. N - 2
    BY <1>1, <1>3, <1>5
  <2>2. ASSUME NEW i \in Bounds(o)
        PROVE  /\ Bound(o, i) < value => j >= i + 1
               /\ value < Bound(o, i) => ~(j >= i + 1)
    <3> DEFINE b == Bound(o, i)
    <3>1. /\ b \in Int /\ i \in Nat /\ found \in Nat
          /\ (b <= value <=> i < found)
      BY <1>1, <1>2
    <3>2. b < value => i # j
      BY <2>1
    <3> HIDE DEF b
    <3>3. /\ b < value => j >= i + 1
          /\ value < b => ~(j >= i + 1)
      BY <2>1, <3>1, <3>2
    <3> QED BY <3>3 DEF b
  <2> QED BY <1>1, <2>1, <2>2
<1> QED BY <1>4, <1>5

\* A sum in which one number grew by one.
LEMMA SumOneMore ==
  ASSUME NEW f, NEW g, NEW S, IsFiniteSet(S),
         \A y \in S : f[y] \in Int, NEW x, x \in S => g[x] = f[x] + 1,
         \A y \in S \ {x} : g[y] = f[y]
  PROVE  SumFunctionOnSet(g, S) =
           SumFunctionOnSet(f, S) + (IF x \in S THEN 1 ELSE 0)
<1>1. SumFunctionOnSet(f, S) \in Int
  BY SumInt
<1>2. CASE x \in S
  <2>1. \A y \in S : f[y] \in Int /\ g[y] \in Int
    BY <1>2
  <2>2. SumFunctionOnSet(g, S) = SumFunctionOnSet(f, S) - f[x] + g[x]
    BY <1>2, <2>1, SumChanges
  <2> QED BY <1>1, <1>2, <2>2
<1>3. CASE x \notin S
  <2>1. SumFunctionOnSet(f, S) = SumFunctionOnSet(g, S)
    BY <1>3, SumSame
  <2> QED BY <1>1, <1>3, <2>1
<1> QED BY <1>2, <1>3

\* The buckets from number i on, and the samples above a bound.
Upper(b, i) == {j \in DOMAIN b : j >= i}

Over(bound, strictly) == {v \in Samples : v > bound \/ (~strictly /\ v = bound)}

LEMMA UpperSums ==
  ASSUME NEW n \in Int, NEW b \in [0 .. n - 1 -> Nat], NEW i
  PROVE  /\ IsFiniteSet(Upper(b, i)) /\ Upper(b, i) \subseteq 0 .. n - 1
         /\ \A j \in Upper(b, i) : b[j] \in Int
<1>1. IsFiniteSet(0 .. n - 1)
  BY FS_Interval
<1>2. Upper(b, i) \subseteq 0 .. n - 1
  BY DEF Upper
<1> QED BY <1>1, <1>2, FS_Subset

LEMMA OverSums ==
  ASSUME NEW times \in Times, NEW bound, NEW strictly
  PROVE  /\ IsFiniteSet(Over(bound, strictly))
         /\ \A v \in Over(bound, strictly) : times[v] \in Int
         /\ Above(times, bound, strictly) \in Int
<1>1. IsFiniteSet(Samples) /\ Over(bound, strictly) \subseteq Samples
  BY SamplesAssumption DEF Over
<1>2. IsFiniteSet(Over(bound, strictly))
  BY <1>1, FS_Subset
<1>3. \A v \in Over(bound, strictly) : times[v] \in Int
  BY <1>1 DEF Times
<1>4. SumFunctionOnSet(times, Over(bound, strictly)) \in Int
  BY <1>2, <1>3, SumInt
<1> QED BY <1>2, <1>3, <1>4 DEF Above, Over

\* The counters of a distribution that got certain samples.
Placed(s, times) ==
  /\ HasFields(s) /\ times \in Times
  /\ s.option \in Options \cup {[case |-> "none"]}
  /\ s.buckets \in [0 .. BucketCount(s.option) - 1 -> Nat]
  /\ CountedFrom(s, 0) = Total(times)
  /\ \A i \in Bounds(s.option) :
       CountedFrom(s, i + 1) \in
         Above(times, Bound(s.option, i), s.option.case # "explicit")
           .. Above(times, Bound(s.option, i), FALSE)

\* One sample more is counted once.
LEMMA SamplePlaced ==
  ASSUME NEW s, NEW times, Placed(s, times), s.option \in Options,
         NEW value \in Samples, NEW j \in BucketIndex(s.option, value),
         NEW more \in Times, more[value] = times[value] + 1,
         \A v \in Samples \ {value} : more[v] = times[v],
         NEW c, HasFields(c), c.option = s.option,
         c.buckets = [s.buckets EXCEPT ![j] = @ + 1]
  PROVE  Placed(c, more)
<1> DEFINE o == s.option
           n == BucketCount(o)
           b == s.buckets
           k == c.buckets
<1>0. value \in Int /\ IsFiniteSet(Samples)
  BY SamplesAssumption
<1>1. n \in Nat /\ b \in [0 .. n - 1 -> Nat] /\ j \in 0 .. n - 1 /\ times \in Times
  BY <1>0, BoundsRise, OnTheRightSide DEF Placed
<1>2. /\ k \in [0 .. n - 1 -> Nat] /\ k[j] = b[j] + 1
      /\ \A y \in (0 .. n - 1) \ {j} : k[y] = b[y]
  <2> HIDE DEF o, n, b
  <2>1. k = [b EXCEPT ![j] = @ + 1]
    BY DEF b
  <2> HIDE DEF k
  <2> QED BY <1>1, <2>1
<1>3. ASSUME NEW i
      PROVE  /\ CountedFrom(c, i) = CountedFrom(s, i) + (IF j >= i THEN 1 ELSE 0)
             /\ CountedFrom(s, i) \in Int
  <2>1. Upper(k, i) = Upper(b, i) /\ (j \in Upper(b, i) <=> j >= i)
    BY <1>1, <1>2 DEF Upper
  <2> HIDE DEF k, b, n
  <2>2. /\ IsFiniteSet(Upper(b, i)) /\ Upper(b, i) \subseteq 0 .. n - 1
        /\ \A y \in Upper(b, i) : b[y] \in Int
    BY <1>1, UpperSums
  <2>3. /\ j \in Upper(b, i) => k[j] = b[j] + 1
        /\ \A y \in Upper(b, i) \ {j} : k[y] = b[y]
    BY <1>2, <2>2
  <2>4. SumFunctionOnSet(k, Upper(b, i)) =
          SumFunctionOnSet(b, Upper(b, i)) + (IF j \in Upper(b, i) THEN 1 ELSE 0)
    BY <2>2, <2>3, SumOneMore
  <2>5. SumFunctionOnSet(b, Upper(b, i)) \in Int
    BY <2>2, SumInt
  <2>6. /\ CountedFrom(c, i) = SumFunctionOnSet(k, Upper(k, i))
        /\ CountedFrom(s, i) = SumFunctionOnSet(b, Upper(b, i))
    BY DEF CountedFrom, Upper, k, b
  <2> QED BY <2>1, <2>4, <2>5, <2>6
<1>4. ASSUME NEW bound, NEW strictly
      PROVE  /\ Above(more, bound, strictly) =
                  Above(times, bound, strictly)
                    + (IF value \in Over(bound, strictly) THEN 1 ELSE 0)
             /\ Above(times, bound, strictly) \in Int
  <2> DEFINE P == Over(bound, strictly)
  <2>1. /\ IsFiniteSet(P) /\ (\A v \in P : times[v] \in Int)
        /\ Above(times, bound, strictly) \in Int
    BY <1>1, OverSums
  <2>2. (value \in P => more[value] = times[value] + 1)
        /\ \A v \in P \ {value} : more[v] = times[v]
    BY DEF Over
  <2>3. /\ Above(more, bound, strictly) = SumFunctionOnSet(more, P)
        /\ Above(times, bound, strictly) = SumFunctionOnSet(times, P)
    BY DEF Above, Over
  <2> HIDE DEF P
  <2>4. SumFunctionOnSet(more, P) =
          SumFunctionOnSet(times, P) + (IF value \in P THEN 1 ELSE 0)
    BY <2>1, <2>2, SumOneMore
  <2> QED BY <2>1, <2>3, <2>4 DEF P
<1>5. CountedFrom(c, 0) = Total(more)
  <2>1. CountedFrom(c, 0) = CountedFrom(s, 0) + 1
    BY <1>1, <1>3
  <2>2. Total(more) = Total(times) + 1
    BY <1>1, TotalsOfOneMore
  <2> QED BY <2>1, <2>2 DEF Placed
<1>6. ASSUME NEW i \in Bounds(o)
      PROVE  CountedFrom(c, i + 1) \in
               Above(more, Bound(o, i), o.case # "explicit")
                 .. Above(more, Bound(o, i), FALSE)
  <2> DEFINE x == Bound(o, i)
             strictly == o.case # "explicit"
             low == Above(times, x, strictly)
             high == Above(times, x, FALSE)
             from == CountedFrom(s, i + 1)
  <2>1. from \in low .. high
    BY DEF Placed
  <2>2. low \in Int /\ high \in Int /\ from \in Int
    BY <1>3, <1>4
  <2>3. x \in Int
    BY BoundsRise
  <2>4. /\ x < value => j >= i + 1
        /\ value < x => ~(j >= i + 1)
        /\ ~strictly /\ x = value => j >= i + 1
    BY <1>0, OnTheRightSide
  <2>5. /\ value \in Over(x, strictly) <=> value > x \/ (~strictly /\ value = x)
        /\ value \in Over(x, FALSE) <=> value > x \/ value = x
    BY DEF Over
  <2>6. Above(more, x, strictly) =
          low + (IF value \in Over(x, strictly) THEN 1 ELSE 0)
    BY <1>4
  <2>7. Above(more, x, FALSE) = high + (IF value \in Over(x, FALSE) THEN 1 ELSE 0)
    BY <1>4
  <2>8. CountedFrom(c, i + 1) = from + (IF j >= i + 1 THEN 1 ELSE 0)
    BY <1>3
  <2>9. \/ j >= i + 1 /\ value \in Over(x, FALSE)
        \/ ~(j >= i + 1) /\ value \notin Over(x, strictly)
    <3>1. value < x \/ value = x \/ value > x
      BY <1>0, <2>3
    <3>2. value > x <=> x < value
      BY <1>0, <2>3
    <3>3. value < x => ~(value > x) /\ value # x
      BY <1>0, <2>3
    <3> HIDE DEF x, strictly
    <3>4. CASE j >= i + 1
      BY <2>4, <2>5, <3>1, <3>2, <3>3, <3>4, Zenon
    <3>5. CASE ~(j >= i + 1)
      BY <2>4, <2>5, <3>1, <3>2, <3>3, <3>5, Zenon
    <3> QED BY <3>4, <3>5
  <2> DEFINE p == value \in Over(x, strictly)
             q == value \in Over(x, FALSE)
             r == j >= i + 1
             low2 == Above(more, x, strictly)
             high2 == Above(more, x, FALSE)
             from2 == CountedFrom(c, i + 1)
  <2>10. /\ low2 = low + (IF p THEN 1 ELSE 0)
         /\ high2 = high + (IF q THEN 1 ELSE 0)
         /\ from2 = from + (IF r THEN 1 ELSE 0)
         /\ (r /\ q) \/ (~r /\ ~p)
    BY <2>6, <2>7, <2>8, <2>9
  <2>11. p => q
    BY <2>5
  <2> HIDE DEF p, q, r, low, high, from, low2, high2, from2, x, strictly
  <2>12. from2 \in low2 .. high2
    BY <2>1, <2>2, <2>10
  <2> QED BY <2>12 DEF low2, high2, from2, x, strictly
<1> HIDE DEF o, n, b, k
<1>7. /\ c.option = o /\ o \in Options
      /\ c.buckets \in [0 .. BucketCount(o) - 1 -> Nat]
  BY <1>2 DEF k, n, o
<1> QED BY <1>5, <1>6, <1>7 DEF Placed

\* No sample lies between bounds that Merge() takes for the same.
NoneBetween ==
  \A first, second \in Options :
    BucketsApproximatelyEqual(first, second) =>
      \A i \in Bounds(first), v \in Samples :
        /\ v > Bound(first, i) <=> v > Bound(second, i)
        /\ v = Bound(first, i) <=> v = Bound(second, i)

\* The counters of two distributions are those of the samples of both.
LEMMA BothPlaced ==
  ASSUME NoneBetween,
         NEW f, NEW others, Placed(f, others), f.option \in Options,
         NEW t, NEW times, Placed(t, times), t.option \in Options,
         BucketsApproximatelyEqual(f.option, t.option),
         BucketCount(f.option) = BucketCount(t.option),
         NEW both \in Times, \A v \in Samples : both[v] = times[v] + others[v],
         NEW c, HasFields(c), c.option = t.option,
         c.buckets = [i \in DOMAIN t.buckets |-> t.buckets[i] + f.buckets[i]]
  PROVE  Placed(c, both)
<1> DEFINE o == t.option
           n == BucketCount(o)
           b == t.buckets
           a == f.buckets
           k == c.buckets
<1>1. /\ n \in Nat /\ b \in [0 .. n - 1 -> Nat] /\ a \in [0 .. n - 1 -> Nat]
      /\ times \in Times /\ others \in Times
  BY BoundsRise DEF Placed
<1>2. k \in [0 .. n - 1 -> Nat] /\ \A y \in 0 .. n - 1 : k[y] = b[y] + a[y]
  <2> HIDE DEF o, n
  <2>1. k = [i \in DOMAIN b |-> b[i] + a[i]]
    OBVIOUS
  <2> HIDE DEF b, a, k
  <2> QED BY <1>1, <2>1
<1>3. ASSUME NEW i
      PROVE  /\ CountedFrom(c, i) = CountedFrom(t, i) + CountedFrom(f, i)
             /\ CountedFrom(t, i) \in Int /\ CountedFrom(f, i) \in Int
  <2> DEFINE P == Upper(b, i)
  <2> HIDE DEF k, b, a, n
  <2>1. Upper(k, i) = P /\ Upper(a, i) = P
    BY <1>1, <1>2 DEF Upper
  <2>2. IsFiniteSet(P) /\ P \subseteq 0 .. n - 1
    BY <1>1, UpperSums
  <2>3. \A y \in P : b[y] \in Int /\ a[y] \in Int /\ k[y] = b[y] + a[y]
    <3> HIDE DEF P
    <3> QED BY <1>1, <1>2, <2>2
  <2>6. /\ CountedFrom(c, i) = SumFunctionOnSet(k, Upper(k, i))
        /\ CountedFrom(t, i) = SumFunctionOnSet(b, Upper(b, i))
        /\ CountedFrom(f, i) = SumFunctionOnSet(a, Upper(a, i))
    BY DEF CountedFrom, Upper, k, b, a
  <2>7. /\ CountedFrom(c, i) = SumFunctionOnSet(k, P)
        /\ CountedFrom(t, i) = SumFunctionOnSet(b, P)
        /\ CountedFrom(f, i) = SumFunctionOnSet(a, P)
    BY <2>1, <2>6
  <2> HIDE DEF P
  <2>4. SumFunctionOnSet(k, P) = SumFunctionOnSet(b, P) + SumFunctionOnSet(a, P)
    <3>1. IsFiniteSet(P)
      BY <2>2
    <3> QED BY <2>3, <3>1, SumAdds
  <2>5. SumFunctionOnSet(b, P) \in Int
    BY <2>2, <2>3, SumInt
  <2>8. SumFunctionOnSet(a, P) \in Int
    BY <2>2, <2>3, SumInt
  <2> QED BY <2>4, <2>5, <2>7, <2>8
<1>4. ASSUME NEW bound, NEW strictly
      PROVE  /\ Above(both, bound, strictly) =
                  Above(times, bound, strictly) + Above(others, bound, strictly)
             /\ Above(times, bound, strictly) \in Int
             /\ Above(others, bound, strictly) \in Int
  <2> DEFINE P == Over(bound, strictly)
  <2>1. /\ IsFiniteSet(P) /\ (\A v \in P : times[v] \in Int)
        /\ Above(times, bound, strictly) \in Int
    BY <1>1, OverSums
  <2>2. (\A v \in P : others[v] \in Int) /\ Above(others, bound, strictly) \in Int
    BY <1>1, OverSums
  <2>3. \A v \in P : both[v] = times[v] + others[v]
    BY DEF Over
  <2>4. /\ Above(both, bound, strictly) = SumFunctionOnSet(both, P)
        /\ Above(times, bound, strictly) = SumFunctionOnSet(times, P)
        /\ Above(others, bound, strictly) = SumFunctionOnSet(others, P)
    BY DEF Above, Over
  <2> HIDE DEF P
  <2>5. SumFunctionOnSet(both, P) =
          SumFunctionOnSet(times, P) + SumFunctionOnSet(others, P)
    BY <2>1, <2>2, <2>3, SumAdds
  <2> QED BY <2>1, <2>2, <2>4, <2>5
<1>5. CountedFrom(c, 0) = Total(both)
  <2>1. CountedFrom(c, 0) = CountedFrom(t, 0) + CountedFrom(f, 0)
    BY <1>3
  <2>2. Total(both) = Total(times) + Total(others)
    <3>1. IsFiniteSet(Samples)
      BY SamplesAssumption
    <3>2. \A v \in Samples : times[v] \in Int /\ others[v] \in Int
      BY <1>1 DEF Times
    <3> QED BY <3>1, <3>2, SumAdds DEF Total
  <2> QED BY <2>1, <2>2 DEF Placed
<1>6. ASSUME NEW i \in Bounds(o)
      PROVE  CountedFrom(c, i + 1) \in
               Above(both, Bound(o, i), o.case # "explicit")
                 .. Above(both, Bound(o, i), FALSE)
  <2> DEFINE x == Bound(o, i)
             y == Bound(f.option, i)
             strictly == o.case # "explicit"
             low == Above(times, x, strictly)
             high == Above(times, x, FALSE)
             from == CountedFrom(t, i + 1)
             low1 == Above(others, x, strictly)
             high1 == Above(others, x, FALSE)
             from1 == CountedFrom(f, i + 1)
             low2 == Above(both, x, strictly)
             high2 == Above(both, x, FALSE)
             from2 == CountedFrom(c, i + 1)
  <2>1. from \in low .. high
    BY DEF Placed
  <2>2. i \in Bounds(f.option) /\ f.option.case = o.case
    BY DEF Bounds, BucketsApproximatelyEqual
  <2>3. from1 \in Above(others, y, strictly) .. Above(others, y, FALSE)
    BY <2>2 DEF Placed
  <2>4. ASSUME NEW b0 PROVE Over(y, b0) = Over(x, b0)
    <3>1. \A v \in Samples : (v > y <=> v > x) /\ (v = y <=> v = x)
      BY <2>2 DEF NoneBetween
    <3> HIDE DEF x, y
    <3> QED BY <3>1 DEF Over
  <2>5. Above(others, y, strictly) = low1 /\ Above(others, y, FALSE) = high1
    BY <2>4 DEF Above, Over
  <2>6. /\ low2 = low + low1 /\ low \in Int /\ low1 \in Int
        /\ high2 = high + high1 /\ high \in Int /\ high1 \in Int
        /\ from2 = from + from1 /\ from \in Int /\ from1 \in Int
    BY <1>3, <1>4
  <2>7. from1 \in low1 .. high1
    BY <2>3, <2>5
  <2> HIDE DEF low, high, from, low1, high1, from1, low2, high2, from2, x, y, strictly
  <2>8. from2 \in low2 .. high2
    BY <2>1, <2>6, <2>7
  <2> QED BY <2>8 DEF low2, high2, from2, x, strictly
<1> HIDE DEF o, n, b, a, k
<1>7. /\ c.option = o /\ o \in Options
      /\ c.buckets \in [0 .. BucketCount(o) - 1 -> Nat]
  BY <1>2 DEF k, n, o
<1> QED BY <1>5, <1>6, <1>7 DEF Placed

PlacedInv == \A d \in Names : Placed(distribution[d], sampled[d])

\* An initialised distribution has counters, all zero.
LEMMA PlacedStart == DistributionInit => PlacedInv
<1> SUFFICES ASSUME DistributionInit, NEW d \in Names
             PROVE  Placed(distribution[d], sampled[d])
  BY DEF PlacedInv
<1> DEFINE s == distribution[d]
           times == sampled[d]
           o == s.option
           n == BucketCount(o)
           b == s.buckets
<1>1. times \in Times /\ \A v \in Samples : times[v] = 0
  BY DEF DistributionInit, Times
<1>2. /\ s = Empty(o) /\ o \in Options \cup {[case |-> "none"]}
  <2>1. PICK p \in BucketOptions : s = Initialized(p)
    BY DEF DistributionInit
  <2>2. CASE Accepted(p)
    BY <2>1, <2>2 DEF Initialized, Empty, Options
  <2>3. CASE ~Accepted(p)
    BY <2>1, <2>3 DEF Initialized, Empty
  <2> QED BY <2>2, <2>3
<1>3. HasFields(s) /\ b = [i \in 0 .. n - 1 |-> 0]
  <2> HIDE DEF o, s
  <2>1. s = Empty(o)
    BY <1>2
  <2> QED BY <2>1 DEF Empty, HasFields
<1>4. n \in Int
  <2>1. CASE o \in Options
    BY <2>1, BoundsRise
  <2>2. CASE o = [case |-> "none"]
    BY <2>2 DEF BucketCount
  <2> QED BY <1>2, <2>1, <2>2
<1>5. b \in [0 .. n - 1 -> Nat] /\ \A i \in 0 .. n - 1 : b[i] = 0
  BY <1>3
<1>6. ASSUME NEW i PROVE CountedFrom(s, i) = 0
  <2> HIDE DEF b, n
  <2>1. IsFiniteSet(Upper(b, i)) /\ Upper(b, i) \subseteq 0 .. n - 1
    BY <1>4, <1>5, UpperSums
  <2>2. \A j \in Upper(b, i) : b[j] = 0
    BY <1>5, <2>1
  <2>3. SumFunctionOnSet(b, Upper(b, i)) = 0
    BY <2>1, <2>2, SumZero
  <2> QED BY <2>3 DEF CountedFrom, Upper, b
<1>7. ASSUME NEW bound, NEW strictly PROVE Above(times, bound, strictly) = 0
  <2>1. IsFiniteSet(Over(bound, strictly))
    BY <1>1, OverSums
  <2>2. \A v \in Over(bound, strictly) : times[v] = 0
    BY <1>1 DEF Over
  <2> HIDE DEF times
  <2>3. SumFunctionOnSet(times, Over(bound, strictly)) = 0
    BY <2>1, <2>2, SumZero
  <2> QED BY <2>3 DEF Above, Over
<1>8. Total(times) = 0
  <2>1. IsFiniteSet(Samples)
    BY SamplesAssumption
  <2> HIDE DEF times
  <2> QED BY <1>1, <2>1, SumZero DEF Total
<1> HIDE DEF times, o, n, b
<1>9. Placed(s, times)
  <2> HIDE DEF s
  <2>1. s.option = o /\ s.buckets = b
    BY DEF s, o, b
  <2>2. /\ CountedFrom(s, 0) = Total(times)
        /\ \A i \in Bounds(o) :
             CountedFrom(s, i + 1) \in
               Above(times, Bound(o, i), o.case # "explicit")
                 .. Above(times, Bound(o, i), FALSE)
    <3>1. CountedFrom(s, 0) = Total(times)
      BY <1>6, <1>8
    <3>2. ASSUME NEW i \in Bounds(o)
          PROVE  CountedFrom(s, i + 1) \in
                   Above(times, Bound(o, i), o.case # "explicit")
                     .. Above(times, Bound(o, i), FALSE)
      <4>1. CountedFrom(s, i + 1) = 0
        BY <1>6
      <4>2. /\ Above(times, Bound(o, i), o.case # "explicit") = 0
            /\ Above(times, Bound(o, i), FALSE) = 0
        BY <1>7
      <4>3. 0 \in 0 .. 0
        OBVIOUS
      <4> QED BY <4>1, <4>2, <4>3, Zenon
    <3> QED BY <3>1, <3>2
  <2> QED BY <1>1, <1>2, <1>3, <1>5, <2>1, <2>2 DEF Placed, n
<1> QED BY <1>9 DEF s, times

\* What AddSample() makes of a distribution.
LEMMA AddSamplePlaces ==
  ASSUME SummaryInv, PlacedInv, NEW d \in Names, NEW value \in Samples,
         AddSample(d, value)
  PROVE  PlacedInv'
<1> DEFINE s == distribution[d]
           times == sampled[d]
           more == [times EXCEPT ![value] = @ + 1]
           counted == Counted(s, value)
<1>1. PICK j \in BucketIndex(s.option, value) :
        distribution' = [distribution EXCEPT ![d] = [counted EXCEPT !.buckets[j] = @ + 1]]
  BY DEF AddSample
<1> DEFINE c == [counted EXCEPT !.buckets[j] = @ + 1]
<1>2. sampled' = [sampled EXCEPT ![d] = more]
  BY DEF AddSample
<1>3. /\ Placed(s, times) /\ s.option \in Options /\ HasFields(s)
      /\ times \in Times
  <2>1. Placed(s, times)
    BY DEF PlacedInv
  <2>2. s.option.case # "none"
    BY DEF AddSample
  <2> HIDE DEF s, times
  <2>3. /\ s.option \in Options \cup {[case |-> "none"]}
        /\ HasFields(s) /\ times \in Times
    BY <2>1 DEF Placed
  <2> QED BY <2>1, <2>2, <2>3
<1>4. /\ more \in Times /\ more[value] = times[value] + 1
      /\ \A v \in Samples \ {value} : more[v] = times[v]
  <2> HIDE DEF times
  <2> QED BY <1>3 DEF Times
<1>5. HasFields(counted) /\ counted.option = s.option /\ counted.buckets = s.buckets
  <2> HIDE DEF s
  <2> QED BY <1>3 DEF HasFields, Counted
<1>6. /\ HasFields(c) /\ c.option = s.option
      /\ c.buckets = [s.buckets EXCEPT ![j] = @ + 1]
  <2> HIDE DEF counted, s
  <2> QED BY <1>5 DEF HasFields
<1> HIDE DEF c, more
<1>7. Placed(c, more)
  <2> HIDE DEF s, times
  <2> QED BY <1>3, <1>4, <1>6, SamplePlaced
<1>8. /\ DOMAIN distribution = Names /\ DOMAIN sampled = Names
      /\ \A e \in Names : Placed(distribution[e], sampled[e])
  BY DEF SummaryInv, PlacedInv
<1>9. /\ distribution'[d] = c /\ sampled'[d] = more
      /\ \A e \in Names \ {d} : distribution'[e] = distribution[e] /\ sampled'[e] = sampled[e]
  BY <1>1, <1>2, <1>8 DEF c
<1>10. ASSUME NEW e \in Names PROVE Placed(distribution'[e], sampled'[e])
  BY <1>7, <1>8, <1>9
<1> QED BY <1>10 DEF PlacedInv

\* The fields of a merged distribution that hold its counters.
LEMMA MergedBuckets ==
  ASSUME NEW from, NEW to, HasFields(to), NEW c, c = Merged(from, to)
  PROVE  /\ HasFields(c) /\ c.option = to.option
         /\ c.buckets = [i \in DOMAIN to.buckets |-> to.buckets[i] + from.buckets[i]]
<1> DEFINE b == [i \in DOMAIN to.buckets |-> to.buckets[i] + from.buckets[i]]
<1>1. PICK count, mean, least, most, squares :
        c = [to EXCEPT !.count = count, !.mean = mean, !.minimum = least,
                       !.maximum = most, !.squares = squares, !.buckets = b]
  BY DEF Merged
<1> HIDE DEF b
<1>2. HasFields(c) /\ c.option = to.option /\ c.buckets = b
  BY <1>1 DEF HasFields
<1> QED BY <1>2 DEF b

\* What Merge() makes of one.
LEMMA MergePlaces ==
  ASSUME NoneBetween, SummaryInv, PlacedInv, NEW from \in Names, NEW to \in Names,
         Merge(from, to)
  PROVE  PlacedInv'
<1> DEFINE f == distribution[from]
           t == distribution[to]
           both == [v \in Samples |-> sampled[to][v] + sampled[from][v]]
           c == IF t.count = 0 THEN f ELSE Merged(f, t)
<1>1. /\ BucketsApproximatelyEqual(f.option, t.option)
      /\ BucketCount(f.option) = BucketCount(t.option)
  BY DEF Merge
<1>2. Placed(f, sampled[from]) /\ Placed(t, sampled[to])
  BY DEF PlacedInv
<1>3. both \in Times /\ \A v \in Samples : both[v] = sampled[to][v] + sampled[from][v]
  BY <1>2 DEF Placed, Times
<1>4. /\ distribution' = [distribution EXCEPT ![to] = c]
      /\ sampled' = [sampled EXCEPT ![to] = both]
  BY DEF Merge
<1>5. f.option \in Options /\ t.option \in Options
  <2> DEFINE p == f.option
             q == t.option
  <2>1. p.case = q.case /\ p.case # "none"
    <3> HIDE DEF p, q
    <3>1. BucketsApproximatelyEqual(p, q)
      BY <1>1 DEF p, q
    <3> QED BY <3>1 DEF BucketsApproximatelyEqual
  <2>2. p \in Options \cup {[case |-> "none"]} /\ q \in Options \cup {[case |-> "none"]}
    BY <1>2 DEF Placed
  <2> HIDE DEF p, q
  <2>3. p \in Options /\ q \in Options
    BY <2>1, <2>2
  <2> QED BY <2>3 DEF p, q
<1>6. Placed(c, both)
  <2> HIDE DEF both, f, t
  <2>1. CASE t.count = 0
    <3>1. sampled[to] \in Times /\ Total(sampled[to]) = 0
      BY <2>1 DEF SummaryInv, IsSummary, t
    <3>2. \A v \in Samples : sampled[to][v] = 0
      <4>1. \A v \in Samples : sampled[to][v] \in Nat /\ ~(sampled[to][v] > 0)
        BY <3>1, TotalsAreInts DEF Times
      <4> QED BY <4>1
    <3>3. sampled[from] \in Times /\ both \in Times
      BY <1>2, <1>3 DEF Placed
    <3>4. both = sampled[from]
      BY <1>3, <3>2, <3>3 DEF Times
    <3> QED BY <1>2, <2>1, <3>4
  <2>2. CASE t.count # 0
    <3> DEFINE m == Merged(f, t)
    <3>1. HasFields(t)
      BY <1>2 DEF Placed
    <3>2. /\ HasFields(m) /\ m.option = t.option
          /\ m.buckets = [i \in DOMAIN t.buckets |-> t.buckets[i] + f.buckets[i]]
      BY <3>1, MergedBuckets
    <3> HIDE DEF m
    <3>3. Placed(m, both)
      BY <1>1, <1>2, <1>3, <1>5, <3>2, BothPlaced
    <3> QED BY <2>2, <3>3 DEF m
  <2> QED BY <2>1, <2>2
<1> HIDE DEF c, both
<1>7. /\ DOMAIN distribution = Names /\ DOMAIN sampled = Names
      /\ \A e \in Names : Placed(distribution[e], sampled[e])
  BY DEF SummaryInv, PlacedInv
<1>8. /\ distribution'[to] = c /\ sampled'[to] = both
      /\ \A e \in Names \ {to} : distribution'[e] = distribution[e] /\ sampled'[e] = sampled[e]
  BY <1>4, <1>7
<1>9. ASSUME NEW e \in Names PROVE Placed(distribution'[e], sampled'[e])
  BY <1>6, <1>7, <1>8
<1> QED BY <1>9 DEF PlacedInv

\* Where no sample lies between bounds that Merge() takes for the same, every
\* sample is counted once and on the right side of every bound, however it came
\* in.  Without that the sample may be in the bucket that another distribution
\* chose for it, a neighbour of its own.
THEOREM SamplesCounted ==
  ASSUME NoneBetween PROVE DistributionSpec => []BucketsCountSamples
<1>1. ASSUME SummaryInv, PlacedInv, [DistributionNext]_distributionVars
      PROVE  PlacedInv'
  <2>1. CASE UNCHANGED distributionVars
    BY <1>1, <2>1 DEF distributionVars, PlacedInv
  <2>2. "from" \in Names /\ "to" \in Names
    BY DEF Names
  <2> QED BY <1>1, <2>1, <2>2, AddSamplePlaces, MergePlaces DEF DistributionNext
<1>2. PlacedInv => BucketsCountSamples
  BY DEF PlacedInv, BucketsCountSamples, Placed
<1> QED BY <1>1, <1>2, PlacedStart, SummaryInvariance, PTL DEF DistributionSpec

-----------------------------------------------------------------------------
(* Merged operations.                                                      *)

\* Congruence is a difference of whole words.
LEMMA Congruent ==
  ASSUME NEW a \in Int, NEW n \in Nat \ {0}
  PROVE  a % n = 0 <=> \E k \in Int : a = k * n
<1>1. a = n * (a \div n) + (a % n) /\ a \div n \in Int /\ a % n \in 0 .. n - 1
  OBVIOUS
<1>2. ASSUME a % n = 0 PROVE \E k \in Int : a = k * n
  <2>1. a = (a \div n) * n
    BY <1>1, <1>2
  <2> QED BY <1>1, <2>1
<1>3. ASSUME NEW k \in Int, a = k * n PROVE a % n = 0
  <2> DEFINE d == a \div n
             r == a % n
  <2>1. /\ a = n * d + r /\ d \in Int /\ r \in 0 .. n - 1
    BY <1>1
  <2> HIDE DEF d, r
  <2>2. r = (k - d) * n
    BY <1>3, <2>1
  <2>3. k - d > 0 => (k - d) * n >= n
    BY <2>1
  <2>4. k - d < 0 => (k - d) * n < 0
    BY <2>1
  <2>5. k - d = 0
    BY <2>1, <2>2, <2>3, <2>4
  <2>6. r = 0
    BY <2>2, <2>5
  <2> QED BY <2>6 DEF r
<1> QED BY <1>2, <1>3

Words == -WordMax - 1 .. WordMax

WordCount == 2 * (WordMax + 1)

\* Addition of words loses whole words at most.
LEMMA PlusWraps ==
  ASSUME NEW x \in Int, NEW y \in Int
  PROVE  /\ Plus(x, y) \in Words
         /\ \E k \in Int : Plus(x, y) = x + y + k * WordCount
<1> DEFINE n == WordCount
           a == x + y + WordMax + 1
           d == a \div n
           r == a % n
<1>1. WordMax \in Nat /\ n \in Nat \ {0} /\ a \in Int
  BY MetricsAssumption DEF WordCount
<1>2. a = n * d + r /\ d \in Int /\ r \in 0 .. n - 1
  <2> HIDE DEF n, a
  <2> QED BY <1>1
<1>3. Plus(x, y) = r - (WordMax + 1) /\ n = 2 * (WordMax + 1)
  BY DEF Plus, WordCount
<1>4. Plus(x, y) \in Words
  <2> HIDE DEF n, a, d, r
  <2> QED BY <1>1, <1>2, <1>3 DEF Words
<1>5. Plus(x, y) = x + y + (-d) * n /\ -d \in Int
  <2>1. a = x + y + WordMax + 1
    OBVIOUS
  <2> HIDE DEF n, a, d, r
  <2>2. (-d) * n = -(n * d)
    BY <1>1, <1>2
  <2> QED BY <1>1, <1>2, <1>3, <2>1, <2>2
<1> HIDE DEF n, d
<1>6. \E k \in Int : Plus(x, y) = x + y + k * n
  BY <1>5
<1> QED BY <1>4, <1>6 DEF n

\* A sum that is right stays so.
LEMMA SumStaysRight ==
  ASSUME NEW value \in Int, NEW sum \in Int, NEW x \in Int,
         (value - sum) % WordCount = 0
  PROVE  (Plus(value, x) - (sum + x)) % WordCount = 0
<1>1. WordCount \in Nat \ {0}
  BY MetricsAssumption DEF WordCount
<1>2. PICK k \in Int : Plus(value, x) = value + x + k * WordCount
  BY PlusWraps
<1>3. PICK m \in Int : value - sum = m * WordCount
  BY <1>1, Congruent
<1>4. Plus(value, x) - (sum + x) = (k + m) * WordCount
  <2>1. (k + m) * WordCount = k * WordCount + m * WordCount
    BY <1>1
  <2>2. k * WordCount \in Int /\ m * WordCount \in Int
    BY <1>1
  <2> HIDE DEF WordCount
  <2> QED BY <1>2, <1>3, <2>1, <2>2
<1>5. Plus(value, x) - (sum + x) \in Int /\ k + m \in Int
  BY <1>1, <1>4
<1> QED BY <1>1, <1>4, <1>5, Congruent

\* One time more.
LEMMA EarliestGrows ==
  ASSUME NEW times \in SUBSET Nat, NEW s \in Nat, IsEarliestSet(s, times),
         NEW x \in Nat
  PROVE  Start(x, s) \in Nat /\ IsEarliestSet(Start(x, s), times \cup {x})
  BY DEF IsEarliestSet, Start

LEMMA LastGrows ==
  ASSUME NEW times \in SUBSET Nat, NEW e \in Nat, IsLast(e, times), NEW x \in Nat
  PROVE  End(x, e) \in Nat /\ IsLast(End(x, e), times \cup {x})
  BY DEF IsLast, End

LEMMA OneTime ==
  ASSUME NEW x \in Nat PROVE IsEarliestSet(x, {x}) /\ IsLast(x, {x})
  BY DEF IsEarliestSet, IsLast

-----------------------------------------------------------------------------
(* Sums.                                                                   *)

\* The places of the values that IsDelta() speaks of.
Alike(ops, places, first) ==
  {p \in places : At(ops, p).case = At(ops, first).case}

Summands(ops, places, first) ==
  {p \in Alike(ops, places, first) : At(ops, p).buckets = At(ops, first).buckets}

ValuesAt(ops, places) == [p \in places |-> At(ops, p).value]

StartTimes(ops, places) == {At(ops, p).start : p \in places}

EndTimes(ops, places) == {At(ops, p).end : p \in places}

SumAt(ops, places) == SumFunctionOnSet(ValuesAt(ops, places), places)

\* v is the sum of the values in places, of which first is the first.
DeltaFrom(v, ops, places, summed, first) ==
  /\ first \in places /\ \A p \in places : p = first \/ Before(first, p)
  /\ v.case = At(ops, first).case /\ v.buckets = At(ops, first).buckets
  /\ IsEarliestSet(v.start, StartTimes(ops, Alike(ops, places, first)))
  /\ IsLast(v.end, EndTimes(ops, Alike(ops, places, first)))
  /\ v.value \in Words
  /\ IF At(ops, first).case \in summed
     THEN (v.value - SumAt(ops, Summands(ops, places, first))) % WordCount = 0
     ELSE v.value = At(ops, first).value

LEMMA DeltaIs ==
  ASSUME NEW v, NEW ops, NEW places, NEW summed
  PROVE  IsDelta(v, ops, places, summed)
           <=> \E first \in places : DeltaFrom(v, ops, places, summed, first)
  BY DEF IsDelta, DeltaFrom, Alike, Summands, ValuesAt, StartTimes, EndTimes, SumAt, Words,
         WordCount

LEMMA MetricFields ==
  ASSUME NEW v \in MetricValues
  PROVE  /\ v.name \in MetricNames /\ v.labels \in Labels
         /\ v.value \in Int /\ v.value \in Words /\ v.start \in Nat /\ v.end \in Nat
         /\ v # NoMetric
  BY OperationsAssumption, MetricsAssumption DEF MetricValues, Words

LEMMA SumOfOne ==
  ASSUME NEW ops, NEW q, At(ops, q).value \in Int
  PROVE  SumAt(ops, {q}) = At(ops, q).value
<1> DEFINE f == ValuesAt(ops, {q})
<1>1. f[q] \in Int /\ f[q] = At(ops, q).value
  BY DEF ValuesAt
<1> HIDE DEF f
<1>2. SumFunctionOnSet(f, {q}) = f[q] + SumFunctionOnSet(f, {q} \ {q})
  <2>1. IsFiniteSet({q}) /\ q \in {q} /\ \A x \in {q} : f[x] \in Int
    BY <1>1, FS_Singleton
  <2> QED BY <2>1, SumTakes
<1>3. {q} \ {q} = {} /\ SumFunctionOnSet(f, {}) = 0
  BY SumEmpty
<1>4. SumFunctionOnSet(f, {q}) = f[q]
  BY <1>1, <1>2, <1>3
<1> QED BY <1>1, <1>4 DEF SumAt, f

LEMMA SumOfMore ==
  ASSUME NEW ops, NEW S, IsFiniteSet(S), \A p \in S : At(ops, p).value \in Int,
         NEW q, q \notin S, At(ops, q).value \in Int
  PROVE  /\ SumAt(ops, S \cup {q}) = SumAt(ops, S) + At(ops, q).value
         /\ SumAt(ops, S) \in Int
<1> DEFINE f == ValuesAt(ops, S)
           U == S \cup {q}
           g == ValuesAt(ops, U)
<1>1. /\ g[q] = At(ops, q).value /\ q \in U
      /\ \A p \in U : g[p] \in Int
      /\ \A p \in S : f[p] \in Int /\ g[p] = f[p]
      /\ U \ {q} = S
  BY DEF ValuesAt
<1>2. IsFiniteSet(U)
  BY FS_AddElement
<1> HIDE DEF f, g, U
<1>3. SumFunctionOnSet(g, U) = g[q] + SumFunctionOnSet(g, U \ {q})
  BY <1>1, <1>2, SumTakes
<1>4. SumFunctionOnSet(g, S) = SumFunctionOnSet(f, S)
  BY <1>1, SumSame
<1>5. SumFunctionOnSet(f, S) \in Int
  BY <1>1, SumInt
<1>6. /\ SumAt(ops, U) = SumFunctionOnSet(g, U)
      /\ SumAt(ops, S) = SumFunctionOnSet(f, S)
  BY DEF SumAt, f, g
<1>7. SumFunctionOnSet(g, U) = SumFunctionOnSet(f, S) + g[q]
  <2>1. g[q] \in Int /\ U \ {q} = S
    BY <1>1
  <2>2. SumFunctionOnSet(g, U) = g[q] + SumFunctionOnSet(f, S)
    BY <1>3, <1>4, <2>1, Zenon
  <2> DEFINE a == g[q]
             b == SumFunctionOnSet(f, S)
  <2>3. a \in Int /\ b \in Int
    BY <1>5, <2>1
  <2> HIDE DEF a, b
  <2>4. a + b = b + a
    BY <2>3
  <2> QED BY <2>2, <2>4 DEF a, b
<1>8. SumAt(ops, U) = SumAt(ops, S) + At(ops, q).value
  BY <1>1, <1>6, <1>7, Zenon
<1> QED BY <1>5, <1>6, <1>8 DEF U

\* The sum of one value is that value.
LEMMA DeltaOfOne ==
  ASSUME NEW ops, NEW q, At(ops, q) \in MetricValues, NEW summed
  PROVE  IsDelta(At(ops, q), ops, {q}, summed)
<1> DEFINE v == At(ops, q)
<1>1. /\ v.value \in Int /\ v.value \in Words /\ v.start \in Nat /\ v.end \in Nat
  BY MetricFields
<1>2. Alike(ops, {q}, q) = {q} /\ Summands(ops, {q}, q) = {q}
  BY DEF Alike, Summands
<1>3. StartTimes(ops, {q}) = {v.start} /\ EndTimes(ops, {q}) = {v.end}
  BY DEF StartTimes, EndTimes
<1>4. (v.value - SumAt(ops, {q})) % WordCount = 0
  <2>1. SumAt(ops, {q}) = v.value
    BY <1>1, SumOfOne
  <2>2. WordCount \in Nat \ {0}
    BY MetricsAssumption DEF WordCount
  <2>3. v.value - v.value = 0 * WordCount /\ v.value - v.value \in Int /\ 0 \in Int
    BY <1>1, <2>2
  <2> HIDE DEF v
  <2> QED BY <2>1, <2>2, <2>3, Congruent
<1>5. IsEarliestSet(v.start, {v.start}) /\ IsLast(v.end, {v.end})
  BY <1>1, OneTime
<1> HIDE DEF v
<1>6. DeltaFrom(v, ops, {q}, summed, q)
  BY <1>1, <1>2, <1>3, <1>4, <1>5 DEF DeltaFrom, v
<1> QED BY <1>6, DeltaIs DEF v

\* A value more is added.
LEMMA DeltaOfMore ==
  ASSUME NEW v \in MetricValues, NEW ops, NEW places, NEW summed,
         IsDelta(v, ops, places, summed), IsFiniteSet(places),
         \A p \in places : At(ops, p) \in MetricValues,
         NEW q, At(ops, q) \in MetricValues, q \notin places,
         \A p \in places : Before(p, q)
  PROVE  /\ MergeDeltaMetricValue(At(ops, q), v, summed) \in MetricValues
         /\ IsDelta(MergeDeltaMetricValue(At(ops, q), v, summed), ops,
                    places \cup {q}, summed)
<1>1. PICK first \in places : DeltaFrom(v, ops, places, summed, first)
  BY DeltaIs
<1> DEFINE u == At(ops, q)
           w == MergeDeltaMetricValue(u, v, summed)
           more == places \cup {q}
           same == Alike(ops, places, first)
           added == Summands(ops, places, first)
           like == At(ops, first)
<1>2. /\ u.value \in Int /\ u.start \in Nat /\ u.end \in Nat
      /\ v.value \in Int /\ v.value \in Words /\ v.start \in Nat /\ v.end \in Nat
  BY MetricFields
<1>3. /\ first \in more /\ \A p \in more : p = first \/ Before(first, p)
  BY <1>1 DEF DeltaFrom
<1>4. /\ StartTimes(ops, same) \in SUBSET Nat /\ EndTimes(ops, same) \in SUBSET Nat
      /\ IsFiniteSet(added) /\ (\A p \in added : At(ops, p).value \in Int)
      /\ q \notin added
  <2>1. \A p \in places : /\ At(ops, p).value \in Int /\ At(ops, p).start \in Nat
                          /\ At(ops, p).end \in Nat
    BY MetricFields
  <2>2. same \subseteq places /\ added \subseteq places
    BY DEF Alike, Summands
  <2>3. IsFiniteSet(added)
    BY <2>2, FS_Subset
  <2> HIDE DEF same, added
  <2> QED BY <2>1, <2>2, <2>3 DEF StartTimes, EndTimes
<1>5. /\ v.case = like.case /\ v.buckets = like.buckets
      /\ IsEarliestSet(v.start, StartTimes(ops, same)) /\ IsLast(v.end, EndTimes(ops, same))
      /\ IF like.case \in summed
         THEN (v.value - SumAt(ops, added)) % WordCount = 0
         ELSE v.value = like.value
  BY <1>1 DEF DeltaFrom
<1>6. CASE u.case # v.case
  <2>1. w = v
    BY <1>6 DEF MergeDeltaMetricValue
  <2>2. Alike(ops, more, first) = same
    BY <1>5, <1>6 DEF Alike
  <2>3. Summands(ops, more, first) = added
    BY <2>2 DEF Summands
  <2> HIDE DEF w, u, more, same, added, like
  <2>4. DeltaFrom(v, ops, more, summed, first)
    BY <1>2, <1>3, <1>5, <2>2, <2>3 DEF DeltaFrom, like
  <2>5. IsDelta(v, ops, more, summed)
    BY <1>3, <2>4, DeltaIs
  <2> QED BY <2>1, <2>5 DEF w, u, more
<1>7. CASE u.case = v.case
  <2> DEFINE adds == like.case \in summed /\ u.buckets = like.buckets
             value == IF adds THEN Plus(v.value, u.value) ELSE v.value
  <2>1. /\ w \in MetricValues /\ w.case = v.case /\ w.buckets = v.buckets
        /\ w.start = Start(u.start, v.start) /\ w.end = End(u.end, v.end)
        /\ w.value = value
    <3>1. w = [v EXCEPT !.start = Start(u.start, @), !.end = End(u.end, @),
                        !.value = value]
      BY <1>5, <1>7 DEF MergeDeltaMetricValue
    <3>2. Start(u.start, v.start) \in Nat /\ End(u.end, v.end) \in Nat
      BY <1>2, <1>4, <1>5, EarliestGrows, LastGrows
    <3>3. value \in Words
      BY <1>2, PlusWraps
    <3> HIDE DEF w, u, value
    <3> QED BY <3>1, <3>2, <3>3 DEF MetricValues, Words
  <2>2. Alike(ops, more, first) = same \cup {q}
    BY <1>5, <1>7 DEF Alike
  <2>3. Summands(ops, more, first) = IF u.buckets = like.buckets
                                     THEN added \cup {q} ELSE added
    BY <2>2 DEF Summands
  <2>4. /\ StartTimes(ops, same \cup {q}) = StartTimes(ops, same) \cup {u.start}
        /\ EndTimes(ops, same \cup {q}) = EndTimes(ops, same) \cup {u.end}
    BY DEF StartTimes, EndTimes
  <2>5. /\ IsEarliestSet(w.start, StartTimes(ops, Alike(ops, more, first)))
        /\ IsLast(w.end, EndTimes(ops, Alike(ops, more, first)))
    <3>1. IsEarliestSet(Start(u.start, v.start), StartTimes(ops, same) \cup {u.start})
      BY <1>2, <1>4, <1>5, EarliestGrows
    <3>2. IsLast(End(u.end, v.end), EndTimes(ops, same) \cup {u.end})
      BY <1>2, <1>4, <1>5, LastGrows
    <3> HIDE DEF w, u, same, more, value
    <3> QED BY <2>1, <2>2, <2>4, <3>1, <3>2
  <2>6. IF like.case \in summed
        THEN (w.value - SumAt(ops, Summands(ops, more, first))) % WordCount = 0
        ELSE w.value = like.value
    <3>1. CASE adds
      <4>1. /\ SumAt(ops, added \cup {q}) = SumAt(ops, added) + u.value
            /\ SumAt(ops, added) \in Int
        BY <1>2, <1>4, SumOfMore
      <4>2. (Plus(v.value, u.value) - (SumAt(ops, added) + u.value)) % WordCount = 0
        BY <1>2, <1>5, <3>1, <4>1, SumStaysRight
      <4> QED BY <2>1, <2>3, <3>1, <4>1, <4>2
    <3>2. CASE ~adds
      <4>1. w.value = v.value
        BY <2>1, <3>2
      <4>2. like.case \in summed => Summands(ops, more, first) = added
        BY <2>3, <3>2
      <4> HIDE DEF w, added, like
      <4> QED BY <1>5, <4>1, <4>2
    <3> QED BY <3>1, <3>2
  <2>7. w.value \in Words
    BY <2>1, MetricFields
  <2> HIDE DEF w, u, more, same, added, like, value
  <2>8. DeltaFrom(w, ops, more, summed, first)
    BY <1>3, <1>5, <2>1, <2>5, <2>6, <2>7 DEF DeltaFrom, like
  <2>9. IsDelta(w, ops, more, summed)
    BY <1>3, <2>8, DeltaIs
  <2> QED BY <2>1, <2>9 DEF w, u, more
<1> QED BY <1>6, <1>7

\* The same values in the same places have the same sum.
LEMMA DeltaSame ==
  ASSUME NEW v, NEW ops, NEW ops2, NEW places, NEW summed,
         \A p \in places : At(ops2, p) = At(ops, p),
         IsDelta(v, ops, places, summed)
  PROVE  IsDelta(v, ops2, places, summed)
<1>1. PICK first \in places : DeltaFrom(v, ops, places, summed, first)
  BY DeltaIs
<1> DEFINE same == Alike(ops, places, first)
           added == Summands(ops, places, first)
<1>2. /\ Alike(ops2, places, first) = same
      /\ same \subseteq places
  BY DEF Alike
<1>3. Summands(ops2, places, first) = added /\ added \subseteq places
  BY <1>2 DEF Summands
<1> HIDE DEF same, added
<1>4. StartTimes(ops2, same) = StartTimes(ops, same) /\ EndTimes(ops2, same) = EndTimes(ops, same)
  BY <1>2 DEF StartTimes, EndTimes
<1>5. SumAt(ops2, added) = SumAt(ops, added)
  <2>1. ValuesAt(ops2, added) = ValuesAt(ops, added)
    BY <1>3 DEF ValuesAt
  <2> QED BY <2>1 DEF SumAt
<1>6. DeltaFrom(v, ops2, places, summed, first)
  <2>1. At(ops2, first) = At(ops, first)
    OBVIOUS
  <2> QED BY <1>1, <1>2, <1>3, <1>4, <1>5, <2>1 DEF DeltaFrom, same, added
<1> QED BY <1>6, DeltaIs

-----------------------------------------------------------------------------
(* The latest value.                                                       *)

LEMMA LatestOfOne ==
  ASSUME NEW ops, NEW q, At(ops, q) \in MetricValues, ~Before(q, q)
  PROVE  IsLatest(At(ops, q), ops, {q})
<1>1. At(ops, q).end \in Nat
  BY MetricFields
<1> QED BY <1>1 DEF IsLatest

LEMMA LatestOfMore ==
  ASSUME NEW v, NEW ops, NEW places, IsLatest(v, ops, places),
         \A p \in places : At(ops, p) \in MetricValues,
         NEW q, At(ops, q) \in MetricValues, ~Before(q, q),
         \A p \in places : Before(p, q) /\ ~Before(q, p)
  PROVE  /\ MergeCumulativeOrGaugeMetricValue(At(ops, q), v) \in MetricValues
         /\ IsLatest(MergeCumulativeOrGaugeMetricValue(At(ops, q), v), ops,
                     places \cup {q})
<1>1. PICK p \in places : /\ v = At(ops, p)
                          /\ \A r \in places : /\ At(ops, r).end <= v.end
                                               /\ Before(p, r) => At(ops, r).end < v.end
  BY DEF IsLatest
<1>2. /\ At(ops, q).end \in Nat /\ v.end \in Nat /\ v \in MetricValues
      /\ \A r \in places : At(ops, r).end \in Nat
  BY <1>1, MetricFields
<1> DEFINE u == At(ops, q)
           End2(r) == At(ops, r).end
<1>3. CASE u.end < v.end
  <2>1. MergeCumulativeOrGaugeMetricValue(u, v) = v
    BY <1>3 DEF MergeCumulativeOrGaugeMetricValue
  <2>2. \A r \in places \cup {q} :
          /\ End2(r) <= v.end
          /\ Before(p, r) => End2(r) < v.end
    BY <1>1, <1>2, <1>3
  <2>3. IsLatest(v, ops, places \cup {q})
    BY <1>1, <2>2 DEF IsLatest
  <2> QED BY <1>2, <2>1, <2>3
<1>4. CASE ~(u.end < v.end)
  <2>1. MergeCumulativeOrGaugeMetricValue(u, v) = u
    BY <1>4 DEF MergeCumulativeOrGaugeMetricValue
  <2>2. \A r \in places \cup {q} :
          /\ End2(r) <= u.end
          /\ Before(q, r) => End2(r) < u.end
    <3>1. \A r \in places : End2(r) <= u.end /\ ~Before(q, r)
      <4>1. \A r \in places : End2(r) <= v.end /\ End2(r) \in Nat
        BY <1>1, <1>2
      <4>2. v.end <= u.end /\ v.end \in Nat /\ u.end \in Nat
        BY <1>2, <1>4
      <4> HIDE DEF End2, u
      <4> QED BY <4>1, <4>2
    <3> QED BY <1>2, <3>1
  <2>3. IsLatest(u, ops, places \cup {q})
    BY <2>2 DEF IsLatest
  <2> QED BY <2>1, <2>3
<1> QED BY <1>3, <1>4

LEMMA LatestSame ==
  ASSUME NEW v, NEW ops, NEW ops2, NEW places,
         \A p \in places : At(ops2, p) = At(ops, p), IsLatest(v, ops, places)
  PROVE  IsLatest(v, ops2, places)
  BY DEF IsLatest

-----------------------------------------------------------------------------
(* Tables.                                                                 *)

\* What a cell holds of the values in places: none, their sum, the latest.
SumCell(v, ops, places, summed) ==
  IF places = {} THEN v = NoMetric
  ELSE v \in MetricValues /\ IsDelta(v, ops, places, summed)

LatestCell(v, ops, places) ==
  IF places = {} THEN v = NoMetric ELSE v \in MetricValues /\ IsLatest(v, ops, places)

Cell(v, ops, places, name) ==
  IF name \in DeltaMetrics THEN SumCell(v, ops, places, SummedInReports)
  ELSE LatestCell(v, ops, places)

Of(ops, places, name) == {p \in places : At(ops, p).name = name}

OfBoth(ops, places, name, label) ==
  {p \in places : At(ops, p).name = name /\ At(ops, p).labels = label}

\* Places in the order of the reports.
Recorded(ops, places) ==
  /\ IsFiniteSet(places)
  /\ \A p \in places : At(ops, p) \in MetricValues

ReportTable(t, ops, places) ==
  /\ t = [n \in MetricNames |-> [l \in Labels |-> t[n][l]]]
  /\ \A n \in MetricNames, l \in Labels :
       Cell(t[n][l], ops, OfBoth(ops, places, n, l), n)

QuotaTable(t, ops, places) ==
  /\ t = [n \in MetricNames |-> t[n]]
  /\ \A n \in MetricNames :
       SumCell(t[n], ops, Of(ops, places, n), SummedInQuota)

\* A place that comes after others.
ComesNext(ops, places, q) ==
  /\ At(ops, q) \in MetricValues /\ q \notin places /\ ~Before(q, q)
  /\ \A p \in places : Before(p, q) /\ ~Before(q, p)

LEMMA SumCellGrows ==
  ASSUME NEW v, NEW ops, NEW places, NEW summed, Recorded(ops, places),
         SumCell(v, ops, places, summed), NEW q, ComesNext(ops, places, q)
  PROVE  SumCell(IF v = NoMetric THEN At(ops, q)
                 ELSE MergeDeltaMetricValue(At(ops, q), v, summed),
                 ops, places \cup {q}, summed)
<1>1. CASE places = {}
  <2>1. v = NoMetric /\ places \cup {q} = {q}
    BY <1>1 DEF SumCell
  <2>2. IsDelta(At(ops, q), ops, {q}, summed)
    BY DeltaOfOne DEF ComesNext
  <2> QED BY <2>1, <2>2 DEF SumCell, ComesNext
<1>2. CASE places # {}
  <2>1. v \in MetricValues /\ IsDelta(v, ops, places, summed)
    BY <1>2 DEF SumCell
  <2>2. v # NoMetric
    BY <2>1, MetricFields
  <2>3. /\ MergeDeltaMetricValue(At(ops, q), v, summed) \in MetricValues
        /\ IsDelta(MergeDeltaMetricValue(At(ops, q), v, summed), ops,
                   places \cup {q}, summed)
    BY <2>1, DeltaOfMore DEF ComesNext, Recorded
  <2> QED BY <2>2, <2>3 DEF SumCell
<1> QED BY <1>1, <1>2

LEMMA LatestCellGrows ==
  ASSUME NEW v, NEW ops, NEW places, Recorded(ops, places),
         LatestCell(v, ops, places), NEW q, ComesNext(ops, places, q)
  PROVE  LatestCell(IF v = NoMetric THEN At(ops, q)
                    ELSE MergeCumulativeOrGaugeMetricValue(At(ops, q), v),
                    ops, places \cup {q})
<1>1. CASE places = {}
  <2>1. v = NoMetric /\ places \cup {q} = {q}
    BY <1>1 DEF LatestCell
  <2>2. IsLatest(At(ops, q), ops, {q})
    BY LatestOfOne DEF ComesNext
  <2> QED BY <2>1, <2>2 DEF LatestCell, ComesNext
<1>2. CASE places # {}
  <2>1. v \in MetricValues /\ IsLatest(v, ops, places)
    BY <1>2 DEF LatestCell
  <2>2. v # NoMetric
    BY <2>1, MetricFields
  <2>3. /\ MergeCumulativeOrGaugeMetricValue(At(ops, q), v) \in MetricValues
        /\ IsLatest(MergeCumulativeOrGaugeMetricValue(At(ops, q), v), ops,
                    places \cup {q})
    BY <2>1, LatestOfMore DEF ComesNext, Recorded
  <2> QED BY <2>2, <2>3 DEF LatestCell
<1> QED BY <1>1, <1>2

\* Fewer places are recorded, and before what all are before.
LEMMA FewerRecorded ==
  ASSUME NEW ops, NEW places, NEW some \in SUBSET places, Recorded(ops, places)
  PROVE  /\ Recorded(ops, some)
         /\ \A q : ComesNext(ops, places, q) => ComesNext(ops, some, q)
  BY FS_Subset DEF Recorded, ComesNext

\* A value put into the table of a report, or of a quota.
LEMMA MetricPutKeeps ==
  ASSUME NEW t, NEW ops, NEW places, Recorded(ops, places),
         ReportTable(t, ops, places), NEW q, ComesNext(ops, places, q)
  PROVE  ReportTable(MetricPut(t, At(ops, q)), ops, places \cup {q})
<1> DEFINE v == At(ops, q)
           old == t[v.name][v.labels]
           new == IF old = NoMetric THEN v ELSE MergeMetricValue(v, old)
           t2 == MetricPut(t, v)
           more == places \cup {q}
           m == v.name
           k == v.labels
<1>1. m \in MetricNames /\ k \in Labels
  BY MetricFields DEF ComesNext
<1>2. /\ \A n \in MetricNames, l \in Labels :
           t2[n][l] = IF n = m /\ l = k THEN new ELSE t[n][l]
      /\ t2 = [n \in MetricNames |-> [l \in Labels |-> t2[n][l]]]
  <2>1. t2 = [t EXCEPT ![m][k] = new]
    BY DEF MetricPut
  <2>2. t = [n \in MetricNames |-> [l \in Labels |-> t[n][l]]]
    BY DEF ReportTable
  <2> HIDE DEF t2, m, k, new
  <2> QED BY <1>1, <2>1, <2>2
<1>3. ASSUME NEW n \in MetricNames, NEW l \in Labels
      PROVE  Cell(t2[n][l], ops, OfBoth(ops, more, n, l), n)
  <2> DEFINE some == OfBoth(ops, places, n, l)
  <2>1. Cell(t[n][l], ops, some, n)
    BY DEF ReportTable
  <2>2. CASE ~(n = m /\ l = k)
    <3>1. OfBoth(ops, more, n, l) = some
      BY <2>2 DEF OfBoth
    <3> HIDE DEF t2, some, more
    <3> QED BY <1>2, <2>1, <2>2, <3>1
  <2>3. CASE n = m /\ l = k
    <3>1. OfBoth(ops, more, n, l) = some \cup {q}
      BY <2>3 DEF OfBoth
    <3>2. t2[n][l] = new /\ old = t[n][l]
      BY <1>2, <2>3
    <3>3. Recorded(ops, some) /\ ComesNext(ops, some, q)
      <4>1. some \in SUBSET places
        BY DEF OfBoth
      <4> QED BY <4>1, FewerRecorded
    <3>4. CASE n \in DeltaMetrics
      <4>1. SumCell(old, ops, some, SummedInReports)
        BY <2>1, <3>2, <3>4 DEF Cell
      <4>2. new = IF old = NoMetric THEN v
                  ELSE MergeDeltaMetricValue(v, old, SummedInReports)
        BY <2>3, <3>4 DEF MergeMetricValue
      <4> HIDE DEF t2, some, more, new, old
      <4>3. SumCell(new, ops, some \cup {q}, SummedInReports)
        BY <3>3, <4>1, <4>2, SumCellGrows
      <4> QED BY <3>1, <3>2, <3>4, <4>3 DEF Cell
    <3>5. CASE n \notin DeltaMetrics
      <4>1. LatestCell(old, ops, some)
        BY <2>1, <3>2, <3>5 DEF Cell
      <4>2. new = IF old = NoMetric THEN v
                  ELSE MergeCumulativeOrGaugeMetricValue(v, old)
        BY <2>3, <3>5 DEF MergeMetricValue
      <4> HIDE DEF t2, some, more, new, old
      <4>3. LatestCell(new, ops, some \cup {q})
        BY <3>3, <4>1, <4>2, LatestCellGrows
      <4> QED BY <3>1, <3>2, <3>5, <4>3 DEF Cell
    <3> QED BY <3>4, <3>5
  <2> QED BY <2>2, <2>3
<1> HIDE DEF t2, more
<1>4. ReportTable(t2, ops, more)
  BY <1>2, <1>3 DEF ReportTable
<1> QED BY <1>4 DEF t2, more

LEMMA QuotaPutKeeps ==
  ASSUME NEW t, NEW ops, NEW places, Recorded(ops, places),
         QuotaTable(t, ops, places), NEW q, ComesNext(ops, places, q)
  PROVE  QuotaTable(QuotaPut(t, At(ops, q)), ops, places \cup {q})
<1> DEFINE v == At(ops, q)
           m == v.name
           old == t[m]
           new == IF old = NoMetric THEN v ELSE MergeDeltaMetricValue(v, old, SummedInQuota)
           t2 == QuotaPut(t, v)
           more == places \cup {q}
<1>1. m \in MetricNames
  BY MetricFields DEF ComesNext
<1>2. /\ \A n \in MetricNames : t2[n] = IF n = m THEN new ELSE t[n]
      /\ t2 = [n \in MetricNames |-> t2[n]]
  <2>1. t2 = [t EXCEPT ![m] = new]
    BY DEF QuotaPut
  <2>2. t = [n \in MetricNames |-> t[n]]
    BY DEF QuotaTable
  <2> HIDE DEF t2, m, new
  <2> QED BY <1>1, <2>1, <2>2
<1>3. ASSUME NEW n \in MetricNames
      PROVE  SumCell(t2[n], ops, Of(ops, more, n), SummedInQuota)
  <2> DEFINE some == Of(ops, places, n)
  <2>1. SumCell(t[n], ops, some, SummedInQuota)
    BY DEF QuotaTable
  <2>2. CASE n # m
    <3>1. Of(ops, more, n) = some
      BY <2>2 DEF Of
    <3> HIDE DEF t2, some, more
    <3> QED BY <1>2, <2>1, <2>2, <3>1
  <2>3. CASE n = m
    <3>1. Of(ops, more, n) = some \cup {q}
      BY <2>3 DEF Of
    <3>2. t2[n] = new /\ old = t[n]
      BY <1>2, <2>3
    <3>3. Recorded(ops, some) /\ ComesNext(ops, some, q)
      <4>1. some \in SUBSET places
        BY DEF Of
      <4> QED BY <4>1, FewerRecorded
    <3>4. new = IF old = NoMetric THEN v ELSE MergeDeltaMetricValue(v, old, SummedInQuota)
      OBVIOUS
    <3> HIDE DEF t2, some, more, new, old
    <3>5. SumCell(new, ops, some \cup {q}, SummedInQuota)
      BY <2>1, <3>2, <3>3, <3>4, SumCellGrows
    <3> QED BY <3>1, <3>2, <3>5
  <2> QED BY <2>2, <2>3
<1> HIDE DEF t2, more
<1>4. QuotaTable(t2, ops, more)
  BY <1>2, <1>3 DEF QuotaTable
<1> QED BY <1>4 DEF t2, more

-----------------------------------------------------------------------------
(* The values of an operation.                                             *)

\* The recursions of the model define what they say.
LEMMA MetricsMerge ==
  ASSUME NEW t, NEW values, Len(values) \in Nat
  PROVE  \E F : /\ F[0] = t
                /\ \A i \in 1 .. Len(values) : F[i] = MetricPut(F[i - 1], values[i])
                /\ MergeMetricValueSets(t, values) = F[Len(values)]
<1> DEFINE n == Len(values)
           Merges(m, F) ==
             F = [i \in 0 .. m |-> IF i = 0 THEN t ELSE MetricPut(F[i - 1], values[i])]
           T == {m \in 0 .. n : ~ \E F : Merges(m, F)}
<1>1. \E F : Merges(n, F)
  <2>1. SUFFICES ASSUME T # {} PROVE FALSE
    <3>1. n \in 0 .. n
      OBVIOUS
    <3> QED BY <3>1, Zenon
  <2>2. T \in SUBSET Nat
    OBVIOUS
  <2> HIDE DEF T
  <2>3. PICK m \in T : \A k \in T : m <= k
    BY <2>1, <2>2, SmallestNumber
  <2> USE DEF T
  <2>4. m # 0
    <3>1. Merges(0, [i \in 0 .. 0 |-> t])
      OBVIOUS
    <3> QED BY <3>1
  <2>5. m - 1 \in 0 .. n /\ m - 1 \notin T
    BY <2>3, <2>4
  <2>6. PICK G : Merges(m - 1, G)
    BY <2>5
  <2> DEFINE H == [i \in 0 .. m |-> IF i = m THEN MetricPut(G[m - 1], values[m])
                                            ELSE G[i]]
  <2>7. \A i \in 0 .. m : H[i] = IF i = 0 THEN t ELSE MetricPut(H[i - 1], values[i])
    BY <2>4, <2>5, <2>6
  <2>8. Merges(m, H)
    <3>1. H = [i \in 0 .. m |-> H[i]]
      OBVIOUS
    <3> HIDE DEF H
    <3> QED BY <2>7, <3>1
  <2> QED BY <2>8
<1> DEFINE M == CHOOSE F : Merges(n, F)
<1>2. Merges(n, M)
  BY <1>1
<1>3. MergeMetricValueSets(t, values) = M[n]
  BY DEF MergeMetricValueSets
<1> HIDE DEF M
<1> QED BY <1>2, <1>3

LEMMA QuotasMerge ==
  ASSUME NEW t, NEW values, Len(values) \in Nat
  PROVE  \E F : /\ F[0] = t
                /\ \A i \in 1 .. Len(values) : F[i] = QuotaPut(F[i - 1], values[i])
                /\ QuotaMerged(t, values) = F[Len(values)]
<1> DEFINE n == Len(values)
           Merges(m, F) ==
             F = [i \in 0 .. m |-> IF i = 0 THEN t ELSE QuotaPut(F[i - 1], values[i])]
           T == {m \in 0 .. n : ~ \E F : Merges(m, F)}
<1>1. \E F : Merges(n, F)
  <2>1. SUFFICES ASSUME T # {} PROVE FALSE
    <3>1. n \in 0 .. n
      OBVIOUS
    <3> QED BY <3>1, Zenon
  <2>2. T \in SUBSET Nat
    OBVIOUS
  <2> HIDE DEF T
  <2>3. PICK m \in T : \A k \in T : m <= k
    BY <2>1, <2>2, SmallestNumber
  <2> USE DEF T
  <2>4. m # 0
    <3>1. Merges(0, [i \in 0 .. 0 |-> t])
      OBVIOUS
    <3> QED BY <3>1
  <2>5. m - 1 \in 0 .. n /\ m - 1 \notin T
    BY <2>3, <2>4
  <2>6. PICK G : Merges(m - 1, G)
    BY <2>5
  <2> DEFINE H == [i \in 0 .. m |-> IF i = m THEN QuotaPut(G[m - 1], values[m])
                                            ELSE G[i]]
  <2>7. \A i \in 0 .. m : H[i] = IF i = 0 THEN t ELSE QuotaPut(H[i - 1], values[i])
    BY <2>4, <2>5, <2>6
  <2>8. Merges(m, H)
    <3>1. H = [i \in 0 .. m |-> H[i]]
      OBVIOUS
    <3> HIDE DEF H
    <3> QED BY <2>7, <3>1
  <2> QED BY <2>8
<1> DEFINE M == CHOOSE F : Merges(n, F)
<1>2. Merges(n, M)
  BY <1>1
<1>3. QuotaMerged(t, values) = M[n]
  BY DEF QuotaMerged
<1> HIDE DEF M
<1> QED BY <1>2, <1>3

\* Where the values of reported operations are.
LEMMA PlacesAre ==
  ASSUME NEW ops \in Seq(Operations)
  PROVE  /\ \A i \in 1 .. Len(ops) : \A k \in 1 .. Len(ops[i].values) :
              /\ <<i, k>> \in Places(ops)
              /\ At(ops, <<i, k>>) = ops[i].values[k]
              /\ At(ops, <<i, k>>) \in MetricValues
         /\ \A p \in Places(ops) :
              /\ p[1] \in 1 .. Len(ops) /\ p[2] \in 1 .. Len(ops[p[1]].values)
              /\ p = <<p[1], p[2]>>
              /\ At(ops, p) \in MetricValues
<1>1. \A i \in 1 .. Len(ops) : /\ ops[i].values \in Seq(MetricValues)
                               /\ DOMAIN ops[i].values = 1 .. Len(ops[i].values)
                               /\ Len(ops[i].values) \in Nat
  BY OperationsAssumption
<1>2. \A i \in 1 .. Len(ops) : \A k \in 1 .. Len(ops[i].values) :
        ops[i].values[k] \in MetricValues
  BY <1>1
<1>3. DOMAIN ops = 1 .. Len(ops)
  OBVIOUS
<1>4. \A p : p \in Places(ops)
        <=> \E i \in 1 .. Len(ops) : \E k \in 1 .. Len(ops[i].values) : p = <<i, k>>
  <2>1. ASSUME NEW p \in Places(ops)
        PROVE  \E i \in 1 .. Len(ops) : \E k \in 1 .. Len(ops[i].values) : p = <<i, k>>
    <3>1. PICK i \in 1 .. Len(ops) : p \in {i} \X DOMAIN ops[i].values
      BY <1>3, <2>1 DEF Places
    <3>2. p \in {i} \X (1 .. Len(ops[i].values))
      BY <1>1, <3>1
    <3> QED BY <3>2
  <2>2. ASSUME NEW i \in 1 .. Len(ops), NEW k \in 1 .. Len(ops[i].values)
        PROVE  <<i, k>> \in Places(ops)
    <3>1. <<i, k>> \in {i} \X DOMAIN ops[i].values
      BY <1>1, <2>2
    <3> QED BY <1>3, <3>1 DEF Places
  <2> QED BY <2>1, <2>2
<1> QED BY <1>2, <1>4 DEF At

\* The values of all operations but the last, and the first j of the last.
Upto(ops, j) == {p \in Places(ops) : p[1] < Len(ops) \/ p[2] <= j}

LEMMA UptoGrows ==
  ASSUME NEW ops \in Seq(Operations), Len(ops) > 0,
         NEW j \in Nat, j < Len(ops[Len(ops)].values)
  PROVE  /\ Upto(ops, j + 1) = Upto(ops, j) \cup {<<Len(ops), j + 1>>}
         /\ ComesNext(ops, Upto(ops, j), <<Len(ops), j + 1>>)
         /\ At(ops, <<Len(ops), j + 1>>) = ops[Len(ops)].values[j + 1]
<1> DEFINE n == Len(ops)
           q == <<n, j + 1>>
<1>1. n \in 1 .. n /\ n \in Nat /\ j + 1 \in 1 .. Len(ops[n].values)
  <2>1. ops[n] \in Operations
    OBVIOUS
  <2>2. Len(ops[n].values) \in Nat
    BY <2>1, OperationsAssumption
  <2> QED BY <2>2
<1>2. q \in Places(ops) /\ At(ops, q) = ops[n].values[j + 1] /\ At(ops, q) \in MetricValues
  BY <1>1, PlacesAre
<1>3. q[1] = n /\ q[2] = j + 1
  OBVIOUS
<1>4. \A p \in Places(ops) : p[1] \in 1 .. n /\ p[2] \in Nat /\ p = <<p[1], p[2]>>
  <2>1. \A p \in Places(ops) : p[2] \in 1 .. Len(ops[p[1]].values)
    BY PlacesAre
  <2>2. \A p \in Places(ops) : p[2] \in Nat
    BY <2>1
  <2> QED BY <2>2, PlacesAre
<1> HIDE DEF q, n
<1>5. ASSUME NEW p \in Places(ops), p[1] >= n, p[2] = j + 1 PROVE p = q
  <2>1. p[1] = n
    BY <1>1, <1>4, <1>5
  <2> QED BY <1>4, <1>5, <2>1 DEF q
<1>6. Upto(ops, j + 1) = Upto(ops, j) \cup {q}
  <2>1. ASSUME NEW p \in Upto(ops, j + 1) PROVE p \in Upto(ops, j) \cup {q}
    BY <1>1, <1>4, <1>5 DEF Upto, n
  <2>2. ASSUME NEW p \in Upto(ops, j) PROVE p \in Upto(ops, j + 1)
    BY <1>4 DEF Upto
  <2>3. q \in Upto(ops, j + 1)
    BY <1>1, <1>2, <1>3 DEF Upto
  <2> QED BY <2>1, <2>2, <2>3
<1>7. q \notin Upto(ops, j) /\ ~Before(q, q)
  BY <1>1, <1>3 DEF Upto, Before, n
<1>8. \A p \in Upto(ops, j) : Before(p, q) /\ ~Before(q, p)
  BY <1>1, <1>3, <1>4 DEF Upto, Before, n
<1> QED BY <1>2, <1>6, <1>7, <1>8 DEF ComesNext, q, n

\* All values of the last operation are merged into what is there.
LEMMA LastMerged ==
  ASSUME NEW ops \in Seq(Operations), Len(ops) > 0, NEW t, NEW u,
         Recorded(ops, Upto(ops, 0)), ReportTable(t, ops, Upto(ops, 0)),
         QuotaTable(u, ops, Upto(ops, 0))
  PROVE  /\ Recorded(ops, Places(ops))
         /\ ReportTable(MergeMetricValueSets(t, ops[Len(ops)].values), ops, Places(ops))
         /\ QuotaTable(QuotaMerged(u, ops[Len(ops)].values), ops, Places(ops))
<1> DEFINE n == Len(ops)
           values == ops[n].values
           m == Len(values)
<1>1. n \in 1 .. n /\ n \in Nat /\ m \in Nat
  <2>1. ops[n] \in Operations
    OBVIOUS
  <2> QED BY <2>1, OperationsAssumption
<1>2. PICK F : /\ F[0] = t
               /\ \A i \in 1 .. m : F[i] = MetricPut(F[i - 1], values[i])
               /\ MergeMetricValueSets(t, values) = F[m]
  BY <1>1, MetricsMerge
<1>3. PICK G : /\ G[0] = u
               /\ \A i \in 1 .. m : G[i] = QuotaPut(G[i - 1], values[i])
               /\ QuotaMerged(u, values) = G[m]
  BY <1>1, QuotasMerge
<1> DEFINE Good(j) == /\ Recorded(ops, Upto(ops, j))
                      /\ ReportTable(F[j], ops, Upto(ops, j))
                      /\ QuotaTable(G[j], ops, Upto(ops, j))
           T == {j \in 0 .. m : ~Good(j)}
<1>4. Good(m)
  <2>1. SUFFICES ASSUME T # {} PROVE FALSE
    BY <1>1
  <2>2. T \in SUBSET Nat
    OBVIOUS
  <2> HIDE DEF T
  <2>3. PICK i \in T : \A k \in T : i <= k
    BY <2>1, <2>2, SmallestNumber
  <2> USE DEF T
  <2>4. i # 0
    <3>1. Good(0)
      BY <1>2, <1>3
    <3> HIDE DEF Good
    <3> QED BY <3>1
  <2> DEFINE j == i - 1
             q == <<n, j + 1>>
  <2>5. j \in 0 .. m /\ j \notin T /\ j \in Nat /\ j < m /\ i = j + 1 /\ i \in 1 .. m
    BY <1>1, <2>3, <2>4
  <2>6. Good(j)
    BY <2>5
  <2> HIDE DEF j
  <2>7. /\ Upto(ops, i) = Upto(ops, j) \cup {q}
        /\ ComesNext(ops, Upto(ops, j), q)
        /\ At(ops, q) = values[i]
    BY <2>5, UptoGrows
  <2>8. Recorded(ops, Upto(ops, i))
    <3>1. IsFiniteSet(Upto(ops, j) \cup {q})
      BY <2>6, FS_AddElement DEF Recorded
    <3>2. \A p \in Upto(ops, j) \cup {q} : At(ops, p) \in MetricValues
      BY <2>6, <2>7 DEF Recorded, ComesNext
    <3> QED BY <2>7, <3>1, <3>2, Zenon DEF Recorded
  <2>9. i - 1 = j
    BY <2>5 DEF j
  <2>10. F[i] = MetricPut(F[j], At(ops, q)) /\ G[i] = QuotaPut(G[j], At(ops, q))
    BY <1>2, <1>3, <2>5, <2>7, <2>9
  <2>11. ReportTable(F[i], ops, Upto(ops, i))
    BY <2>6, <2>7, <2>10, MetricPutKeeps
  <2>12. QuotaTable(G[i], ops, Upto(ops, i))
    BY <2>6, <2>7, <2>10, QuotaPutKeeps
  <2>13. ~Good(i)
    OBVIOUS
  <2> QED BY <2>8, <2>11, <2>12, <2>13
<1>5. Upto(ops, m) = Places(ops)
  <2>1. ASSUME NEW p \in Places(ops) PROVE p[1] < n \/ p[2] <= m
    <3>1. p[1] \in 1 .. n /\ p[2] \in 1 .. Len(ops[p[1]].values)
      BY PlacesAre
    <3>2. CASE p[1] = n
      BY <1>1, <3>1, <3>2
    <3> QED BY <1>1, <3>1, <3>2
  <2> QED BY <2>1 DEF Upto
<1> QED BY <1>2, <1>3, <1>4, <1>5

\* An operation more: what was reported stays where it was.
LEMMA EarlierStay ==
  ASSUME NEW ops \in Seq(Operations), NEW op \in Operations
  PROVE  LET more == Append(ops, op)
         IN /\ Upto(more, 0) = Places(ops)
            /\ \A p \in Places(ops) : At(more, p) = At(ops, p)
<1> DEFINE more == Append(ops, op)
           n == Len(ops)
<1>1. /\ more \in Seq(Operations) /\ Len(more) = n + 1 /\ n \in Nat
      /\ \A i \in 1 .. n : more[i] = ops[i]
  OBVIOUS
<1> HIDE DEF more, n
<1>2. ASSUME NEW p \in Places(ops)
      PROVE  p \in Places(more) /\ p[1] < n + 1 /\ At(more, p) = At(ops, p)
  <2>1. p[1] \in 1 .. n /\ p[2] \in 1 .. Len(ops[p[1]].values) /\ p = <<p[1], p[2]>>
    BY PlacesAre DEF n
  <2>2. p[1] \in 1 .. Len(more) /\ p[2] \in 1 .. Len(more[p[1]].values)
    BY <1>1, <2>1
  <2>3. <<p[1], p[2]>> \in Places(more)
    BY <1>1, <2>2, PlacesAre
  <2>4. At(more, p) = At(ops, p)
    BY <1>1, <2>1 DEF At
  <2>5. p[1] < n + 1
    BY <1>1, <2>1
  <2>6. p \in Places(more)
    BY <2>1, <2>3, Zenon
  <2> QED BY <2>4, <2>5, <2>6
<1>3. ASSUME NEW p \in Upto(more, 0) PROVE p \in Places(ops)
  <2>1. p \in Places(more) /\ (p[1] < n + 1 \/ p[2] <= 0)
    BY <1>1 DEF Upto
  <2>2. p[1] \in 1 .. Len(more) /\ p[2] \in 1 .. Len(more[p[1]].values) /\ p = <<p[1], p[2]>>
    BY <1>1, <2>1, PlacesAre
  <2>3. p[1] \in 1 .. n
    BY <1>1, <2>1, <2>2
  <2>4. p[2] \in 1 .. Len(ops[p[1]].values)
    BY <1>1, <2>2, <2>3
  <2>5. <<p[1], p[2]>> \in Places(ops)
    BY <2>3, <2>4, PlacesAre DEF n
  <2> QED BY <2>2, <2>5
<1>4. Upto(more, 0) = Places(ops)
  <2>1. \A p \in Places(ops) : p \in Upto(more, 0)
    BY <1>1, <1>2 DEF Upto
  <2> QED BY <1>3, <2>1
<1> QED BY <1>2, <1>4 DEF more

\* Tables speak of the values in some places only.
LEMMA SumCellSame ==
  ASSUME NEW v, NEW ops, NEW ops2, NEW places, NEW summed,
         \A p \in places : At(ops2, p) = At(ops, p), SumCell(v, ops, places, summed)
  PROVE  SumCell(v, ops2, places, summed)
  BY DeltaSame DEF SumCell

LEMMA TablesSame ==
  ASSUME NEW t, NEW u, NEW ops, NEW ops2, NEW places,
         \A p \in places : At(ops2, p) = At(ops, p)
  PROVE  /\ Recorded(ops, places) => Recorded(ops2, places)
         /\ ReportTable(t, ops, places) => ReportTable(t, ops2, places)
         /\ QuotaTable(u, ops, places) => QuotaTable(u, ops2, places)
<1>1. Recorded(ops, places) => Recorded(ops2, places)
  BY DEF Recorded
<1>2. ASSUME ReportTable(t, ops, places), NEW n \in MetricNames, NEW l \in Labels
      PROVE  Cell(t[n][l], ops2, OfBoth(ops2, places, n, l), n)
  <2> DEFINE some == OfBoth(ops, places, n, l)
  <2>1. OfBoth(ops2, places, n, l) = some /\ some \subseteq places
    BY DEF OfBoth
  <2>2. Cell(t[n][l], ops, some, n)
    BY <1>2 DEF ReportTable
  <2> HIDE DEF some
  <2>3. \A p \in some : At(ops2, p) = At(ops, p)
    BY <2>1
  <2>4. SumCell(t[n][l], ops, some, SummedInReports)
          => SumCell(t[n][l], ops2, some, SummedInReports)
    BY <2>3, SumCellSame
  <2>5. LatestCell(t[n][l], ops, some) => LatestCell(t[n][l], ops2, some)
    BY <2>3, LatestSame DEF LatestCell
  <2> QED BY <2>1, <2>2, <2>4, <2>5 DEF Cell
<1>3. ASSUME QuotaTable(u, ops, places), NEW n \in MetricNames
      PROVE  SumCell(u[n], ops2, Of(ops2, places, n), SummedInQuota)
  <2> DEFINE some == Of(ops, places, n)
  <2>1. Of(ops2, places, n) = some /\ some \subseteq places
    BY DEF Of
  <2>2. SumCell(u[n], ops, some, SummedInQuota)
    BY <1>3 DEF QuotaTable
  <2> HIDE DEF some
  <2>3. \A p \in some : At(ops2, p) = At(ops, p)
    BY <2>1
  <2> QED BY <2>1, <2>2, <2>3, SumCellSame
<1>4. ReportTable(t, ops, places) => ReportTable(t, ops2, places)
  BY <1>2 DEF ReportTable
<1>5. QuotaTable(u, ops, places) => QuotaTable(u, ops2, places)
  BY <1>3 DEF QuotaTable
<1> QED BY <1>1, <1>4, <1>5

-----------------------------------------------------------------------------
(* Log entries and time spans.                                             *)

\* What FlattenSeq() chooses: the first m sequences of s, joined.
Joined(F, s, m) ==
  F = [i \in 1 .. m |-> IF i = 1 THEN s[i] ELSE F[i - 1] \o s[i]]

LEMMA JoinedAre ==
  ASSUME NEW F, NEW s, NEW m \in Nat, Joined(F, s, m)
  PROVE  \A i \in 1 .. m : F[i] = IF i = 1 THEN s[i] ELSE F[i - 1] \o s[i]
  BY Zenon DEF Joined

LEMMA JoinMore ==
  ASSUME NEW G, NEW s, NEW m \in Nat, m > 0, Joined(G, s, m - 1)
  PROVE  \E H : Joined(H, s, m)
<1> DEFINE last == IF m = 1 THEN s[1] ELSE G[m - 1] \o s[m]
           H == [i \in 1 .. m |-> IF i < m THEN G[i] ELSE last]
           step(F, i) == F[i - 1] \o s[i]
<1>1. \A i \in 1 .. m - 1 : G[i] = IF i = 1 THEN s[i] ELSE step(G, i)
  <2> DEFINE k == m - 1
  <2>1. k \in Nat /\ Joined(G, s, k)
    OBVIOUS
  <2> HIDE DEF k
  <2>2. \A i \in 1 .. k : G[i] = IF i = 1 THEN s[i] ELSE G[i - 1] \o s[i]
    BY <2>1, JoinedAre
  <2> QED BY <2>2 DEF k
<1>2. /\ \A i \in 1 .. m - 1 : H[i] = G[i]
      /\ H[m] = last
  <2> HIDE DEF last
  <2> QED OBVIOUS
<1>3. last = IF m = 1 THEN s[m] ELSE step(G, m)
  OBVIOUS
<1>4. \A i \in 1 .. m : i # 1 => i - 1 \in 1 .. m - 1
  OBVIOUS
<1>5. \A i \in 1 .. m : i # 1 => step(H, i) = step(G, i)
  <2> HIDE DEF H
  <2> QED BY <1>2, <1>4, Zenon
<1>6. H = [i \in 1 .. m |-> H[i]]
  OBVIOUS
<1> HIDE DEF H, last, step
<1>7. \A i \in 1 .. m : i \in 1 .. m - 1 \/ i = m
  OBVIOUS
<1>8. \A i \in 1 .. m : H[i] = IF i = 1 THEN s[i] ELSE step(H, i)
  BY <1>1, <1>2, <1>3, <1>5, <1>7
<1>9. Joined(H, s, m)
  <2>1. [i \in 1 .. m |-> H[i]]
          = [i \in 1 .. m |-> IF i = 1 THEN s[i] ELSE step(H, i)]
    BY <1>8
  <2> QED BY <1>6, <2>1, Zenon DEF Joined, step
<1> QED BY <1>9

LEMMA FlattenIs ==
  ASSUME NEW s, Len(s) \in Nat, Len(s) > 0
  PROVE  \E F : Joined(F, s, Len(s)) /\ FlattenSeq(s) = F[Len(s)]
<1> DEFINE n == Len(s)
           T == {m \in 0 .. n : ~ \E F : Joined(F, s, m)}
<1>1. \E F : Joined(F, s, n)
  <2>1. SUFFICES ASSUME T # {} PROVE FALSE
    <3>1. n \in 0 .. n
      OBVIOUS
    <3> QED BY <3>1, Zenon
  <2>2. T \in SUBSET Nat
    OBVIOUS
  <2> HIDE DEF T
  <2>3. PICK m \in T : \A k \in T : m <= k
    BY <2>1, <2>2, SmallestNumber
  <2> USE DEF T
  <2>4. m # 0
    <3>1. Joined([i \in 1 .. 0 |-> s], s, 0)
      BY DEF Joined
    <3> QED BY <3>1
  <2>5. m - 1 \in 0 .. n /\ m - 1 \notin T /\ m \in Nat /\ m > 0
    BY <2>3, <2>4
  <2>6. PICK G : Joined(G, s, m - 1)
    BY <2>5
  <2>7. \E H : Joined(H, s, m)
    BY <2>5, <2>6, JoinMore
  <2> QED BY <2>7
<1> DEFINE M == CHOOSE F : Joined(F, s, n)
<1>2. Joined(M, s, n)
  BY <1>1
<1>3. FlattenSeq(s) = M[n]
  <2>1. Len(s) # 0
    OBVIOUS
  <2> QED BY <2>1, Zenon DEF FlattenSeq, Joined
<1> HIDE DEF M
<1> QED BY <1>2, <1>3

\* One sequence, and one more at the end.
LEMMA FlattenOne ==
  ASSUME NEW s, Len(s) = 1 PROVE FlattenSeq(s) = s[1]
<1>1. PICK F : Joined(F, s, 1) /\ FlattenSeq(s) = F[1]
  <2>1. Len(s) \in Nat /\ Len(s) > 0
    OBVIOUS
  <2>2. \E F : Joined(F, s, Len(s)) /\ FlattenSeq(s) = F[Len(s)]
    BY <2>1, FlattenIs
  <2> QED BY <2>2, Zenon
<1>2. F[1] = s[1]
  BY <1>1, JoinedAre
<1> QED BY <1>1, <1>2

LEMMA FlattenMore ==
  ASSUME NEW s, NEW t, Len(s) \in Nat, Len(s) > 0, Len(t) = Len(s) + 1,
         \A i \in 1 .. Len(s) : t[i] = s[i]
  PROVE  FlattenSeq(t) = FlattenSeq(s) \o t[Len(t)]
<1> DEFINE n == Len(s)
<1>1. PICK F : Joined(F, s, n) /\ FlattenSeq(s) = F[n]
  BY FlattenIs
<1>2. PICK G : Joined(G, t, n + 1) /\ FlattenSeq(t) = G[n + 1]
  BY FlattenIs
<1> DEFINE step(H, u, i) == H[i - 1] \o u[i]
           T == {i \in 1 .. n : G[i] # F[i]}
<1>3. /\ \A i \in 1 .. n : F[i] = IF i = 1 THEN s[i] ELSE step(F, s, i)
      /\ \A i \in 1 .. n + 1 : G[i] = IF i = 1 THEN t[i] ELSE step(G, t, i)
  <2>1. n \in Nat /\ n + 1 \in Nat
    OBVIOUS
  <2>2. \A i \in 1 .. n : F[i] = IF i = 1 THEN s[i] ELSE step(F, s, i)
    <3> HIDE DEF n
    <3> QED BY <1>1, <2>1, JoinedAre
  <2>3. \A i \in 1 .. n + 1 : G[i] = IF i = 1 THEN t[i] ELSE step(G, t, i)
    <3> DEFINE k == n + 1
    <3>1. k \in Nat /\ Joined(G, t, k)
      BY <1>2, <2>1
    <3> HIDE DEF k
    <3>2. \A i \in 1 .. k : G[i] = IF i = 1 THEN t[i] ELSE step(G, t, i)
      BY <3>1, JoinedAre
    <3> QED BY <3>2 DEF k
  <2> QED BY <2>2, <2>3, Zenon
<1>4. T = {}
  <2>1. SUFFICES ASSUME T # {} PROVE FALSE
    OBVIOUS
  <2>2. T \in SUBSET Nat
    OBVIOUS
  <2> HIDE DEF T
  <2>3. PICK i \in T : \A k \in T : i <= k
    BY <2>1, <2>2, SmallestNumber
  <2> USE DEF T
  <2>4. i # 1 => i - 1 \in 1 .. n /\ i - 1 \notin T
    BY <2>3
  <2>5. t[i] = s[i] /\ i \in 1 .. n /\ i \in 1 .. n + 1
    OBVIOUS
  <2>6. i # 1 => step(G, t, i) = step(F, s, i)
    BY <2>4, <2>5, Zenon
  <2> HIDE DEF step
  <2> QED BY <1>3, <2>5, <2>6
<1>5. G[n] = F[n]
  BY <1>4
<1>6. G[n + 1] = step(G, t, n + 1)
  <2>1. n + 1 \in 1 .. n + 1 /\ n + 1 # 1
    OBVIOUS
  <2> HIDE DEF step
  <2> QED BY <1>3, <2>1
<1>7. step(G, t, n + 1) = F[n] \o t[n + 1]
  <2>1. (n + 1) - 1 = n
    OBVIOUS
  <2> QED BY <1>5, <2>1, Zenon
<1> QED BY <1>1, <1>2, <1>6, <1>7, Zenon

-----------------------------------------------------------------------------
(* The aggregate.                                                          *)

\* What holds of an aggregator between two operations.
Aggregated ==
  /\ given \in Seq(Operations) /\ Len(given) > 0
  /\ operation = [start |-> operation.start, end |-> operation.end,
                  logs |-> operation.logs, values |-> operation.values]
  /\ operation.start \in Nat /\ operation.end \in Nat
  /\ SpanCoversAll /\ LogsKept
  /\ Recorded(given, Places(given))
  /\ ReportTable(operation.values, given, Places(given))
  /\ QuotaTable(quota, given, Places(given))

LEMMA ConstructorMerges == OperationInit => Aggregated
<1> SUFFICES ASSUME OperationInit PROVE Aggregated
  OBVIOUS
<1>1. PICK op \in Operations :
        /\ operation = Constructed(op)
        /\ quota = QuotaMerged([n \in MetricNames |-> NoMetric], op.values)
        /\ given = <<op>>
  BY DEF OperationInit
<1>2. /\ given \in Seq(Operations) /\ Len(given) = 1 /\ given[1] = op
      /\ DOMAIN given = {1}
  BY <1>1
<1>3. op.start \in Nat /\ op.end \in Nat
  BY OperationsAssumption
<1>4. /\ operation.start = op.start /\ operation.end = op.end
      /\ operation.logs = op.logs
      /\ operation.values = MergeMetricValueSets(NoValues, op.values)
      /\ operation = [start |-> operation.start, end |-> operation.end,
                      logs |-> operation.logs, values |-> operation.values]
  BY <1>1 DEF Constructed
<1>5. SpanCoversAll
  <2>1. /\ {given[i].start : i \in DOMAIN given} = {op.start}
        /\ {given[i].end : i \in DOMAIN given} = {op.end}
    BY <1>2
  <2> QED BY <1>3, <1>4, <2>1, OneTime DEF SpanCoversAll
<1>6. LogsKept
  <2> DEFINE s == [i \in DOMAIN given |-> given[i].logs]
  <2>1. Len(s) = 1 /\ s[1] = op.logs
    BY <1>2
  <2>2. FlattenSeq(s) = op.logs
    BY <2>1, FlattenOne
  <2> QED BY <1>4, <2>2 DEF LogsKept
<1>7. Upto(given, 0) = {}
  <2>1. \A p \in Places(given) : p[1] \in 1 .. 1 /\ p[2] \in 1 .. Len(given[p[1]].values)
    BY <1>2, PlacesAre
  <2> QED BY <1>2, <2>1 DEF Upto
<1>8. Recorded(given, {})
  BY FS_EmptySet DEF Recorded
<1>9. ReportTable(NoValues, given, {})
  <2>1. \A n \in MetricNames, l \in Labels : OfBoth(given, {}, n, l) = {}
    BY DEF OfBoth
  <2> QED BY <2>1 DEF ReportTable, NoValues, Cell, SumCell, LatestCell
<1>10. QuotaTable([n \in MetricNames |-> NoMetric], given, {})
  <2>1. \A n \in MetricNames : Of(given, {}, n) = {}
    BY DEF Of
  <2> QED BY <2>1 DEF QuotaTable, SumCell
<1>11. /\ Recorded(given, Places(given))
       /\ ReportTable(operation.values, given, Places(given))
       /\ QuotaTable(quota, given, Places(given))
  <2> DEFINE none == [n \in MetricNames |-> NoMetric]
  <2>1. /\ Len(given) > 0 /\ given[Len(given)].values = op.values
        /\ given \in Seq(Operations)
    BY <1>2
  <2>2. /\ Recorded(given, Upto(given, 0)) /\ ReportTable(NoValues, given, Upto(given, 0))
        /\ QuotaTable(none, given, Upto(given, 0))
    BY <1>7, <1>8, <1>9, <1>10, Zenon
  <2> HIDE DEF none
  <2>3. /\ Recorded(given, Places(given))
        /\ ReportTable(MergeMetricValueSets(NoValues, op.values), given, Places(given))
        /\ QuotaTable(QuotaMerged(none, op.values), given, Places(given))
    BY <2>1, <2>2, LastMerged
  <2> QED BY <1>1, <1>4, <2>3, Zenon DEF none
<1> QED BY <1>2, <1>3, <1>4, <1>5, <1>6, <1>11 DEF Aggregated

LEMMA MergeOperationKeeps ==
  ASSUME Aggregated, NEW op \in Operations, MergeOperation(op)
  PROVE  Aggregated'
<1>1. /\ given' = Append(given, op) /\ given \in Seq(Operations) /\ Len(given) > 0
      /\ quota' = QuotaMerged(quota, op.values)
  BY DEF Aggregated, MergeOperation
<1>2. /\ given' \in Seq(Operations) /\ Len(given') = Len(given) + 1
      /\ Len(given) \in Nat /\ given'[Len(given')] = op
      /\ \A i \in 1 .. Len(given) : given'[i] = given[i]
      /\ DOMAIN given = 1 .. Len(given) /\ DOMAIN given' = 1 .. Len(given) + 1
  BY <1>1
<1>3. op.start \in Nat /\ op.end \in Nat
  BY OperationsAssumption
<1>4. /\ operation'.start = Start(op.start, operation.start)
      /\ operation'.end = End(op.end, operation.end)
      /\ operation'.logs = operation.logs \o op.logs
      /\ operation'.values = MergeMetricValueSets(operation.values, op.values)
      /\ operation' = [start |-> operation'.start, end |-> operation'.end,
                       logs |-> operation'.logs, values |-> operation'.values]
  BY DEF Aggregated, MergeOperation
<1>5. SpanCoversAll' /\ operation'.start \in Nat /\ operation'.end \in Nat
  <2> DEFINE starts == {given[i].start : i \in DOMAIN given}
             ends == {given[i].end : i \in DOMAIN given}
  <2>1. starts \in SUBSET Nat /\ ends \in SUBSET Nat
    <3>1. \A i \in DOMAIN given : given[i] \in Operations
      BY <1>1
    <3> QED BY <3>1, OperationsAssumption
  <2>2. /\ {given'[i].start : i \in DOMAIN given'} = starts \cup {op.start}
        /\ {given'[i].end : i \in DOMAIN given'} = ends \cup {op.end}
    BY <1>2
  <2>3. /\ IsEarliestSet(operation.start, starts) /\ IsLast(operation.end, ends)
        /\ operation.start \in Nat /\ operation.end \in Nat
    BY DEF Aggregated, SpanCoversAll
  <2> HIDE DEF starts, ends
  <2>4. operation'.start \in Nat /\ IsEarliestSet(operation'.start, starts \cup {op.start})
    BY <1>3, <1>4, <2>1, <2>3, EarliestGrows
  <2>5. operation'.end \in Nat /\ IsLast(operation'.end, ends \cup {op.end})
    BY <1>3, <1>4, <2>1, <2>3, LastGrows
  <2> QED BY <2>2, <2>4, <2>5 DEF SpanCoversAll
<1>6. LogsKept'
  <2> DEFINE s == [i \in DOMAIN given |-> given[i].logs]
             t == [i \in DOMAIN given' |-> given'[i].logs]
  <2>1. Len(s) = Len(given) /\ Len(t) = Len(given) + 1
    BY <1>2
  <2>2. (\A i \in 1 .. Len(s) : t[i] = s[i]) /\ t[Len(t)] = op.logs
    BY <1>2, <2>1
  <2>3. operation.logs = FlattenSeq(s)
    BY DEF Aggregated, LogsKept
  <2> HIDE DEF s, t
  <2>4. FlattenSeq(t) = FlattenSeq(s) \o op.logs
    <3>1. /\ Len(s) \in Nat /\ Len(s) > 0 /\ Len(t) = Len(s) + 1
          /\ \A i \in 1 .. Len(s) : t[i] = s[i]
      BY <1>1, <1>2, <2>1, <2>2
    <3>2. FlattenSeq(t) = FlattenSeq(s) \o t[Len(t)]
      BY <3>1, FlattenMore
    <3> QED BY <2>2, <3>2, Zenon
  <2>5. operation'.logs = FlattenSeq(t)
    BY <1>4, <2>3, <2>4
  <2> QED BY <2>5 DEF LogsKept, t
<1>7. /\ Recorded(given', Upto(given', 0))
      /\ ReportTable(operation.values, given', Upto(given', 0))
      /\ QuotaTable(quota, given', Upto(given', 0))
  <2>1. /\ Upto(given', 0) = Places(given)
        /\ \A p \in Places(given) : At(given', p) = At(given, p)
    BY <1>1, EarlierStay
  <2> QED BY <2>1, TablesSame DEF Aggregated
<1>8. /\ Recorded(given', Places(given'))
      /\ ReportTable(operation'.values, given', Places(given'))
      /\ QuotaTable(quota', given', Places(given'))
  <2> DEFINE ops == given'
             t == operation.values
             u == quota
  <2>1. /\ ops \in Seq(Operations) /\ Len(ops) > 0 /\ ops[Len(ops)].values = op.values
        /\ Recorded(ops, Upto(ops, 0)) /\ ReportTable(t, ops, Upto(ops, 0))
        /\ QuotaTable(u, ops, Upto(ops, 0))
    BY <1>2, <1>7
  <2>2. /\ operation'.values = MergeMetricValueSets(t, op.values)
        /\ quota' = QuotaMerged(u, op.values)
    BY <1>1, <1>4
  <2> HIDE DEF ops, t, u
  <2>3. /\ Recorded(ops, Places(ops))
        /\ ReportTable(MergeMetricValueSets(t, op.values), ops, Places(ops))
        /\ QuotaTable(QuotaMerged(u, op.values), ops, Places(ops))
    BY <2>1, LastMerged
  <2> QED BY <2>2, <2>3, Zenon DEF ops
<1> QED BY <1>2, <1>4, <1>5, <1>6, <1>8 DEF Aggregated

LEMMA AggregatedSays == Aggregated => AggregateAsReported
<1> SUFFICES ASSUME Aggregated PROVE AggregateAsReported
  OBVIOUS
<1>1. \A p \in Places(given) : At(given, p).labels \in Labels
  BY MetricFields DEF Aggregated, Recorded
<1>2. ASSUME NEW n \in MetricNames, NEW l \in Labels
      PROVE  LET places == History(given, n, {l})
             IN Cell(operation.values[n][l], given, places, n)
  <2>1. History(given, n, {l}) = OfBoth(given, Places(given), n, l)
    BY DEF History, OfBoth
  <2> QED BY <2>1 DEF Aggregated, ReportTable
<1>3. ASSUME NEW n \in MetricNames
      PROVE  SumCell(quota[n], given, History(given, n, Labels), SummedInQuota)
  <2>1. History(given, n, Labels) = Of(given, Places(given), n)
    BY <1>1 DEF History, Of
  <2> QED BY <2>1 DEF Aggregated, QuotaTable
<1>4. ValuesAsReported
  BY <1>2, <1>3 DEF ValuesAsReported, Cell, SumCell, LatestCell
<1> QED BY <1>4 DEF Aggregated, AggregateAsReported

\* What holds between two operations: OperationAggregator::MergeOperation() and
\* QuotaOperationAggregator::MergeOperation().
THEOREM AggregateInvariance == OperationSpec => []Aggregated
<1>1. Aggregated /\ [OperationNext]_operationVars => Aggregated'
  <2> SUFFICES ASSUME Aggregated, [OperationNext]_operationVars PROVE Aggregated'
    OBVIOUS
  <2>1. CASE UNCHANGED operationVars
    BY <2>1 DEF operationVars, Aggregated, SpanCoversAll, LogsKept
  <2>2. CASE OperationNext
    BY <2>2, MergeOperationKeeps DEF OperationNext
  <2> QED BY <2>1, <2>2
<1> QED BY ConstructorMerges, <1>1, PTL DEF OperationSpec

\* Whatever operations are merged, and in whatever order, the aggregate says what
\* they reported: OperationAggregator and QuotaOperationAggregator.
THEOREM AggregateSays == OperationSpec => []AggregateAsReported
  BY AggregateInvariance, AggregatedSays, PTL

-----------------------------------------------------------------------------
(* Strings in their order.                                                 *)

LEMMA LessIsStrict == ASSUME NEW s \in Strings PROVE ~ByteLess(s, s)
<1>1. \A i \in 1 .. Len(s) : s[i] \in Nat
  BY DEF Strings
<1>2. Len(s) \in Nat
  BY DEF Strings
<1> QED BY <1>1, <1>2 DEF ByteLess

LEMMA LessGoesOn ==
  ASSUME NEW s \in Strings, NEW t \in Strings, NEW u \in Strings,
         ByteLess(s, t), ByteLess(t, u)
  PROVE  ByteLess(s, u)
<1>1. /\ Len(s) \in Nat /\ Len(t) \in Nat /\ Len(u) \in Nat
      /\ \A i \in 1 .. Len(s) : s[i] \in Nat
      /\ \A i \in 1 .. Len(t) : t[i] \in Nat
      /\ \A i \in 1 .. Len(u) : u[i] \in Nat
  BY DEF Strings
<1>2. PICK n \in 0 .. Len(s) : /\ n < Len(t) /\ \A i \in 1 .. n : s[i] = t[i]
                               /\ n = Len(s) \/ s[n + 1] < t[n + 1]
  BY DEF ByteLess
<1>3. PICK m \in 0 .. Len(t) : /\ m < Len(u) /\ \A i \in 1 .. m : t[i] = u[i]
                               /\ m = Len(t) \/ t[m + 1] < u[m + 1]
  BY DEF ByteLess
<1>4. CASE n < m
  <2>1. n + 1 \in 1 .. m /\ t[n + 1] = u[n + 1]
    BY <1>1, <1>3, <1>4
  <2>2. n < Len(u) /\ \A i \in 1 .. n : s[i] = u[i]
    BY <1>1, <1>2, <1>3, <1>4
  <2> QED BY <1>2, <2>1, <2>2 DEF ByteLess
<1>5. CASE n >= m
  <2>1. m \in 0 .. Len(s) /\ m < Len(t) /\ t[m + 1] < u[m + 1]
    BY <1>1, <1>2, <1>3, <1>5
  <2>2. \A i \in 1 .. m : s[i] = u[i]
    BY <1>1, <1>2, <1>3, <1>5
  <2>3. m = Len(s) \/ s[m + 1] < u[m + 1]
    <3>1. CASE n > m
      <4>1. s[m + 1] = t[m + 1]
        BY <1>1, <1>2, <3>1
      <4> QED BY <2>1, <4>1
    <3>2. CASE n = m
      <4>1. m = Len(s) \/ s[m + 1] < t[m + 1]
        BY <1>2, <3>2
      <4>2. m # Len(s) => s[m + 1] \in Nat
        BY <1>1, <2>1
      <4>3. t[m + 1] \in Nat /\ u[m + 1] \in Nat
        BY <1>1, <1>3, <2>1
      <4> QED BY <2>1, <4>1, <4>2, <4>3
    <3> QED BY <1>5, <3>1, <3>2
  <2> QED BY <1>3, <2>1, <2>2, <2>3 DEF ByteLess
<1> QED BY <1>4, <1>5

LEMMA LessOrGreater ==
  ASSUME NEW s \in Strings, NEW t \in Strings, s # t
  PROVE  ByteLess(s, t) \/ ByteLess(t, s)
<1>1. /\ Len(s) \in Nat /\ Len(t) \in Nat
      /\ \A i \in 1 .. Len(s) : s[i] \in Nat
      /\ \A i \in 1 .. Len(t) : t[i] \in Nat
  BY DEF Strings
<1> DEFINE D == {i \in Nat \ {0} : i <= Len(s) /\ i <= Len(t) /\ s[i] # t[i]}
<1>2. CASE D = {}
  <2>1. \A i \in 1 .. Len(s) : i <= Len(t) => s[i] = t[i]
    BY <1>1, <1>2
  <2>2. Len(s) # Len(t)
    <3>1. ASSUME Len(s) = Len(t) PROVE FALSE
      <4>1. \A i \in 1 .. Len(s) : s[i] = t[i]
        BY <1>1, <2>1, <3>1
      <4>2. s \in Seq(Nat \ {0}) /\ t \in Seq(Nat \ {0})
        BY DEF Strings
      <4> QED BY <3>1, <4>1, <4>2
    <3> QED BY <3>1
  <2>3. CASE Len(s) < Len(t)
    <3>1. Len(s) \in 0 .. Len(s) /\ \A i \in 1 .. Len(s) : s[i] = t[i]
      BY <1>1, <2>1, <2>3
    <3> QED BY <2>3, <3>1 DEF ByteLess
  <2>4. CASE Len(t) < Len(s)
    <3>1. Len(t) \in 0 .. Len(t) /\ \A i \in 1 .. Len(t) : t[i] = s[i]
      BY <1>1, <2>1, <2>4
    <3> QED BY <2>4, <3>1 DEF ByteLess
  <2> QED BY <1>1, <2>2, <2>3, <2>4
<1>3. CASE D # {}
  <2>0. D \in SUBSET Nat
    OBVIOUS
  <2> HIDE DEF D
  <2>1. PICK i \in D : \A j \in D : i <= j
    BY <1>3, <2>0, SmallestNumber
  <2> USE DEF D
  <2> DEFINE n == i - 1
  <2>2. /\ n \in 0 .. Len(s) /\ n \in 0 .. Len(t) /\ n < Len(s) /\ n < Len(t)
        /\ i = n + 1 /\ s[i] \in Nat /\ t[i] \in Nat /\ s[i] # t[i]
    BY <1>1
  <2>3. \A j \in 1 .. n : s[j] = t[j]
    BY <1>1, <2>1, <2>2
  <2> HIDE DEF D, n
  <2>4. s[n + 1] < t[n + 1] \/ t[n + 1] < s[n + 1]
    BY <2>2
  <2> QED BY <2>2, <2>3, <2>4 DEF ByteLess
<1> QED BY <1>2, <1>3

\* The strings of a set have one place each, so that all of them are there.
LEMMA SortedIs ==
  ASSUME NEW S \in SUBSET Strings, IsFiniteSet(S)
  PROVE  /\ Cardinality(S) \in Nat
         /\ Sorted(S) \in Seq(Strings) /\ Len(Sorted(S)) = Cardinality(S)
         /\ \A i \in 1 .. Cardinality(S) : Sorted(S)[i] \in S
         /\ \A s \in S : \E i \in 1 .. Cardinality(S) : Sorted(S)[i] = s
<1> DEFINE n == Cardinality(S)
           Rank(s) == Cardinality(Less(S, s))
           f == [s \in S |-> Rank(s) + 1]
<1>1. n \in Nat
  BY FS_CardinalityType
<1>2. ASSUME NEW s \in S PROVE IsFiniteSet(Less(S, s)) /\ Rank(s) \in 0 .. n - 1
  <2>1. Less(S, s) \subseteq S /\ s \notin Less(S, s)
    BY LessIsStrict DEF Less
  <2>2. IsFiniteSet(Less(S, s)) /\ Rank(s) <= n /\ (n = Rank(s) => S = Less(S, s))
    BY <2>1, FS_Subset
  <2>3. Rank(s) \in Nat
    BY <2>2, FS_CardinalityType
  <2> HIDE DEF n, Rank
  <2> QED BY <1>1, <2>1, <2>2, <2>3
<1>3. ASSUME NEW s \in S, NEW t \in S, ByteLess(s, t) PROVE Rank(s) < Rank(t)
  <2>1. Less(S, s) \subseteq Less(S, t)
    BY <1>3, LessGoesOn DEF Less
  <2>2. s \in Less(S, t) /\ s \notin Less(S, s)
    BY <1>3, LessIsStrict DEF Less
  <2>3. Rank(s) <= Rank(t) /\ (Rank(t) = Rank(s) => Less(S, t) = Less(S, s))
    BY <1>2, <2>1, FS_Subset
  <2>4. Rank(s) \in Nat /\ Rank(t) \in Nat
    BY <1>1, <1>2
  <2> HIDE DEF Rank
  <2> QED BY <2>2, <2>3, <2>4
<1>4. ASSUME NEW s \in S, NEW t \in S, Rank(s) = Rank(t) PROVE s = t
  <2>1. Rank(s) \in Nat
    BY <1>1, <1>2
  <2> HIDE DEF Rank
  <2> QED BY <1>3, <1>4, <2>1, LessOrGreater
<1>5. \A s \in S : f[s] = Rank(s) + 1 /\ f[s] \in 1 .. n /\ Rank(s) \in Nat
  <2> HIDE DEF n, Rank
  <2> QED BY <1>1, <1>2
<1>6. f \in Injection(S, 1 .. n)
  <2>1. \A s, t \in S : f[s] = f[t] => s = t
    <3> HIDE DEF f, Rank
    <3> QED BY <1>4, <1>5
  <2>2. f \in [S -> 1 .. n]
    BY <1>5
  <2> QED BY <2>1, <2>2 DEF Injection, IsInjective
<1>7. f \in Surjection(S, 1 .. n)
  <2>1. IsFiniteSet(1 .. n) /\ Cardinality(1 .. n) = n
    BY <1>1, FS_Interval
  <2> HIDE DEF f
  <2> QED BY <1>6, <2>1, FS_Injection
<1>8. ASSUME NEW i \in 1 .. n
      PROVE  /\ Sorted(S)[i] \in S /\ f[Sorted(S)[i]] = i
             /\ \A s \in S : f[s] = i => Sorted(S)[i] = s
  <2>1. \E s \in S : Rank(s) = i - 1
    <3>1. \E s \in S : f[s] = i
      <4> HIDE DEF f
      <4> QED BY <1>7 DEF Surjection
    <3> HIDE DEF f, Rank, n
    <3> QED BY <1>1, <1>5, <3>1
  <2>2. Sorted(S)[i] = CHOOSE s \in S : Rank(s) = i - 1
    BY DEF Sorted
  <2> HIDE DEF Rank
  <2>3. Sorted(S)[i] \in S /\ Rank(Sorted(S)[i]) = i - 1
    BY <2>1, <2>2
  <2> HIDE DEF n, f
  <2>4. f[Sorted(S)[i]] = i
    BY <1>1, <1>5, <2>3
  <2>5. \A s \in S : f[s] = i => Sorted(S)[i] = s
    BY <1>4, <1>5, <2>3, <2>4
  <2> QED BY <2>3, <2>4, <2>5
<1>9. Sorted(S) \in Seq(Strings) /\ Len(Sorted(S)) = n
  <2>1. Sorted(S) = [i \in 1 .. n |-> Sorted(S)[i]]
    BY DEF Sorted
  <2>2. \A i \in 1 .. n : Sorted(S)[i] \in Strings
    BY <1>8
  <2> DEFINE q == Sorted(S)
  <2> HIDE DEF n, q, f
  <2>3. q = [i \in 1 .. n |-> q[i]] /\ \A i \in 1 .. n : q[i] \in Strings
    BY <2>1, <2>2 DEF q
  <2>4. q \in Seq(Strings) /\ Len(q) = n
    BY <1>1, <2>3
  <2> QED BY <2>4 DEF q
<1>10. \A s \in S : \E i \in 1 .. n : Sorted(S)[i] = s
  <2> HIDE DEF n, f
  <2> QED BY <1>5, <1>8
<1> QED BY <1>1, <1>8, <1>9, <1>10

-----------------------------------------------------------------------------
(* Joined sequences.                                                       *)

\* All but the last.
ButLast(s) == [i \in 1 .. Len(s) - 1 |-> s[i]]

LEMMA ButLastIs ==
  ASSUME NEW X, NEW s \in Seq(X), Len(s) > 0
  PROVE  /\ ButLast(s) \in Seq(X) /\ Len(ButLast(s)) = Len(s) - 1
         /\ \A i \in 1 .. Len(s) - 1 : ButLast(s)[i] = s[i]
         /\ s[Len(s)] \in X /\ Len(s) \in 1 .. Len(s)
<1>1. Len(s) \in Nat /\ \A i \in 1 .. Len(s) : s[i] \in X
  OBVIOUS
<1> QED BY <1>1 DEF ButLast

\* Sequences that agree but for the last, and in the last, are equal.
LEMMA ButLastAndLast ==
  ASSUME NEW X, NEW s \in Seq(X), NEW t \in Seq(X), Len(s) > 0, Len(t) > 0,
         ButLast(s) = ButLast(t), s[Len(s)] = t[Len(t)]
  PROVE  s = t
<1>1. Len(s) \in Nat /\ Len(t) \in Nat /\ Len(s) = Len(t)
  BY ButLastIs
<1>2. \A i \in 1 .. Len(s) : s[i] = t[i]
  <2>1. \A i \in 1 .. Len(s) - 1 : s[i] = ButLast(s)[i] /\ t[i] = ButLast(t)[i]
    BY <1>1, ButLastIs
  <2>2. \A i \in 1 .. Len(s) : i \in 1 .. Len(s) - 1 \/ i = Len(s)
    BY <1>1
  <2> QED BY <1>1, <2>1, <2>2
<1> QED BY <1>1, <1>2

LEMMA FlattenNone == ASSUME NEW s, Len(s) = 0 PROVE FlattenSeq(s) = s
  BY DEF FlattenSeq

LEMMA FlattenStep ==
  ASSUME NEW X, NEW s \in Seq(Seq(X)), Len(s) > 0
  PROVE  FlattenSeq(s) = FlattenSeq(ButLast(s)) \o s[Len(s)]
<1> DEFINE m == ButLast(s)
<1>1. /\ m \in Seq(Seq(X)) /\ Len(m) = Len(s) - 1 /\ Len(s) \in Nat
      /\ \A i \in 1 .. Len(m) : s[i] = m[i]
      /\ s[Len(s)] \in Seq(X)
  BY ButLastIs
<1> HIDE DEF m
<1>2. CASE Len(m) = 0
  <2>1. FlattenSeq(s) = s[1] /\ Len(s) = 1
    BY <1>1, <1>2, FlattenOne
  <2>2. FlattenSeq(m) = <<>>
    BY <1>1, <1>2, FlattenNone
  <2>3. <<>> \o s[1] = s[1]
    BY <1>1, <2>1
  <2> QED BY <2>1, <2>2, <2>3 DEF m
<1>3. CASE Len(m) > 0
  <2>1. Len(m) \in Nat /\ Len(s) = Len(m) + 1
    BY <1>1
  <2>2. FlattenSeq(s) = FlattenSeq(m) \o s[Len(s)]
    BY <1>1, <1>3, <2>1, FlattenMore
  <2> QED BY <2>2 DEF m
<1>4. Len(m) = 0 \/ Len(m) > 0
  BY <1>1
<1> QED BY <1>2, <1>3, <1>4

LEMMA FlattenType ==
  ASSUME NEW X, NEW s \in Seq(Seq(X))
  PROVE  FlattenSeq(s) \in Seq(X)
<1> DEFINE T == {n \in Nat : \E r \in Seq(Seq(X)) : Len(r) = n /\ FlattenSeq(r) \notin Seq(X)}
<1>1. SUFFICES ASSUME T # {} PROVE FALSE
  <2>1. Len(s) \in Nat
    OBVIOUS
  <2> QED BY <2>1
<1>2. T \in SUBSET Nat
  OBVIOUS
<1> HIDE DEF T
<1>3. PICK n \in T : \A m \in T : n <= m
  BY <1>1, <1>2, SmallestNumber
<1> USE DEF T
<1>4. PICK r \in Seq(Seq(X)) : Len(r) = n /\ FlattenSeq(r) \notin Seq(X)
  OBVIOUS
<1>5. n # 0
  <2>1. ASSUME n = 0 PROVE FALSE
    <3>1. FlattenSeq(r) = r
      BY <1>4, <2>1, FlattenNone
    <3>2. r = <<>>
      BY <1>4, <2>1
    <3>3. r \in Seq(X)
      BY <3>2
    <3> QED BY <1>4, <3>1, <3>3
  <2> QED BY <2>1
<1>6. /\ ButLast(r) \in Seq(Seq(X)) /\ Len(ButLast(r)) = n - 1
      /\ r[Len(r)] \in Seq(X) /\ n \in Nat
  BY <1>4, <1>5, ButLastIs
<1>7. n - 1 \in Nat /\ n - 1 \notin T
  BY <1>3, <1>5, <1>6
<1>8. FlattenSeq(ButLast(r)) \in Seq(X)
  BY <1>6, <1>7
<1> HIDE DEF T
<1>11. Len(r) > 0
  BY <1>4, <1>5, <1>6
<1>9. FlattenSeq(r) = FlattenSeq(ButLast(r)) \o r[Len(r)]
  BY <1>11, FlattenStep
<1>10. FlattenSeq(r) \in Seq(X)
  BY <1>6, <1>8, <1>9
<1> QED BY <1>4, <1>10

\* The elements of joined sequences.
\* Two sequences end in the same one of a length, and are the same before it.
LEMMA ConcatSeparates ==
  ASSUME NEW X, NEW a \in Seq(X), NEW b \in Seq(X), NEW c \in Seq(X), NEW d \in Seq(X),
         a \o b = c \o d, Len(a) = Len(c) \/ Len(b) = Len(d)
  PROVE  a = c /\ b = d
<1> DEFINE u == a \o b
           v == c \o d
<1>1. /\ Len(a) \in Nat /\ Len(b) \in Nat /\ Len(c) \in Nat /\ Len(d) \in Nat
      /\ Len(u) = Len(a) + Len(b) /\ Len(v) = Len(c) + Len(d)
      /\ \A i \in 1 .. Len(a) : u[i] = a[i]
      /\ \A i \in 1 .. Len(c) : v[i] = c[i]
      /\ \A i \in 1 .. Len(b) : u[Len(a) + i] = b[i]
      /\ \A i \in 1 .. Len(d) : v[Len(c) + i] = d[i]
  <2>1. /\ Len(a) \in Nat /\ Len(b) \in Nat /\ Len(u) = Len(a) + Len(b)
        /\ \A i \in 1 .. Len(a) : u[i] = a[i]
        /\ \A i \in 1 .. Len(b) : u[Len(a) + i] = b[i]
    OBVIOUS
  <2>2. /\ Len(c) \in Nat /\ Len(d) \in Nat /\ Len(v) = Len(c) + Len(d)
        /\ \A i \in 1 .. Len(c) : v[i] = c[i]
        /\ \A i \in 1 .. Len(d) : v[Len(c) + i] = d[i]
    OBVIOUS
  <2> HIDE DEF u, v
  <2> QED BY <2>1, <2>2
<1>2. u = v
  OBVIOUS
<1> HIDE DEF u, v
<1>3. Len(a) = Len(c) /\ Len(b) = Len(d)
  BY <1>1, <1>2
<1>4. (\A i \in 1 .. Len(a) : a[i] = c[i]) /\ (\A i \in 1 .. Len(b) : b[i] = d[i])
  BY <1>1, <1>2, <1>3
<1>5. a = c
  BY <1>3, <1>4
<1>6. b = d
  BY <1>3, <1>4
<1> QED BY <1>5, <1>6

\* Sequences joined of parts of the same lengths have the same parts.
LEMMA FlattenSeparates ==
  ASSUME NEW X, NEW s \in Seq(Seq(X)), NEW t \in Seq(Seq(X)), Len(s) = Len(t),
         \A i \in 1 .. Len(s) : Len(s[i]) = Len(t[i]), FlattenSeq(s) = FlattenSeq(t)
  PROVE  s = t
<1> DEFINE Q == Seq(Seq(X))
           Bad(q, r) == /\ Len(q) = Len(r) /\ \A i \in 1 .. Len(q) : Len(q[i]) = Len(r[i])
                        /\ FlattenSeq(q) = FlattenSeq(r) /\ q # r
           T == {n \in Nat : \E q, r \in Q : Len(q) = n /\ Bad(q, r)}
<1>1. SUFFICES ASSUME T # {} PROVE FALSE
  <2>1. ASSUME s # t PROVE Len(s) \in T
    <3>1. Len(s) \in Nat /\ s \in Q /\ t \in Q
      OBVIOUS
    <3>2. Bad(s, t)
      BY <2>1
    <3> HIDE DEF Bad, Q
    <3> QED BY <3>1, <3>2
  <2> QED BY <2>1
<1>2. T \in SUBSET Nat
  OBVIOUS
<1> HIDE DEF T
<1>3. PICK n \in T : \A m \in T : n <= m
  BY <1>1, <1>2, SmallestNumber
<1> USE DEF T
<1> HIDE DEF Bad, Q
<1>4. PICK q \in Q, r \in Q : Len(q) = n /\ Bad(q, r)
  OBVIOUS
<1> HIDE DEF T
<1>5. /\ n \in Nat /\ q \in Seq(Seq(X)) /\ r \in Seq(Seq(X))
      /\ Len(q) = n /\ Len(r) = n /\ q # r
      /\ \A i \in 1 .. n : Len(q[i]) = Len(r[i])
      /\ FlattenSeq(q) = FlattenSeq(r)
  BY <1>2, <1>4 DEF Bad, Q
<1>6. n > 0 /\ n \in 1 .. n
  <2>1. n # 0
    BY <1>5
  <2> QED BY <1>5, <2>1
<1>7. /\ ButLast(q) \in Seq(Seq(X)) /\ Len(ButLast(q)) = n - 1 /\ q[n] \in Seq(X)
      /\ \A i \in 1 .. n - 1 : ButLast(q)[i] = q[i]
  BY <1>5, <1>6, ButLastIs
<1>8. /\ ButLast(r) \in Seq(Seq(X)) /\ Len(ButLast(r)) = n - 1 /\ r[n] \in Seq(X)
      /\ \A i \in 1 .. n - 1 : ButLast(r)[i] = r[i]
  BY <1>5, <1>6, ButLastIs
<1>9. /\ FlattenSeq(ButLast(q)) \o q[n] = FlattenSeq(ButLast(r)) \o r[n]
      /\ Len(q[n]) = Len(r[n])
  <2>1. FlattenSeq(q) = FlattenSeq(ButLast(q)) \o q[n]
    BY <1>5, <1>6, FlattenStep
  <2>2. FlattenSeq(r) = FlattenSeq(ButLast(r)) \o r[n]
    BY <1>5, <1>6, FlattenStep
  <2> QED BY <1>5, <1>6, <2>1, <2>2
<1>10. FlattenSeq(ButLast(q)) = FlattenSeq(ButLast(r)) /\ q[n] = r[n]
  <2>1. FlattenSeq(ButLast(q)) \in Seq(X) /\ FlattenSeq(ButLast(r)) \in Seq(X)
    BY <1>7, <1>8, FlattenType
  <2>2. q[n] \in Seq(X) /\ r[n] \in Seq(X)
    BY <1>7, <1>8
  <2> DEFINE a == FlattenSeq(ButLast(q))
             b == q[n]
             c == FlattenSeq(ButLast(r))
             d == r[n]
  <2>3. /\ a \in Seq(X) /\ b \in Seq(X) /\ c \in Seq(X) /\ d \in Seq(X)
        /\ a \o b = c \o d /\ Len(b) = Len(d)
    BY <1>9, <2>1, <2>2
  <2> HIDE DEF a, b, c, d
  <2>4. a = c /\ b = d
    BY <2>3, ConcatSeparates
  <2> QED BY <2>4 DEF a, b, c, d
<1>11. ButLast(q) # ButLast(r)
  BY <1>5, <1>6, <1>10, ButLastAndLast
<1>12. \A i \in 1 .. n - 1 : Len(ButLast(q)[i]) = Len(ButLast(r)[i])
  <2> DEFINE e == ButLast(q)
             f == ButLast(r)
  <2>1. \A i \in 1 .. n - 1 : e[i] = q[i] /\ f[i] = r[i]
    BY <1>7, <1>8, Zenon
  <2>2. \A i \in 1 .. n - 1 : i \in 1 .. n
    BY <1>5
  <2> HIDE DEF e, f
  <2>3. \A i \in 1 .. n - 1 : Len(e[i]) = Len(f[i])
    BY <1>5, <2>1, <2>2, Zenon
  <2> QED BY <2>3, Zenon DEF e, f
<1>13. Bad(ButLast(q), ButLast(r)) /\ n - 1 \in Nat
  BY <1>5, <1>6, <1>7, <1>8, <1>10, <1>11, <1>12 DEF Bad
<1>14. n - 1 \in T
  BY <1>7, <1>8, <1>13 DEF T, Q
<1> QED BY <1>3, <1>5, <1>14

\* What is joined of pairs has twice as many elements.
LEMMA FlattenPairs ==
  ASSUME NEW X, NEW s \in Seq(Seq(X)), \A i \in 1 .. Len(s) : Len(s[i]) = 2
  PROVE  Len(FlattenSeq(s)) = 2 * Len(s)
<1> DEFINE Pairs(r) == \A i \in 1 .. Len(r) : Len(r[i]) = 2
           T == {n \in Nat : \E r \in Seq(Seq(X)) :
                   Len(r) = n /\ Pairs(r) /\ Len(FlattenSeq(r)) # 2 * n}
<1>1. SUFFICES ASSUME T # {} PROVE FALSE
  <2>1. Len(s) \in Nat
    OBVIOUS
  <2> QED BY <2>1
<1>2. T \in SUBSET Nat
  OBVIOUS
<1> HIDE DEF T
<1>3. PICK n \in T : \A m \in T : n <= m
  BY <1>1, <1>2, SmallestNumber
<1> USE DEF T
<1>4. PICK r \in Seq(Seq(X)) : Len(r) = n /\ Pairs(r) /\ Len(FlattenSeq(r)) # 2 * n
  OBVIOUS
<1> HIDE DEF T
<1>5. n \in Nat /\ n > 0 /\ r \in Seq(Seq(X)) /\ Len(r) = n
  <2>1. n \in Nat
    BY <1>2
  <2>2. n # 0
    BY <1>4, FlattenNone
  <2> QED BY <1>4, <2>1, <2>2
<1>6. /\ ButLast(r) \in Seq(Seq(X)) /\ Len(ButLast(r)) = n - 1
      /\ r[n] \in Seq(X) /\ n \in 1 .. n
      /\ \A i \in 1 .. n - 1 : ButLast(r)[i] = r[i]
  BY <1>5, ButLastIs
<1>7. n - 1 \in Nat /\ n - 1 \notin T
  BY <1>3, <1>5
<1>8. Pairs(ButLast(r))
  BY <1>4, <1>5, <1>6
<1>9. Len(FlattenSeq(ButLast(r))) = 2 * (n - 1)
  <2> HIDE DEF Pairs
  <2> QED BY <1>6, <1>7, <1>8 DEF T
<1>10. FlattenSeq(r) = FlattenSeq(ButLast(r)) \o r[n] /\ FlattenSeq(ButLast(r)) \in Seq(X)
  BY <1>5, <1>6, FlattenStep, FlattenType
<1>11. Len(r[n]) = 2
  BY <1>4, <1>5, <1>6
<1> HIDE DEF Pairs
<1>12. Len(FlattenSeq(r)) = 2 * n
  <2> DEFINE f == FlattenSeq(ButLast(r))
             g == r[n]
  <2>1. f \in Seq(X) /\ g \in Seq(X) /\ Len(f) = 2 * (n - 1) /\ Len(g) = 2
    BY <1>6, <1>9, <1>10, <1>11
  <2> HIDE DEF f, g
  <2>2. Len(f \o g) = 2 * (n - 1) + 2
    <3>1. f \in Seq(X) /\ g \in Seq(X)
      BY <2>1
    <3>2. Len(f \o g) = Len(f) + Len(g)
      BY <3>1
    <3> QED BY <2>1, <3>2, Zenon
  <2>3. 2 * (n - 1) + 2 = 2 * n
    BY <1>5
  <2> QED BY <1>10, <2>2, <2>3 DEF f, g
<1> QED BY <1>4, <1>12

-----------------------------------------------------------------------------
(* What is hashed.                                                         *)

Bytes == Nat

Associates(a, b, c) == (a \o b) \o c = a \o (b \o c)

LEMMA BytesJoined == \A a, b, c \in Seq(Bytes) : Associates(a, b, c)
  BY ConcatAssociative DEF Associates

\* The same of parts that are as long.
SameJoined(a, b, c, d) == a \o b = c \o d /\ (Len(a) = Len(c) \/ Len(b) = Len(d))

LEMMA BytesSeparate ==
  \A a, b, c, d \in Seq(Bytes) : SameJoined(a, b, c, d) => a = c /\ b = d
  BY ConcatSeparates, Zenon DEF SameJoined

\* A string after a delimiter.
LEMMA AfterDelimiter ==
  ASSUME NEW z \in Strings
  PROVE  /\ z \in Seq(Bytes) /\ Len(z) \in Nat /\ \A i \in 1 .. Len(z) : z[i] # 0
         /\ Delimiter \o z \in Seq(Bytes) /\ Len(Delimiter \o z) = Len(z) + 1
         /\ (Delimiter \o z)[1] = 0
         /\ \A i \in 1 .. Len(z) : (Delimiter \o z)[i + 1] = z[i]
<1>1. z \in Seq(Bytes) /\ Len(z) \in Nat /\ \A i \in 1 .. Len(z) : z[i] # 0
  BY DEF Strings, Bytes
<1>2. Delimiter \in Seq(Bytes) /\ Len(Delimiter) = 1 /\ Delimiter[1] = 0
  BY DEF Delimiter, Bytes
<1>3. /\ Delimiter \o z \in Seq(Bytes) /\ Len(Delimiter \o z) = Len(Delimiter) + Len(z)
      /\ \A i \in 1 .. Len(Delimiter) + Len(z) :
           (Delimiter \o z)[i] = IF i <= Len(Delimiter) THEN Delimiter[i]
                                 ELSE z[i - Len(Delimiter)]
  BY <1>1, <1>2, ConcatProperties
<1> DEFINE e == Delimiter \o z
<1> HIDE DEF e
<1>4. /\ Len(e) = 1 + Len(z)
      /\ \A i \in 1 .. 1 + Len(z) : e[i] = IF i <= 1 THEN Delimiter[i] ELSE z[i - 1]
  BY <1>2, <1>3, Zenon DEF e
<1>5. e[1] = 0 /\ Len(e) = Len(z) + 1
  BY <1>1, <1>2, <1>4
<1>6. \A i \in 1 .. Len(z) : e[i + 1] = z[i]
  BY <1>1, <1>4
<1> QED BY <1>1, <1>3, <1>5, <1>6 DEF e

\* After other bytes, the delimiter is where the string says.
LEMMA DelimiterAt ==
  ASSUME NEW p \in Seq(Bytes), NEW z \in Strings
  PROVE  /\ p \o (Delimiter \o z) \in Seq(Bytes) /\ Len(p) \in Nat
         /\ Len(p \o (Delimiter \o z)) = Len(p) + Len(z) + 1
         /\ (p \o (Delimiter \o z))[Len(p) + 1] = 0
         /\ \A i \in Len(p) + 2 .. Len(p) + Len(z) + 1 : (p \o (Delimiter \o z))[i] # 0
<1> DEFINE e == Delimiter \o z
           u == p \o e
<1>1. /\ Len(z) \in Nat /\ \A i \in 1 .. Len(z) : z[i] # 0
      /\ e \in Seq(Bytes) /\ Len(e) = Len(z) + 1 /\ e[1] = 0
      /\ \A i \in 1 .. Len(z) : e[i + 1] = z[i]
  BY AfterDelimiter
<1> HIDE DEF e
<1>2. /\ u \in Seq(Bytes) /\ Len(u) = Len(p) + Len(e)
      /\ \A i \in 1 .. Len(p) + Len(e) : u[i] = IF i <= Len(p) THEN p[i] ELSE e[i - Len(p)]
  BY <1>1, ConcatProperties
<1>3. Len(p) \in Nat
  OBVIOUS
<1> HIDE DEF u
<1>4. u[Len(p) + 1] = 0
  <2>1. /\ Len(p) + 1 \in 1 .. Len(p) + Len(e) /\ ~(Len(p) + 1 <= Len(p))
        /\ (Len(p) + 1) - Len(p) = 1
    BY <1>1, <1>3
  <2> QED BY <1>1, <1>2, <2>1
<1>5. ASSUME NEW i \in Len(p) + 2 .. Len(p) + Len(z) + 1 PROVE u[i] # 0
  <2> DEFINE j == i - Len(p) - 1
  <2>1. j \in 1 .. Len(z) /\ i - Len(p) = j + 1 /\ i \in 1 .. Len(p) + Len(e) /\ ~(i <= Len(p))
    BY <1>1, <1>3
  <2> HIDE DEF j
  <2>2. u[i] = e[j + 1]
    BY <1>2, <2>1
  <2> QED BY <1>1, <2>1, <2>2
<1>6. Len(u) = Len(p) + Len(z) + 1
  BY <1>1, <1>2, <1>3
<1> QED BY <1>2, <1>3, <1>4, <1>5, <1>6 DEF u, e

\* Two sequences of bytes end in strings after a delimiter.
LEMMA LastDelimiter ==
  ASSUME NEW a \in Seq(Bytes), NEW b \in Seq(Bytes), NEW x \in Strings, NEW y \in Strings,
         a \o (Delimiter \o x) = b \o (Delimiter \o y)
  PROVE  a = b /\ x = y
<1> DEFINE u == a \o (Delimiter \o x)
           v == b \o (Delimiter \o y)
           c == Delimiter \o x
           d == Delimiter \o y
<1>1. /\ Len(a) \in Nat /\ Len(u) = Len(a) + Len(x) + 1 /\ u[Len(a) + 1] = 0
      /\ \A i \in Len(a) + 2 .. Len(a) + Len(x) + 1 : u[i] # 0
  BY DelimiterAt
<1>2. /\ Len(b) \in Nat /\ Len(v) = Len(b) + Len(y) + 1 /\ v[Len(b) + 1] = 0
      /\ \A i \in Len(b) + 2 .. Len(b) + Len(y) + 1 : v[i] # 0
  BY DelimiterAt
<1>3. /\ x \in Seq(Bytes) /\ Len(x) \in Nat /\ c \in Seq(Bytes) /\ Len(c) = Len(x) + 1
      /\ \A i \in 1 .. Len(x) : c[i + 1] = x[i]
  BY AfterDelimiter
<1>4. /\ y \in Seq(Bytes) /\ Len(y) \in Nat /\ d \in Seq(Bytes) /\ Len(d) = Len(y) + 1
      /\ \A i \in 1 .. Len(y) : d[i + 1] = y[i]
  BY AfterDelimiter
<1>5. u = v /\ a \o c = b \o d
  OBVIOUS
<1> HIDE DEF u, v, c, d
<1>6. Len(x) = Len(y)
  <2> DEFINE p == Len(a)
             q == Len(b)
             k == Len(x)
             l == Len(y)
  <2>0. /\ p \in Nat /\ q \in Nat /\ k \in Nat /\ l \in Nat /\ p + k + 1 = q + l + 1
        /\ u[p + 1] = 0 /\ u[q + 1] = 0
        /\ \A i \in p + 2 .. p + k + 1 : u[i] # 0
        /\ \A i \in q + 2 .. q + l + 1 : u[i] # 0
    BY <1>1, <1>2, <1>3, <1>4, <1>5, Zenon
  <2> HIDE DEF p, q, k, l
  <2>1. p + k = q + l
    BY <2>0
  <2>2. ~(p < q)
    <3>1. p < q => q + 1 \in p + 2 .. p + k + 1
      BY <2>0, <2>1
    <3> QED BY <2>0, <3>1
  <2>3. ~(q < p)
    <3>1. q < p => p + 1 \in q + 2 .. q + l + 1
      BY <2>0, <2>1
    <3> QED BY <2>0, <3>1
  <2>4. k = l
    BY <2>0, <2>1, <2>2, <2>3
  <2> QED BY <2>4 DEF k, l
<1>7. Len(c) = Len(d)
  BY <1>3, <1>4, <1>6
<1>8. a = b /\ c = d
  <2>1. /\ a \in Seq(Bytes) /\ c \in Seq(Bytes) /\ b \in Seq(Bytes) /\ d \in Seq(Bytes)
        /\ a \o c = b \o d /\ Len(c) = Len(d)
    BY <1>3, <1>4, <1>5, <1>7
  <2>2. SameJoined(a, c, b, d)
    BY <2>1 DEF SameJoined
  <2> QED BY <2>1, <2>2, BytesSeparate, Zenon
<1>9. \A i \in 1 .. Len(x) : x[i] = y[i]
  BY <1>3, <1>4, <1>6, <1>8
<1>10. x = y
  BY <1>3, <1>4, <1>6, <1>9, SeqEqual
<1> QED BY <1>8, <1>10

SameEnd(a, x, b, y) == a \o (Delimiter \o x) = b \o (Delimiter \o y)

LEMMA LastSeparates ==
  \A a, b \in Seq(Bytes) : \A x, y \in Strings : SameEnd(a, x, b, y) => a = b /\ x = y
  BY LastDelimiter, Zenon DEF SameEnd

LEMMA DelimitedStep ==
  ASSUME NEW s \in Seq(Strings)
  PROVE  /\ Delimited(s) \in Seq(Bytes)
         /\ Len(s) = 0 => Delimited(s) = <<>>
         /\ Len(s) > 0 => Delimited(s) = Delimited(ButLast(s)) \o (Delimiter \o s[Len(s)])
<1> DEFINE W(r) == [i \in DOMAIN r |-> Delimiter \o r[i]]
           d == W(s)
<1>1. /\ Len(s) \in Nat /\ DOMAIN s = 1 .. Len(s)
      /\ \A i \in 1 .. Len(s) : s[i] \in Seq(Bytes) /\ Delimiter \o s[i] \in Seq(Bytes)
  <2>1. \A i \in 1 .. Len(s) : s[i] \in Strings
    OBVIOUS
  <2>2. \A x \in Strings : x \in Seq(Bytes) /\ Delimiter \o x \in Seq(Bytes)
    BY DEF Strings, Delimiter, Bytes
  <2> QED BY <2>1, <2>2
<1>2. d \in Seq(Seq(Bytes)) /\ Len(d) = Len(s)
  BY <1>1
<1>3. Delimited(s) \in Seq(Bytes)
  <2> HIDE DEF d
  <2> QED BY <1>2, FlattenType DEF Delimited, d
<1>4. ASSUME Len(s) = 0 PROVE Delimited(s) = <<>>
  <2>1. FlattenSeq(d) = d
    BY <1>2, <1>4, FlattenNone
  <2>2. d = <<>>
    BY <1>2, <1>4
  <2> QED BY <2>1, <2>2 DEF Delimited
<1>5. ASSUME Len(s) > 0
      PROVE  Delimited(s) = Delimited(ButLast(s)) \o (Delimiter \o s[Len(s)])
  <2>1. /\ ButLast(s) \in Seq(Strings) /\ Len(ButLast(s)) = Len(s) - 1
        /\ \A i \in 1 .. Len(s) - 1 : ButLast(s)[i] = s[i]
        /\ Len(s) \in 1 .. Len(s)
    BY <1>5, ButLastIs
  <2>2. W(ButLast(s)) = ButLast(d)
    <3>1. DOMAIN ButLast(s) = 1 .. Len(s) - 1
      BY <2>1
    <3>2. \A i \in 1 .. Len(s) - 1 : d[i] = Delimiter \o s[i]
      BY <1>1
    <3>3. ButLast(d) = [i \in 1 .. Len(s) - 1 |-> d[i]]
      <4> HIDE DEF d
      <4> QED BY <1>2 DEF ButLast
    <3> HIDE DEF d
    <3> QED BY <2>1, <3>1, <3>2, <3>3
  <2>3. d[Len(d)] = Delimiter \o s[Len(s)]
    BY <1>1, <1>2, <2>1
  <2> HIDE DEF W
  <2>4. FlattenSeq(d) = FlattenSeq(ButLast(d)) \o d[Len(d)]
    BY <1>2, <1>5, FlattenStep
  <2> QED BY <2>2, <2>3, <2>4 DEF Delimited, W
<1> QED BY <1>3, <1>4, <1>5

\* Strings with delimiters between them are told apart, empty ones too.
LEMMA DelimitedSeparates ==
  ASSUME NEW c \in Strings, NEW d \in Strings, NEW s \in Seq(Strings), NEW t \in Seq(Strings),
         c \o Delimited(s) = d \o Delimited(t)
  PROVE  c = d /\ s = t
<1> DEFINE Bad(q, r) == c \o Delimited(q) = d \o Delimited(r) /\ ~(c = d /\ q = r)
           T == {n \in Nat : \E q, r \in Seq(Strings) : Len(q) = n /\ Bad(q, r)}
<1>1. SUFFICES ASSUME T # {} PROVE FALSE
  <2>1. ASSUME ~(c = d /\ s = t) PROVE Len(s) \in T
    <3>1. Len(s) \in Nat /\ Bad(s, t)
      BY <2>1
    <3> HIDE DEF Bad
    <3> QED BY <3>1
  <2> QED BY <2>1
<1>2. T \in SUBSET Nat
  OBVIOUS
<1> HIDE DEF T, Bad
<1>3. PICK n \in T : \A m \in T : n <= m
  BY <1>1, <1>2, SmallestNumber
<1>4. PICK q \in Seq(Strings), r \in Seq(Strings) : Len(q) = n /\ Bad(q, r)
  BY DEF T
<1>5. /\ n \in Nat /\ Len(r) \in Nat /\ Len(q) = n
      /\ q \in Seq(Strings) /\ r \in Seq(Strings)
      /\ c \o Delimited(q) = d \o Delimited(r) /\ ~(c = d /\ q = r)
  BY <1>2, <1>4 DEF Bad
<1>6. c \in Seq(Bytes) /\ d \in Seq(Bytes)
  BY DEF Strings, Bytes
<1>7. ASSUME NEW x \in Strings, NEW y \in Seq(Strings), Len(y) > 0
      PROVE  /\ y[Len(y)] \in Strings /\ Delimited(ButLast(y)) \in Seq(Bytes)
             /\ x \o Delimited(ButLast(y)) \in Seq(Bytes)
             /\ x \o Delimited(y) = (x \o Delimited(ButLast(y))) \o (Delimiter \o y[Len(y)])
  <2> DEFINE k == Delimiter \o y[Len(y)]
             l == Delimited(ButLast(y))
  <2>1. /\ ButLast(y) \in Seq(Strings) /\ y[Len(y)] \in Strings
    BY <1>7, ButLastIs
  <2>2. l \in Seq(Bytes) /\ Delimited(y) = l \o k
    BY <1>7, <2>1, DelimitedStep
  <2>3. k \in Seq(Bytes) /\ x \in Seq(Bytes)
    BY <2>1, AfterDelimiter
  <2> HIDE DEF k, l
  <2>4. x \o (l \o k) = (x \o l) \o k /\ x \o l \in Seq(Bytes)
    <3>1. x \in Seq(Bytes) /\ l \in Seq(Bytes) /\ k \in Seq(Bytes)
      BY <2>2, <2>3
    <3>2. (x \o l) \o k = x \o (l \o k)
      <4>1. Associates(x, l, k)
        BY <3>1, BytesJoined, Zenon
      <4> QED BY <4>1, Zenon DEF Associates
    <3>3. x \o l \in Seq(Bytes)
      BY <3>1, ConcatProperties, Zenon
    <3> QED BY <3>2, <3>3, Zenon
  <2> QED BY <2>1, <2>2, <2>4 DEF k, l
<1>8. ASSUME NEW x \in Strings, NEW y \in Seq(Strings), NEW e \in Strings, Len(y) > 0,
             e = x \o Delimited(y)
      PROVE  FALSE
  <2> DEFINE f == x \o Delimited(ButLast(y))
             g == y[Len(y)]
  <2>1. f \in Seq(Bytes) /\ g \in Strings /\ e = f \o (Delimiter \o g)
    BY <1>7, <1>8
  <2> HIDE DEF f, g
  <2>2. /\ Len(f) \in Nat /\ Len(e) = Len(f) + Len(g) + 1 /\ e[Len(f) + 1] = 0
    BY <2>1, DelimiterAt
  <2>3. Len(g) \in Nat /\ \A i \in 1 .. Len(e) : e[i] # 0
    BY <2>1, AfterDelimiter
  <2>4. Len(f) + 1 \in 1 .. Len(e)
    BY <2>2, <2>3
  <2> QED BY <2>2, <2>3, <2>4
<1>9. ASSUME NEW y \in Seq(Strings), Len(y) = 0
      PROVE  y = <<>> /\ \A x \in Seq(Bytes) : x \o Delimited(y) = x
  <2>1. Delimited(y) = <<>>
    BY <1>9, DelimitedStep
  <2>2. \A x \in Seq(Bytes) : x \o <<>> = x
    BY ConcatEmptySeq
  <2>3. y = <<>>
    BY <1>9
  <2> QED BY <2>1, <2>2, <2>3
<1>10. CASE n = 0
  <2>1. q = <<>> /\ c = d \o Delimited(r)
    BY <1>5, <1>6, <1>9, <1>10
  <2>2. Len(r) = 0
    <3>1. ~(Len(r) > 0)
      BY <1>5, <1>8, <2>1, Zenon
    <3> QED BY <1>5, <3>1
  <2>3. r = <<>> /\ c = d
    BY <1>5, <1>6, <1>9, <2>1, <2>2
  <2> QED BY <1>5, <2>1, <2>3
<1>11. CASE Len(r) = 0
  <2>1. r = <<>> /\ d = c \o Delimited(q)
    BY <1>5, <1>6, <1>9, <1>11
  <2>2. n = 0
    <3>1. ~(Len(q) > 0)
      BY <1>5, <1>8, <2>1, Zenon
    <3> QED BY <1>5, <3>1
  <2> QED BY <1>10, <2>2
<1>12. CASE n > 0 /\ Len(r) > 0
  <2> DEFINE a == c \o Delimited(ButLast(q))
             b == d \o Delimited(ButLast(r))
             x == q[Len(q)]
             y == r[Len(r)]
  <2>1. /\ a \in Seq(Bytes) /\ x \in Strings
        /\ c \o Delimited(q) = a \o (Delimiter \o x)
    BY <1>5, <1>7, <1>12
  <2>2. /\ b \in Seq(Bytes) /\ y \in Strings
        /\ d \o Delimited(r) = b \o (Delimiter \o y)
    BY <1>5, <1>7, <1>12
  <2>3. a \o (Delimiter \o x) = b \o (Delimiter \o y)
    BY <1>5, <2>1, <2>2, Zenon
  <2>4. a = b /\ x = y
    <3> HIDE DEF a, b, x, y
    <3>1. SameEnd(a, x, b, y)
      BY <2>3, Zenon DEF SameEnd
    <3> QED BY <2>1, <2>2, <3>1, LastSeparates, Zenon
  <2>5. n - 1 \in Nat /\ n - 1 \notin T
    BY <1>3, <1>5, <1>12
  <2>6. /\ ButLast(q) \in Seq(Strings) /\ Len(ButLast(q)) = n - 1
        /\ ButLast(r) \in Seq(Strings)
    BY <1>5, <1>12, ButLastIs
  <2>7. ~Bad(ButLast(q), ButLast(r))
    BY <2>5, <2>6 DEF T
  <2>8. c = d /\ ButLast(q) = ButLast(r)
    BY <2>4, <2>7 DEF Bad
  <2>9. q = r
    BY <1>5, <1>12, <2>4, <2>8, ButLastAndLast
  <2> QED BY <1>5, <2>8, <2>9
<1> QED BY <1>5, <1>10, <1>11, <1>12

-----------------------------------------------------------------------------
(* Labels.                                                                 *)

\* Sequences of strings that are joined of parts of the same lengths.
LEMMA StringsSeparate ==
  \A a, b, c, d \in Seq(Strings) : SameJoined(a, b, c, d) => a = c /\ b = d
  BY ConcatSeparates, Zenon DEF SameJoined

\* What labels add to what is hashed, a pair of strings for each.
Pairs(labels) ==
  LET keys == Sorted(DOMAIN labels)
  IN [i \in DOMAIN keys |-> <<keys[i], labels[keys[i]]>>]

LEMMA PairsAre ==
  ASSUME NEW l, IsLabels(l)
  PROVE  /\ Cardinality(DOMAIN l) \in Nat
         /\ Pairs(l) \in Seq(Seq(Strings)) /\ Len(Pairs(l)) = Cardinality(DOMAIN l)
         /\ \A i \in 1 .. Len(Pairs(l)) :
              Len(Pairs(l)[i]) = 2 /\ Pairs(l)[i][1] \in DOMAIN l
              /\ Pairs(l)[i][2] = l[Pairs(l)[i][1]]
         /\ \A k \in DOMAIN l : \E i \in 1 .. Len(Pairs(l)) : Pairs(l)[i][1] = k
<1> DEFINE keys == Sorted(DOMAIN l)
           n == Cardinality(DOMAIN l)
           p == Pairs(l)
<1>1. /\ n \in Nat /\ keys \in Seq(Strings) /\ Len(keys) = n
      /\ \A i \in 1 .. n : keys[i] \in DOMAIN l
      /\ \A k \in DOMAIN l : \E i \in 1 .. n : keys[i] = k
  <2>1. DOMAIN l \in SUBSET Strings /\ IsFiniteSet(DOMAIN l)
    BY DEF IsLabels
  <2> QED BY <2>1, SortedIs
<1>2. p = [i \in 1 .. n |-> <<keys[i], l[keys[i]]>>]
  <2>1. p = [i \in DOMAIN keys |-> <<keys[i], l[keys[i]]>>]
    BY DEF Pairs
  <2> HIDE DEF keys, n, p
  <2>2. DOMAIN keys = 1 .. n
    BY <1>1
  <2> QED BY <2>1, <2>2
<1> HIDE DEF keys, n, p
<1>3. \A i \in 1 .. n : p[i] = <<keys[i], l[keys[i]]>>
  BY <1>2
<1>4. \A i \in 1 .. n : keys[i] \in Strings /\ l[keys[i]] \in Strings
  BY <1>1 DEF IsLabels
<1>5. \A i \in 1 .. n : p[i] \in Seq(Strings)
  <2> TAKE i \in 1 .. n
  <2> DEFINE k == keys[i]
             v == l[keys[i]]
  <2>1. p[i] = <<k, v>> /\ k \in Strings /\ v \in Strings
    BY <1>3, <1>4
  <2> HIDE DEF k, v
  <2> QED BY <2>1
<1>6. p \in Seq(Seq(Strings)) /\ Len(p) = n
  BY <1>1, <1>2, <1>5
<1>7. \A i \in 1 .. n : Len(p[i]) = 2 /\ p[i][1] = keys[i] /\ p[i][2] = l[keys[i]]
  BY <1>3
<1>8. \A i \in 1 .. n : Len(p[i]) = 2 /\ p[i][1] \in DOMAIN l /\ p[i][2] = l[p[i][1]]
  BY <1>1, <1>7
<1>9. \A k \in DOMAIN l : \E i \in 1 .. n : p[i][1] = k
  BY <1>1, <1>7
<1> QED BY <1>1, <1>6, <1>8, <1>9 DEF n, p

LEMMA LabelsHashed ==
  ASSUME NEW l, IsLabels(l)
  PROVE  /\ UpdateHashLabels(l) \in Seq(Strings)
         /\ Len(UpdateHashLabels(l)) = 2 * Cardinality(DOMAIN l)
<1>1. UpdateHashLabels(l) = FlattenSeq(Pairs(l))
  BY DEF UpdateHashLabels, Pairs
<1>2. /\ Pairs(l) \in Seq(Seq(Strings)) /\ Len(Pairs(l)) = Cardinality(DOMAIN l)
      /\ \A i \in 1 .. Len(Pairs(l)) : Len(Pairs(l)[i]) = 2
  BY PairsAre
<1> DEFINE p == Pairs(l)
<1> HIDE DEF p
<1>3. FlattenSeq(p) \in Seq(Strings) /\ Len(FlattenSeq(p)) = 2 * Len(p)
  BY <1>2, FlattenType, FlattenPairs DEF p
<1> QED BY <1>1, <1>2, <1>3 DEF p

\* Labels are told apart, whatever their order and whichever strings are empty.
LEMMA LabelsSeparate ==
  ASSUME NEW l, NEW m, IsLabels(l), IsLabels(m),
         UpdateHashLabels(l) = UpdateHashLabels(m)
  PROVE  l = m
<1> DEFINE p == Pairs(l)
           q == Pairs(m)
<1>1. FlattenSeq(p) = FlattenSeq(q)
  BY DEF UpdateHashLabels, Pairs
<1>2. /\ p \in Seq(Seq(Strings)) /\ Len(p) = Cardinality(DOMAIN l)
      /\ \A i \in 1 .. Len(p) :
           Len(p[i]) = 2 /\ p[i][1] \in DOMAIN l /\ p[i][2] = l[p[i][1]]
      /\ \A k \in DOMAIN l : \E i \in 1 .. Len(p) : p[i][1] = k
  BY PairsAre
<1>3. /\ q \in Seq(Seq(Strings)) /\ Len(q) = Cardinality(DOMAIN m)
      /\ \A i \in 1 .. Len(q) :
           Len(q[i]) = 2 /\ q[i][1] \in DOMAIN m /\ q[i][2] = m[q[i][1]]
      /\ \A k \in DOMAIN m : \E i \in 1 .. Len(q) : q[i][1] = k
  BY PairsAre
<1> HIDE DEF p, q
<1>4. Len(p) = Len(q)
  <2>1. Len(FlattenSeq(p)) = 2 * Len(p) /\ Len(p) \in Nat
    BY <1>2, FlattenPairs
  <2>2. Len(FlattenSeq(q)) = 2 * Len(q) /\ Len(q) \in Nat
    BY <1>3, FlattenPairs
  <2> QED BY <1>1, <2>1, <2>2
<1>5. p = q
  <2>1. \A i \in 1 .. Len(p) : Len(p[i]) = Len(q[i])
    BY <1>2, <1>3, <1>4
  <2> QED BY <1>1, <1>2, <1>3, <1>4, <2>1, FlattenSeparates
<1>6. DOMAIN l = DOMAIN m /\ \A k \in DOMAIN l : l[k] = m[k]
  <2>1. \A k \in DOMAIN l : k \in DOMAIN m /\ l[k] = m[k]
    <3> TAKE k \in DOMAIN l
    <3>1. PICK i \in 1 .. Len(p) : p[i][1] = k
      BY <1>2
    <3>2. p[i][2] = l[k]
      BY <1>2, <3>1, Zenon
    <3>3. q[i][1] \in DOMAIN m /\ q[i][2] = m[q[i][1]] /\ p[i] = q[i]
      BY <1>3, <1>5, <3>1, Zenon
    <3>4. k \in DOMAIN m
      BY <3>1, <3>3, Zenon
    <3>5. m[q[i][1]] = m[k]
      BY <3>1, <3>3, Zenon
    <3> QED BY <3>2, <3>3, <3>4, <3>5, Zenon
  <2>2. \A k \in DOMAIN m : k \in DOMAIN l
    BY <1>2, <1>3, <1>5, Zenon
  <2> QED BY <2>1, <2>2
<1>7. l = [k \in DOMAIN l |-> l[k]] /\ m = [k \in DOMAIN m |-> m[k]]
  BY DEF IsLabels
<1>8. [k \in DOMAIN l |-> l[k]] = [k \in DOMAIN m |-> m[k]]
  BY <1>6
<1> QED BY <1>7, <1>8, Zenon

\* How long a joined sequence is follows from how long its parts are.
LEMMA FlattenLength ==
  ASSUME NEW X, NEW s \in Seq(Seq(X)), NEW t \in Seq(Seq(X)), Len(s) = Len(t),
         \A i \in 1 .. Len(s) : Len(s[i]) = Len(t[i])
  PROVE  Len(FlattenSeq(s)) = Len(FlattenSeq(t))
<1> DEFINE Q == Seq(Seq(X))
           Bad(q, r) == /\ Len(q) = Len(r) /\ \A i \in 1 .. Len(q) : Len(q[i]) = Len(r[i])
                        /\ Len(FlattenSeq(q)) # Len(FlattenSeq(r))
           T == {n \in Nat : \E q, r \in Q : Len(q) = n /\ Bad(q, r)}
<1>1. SUFFICES ASSUME T # {} PROVE FALSE
  <2>1. ASSUME Len(FlattenSeq(s)) # Len(FlattenSeq(t)) PROVE Len(s) \in T
    <3>1. Len(s) \in Nat /\ s \in Q /\ t \in Q
      OBVIOUS
    <3>2. Bad(s, t)
      BY <2>1
    <3> HIDE DEF Q, Bad
    <3> QED BY <3>1, <3>2
  <2> QED BY <2>1
<1>2. T \in SUBSET Nat
  OBVIOUS
<1> HIDE DEF T, Bad, Q
<1>3. PICK n \in T : \A m \in T : n <= m
  BY <1>1, <1>2, SmallestNumber
<1>4. PICK q \in Q, r \in Q : Len(q) = n /\ Bad(q, r)
  BY DEF T
<1>5. /\ n \in Nat /\ q \in Seq(Seq(X)) /\ r \in Seq(Seq(X)) /\ Len(q) = n /\ Len(r) = n
      /\ \A i \in 1 .. n : Len(q[i]) = Len(r[i])
      /\ Len(FlattenSeq(q)) # Len(FlattenSeq(r))
  BY <1>2, <1>4 DEF Bad, Q
<1>6. n > 0
  <2>1. ASSUME n = 0 PROVE FALSE
    <3>1. FlattenSeq(q) = q /\ FlattenSeq(r) = r
      BY <1>5, <2>1, FlattenNone
    <3> QED BY <1>5, <3>1
  <2> QED BY <1>5, <2>1
<1>7. /\ ButLast(q) \in Seq(Seq(X)) /\ Len(ButLast(q)) = n - 1 /\ q[n] \in Seq(X)
      /\ \A i \in 1 .. n - 1 : ButLast(q)[i] = q[i]
  BY <1>5, <1>6, ButLastIs
<1>8. /\ ButLast(r) \in Seq(Seq(X)) /\ Len(ButLast(r)) = n - 1 /\ r[n] \in Seq(X)
      /\ \A i \in 1 .. n - 1 : ButLast(r)[i] = r[i]
  BY <1>5, <1>6, ButLastIs
<1>9. n \in 1 .. n /\ Len(q[n]) = Len(r[n])
  BY <1>5, <1>6
<1>10. Len(FlattenSeq(ButLast(q))) # Len(FlattenSeq(ButLast(r)))
  <2> DEFINE a == FlattenSeq(ButLast(q))
             b == q[n]
             c == FlattenSeq(ButLast(r))
             d == r[n]
  <2>1. FlattenSeq(q) = a \o b /\ FlattenSeq(r) = c \o d
    BY <1>5, <1>6, FlattenStep
  <2>2. a \in Seq(X) /\ b \in Seq(X) /\ c \in Seq(X) /\ d \in Seq(X)
    BY <1>7, <1>8, FlattenType
  <2>3. Len(b) = Len(d) /\ Len(FlattenSeq(q)) # Len(FlattenSeq(r))
    BY <1>5, <1>9
  <2> HIDE DEF a, b, c, d
  <2>4. Len(a \o b) = Len(a) + Len(b) /\ Len(c \o d) = Len(c) + Len(d)
    BY <2>2
  <2>5. Len(a) # Len(c)
    BY <2>1, <2>3, <2>4
  <2> QED BY <2>5 DEF a, c
<1>11. \A i \in 1 .. n - 1 : Len(ButLast(q)[i]) = Len(ButLast(r)[i])
  <2> DEFINE e == ButLast(q)
             f == ButLast(r)
  <2>1. \A i \in 1 .. n - 1 : e[i] = q[i] /\ f[i] = r[i]
    BY <1>7, <1>8, Zenon
  <2>2. \A i \in 1 .. n - 1 : i \in 1 .. n
    BY <1>5
  <2> HIDE DEF e, f
  <2>3. \A i \in 1 .. n - 1 : Len(e[i]) = Len(f[i])
    BY <1>5, <2>1, <2>2, Zenon
  <2> QED BY <2>3, Zenon DEF e, f
<1>12. Bad(ButLast(q), ButLast(r)) /\ n - 1 \in Nat
  BY <1>5, <1>6, <1>7, <1>8, <1>10, <1>11 DEF Bad
<1>13. n - 1 \in T
  BY <1>7, <1>8, <1>12 DEF T, Q
<1> QED BY <1>3, <1>5, <1>13

\* The parts that several sets of labels add.
LEMMA ManyLabels ==
  ASSUME NEW v, IsList(v), \A j \in DOMAIN v : IsLabels(v[j])
  PROVE  LET p == [j \in DOMAIN v |-> UpdateHashLabels(v[j])]
         IN /\ p \in Seq(Seq(Strings)) /\ Len(p) = Len(v) /\ DOMAIN v = 1 .. Len(v)
            /\ \A j \in 1 .. Len(v) : /\ p[j] = UpdateHashLabels(v[j])
                                      /\ Len(p[j]) = 2 * Cardinality(DOMAIN v[j])
            /\ FlattenSeq(p) \in Seq(Strings)
<1> DEFINE p == [j \in DOMAIN v |-> UpdateHashLabels(v[j])]
           n == Len(v)
<1>1. n \in Nat /\ DOMAIN v = 1 .. n
  BY DEF IsList
<1>2. \A j \in 1 .. n : /\ p[j] = UpdateHashLabels(v[j]) /\ p[j] \in Seq(Strings)
                        /\ Len(p[j]) = 2 * Cardinality(DOMAIN v[j])
  <2> HIDE DEF n
  <2> QED BY <1>1, LabelsHashed
<1>3. p = [j \in 1 .. n |-> p[j]]
  BY <1>1
<1> HIDE DEF n, p
<1>4. p \in Seq(Seq(Strings)) /\ Len(p) = n
  BY <1>1, <1>2, <1>3
<1>5. FlattenSeq(p) \in Seq(Strings)
  BY <1>4, FlattenType
<1> QED BY <1>1, <1>2, <1>4, <1>5 DEF n, p

\* Lists of labels are told apart by what they add, if there are equally many.
LEMMA ManyLabelsSeparate ==
  ASSUME NEW v, IsList(v), \A j \in DOMAIN v : IsLabels(v[j]),
         NEW w, IsList(w), \A j \in DOMAIN w : IsLabels(w[j]),
         Len(v) = Len(w),
         \A j \in 1 .. Len(v) : Cardinality(DOMAIN v[j]) = Cardinality(DOMAIN w[j])
  PROVE  LET p == [j \in DOMAIN v |-> UpdateHashLabels(v[j])]
             q == [j \in DOMAIN w |-> UpdateHashLabels(w[j])]
         IN /\ Len(FlattenSeq(p)) = Len(FlattenSeq(q))
            /\ FlattenSeq(p) = FlattenSeq(q) => v = w
<1> DEFINE p == [j \in DOMAIN v |-> UpdateHashLabels(v[j])]
           q == [j \in DOMAIN w |-> UpdateHashLabels(w[j])]
           n == Len(v)
<1>1. /\ p \in Seq(Seq(Strings)) /\ Len(p) = n /\ DOMAIN v = 1 .. n
      /\ \A j \in 1 .. n : /\ p[j] = UpdateHashLabels(v[j])
                           /\ Len(p[j]) = 2 * Cardinality(DOMAIN v[j])
  BY ManyLabels
<1>2. /\ q \in Seq(Seq(Strings)) /\ Len(q) = n /\ DOMAIN w = 1 .. n
      /\ \A j \in 1 .. n : /\ q[j] = UpdateHashLabels(w[j])
                           /\ Len(q[j]) = 2 * Cardinality(DOMAIN w[j])
  BY ManyLabels
<1> HIDE DEF p, q
<1>3. \A j \in 1 .. Len(p) : Len(p[j]) = Len(q[j])
  BY <1>1, <1>2
<1>4. Len(FlattenSeq(p)) = Len(FlattenSeq(q))
  BY <1>1, <1>2, <1>3, FlattenLength
<1>5. ASSUME FlattenSeq(p) = FlattenSeq(q) PROVE v = w
  <2>1. p = q
    BY <1>1, <1>2, <1>3, <1>5, FlattenSeparates
  <2>2. \A j \in 1 .. n : UpdateHashLabels(v[j]) = UpdateHashLabels(w[j])
    BY <1>1, <1>2, <2>1, Zenon
  <2>3. \A j \in 1 .. n : v[j] = w[j]
    BY <1>1, <1>2, <2>2, LabelsSeparate
  <2>4. v = [j \in 1 .. n |-> v[j]] /\ w = [j \in 1 .. n |-> w[j]]
    BY Zenon DEF IsList
  <2>5. [j \in 1 .. n |-> v[j]] = [j \in 1 .. n |-> w[j]]
    BY <2>3
  <2> QED BY <2>4, <2>5, Zenon
<1> QED BY <1>4, <1>5 DEF p, q

-----------------------------------------------------------------------------
(* Metrics.                                                                *)

\* The names of the metrics of an operation, and what each name has.
LEMMA MetricsAre ==
  ASSUME NEW op, IsOperation(op)
  PROVE  /\ MetricNamesOf(op) \in SUBSET Strings /\ IsFiniteSet(MetricNamesOf(op))
         /\ \A n \in MetricNamesOf(op) :
              /\ IsList(ValuesOf(op, n))
              /\ \A j \in DOMAIN ValuesOf(op, n) : IsLabels(ValuesOf(op, n)[j])
<1> DEFINE m == op.metrics
           k == Len(m)
           N == MetricNamesOf(op)
<1>1. /\ k \in Nat /\ DOMAIN m = 1 .. k
      /\ \A i \in 1 .. k : IsMetric(m[i])
  BY DEF IsOperation, IsList
<1>2. N = {m[i].name : i \in 1 .. k}
  <2> HIDE DEF k
  <2>1. N = {m[i].name : i \in DOMAIN m}
    BY DEF MetricNamesOf
  <2> QED BY <1>1, <2>1
<1> HIDE DEF m, k, N
<1>3. N \in SUBSET Strings
  BY <1>1, <1>2 DEF IsMetric
<1>4. IsFiniteSet(N)
  <2> DEFINE f == [i \in 1 .. k |-> m[i].name]
  <2>1. f \in Surjection(1 .. k, N)
    BY <1>2 DEF Surjection
  <2>2. IsFiniteSet(1 .. k)
    BY <1>1, FS_Interval
  <2> HIDE DEF f
  <2> QED BY <2>1, <2>2, FS_Surjection
<1>5. ASSUME NEW n \in N
      PROVE  IsList(ValuesOf(op, n))
             /\ \A j \in DOMAIN ValuesOf(op, n) : IsLabels(ValuesOf(op, n)[j])
  <2> DEFINE sets == {i \in DOMAIN m : m[i].name = n}
             Follows(i) == i \in sets /\ \A j \in sets : j <= i
             T == {k - i : i \in sets}
  <2>1. sets # {} /\ T # {} /\ T \in SUBSET Nat
    BY <1>1, <1>2
  <2>2. \E i : Follows(i)
    <3> HIDE DEF T, sets
    <3>1. PICK t \in T : \A u \in T : t <= u
      BY <2>1, SmallestNumber
    <3>2. PICK i \in sets : t = k - i
      BY DEF T
    <3>3. \A j \in sets : k - i <= k - j
      BY <3>1, <3>2 DEF T
    <3>4. \A j \in sets : j \in Int
      BY <1>1 DEF sets
    <3>5. \A j \in sets : j <= i
      BY <1>1, <3>2, <3>3, <3>4
    <3> QED BY <3>2, <3>5
  <2> DEFINE last == CHOOSE i \in sets : \A j \in sets : j <= i
  <2>3. last \in sets
    <3> HIDE DEF sets
    <3> QED BY <2>2
  <2>4. ValuesOf(op, n) = m[last].values
    BY DEF ValuesOf, m
  <2> HIDE DEF last
  <2>5. IsMetric(m[last])
    BY <1>1, <2>3
  <2> QED BY <2>4, <2>5 DEF IsMetric
<1> QED BY <1>3, <1>4, <1>5 DEF N

-----------------------------------------------------------------------------
(* The signatures.                                                         *)

\* The same strings, one of them first.
SameFirst(x, r, y, s) == <<x>> \o r = <<y>> \o s

\* A string before others is where it was.
LEMMA StringFirst ==
  /\ \A x \in Strings : <<x>> \in Seq(Strings) /\ Len(<<x>>) = 1
  /\ \A x \in Strings : \A r \in Seq(Strings) : <<x>> \o r \in Seq(Strings)
  /\ \A x, y \in Strings : \A r, s \in Seq(Strings) :
       SameFirst(x, r, y, s) => x = y /\ r = s
<1>1. \A x \in Strings : <<x>> \in Seq(Strings) /\ Len(<<x>>) = 1 /\ <<x>>[1] = x
  OBVIOUS
<1>2. \A r, s \in Seq(Strings) : r \o s \in Seq(Strings)
  BY ConcatProperties, Zenon
<1>3. ASSUME NEW x \in Strings, NEW y \in Strings,
             NEW r \in Seq(Strings), NEW s \in Seq(Strings), SameFirst(x, r, y, s)
      PROVE  x = y /\ r = s
  <2> DEFINE e == <<x>>
             f == <<y>>
  <2>1. /\ e \in Seq(Strings) /\ f \in Seq(Strings) /\ Len(e) = 1 /\ Len(f) = 1
        /\ e[1] = x /\ f[1] = y /\ e \o r = f \o s
    BY <1>1, <1>3 DEF SameFirst
  <2> HIDE DEF e, f
  <2>2. SameJoined(e, r, f, s)
    BY <2>1 DEF SameJoined
  <2>3. e = f /\ r = s
    BY <2>1, <2>2, StringsSeparate, Zenon
  <2> QED BY <2>1, <2>3, Zenon
<1> QED BY <1>1, <1>2, <1>3

LEMMA StringsJoined ==
  \A r, s \in Seq(Strings) : r \o s \in Seq(Strings) /\ Len(r \o s) = Len(r) + Len(s)
  BY ConcatProperties, Zenon

\* The same bytes: a string, and more of them after delimiters.
SameHashed(c, s, d, t) == c \o Delimited(s) = d \o Delimited(t)

LEMMA HashedSeparates ==
  \A c, d \in Strings : \A s, t \in Seq(Strings) : SameHashed(c, s, d, t) => c = d /\ s = t
  BY DelimitedSeparates, Zenon DEF SameHashed

LEMMA ReportsSeparate ==
  ASSUME NEW a, NEW b, IsOperation(a), IsOperation(b)
  PROVE  GenerateReportOperationSignature(a) = GenerateReportOperationSignature(b)
           <=> <<a.consumer, a.name, a.labels>> = <<b.consumer, b.name, b.labels>>
<1> DEFINE r == UpdateHashLabels(a.labels)
           s == UpdateHashLabels(b.labels)
           e == <<a.name>> \o r
           f == <<b.name>> \o s
<1>1. /\ a.name \in Strings /\ a.consumer \in Strings /\ IsLabels(a.labels)
      /\ b.name \in Strings /\ b.consumer \in Strings /\ IsLabels(b.labels)
  BY DEF IsOperation
<1>2. r \in Seq(Strings) /\ s \in Seq(Strings)
  BY <1>1, LabelsHashed
<1>3. e \in Seq(Strings) /\ f \in Seq(Strings)
  <2> HIDE DEF r, s
  <2> QED BY <1>1, <1>2, StringFirst, Zenon
<1>4. ASSUME GenerateReportOperationSignature(a) = GenerateReportOperationSignature(b)
      PROVE  <<a.consumer, a.name, a.labels>> = <<b.consumer, b.name, b.labels>>
  <2>1. a.consumer \o Delimited(e) = b.consumer \o Delimited(f)
    BY <1>4, Zenon DEF GenerateReportOperationSignature
  <2>2. a.consumer = b.consumer /\ e = f
    <3>1. SameHashed(a.consumer, e, b.consumer, f)
      BY <2>1, Zenon DEF SameHashed
    <3> HIDE DEF e, f
    <3> QED BY <1>1, <1>3, <3>1, HashedSeparates, Zenon
  <2>3. a.name = b.name /\ r = s
    <3>1. SameFirst(a.name, r, b.name, s)
      BY <2>2, Zenon DEF SameFirst
    <3> HIDE DEF r, s
    <3> QED BY <1>1, <1>2, <3>1, StringFirst, Zenon
  <2>4. a.labels = b.labels
    BY <1>1, <2>3, LabelsSeparate
  <2> QED BY <2>2, <2>3, <2>4
<1>5. ASSUME <<a.consumer, a.name, a.labels>> = <<b.consumer, b.name, b.labels>>
      PROVE  GenerateReportOperationSignature(a) = GenerateReportOperationSignature(b)
  <2>1. a.consumer = b.consumer /\ a.name = b.name /\ a.labels = b.labels
    BY <1>5
  <2> QED BY <2>1, Zenon DEF GenerateReportOperationSignature
<1> QED BY <1>4, <1>5

LEMMA MetricValuesSeparate ==
  ASSUME NEW l, NEW m, IsLabels(l), IsLabels(m)
  PROVE  GenerateReportMetricValueSignature(l) = GenerateReportMetricValueSignature(m)
           <=> l = m
<1> DEFINE r == UpdateHashLabels(l)
           s == UpdateHashLabels(m)
<1>1. ASSUME Delimited(r) = Delimited(s) PROVE l = m
  <2>1. r \in Seq(Strings) /\ s \in Seq(Strings)
    BY LabelsHashed
  <2>2. <<>> \in Strings
    BY DEF Strings
  <2>3. SameHashed(<<>>, r, <<>>, s)
    BY <1>1 DEF SameHashed
  <2> HIDE DEF r, s
  <2>4. r = s
    BY <2>1, <2>2, <2>3, HashedSeparates, Zenon
  <2> QED BY <2>4, LabelsSeparate DEF r, s
<1> QED BY <1>1 DEF GenerateReportMetricValueSignature

\* Sets of strings are told apart by their members in order.
LEMMA SortedSeparates ==
  ASSUME NEW S \in SUBSET Strings, IsFiniteSet(S), NEW T \in SUBSET Strings, IsFiniteSet(T),
         Sorted(S) = Sorted(T)
  PROVE  S = T
<1>1. /\ Cardinality(S) \in Nat /\ Len(Sorted(S)) = Cardinality(S)
      /\ \A i \in 1 .. Cardinality(S) : Sorted(S)[i] \in S
      /\ \A s \in S : \E i \in 1 .. Cardinality(S) : Sorted(S)[i] = s
  BY SortedIs
<1>2. /\ Cardinality(T) \in Nat /\ Len(Sorted(T)) = Cardinality(T)
      /\ \A i \in 1 .. Cardinality(T) : Sorted(T)[i] \in T
      /\ \A s \in T : \E i \in 1 .. Cardinality(T) : Sorted(T)[i] = s
  BY SortedIs
<1>3. Cardinality(S) = Cardinality(T)
  BY <1>1, <1>2, Zenon
<1>4. \A s \in S : s \in T
  BY <1>1, <1>2, <1>3, Zenon
<1>5. \A s \in T : s \in S
  BY <1>1, <1>2, <1>3, Zenon
<1> QED BY <1>4, <1>5

LEMMA QuotasSeparate ==
  ASSUME NEW a, NEW b, IsOperation(a), IsOperation(b)
  PROVE  GenerateAllocateQuotaRequestSignature(a) = GenerateAllocateQuotaRequestSignature(b)
           <=> <<a.name, a.consumer, MetricNamesOf(a)>> = <<b.name, b.consumer, MetricNamesOf(b)>>
<1> DEFINE r == Sorted(MetricNamesOf(a))
           s == Sorted(MetricNamesOf(b))
           e == <<a.consumer>> \o r
           f == <<b.consumer>> \o s
<1>1. /\ a.name \in Strings /\ a.consumer \in Strings
      /\ b.name \in Strings /\ b.consumer \in Strings
  BY DEF IsOperation
<1>2. /\ MetricNamesOf(a) \in SUBSET Strings /\ IsFiniteSet(MetricNamesOf(a))
      /\ MetricNamesOf(b) \in SUBSET Strings /\ IsFiniteSet(MetricNamesOf(b))
  BY MetricsAre
<1>3. r \in Seq(Strings) /\ s \in Seq(Strings)
  BY <1>2, SortedIs
<1>4. e \in Seq(Strings) /\ f \in Seq(Strings)
  <2> HIDE DEF r, s
  <2> QED BY <1>1, <1>3, StringFirst, Zenon
<1>5. ASSUME GenerateAllocateQuotaRequestSignature(a) = GenerateAllocateQuotaRequestSignature(b)
      PROVE  <<a.name, a.consumer, MetricNamesOf(a)>> = <<b.name, b.consumer, MetricNamesOf(b)>>
  <2>1. a.name \o Delimited(e) = b.name \o Delimited(f)
    BY <1>5, Zenon DEF GenerateAllocateQuotaRequestSignature
  <2>2. a.name = b.name /\ e = f
    <3>1. SameHashed(a.name, e, b.name, f)
      BY <2>1, Zenon DEF SameHashed
    <3> HIDE DEF e, f
    <3> QED BY <1>1, <1>4, <3>1, HashedSeparates, Zenon
  <2>3. a.consumer = b.consumer /\ r = s
    <3>1. SameFirst(a.consumer, r, b.consumer, s)
      BY <2>2, Zenon DEF SameFirst
    <3> HIDE DEF r, s
    <3> QED BY <1>1, <1>3, <3>1, StringFirst, Zenon
  <2>4. MetricNamesOf(a) = MetricNamesOf(b)
    BY <1>2, <2>3, SortedSeparates
  <2> QED BY <2>2, <2>3, <2>4
<1>6. ASSUME <<a.name, a.consumer, MetricNamesOf(a)>> = <<b.name, b.consumer, MetricNamesOf(b)>>
      PROVE  GenerateAllocateQuotaRequestSignature(a) = GenerateAllocateQuotaRequestSignature(b)
  <2>1. a.name = b.name /\ a.consumer = b.consumer /\ MetricNamesOf(a) = MetricNamesOf(b)
    BY <1>6
  <2> QED BY <2>1, Zenon DEF GenerateAllocateQuotaRequestSignature
<1> QED BY <1>5, <1>6

\* What the metrics of a check add to what is hashed, and its bytes.
HashedMetrics(op) ==
  LET names == Sorted(MetricNamesOf(op))
  IN [i \in DOMAIN names |-> HashMetric(op, names[i])]

ValuesHashed(op, name) ==
  LET values == ValuesOf(op, name)
  IN FlattenSeq([j \in DOMAIN values |-> UpdateHashLabels(values[j])])

LEMMA MetricHashed ==
  ASSUME NEW op, IsOperation(op), NEW n \in MetricNamesOf(op)
  PROVE  /\ n \in Strings /\ ValuesHashed(op, n) \in Seq(Strings)
         /\ HashMetric(op, n) = <<n>> \o ValuesHashed(op, n)
         /\ HashMetric(op, n) \in Seq(Strings)
         /\ Len(HashMetric(op, n)) = 1 + Len(ValuesHashed(op, n))
<1> DEFINE v == ValuesOf(op, n)
           h == ValuesHashed(op, n)
<1>1. n \in Strings /\ IsList(v) /\ \A j \in DOMAIN v : IsLabels(v[j])
  BY MetricsAre
<1>2. h \in Seq(Strings)
  <2>1. h = FlattenSeq([j \in DOMAIN v |-> UpdateHashLabels(v[j])])
    BY DEF ValuesHashed
  <2> HIDE DEF h, v
  <2> QED BY <1>1, <2>1, ManyLabels
<1>3. HashMetric(op, n) = <<n>> \o h
  BY DEF HashMetric, ValuesHashed
<1> DEFINE e == <<n>>
<1>4. e \in Seq(Strings) /\ Len(e) = 1
  BY <1>1, StringFirst
<1> HIDE DEF e, h
<1>5. e \o h \in Seq(Strings) /\ Len(e \o h) = 1 + Len(h)
  <2>1. e \o h \in Seq(Strings) /\ Len(e \o h) = Len(e) + Len(h)
    BY <1>2, <1>4, StringsJoined, Zenon
  <2> QED BY <1>4, <2>1
<1> QED BY <1>1, <1>2, <1>3, <1>5, Zenon DEF e, h

LEMMA MetricsHashed ==
  ASSUME NEW op, IsOperation(op)
  PROVE  LET names == Sorted(MetricNamesOf(op))
             k == Cardinality(MetricNamesOf(op))
         IN /\ k \in Nat /\ Len(names) = k /\ DOMAIN names = 1 .. k
            /\ names \in Seq(Strings) /\ \A i \in 1 .. k : names[i] \in MetricNamesOf(op)
            /\ HashedMetrics(op) \in Seq(Seq(Strings)) /\ Len(HashedMetrics(op)) = k
            /\ \A i \in 1 .. k : HashedMetrics(op)[i] = HashMetric(op, names[i])
            /\ FlattenSeq(HashedMetrics(op)) \in Seq(Strings)
<1> DEFINE names == Sorted(MetricNamesOf(op))
           k == Cardinality(MetricNamesOf(op))
           h == HashedMetrics(op)
<1>1. MetricNamesOf(op) \in SUBSET Strings /\ IsFiniteSet(MetricNamesOf(op))
  BY MetricsAre
<1>2. /\ k \in Nat /\ names \in Seq(Strings) /\ Len(names) = k
      /\ \A i \in 1 .. k : names[i] \in MetricNamesOf(op)
  BY <1>1, SortedIs
<1>3. h = [i \in DOMAIN names |-> HashMetric(op, names[i])]
  BY DEF HashedMetrics
<1> HIDE DEF names, k, h
<1>4. DOMAIN names = 1 .. k
  BY <1>2
<1>5. \A i \in 1 .. k : HashMetric(op, names[i]) \in Seq(Strings)
  BY <1>2, MetricHashed
<1>6. h \in Seq(Seq(Strings)) /\ Len(h) = k /\ \A i \in 1 .. k : h[i] = HashMetric(op, names[i])
  <2>1. h = [i \in 1 .. k |-> HashMetric(op, names[i])]
    BY <1>3, <1>4
  <2> QED BY <1>2, <1>5, <2>1
<1>7. FlattenSeq(h) \in Seq(Strings)
  BY <1>6, FlattenType
<1> QED BY <1>2, <1>4, <1>6, <1>7 DEF names, k, h

\* The strings of a check, before and without the last of its delimiters.
CheckStart(op) == <<op.consumer, <<>>>> \o UpdateHashLabels(op.labels)
CheckStrings(op) == CheckStart(op) \o FlattenSeq(HashedMetrics(op))

LEMMA CheckHashed ==
  ASSUME NEW op, IsOperation(op)
  PROVE  /\ op.name \in Strings
         /\ CheckStart(op) \in Seq(Strings)
         /\ Len(CheckStart(op)) = 2 + 2 * Cardinality(DOMAIN op.labels)
         /\ CheckStrings(op) \in Seq(Strings)
         /\ CheckStrings(op) \o <<<<>>>> \in Seq(Strings)
         /\ GenerateCheckRequestSignature(op) =
              op.name \o Delimited(CheckStrings(op) \o <<<<>>>>)
<1> DEFINE e == <<op.consumer, <<>>>>
           u == UpdateHashLabels(op.labels)
           f == FlattenSeq(HashedMetrics(op))
           g == <<<<>>>>
<1>1. op.name \in Strings /\ op.consumer \in Strings /\ IsLabels(op.labels) /\ <<>> \in Strings
  BY DEF IsOperation, Strings
<1>2. /\ u \in Seq(Strings) /\ Len(u) = 2 * Cardinality(DOMAIN op.labels)
      /\ Cardinality(DOMAIN op.labels) \in Nat
  BY <1>1, LabelsHashed, PairsAre
<1>3. f \in Seq(Strings)
  BY MetricsHashed
<1>4. e \in Seq(Strings) /\ Len(e) = 2 /\ g \in Seq(Strings)
  <2>1. \A x, y \in Strings : <<x, y>> \in Seq(Strings) /\ Len(<<x, y>>) = 2
    OBVIOUS
  <2>2. \A x \in Strings : <<x>> \in Seq(Strings)
    OBVIOUS
  <2> QED BY <1>1, <2>1, <2>2, Zenon
<1>5. GenerateCheckRequestSignature(op) = op.name \o Delimited(((e \o u) \o f) \o g)
  BY DEF GenerateCheckRequestSignature, HashedMetrics
<1>6. CheckStart(op) = e \o u /\ CheckStrings(op) = (e \o u) \o f
  BY DEF CheckStart, CheckStrings
<1> HIDE DEF e, u, f, g
<1>7. /\ e \o u \in Seq(Strings) /\ Len(e \o u) = 2 + 2 * Cardinality(DOMAIN op.labels)
      /\ (e \o u) \o f \in Seq(Strings)
      /\ ((e \o u) \o f) \o g \in Seq(Strings)
  <2>1. e \o u \in Seq(Strings) /\ Len(e \o u) = Len(e) + Len(u)
    BY <1>2, <1>4, StringsJoined, Zenon
  <2>2. (e \o u) \o f \in Seq(Strings)
    BY <1>3, <2>1, ConcatProperties, Zenon
  <2>3. ((e \o u) \o f) \o g \in Seq(Strings)
    BY <1>4, <2>2, ConcatProperties, Zenon
  <2> QED BY <1>2, <1>4, <2>1, <2>2, <2>3
<1> QED BY <1>1, <1>5, <1>6, <1>7, Zenon DEF g

\* A check of as many labels and metrics is told apart.
LEMMA ChecksOfAShapeSeparate ==
  ASSUME NEW a, NEW b, IsOperation(a), IsOperation(b), Shape(a) = Shape(b),
         GenerateCheckRequestSignature(a) = GenerateCheckRequestSignature(b)
  PROVE  Checked(a) = Checked(b)
<1> DEFINE N == MetricNamesOf(a)
           M == MetricNamesOf(b)
           n == Sorted(N)
           m == Sorted(M)
           k == Cardinality(N)
           h == HashedMetrics(a)
           g == HashedMetrics(b)
<1>1. /\ a.name \in Strings /\ CheckStart(a) \in Seq(Strings)
      /\ Len(CheckStart(a)) = 2 + 2 * Cardinality(DOMAIN a.labels)
      /\ CheckStrings(a) \in Seq(Strings)
      /\ CheckStrings(a) \o <<<<>>>> \in Seq(Strings)
      /\ GenerateCheckRequestSignature(a) = a.name \o Delimited(CheckStrings(a) \o <<<<>>>>)
  BY CheckHashed
<1>2. /\ b.name \in Strings /\ CheckStart(b) \in Seq(Strings)
      /\ Len(CheckStart(b)) = 2 + 2 * Cardinality(DOMAIN b.labels)
      /\ CheckStrings(b) \in Seq(Strings)
      /\ CheckStrings(b) \o <<<<>>>> \in Seq(Strings)
      /\ GenerateCheckRequestSignature(b) = b.name \o Delimited(CheckStrings(b) \o <<<<>>>>)
  BY CheckHashed
<1>3. /\ k \in Nat /\ Len(n) = k /\ DOMAIN n = 1 .. k
      /\ n \in Seq(Strings) /\ \A i \in 1 .. k : n[i] \in N
      /\ h \in Seq(Seq(Strings)) /\ Len(h) = k
      /\ \A i \in 1 .. k : h[i] = HashMetric(a, n[i])
      /\ FlattenSeq(h) \in Seq(Strings)
  BY MetricsHashed
<1>4. /\ Cardinality(M) \in Nat /\ Len(m) = Cardinality(M) /\ DOMAIN m = 1 .. Cardinality(M)
      /\ m \in Seq(Strings) /\ \A i \in 1 .. Cardinality(M) : m[i] \in M
      /\ g \in Seq(Seq(Strings)) /\ Len(g) = Cardinality(M)
      /\ \A i \in 1 .. Cardinality(M) : g[i] = HashMetric(b, m[i])
      /\ FlattenSeq(g) \in Seq(Strings)
  BY MetricsHashed
<1>5. /\ N \in SUBSET Strings /\ IsFiniteSet(N) /\ M \in SUBSET Strings /\ IsFiniteSet(M)
      /\ \A x \in N : IsList(ValuesOf(a, x))
                     /\ \A j \in DOMAIN ValuesOf(a, x) : IsLabels(ValuesOf(a, x)[j])
      /\ \A x \in M : IsList(ValuesOf(b, x))
                     /\ \A j \in DOMAIN ValuesOf(b, x) : IsLabels(ValuesOf(b, x)[j])
  BY MetricsAre
<1> DEFINE Sizes(op, list) ==
             [i \in DOMAIN list |->
                LET values == ValuesOf(op, list[i])
                IN [j \in DOMAIN values |-> Cardinality(DOMAIN values[j])]]
<1>6. Cardinality(DOMAIN a.labels) = Cardinality(DOMAIN b.labels) /\ Sizes(a, n) = Sizes(b, m)
  BY DEF Shape
<1>7. Cardinality(M) = k
  <2>1. DOMAIN Sizes(a, n) = DOMAIN n /\ DOMAIN Sizes(b, m) = DOMAIN m
    OBVIOUS
  <2> HIDE DEF Sizes, n, m, k
  <2>2. 1 .. k = 1 .. Cardinality(M)
    BY <1>3, <1>4, <1>6, <2>1, Zenon
  <2> DEFINE l == Cardinality(M)
  <2>3. k \in Nat /\ l \in Nat /\ 1 .. k = 1 .. l
    BY <1>3, <1>4, <2>2
  <2> HIDE DEF l
  <2>4. k = l
    BY <2>3
  <2> QED BY <2>4 DEF l
<1>8. ASSUME NEW i \in 1 .. k
      PROVE  LET v == ValuesOf(a, n[i])
                 w == ValuesOf(b, m[i])
             IN /\ n[i] \in N /\ m[i] \in M
                /\ IsList(v) /\ \A j \in DOMAIN v : IsLabels(v[j])
                /\ IsList(w) /\ \A j \in DOMAIN w : IsLabels(w[j])
                /\ Len(v) = Len(w)
                /\ \A j \in 1 .. Len(v) : Cardinality(DOMAIN v[j]) = Cardinality(DOMAIN w[j])
  <2> DEFINE v == ValuesOf(a, n[i])
             w == ValuesOf(b, m[i])
  <2>1. n[i] \in N /\ m[i] \in M
    <3> HIDE DEF n, m, N, M, k
    <3> QED BY <1>3, <1>4, <1>7
  <2>2. /\ IsList(v) /\ \A j \in DOMAIN v : IsLabels(v[j])
        /\ IsList(w) /\ \A j \in DOMAIN w : IsLabels(w[j])
    <3> HIDE DEF n, m, N, M, k
    <3> QED BY <1>5, <2>1
  <2>3. [j \in DOMAIN v |-> Cardinality(DOMAIN v[j])] = [j \in DOMAIN w |-> Cardinality(DOMAIN w[j])]
    <3>1. i \in DOMAIN n /\ i \in DOMAIN m
      <4> HIDE DEF n, m, N, M, k
      <4> QED BY <1>3, <1>4, <1>7
    <3>2. Sizes(a, n)[i] = [j \in DOMAIN v |-> Cardinality(DOMAIN v[j])]
      <4> HIDE DEF n
      <4> QED BY <3>1, Zenon
    <3>3. Sizes(b, m)[i] = [j \in DOMAIN w |-> Cardinality(DOMAIN w[j])]
      <4> HIDE DEF m
      <4> QED BY <3>1, Zenon
    <3> HIDE DEF Sizes
    <3> QED BY <1>6, <3>2, <3>3, Zenon
  <2> HIDE DEF v, w
  <2>4. DOMAIN v = DOMAIN w /\ \A j \in DOMAIN v : Cardinality(DOMAIN v[j]) = Cardinality(DOMAIN w[j])
    BY <2>3
  <2>5. DOMAIN v = 1 .. Len(v) /\ Len(v) \in Nat /\ DOMAIN w = 1 .. Len(w) /\ Len(w) \in Nat
    BY <2>2 DEF IsList
  <2>6. Len(v) = Len(w)
    <3> DEFINE p == Len(v)
               q == Len(w)
    <3>1. p \in Nat /\ q \in Nat /\ 1 .. p = 1 .. q
      BY <2>4, <2>5
    <3> HIDE DEF p, q
    <3>2. p = q
      BY <3>1
    <3> QED BY <3>2 DEF p, q
  <2> HIDE DEF N, M, n, m
  <2> QED BY <2>1, <2>2, <2>4, <2>5, <2>6 DEF v, w
<1>9. ASSUME NEW i \in 1 .. k
      PROVE  /\ Len(h[i]) = Len(g[i])
             /\ h[i] = g[i] => n[i] = m[i] /\ ValuesOf(a, n[i]) = ValuesOf(b, m[i])
  <2> DEFINE x == n[i]
             y == m[i]
             v == ValuesOf(a, x)
             w == ValuesOf(b, y)
             r == ValuesHashed(a, x)
             s == ValuesHashed(b, y)
  <2>1. h[i] = HashMetric(a, x) /\ g[i] = HashMetric(b, y)
    <3> HIDE DEF N, M, k, n, m, h, g
    <3> QED BY <1>3, <1>4, <1>7
  <2>2. /\ x \in Strings /\ r \in Seq(Strings) /\ h[i] = <<x>> \o r
        /\ Len(h[i]) = 1 + Len(r)
    <3>1. x \in N
      BY <1>8
    <3> HIDE DEF N, n, x, h, r
    <3> QED BY <2>1, <3>1, MetricHashed DEF N, r
  <2>3. /\ y \in Strings /\ s \in Seq(Strings) /\ g[i] = <<y>> \o s
        /\ Len(g[i]) = 1 + Len(s)
    <3>1. y \in M
      BY <1>8
    <3> HIDE DEF M, m, y, g, s
    <3> QED BY <2>1, <3>1, MetricHashed DEF M, s
  <2>4. Len(r) = Len(s) /\ (r = s => v = w)
    <3>1. /\ IsList(v) /\ \A j \in DOMAIN v : IsLabels(v[j])
          /\ IsList(w) /\ \A j \in DOMAIN w : IsLabels(w[j])
          /\ Len(v) = Len(w)
          /\ \A j \in 1 .. Len(v) : Cardinality(DOMAIN v[j]) = Cardinality(DOMAIN w[j])
      BY <1>8
    <3>2. /\ r = FlattenSeq([j \in DOMAIN v |-> UpdateHashLabels(v[j])])
          /\ s = FlattenSeq([j \in DOMAIN w |-> UpdateHashLabels(w[j])])
      BY DEF ValuesHashed
    <3> HIDE DEF r, s, v, w
    <3> QED BY <3>1, <3>2, ManyLabelsSeparate
  <2> HIDE DEF N, M, n, m, h, g, x, y, v, w, r, s
  <2>5. Len(h[i]) = Len(g[i])
    BY <2>2, <2>3, <2>4
  <2>6. h[i] = g[i] => x = y /\ r = s
    <3>1. h[i] = g[i] => SameFirst(x, r, y, s)
      BY <2>2, <2>3, Zenon DEF SameFirst
    <3> QED BY <2>2, <2>3, <3>1, StringFirst, Zenon
  <2>7. h[i] = g[i] => x = y /\ v = w
    BY <2>4, <2>6
  <2> QED BY <2>5, <2>7 DEF x, y, v, w
<1> HIDE DEF N, M, n, m, k, h, g, Sizes
<1>10. /\ a.name = b.name
       /\ CheckStrings(a) \o <<<<>>>> = CheckStrings(b) \o <<<<>>>>
  <2> DEFINE q == CheckStrings(a) \o <<<<>>>>
             r == CheckStrings(b) \o <<<<>>>>
  <2>1. SameHashed(a.name, q, b.name, r)
    BY <1>1, <1>2 DEF SameHashed
  <2>2. q \in Seq(Strings) /\ r \in Seq(Strings)
    BY <1>1, <1>2
  <2> HIDE DEF q, r
  <2>3. a.name = b.name /\ q = r
    BY <1>1, <1>2, <2>1, <2>2, HashedSeparates, Zenon
  <2> QED BY <2>3 DEF q, r
<1>11. CheckStrings(a) = CheckStrings(b)
  <2>1. <<<<>>>> \in Seq(Strings)
    <3>1. <<>> \in Strings
      BY DEF Strings
    <3> QED BY <3>1, StringFirst, Zenon
  <2>2. SameJoined(CheckStrings(a), <<<<>>>>, CheckStrings(b), <<<<>>>>)
    BY <1>10, Zenon DEF SameJoined
  <2> QED BY <1>1, <1>2, <2>1, <2>2, StringsSeparate, Zenon
<1>12. CheckStart(a) = CheckStart(b) /\ FlattenSeq(h) = FlattenSeq(g)
  <2>1. Len(CheckStart(a)) = Len(CheckStart(b))
    BY <1>1, <1>2, <1>6
  <2>2. SameJoined(CheckStart(a), FlattenSeq(h), CheckStart(b), FlattenSeq(g))
    BY <1>11, <2>1, Zenon DEF SameJoined, CheckStrings, h, g
  <2> QED BY <1>1, <1>2, <1>3, <1>4, <2>2, StringsSeparate, Zenon
<1>13. a.consumer = b.consumer /\ a.labels = b.labels
  <2> DEFINE d == <<a.consumer, <<>>>>
             e == <<b.consumer, <<>>>>
             r == UpdateHashLabels(a.labels)
             s == UpdateHashLabels(b.labels)
  <2>1. /\ IsLabels(a.labels) /\ a.consumer \in Strings /\ <<>> \in Strings
        /\ IsLabels(b.labels) /\ b.consumer \in Strings
    BY DEF IsOperation, Strings
  <2>2. r \in Seq(Strings) /\ s \in Seq(Strings)
    BY <2>1, LabelsHashed
  <2>3. /\ d \in Seq(Strings) /\ Len(d) = 2 /\ d[1] = a.consumer
        /\ e \in Seq(Strings) /\ Len(e) = 2 /\ e[1] = b.consumer
    <3>1. \A x, y \in Strings :
            <<x, y>> \in Seq(Strings) /\ Len(<<x, y>>) = 2 /\ <<x, y>>[1] = x
      OBVIOUS
    <3> QED BY <2>1, <3>1, Zenon
  <2>4. d \o r = e \o s
    BY <1>12, Zenon DEF CheckStart
  <2> HIDE DEF d, e, r, s
  <2>5. SameJoined(d, r, e, s)
    BY <2>3, <2>4 DEF SameJoined
  <2>6. d = e /\ r = s
    BY <2>2, <2>3, <2>5, StringsSeparate, Zenon
  <2>7. a.labels = b.labels
    BY <2>1, <2>6, LabelsSeparate DEF r, s
  <2> QED BY <2>3, <2>6, <2>7
<1>14. h = g
  <2>1. Len(h) = Len(g) /\ \A i \in 1 .. Len(h) : Len(h[i]) = Len(g[i])
    BY <1>3, <1>4, <1>7, <1>9
  <2> QED BY <1>3, <1>4, <1>12, <2>1, FlattenSeparates
<1>15. \A i \in 1 .. k : n[i] = m[i] /\ ValuesOf(a, n[i]) = ValuesOf(b, n[i])
  BY <1>9, <1>14
<1>16. N = M
  <2>1. n = m
    <3>1. n \in Seq(Strings) /\ m \in Seq(Strings) /\ Len(n) = k /\ Len(m) = k
      BY <1>3, <1>4, <1>7, Zenon
    <3> QED BY <1>15, <3>1, SeqEqual
  <2>2. Sorted(N) = Sorted(M)
    BY <2>1 DEF n, m
  <2> QED BY <1>5, <2>2, SortedSeparates
<1>17. \A x \in N : ValuesOf(a, x) = ValuesOf(b, x)
  <2>1. \A x \in N : \E i \in 1 .. k : n[i] = x
    BY <1>5, SortedIs DEF n, k
  <2> QED BY <1>15, <2>1
<1>18. [x \in N |-> ValuesOf(a, x)] = [x \in M |-> ValuesOf(b, x)]
  BY <1>16, <1>17
<1> QED BY <1>10, <1>13, <1>18, Zenon DEF Checked, N, M

\* What a check asks for is all that its signature is made of.
LEMMA ChecksAlike ==
  ASSUME NEW a, NEW b, IsOperation(a), IsOperation(b), Checked(a) = Checked(b)
  PROVE  GenerateCheckRequestSignature(a) = GenerateCheckRequestSignature(b)
<1> DEFINE N == MetricNamesOf(a)
           M == MetricNamesOf(b)
           n == Sorted(N)
           m == Sorted(M)
           h == [i \in DOMAIN n |-> HashMetric(a, n[i])]
           g == [i \in DOMAIN m |-> HashMetric(b, m[i])]
<1>1. /\ a.name = b.name /\ a.consumer = b.consumer /\ a.labels = b.labels
      /\ [x \in N |-> ValuesOf(a, x)] = [x \in M |-> ValuesOf(b, x)]
  BY DEF Checked
<1>2. N = M /\ \A x \in N : ValuesOf(a, x) = ValuesOf(b, x)
  <2> HIDE DEF N, M
  <2> QED BY <1>1
<1>3. n = m /\ \A i \in DOMAIN n : n[i] \in N
  <2>1. N \in SUBSET Strings /\ IsFiniteSet(N)
    BY MetricsAre
  <2>2. /\ Cardinality(N) \in Nat /\ n \in Seq(Strings) /\ Len(n) = Cardinality(N)
        /\ \A i \in 1 .. Cardinality(N) : n[i] \in N
    BY <2>1, SortedIs
  <2> HIDE DEF N, M
  <2>3. n = m
    BY <1>2
  <2> HIDE DEF n, m
  <2> QED BY <2>2, <2>3
<1>4. \A i \in DOMAIN n : HashMetric(a, n[i]) = HashMetric(b, m[i])
  <2> HIDE DEF N, M, n, m
  <2> QED BY <1>2, <1>3, Zenon DEF HashMetric
<1>5. h = g
  <2> HIDE DEF N, M, n, m
  <2> QED BY <1>3, <1>4
<1>6. /\ GenerateCheckRequestSignature(a) = a.name \o Delimited(
           <<a.consumer, <<>>>> \o UpdateHashLabels(a.labels) \o FlattenSeq(h) \o <<<<>>>>)
      /\ GenerateCheckRequestSignature(b) = b.name \o Delimited(
           <<b.consumer, <<>>>> \o UpdateHashLabels(b.labels) \o FlattenSeq(g) \o <<<<>>>>)
  BY DEF GenerateCheckRequestSignature
<1> HIDE DEF h, g
<1> QED BY <1>1, <1>5, <1>6, Zenon

-----------------------------------------------------------------------------
(* What is looked up.                                                      *)

SignatureType == cachedRequest \in Requests /\ request \in Requests

\* Requests share a signature exactly if they ask for the same: what is found
\* under the signature of a report or of a quota is what was looked for, and of
\* a check as well if it has as many labels and metrics.
THEOREM Separation == SignatureSpec => []SignaturesSeparate
<1>1. SignatureInit => SignatureType
  BY DEF SignatureInit, SignatureType
<1>2. SignatureType /\ [SignatureNext]_signatureVars => SignatureType'
  BY DEF SignatureType, SignatureNext, LookUp, signatureVars
<1>3. SignatureType => SignaturesSeparate
  <2> SUFFICES ASSUME SignatureType PROVE SignaturesSeparate
    OBVIOUS
  <2>1. IsOperation(cachedRequest) /\ IsOperation(request)
    BY RequestsAssumption DEF SignatureType
  <2>2. GenerateReportOperationSignature(cachedRequest) = GenerateReportOperationSignature(request)
          <=> <<cachedRequest.consumer, cachedRequest.name, cachedRequest.labels>>
                = <<request.consumer, request.name, request.labels>>
    BY <2>1, ReportsSeparate
  <2>3. GenerateReportMetricValueSignature(cachedRequest.labels)
          = GenerateReportMetricValueSignature(request.labels)
          <=> cachedRequest.labels = request.labels
    <3>1. IsLabels(cachedRequest.labels) /\ IsLabels(request.labels)
      BY <2>1 DEF IsOperation
    <3> QED BY <3>1, MetricValuesSeparate
  <2>4. GenerateAllocateQuotaRequestSignature(cachedRequest)
          = GenerateAllocateQuotaRequestSignature(request)
          <=> <<cachedRequest.name, cachedRequest.consumer, MetricNamesOf(cachedRequest)>>
                = <<request.name, request.consumer, MetricNamesOf(request)>>
    BY <2>1, QuotasSeparate
  <2>5. Shape(cachedRequest) = Shape(request) =>
          (GenerateCheckRequestSignature(cachedRequest) = GenerateCheckRequestSignature(request)
             <=> Checked(cachedRequest) = Checked(request))
    BY <2>1, ChecksOfAShapeSeparate, ChecksAlike
  <2> QED BY <2>2, <2>3, <2>4, <2>5, Zenon DEF SignaturesSeparate, Same
<1> QED BY <1>1, <1>2, <1>3, PTL DEF SignatureSpec

-----------------------------------------------------------------------------
(* The timer.                                                              *)

TimerTypeOK ==
  /\ interval \in [Caches -> Intervals \cup {Disabled}]
  /\ expiration \in Expirations
  /\ wanted \in BOOLEAN
  /\ elapsed \in Nat
  /\ entry \in Entries \cup {NoEntry}

\* An entry is of a cache in use; a quota element was sent to the server when
\* it was last put into its cache, or was then young enough to stay.
EntryKnown(e) ==
  e # NoEntry => /\ e \in Entries
                 /\ interval[e.cache] # Disabled
                 /\ e.cache = "quota" => e.sent <= e.age + expiration

\* What the cache holds x ticks after the timer fired is no older than the
\* interval of the cache and x.
InTime(e, x) == e # NoEntry => e.age <= interval[e.cache] + x

\* The timer that runs is to fire yet.
TimerRuns == HasTimer => elapsed < GetNextFlushInterval /\ InTime(entry, elapsed)

TimerInv == TimerTypeOK /\ EntryKnown(entry) /\ TimerRuns

\* What an interval may be.
LEMMA IntervalOf ==
  ASSUME interval \in [Caches -> Intervals \cup {Disabled}], NEW c \in Caches
  PROVE  /\ interval[c] \in Int /\ interval[c] >= -1
         /\ interval[c] # Disabled => interval[c] \in 0 .. IntMax
         /\ NextInterval(interval[c]) \in 0 .. IntMax
         /\ interval[c] # 0 => NextInterval(interval[c]) > 0
<1>1. IntMax \in Nat /\ IntMax > 0 /\ Intervals \subseteq 0 .. IntMax
  BY IntervalsAssumption
<1>2. interval[c] \in Intervals \/ interval[c] = -1
  BY DEF Disabled
<1> DEFINE i == interval[c]
<1>3. i \in 0 .. IntMax \/ i = -1
  BY <1>1, <1>2
<1> HIDE DEF i
<1>4. /\ i \in Int /\ i >= -1
      /\ i # -1 => i \in 0 .. IntMax
      /\ NextInterval(i) \in 0 .. IntMax
      /\ i # 0 => NextInterval(i) > 0
  BY <1>1, <1>3 DEF NextInterval
<1> QED BY <1>4 DEF i, Disabled

\* The period is the shortest interval.
LEMMA Shortest ==
  ASSUME interval \in [Caches -> Intervals \cup {Disabled}]
  PROVE  /\ GetNextFlushInterval \in 0 .. IntMax
         /\ \A c \in Caches : GetNextFlushInterval <= NextInterval(interval[c])
         /\ \E c \in Caches : GetNextFlushInterval = NextInterval(interval[c])
<1> DEFINE N(c) == NextInterval(interval[c])
           S == {N(c) : c \in Caches}
           Lowest(x) == \A y \in S : x <= y
<1>1. ASSUME NEW c \in Caches PROVE N(c) \in 0 .. IntMax
  BY IntervalOf
<1>2. \E x \in S : Lowest(x)
  <2>1. /\ N("check") \in S /\ N("quota") \in S /\ N("report") \in S
        /\ N("check") \in Int /\ N("quota") \in Int /\ N("report") \in Int
    BY <1>1 DEF Caches
  <2>2. S = {N("check"), N("quota"), N("report")}
    BY DEF Caches
  <2> HIDE DEF N
  <2> QED BY <2>1, <2>2
<1>3. Min(S) \in S /\ Lowest(Min(S))
  <2>1. Min(S) = CHOOSE x \in S : Lowest(x)
    BY DEF Min
  <2> HIDE DEF S, Lowest
  <2> QED BY <1>2, <2>1
<1>4. Min(S) = GetNextFlushInterval
  BY DEF GetNextFlushInterval
<1> HIDE DEF N
<1> QED BY <1>1, <1>3, <1>4 DEF N

\* The smaller of two numbers.
LEMMA MinOfTwo ==
  ASSUME NEW a \in Nat, NEW b \in Nat
  PROVE  /\ Min({a, b}) \in {a, b}
         /\ Min({a, b}) <= a /\ Min({a, b}) <= b
<1>1. Min({a, b}) = CHOOSE x \in {a, b} : \A y \in {a, b} : x =< y
  BY DEF Min
<1>2. \E x \in {a, b} : \A y \in {a, b} : x =< y
  OBVIOUS
<1> QED BY <1>1, <1>2

\* What the code knows of an entry: fields of its record.
LEMMA EntryIs ==
  ASSUME NEW e \in Entries
  PROVE  /\ e # NoEntry
         /\ e.cache \in Caches
         /\ e.age \in 0 .. MaxAge /\ e.sent \in 0 .. MaxAge
         /\ e.inFlight \in BOOLEAN /\ e.aggregated \in BOOLEAN /\ e.denied \in BOOLEAN
<1>1. e.cache # "none"
  BY DEF Entries, Caches
<1>2. NoEntry.cache = "none"
  BY DEF NoEntry
<1> QED BY <1>1, <1>2 DEF Entries

\* The deleter keeps the time of the last request of what it puts back short.
LEMMA DeletedIs ==
  ASSUME TimerTypeOK, NEW e \in Entries, EntryKnown(e)
  PROVE  /\ Deleted(e) \in Entries \cup {NoEntry}
         /\ EntryKnown(Deleted(e))
         /\ Deleted(e) # NoEntry => Deleted(e).cache = e.cache /\ Deleted(e).age = 0
<1>1. /\ e.sent \in Nat /\ expiration \in Nat /\ MaxAge \in Nat
      /\ e.sent <= MaxAge
      /\ interval[e.cache] # Disabled
  BY EntryIs, IntervalsAssumption DEF TimerTypeOK, EntryKnown
<1>2. CASE e.cache # "quota" \/ ShouldDropEntry(e)
  BY <1>2 DEF Deleted, EntryKnown
<1>3. CASE ~(e.cache # "quota" \/ ShouldDropEntry(e)) /\ AsksAgain(e)
  <2> DEFINE d == [e EXCEPT !.age = 0, !.sent = 0, !.inFlight = TRUE, !.aggregated = FALSE]
  <2>1. Deleted(e) = d
    BY <1>3 DEF Deleted
  <2>2. ASSUME NEW t \in 0 .. MaxAge, NEW i \in BOOLEAN, NEW a \in BOOLEAN,
               NEW x, x = [e EXCEPT !.age = t, !.sent = t, !.inFlight = i, !.aggregated = a]
        PROVE  x \in Entries /\ x.cache = e.cache /\ x.age = t /\ x.sent = t
    <3>1. x.cache = e.cache /\ x.age = t /\ x.sent = t
      BY <2>2 DEF Entries
    <3>2. x.inFlight = i /\ x.aggregated = a /\ x.denied = e.denied
      BY <2>2 DEF Entries
    <3>3. x = [cache |-> x.cache, age |-> x.age, sent |-> x.sent, inFlight |-> x.inFlight,
               aggregated |-> x.aggregated, denied |-> x.denied]
      BY <2>2 DEF Entries
    <3> QED BY <3>1, <3>2, <3>3, EntryIs DEF Entries
  <2>3. d \in Entries /\ d.cache = e.cache /\ d.age = 0 /\ d.sent = 0
    <3>1. 0 \in 0 .. MaxAge
      BY <1>1
    <3> QED BY <2>2, <3>1, Zenon
  <2> HIDE DEF d
  <2> QED BY <1>1, <2>1, <2>3 DEF EntryKnown
<1>4. CASE ~(e.cache # "quota" \/ ShouldDropEntry(e)) /\ ~AsksAgain(e)
  <2> DEFINE d == [e EXCEPT !.age = 0]
  <2>1. Deleted(e) = d
    BY <1>4 DEF Deleted
  <2>2. d \in Entries /\ d.cache = e.cache /\ d.age = 0 /\ d.sent = e.sent
    BY <1>1 DEF Entries
  <2>3. e.sent < expiration
    BY <1>1, <1>4 DEF ShouldDropEntry
  <2> HIDE DEF d
  <2> QED BY <1>1, <2>1, <2>2, <2>3 DEF EntryKnown
<1> QED BY <1>2, <1>3, <1>4

\* After a sweep nothing is older than the interval of its cache.
LEMMA SweptIs ==
  ASSUME TimerTypeOK, NEW e \in Entries, EntryKnown(e)
  PROVE  /\ Swept(e) \in Entries \cup {NoEntry}
         /\ EntryKnown(Swept(e))
         /\ InTime(Swept(e), 0)
         /\ Swept(e) # NoEntry => Swept(e).cache = e.cache /\ Swept(e).age <= e.age
<1>1. e.age \in Nat /\ interval[e.cache] \in Nat
  BY EntryIs, IntervalOf, IntervalsAssumption DEF TimerTypeOK, EntryKnown
<1>2. CASE e.age > interval[e.cache]
  BY <1>1, <1>2, DeletedIs DEF Swept, InTime
<1>3. CASE ~(e.age > interval[e.cache])
  BY <1>1, <1>3 DEF Swept, InTime
<1> QED BY <1>2, <1>3

\* A tick adds one to the age at most.
LEMMA AgedIs ==
  ASSUME TimerTypeOK, NEW e \in Entries, EntryKnown(e)
  PROVE  /\ Aged(e) \in Entries
         /\ EntryKnown(Aged(e))
         /\ Aged(e).cache = e.cache
         /\ Aged(e).age <= e.age + 1
<1> DEFINE a == Min({e.age + 1, MaxAge})
           s == Min({e.sent + 1, MaxAge})
<1>1. e.age \in 0 .. MaxAge /\ e.sent \in 0 .. MaxAge /\ MaxAge \in Nat /\ expiration \in Nat
  BY EntryIs, IntervalsAssumption DEF TimerTypeOK
<1>2. a \in {e.age + 1, MaxAge} /\ a <= e.age + 1 /\ a <= MaxAge
  BY <1>1, MinOfTwo
<1>3. s \in {e.sent + 1, MaxAge} /\ s <= e.sent + 1 /\ s <= MaxAge
  BY <1>1, MinOfTwo
<1>4. Aged(e) = [e EXCEPT !.age = a, !.sent = s]
  BY DEF Aged
<1> HIDE DEF a, s
<1>5. a \in 0 .. MaxAge /\ s \in 0 .. MaxAge
  BY <1>1, <1>2, <1>3
<1>6. Aged(e) \in Entries /\ Aged(e).cache = e.cache /\ Aged(e).age = a /\ Aged(e).sent = s
  BY <1>4, <1>5 DEF Entries
<1>7. e.cache = "quota" => s <= a + expiration
  BY <1>1, <1>2, <1>3, EntryIs DEF EntryKnown
<1>8. interval[e.cache] # Disabled
  BY EntryIs DEF EntryKnown
<1> QED BY <1>2, <1>6, <1>7, <1>8 DEF EntryKnown

\* A timer that is started has its period before it.
LEMMA TimerStart == TimerInit => TimerInv
<1> SUFFICES ASSUME TimerInit PROVE TimerInv
  OBVIOUS
<1>1. TimerTypeOK
  BY DEF TimerInit, TimerTypeOK
<1>2. ASSUME HasTimer PROVE elapsed < GetNextFlushInterval
  BY <1>1, <1>2, Shortest DEF TimerInit, HasTimer, TimerTypeOK
<1> QED BY <1>1, <1>2 DEF TimerInv, TimerRuns, TimerInit, EntryKnown, InTime

\* A step that takes no time may bring an entry in, or leave one that is known
\* no older.
LEMMA TimelessKeeps ==
  ASSUME TimerInv, UNCHANGED <<interval, expiration, wanted, elapsed>>,
         entry' \in Entries \cup {NoEntry},
         EntryKnown(entry'),
         \/ InTime(entry', 0)
         \/ /\ entry' # NoEntry /\ entry # NoEntry
            /\ entry'.cache = entry.cache /\ entry'.age <= entry.age
  PROVE  TimerInv'
<1>1. HasTimer' = HasTimer /\ GetNextFlushInterval' = GetNextFlushInterval
  BY DEF HasTimer, GetNextFlushInterval
<1>2. TimerTypeOK'
  BY DEF TimerInv, TimerTypeOK
<1>3. EntryKnown(entry)'
  BY DEF EntryKnown
<1>4. ASSUME HasTimer PROVE InTime(entry', elapsed)
  <2> SUFFICES ASSUME entry' # NoEntry PROVE entry'.age <= interval[entry'.cache] + elapsed
    BY DEF InTime
  <2>1. entry' \in Entries
    OBVIOUS
  <2>2. entry'.age \in Nat /\ interval[entry'.cache] \in Int /\ elapsed \in Nat
    BY <2>1, EntryIs, IntervalOf, IntervalsAssumption DEF TimerInv, TimerTypeOK
  <2>3. CASE InTime(entry', 0)
    BY <2>2, <2>3 DEF InTime
  <2>4. CASE entry # NoEntry /\ entry'.cache = entry.cache /\ entry'.age <= entry.age
    <3>1. entry.age <= interval[entry.cache] + elapsed
      BY <1>4, <2>4 DEF TimerInv, TimerRuns, InTime
    <3>2. entry.age \in Nat
      BY <2>4, EntryIs, IntervalsAssumption DEF TimerInv, TimerTypeOK
    <3> QED BY <2>2, <2>4, <3>1, <3>2
  <2> QED BY <2>3, <2>4
<1>5. TimerRuns'
  <2>1. InTime(entry', elapsed) => InTime(entry, elapsed)'
    BY DEF InTime
  <2> QED BY <1>1, <1>4, <2>1 DEF TimerInv, TimerRuns
<1> QED BY <1>2, <1>3, <1>5 DEF TimerInv

\* A new entry is as young as can be.
LEMMA EnterKeeps ==
  ASSUME TimerInv, NEW c \in Caches, Enter(c)
  PROVE  TimerInv'
<1>1. /\ interval[c] # Disabled /\ interval[c] \in Nat
      /\ expiration \in Nat /\ MaxAge \in Nat
  BY IntervalOf, IntervalsAssumption DEF TimerInv, TimerTypeOK, Enter
<1>2. /\ entry' \in Entries /\ entry'.cache = c /\ entry'.age = 0 /\ entry'.sent = 0
  BY <1>1 DEF Enter, Entries
<1>3. EntryKnown(entry') /\ InTime(entry', 0)
  BY <1>1, <1>2 DEF EntryKnown, InTime
<1> QED BY <1>2, <1>3, TimelessKeeps DEF Enter

\* A check makes its entry young.
LEMMA UseCheckKeeps == TimerInv /\ UseCheck => TimerInv'
<1> SUFFICES ASSUME TimerInv, UseCheck PROVE TimerInv'
  OBVIOUS
<1>1. entry \in Entries /\ entry # NoEntry /\ entry.cache = "check"
  BY DEF TimerInv, TimerTypeOK, UseCheck, Present
<1>2. /\ entry.age \in Nat /\ MaxAge \in Nat
      /\ entry' = [entry EXCEPT !.age = 0]
  BY <1>1, EntryIs, IntervalsAssumption DEF UseCheck
<1>3. entry' \in Entries /\ entry'.cache = entry.cache /\ entry'.age = 0
  BY <1>1, <1>2 DEF Entries
<1>4. EntryKnown(entry')
  BY <1>1, <1>3 DEF TimerInv, EntryKnown
<1>5. entry' # NoEntry /\ entry'.age <= entry.age
  BY <1>2, <1>3, EntryIs
<1> QED BY <1>1, <1>3, <1>4, <1>5, TimelessKeeps DEF UseCheck

\* Requests and answers change no age of a quota element.
LEMMA QuotaKeeps == TimerInv /\ (UseQuota \/ AnswerQuota) => TimerInv'
<1> SUFFICES ASSUME TimerInv, UseQuota \/ AnswerQuota PROVE TimerInv'
  OBVIOUS
<1>1. entry \in Entries /\ entry # NoEntry /\ entry.cache = "quota"
  BY DEF TimerInv, TimerTypeOK, UseQuota, AnswerQuota, Present
<1>2. PICK i \in BOOLEAN, a \in BOOLEAN, d \in BOOLEAN :
        entry' = [entry EXCEPT !.inFlight = i, !.denied = d, !.aggregated = a]
  <2>1. CASE UseQuota
    <3> DEFINE m == entry.aggregated \/ ~entry.denied
    <3>1. entry' = [entry EXCEPT !.aggregated = m]
      BY <2>1 DEF UseQuota
    <3>2. m \in BOOLEAN /\ entry.inFlight \in BOOLEAN /\ entry.denied \in BOOLEAN
      BY <1>1, EntryIs
    <3> HIDE DEF m
    <3>3. entry' = [entry EXCEPT !.inFlight = entry.inFlight, !.denied = entry.denied,
                                 !.aggregated = m]
      BY <1>1, <3>1 DEF Entries
    <3> QED BY <3>2, <3>3
  <2>2. CASE AnswerQuota
    <3>1. PICK n \in BOOLEAN :
            entry' = [entry EXCEPT !.inFlight = FALSE, !.denied = n,
                                   !.aggregated = @ /\ ~n]
      BY <2>2 DEF AnswerQuota
    <3>2. (entry.aggregated /\ ~n) \in BOOLEAN
      OBVIOUS
    <3> QED BY <3>1, <3>2
  <2> QED BY <2>1, <2>2
<1>3. /\ entry' \in Entries /\ entry'.cache = entry.cache
      /\ entry'.age = entry.age /\ entry'.sent = entry.sent
  BY <1>1, <1>2 DEF Entries
<1>4. EntryKnown(entry')
  BY <1>1, <1>3 DEF TimerInv, EntryKnown
<1>5. entry' # NoEntry /\ entry'.age <= entry.age
  BY <1>1, <1>3, EntryIs
<1>6. UNCHANGED <<interval, expiration, wanted, elapsed>>
  BY DEF UseQuota, AnswerQuota
<1> QED BY <1>1, <1>3, <1>4, <1>5, <1>6, TimelessKeeps

\* Sweeps and evictions may come at any time.
LEMMA DisturbedKeeps == TimerInv /\ Disturbed => TimerInv'
<1> SUFFICES ASSUME TimerInv, Disturbed PROVE TimerInv'
  OBVIOUS
<1>1. TimerTypeOK /\ entry \in Entries /\ EntryKnown(entry)
  BY DEF TimerInv, TimerTypeOK, Disturbed
<1>2. UNCHANGED <<interval, expiration, wanted, elapsed>>
  BY DEF Disturbed
<1>3. CASE entry' = Swept(entry)
  BY <1>1, <1>2, <1>3, SweptIs, TimelessKeeps
<1>4. CASE entry' = Deleted(entry)
  <2>1. InTime(Deleted(entry), 0)
    <3> SUFFICES ASSUME Deleted(entry) # NoEntry
                 PROVE  Deleted(entry).age <= interval[Deleted(entry).cache] + 0
      BY DEF InTime
    <3>1. Deleted(entry).cache = entry.cache /\ Deleted(entry).age = 0
      BY <1>1, DeletedIs
    <3>2. interval[entry.cache] \in Nat
      BY <1>1, EntryIs, IntervalOf, IntervalsAssumption DEF TimerTypeOK, EntryKnown
    <3> QED BY <3>1, <3>2
  <2>2. Deleted(entry) \in Entries \cup {NoEntry} /\ EntryKnown(Deleted(entry))
    BY <1>1, DeletedIs
  <2> QED BY <1>2, <1>4, <2>1, <2>2, TimelessKeeps
<1> QED BY <1>3, <1>4 DEF Disturbed

\* Before the timer fires an age grows with the time; when it fires nothing is
\* left that is older than the interval.
LEMMA AdvanceKeeps == TimerInv /\ Advance => TimerInv'
<1> SUFFICES ASSUME TimerInv, Advance PROVE TimerInv'
  OBVIOUS
<1> DEFINE fires == HasTimer /\ elapsed + 1 = GetNextFlushInterval
<1>1. /\ TimerTypeOK /\ elapsed \in Nat
      /\ GetNextFlushInterval \in Int
  BY Shortest DEF TimerInv, TimerTypeOK
<1>2. /\ interval' = interval /\ expiration' = expiration /\ wanted' = wanted
      /\ HasTimer' = HasTimer /\ GetNextFlushInterval' = GetNextFlushInterval
  BY DEF Advance, HasTimer, GetNextFlushInterval
<1>3. /\ elapsed' = IF HasTimer /\ ~fires THEN elapsed + 1 ELSE 0
      /\ entry' = IF entry = NoEntry THEN NoEntry
                  ELSE IF fires THEN Swept(Aged(entry)) ELSE Aged(entry)
  BY DEF Advance
<1> HIDE DEF fires
<1>4. entry' \in Entries \cup {NoEntry} /\ EntryKnown(entry')
  <2>1. CASE entry = NoEntry
    BY <1>3, <2>1 DEF EntryKnown
  <2>2. CASE entry # NoEntry
    <3>1. entry \in Entries /\ EntryKnown(entry)
      BY <2>2 DEF TimerInv, TimerTypeOK
    <3>2. Aged(entry) \in Entries /\ EntryKnown(Aged(entry))
      BY <1>1, <3>1, AgedIs
    <3>3. Swept(Aged(entry)) \in Entries \cup {NoEntry} /\ EntryKnown(Swept(Aged(entry)))
      BY <1>1, <3>2, SweptIs
    <3> QED BY <1>3, <2>2, <3>2, <3>3
  <2> QED BY <2>1, <2>2
<1>5. ASSUME HasTimer
      PROVE  elapsed' < GetNextFlushInterval /\ InTime(entry', elapsed')
  <2>1. /\ elapsed < GetNextFlushInterval
        /\ InTime(entry, elapsed)
    BY <1>5 DEF TimerInv, TimerRuns
  <2>2. CASE fires
    <3>1. elapsed' = 0 /\ 0 < GetNextFlushInterval
      BY <1>1, <1>3, <2>1, <2>2
    <3>2. CASE entry = NoEntry
      BY <1>3, <3>1, <3>2 DEF InTime
    <3>3. CASE entry # NoEntry
      <4>1. entry \in Entries /\ EntryKnown(entry)
        BY <3>3 DEF TimerInv, TimerTypeOK
      <4>2. InTime(Swept(Aged(entry)), 0)
        BY <1>1, <4>1, AgedIs, SweptIs
      <4> QED BY <1>3, <2>2, <3>1, <3>3, <4>2
    <3> QED BY <3>2, <3>3
  <2>3. CASE ~fires
    <3>1. elapsed' = elapsed + 1 /\ elapsed' < GetNextFlushInterval
      BY <1>1, <1>3, <1>5, <2>1, <2>3 DEF fires
    <3>2. CASE entry = NoEntry
      BY <1>3, <3>1, <3>2 DEF InTime
    <3>3. CASE entry # NoEntry
      <4>1. entry \in Entries /\ EntryKnown(entry)
        BY <3>3 DEF TimerInv, TimerTypeOK
      <4>2. /\ entry' = Aged(entry) /\ entry' \in Entries
            /\ entry'.cache = entry.cache /\ entry'.age <= entry.age + 1
        BY <1>1, <1>3, <2>3, <3>3, <4>1, AgedIs
      <4>3. entry.age <= interval[entry.cache] + elapsed
        BY <2>1, <3>3 DEF InTime
      <4>4. entry.age \in Nat /\ entry'.age \in Nat /\ interval[entry.cache] \in Int
        BY <1>1, <4>1, <4>2, EntryIs, IntervalOf, IntervalsAssumption DEF TimerTypeOK
      <4>5. entry'.age <= interval[entry'.cache] + elapsed'
        BY <1>1, <3>1, <4>2, <4>3, <4>4
      <4> QED BY <3>1, <4>5 DEF InTime
    <3> QED BY <3>2, <3>3
  <2> QED BY <2>2, <2>3
<1>6. elapsed' \in Nat
  BY <1>1, <1>3
<1>7. TimerTypeOK'
  BY <1>1, <1>2, <1>4, <1>6 DEF TimerTypeOK
<1>8. EntryKnown(entry)' /\ TimerRuns'
  <2>1. EntryKnown(entry') => EntryKnown(entry)'
    BY <1>2 DEF EntryKnown
  <2>2. InTime(entry', elapsed') => InTime(entry, elapsed)'
    BY <1>2 DEF InTime
  <2> QED BY <1>2, <1>4, <1>5, <2>1, <2>2 DEF TimerRuns
<1> QED BY <1>7, <1>8 DEF TimerInv

\* The inductive invariant of the timer: it is about to fire, nothing it has
\* left is older than its interval and the time since, and what the deleter of
\* the quota cache put back had been sent within its expiration.
THEOREM TimerInvariance == TimerSpec => []TimerInv
<1>1. ASSUME TimerInv, [TimerNext]_timerVars PROVE TimerInv'
  <2>1. CASE UNCHANGED timerVars
    BY <1>1, <2>1
    DEF timerVars, TimerInv, TimerTypeOK, TimerRuns, EntryKnown, InTime,
        HasTimer, GetNextFlushInterval
  <2>2. CASE TimerNext
    BY <1>1, <2>2, EnterKeeps, UseCheckKeeps, QuotaKeeps, DisturbedKeeps, AdvanceKeeps
    DEF TimerNext
  <2> QED BY <1>1, <2>1, <2>2
<1> QED BY <1>1, TimerStart, PTL DEF TimerSpec

\* Whatever the intervals, one timer serves the three caches in time: checks
\* and reports leave, quota elements ask the server again or leave, within the
\* intervals of EntriesServedInTime.
THEOREM ServedInTime == TimerSpec => []EntriesServedInTime
<1>1. ASSUME TimerInv PROVE EntriesServedInTime
  <2> DEFINE used == {c \in Caches : interval[c] # Disabled}
             limit(d) == interval[entry.cache] + interval[d]
  <2> SUFFICES ASSUME wanted, \A c \in used : interval[c] > 0, entry # NoEntry, NEW d \in used
               PROVE  /\ entry.age < limit(d)
                      /\ entry.cache = "quota" => entry.sent < expiration + limit(d)
    BY DEF EntriesServedInTime
  <2>1. /\ interval \in [Caches -> Intervals \cup {Disabled}]
        /\ elapsed \in Nat /\ expiration \in Nat
        /\ entry \in Entries
        /\ entry.age \in Nat /\ entry.sent \in Nat /\ entry.cache \in Caches
    BY <1>1, EntryIs, IntervalsAssumption DEF TimerInv, TimerTypeOK
  <2>2. ASSUME NEW e \in Caches
        PROVE  NextInterval(interval[e]) > 0 /\ interval[e] \in Int
    <3>1. interval[e] # 0
      BY DEF Disabled
    <3> QED BY <2>1, <3>1, IntervalOf
  <2>3. GetNextFlushInterval > 0 /\ GetNextFlushInterval \in Int
    BY <2>1, <2>2, Shortest
  <2>4. GetNextFlushInterval <= interval[d]
    <3>1. NextInterval(interval[d]) = interval[d]
      BY <2>2 DEF NextInterval
    <3> QED BY <2>1, <3>1, Shortest
  <2>5. elapsed < GetNextFlushInterval /\ entry.age <= interval[entry.cache] + elapsed
    BY <1>1, <2>3 DEF TimerInv, TimerRuns, HasTimer, InTime
  <2>6. interval[entry.cache] \in Int /\ interval[d] \in Int
    BY <2>1, <2>2
  <2>7. entry.age < limit(d)
    BY <2>1, <2>3, <2>4, <2>5, <2>6
  <2>8. entry.cache = "quota" => entry.sent <= entry.age + expiration
    BY <1>1 DEF TimerInv, EntryKnown
  <2> QED BY <2>1, <2>6, <2>7, <2>8
<1> QED BY <1>1, TimerInvariance, PTL
=============================================================================
