----------------------------- MODULE MoneyUtils -----------------------------
(***************************************************************************)
(* Money arithmetic (src/money_utils.cc): an amount is a 64-bit number of  *)
(* units and a number of nanos, both of one sign, and adding two amounts   *)
(* carries between the fields, repairs their signs and saturates.          *)
(*                                                                         *)
(* A caller adds amounts to a running total, one after the other.          *)
(*                                                                         *)
(* Abstractions.  The word and the billion are parameters.  A currency is  *)
(* a model value: that its code has three letters is not modelled.  The    *)
(* signed addition that overflows, undefined in C++, wraps, as the         *)
(* overflow tests of the code expect of it.                                *)
(***************************************************************************)
EXTENDS Integers

CONSTANTS
  Currencies,  \* currency codes in use
  NoCurrency,  \* the cleared currency_code
  UnitsMax,    \* INT64_MAX
  Billion      \* kBillion

VARIABLES
  augend, addend,  \* the operands of the last addition
  total,           \* its result
  addition         \* the status it returned

moneyVars == <<augend, addend, total, addition>>

ASSUME MoneyAssumption ==
  /\ NoCurrency \notin Currencies
  /\ UnitsMax \in Nat \ {0, 1}
  /\ Billion \in Nat \ {0, 1}

-----------------------------------------------------------------------------
UnitsMin == -UnitsMax - 1

Money == [currency : Currencies \cup {NoCurrency}, units : UnitsMin .. UnitsMax,
          nanos : (-Billion + 1) .. (Billion - 1)]

\* Two's complement: the value of x in a word, for sums of two words.
Wrap(x) == IF x > UnitsMax THEN x - 2 * (UnitsMax + 1)
           ELSE IF x < UnitsMin THEN x + 2 * (UnitsMax + 1) ELSE x

\* ValidateMoney() of a message with a currency: the signs agree and the nanos
\* are less than a unit.
ValidMoney(m) ==
  /\ ~(m.units > 0 /\ m.nanos < 0) /\ ~(m.units < 0 /\ m.nanos > 0)
  /\ -Billion < m.nanos /\ m.nanos < Billion

GetAmountSign(m) ==
  IF m.units > 0 \/ (m.units = 0 /\ m.nanos > 0) THEN 1
  ELSE IF m.units < 0 \/ (m.units = 0 /\ m.nanos < 0) THEN -1 ELSE 0

\* Mutated form: a carry of exactly one unit is missed.
CarryLate(nanos) ==
  IF nanos > Billion THEN 1 ELSE IF nanos <= -Billion THEN -1 ELSE 0

\* What the sum of the nanos carries to the units.
Carry(nanos) ==
  IF nanos >= Billion THEN 1 ELSE IF nanos <= -Billion THEN -1 ELSE 0

\* Mutated form: the units are repaired and the nanos are not.
SignsAgreeHalf(units, nanos) ==
  IF units > 0 /\ nanos < 0 THEN <<units - 1, -nanos>>
  ELSE IF units < 0 /\ nanos > 0 THEN <<units + 1, -nanos>>
  ELSE <<units, nanos>>

\* The fields of a sum whose signs differ, made to agree.
SignsAgree(units, nanos) ==
  IF units > 0 /\ nanos < 0 THEN <<units - 1, nanos + Billion>>
  ELSE IF units < 0 /\ nanos > 0 THEN <<units + 1, nanos - Billion>>
  ELSE <<units, nanos>>

Result(currency, units, nanos) ==
  [currency |-> currency, units |-> units, nanos |-> nanos]

\* Mutated form: whatever overflows saturates at the top.
SaturatedAbove(currency, sign) == Result(currency, UnitsMax, Billion - 1)

\* The amount an addition that overflows in the direction of sign is set to.
Saturated(currency, sign) ==
  IF sign > 0 THEN Result(currency, UnitsMax, Billion - 1)
  ELSE Result(currency, UnitsMin, -Billion + 1)

\* Mutated form: the sum of the units alone is not looked at.
NegativeOverflowMissed(x, y, noCarry, units) ==
  GetAmountSign(x) < 0 /\ GetAmountSign(y) < 0 /\ units >= 0

PositiveOverflow(x, y, units) ==
  GetAmountSign(x) > 0 /\ GetAmountSign(y) > 0 /\ units <= 0

\* Two negative sums may wrap to zero, and the carry make them negative again.
NegativeOverflow(x, y, noCarry, units) ==
  /\ GetAmountSign(x) < 0 /\ GetAmountSign(y) < 0
  /\ noCarry >= 0 \/ units >= 0

\* The fields of the sum, as the code computes them: any of the additions of
\* units may wrap.
SumFields(x, y) ==
  LET nanos == x.nanos + y.nanos
      carry == Carry(nanos)
  IN SignsAgree(Wrap(Wrap(x.units + y.units) + carry), nanos - carry * Billion)

\* The sum and the status of TryAddMoney(x, y, &sum).
TryAddMoney(x, y) ==
  IF x.currency # y.currency
  THEN [sum |-> Result(NoCurrency, 0, 0), status |-> "INVALID_ARGUMENT"]
  ELSE IF PositiveOverflow(x, y, SumFields(x, y)[1])
  THEN [sum |-> Saturated(x.currency, 1), status |-> "OUT_OF_RANGE"]
  ELSE IF NegativeOverflow(x, y, Wrap(x.units + y.units), SumFields(x, y)[1])
  THEN [sum |-> Saturated(x.currency, -1), status |-> "OUT_OF_RANGE"]
  ELSE [sum |-> Result(x.currency, SumFields(x, y)[1], SumFields(x, y)[2]),
        status |-> "OK"]

-----------------------------------------------------------------------------
Amounts == {m \in Money : m.currency # NoCurrency /\ ValidMoney(m)}

MoneyInit ==
  /\ augend \in Amounts
  /\ addend = augend
  /\ total = augend
  /\ addition = "none"

\* The caller adds an amount to its total, in either order of the operands.
AddMoney(x, y) ==
  /\ total.currency # NoCurrency
  /\ augend' = x
  /\ addend' = y
  /\ total' = TryAddMoney(x, y).sum
  /\ addition' = TryAddMoney(x, y).status

\* A total that an addition has cleared is started again.
RestartTotal(x) ==
  /\ total.currency = NoCurrency
  /\ augend' = x /\ addend' = x /\ total' = x
  /\ addition' = "none"

MoneyNext ==
  \E m \in Amounts : AddMoney(total, m) \/ AddMoney(m, total) \/ RestartTotal(m)

MoneySpec == MoneyInit /\ [][MoneyNext]_moneyVars

-----------------------------------------------------------------------------
(* Properties.                                                             *)

\* The amount in nanos, as a number without bounds.
Amount(m) == m.units * Billion + m.nanos

ExactSum == Amount(augend) + Amount(addend)

Largest == UnitsMax * Billion + Billion - 1

Smallest == UnitsMin * Billion - Billion + 1

MoneyTypeOK ==
  /\ {augend, addend} \subseteq Amounts
  /\ total \in Money
  /\ addition \in {"none", "OK", "OUT_OF_RANGE", "INVALID_ARGUMENT"}
  /\ total.currency = NoCurrency <=> addition = "INVALID_ARGUMENT"

\* Whatever is added to what, carried or repaired, the total is again an amount
\* that may be added to; and an addition that returns OK is exact, across
\* carries, changes of sign and both ends of the word.
AdditionExact ==
  /\ ValidMoney(total)
  /\ addition = "OK" => Amount(total) = ExactSum

\* A sum that does not fit is always noticed, and set to the end it passed; and
\* with units in at least one operand no overflow is seen that is none.
OverflowDetected ==
  addition \in {"OK", "OUT_OF_RANGE"} =>
    /\ ExactSum > Largest =>
         addition = "OUT_OF_RANGE" /\ Amount(total) = Largest
    /\ ExactSum < Smallest =>
         addition = "OUT_OF_RANGE" /\ Amount(total) = Smallest
    /\ addition = "OUT_OF_RANGE" /\ (augend.units # 0 \/ addend.units # 0) =>
         ExactSum > Largest \/ ExactSum < Smallest

\* money_utils.h:45 says of OUT_OF_RANGE "If arithmetic overflow occurs during
\* the additions": it is returned only when the sum does not fit.
OutOfRangeIsOverflow ==
  addition = "OUT_OF_RANGE" => ExactSum > Largest \/ ExactSum < Smallest
=============================================================================
