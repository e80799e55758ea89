SPECIFICATION MoneySpec
CONSTANTS
  Currencies = {usd}
  NoCurrency = NoCurrency
  UnitsMax = 3
  Billion = 3
INVARIANTS
  OutOfRangeIsOverflow
