SPECIFICATION FairSpec
CONSTANTS
  Keys = {k1, k2}
  NoElem = NoElem
  Capacity = 2
  RefreshInterval = 1
  ExpirationInterval = 3
  Costs = {1}
  MaxOwed = 2
  MaxOrphans = 2
INVARIANTS
  OneRequestPerElement
  InFlightAwaited
  Ledger
PROPERTIES
  DenialHolds
  TokensNotLost
  TokensSettle
  DenialProbed
