SPECIFICATION Spec
CONSTANTS
  Keys = {k1, k2}
  NoElem = NoElem
  Capacity = 1
  RefreshInterval = 1
  ExpirationInterval = 3
  Costs = {1}
  MaxOwed = 1
  MaxOrphans = 2
INVARIANTS
  EvictionEnds
CHECK_DEADLOCK FALSE
