SPECIFICATION Spec
CONSTANTS
  Keys = {k1, k2, k3}
  NoElem = NoElem
  Capacity = 2
  RefreshInterval = 1
  ExpirationInterval = 3
  Costs = {1}
  MaxOwed = 1
  MaxOrphans = 1
SYMMETRY Symmetry
INVARIANTS
  WithinCapacity
CHECK_DEADLOCK FALSE
