SPECIFICATION Spec
CONSTANTS
  Keys = {k1, k2, k3}
  Values = {v1, v2, v3}
  NoValue = NoValue
  NoElem = NoElem
  Costs = {1, 2}
  MaxIdle = 1
  MaxSize = 2
  MaxPins = 2
  MixedPins = FALSE
SYMMETRY Symmetry
INVARIANTS
  OnePlace
  PinnedIsLive
  ListComplete
  UnitsAddUp
  OverfullIsPinned
  SweepIsComplete
PROPERTIES
  OldestEvicted
