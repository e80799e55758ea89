SPECIFICATION Spec
CONSTANTS
  Users = {u1}
  Background = {b1}
  Owner = u1
  Nobody = Nobody
  Items = {i1, i2}
  MergeLimit = 1
  InPlace = TRUE
  MaxOps = 2
INVARIANTS
  NoSelfDeadlock
CHECK_DEADLOCK FALSE
