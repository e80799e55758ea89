SPECIFICATION FairSpec
CONSTANTS
  Users = {u1, u2}
  Background = {b1}
  Owner = u1
  Nobody = Nobody
  Items = {i1, i2}
  MergeLimit = 2
  InPlace = TRUE
  MaxOps = 2
INVARIANTS
  OwnBuffer
  QuietAfterDisconnect
PROPERTIES
  DeliversEachOnce
  ClientCloses
  RemovedItemsLeave
CHECK_DEADLOCK FALSE
