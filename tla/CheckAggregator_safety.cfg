SPECIFICATION FairSpec
CONSTANTS
  Keys = {k1, k2}
  Operations = {o1, o2}
  NoElem = NoElem
  Capacity = 1
  FlushInterval = 1
  Expiration = 2
  MaxCalls = 2
  MaxBuffered = 1
INVARIANTS
  Ledger
  WithinCapacity
PROPERTIES
  OperationsNotLost
  RefreshesSpaced
  IdleOperationsFlushed
