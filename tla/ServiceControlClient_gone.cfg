SPECIFICATION Spec
CONSTANTS
  Calls = {c1}
  SyncCalls = {}
  Flushes = {f1}
  FlushedOps = 2
INVARIANTS
  NothingGoneIsUsed
