SPECIFICATION FairSpec
CONSTANTS
  Calls = {c1, c2}
  SyncCalls = {c2}
  Flushes = {f1}
  FlushedOps = 2
INVARIANTS
  OneAnswerPerCall
  AnswersUseOwnCopies
PROPERTIES
  StatisticsCatchUp
  CallsAnswered
