SPECIFICATION FairSpec
CONSTANTS
  Keys = {k1, k2, k3}
  NoElem = NoElem
  Capacity = 2
  FlushInterval = 1
  MaxLogEntries = 2
  MaxOperationsToSend = 2
  LogEntries = {0, 1}
  MaxReport = 2
  MaxOwed = 2
INVARIANTS
  OperationsConserved
  RequestsLimited
  GrownStaySmall
PROPERTIES
  SteadyReportsFlushed
