CONSTANTS
  QueueCap = 1
  SignalCap = 1
  NetCap = 2
  MaxCandidates = 1
  MaxTraffic = 2
SPECIFICATION FairSpec
INVARIANTS TypeOK SessionGated CandidatesKept
PROPERTIES ConnectResolves TeardownFrees CloseReachesDriver DeadLinkNoticed
CHECK_DEADLOCK FALSE
