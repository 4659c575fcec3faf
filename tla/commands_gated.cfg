CONSTANTS
  QueueCap = 1
  SignalCap = 1
  NetCap = 2
  MaxCandidates = 1
  MaxTraffic = 2
SPECIFICATION Spec
INVARIANT CommandsGated
CHECK_DEADLOCK FALSE
