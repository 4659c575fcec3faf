CONSTANTS
  Callers = {connect, command}
  Cap = 2
  RefillPeriod = 2
  None = None
  Rejected = Rejected
  Failed = Failed
SPECIFICATION FairSpec
INVARIANTS TypeOK BoundedBurst MemoryMatchesDisk LoginOnlyAfterLoss
PROPERTIES TroubleHeals
CHECK_DEADLOCK FALSE
