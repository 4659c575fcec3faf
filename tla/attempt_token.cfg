CONSTANTS
  Viewers = {v1, v2}
  Capacity = 1
  None = None
SPECIFICATION FairSpec
PROPERTY AttemptHasToken
\* Without MQTT every call may end up panicked or waiting for a lost wake-up.
CHECK_DEADLOCK FALSE
