CONSTANTS
  Viewers = {v1, v2}
  Capacity = 1
  MaxClears = 2
  None = None
SPECIFICATION LiveSpec
INVARIANT SessionUpIsLive
\* Without MQTT every call may end up panicked or waiting for a lost wake-up.
CHECK_DEADLOCK FALSE
