\* Two channels: a stale watchdog can connect while a new session comes up, and
\* two clearing tasks can be late.
CONSTANTS
  Viewers = {v1, v2}
  Capacity = 1
  MaxClears = 2
  None = None
SPECIFICATION LiveSpec
SYMMETRY ViewerSymmetry
INVARIANTS
  LiveTypeOK
  LiveIsInstalled
PROPERTY SharesCamera
\* Without MQTT every call may end up panicked or waiting for a lost wake-up.
CHECK_DEADLOCK FALSE
