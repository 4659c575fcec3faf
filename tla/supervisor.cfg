\* Three subscribe() calls: one may connect, one join, and one arrive after a
\* teardown, while the first one's watchdog is still connecting.
CONSTANTS
  Viewers = {v1, v2, v3}
  Capacity = 1
  None = None
SPECIFICATION Spec
SYMMETRY ViewerSymmetry
INVARIANTS
  TypeOK
  CountMatches
  OneConnector
  SessionConsistent
  NoPanic
  WaiterHasConnector
  NoOrphanSession
  OneIdleTimer
  UnwatchedSessionHasTimer
\* Without MQTT every call may end up panicked or waiting for a lost wake-up.
CHECK_DEADLOCK FALSE
