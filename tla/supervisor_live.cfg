\* Liveness, so without symmetry: two subscribe() calls are enough for a viewer
\* that joins, one that returns after a teardown, and a stale watchdog.
CONSTANTS
  Viewers = {v1, v2}
  Capacity = 1
  None = None
SPECIFICATION FairSpec
PROPERTIES
  QuietIsReleased
  SubscribeReturns
  RetryHappens
\* Without MQTT every call may end up panicked or waiting for a lost wake-up.
CHECK_DEADLOCK FALSE
