CONSTANTS
  Viewers = {viewer}
  Ring = 1
  MaxRequests = 3
  MaxPackets = 2
  MaxSessions = 2
  SnapshotOn = {TRUE, FALSE}
  Pictures = 4
  Backlog = 1
  Flight = 1
  MaxConnections = 2
  HubOn = {TRUE, FALSE}
  RequestCap = 3
  MaxOutages = 1
  MaxEvents = 2
SPECIFICATION FairSpec
INVARIANTS TypeOK StreamsNegotiated FreshPackets WholeNals EchoIsTrue NothingForgotten
PROPERTIES HangUpNoticed SnapshotRecovers Reannounces StateSettles
CHECK_DEADLOCK FALSE
