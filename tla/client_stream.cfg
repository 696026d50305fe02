SPECIFICATION FairSpec
CONSTANTS
  m1 = m1
  m2 = m2
  Messages = {m1}
  Immediate = FALSE
  TimeoutMs = 1
  NetErrors = {}
  UserCalls = {}
  Retry = TRUE
  MaxCalls = 2
  MaxPeer = 2
  Room = 1
INVARIANTS
  PendingDataIsWatched
  FramesBeforeDisconnect
PROPERTIES
  ConnectResolves
  DataIsWritten
CHECK_DEADLOCK FALSE
