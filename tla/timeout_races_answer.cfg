SPECIFICATION Spec
CONSTANTS
  m1 = m1
  m2 = m2
  Messages = {}
  Immediate = FALSE
  TimeoutMs = 1
  NetErrors = {}
  UserCalls = {}
  Retry = FALSE
  MaxCalls = 1
  MaxPeer = 0
  Room = 1
PROPERTIES
  OneOutcome
CHECK_DEADLOCK FALSE
