SPECIFICATION Spec
CONSTANTS
  m1 = m1
  m2 = m2
  Messages = {m1, m2}
  Immediate = TRUE
  TimeoutMs = 1
  NetErrors = {"reset"}
  UserCalls = {"stop", "start"}
  Retry = TRUE
  MaxCalls = 3
  MaxPeer = 1
  Room = 1
INVARIANTS
  SendOrder
  InputIsHandled
  LostConnectionIsReported
CONSTRAINT Instances
SYMMETRY Symmetry
CHECK_DEADLOCK FALSE
