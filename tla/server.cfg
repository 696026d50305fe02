SPECIFICATION Spec
CONSTANTS
  c1 = c1
  c2 = c2
  f1 = f1
  m1 = m1
  m2 = m2
  t1 = t1
  Conns = {c1, c2}
  Fds = {f1}
  Messages = {m1, m2}
  NetErrors = {"reset"}
  UserCalls = {"hold", "stop", "pause", "release", "abort", "start"}
  Callers = {t1}
  MaxCalls = 2
  MaxPeer = 5
  FrameLen = 2
  Room = 1
CONSTRAINT Instances
SYMMETRY Symmetry
INVARIANTS
  TableIsExact
  PendingIsAccepted
  NoLeak
  SessionStreams
  WaitingDataIsWatched
CHECK_DEADLOCK FALSE
