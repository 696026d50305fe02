SPECIFICATION Spec
CONSTANTS
  f1 = f1
  f2 = f2
  c1 = c1
  c2 = c2
  Files = {f1, f2}
  Channels = {c1, c2}
  MaxFd = 1
  kEpollInitEventLen = 1
  kEpollMaxWaitLen = 2
  CloseMayFail = TRUE
  CtlMayFail = TRUE
  MaxQueue = 2
SYMMETRY Symmetry
INVARIANTS
  TasksOwnTheirFd
  EntriesExist
  EdgeNotLost
  TableCoversKernel
  DispatchIsCurrent
  CallbackIsWatched
CHECK_DEADLOCK FALSE
