SPECIFICATION FairSpec
CONSTANTS
  Ms = 2
  Timeouts = {0, 1}
  IdMod = 3
  MaxPosts = 2
  MaxTasks = 1
  MaxTime = 4
INVARIANTS
  WakeUpIsSet
PROPERTIES
  NeverEarly
  CancelHolds
  DeadlinesAreMet
CHECK_DEADLOCK FALSE
