SPECIFICATION Spec
CONSTANTS
  main = main
  producer = producer
  i1 = i1
  i2 = i2
  h1 = h1
  h2 = h2
  Clients = {main, producer}
  IoTasks = {i1, i2}
  HeavyTasks = {h1, h2}
  StartCallers = {main}
  StopCallers <- MainAndIo
  StartWhileRunning = TRUE
  MaxStarts = 2
  MaxStops = 2
SYMMETRY Symmetry
INVARIANTS
  TypeOK
  IoWakeupNotLost
  HeavyWakeupNotLost
  ThreadHandlesSafe
PROPERTIES
  IoRunsInPostOrder
  HeavyRunsInPostOrder
CHECK_DEADLOCK FALSE
