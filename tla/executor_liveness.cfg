SPECIFICATION FairSpec
CONSTANTS
  main = main
  producer = producer
  i1 = i1
  i2 = i2
  h1 = h1
  h2 = h2
  Clients = {main}
  IoTasks = {i1, i2}
  HeavyTasks = {h1}
  StartCallers = {main}
  StopCallers = {main}
  StartWhileRunning = FALSE
  MaxStarts = 2
  MaxStops = 1
PROPERTIES
  IoTaskRuns
  HeavyTaskRuns
  StopJoinsIo
CHECK_DEADLOCK FALSE
