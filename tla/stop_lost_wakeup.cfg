SPECIFICATION FairSpec
CONSTANTS
  main = main
  producer = producer
  i1 = i1
  i2 = i2
  h1 = h1
  h2 = h2
  Clients = {main}
  IoTasks = {}
  HeavyTasks = {}
  StartCallers = {main}
  StopCallers = {main}
  StartWhileRunning = FALSE
  MaxStarts = 1
  MaxStops = 1
PROPERTIES
  StopReturns
CHECK_DEADLOCK FALSE
