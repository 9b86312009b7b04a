SPECIFICATION FairSpec
CONSTANTS
  Clients = {c1, c2}
  Owner = c1
  Cleaner = cleaner
  NoThread = NoThread
  NoTask = NoTask
  MaxWorkers = 2
  Configs <- QueueConfigs
  MaxQueue = 2
  MaxRetry = 2
  BatchSizes = {2}
  MaxTasks = 4
INVARIANTS
  TypeOK QueueBounded TaskOnce FrontExists StopClears
PROPERTIES
  KeepsPool CallsReturn Served
CHECK_DEADLOCK FALSE
