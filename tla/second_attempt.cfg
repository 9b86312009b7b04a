SPECIFICATION Spec
CONSTANTS
  t1 = t1
  t2 = t2
  t3 = t3
  w1 = w1
  Threads = {t1, t2}
  Workers = {}
  NoThread = NoThread
  NoLock = NoLock
  Mutexes = {1, 2}
  LockIds <- Addresses
  Requests <- WriteRequests
  Features = {"descend"}
  MaxDepth = 1
  MaxPending = 1
INVARIANT SuccessOwns
CHECK_DEADLOCK FALSE
