SPECIFICATION Spec
CONSTANTS
  t1 = t1
  t2 = t2
  t3 = t3
  w1 = w1
  Threads = {t1, t2}
  Workers = {}
  NoThread = NoThread
  NoLock = NoLock
  Mutexes = {1}
  LockIds <- Addresses
  Requests <- AllRequests
  Features = {}
  MaxDepth = 1
  MaxPending = 1
INVARIANT MutualExclusion
CHECK_DEADLOCK FALSE
