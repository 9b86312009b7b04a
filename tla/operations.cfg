SPECIFICATION Spec
CONSTANTS
  t1 = t1
  t2 = t2
  t3 = t3
  Threads = {t1, t2}
  w1 = w1
  Workers = {w1}
  NoThread = NoThread
  NoLock = NoLock
  Mutexes = {1}
  LockIds <- Addresses
  Requests <- SoleReaderRequests
  Features = {"ops"}
  MaxDepth = 1
  MaxPending = 1
INVARIANTS
  TypeOK WriteLockHasOneOwner QuiescentClean
CHECK_DEADLOCK FALSE
