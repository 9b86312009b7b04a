SPECIFICATION FairSpec
CONSTANTS
  t1 = t1
  t2 = t2
  t3 = t3
  w1 = w1
  Threads = {t1, t2, t3}
  Workers = {}
  NoThread = NoThread
  NoLock = NoLock
  Mutexes = {1}
  LockIds <- Addresses
  Requests <- SoleReaderRequests
  Features = {}
  MaxDepth = 2
  MaxPending = 1
PROPERTY KeepsPromise
