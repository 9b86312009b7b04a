SPECIFICATION Spec
CONSTANTS
  t1 = t1
  t2 = t2
  t3 = t3
  w1 = w1
  Threads = {t1, t2}
  Workers = {}
  NoThread = NoThread
  NoLock = NoLock
  Mutexes = {1, 2}
  LockIds <- Addresses
  Requests <- CrossRequests
  Features = {"descend", "overwrite"}
  MaxDepth = 1
  MaxPending = 1
INVARIANTS
  HeldCoversOwned ReorderSafe
CHECK_DEADLOCK FALSE
