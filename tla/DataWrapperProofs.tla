-------------------------- MODULE DataWrapperProofs --------------------------
(***************************************************************************)
(* Theorems about DataWrapper, for every set of threads, workers, mutexes, *)
(* addresses, requests and client features.                                *)
(***************************************************************************)
EXTENDS DataWrapper, TLAPS

-----------------------------------------------------------------------------
(* What the operations on one lock object return *)

LEMMA OwnershipOperations ==
  ASSUME NEW l \in LockObjects, NEW t \in Threads
  PROVE  /\ CountOwnership(l, t) \in LockObjects
         /\ AddOwnership(l, t) \in LockObjects
         /\ RemoveOwnership(l, t) \in LockObjects
<1>1. ASSUME NEW n \in Nat
      PROVE  [l EXCEPT !.owners[t] = n] \in LockObjects
  BY DEF LockObjects
<1>2. l.owners[t] \in Nat
  BY DEF LockObjects
<1>3. /\ l.owners[t] + 1 \in Nat
      /\ (IF l.owners[t] > 0 THEN l.owners[t] ELSE 1) \in Nat
      /\ (IF l.owners[t] > 0 THEN l.owners[t] - 1 ELSE 0) \in Nat
  BY <1>2
<1> QED
  BY <1>1, <1>3 DEF CountOwnership, AddOwnership, RemoveOwnership

LEMMA GuardOperations ==
  ASSUME NEW l \in LockObjects
  PROVE  /\ RemoveGuard(l) \in LockObjects
         /\ LeaveCreateGuard(l) \in LockObjects
         /\ \A t \in Threads : EnterCreateGuard(l, t) \in LockObjects
<1>1. RemoveGuard(l) \in LockObjects
  BY DEF RemoveGuard, LockObjects
<1>2. LeaveCreateGuard(l) \in LockObjects
  BY DEF LeaveCreateGuard, LockObjects
<1>3. ASSUME NEW t \in Threads PROVE EnterCreateGuard(l, t) \in LockObjects
  BY DEF EnterCreateGuard, LockObjects
<1> QED
  BY <1>1, <1>2, <1>3

LEMMA OperationCounts ==
  ASSUME NEW l \in LockObjects
  PROVE  /\ [l EXCEPT !.ops = l.ops + 1] \in LockObjects
         /\ l.ops > 0 => [l EXCEPT !.ops = l.ops - 1] \in LockObjects
<1>1. ASSUME NEW n \in Nat PROVE [l EXCEPT !.ops = n] \in LockObjects
  BY DEF LockObjects
<1>2. l.ops \in Nat
  BY DEF LockObjects
<1>3. l.ops + 1 \in Nat /\ (l.ops > 0 => l.ops - 1 \in Nat)
  BY <1>2
<1> QED
  BY <1>1, <1>3

LEMMA NewLockType ==
  ASSUME NEW m \in Mutexes, NEW ty \in Types
  PROVE  NewLock(m, ty) \in LockObjects
BY DEF NewLock, LockObjects

LEMMA FreedType == Freed \in LockObjects
BY LockTypesAssumption, NewLockType DEF Freed, Types

LEMMA DropUnreferencedType ==
  ASSUME lock \in [LockIds -> LockObjects], DropUnreferenced
  PROVE  lock' \in [LockIds -> LockObjects]
BY FreedType DEF DropUnreferenced

-----------------------------------------------------------------------------
(* Type correctness *)

LEMMA InitType == Init => TypeOK
BY LockTypesAssumption, FreedType DEF Init, TrackerInit, TypeOK, LockRefs, PcLabels, Types

LEMMA ThreadsAreActors == Threads \subseteq Actors /\ Workers \subseteq Actors
BY DEF Actors

LEMMA TryAcquireType ==
  ASSUME TypeOK, NEW t \in Threads, TryAcquireStep(t), UNCHANGED wrappers
  PROVE  TypeOK'
<1> USE ThreadsAreActors DEF TypeOK, LockRefs, PcLabels, Goto
<1>1. CASE GetLockData(t)
  BY <1>1 DEF GetLockData
<1>2. CASE CanAcquire(t)
  BY <1>2 DEF CanAcquire, Cannot
<1>3. CASE CanConvert(t)
  BY <1>3 DEF CanConvert, Cannot
<1>4. CASE RegisterMutex(t)
  BY <1>4, NewLockType DEF RegisterMutex
<1>5. CASE RegisterFails(t)
  BY <1>5, DropUnreferencedType DEF RegisterFails
<1>6. CASE AddToHeldLocks(t)
  BY <1>6 DEF AddToHeldLocks
<1>7. CASE AcquireLock(t)
  <2>1. CASE UNCHANGED lock
    BY <1>7, <2>1 DEF AcquireLock
  <2>2. CASE lock' = [lock EXCEPT ![Target(t)] = EnterCreateGuard(@, t)]
    <3>1. lock' \in [LockIds -> LockObjects]
      BY <2>2, GuardOperations
    <3> QED
      BY <1>7, <3>1 DEF AcquireLock
  <2> QED
    BY <1>7, <2>1, <2>2 DEF AcquireLock
<1>8. CASE LockGranted(t)
  BY <1>8, GuardOperations DEF LockGranted
<1>9. CASE OwnLock(t)
  BY <1>9, OwnershipOperations DEF OwnLock
<1>10. CASE NeedToReset(t)
  BY <1>10 DEF NeedToReset
<1> QED
  BY <1>1, <1>2, <1>3, <1>4, <1>5, <1>6, <1>7, <1>8, <1>9, <1>10 DEF TryAcquireStep

LEMMA ReorderType ==
  ASSUME TypeOK, NEW t \in Threads, ReorderStep(t), UNCHANGED wrappers
  PROVE  TypeOK'
<1> USE ThreadsAreActors DEF TypeOK, LockRefs, PcLabels, Goto
<1>1. CASE BeginReorder(t)
  BY <1>1 DEF BeginReorder, Garbage
<1>2. CASE ReorderRemoveGuard(t)
  <2>1. PICK k \in todo[t] :
          /\ lock' = [lock EXCEPT ![registry[k]] = RemoveGuard(@)]
          /\ todo' = [todo EXCEPT ![t] = @ \ {k}]
    BY <1>2 DEF ReorderRemoveGuard
  <2>2. lock' \in [LockIds -> LockObjects]
    BY <2>1, GuardOperations
  <2>3. todo' \in [Actors -> SUBSET Mutexes]
    BY <2>1
  <2> QED
    BY <1>2, <2>2, <2>3 DEF ReorderRemoveGuard
<1>3. CASE ReorderSort(t)
  BY <1>3 DEF ReorderSort
<1>4. CASE ReorderCreateGuard(t)
  BY <1>4, GuardOperations DEF ReorderCreateGuard
<1>5. CASE ReorderLockGranted(t)
  BY <1>5, GuardOperations DEF ReorderLockGranted
<1>6. CASE EndReorder(t)
  BY <1>6 DEF EndReorder
<1> QED
  BY <1>1, <1>2, <1>3, <1>4, <1>5, <1>6 DEF ReorderStep

LEMMA UnregisterType ==
  ASSUME TypeOK, NEW a \in Actors, UnregisterStep(a), UNCHANGED wrappers
  PROVE  TypeOK'
<1> USE ThreadsAreActors DEF TypeOK, LockRefs, PcLabels, Goto
<1>1. CASE RemoveFromMutexes(a)
  BY <1>1, DropUnreferencedType DEF RemoveFromMutexes
<1>2. CASE RemoveFromHeldLocks(a)
  BY <1>2 DEF RemoveFromHeldLocks
<1>3. CASE ReturnFromRelease(a)
  BY <1>3, DropUnreferencedType DEF ReturnFromRelease
<1> QED
  BY <1>1, <1>2, <1>3 DEF UnregisterStep

LEMMA ReleaseType ==
  ASSUME TypeOK, NEW t \in Threads, ReleaseStep(t), UNCHANGED wrappers
  PROVE  TypeOK'
<1> USE ThreadsAreActors DEF TypeOK, LockRefs, PcLabels, Goto
<1>1. CASE FindToRelease(t)
  BY <1>1 DEF FindToRelease
<1>2. CASE DisownLock(t)
  BY <1>2, OwnershipOperations DEF DisownLock
<1>3. CASE ShouldRemoveGuard(t)
  BY <1>3 DEF ShouldRemoveGuard
<1>4. CASE ShouldRemoveOwners(t)
  BY <1>4 DEF ShouldRemoveOwners
<1>5. CASE GetOperationCount(t)
  BY <1>5 DEF GetOperationCount
<1>6. CASE RunOperationsOfMutex(t)
  <2>1. lock' \in [LockIds -> LockObjects]
    BY <1>6, OwnershipOperations DEF RunOperationsOfMutex
  <2>2. tasks' \in [Mutexes -> Nat]
    BY <1>6 DEF RunOperationsOfMutex
  <2> QED
    BY <1>6, <2>1, <2>2 DEF RunOperationsOfMutex
<1> QED
  BY <1>1, <1>2, <1>3, <1>4, <1>5, <1>6 DEF ReleaseStep

LEMMA AddOperationType ==
  ASSUME TypeOK, NEW t \in Threads, AddOperationStep(t), UNCHANGED wrappers
  PROVE  TypeOK'
<1> USE ThreadsAreActors DEF TypeOK, LockRefs, PcLabels, Goto
<1>1. CASE FindToAddOperation(t)
  BY <1>1 DEF FindToAddOperation
<1>2. CASE AddOperation(t)
  BY <1>2, OperationCounts DEF AddOperation
<1> QED
  BY <1>1, <1>2 DEF AddOperationStep

LEMMA TaskType ==
  ASSUME TypeOK, NEW w \in Workers, TaskStep(w), UNCHANGED wrappers
  PROVE  TypeOK'
<1> USE ThreadsAreActors DEF TypeOK, LockRefs, PcLabels, Goto
<1>1. CASE StartTask(w)
  <2>1. PICK m \in Mutexes :
          /\ tasks[m] > 0
          /\ tasks' = [tasks EXCEPT ![m] = @ - 1]
          /\ req' = [req EXCEPT ![w].mutex = m]
          /\ rdata' = [rdata EXCEPT ![w] = registry[m]]
          /\ Goto(w, CASE registry[m] = NoLock -> "idle"
                       [] registry[m] # NoLock /\ lock[registry[m]].type = "Read" -> "opsConvert"
                       [] registry[m] # NoLock /\ lock[registry[m]].type = "Write" -> "opsWait")
    BY <1>1 DEF StartTask
  <2>2. registry[m] # NoLock => lock[registry[m]].type \in {"Read", "Write"}
    BY DEF LockObjects, Types
  <2>3. pc' \in [Actors -> PcLabels]
    BY <2>1, <2>2
  <2>4. tasks' \in [Mutexes -> Nat]
    BY <2>1
  <2>5. /\ req' \in [Actors -> [mutex : Mutexes, type : Types, op : BOOLEAN]]
        /\ rdata' \in [Actors -> LockRefs]
    BY <2>1
  <2> QED
    BY <1>1, <2>3, <2>4, <2>5 DEF StartTask
<1>2. CASE TaskRemoveGuard(w)
  BY <1>2, GuardOperations DEF TaskRemoveGuard
<1>3. CASE TaskLock(w)
  BY <1>3 DEF TaskLock
<1>4. CASE BeginRunOperations(w)
  BY <1>4 DEF BeginRunOperations
<1>5. CASE RunOperation(w)
  BY <1>5, OperationCounts DEF RunOperation
<1>6. CASE EndRunOperations(w)
  BY <1>6 DEF EndRunOperations
<1>7. CASE UnregisterStep(w)
  BY <1>7, UnregisterType
<1> QED
  BY <1>1, <1>2, <1>3, <1>4, <1>5, <1>6, <1>7 DEF TaskStep

LEMMA WrapperType ==
  ASSUME TypeOK, NEW t \in Threads, WrapperStep(t)
  PROVE  TypeOK'
<1> USE ThreadsAreActors DEF TypeOK, LockRefs, PcLabels, Goto
<1>1. CASE WaitLook(t)
  BY <1>1 DEF WaitLook
<1>2. CASE WaitConvert(t)
  BY <1>2 DEF WaitConvert
<1>3. CASE WaitTimeout(t)
  BY <1>3, DropUnreferencedType DEF WaitTimeout
<1>4. CASE Succeed(t)
  BY <1>4, DropUnreferencedType DEF Succeed
<1> QED
  BY <1>1, <1>2, <1>3, <1>4 DEF WrapperStep

LEMMA ClientType ==
  ASSUME TypeOK, NEW t \in Threads, ClientStep(t)
  PROVE  TypeOK'
<1> USE ThreadsAreActors DEF TypeOK, LockRefs, PcLabels, Goto
<1>1. CASE Access(t)
  BY <1>1 DEF Access, MayQueue
<1>2. CASE Destroy(t)
  BY <1>2 DEF Destroy
<1>3. CASE Overwrite(t)
  BY <1>3 DEF Overwrite, trackerVars
<1> QED
  BY <1>1, <1>2, <1>3 DEF ClientStep

\* Every variable keeps its type whatever threads and workers do; no lockCount
\* is ever decremented below zero.
THEOREM TypeCorrect == Spec => []TypeOK
<1>1. ASSUME TypeOK, [Next]_vars PROVE TypeOK'
  <2>1. ASSUME NEW t \in Threads, ClientStep(t) PROVE TypeOK'
    BY <1>1, <2>1, ClientType
  <2>2. ASSUME NEW t \in Threads, WrapperStep(t) PROVE TypeOK'
    BY <1>1, <2>2, WrapperType
  <2>3. ASSUME NEW t \in Threads, TrackerStep(t) PROVE TypeOK'
    BY <1>1, <2>3, TryAcquireType, ReorderType, ReleaseType, UnregisterType,
       AddOperationType, ThreadsAreActors DEF TrackerStep
  <2>4. ASSUME NEW w \in Workers, WorkerStep(w) PROVE TypeOK'
    BY <1>1, <2>4, TaskType DEF WorkerStep
  <2>5. CASE UNCHANGED vars
    BY <1>1, <2>5 DEF TypeOK, vars, trackerVars
  <2> QED
    BY <1>1, <2>1, <2>2, <2>3, <2>4, <2>5 DEF Next
<1> QED
  BY InitType, <1>1, PTL DEF Spec

-----------------------------------------------------------------------------
(***************************************************************************)
(* ReorderSafe.  What ReorderAll finds registered stays so because it has  *)
(* m_mutexData, and a thread on its way to NeedToReset has recorded the    *)
(* mutex and nobody else writes its vector.  A release keeps a reference   *)
(* to the lock it found (Found, which HeldCoversOwned needs as well).      *)
(***************************************************************************)

Recorded(t) == pc[t] \in {"guard", "lock", "own", "reset"} => req[t].mutex \in held[t]

Reordering(t) ==
  pc[t] \in ReorderPcs => dataLock = t /\ \A k \in held[t] : registry[k] # NoLock

Found(t) == pc[t] \in {"disown", "should", "shouldOwners", "opCount"} => rdata[t] # NoLock

CallInv == \A t \in Threads : Recorded(t) /\ Reordering(t) /\ Found(t)

LEMMA CallInvInit == Init => CallInv
BY ThreadsAreActors DEF Init, TrackerInit, CallInv, Recorded, Reordering, Found, ReorderPcs

LEMMA CallInvTryAcquire ==
  ASSUME TypeOK, CallInv, NEW t \in Threads, TryAcquireStep(t)
  PROVE  CallInv'
<1> USE ThreadsAreActors, LockTypesAssumption, TrackerAssumption
    DEF TypeOK, LockRefs, Goto, CallInv, Recorded, Reordering, Found, ReorderPcs
<1>1. CASE GetLockData(t)
  BY <1>1 DEF GetLockData
<1>2. CASE CanAcquire(t)
  BY <1>2 DEF CanAcquire, Cannot
<1>3. CASE CanConvert(t)
  BY <1>3 DEF CanConvert, Cannot
<1>4. CASE RegisterMutex(t)
  BY <1>4 DEF RegisterMutex
<1>5. CASE RegisterFails(t)
  BY <1>5 DEF RegisterFails
<1>6. CASE AddToHeldLocks(t)
  BY <1>6 DEF AddToHeldLocks
<1>7. CASE AcquireLock(t)
  BY <1>7 DEF AcquireLock
<1>8. CASE LockGranted(t)
  BY <1>8 DEF LockGranted
<1>9. CASE OwnLock(t)
  BY <1>9 DEF OwnLock
<1>10. CASE NeedToReset(t)
  BY <1>10 DEF NeedToReset
<1> QED
  BY <1>1, <1>2, <1>3, <1>4, <1>5, <1>6, <1>7, <1>8, <1>9, <1>10 DEF TryAcquireStep

LEMMA CallInvReorder ==
  ASSUME TypeOK, CallInv, NEW t \in Threads, ReorderStep(t)
  PROVE  CallInv'
<1> USE ThreadsAreActors, LockTypesAssumption, TrackerAssumption
    DEF TypeOK, LockRefs, Goto, CallInv, Recorded, Reordering, Found, ReorderPcs
<1>1. CASE BeginReorder(t)
  BY <1>1 DEF BeginReorder, Garbage
<1>2. CASE ReorderRemoveGuard(t)
  BY <1>2 DEF ReorderRemoveGuard
<1>3. CASE ReorderSort(t)
  BY <1>3 DEF ReorderSort
<1>4. CASE ReorderCreateGuard(t)
  BY <1>4 DEF ReorderCreateGuard
<1>5. CASE ReorderLockGranted(t)
  BY <1>5 DEF ReorderLockGranted
<1>6. CASE EndReorder(t)
  BY <1>6 DEF EndReorder
<1> QED
  BY <1>1, <1>2, <1>3, <1>4, <1>5, <1>6 DEF ReorderStep

LEMMA CallInvUnregister ==
  ASSUME TypeOK, CallInv, NEW a \in Actors, UnregisterStep(a)
  PROVE  CallInv'
<1> USE ThreadsAreActors, LockTypesAssumption, TrackerAssumption
    DEF TypeOK, LockRefs, Goto, CallInv, Recorded, Reordering, Found, ReorderPcs
<1>1. CASE RemoveFromMutexes(a)
  BY <1>1 DEF RemoveFromMutexes
<1>2. CASE RemoveFromHeldLocks(a)
  BY <1>2 DEF RemoveFromHeldLocks
<1>3. CASE ReturnFromRelease(a)
  BY <1>3 DEF ReturnFromRelease
<1> QED
  BY <1>1, <1>2, <1>3 DEF UnregisterStep

LEMMA CallInvOthers ==
  ASSUME TypeOK, CallInv,
         \/ \E t \in Threads : ReleaseStep(t) \/ AddOperationStep(t) \/ WrapperStep(t)
         \/ \E w \in Workers : TaskStep(w) /\ ~UnregisterStep(w)
  PROVE  CallInv'
<1> USE ThreadsAreActors, LockTypesAssumption, TrackerAssumption
    DEF TypeOK, LockRefs, Goto, CallInv, Recorded, Reordering, Found, ReorderPcs
<1>1. ASSUME NEW t \in Threads, ReleaseStep(t) PROVE CallInv'
  <2>1. CASE FindToRelease(t)
    BY <2>1 DEF FindToRelease
  <2>2. CASE DisownLock(t)
    BY <2>2 DEF DisownLock
  <2>3. CASE ShouldRemoveGuard(t)
    BY <2>3 DEF ShouldRemoveGuard
  <2>4. CASE ShouldRemoveOwners(t)
    BY <2>4 DEF ShouldRemoveOwners
  <2>5. CASE GetOperationCount(t)
    BY <2>5 DEF GetOperationCount
  <2>6. CASE RunOperationsOfMutex(t)
    BY <2>6 DEF RunOperationsOfMutex
  <2> QED
    BY <1>1, <2>1, <2>2, <2>3, <2>4, <2>5, <2>6 DEF ReleaseStep
<1>2. ASSUME NEW t \in Threads, AddOperationStep(t) PROVE CallInv'
  <2>1. CASE FindToAddOperation(t)
    BY <2>1 DEF FindToAddOperation
  <2>2. CASE AddOperation(t)
    BY <2>2 DEF AddOperation
  <2> QED
    BY <1>2, <2>1, <2>2 DEF AddOperationStep
<1>3. ASSUME NEW t \in Threads, WrapperStep(t) PROVE CallInv'
  <2>1. CASE WaitLook(t)
    BY <2>1 DEF WaitLook
  <2>2. CASE WaitConvert(t)
    BY <2>2 DEF WaitConvert
  <2>3. CASE WaitTimeout(t)
    BY <2>3 DEF WaitTimeout
  <2>4. CASE Succeed(t)
    BY <2>4 DEF Succeed
  <2> QED
    BY <1>3, <2>1, <2>2, <2>3, <2>4 DEF WrapperStep
<1>4. ASSUME NEW w \in Workers, TaskStep(w), ~UnregisterStep(w) PROVE CallInv'
  BY <1>4 DEF TaskStep, StartTask, TaskRemoveGuard, TaskLock, BeginRunOperations,
     RunOperation, EndRunOperations
<1> QED
  BY <1>1, <1>2, <1>3, <1>4

LEMMA CallInvClient ==
  ASSUME TypeOK, CallInv, NEW t \in Threads, ClientStep(t)
  PROVE  CallInv'
<1> USE ThreadsAreActors
    DEF TypeOK, LockRefs, Goto, CallInv, Recorded, Reordering, Found, ReorderPcs
<1>1. CASE Access(t)
  BY <1>1 DEF Access
<1>2. CASE Destroy(t)
  BY <1>2 DEF Destroy
<1>3. CASE Overwrite(t)
  BY <1>3 DEF Overwrite, trackerVars
<1> QED
  BY <1>1, <1>2, <1>3 DEF ClientStep

LEMMA CallInvNext ==
  ASSUME TypeOK, CallInv, [Next]_vars
  PROVE  CallInv'
<1>1. ASSUME NEW t \in Threads, ClientStep(t) PROVE CallInv'
  BY <1>1, CallInvClient
<1>2. ASSUME NEW t \in Threads, WrapperStep(t) PROVE CallInv'
  BY <1>2, CallInvOthers
<1>3. ASSUME NEW t \in Threads, TrackerStep(t) PROVE CallInv'
  BY <1>3, ThreadsAreActors, CallInvTryAcquire, CallInvReorder, CallInvUnregister,
     CallInvOthers DEF TrackerStep
<1>4. ASSUME NEW w \in Workers, WorkerStep(w) PROVE CallInv'
  BY <1>4, ThreadsAreActors, CallInvUnregister, CallInvOthers DEF WorkerStep
<1>5. CASE UNCHANGED vars
  BY <1>5 DEF vars, trackerVars, CallInv, Recorded, Reordering, Found
<1> QED
  BY <1>1, <1>2, <1>3, <1>4, <1>5 DEF Next

\* Neither max_element in NeedToReset nor the second pass of ReorderAll ever
\* dereferences an end iterator, whatever the clients do and however many there are.
THEOREM ReorderIsSafe == Spec => []ReorderSafe
<1>1. TypeOK /\ CallInv => ReorderSafe
  BY DEF CallInv, Recorded, Reordering, ReorderSafe
<1> QED
  BY InitType, CallInvInit, TypeCorrect, CallInvNext, <1>1, PTL DEF Spec

-----------------------------------------------------------------------------
(***************************************************************************)
(* HeldCoversOwned, for clients that give Access no callback.  (A release  *)
(* that finds operations makes its thread owner of a lock that need not be *)
(* the one it took.)  The lock a thread is about to own is of the mutex it *)
(* asked for and has recorded, and a thread forgets a mutex only after it  *)
(* unregistered the lock, so that it owns nothing registered there since.  *)
(***************************************************************************)

NoOperations ==
  /\ \A o \in LockIds : lock[o].ops = 0
  /\ \A m \in Mutexes : tasks[m] = 0
  /\ \A w \in Workers : pc[w] = "idle"
  /\ \A t \in Threads : ~req[t].op /\ pc[t] \notin {"busy", "addOp", "runOps"}

Placed == \A m \in Mutexes : registry[m] # NoLock => lock[registry[m]].mutex = m

CallPlaced(t) ==
  /\ mdata[t] # NoLock => lock[mdata[t]].mutex = req[t].mutex
  /\ pc[t] \in {"idle", "wait", "waitOwners"} => mdata[t] = NoLock

ForgetsUnowned(t) ==
  pc[t] = "dropHeld" /\ registry[req[t].mutex] # NoLock
  => ~IsOwner(lock[registry[req[t].mutex]], t)

OwnedInv ==
  /\ NoOperations
  /\ Placed
  /\ \A t \in Threads : CallPlaced(t) /\ ForgetsUnowned(t)
  /\ HeldCoversOwned

\* What the steps leave alone in a lock object
SameOwners(k, l) == k.mutex = l.mutex /\ k.owners = l.owners /\ k.ops = l.ops

LEMMA GuardsKeepOwners ==
  ASSUME NEW l \in LockObjects, NEW t
  PROVE  /\ SameOwners(RemoveGuard(l), l)
         /\ SameOwners(EnterCreateGuard(l, t), l)
         /\ SameOwners(LeaveCreateGuard(l), l)
BY DEF SameOwners, RemoveGuard, EnterCreateGuard, LeaveCreateGuard, LockObjects

LEMMA OwnershipOfOthers ==
  ASSUME NEW l \in LockObjects, NEW t \in Threads
  PROVE  /\ CountOwnership(l, t).mutex = l.mutex /\ CountOwnership(l, t).ops = l.ops
         /\ RemoveOwnership(l, t).mutex = l.mutex /\ RemoveOwnership(l, t).ops = l.ops
         /\ \A s \in Threads \ {t} : CountOwnership(l, t).owners[s] = l.owners[s]
         /\ \A s \in Threads : RemoveOwnership(l, t).owners[s] > 0 => l.owners[s] > 0
<1>1. /\ CountOwnership(l, t).mutex = l.mutex /\ CountOwnership(l, t).ops = l.ops
      /\ RemoveOwnership(l, t).mutex = l.mutex /\ RemoveOwnership(l, t).ops = l.ops
  BY DEF CountOwnership, RemoveOwnership, LockObjects
<1>2. \A s \in Threads \ {t} : CountOwnership(l, t).owners[s] = l.owners[s]
  BY DEF CountOwnership, LockObjects
<1>3. ASSUME NEW s \in Threads, RemoveOwnership(l, t).owners[s] > 0
      PROVE  l.owners[s] > 0
  BY <1>3 DEF RemoveOwnership, LockObjects
<1> QED
  BY <1>1, <1>2, <1>3

\* A lock object that is referred to after the step keeps its contents
LEMMA DropKeepsReferenced ==
  ASSUME TypeOK, DropUnreferenced
  PROVE  /\ \A m \in Mutexes : registry'[m] \in LockIds => lock'[registry'[m]] = lock[registry'[m]]
         /\ \A a \in Actors : mdata'[a] \in LockIds => lock'[mdata'[a]] = lock[mdata'[a]]
         /\ NoOperations => \A o \in LockIds : lock'[o].ops = 0
<1>1. \A o \in LockIds : o \in Referenced' => lock'[o] = lock[o]
  BY DEF DropUnreferenced
<1>2. \A o \in LockIds : lock'[o] = lock[o] \/ lock'[o] = Freed
  BY DEF DropUnreferenced
<1>3. Freed.ops = 0
  BY DEF Freed, NewLock
<1> QED
  BY <1>1, <1>2, <1>3 DEF Referenced, NoOperations

LEMMA OwnedInvInit == Init => OwnedInv
<1> SUFFICES ASSUME Init PROVE OwnedInv
  OBVIOUS
<1> USE ThreadsAreActors DEF Init, TrackerInit
<1>1. NoOperations
  BY DEF NoOperations, Freed, NewLock
<1>2. Placed /\ HeldCoversOwned
  BY DEF Placed, HeldCoversOwned
<1>3. \A t \in Threads : CallPlaced(t) /\ ForgetsUnowned(t)
  BY DEF CallPlaced, ForgetsUnowned
<1> QED
  BY <1>1, <1>2, <1>3 DEF OwnedInv

\* Most steps of a thread leave registrations, owners and requests alone
QuietStep(t) ==
  /\ UNCHANGED <<registry, req, tasks>>
  /\ \A s \in Threads, m \in Mutexes : m \in held[s] /\ registry[m] # NoLock => m \in held'[s]
  /\ \A o \in LockIds : SameOwners(lock'[o], lock[o])
  /\ mdata'[t] \in {mdata[t], NoLock}
  /\ \A s \in Threads \ {t} : mdata'[s] = mdata[s]
  /\ \A a \in Actors \ {t} : pc'[a] = pc[a]
  /\ pc'[t] \notin {"busy", "addOp", "runOps", "dropHeld"}
  /\ pc'[t] \in {"idle", "wait", "waitOwners"} => mdata'[t] = NoLock

LEMMA QuietKeepsOwnedInv ==
  ASSUME TypeOK, OwnedInv, NEW t \in Threads, QuietStep(t)
  PROVE  OwnedInv'
<1> USE ThreadsAreActors, TrackerAssumption
    DEF TypeOK, LockRefs, OwnedInv, QuietStep, SameOwners, IsOwner
<1>1. NoOperations'
  BY DEF NoOperations
<1>2. Placed'
  BY DEF Placed
<1>3. ASSUME NEW s \in Threads PROVE CallPlaced(s)'
  <2>1. mdata[s] \in LockIds => lock'[mdata[s]].mutex = lock[mdata[s]].mutex
    OBVIOUS
  <2>2. CASE s = t
    BY <2>1, <2>2 DEF CallPlaced
  <2>3. CASE s # t
    BY <2>1, <2>3 DEF CallPlaced
  <2> QED
    BY <2>2, <2>3
<1>4. ASSUME NEW s \in Threads PROVE ForgetsUnowned(s)'
  BY DEF ForgetsUnowned
<1>5. HeldCoversOwned'
  BY DEF HeldCoversOwned
<1> QED
  BY <1>1, <1>2, <1>3, <1>4, <1>5

LEMMA OwnedInvTryAcquire ==
  ASSUME TypeOK, CallInv, OwnedInv, NEW t \in Threads, TryAcquireStep(t)
  PROVE  OwnedInv'
<1>0. /\ \A o \in LockIds : SameOwners(lock[o], lock[o])
      /\ t \in Actors /\ pc \in [Actors -> PcLabels] /\ mdata \in [Actors -> LockRefs]
      /\ held \in [Actors -> SUBSET Mutexes]
  BY ThreadsAreActors DEF SameOwners, TypeOK
<1>1. CASE GetLockData(t)
  <2>1. NoOperations'
    BY <1>0, <1>1 DEF GetLockData, Goto, OwnedInv, NoOperations
  <2>2. Placed' /\ HeldCoversOwned'
    BY <1>1 DEF GetLockData, OwnedInv, Placed, HeldCoversOwned
  <2>3. ASSUME NEW s \in Threads PROVE CallPlaced(s)' /\ ForgetsUnowned(s)'
    BY <1>0, <1>1, ThreadsAreActors
       DEF GetLockData, Goto, OwnedInv, Placed, CallPlaced, ForgetsUnowned, TypeOK
  <2> QED
    BY <2>1, <2>2, <2>3 DEF OwnedInv
<1>2. CASE CanAcquire(t)
  <2>1. QuietStep(t)
    BY <1>0, <1>2, ThreadsAreActors DEF CanAcquire, Cannot, Goto, QuietStep
  <2> QED
    BY <2>1, QuietKeepsOwnedInv
<1>3. CASE CanConvert(t)
  <2>1. QuietStep(t)
    BY <1>0, <1>3, ThreadsAreActors DEF CanConvert, Cannot, Goto, QuietStep
  <2> QED
    BY <2>1, QuietKeepsOwnedInv
<1>4. CASE RegisterMutex(t)
  <2> DEFINE m == req[t].mutex
             new == NewLock(m, req[t].type)
  <2>1. /\ FreshLock \in LockIds /\ FreshLock \notin Referenced
        /\ registry' = [registry EXCEPT ![m] = FreshLock]
        /\ lock' = [lock EXCEPT ![FreshLock] = new]
        /\ held' = [held EXCEPT ![t] = @ \cup {m}]
        /\ pc' = [pc EXCEPT ![t] = "guard"]
        /\ UNCHANGED <<req, mdata, tasks>>
    BY <1>4 DEF RegisterMutex, Goto
  <2>2. new.mutex = m /\ new.ops = 0 /\ \A s \in Threads : ~IsOwner(new, s)
    BY DEF NewLock, IsOwner
  <2>3. m \in Mutexes
    BY <1>0 DEF TypeOK
  <2>4. /\ lock'[FreshLock] = new
        /\ registry'[m] = FreshLock
        /\ \A k \in Mutexes \ {m} : registry'[k] = registry[k]
        /\ \A o \in LockIds \ {FreshLock} : lock'[o] = lock[o]
    BY <2>1, <2>3 DEF TypeOK
  <2>5. \A k \in Mutexes \ {m} : registry[k] # NoLock => lock'[registry[k]] = lock[registry[k]]
    BY <2>1, <2>4 DEF TypeOK, LockRefs, Referenced
  <2>6. \A s \in Threads : mdata[s] # NoLock => lock'[mdata[s]] = lock[mdata[s]]
    BY <2>1, <2>4, ThreadsAreActors DEF TypeOK, LockRefs, Referenced
  <2>7. NoOperations'
    <3>1. \A o \in LockIds : lock'[o].ops = 0
      BY <2>2, <2>4 DEF OwnedInv, NoOperations
    <3>2. /\ \A w \in Workers : pc'[w] = "idle"
          /\ \A s \in Threads : pc'[s] \notin {"busy", "addOp", "runOps"}
      BY <1>0, <2>1, TrackerAssumption, ThreadsAreActors DEF OwnedInv, NoOperations
    <3> QED
      BY <2>1, <3>1, <3>2 DEF OwnedInv, NoOperations
  <2>8. Placed'
    BY <2>2, <2>4, <2>5 DEF OwnedInv, Placed
  <2>9. ASSUME NEW s \in Threads PROVE CallPlaced(s)'
    BY <1>0, <2>1, <2>6, ThreadsAreActors DEF OwnedInv, CallPlaced
  <2>10. ASSUME NEW s \in Threads PROVE ForgetsUnowned(s)'
    <3>1. CASE s = t
      BY <1>0, <2>1, <3>1 DEF ForgetsUnowned
    <3>2. CASE s # t /\ req[s].mutex = m
      BY <2>1, <2>2, <2>4, <3>2 DEF ForgetsUnowned
    <3>3. CASE s # t /\ req[s].mutex # m
      <4>1. req[s].mutex \in Mutexes \ {m} /\ pc'[s] = pc[s] /\ req'[s] = req[s]
        BY <1>0, <2>1, <3>3, ThreadsAreActors DEF TypeOK
      <4> QED
        BY <2>4, <2>5, <4>1 DEF OwnedInv, ForgetsUnowned
    <3> QED
      BY <3>1, <3>2, <3>3
  <2>11. HeldCoversOwned'
    BY <1>0, <2>1, <2>2, <2>4, <2>5, ThreadsAreActors DEF OwnedInv, HeldCoversOwned
  <2> QED
    BY <2>7, <2>8, <2>9, <2>10, <2>11 DEF OwnedInv
<1>5. CASE RegisterFails(t)
  <2>1. \A o \in LockIds : lock'[o].ops = 0
    BY <1>5, DropKeepsReferenced DEF RegisterFails, OwnedInv
  <2>2. /\ \A m \in Mutexes : registry[m] # NoLock => lock'[registry[m]] = lock[registry[m]]
        /\ \A s \in Threads : mdata'[s] # NoLock => mdata'[s] = mdata[s] /\ lock'[mdata[s]] = lock[mdata[s]]
    BY <1>0, <1>5, DropKeepsReferenced, ThreadsAreActors DEF RegisterFails, TypeOK, LockRefs
  <2>3. ~req[t].op
    BY DEF OwnedInv, NoOperations
  <2>4. NoOperations'
    BY <1>0, <1>5, <2>1, <2>3, ThreadsAreActors DEF RegisterFails, Goto, OwnedInv, NoOperations
  <2>5. Placed' /\ HeldCoversOwned'
    BY <1>5, <2>2 DEF RegisterFails, OwnedInv, Placed, HeldCoversOwned
  <2>6. ASSUME NEW s \in Threads PROVE CallPlaced(s)'
    BY <1>0, <1>5, <2>2, <2>3, ThreadsAreActors DEF RegisterFails, Goto, OwnedInv, CallPlaced
  <2>7. ASSUME NEW s \in Threads PROVE ForgetsUnowned(s)'
    BY <1>0, <1>5, <2>2, <2>3, ThreadsAreActors
       DEF RegisterFails, Goto, OwnedInv, ForgetsUnowned, TypeOK
  <2> QED
    BY <2>4, <2>5, <2>6, <2>7 DEF OwnedInv
<1>6. CASE AddToHeldLocks(t)
  <2>1. QuietStep(t)
    BY <1>0, <1>6, ThreadsAreActors DEF AddToHeldLocks, Goto, QuietStep
  <2> QED
    BY <2>1, QuietKeepsOwnedInv
<1>7. CASE AcquireLock(t)
  <2>1. \A o \in LockIds : SameOwners(lock'[o], lock[o])
    <3>1. CASE UNCHANGED lock
      BY <1>0, <3>1
    <3>2. CASE lock' = [lock EXCEPT ![Target(t)] = EnterCreateGuard(@, t)]
      BY <1>0, <3>2, GuardsKeepOwners DEF TypeOK
    <3> QED
      BY <1>7, <3>1, <3>2 DEF AcquireLock
  <2>2. QuietStep(t)
    BY <1>0, <1>7, <2>1, ThreadsAreActors DEF AcquireLock, Goto, QuietStep
  <2> QED
    BY <2>2, QuietKeepsOwnedInv
<1>8. CASE LockGranted(t)
  <2>1. \A o \in LockIds : SameOwners(lock'[o], lock[o])
    BY <1>0, <1>8, GuardsKeepOwners DEF LockGranted, TypeOK
  <2>2. QuietStep(t)
    BY <1>0, <1>8, <2>1, ThreadsAreActors DEF LockGranted, Goto, QuietStep
  <2> QED
    BY <2>2, QuietKeepsOwnedInv
<1>9. CASE OwnLock(t)
  <2>1. /\ lock' = [lock EXCEPT ![Target(t)] = CountOwnership(@, t)]
        /\ pc' = [pc EXCEPT ![t] = IF req[t].type = "Write" THEN "reset" ELSE "success"]
        /\ UNCHANGED <<registry, held, req, mdata, tasks>>
        /\ pc[t] = "own"
    BY <1>9 DEF OwnLock, Goto
  <2>2. \A o \in LockIds : /\ lock'[o].mutex = lock[o].mutex /\ lock'[o].ops = lock[o].ops
                           /\ \A s \in Threads \ {t} : lock'[o].owners[s] = lock[o].owners[s]
                           /\ o # Target(t) => lock'[o] = lock[o]
    BY <2>1, OwnershipOfOthers DEF TypeOK
  <2>3. NoOperations'
    BY <1>0, <2>1, <2>2, ThreadsAreActors DEF OwnedInv, NoOperations
  <2>4. Placed'
    BY <2>1, <2>2 DEF OwnedInv, Placed, TypeOK, LockRefs
  <2>5. ASSUME NEW s \in Threads PROVE CallPlaced(s)'
    BY <1>0, <2>1, <2>2, ThreadsAreActors DEF OwnedInv, CallPlaced, TypeOK, LockRefs
  <2>6. ASSUME NEW s \in Threads PROVE ForgetsUnowned(s)'
    <3>1. CASE s = t
      BY <1>0, <2>1, <3>1 DEF ForgetsUnowned
    <3>2. CASE s # t
      BY <1>0, <2>1, <2>2, <3>2, ThreadsAreActors
         DEF OwnedInv, ForgetsUnowned, TypeOK, LockRefs, IsOwner
    <3> QED
      BY <3>1, <3>2
  <2>7. HeldCoversOwned'
    <3>1. req[t].mutex \in held[t]
      BY <2>1 DEF CallInv, Recorded
    <3>2. ASSUME NEW m \in Mutexes, registry[m] # NoLock, registry[m] = Target(t)
          PROVE  m = req[t].mutex
      <4>1. lock[registry[m]].mutex = m
        BY <3>2 DEF OwnedInv, Placed
      <4>2. CASE dataLock = t
        <5>1. req[t].mutex \in Mutexes /\ registry[req[t].mutex] = registry[m]
          BY <1>0, <3>2, <4>2 DEF Target, TypeOK
        <5> QED
          BY <3>2, <4>1, <5>1 DEF OwnedInv, Placed
      <4>3. CASE dataLock # t
        BY <3>2, <4>1, <4>3 DEF Target, OwnedInv, CallPlaced
      <4> QED
        BY <4>2, <4>3
    <3> QED
      BY <2>1, <2>2, <3>1, <3>2 DEF OwnedInv, HeldCoversOwned, TypeOK, LockRefs, IsOwner
  <2> QED
    BY <2>3, <2>4, <2>5, <2>6, <2>7 DEF OwnedInv
<1>10. CASE NeedToReset(t)
  <2>1. QuietStep(t)
    BY <1>0, <1>10, ThreadsAreActors DEF NeedToReset, Goto, QuietStep
  <2> QED
    BY <2>1, QuietKeepsOwnedInv
<1> QED
  BY <1>1, <1>2, <1>3, <1>4, <1>5, <1>6, <1>7, <1>8, <1>9, <1>10 DEF TryAcquireStep

LEMMA OwnedInvReorder ==
  ASSUME TypeOK, CallInv, OwnedInv, NEW t \in Threads, ReorderStep(t)
  PROVE  OwnedInv'
<1>0. /\ \A o \in LockIds : SameOwners(lock[o], lock[o])
      /\ t \in Actors /\ pc \in [Actors -> PcLabels] /\ held \in [Actors -> SUBSET Mutexes]
  BY ThreadsAreActors DEF SameOwners, TypeOK
<1> SUFFICES QuietStep(t)
  BY QuietKeepsOwnedInv
<1> USE ThreadsAreActors DEF QuietStep, Goto
<1>1. CASE BeginReorder(t)
  BY <1>0, <1>1 DEF BeginReorder, Garbage
<1>2. CASE ReorderRemoveGuard(t)
  <2>1. \A o \in LockIds : SameOwners(lock'[o], lock[o])
    <3>1. PICK k \in todo[t] : lock' = [lock EXCEPT ![registry[k]] = RemoveGuard(@)]
      BY <1>2 DEF ReorderRemoveGuard
    <3> QED
      BY <1>0, <3>1, GuardsKeepOwners DEF TypeOK
  <2> QED
    BY <1>0, <1>2, <2>1 DEF ReorderRemoveGuard
<1>3. CASE ReorderSort(t)
  BY <1>0, <1>3 DEF ReorderSort
<1>4. CASE ReorderCreateGuard(t)
  <2>1. \A o \in LockIds : SameOwners(lock'[o], lock[o])
    BY <1>0, <1>4, GuardsKeepOwners DEF ReorderCreateGuard, TypeOK
  <2> QED
    BY <1>0, <1>4, <2>1 DEF ReorderCreateGuard
<1>5. CASE ReorderLockGranted(t)
  <2>1. \A o \in LockIds : SameOwners(lock'[o], lock[o])
    BY <1>0, <1>5, GuardsKeepOwners DEF ReorderLockGranted, TypeOK
  <2> QED
    BY <1>0, <1>5, <2>1 DEF ReorderLockGranted
<1>6. CASE EndReorder(t)
  BY <1>0, <1>6 DEF EndReorder
<1> QED
  BY <1>1, <1>2, <1>3, <1>4, <1>5, <1>6 DEF ReorderStep

LEMMA OwnedInvRelease ==
  ASSUME TypeOK, CallInv, OwnedInv, NEW t \in Threads, ReleaseStep(t)
  PROVE  OwnedInv'
<1>0. /\ \A o \in LockIds : SameOwners(lock[o], lock[o])
      /\ t \in Actors /\ pc \in [Actors -> PcLabels]
  BY ThreadsAreActors DEF SameOwners, TypeOK
<1>1. CASE FindToRelease(t)
  <2>1. QuietStep(t)
    BY <1>0, <1>1, ThreadsAreActors DEF QuietStep, Goto, FindToRelease
  <2> QED
    BY <2>1, QuietKeepsOwnedInv
<1>2. CASE DisownLock(t)
  <2>1. /\ lock' = [lock EXCEPT ![rdata[t]] = RemoveOwnership(@, t)]
        /\ pc' = [pc EXCEPT ![t] = "should"]
        /\ UNCHANGED <<registry, held, req, mdata, tasks>>
    BY <1>2 DEF DisownLock, Goto
  <2>2. \A o \in LockIds :
          /\ lock'[o].mutex = lock[o].mutex /\ lock'[o].ops = lock[o].ops
          /\ \A s \in Threads : lock'[o].owners[s] > 0 => lock[o].owners[s] > 0
    BY <2>1, OwnershipOfOthers DEF TypeOK
  <2>3. NoOperations'
    <3>1. \A a \in Actors \ {t} : pc'[a] = pc[a]
      BY <1>0, <2>1
    <3> QED
      BY <1>0, <2>1, <2>2, <3>1, ThreadsAreActors, TrackerAssumption DEF OwnedInv, NoOperations
  <2>4. Placed' /\ HeldCoversOwned'
    BY <2>1, <2>2 DEF OwnedInv, Placed, HeldCoversOwned, IsOwner, TypeOK, LockRefs
  <2>5. ASSUME NEW s \in Threads PROVE CallPlaced(s)' /\ ForgetsUnowned(s)'
    <3>1. CallPlaced(s)'
      BY <1>0, <2>1, <2>2, ThreadsAreActors DEF OwnedInv, CallPlaced, TypeOK, LockRefs
    <3>2. ForgetsUnowned(s)'
      <4>1. req[s].mutex \in Mutexes
        BY ThreadsAreActors DEF TypeOK
      <4>2. pc'[s] = "dropHeld" => pc[s] = "dropHeld"
        BY <1>0, <2>1, ThreadsAreActors
      <4> QED
        BY <2>1, <2>2, <4>1, <4>2 DEF OwnedInv, ForgetsUnowned, IsOwner, TypeOK, LockRefs
    <3> QED
      BY <3>1, <3>2
  <2> QED
    BY <2>3, <2>4, <2>5 DEF OwnedInv
<1>3. CASE ShouldRemoveGuard(t)
  <2>1. QuietStep(t)
    BY <1>0, <1>3, ThreadsAreActors DEF QuietStep, Goto, ShouldRemoveGuard
  <2> QED
    BY <2>1, QuietKeepsOwnedInv
<1>4. CASE ShouldRemoveOwners(t)
  <2>1. QuietStep(t)
    BY <1>0, <1>4, ThreadsAreActors DEF QuietStep, Goto, ShouldRemoveOwners
  <2> QED
    BY <2>1, QuietKeepsOwnedInv
<1>5. CASE GetOperationCount(t)
  <2>1. rdata[t] \in LockIds
    BY <1>0, <1>5 DEF GetOperationCount, CallInv, Found, TypeOK, LockRefs
  <2>2. ~(lock[rdata[t]].ops > 0)
    BY <2>1 DEF OwnedInv, NoOperations
  <2>3. QuietStep(t)
    BY <1>0, <1>5, <2>2, ThreadsAreActors DEF QuietStep, Goto, GetOperationCount
  <2> QED
    BY <2>3, QuietKeepsOwnedInv
<1>6. CASE RunOperationsOfMutex(t)
  BY <1>6 DEF RunOperationsOfMutex, OwnedInv, NoOperations
<1> QED
  BY <1>1, <1>2, <1>3, <1>4, <1>5, <1>6 DEF ReleaseStep

LEMMA OwnedInvUnregister ==
  ASSUME TypeOK, CallInv, OwnedInv, NEW t \in Threads, UnregisterStep(t)
  PROVE  OwnedInv'
<1>0. /\ t \in Actors /\ pc \in [Actors -> PcLabels] /\ held \in [Actors -> SUBSET Mutexes]
      /\ req[t].mutex \in Mutexes
  BY ThreadsAreActors DEF TypeOK
<1>1. CASE RemoveFromMutexes(t)
  <2>1. /\ registry' = [registry EXCEPT ![req[t].mutex] = NoLock]
        /\ pc' = [pc EXCEPT ![t] = "dropHeld"]
        /\ pc[t] = "unregister"
        /\ UNCHANGED <<held, req, mdata, tasks>>
        /\ DropUnreferenced
    BY <1>1 DEF RemoveFromMutexes, Goto
  <2>2. /\ \A o \in LockIds : lock'[o].ops = 0
        /\ \A m \in Mutexes : registry'[m] # NoLock =>
             registry'[m] = registry[m] /\ lock'[registry[m]] = lock[registry[m]]
        /\ \A s \in Threads : mdata[s] # NoLock => lock'[mdata[s]] = lock[mdata[s]]
    BY <1>0, <2>1, DropKeepsReferenced, ThreadsAreActors DEF OwnedInv, TypeOK, LockRefs
  <2>3. NoOperations'
    <3>1. \A a \in Actors \ {t} : pc'[a] = pc[a]
      BY <1>0, <2>1
    <3> QED
      BY <1>0, <2>1, <2>2, <3>1, ThreadsAreActors, TrackerAssumption DEF OwnedInv, NoOperations
  <2>4. Placed' /\ HeldCoversOwned'
    BY <2>1, <2>2 DEF OwnedInv, Placed, HeldCoversOwned
  <2>5. ASSUME NEW s \in Threads PROVE CallPlaced(s)'
    BY <1>0, <2>1, <2>2, ThreadsAreActors DEF OwnedInv, CallPlaced
  <2>6. ASSUME NEW s \in Threads PROVE ForgetsUnowned(s)'
    <3>1. registry'[req[t].mutex] = NoLock
      BY <1>0, <2>1 DEF TypeOK
    <3>2. req[s].mutex \in Mutexes
      BY ThreadsAreActors DEF TypeOK
    <3>3. s # t => pc'[s] = pc[s]
      BY <1>0, <2>1, ThreadsAreActors
    <3> QED
      BY <2>1, <2>2, <3>1, <3>2, <3>3 DEF OwnedInv, ForgetsUnowned
  <2> QED
    BY <2>3, <2>4, <2>5, <2>6 DEF OwnedInv
<1>2. CASE RemoveFromHeldLocks(t)
  <2>1. \A o \in LockIds : SameOwners(lock'[o], lock[o])
    BY <1>2 DEF RemoveFromHeldLocks, SameOwners
  <2>2. ASSUME NEW s \in Threads, NEW m \in Mutexes, m \in held[s], registry[m] # NoLock,
               IsOwner(lock[registry[m]], s)
        PROVE  m \in held'[s]
    <3>1. s = t => m # req[t].mutex
      BY <1>2, <2>2 DEF RemoveFromHeldLocks, OwnedInv, ForgetsUnowned
    <3> QED
      BY <1>0, <1>2, <2>2, <3>1, ThreadsAreActors DEF RemoveFromHeldLocks
  <2>3. NoOperations' /\ Placed'
    BY <1>0, <1>2, ThreadsAreActors, TrackerAssumption
       DEF RemoveFromHeldLocks, Goto, OwnedInv, NoOperations, Placed
  <2>4. HeldCoversOwned'
    BY <1>2, <2>2 DEF RemoveFromHeldLocks, OwnedInv, HeldCoversOwned
  <2>5. ASSUME NEW s \in Threads PROVE CallPlaced(s)' /\ ForgetsUnowned(s)'
    BY <1>0, <1>2, ThreadsAreActors
       DEF RemoveFromHeldLocks, Goto, OwnedInv, CallPlaced, ForgetsUnowned
  <2> QED
    BY <2>3, <2>4, <2>5 DEF OwnedInv
<1>3. CASE ReturnFromRelease(t)
  <2>1. /\ pc' = [pc EXCEPT ![t] = IF mdata[t] # NoLock THEN "register"
                                   ELSE IF wdata[t] # NoLock THEN "get" ELSE "idle"]
        /\ UNCHANGED <<registry, held, req, mdata, tasks>>
        /\ DropUnreferenced
    BY <1>3 DEF ReturnFromRelease, Goto
  <2>2. /\ \A o \in LockIds : lock'[o].ops = 0
        /\ \A m \in Mutexes : registry[m] # NoLock => lock'[registry[m]] = lock[registry[m]]
        /\ \A s \in Threads : mdata[s] # NoLock => lock'[mdata[s]] = lock[mdata[s]]
    BY <2>1, DropKeepsReferenced, ThreadsAreActors DEF OwnedInv, TypeOK, LockRefs
  <2>3. NoOperations'
    <3>1. \A a \in Actors \ {t} : pc'[a] = pc[a]
      BY <1>0, <2>1
    <3> QED
      BY <1>0, <2>1, <2>2, <3>1, ThreadsAreActors, TrackerAssumption DEF OwnedInv, NoOperations
  <2>4. Placed' /\ HeldCoversOwned'
    BY <2>1, <2>2 DEF OwnedInv, Placed, HeldCoversOwned
  <2>5. ASSUME NEW s \in Threads PROVE CallPlaced(s)' /\ ForgetsUnowned(s)'
    BY <1>0, <2>1, <2>2, ThreadsAreActors DEF OwnedInv, CallPlaced, ForgetsUnowned, TypeOK
  <2> QED
    BY <2>3, <2>4, <2>5 DEF OwnedInv
<1> QED
  BY <1>1, <1>2, <1>3 DEF UnregisterStep

LEMMA OwnedInvWrapper ==
  ASSUME TypeOK, OwnedInv, NEW t \in Threads, WrapperStep(t)
  PROVE  OwnedInv'
<1>0. /\ \A o \in LockIds : SameOwners(lock[o], lock[o])
      /\ t \in Actors /\ pc \in [Actors -> PcLabels]
  BY ThreadsAreActors DEF SameOwners, TypeOK
<1>1. CASE WaitLook(t)
  <2>1. QuietStep(t)
    BY <1>0, <1>1, ThreadsAreActors DEF QuietStep, Goto, WaitLook, OwnedInv, CallPlaced
  <2> QED
    BY <2>1, QuietKeepsOwnedInv
<1>2. CASE WaitConvert(t)
  <2>1. QuietStep(t)
    BY <1>0, <1>2, ThreadsAreActors DEF QuietStep, Goto, WaitConvert, OwnedInv, CallPlaced
  <2> QED
    BY <2>1, QuietKeepsOwnedInv
<1>3. CASE WaitTimeout(t) \/ Succeed(t)
  <2>1. /\ pc' = [pc EXCEPT ![t] = "idle"]
        /\ UNCHANGED <<registry, held, req, tasks>>
        /\ \A s \in Threads \ {t} : mdata'[s] = mdata[s]
        /\ DropUnreferenced
    BY <1>0, <1>3, ThreadsAreActors DEF WaitTimeout, Succeed, Goto, TypeOK
  <2>2. mdata'[t] = NoLock
    BY <1>0, <1>3 DEF WaitTimeout, Succeed, OwnedInv, CallPlaced, TypeOK
  <2>3. /\ \A o \in LockIds : lock'[o].ops = 0
        /\ \A m \in Mutexes : registry[m] # NoLock => lock'[registry[m]] = lock[registry[m]]
        /\ \A s \in Threads \ {t} : mdata[s] # NoLock => lock'[mdata[s]] = lock[mdata[s]]
    BY <2>1, DropKeepsReferenced, ThreadsAreActors DEF OwnedInv, TypeOK, LockRefs
  <2>4. NoOperations'
    <3>1. \A a \in Actors \ {t} : pc'[a] = pc[a]
      BY <1>0, <2>1
    <3> QED
      BY <1>0, <2>1, <2>3, <3>1, ThreadsAreActors, TrackerAssumption DEF OwnedInv, NoOperations
  <2>5. Placed' /\ HeldCoversOwned'
    BY <2>1, <2>3 DEF OwnedInv, Placed, HeldCoversOwned
  <2>6. ASSUME NEW s \in Threads PROVE CallPlaced(s)' /\ ForgetsUnowned(s)'
    <3>1. CASE s = t
      BY <1>0, <2>1, <2>2, <3>1 DEF CallPlaced, ForgetsUnowned
    <3>2. CASE s # t
      <4>1. pc'[s] = pc[s] /\ req[s].mutex \in Mutexes
        BY <1>0, <2>1, <3>2, ThreadsAreActors DEF TypeOK
      <4> QED
        BY <2>1, <2>3, <3>2, <4>1 DEF OwnedInv, CallPlaced, ForgetsUnowned
    <3> QED
      BY <3>1, <3>2
  <2> QED
    BY <2>4, <2>5, <2>6 DEF OwnedInv
<1> QED
  BY <1>1, <1>2, <1>3 DEF WrapperStep

LEMMA OwnedInvClient ==
  ASSUME "ops" \notin Features, TypeOK, OwnedInv, NEW t \in Threads, ClientStep(t)
  PROVE  OwnedInv'
<1>0. /\ t \in Actors /\ pc \in [Actors -> PcLabels]
      /\ req \in [Actors -> [mutex : Mutexes, type : Types, op : BOOLEAN]]
  BY ThreadsAreActors DEF TypeOK
<1>1. CASE Access(t) \/ Destroy(t)
  <2>1. PICK m \in Mutexes, ty \in Types :
          req' = [req EXCEPT ![t] = [mutex |-> m, type |-> ty, op |-> FALSE]]
    BY <1>1 DEF Access, Destroy, MayQueue
  <2>2. /\ pc' = [pc EXCEPT ![t] = "get"] \/ pc' = [pc EXCEPT ![t] = "release"]
        /\ pc[t] = "idle"
        /\ UNCHANGED <<registry, lock, held, mdata, tasks>>
    BY <1>1 DEF Access, Destroy, Goto
  <2>3. \A s \in Threads \ {t} : req'[s] = req[s] /\ pc'[s] = pc[s]
    BY <1>0, <2>1, <2>2, ThreadsAreActors
  <2>4. ~req'[t].op /\ pc'[t] \in {"get", "release"} /\ mdata[t] = NoLock
    BY <1>0, <2>1, <2>2 DEF OwnedInv, CallPlaced
  <2>5. NoOperations'
    BY <1>0, <2>2, <2>3, <2>4, ThreadsAreActors, TrackerAssumption DEF OwnedInv, NoOperations
  <2>6. Placed' /\ HeldCoversOwned'
    BY <2>2 DEF OwnedInv, Placed, HeldCoversOwned
  <2>7. ASSUME NEW s \in Threads PROVE CallPlaced(s)' /\ ForgetsUnowned(s)'
    BY <2>2, <2>3, <2>4 DEF OwnedInv, CallPlaced, ForgetsUnowned
  <2> QED
    BY <2>5, <2>6, <2>7 DEF OwnedInv
<1>2. CASE Overwrite(t)
  BY <1>2 DEF Overwrite, trackerVars, OwnedInv, NoOperations, Placed, CallPlaced,
     ForgetsUnowned, HeldCoversOwned
<1> QED
  BY <1>1, <1>2 DEF ClientStep

LEMMA NoOperationNoTask ==
  ASSUME OwnedInv
  PROVE  /\ \A t \in Threads : ~AddOperationStep(t)
         /\ \A w \in Workers : ~TaskStep(w)
<1>1. ASSUME NEW t \in Threads PROVE ~AddOperationStep(t)
  BY DEF OwnedInv, NoOperations, AddOperationStep, FindToAddOperation, AddOperation
<1>2. ASSUME NEW w \in Workers PROVE ~TaskStep(w)
  BY DEF OwnedInv, NoOperations, TaskStep, StartTask, TaskRemoveGuard, TaskLock,
     BeginRunOperations, RunOperation, EndRunOperations, UnregisterStep, RemoveFromMutexes,
     RemoveFromHeldLocks, ReturnFromRelease
<1> QED
  BY <1>1, <1>2

LEMMA OwnedInvNext ==
  ASSUME "ops" \notin Features, TypeOK, CallInv, OwnedInv, [Next]_vars
  PROVE  OwnedInv'
<1>1. ASSUME NEW t \in Threads, ClientStep(t) PROVE OwnedInv'
  BY <1>1, OwnedInvClient
<1>2. ASSUME NEW t \in Threads, WrapperStep(t) PROVE OwnedInv'
  BY <1>2, OwnedInvWrapper
<1>3. ASSUME NEW t \in Threads, TrackerStep(t) PROVE OwnedInv'
  BY <1>3, OwnedInvTryAcquire, OwnedInvReorder, OwnedInvRelease, OwnedInvUnregister,
     NoOperationNoTask DEF TrackerStep
<1>4. ASSUME NEW w \in Workers, WorkerStep(w) PROVE FALSE
  BY <1>4, NoOperationNoTask DEF WorkerStep
<1>5. CASE UNCHANGED vars
  BY <1>5 DEF vars, trackerVars, OwnedInv, NoOperations, Placed, CallPlaced,
     ForgetsUnowned, HeldCoversOwned
<1> QED
  BY <1>1, <1>2, <1>3, <1>4, <1>5 DEF Next

LEMMA OwnedInvariant ==
  ASSUME "ops" \notin Features
  PROVE  Spec => []OwnedInv
BY OwnedInvInit, OwnedInvNext, InitType, CallInvInit, TypeCorrect, CallInvNext, PTL DEF Spec

\* With clients that give no callback, ReorderAll always finds the guards it
\* has to drop: m_heldLocks names every mutex whose registered lock counts the
\* thread as an owner, through every race of a release with a late joiner,
\* every conversion and every overwritten wrapper.
THEOREM OwnersAreRecorded ==
  ASSUME "ops" \notin Features
  PROVE  Spec => []HeldCoversOwned
<1>1. OwnedInv => HeldCoversOwned
  BY DEF OwnedInv
<1> QED
  BY <1>1, OwnedInvariant, PTL

=============================================================================
