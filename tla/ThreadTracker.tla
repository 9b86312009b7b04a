---------------------------- MODULE ThreadTracker ----------------------------
(***************************************************************************)
(* CNewThreadTracker (Source/Improved/thread_tracker.h): the registry of   *)
(* lock objects, the mutexes each thread is recorded to hold, and the      *)
(* calls TryAcquireLock, ReleaseLock and RunOperationsOfMutex.             *)
(*                                                                         *)
(* Grain: one step per critical section of m_mutexData, m_mutexHelds,      *)
(* m_classMutex and m_operationMutex, since another thread can run between *)
(* any two of them.  A section that blocks on the data's shared_mutex, and *)
(* so keeps the tracker's own mutexes, is split at the point it blocks.    *)
(***************************************************************************)
EXTENDS LockTypes

CONSTANTS Workers,   \* threads on which the task service runs "Operations_" tasks
          LockIds,   \* addresses of lock objects on the heap
          NoLock     \* the null shared_ptr

Actors == Threads \cup Workers

ASSUME TrackerAssumption ==
  /\ Threads \cap Workers = {}
  /\ NoThread \notin Workers
  /\ NoLock \notin LockIds

VARIABLES
  registry,  \* m_mutexes: the lock object registered for a mutex
  lock,      \* the lock objects on the heap
  held,      \* m_heldLocks: the vector of each thread, as a set
  dataLock,  \* the thread that keeps m_mutexData while it blocks or reorders
  pc,        \* where each thread is
  req,       \* the access or release it works on: mutex, type, an ifBusy callback
  mdata,     \* TryAcquireLock's mData
  wdata,     \* the wrapper constructor's lockData (a second attempt has one)
  rdata,     \* ReleaseLock's mutexData and iLock; a task's mutexInfo
  todo,      \* mutexes a pass of ReorderAll has still to visit
  tasks      \* tasks handed to the task service and not yet started

refVars == <<mdata, wdata, rdata>>
trackerVars == <<registry, lock, held, dataLock, pc, req, mdata, wdata, rdata, todo, tasks>>

-----------------------------------------------------------------------------
(* Shared pointers and the data's shared_mutex *)

Referenced ==
  {registry[m] : m \in Mutexes} \cup {mdata[a] : a \in Actors}
    \cup {wdata[a] : a \in Actors} \cup {rdata[a] : a \in Actors}

\* What is left at the address of a destroyed lock object
Freed == NewLock(CHOOSE m \in Mutexes : TRUE, "Read")

\* A step that drops a shared_ptr destroys the lock objects nothing refers to
\* any more, and with them their guards.
DropUnreferenced ==
  lock' = [o \in LockIds |-> IF o \in Referenced' THEN lock[o] ELSE Freed]

\* make_shared: some unused address (which one is immaterial)
FreshLock == CHOOSE o \in LockIds : o \notin Referenced

Goto(a, l) == pc' = [pc EXCEPT ![a] = l]

\* A task of a Read lock holds lockMute, its own exclusive lock on the data's mutex
Converts(w, m) == /\ pc[w] \in {"opsWait", "opsRun"}
                  /\ lock[rdata[w]].type = "Read"
                  /\ req[w].mutex = m

\* lock() or lock_shared() on the data's mutex returns
Grantable(m, ty) ==
  /\ \A p \in LockIds : lock[p].guard /\ lock[p].mutex = m => ty = "Read" /\ lock[p].type = "Read"
  /\ \A w \in Workers : ~Converts(w, m)

\* Only ReorderAll keeps m_mutexHelds while it blocks
ReorderPcs == {"rmGuard", "mkGuard", "mkLock"}
HeldsFree == \A t \in Threads : pc[t] \notin ReorderPcs

\* m_operationMutex of a TLockData is kept while its operations run
OperationMutexFree(o) == \A w \in Workers : ~(pc[w] = "opsRun" /\ rdata[w] = o)

ClassFree(o) == lock[o].class = NoThread

-----------------------------------------------------------------------------
(* TryAcquireLock *)

GetLockData(t) ==
  /\ pc[t] = "get"
  /\ dataLock = NoThread
  /\ mdata' = [mdata EXCEPT ![t] = registry[req[t].mutex]]
  /\ Goto(t, IF registry[req[t].mutex] = NoLock THEN "register" ELSE "can")
  /\ UNCHANGED <<registry, lock, held, dataLock, req, wdata, rdata, todo, tasks>>

\* CANNOT: the first attempt hands the lock back to be waited for.  The second
\* attempt also returns {mData, true}, and its caller looks only at the true.
Cannot(t) ==
  IF wdata[t] = NoLock
  THEN /\ wdata' = [wdata EXCEPT ![t] = mdata[t]]
       /\ mdata' = [mdata EXCEPT ![t] = NoLock]
       /\ Goto(t, "wait")
  ELSE /\ Goto(t, "success")
       /\ UNCHANGED <<mdata, wdata>>

CanAcquire(t) ==
  /\ pc[t] = "can"
  /\ ClassFree(mdata[t])
  /\ LET look == FirstLook(lock[mdata[t]], t, req[t].type) IN
     \/ look = "AVAIL"  /\ Goto(t, "addHeld") /\ UNCHANGED <<mdata, wdata>>
     \/ look = "OWNERS" /\ Goto(t, "canOwners") /\ UNCHANGED <<mdata, wdata>>
     \/ look = "CANNOT" /\ Cannot(t)
  /\ UNCHANGED <<registry, lock, held, dataLock, req, rdata, todo, tasks>>

\* The owners are counted in a section of their own.  NEED_TO_CONVERT releases
\* the read lock and registers a write lock, with mData still alive.
CanConvert(t) ==
  /\ pc[t] = "canOwners"
  /\ ClassFree(mdata[t])
  /\ \/ IsOnlyOwner(lock[mdata[t]], t) /\ Goto(t, "release") /\ UNCHANGED <<mdata, wdata>>
     \/ ~IsOnlyOwner(lock[mdata[t]], t) /\ Cannot(t)
  /\ UNCHANGED <<registry, lock, held, dataLock, req, rdata, todo, tasks>>

\* RegisterMutex keeps m_mutexData from here until the lock is owned
RegisterMutex(t) ==
  /\ pc[t] = "register"
  /\ dataLock = NoThread
  /\ registry[req[t].mutex] = NoLock
  /\ FreshLock \in LockIds \ Referenced
  /\ registry' = [registry EXCEPT ![req[t].mutex] = FreshLock]
  /\ lock' = [lock EXCEPT ![FreshLock] = NewLock(req[t].mutex, req[t].type)]
  /\ held' = [held EXCEPT ![t] = @ \cup {req[t].mutex}]
  /\ dataLock' = t
  /\ Goto(t, "guard")
  /\ UNCHANGED <<req, mdata, wdata, rdata, todo, tasks>>

\* try_emplace finds the mutex registered by somebody else: the wrapper is BUSY,
\* its references go, and Access queues the callback if it was given one.
RegisterFails(t) ==
  /\ pc[t] = "register"
  /\ dataLock = NoThread
  /\ registry[req[t].mutex] # NoLock
  /\ mdata' = [mdata EXCEPT ![t] = NoLock]
  /\ wdata' = [wdata EXCEPT ![t] = NoLock]
  /\ Goto(t, IF req[t].op THEN "busy" ELSE "idle")
  /\ UNCHANGED <<registry, held, dataLock, req, rdata, todo, tasks>>
  /\ DropUnreferenced

\* Slip: only RegisterMutex records what the thread holds
SkipHeldLocks(t) ==
  /\ pc[t] = "addHeld"
  /\ HeldsFree
  /\ Goto(t, "guard")
  /\ UNCHANGED <<registry, lock, held, dataLock, req, mdata, wdata, rdata, todo, tasks>>

AddToHeldLocks(t) ==
  /\ pc[t] = "addHeld"
  /\ HeldsFree
  /\ held' = [held EXCEPT ![t] = @ \cup {req[t].mutex}]
  /\ Goto(t, "guard")
  /\ UNCHANGED <<registry, lock, dataLock, req, mdata, wdata, rdata, todo, tasks>>

\* The lock AcquireLock is called on: the new one inside RegisterMutex, else mData
Target(t) == IF dataLock = t THEN registry[req[t].mutex] ELSE mdata[t]

AcquireLock(t) ==
  /\ pc[t] = "guard"
  /\ \/ /\ IgnoresRequest(lock[Target(t)], req[t].type)
        /\ Goto(t, "reset")
        /\ UNCHANGED lock
     \/ /\ ~IgnoresRequest(lock[Target(t)], req[t].type)
        /\ ClassFree(Target(t))
        /\ lock' = [lock EXCEPT ![Target(t)] = EnterCreateGuard(@, t)]
        /\ Goto(t, "lock")
  /\ UNCHANGED <<registry, held, dataLock, req, mdata, wdata, rdata, todo, tasks>>

LockGranted(t) ==
  /\ pc[t] = "lock"
  /\ Grantable(req[t].mutex, lock[Target(t)].type)
  /\ lock' = [lock EXCEPT ![Target(t)] = LeaveCreateGuard(@)]
  /\ Goto(t, "own")
  /\ UNCHANGED <<registry, held, dataLock, req, mdata, wdata, rdata, todo, tasks>>

\* The end of AcquireLock, and of RegisterMutex's section if it was called there
OwnLock(t) ==
  /\ pc[t] = "own"
  /\ ClassFree(Target(t))
  /\ lock' = [lock EXCEPT ![Target(t)] = CountOwnership(@, t)]
  /\ dataLock' = IF dataLock = t THEN NoThread ELSE dataLock
  /\ Goto(t, IF req[t].type = "Write" THEN "reset" ELSE "success")
  /\ UNCHANGED <<registry, held, req, mdata, wdata, rdata, todo, tasks>>

\* max_element of the thread's vector against the mutex just taken
NeedToReset(t) ==
  /\ pc[t] = "reset"
  /\ HeldsFree
  /\ Goto(t, IF \E k \in held[t] : k > req[t].mutex THEN "reorder" ELSE "success")
  /\ UNCHANGED <<registry, lock, held, dataLock, req, mdata, wdata, rdata, todo, tasks>>

-----------------------------------------------------------------------------
(* ReorderAll: every guard of the thread is dropped, then taken again in   *)
(* ascending order, with m_mutexData and m_mutexHelds kept throughout.     *)

\* Slip: no look for what is not registered
NoGarbage(t) == {}

\* v_garbage: recorded as held but registered nowhere
Garbage(t) == {k \in held[t] : registry[k] = NoLock}

BeginReorder(t) ==
  /\ pc[t] = "reorder"
  /\ dataLock = NoThread
  /\ HeldsFree
  /\ dataLock' = t
  /\ held' = [held EXCEPT ![t] = @ \ Garbage(t)]
  /\ todo' = [todo EXCEPT ![t] = held[t] \ Garbage(t)]
  /\ Goto(t, "rmGuard")
  /\ UNCHANGED <<registry, lock, req, mdata, wdata, rdata, tasks>>

ReorderRemoveGuard(t) ==
  /\ pc[t] = "rmGuard"
  /\ \E k \in todo[t] :
       /\ ClassFree(registry[k])
       /\ lock' = [lock EXCEPT ![registry[k]] = RemoveGuard(@)]
       /\ todo' = [todo EXCEPT ![t] = @ \ {k}]
  /\ UNCHANGED <<registry, held, dataLock, pc, req, mdata, wdata, rdata, tasks>>

\* std::sort: the second pass visits the vector from the smallest id up
ReorderSort(t) ==
  /\ pc[t] = "rmGuard"
  /\ todo[t] = {}
  /\ todo' = [todo EXCEPT ![t] = held[t]]
  /\ Goto(t, "mkGuard")
  /\ UNCHANGED <<registry, lock, held, dataLock, req, mdata, wdata, rdata, tasks>>

Smallest(S) == CHOOSE k \in S : \A j \in S : k <= j

ReorderCreateGuard(t) ==
  /\ pc[t] = "mkGuard"
  /\ todo[t] # {}
  /\ LET o == registry[Smallest(todo[t])] IN
       /\ ClassFree(o)
       /\ lock' = [lock EXCEPT ![o] = EnterCreateGuard(@, t)]
  /\ Goto(t, "mkLock")
  /\ UNCHANGED <<registry, held, dataLock, req, mdata, wdata, rdata, todo, tasks>>

ReorderLockGranted(t) ==
  /\ pc[t] = "mkLock"
  /\ LET k == Smallest(todo[t]) IN
       /\ Grantable(k, lock[registry[k]].type)
       /\ lock' = [lock EXCEPT ![registry[k]] = LeaveCreateGuard(@)]
       /\ todo' = [todo EXCEPT ![t] = @ \ {k}]
  /\ Goto(t, "mkGuard")
  /\ UNCHANGED <<registry, held, dataLock, req, mdata, wdata, rdata, tasks>>

EndReorder(t) ==
  /\ pc[t] = "mkGuard"
  /\ todo[t] = {}
  /\ dataLock' = NoThread
  /\ Goto(t, "success")
  /\ UNCHANGED <<registry, lock, held, req, mdata, wdata, rdata, todo, tasks>>

-----------------------------------------------------------------------------
(* ReleaseLock, called by the wrapper's destructor and by both conversions *)

FindToRelease(t) ==
  /\ pc[t] = "release"
  /\ dataLock = NoThread
  /\ rdata' = [rdata EXCEPT ![t] = registry[req[t].mutex]]
  /\ Goto(t, IF registry[req[t].mutex] = NoLock THEN "return" ELSE "disown")
  /\ UNCHANGED <<registry, lock, held, dataLock, req, mdata, wdata, todo, tasks>>

DisownLock(t) ==
  /\ pc[t] = "disown"
  /\ ClassFree(rdata[t])
  /\ lock' = [lock EXCEPT ![rdata[t]] = RemoveOwnership(@, t)]
  /\ Goto(t, "should")
  /\ UNCHANGED <<registry, held, dataLock, req, mdata, wdata, rdata, todo, tasks>>

\* ShouldRemove looks for the guard and for the owners in two sections
ShouldRemoveGuard(t) ==
  /\ pc[t] = "should"
  /\ ClassFree(rdata[t])
  /\ Goto(t, IF lock[rdata[t]].guard THEN "shouldOwners" ELSE "opCount")
  /\ UNCHANGED <<registry, lock, held, dataLock, req, mdata, wdata, rdata, todo, tasks>>

\* Slip: the caller is still counted
ShouldRemoveLastOwner(t) ==
  /\ pc[t] = "shouldOwners"
  /\ ClassFree(rdata[t])
  /\ Goto(t, IF Owners(lock[rdata[t]]) = {t} THEN "opCount" ELSE "return")
  /\ UNCHANGED <<registry, lock, held, dataLock, req, mdata, wdata, rdata, todo, tasks>>

ShouldRemoveOwners(t) ==
  /\ pc[t] = "shouldOwners"
  /\ ClassFree(rdata[t])
  /\ Goto(t, IF Owners(lock[rdata[t]]) = {} THEN "opCount" ELSE "return")
  /\ UNCHANGED <<registry, lock, held, dataLock, req, mdata, wdata, rdata, todo, tasks>>

GetOperationCount(t) ==
  /\ pc[t] = "opCount"
  /\ OperationMutexFree(rdata[t])
  /\ Goto(t, IF lock[rdata[t]].ops > 0 THEN "runOps" ELSE "unregister")
  /\ UNCHANGED <<registry, lock, held, dataLock, req, mdata, wdata, rdata, todo, tasks>>

\* The thread owns the lock again and a task is handed out to run the operations
RunOperationsOfMutex(t) ==
  /\ pc[t] = "runOps"
  /\ ClassFree(rdata[t])
  /\ lock' = [lock EXCEPT ![rdata[t]] = AddOwnership(@, t)]
  /\ tasks' = [tasks EXCEPT ![req[t].mutex] = @ + 1]
  /\ Goto(t, "return")
  /\ UNCHANGED <<registry, held, dataLock, req, mdata, wdata, rdata, todo>>

\* Erases whatever is registered for the mutex by now
RemoveFromMutexes(a) ==
  /\ pc[a] = "unregister"
  /\ dataLock = NoThread
  /\ registry' = [registry EXCEPT ![req[a].mutex] = NoLock]
  /\ Goto(a, "dropHeld")
  /\ UNCHANGED <<held, dataLock, req, mdata, wdata, rdata, todo, tasks>>
  /\ DropUnreferenced

\* Slip: the mutex stays in the thread's vector
KeepInHeldLocks(a) ==
  /\ pc[a] = "dropHeld"
  /\ HeldsFree
  /\ Goto(a, "return")
  /\ UNCHANGED <<registry, lock, held, dataLock, req, mdata, wdata, rdata, todo, tasks>>

RemoveFromHeldLocks(a) ==
  /\ pc[a] = "dropHeld"
  /\ HeldsFree
  /\ held' = [held EXCEPT ![a] = @ \ {req[a].mutex}]
  /\ Goto(a, "return")
  /\ UNCHANGED <<registry, lock, dataLock, req, mdata, wdata, rdata, todo, tasks>>

\* Back in TryAcquireLock's conversion, in the constructor's, or in the client
ReturnFromRelease(a) ==
  /\ pc[a] = "return"
  /\ rdata' = [rdata EXCEPT ![a] = NoLock]
  /\ Goto(a, IF mdata[a] # NoLock THEN "register"
             ELSE IF wdata[a] # NoLock THEN "get" ELSE "idle")
  /\ UNCHANGED <<registry, held, dataLock, req, mdata, wdata, todo, tasks>>
  /\ DropUnreferenced

-----------------------------------------------------------------------------
(* AddOperationWithData, and the task that runs a mutex's operations.      *)

FindToAddOperation(t) ==
  /\ pc[t] = "busy"
  /\ dataLock = NoThread
  /\ rdata' = [rdata EXCEPT ![t] = registry[req[t].mutex]]
  /\ req' = [req EXCEPT ![t].op = FALSE]
  /\ Goto(t, IF registry[req[t].mutex] = NoLock THEN "get" ELSE "addOp")
  /\ UNCHANGED <<registry, lock, held, dataLock, mdata, wdata, todo, tasks>>

AddOperation(t) ==
  /\ pc[t] = "addOp"
  /\ OperationMutexFree(rdata[t])
  /\ lock' = [lock EXCEPT ![rdata[t]].ops = @ + 1]
  /\ Goto(t, "return")
  /\ UNCHANGED <<registry, held, dataLock, req, mdata, wdata, rdata, todo, tasks>>

\* A worker picks a task up and calls GetMutexData
StartTask(w) ==
  /\ pc[w] = "idle"
  /\ dataLock = NoThread
  /\ \E m \in Mutexes :
       /\ tasks[m] > 0
       /\ tasks' = [tasks EXCEPT ![m] = @ - 1]
       /\ req' = [req EXCEPT ![w].mutex = m]
       /\ rdata' = [rdata EXCEPT ![w] = registry[m]]
       /\ Goto(w, CASE registry[m] = NoLock -> "idle"
                    [] registry[m] # NoLock /\ lock[registry[m]].type = "Read" -> "opsConvert"
                    [] registry[m] # NoLock /\ lock[registry[m]].type = "Write" -> "opsWait")
  /\ UNCHANGED <<registry, lock, held, dataLock, mdata, wdata, todo>>

TaskRemoveGuard(w) ==
  /\ pc[w] = "opsConvert"
  /\ ClassFree(rdata[w])
  /\ lock' = [lock EXCEPT ![rdata[w]] = RemoveGuard(@)]
  /\ Goto(w, "opsLock")
  /\ UNCHANGED <<registry, held, dataLock, req, mdata, wdata, rdata, todo, tasks>>

\* unique_lock lockMute(_mutex)
TaskLock(w) ==
  /\ pc[w] = "opsLock"
  /\ Grantable(req[w].mutex, "Write")
  /\ Goto(w, "opsWait")
  /\ UNCHANGED <<registry, lock, held, dataLock, req, mdata, wdata, rdata, todo, tasks>>

BeginRunOperations(w) ==
  /\ pc[w] = "opsWait"
  /\ OperationMutexFree(rdata[w])
  /\ Goto(w, "opsRun")
  /\ UNCHANGED <<registry, lock, held, dataLock, req, mdata, wdata, rdata, todo, tasks>>

RunOperation(w) ==
  /\ pc[w] = "opsRun"
  /\ lock[rdata[w]].ops > 0
  /\ lock' = [lock EXCEPT ![rdata[w]].ops = @ - 1]
  /\ UNCHANGED <<registry, held, dataLock, pc, req, mdata, wdata, rdata, todo, tasks>>

\* The queue is empty: lockMute goes, and ReleaseLock(_mutexID, true) follows
EndRunOperations(w) ==
  /\ pc[w] = "opsRun"
  /\ lock[rdata[w]].ops = 0
  /\ Goto(w, "unregister")
  /\ UNCHANGED <<registry, lock, held, dataLock, req, mdata, wdata, rdata, todo, tasks>>

-----------------------------------------------------------------------------

TrackerInit ==
  /\ registry = [m \in Mutexes |-> NoLock]
  /\ lock = [o \in LockIds |-> Freed]
  /\ held = [a \in Actors |-> {}]
  /\ dataLock = NoThread
  /\ pc = [a \in Actors |-> "idle"]
  /\ req = [a \in Actors |-> [mutex |-> CHOOSE m \in Mutexes : TRUE, type |-> "Read", op |-> FALSE]]
  /\ mdata = [a \in Actors |-> NoLock]
  /\ wdata = [a \in Actors |-> NoLock]
  /\ rdata = [a \in Actors |-> NoLock]
  /\ todo = [a \in Actors |-> {}]
  /\ tasks = [m \in Mutexes |-> 0]

TryAcquireStep(t) ==
  \/ GetLockData(t) \/ CanAcquire(t) \/ CanConvert(t)
  \/ RegisterMutex(t) \/ RegisterFails(t) \/ AddToHeldLocks(t)
  \/ AcquireLock(t) \/ LockGranted(t) \/ OwnLock(t) \/ NeedToReset(t)

ReorderStep(t) ==
  \/ BeginReorder(t) \/ ReorderRemoveGuard(t) \/ ReorderSort(t)
  \/ ReorderCreateGuard(t) \/ ReorderLockGranted(t) \/ EndReorder(t)

ReleaseStep(t) ==
  \/ FindToRelease(t) \/ DisownLock(t) \/ ShouldRemoveGuard(t) \/ ShouldRemoveOwners(t)
  \/ GetOperationCount(t) \/ RunOperationsOfMutex(t)

\* The end of ReleaseLock, which threads and tasks share
UnregisterStep(a) == RemoveFromMutexes(a) \/ RemoveFromHeldLocks(a) \/ ReturnFromRelease(a)

AddOperationStep(t) == FindToAddOperation(t) \/ AddOperation(t)

TaskStep(w) ==
  \/ StartTask(w) \/ TaskRemoveGuard(w) \/ TaskLock(w)
  \/ BeginRunOperations(w) \/ RunOperation(w) \/ EndRunOperations(w)
  \/ UnregisterStep(w)

=============================================================================
