----------------------------- MODULE DataWrapper -----------------------------
(***************************************************************************)
(* CDataWrapper (Source/Improved/data_wrapper.h), the RAII handle whose    *)
(* constructor and destructor drive the tracker, under the Access function *)
(* of a data manager (CPersonManager::Access, Source/example.cpp) and the  *)
(* clients that open and close wrappers.  A wrapper that is not SUCCESS    *)
(* gives no access and does nothing when destroyed, so only the SUCCESS    *)
(* wrappers are state.                                                     *)
(***************************************************************************)
EXTENDS ThreadTracker

CONSTANTS Requests,  \* the [thread, mutex, type] a client may ask Access for
          Features,  \* what else the clients do, see below
          MaxDepth,  \* bound: SUCCESS wrappers a thread has open on one mutex
          MaxPending \* bound: operations, and tasks, a mutex has when a client asks

(***************************************************************************)
(* "upgrade":   asks for Write on a mutex it has open for Read only        *)
(* "descend":   asks for Write on a mutex below one it has open            *)
(* "overwrite": move-assigns over a SUCCESS wrapper                        *)
(* "ops":       gives Access a callback to run if the data is busy         *)
(***************************************************************************)
ClientFeatures == {"upgrade", "descend", "overwrite", "ops"}

ASSUME WrapperAssumption ==
  /\ Requests \subseteq [thread : Threads, mutex : Mutexes, type : Types]
  /\ Features \subseteq ClientFeatures
  /\ MaxDepth \in Nat
  /\ MaxPending \in Nat

VARIABLE wrappers  \* open SUCCESS wrappers of each thread, by mutex and type

vars == <<trackerVars, wrappers>>

Open(t, m) == wrappers[t][m]["Read"] + wrappers[t][m]["Write"]

-----------------------------------------------------------------------------

MayAsk(t, m, ty) ==
  /\ [thread |-> t, mutex |-> m, type |-> ty] \in Requests
  /\ Open(t, m) < MaxDepth
  /\ tasks[m] < MaxPending \/ "ops" \notin Features
  /\ ty = "Write" /\ wrappers[t][m]["Read"] > 0 /\ wrappers[t][m]["Write"] = 0
       => "upgrade" \in Features
  /\ ty = "Write" /\ (\E k \in Mutexes : k > m /\ Open(t, k) > 0)
       => "descend" \in Features

MayQueue(m) == /\ "ops" \in Features
               /\ registry[m] # NoLock => lock[registry[m]].ops < MaxPending

\* Access on existing data: the wrapper's constructor calls TryAcquireLock
Access(t) ==
  /\ pc[t] = "idle"
  /\ \E m \in Mutexes, ty \in Types :
       /\ MayAsk(t, m, ty)
       /\ req' = [req EXCEPT ![t] = [mutex |-> m, type |-> ty, op |-> MayQueue(m)]]
  /\ Goto(t, "get")
  /\ UNCHANGED <<registry, lock, held, dataLock, mdata, wdata, rdata, todo, tasks, wrappers>>

\* TryAcquireLock returned true: its mData and the constructor's lockData go
Succeed(t) ==
  /\ pc[t] = "success"
  /\ wrappers' = [wrappers EXCEPT ![t][req[t].mutex][req[t].type] = @ + 1]
  /\ mdata' = [mdata EXCEPT ![t] = NoLock]
  /\ wdata' = [wdata EXCEPT ![t] = NoLock]
  /\ Goto(t, "idle")
  /\ UNCHANGED <<registry, held, dataLock, req, rdata, todo, tasks>>
  /\ DropUnreferenced

-----------------------------------------------------------------------------
(* Wait: the predicate reads the lock as CanAcquire does.  wait_for may    *)
(* look again at any time, and looks a last time after the timeout.        *)

\* m_cvMutex of a lock object is kept while a predicate is evaluated
PredicateMutexFree(o) == \A t \in Threads : ~(pc[t] = "waitOwners" /\ wdata[t] = o)

WaitLook(t) ==
  /\ pc[t] = "wait"
  /\ PredicateMutexFree(wdata[t])
  /\ ClassFree(wdata[t])
  /\ LET look == FirstLook(lock[wdata[t]], t, req[t].type) IN
     \/ look = "AVAIL"  /\ Goto(t, "get")
     \/ look = "OWNERS" /\ Goto(t, "waitOwners")
  /\ UNCHANGED <<registry, lock, held, dataLock, req, mdata, wdata, rdata, todo, tasks, wrappers>>

\* NEED_TO_CONVERT: the constructor releases the lock and tries for Write,
\* with lockData still alive.  Otherwise the wait goes on.
WaitConvert(t) ==
  /\ pc[t] = "waitOwners"
  /\ ClassFree(wdata[t])
  /\ Goto(t, IF IsOnlyOwner(lock[wdata[t]], t) THEN "release" ELSE "wait")
  /\ UNCHANGED <<registry, lock, held, dataLock, req, mdata, wdata, rdata, todo, tasks, wrappers>>

\* Slip: wait in place of wait_for
WaitForever(t) == pc[t] = "wait" /\ FALSE

\* LOCK_ACQUIRE_TIMEOUT has passed and the last look fails: the constructor
\* returns with m_result still DATA_NOT_EXISTS
WaitTimeout(t) ==
  /\ \/ /\ pc[t] = "wait"
        /\ PredicateMutexFree(wdata[t])
        /\ ClassFree(wdata[t])
        /\ FirstLook(lock[wdata[t]], t, req[t].type) = "CANNOT"
     \/ /\ pc[t] = "waitOwners"
        /\ ClassFree(wdata[t])
        /\ ~IsOnlyOwner(lock[wdata[t]], t)
  /\ wdata' = [wdata EXCEPT ![t] = NoLock]
  /\ Goto(t, "idle")
  /\ UNCHANGED <<registry, held, dataLock, req, mdata, rdata, todo, tasks, wrappers>>
  /\ DropUnreferenced

-----------------------------------------------------------------------------

\* ~CDataWrapper of a SUCCESS wrapper calls ReleaseLock
Destroy(t) ==
  /\ pc[t] = "idle"
  /\ \E m \in Mutexes, ty \in Types :
       /\ wrappers[t][m][ty] > 0
       /\ wrappers' = [wrappers EXCEPT ![t][m][ty] = @ - 1]
       /\ req' = [req EXCEPT ![t] = [mutex |-> m, type |-> ty, op |-> FALSE]]
  /\ Goto(t, "release")
  /\ UNCHANGED <<registry, lock, held, dataLock, mdata, wdata, rdata, todo, tasks>>

\* operator=(CDataWrapper&&): the SUCCESS wrapper assigned to is overwritten
\* without a ReleaseLock.  Bound: one such lock at a time for a thread.
Overwrite(t) ==
  /\ "overwrite" \in Features
  /\ pc[t] = "idle"
  /\ \A m \in Mutexes : registry[m] # NoLock => lock[registry[m]].owners[t] <= Open(t, m)
  /\ \E m \in Mutexes, ty \in Types :
       /\ wrappers[t][m][ty] > 0
       /\ wrappers' = [wrappers EXCEPT ![t][m][ty] = @ - 1]
  /\ UNCHANGED trackerVars

-----------------------------------------------------------------------------

Init == /\ TrackerInit
        /\ wrappers = [t \in Threads |-> [m \in Mutexes |-> [ty \in Types |-> 0]]]

WrapperStep(t) == WaitLook(t) \/ WaitConvert(t) \/ WaitTimeout(t) \/ Succeed(t)

TrackerStep(t) ==
  /\ \/ TryAcquireStep(t) \/ ReorderStep(t)
     \/ ReleaseStep(t) \/ UnregisterStep(t) \/ AddOperationStep(t)
  /\ UNCHANGED wrappers

ClientStep(t) == Access(t) \/ Destroy(t) \/ Overwrite(t)

WorkerStep(w) == TaskStep(w) /\ UNCHANGED wrappers

Next == \/ \E t \in Threads : ClientStep(t) \/ WrapperStep(t) \/ TrackerStep(t)
        \/ \E w \in Workers : WorkerStep(w)

Spec == Init /\ [][Next]_vars

(***************************************************************************)
(* Every step that is not the client's own choice is taken in the end: the *)
(* threads are scheduled, their mutexes do not starve them, and a wait     *)
(* that is not granted reaches its timeout.                                *)
(***************************************************************************)
LibraryStep(t) == WrapperStep(t) \/ TrackerStep(t)

Fairness == /\ \A t \in Threads : SF_vars(LibraryStep(t)) /\ SF_vars(WaitTimeout(t))
            /\ \A w \in Workers : SF_vars(WorkerStep(w))

FairSpec == Spec /\ Fairness

-----------------------------------------------------------------------------
(* Properties.  README.md says under which workloads each is meant.        *)

PcLabels ==
  {"idle", "get", "can", "canOwners", "register", "addHeld", "guard", "lock", "own",
   "reset", "reorder", "rmGuard", "mkGuard", "mkLock", "success", "wait", "waitOwners",
   "release", "disown", "should", "shouldOwners", "opCount", "runOps", "unregister",
   "dropHeld", "return", "busy", "addOp", "opsConvert", "opsLock", "opsWait", "opsRun"}

LockRefs == LockIds \cup {NoLock}

\* Every variable has its type; above all no lockCount, an unsigned size_t, is
\* ever taken below zero (AbstractLock::RemoveOwnership).
TypeOK ==
  /\ registry \in [Mutexes -> LockRefs]
  /\ lock \in [LockIds -> LockObjects]
  /\ held \in [Actors -> SUBSET Mutexes]
  /\ dataLock \in Threads \cup {NoThread}
  /\ pc \in [Actors -> PcLabels]
  /\ req \in [Actors -> [mutex : Mutexes, type : Types, op : BOOLEAN]]
  /\ mdata \in [Actors -> LockRefs]
  /\ wdata \in [Actors -> LockRefs]
  /\ rdata \in [Actors -> LockRefs]
  /\ todo \in [Actors -> SUBSET Mutexes]
  /\ tasks \in [Mutexes -> Nat]
  /\ wrappers \in [Threads -> [Mutexes -> [Types -> Nat]]]

\* A SUCCESS wrapper for writing excludes every other thread's SUCCESS wrapper
\* on the same data, whatever wrappers are nested, released or waited for.
MutualExclusion ==
  \A s, t \in Threads, m \in Mutexes :
    s # t /\ wrappers[s][m]["Write"] > 0 => Open(t, m) = 0

\* Every open wrapper is backed by the lock registered for its mutex, with one
\* of the thread's lockCount: no release, by whichever thread, takes it early.
WrappersBacked ==
  \A t \in Threads, m \in Mutexes :
    Open(t, m) > 0 => /\ registry[m] # NoLock
                      /\ lock[registry[m]].owners[t] >= Open(t, m)

\* Between calls m_heldLocks of a thread names exactly the mutexes it has
\* wrappers open on, which is what NeedToReset and ReorderAll take it for.
HeldMatchesWrappers ==
  \A t \in Threads : pc[t] = "idle" => held[t] = {m \in Mutexes : Open(t, m) > 0}

\* A thread recorded as owner of a registered lock has the mutex in
\* m_heldLocks, so that ReorderAll finds every guard it must drop.
HeldCoversOwned ==
  \A t \in Threads, m \in Mutexes :
    registry[m] # NoLock /\ IsOwner(lock[registry[m]], t) => m \in held[t]

\* A CWriteLock never has two owners, also when a thread joins a lock object
\* that another is about to unregister (RunOperationsOfMutex makes owners too).
\* ReorderAll takes a guard away while a joiner may be past it: the owners may then be two.
WriteLockHasOneOwner ==
  \A o \in LockIds : lock[o].type = "Write" =>
    \A s, t \in Owners(lock[o]) : s = t

\* Nothing leaks: with every wrapper destroyed, every call returned and every
\* task run, no lock is left registered, whatever races the releases went through.
QuiescentClean ==
  /\ \A a \in Actors : pc[a] = "idle"
  /\ \A t \in Threads, m \in Mutexes : Open(t, m) = 0
  /\ \A m \in Mutexes : tasks[m] = 0
  => \A m \in Mutexes : registry[m] = NoLock

\* The two dereferences the tracker does not check: max_element in NeedToReset
\* of a vector that is not empty, and in ReorderAll (thread_tracker.h:175-177)
\* the registered lock of every mutex it visits.
ReorderSafe ==
  \A t \in Threads :
    /\ pc[t] = "reset" => held[t] # {}
    /\ pc[t] \in ReorderPcs => \A k \in held[t] : registry[k] # NoLock

\* No thread waits for m_mutexData with a guard in its hands that the owner of
\* m_mutexData waits for (RegisterMutex blocks on the data's mutex inside it).
NoWaitCycle ==
  \A s, t \in Threads :
    /\ dataLock = t /\ pc[t] = "lock"
    /\ pc[s] = "unregister" /\ rdata[s] # Target(t) /\ req[s].mutex = req[t].mutex
    => ~lock[rdata[s]].guard

\* While a thread is in the client's code, nobody else drops the guard of the
\* lock that backs its wrappers, nor the lock itself.
GuardKept ==
  [][\A t \in Threads, m \in Mutexes :
       /\ pc[t] = "idle" /\ pc'[t] = "idle" /\ Open(t, m) > 0
       /\ registry[m] # NoLock /\ lock[registry[m]].guard
       => registry'[m] = registry[m] /\ lock'[registry[m]].guard]_vars

-----------------------------------------------------------------------------
(* Properties that a comment or the README states and the code breaks     *)
(* under some workload.                                                    *)

\* A constructor that is about to report SUCCESS owns the lock ("kilit
\* alinmistir", data_wrapper.h:75).
SuccessOwns ==
  \A t \in Threads : pc[t] = "success" =>
    registry[req[t].mutex] # NoLock /\ IsOwner(lock[registry[req[t].mutex]], t)

\* RegisterMutex never blocks on a guard that the caller's own reference keeps
\* alive: a read lock can be converted to a write lock (README.md:11).
ConversionNotBlocked ==
  \A t \in Threads :
    pc[t] = "lock" /\ dataLock = t /\ mdata[t] # NoLock => ~lock[mdata[t]].guard

\* Operations wait in the registered lock, whose release runs them all
\* (common_types.h:71).
OperationsReachable ==
  \A o \in LockIds : lock[o].ops > 0 => registry[lock[o].mutex] = o

\* A task runs operations while no thread has the data open, since it already
\* has the write lock (thread_tracker.h:444).
OperationsExclusive ==
  \A w \in Workers : pc[w] = "opsRun" => \A t \in Threads : Open(t, req[w].mutex) = 0

=============================================================================
