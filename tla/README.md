# A TLA+ model of the thread-safe data library

The program (`src/`) is a small C++17 library that hands out shared data under
read and write locks: a data manager gives a client a *wrapper*, whose
constructor takes the data's lock and whose destructor gives it back. The locks
are kept by a tracker shared by all threads. Beside them the library has a task
queue with worker threads and a singleton template. This directory models the
library at the grain of its critical sections, checks it with TLC on small
instances and proves some of its invariants with TLAPS for every instance.

## The system

| Component | State | Operations | Modelled by |
| --- | --- | --- | --- |
| Lock objects `CReadLock`, `CWriteLock` (`lock_types.*`) | guard on the data's `shared_mutex`, `m_owners` with a `lockCount` each, `m_classMutex` | `CanAcquire`, `Wait`, `AcquireLock`, `AddOwnership`, `RemoveOwnership`, `ShouldRemove`, `RemoveGuard`, `CreateGuard` | `LockTypes` (what each computes), `ThreadTracker` (when) |
| `TLockData` (`common_types.h`) | the lock object and a queue of operations, `m_operationMutex` | `GetOperationCount`, `AddOperation`, `RunOperations` | `LockTypes`, `ThreadTracker` |
| `CNewThreadTracker` (`thread_tracker.h`) | `m_mutexes` (lock registered for a mutex id), `m_heldLocks` (ids per thread), `m_mutexData`, `m_mutexHelds` | `TryAcquireLock`, `RegisterMutex`, `NeedToReset`, `ReorderAll`, `ReleaseLock`, `RunOperationsOfMutex`, `AddOperationWithData` | `ThreadTracker` |
| `CDataWrapper` (`data_wrapper.h`) | result, mutex id, tracker, data | constructor (acquire, wait, try again), destructor, move | `DataWrapper` |
| Data manager and clients (`example.cpp`) | persons, their wrappers | `Access` with an `ifBusy` callback | `DataWrapper` (access to existing data) |
| Task service `futureInstance` (external) | tasks | `addTask`, `forceStop` | `tasks` and the workers of `ThreadTracker`, `force` of `NormalQueue` |
| `CNormalQueue` (`queue_normal.h`) | `m_container` under `m_mutexContainer`, `m_state`, worker count, `m_mutex` of the methods | constructor and `StartThreads`, worker loop with retries, cleaner, `SetState`, `StopThreads`, `AddTask`, `AddBatchTasks`, `RemoveTask` | `NormalQueue`; what it promises, `TaskPool` |
| `CSingleton` (`singleton.h`) | `m_instance`, `m_singleton_mutex` | `getInstance`, `deleteInstance` | `Singleton` |
| `CRandomGenerator` | an `mt19937` | numbers for the example | not modelled |

How they interact. A client thread calls `Access`; the wrapper's constructor
calls `TryAcquireLock`. The tracker either registers a new lock object for the
mutex, or finds the registered one and asks it whether it can be joined. If it
cannot, the constructor waits on the lock object's condition variable and tries
once more. The destructor calls `ReleaseLock`, which forgets the caller's
ownership and, if nobody owns the lock, unregisters it; the guard on the data
goes when the last `shared_ptr` to the lock object does. If operations wait on
the lock, the release makes the caller owner again and hands a task to the
service, whose worker runs them and unregisters the lock. A thread that takes a
mutex with a smaller id than one it has drops and retakes all its guards in
ascending order (`ReorderAll`).

The queue stands alone: clients call its methods, each of which takes `m_mutex`,
its workers and its cleaner are tasks of the service, and all of them meet at
`m_mutexContainer` and the condition variable `m_cv`. A worker takes a task out
of the container, processes it with no mutex held and pushes it back if it
failed. The random generator is the one user of the singleton.

What is hard:

* `ReleaseLock` and `TryAcquireLock` are sequences of critical sections, with
  decisions made in one and acted on in another (*check then act*);
* local `shared_ptr`s keep an unregistered lock object and its guard alive;
* `RegisterMutex` and `ReorderAll` block on the data's mutex with `m_mutexData`
  in their hands;
* a read lock is converted to a write lock by a release and a registration;
* `ReorderAll` leaves a thread's open data without guards for a moment;
* the wait ends by a look at the lock or by its timeout, and what it saw may no
  longer hold when the second attempt runs;
* operations are queued, counted and run by three different threads;
* the state of the queue is read and stored without the mutex its workers sleep
  under, one notification wakes one of them, and a stop is three sections
  between which others add, stop and set the state;
* a task is nowhere in the container while it is processed;
* the queue's two mutexes are taken in different orders, one of them twice.

What makes it correct: a wrapper that is `SUCCESS` excludes what its type
excludes; every open wrapper is backed by a registered lock and a count of its
own; `m_heldLocks` names what the thread owns; nothing is left registered once
everybody is done; iterators that the code does not check are valid; every call
returns. A task of the queue is in one place, tried in its turn, one try at a
time and no more often than allowed; the queue is bounded; tasks do not wait for
a wakeup that never comes. A singleton is one object.

`PROJECT.json` lists the hazards line by line, with the properties that cover
them.

## Modules

* `LockTypes` - one lock object as a record and the methods that compute from
  it. No variables.
* `ThreadTracker` - the tracker: registry, heap of lock objects, `m_heldLocks`,
  a program counter for each thread and task worker, and one action for each
  critical section of the calls.
* `DataWrapper` - clients and wrappers on top of it, the complete next-state
  relation, fairness and all properties.
* `DataAccess` - what a client is promised, with no lock object: an access is
  granted only if it excludes and is excluded by nobody, or refused; a wrapper
  ends when its release begins; each call returns.
* `AccessRefinement` - `DataWrapper` implements `DataAccess`: `open` is
  `wrappers`, and the kind of `call` is read off the program counter.
* `MCDataWrapper` - the workloads and addresses of the runs.
* `NormalQueue` - the queue: its clients, workers and cleaner with a program
  counter each, and all its properties.
* `TaskPool` - what the queue promises about a task, with no mutex, worker or
  container.
* `QueueRefinement` - `NormalQueue` implements `TaskPool`: the status and the
  tries of a task are read off the container and the workers' hands.
* `MCNormalQueue` - the configurations of the run.
* `Singleton` - creation and deletion of the instance.
* `DataWrapperProofs` - theorems for all clients of the tracker, and the lemmas
  about its steps. `PlainUseProofs` - theorems for clients in plain use.
  `ConversionProofs` - theorems for clients that share, convert and overwrite.
  `AccessRefinementProofs` - the step simulation of `DataAccess`.
* `NormalQueueProofs` - theorems about the queue. `QueueRefinementProofs` - the
  refinement of `TaskPool`.
* `SingletonProofs` - the theorem about the singleton.

A definition that a comment calls a *slip* is a wrong variant of the one it
precedes (a guard dropped, a record forgotten). No specification uses it; it is
there to show that the properties notice it.

### Grain and abstraction: locks and wrappers

An action is one critical section of `m_mutexData`, `m_mutexHelds`,
`m_classMutex` or `m_operationMutex`, together with the thread's own code up to
the next one. Sections that block on the data's `shared_mutex` while they keep
a mutex of the library are split there: `dataLock` is the thread that keeps
`m_mutexData` (in `RegisterMutex` or `ReorderAll`), `HeldsFree` says whether
`ReorderAll` keeps `m_mutexHelds`, `class` who is blocked in `CreateGuard` with
`m_classMutex`, `OperationMutexFree` and `PredicateMutexFree` the same for
`m_operationMutex` and `m_cvMutex`. `AcquireLock`'s look at `IsOwner` and the
count that follows are one step: only the thread itself changes its own entry.

`pc` labels name the section a thread enters next, in the order of the code:
`get`, `can`, `canOwners`, `register`, `addHeld`, `guard`, `lock`, `own`,
`reset`, `reorder`, `rmGuard`, `mkGuard`, `mkLock`, `success` for
`TryAcquireLock`; `wait`, `waitOwners` for `Wait`; `release`, `disown`,
`should`, `shouldOwners`, `opCount`, `runOps`, `unregister`, `dropHeld`,
`return` for `ReleaseLock`; `busy`, `addOp` for `AddOperationWithData`;
`opsConvert`, `opsLock`, `opsWait`, `opsRun` for a task.

Lock objects have addresses (`LockIds`) and are referred to by the registry and
by three local pointers for each thread (`mdata`, `wdata`, `rdata`).
`DropUnreferenced` is part of every step in which a `shared_ptr` dies: the
objects nothing refers to any more are destroyed with their guards. This is
what makes a guard outlive its registration in the model as it does in the code.

The data's `std::shared_mutex` is modelled by the guards alone: exclusive or
shared, no owner, so that a thread that locks it twice blocks on itself, as
SRWLOCK and the pthread rwlock without owner check do. The choice among
blocked lockers is arbitrary (no writer preference). Spurious wakeups are
allowed: a waiting thread may look at any time. The timeout may strike at any
time at which the last look fails. A vector of `m_heldLocks` is a set, since
`AddToHeldLocks` keeps it without duplicates and its order matters only inside
`ReorderAll`, which sorts it. A wrapper that is not `SUCCESS`, or has been moved
from, does nothing and is no state, so that no property tells `BUSY` from the
`DATA_NOT_EXISTS` that a timeout leaves behind though the data exists
(`data_wrapper.h:77`), without its callback being queued. `bForce` is never set for the tasks of
`RunOperationsOfMutex`. Mutex id 0 and null pointers, which the code answers at
once, are not asked for. Logging is left out.

### Workloads

`Requests` are the (thread, mutex, type) a client may ask for, and `Features`
what else clients do: convert (`upgrade`), take mutexes in descending order
(`descend`), move-assign over a `SUCCESS` wrapper (`overwrite`), give a callback
(`ops`). The code does not keep its promises under all of them, as the last five
runs show, so that each property is checked under the widest workload in which
it holds, and the runs say which that is. The one assumption that matters most:
*no two threads read the same data* (`SoleReaderRequests`). With two readers
the release of one can unregister the lock the other has just joined, and from
there exclusion is lost. The threads of `example.cpp` do read the same persons,
so that its own workload is the one of `conversion` and `shared_readers`.

Under that workload there is one more way to stop that no run of its own shows:
a releasing reader has the old lock object in a local `shared_ptr`, guard
included, and waits for `m_mutexData` in `RemoveFromMutexes`
(`thread_tracker.h:80`), while a registrar holds `m_mutexData` and waits for
that guard (`:279`). `NoWaitCycle` says that there is no such pair. It holds in
`sole_reader`, and TLC finds it violated if `Requests` is `AllRequests`.

### Grain and abstraction: the queue

An action of `NormalQueue` goes from one lock, unlock or wait to the next. `pc`
labels: `construct`, `start`, `thrown` for the constructor (its body is `StartThreads`);
`idle`, `setState`, `stop`, `force`, `clear`, `clearing` (`StopThreads` and
`Stop`), `add`, `lockToPush`, `push` (`AddTask`, `AddBatchTasks`), `remove`,
`removing` for a client; `check`, `expire`, `expiring` for the cleaner; `top`
(the loop condition), `lock`, `drowsy` (the predicate was false and the wait has
not begun), `asleep`, `ready` (the predicate was true), `take`, `run` (the
process function), `retry`, `break`, `ended` for a worker, which also goes
through the labels of `StopThreads` if it has no process function.

* Between `drowsy` and `asleep` a worker still has `m_mutexContainer`, and a
  notification in between is lost. `AddTask` notifies after its unlock, and the
  two are one step here: who looks in between sees the task already. `SetState`
  stores and notifies with `m_mutexContainer` held by others or nobody, and the
  two are one step as well: a worker that goes to sleep in between, and is woken,
  might have done so before the store.
* A task is its number, in the order of the `m_enqueue_time`s, and its
  `m_retry_count`. Time is left out: the cleaner may find any task too old, but
  only if the tasks with earlier times are gone first.
* `RemoveTask` erases any tasks, for its function may pick any.
* The process function succeeds or fails freely and does not call the queue.
* `forceStop` sets the `bForce` of a task and does not wait for it.
* `config` is chosen in the first state: the number of workers (the code clamps
  `m_workerThreadCount` from its own uninitialised value, so it is any), whether
  there is a process function, and what the clients do. In *plain use* the owner
  sets `WORKING` before anybody has the queue, nobody sets the state after that,
  tasks are added while it is `WORKING`, and stops clear, as the destructor's
  does. A bound on the tasks added stands for `MaxTasks`.
* Locking a `std::mutex` that the thread has is undefined. It blocks with
  pthread and throws `system_error` with MSVC's library (`config.relock`), and
  the code does it in two places. One is the constructor: `StartThreads` has
  `m_mutex` when it calls `GetTaskName`, so that the constructor as written either
  never returns (pc `start`) or throws (`thrown`), with the cleaner already
  running on the object. *No build of the code as it is has a usable queue.* To
  say anything of the rest, `config.repaired` supposes the least repair there
  is: `StartThreads` composes the names without the mutex. Everything else is
  as written. All theorems hold for both constructors, and tell of tasks and
  calls only under the repaired one. The other place is a worker without process
  function (`Stop` with `m_mutexContainer` in its hands), which is modelled as it is;
  an exception that leaves a task ends the task, which is up to the service.
* The look at an empty container after the wait (line 108) can never find it
  so, and the destructor is `StopThreads(true)`. The life of the queue object,
  which its threads may outlive, is not modelled.

### Grain and abstraction: the singleton

The pointer is read outside the mutex, a data race with the store, so that
`Store` may come before `Construct`. `deleteInstance` deletes the object with
the mutex locked, and the object's destructor calls `deleteInstance` again,
which locks it once more: undefined, and whether it blocks or throws, which in a
destructor ends the program, the thread never gives the mutex back (`nested`).

## Runs

| Run | Expected | What it shows |
| --- | --- | --- |
| `sole_reader` | pass | two threads, two mutexes, nested wrappers, one reads and writes and the other writes: `MutualExclusion`, `WrappersBacked`, `HeldMatchesWrappers`, `NoWaitCycle`, `GuardKept`, no deadlock |
| `refinement` | pass | three threads on one mutex, fairness: `KeepsPromise`, the refinement of `DataAccess` with its liveness |
| `conversion` | pass | two threads read, write and convert, with all races: `HeldCoversOwned`, `WriteLockHasOneOwner`, `QuiescentClean` |
| `reorder` | pass | one thread takes two mutexes in either order and overwrites wrappers, the other reads: `HeldCoversOwned`, `ReorderSafe` |
| `operations` | pass | callbacks queued and the tasks that run them, with and without conversion: `TypeOK`, `WriteLockHasOneOwner`, `QuiescentClean` |
| `queue` | pass | small queues, and the constructor as written: `TypeOK`, `QueueBounded`, `TaskOnce`, `FrontExists`, `StopClears`, the refinement of `TaskPool` (`KeepsPool`), and under fairness `CallsReturn` and, in plain use, `Served` |
| `singleton` | pass | four threads create, use and delete: `OneInstance`, and `GetReturns` under fairness |
| `shared_readers` | violation | a reader joins between `ShouldRemove` and `RemoveFromMutexes` of another and is unregistered with it; a writer gets in |
| `upgrade` | violation | a converting thread waits for the guard its own `mData` keeps alive |
| `second_attempt` | violation | a waiter that looked during a reorder gets `CANNOT` from its second attempt and reports `SUCCESS` |
| `lost_operation` | violation | an operation is added to a lock data that has been counted as empty and is being unregistered |
| `exposed_operation` | violation | the releasing thread, still owner, has the data open while the task writes it |

Bounds. `MaxDepth` is the number of `SUCCESS` wrappers a thread has open on one
mutex (2 shows reentrancy: the second release must not take the first one's
count), `MaxPending` the operations and tasks of one mutex when a client asks
(1: the interesting races are between the first operation and the release),
`Addresses` gives one address more than there are references, so that
`make_shared` never fails. A thread overwrites one wrapper at a time, since each
overwrite leaks a count for ever. Two threads suffice for the races of one
release with one acquisition; `refinement` has three, so that a waiter, a
releaser and a registrar are there together. A reorder needs two mutexes.

The configurations of `queue` (`QueueConfigs`) are each small in what the others
are large in, for their product is out of reach: one worker and four tasks, so
that a queue of `MaxQueue = 2` is full while a task is in hand and comes back;
two workers, two clients, a client that pauses, restarts and stops without
clearing, two clients that set the state and stop while the other does, and a
worker without process function, where relocking blocks and where it throws. All
these have the repaired constructor. In two more it is as written, and the
owner blocks or throws before the first worker is there. `MaxRetry` is 2 (3 in the code): a retry, and a
last failure. A client's batch has two tasks, one more than fits beside one that
waits.

Deadlock is checked in `sole_reader` and `refinement`. The other runs say
`CHECK_DEADLOCK FALSE`. A queue that is stopped, with its tasks bounded, comes to
rest, and so does a singleton whose mutex is never given back. In the remaining
ones the code really stops, in the ways `upgrade` shows and `NoWaitCycle` names,
and their properties are checked in all states up to that point: an overwritten
read wrapper leads to such a conversion as well, and with callbacks a task
unregisters a lock that a waiter still refers to, which then waits in
`RegisterMutex` for the guard that its own `lockData` keeps.

Fairness of `refinement`. The steps of a thread that are not a client's own
choice are strongly fair: the scheduler runs every thread, the library's mutexes
do not starve a thread that asks again and again (strong, since such a mutex is
free only now and then), and `wait_for` with a timeout comes to its end. Nothing
is assumed of clients: a wrapper may stay open for ever, and what waits for it
then returns by its timeout.

Fairness of `queue` and `singleton`. Threads are scheduled and mutexes do not
starve those that call or work (strong, as above; weak suffices for the
cleaner), and the process function returns. No client is made to call, and no
spurious wakeup is taken for granted, though they may happen. `CallsReturn` is
about the calls on a queue that was constructed (not the constructor) and has a
process function, `Served` about plain use too, and
`GetReturns` holds unless the instance was deleted; the section on known
behaviour says why.

### Known behaviour of the queue and the singleton

What the model shows of the code, and the properties therefore do not claim:

* the constructor as written never returns: it blocks or throws
  (`queue_normal.h:100`, `:50`), and no worker is started. The run has it in both
  builds; every claim about calls and tasks is about the repaired one;
* a worker without process function takes `m_mutex` with `m_mutexContainer` in
  its hands (`:111`), `AddTask` the other way round: both wait for ever. If it gets
  `m_mutex` it locks `m_mutexContainer` once more (`:60`), and blocks or throws;
* tasks added before `SetState(WORKING)` can be left lying: the notification
  comes without `m_mutexContainer` (`:143`), between a worker's look and its
  sleep, and the next one only with the next task;
* a worker that sleeps is not reached by `forceStop`, since the wait's predicate
  does not look at `bForce` (`:104`); and nothing starts workers again after a
  stop: those of a queue set to `WORKING` once more end after one more task;
* `StopThreads` does nothing on a queue that is `THREADS_STOPPED` by `SetState`
  or has never been opened (`:155`);
* a clearing stop does not reach a task in a worker's hand, which comes back to
  the container if it fails (`:126`); `StopClears` says how many such there are;
* the deletion of a singleton never ends, and every later creation waits for it.

## Proofs

For all values of the constants that satisfy the named assumptions
(`LockTypesAssumption`: mutex ids are naturals and there is one;
`TrackerAssumption`: threads and workers are different, null values are no
addresses; `WrapperAssumption`):

* `TypeCorrect`: `Spec => []TypeOK`. Type correctness is inductive. What it says
  beyond types is that no `lockCount` is decremented below zero.
* `ReorderIsSafe`: `Spec => []ReorderSafe`, under every client feature. Not
  inductive as it stands: `CallInv` adds that a reordering thread keeps
  `m_mutexData`, that its whole vector is registered since `BeginReorder`, and
  that a thread between `AddToHeldLocks` and `NeedToReset` has recorded its
  mutex, which nobody but itself can take back.
* `OwnersAreRecorded`: `Spec => []HeldCoversOwned` if clients give no callback.
  `OwnedInv` adds that a lock registered for a mutex is a lock of that mutex
  (`Placed`), that the lock a call is about to own is of the mutex it asked for
  (`CallPlaced`), and the crux, `ForgetsUnowned`: when a thread takes a mutex
  out of its vector, it owns nothing registered there *since it unregistered*,
  because a lock object registered later is a new one, whose owner it can become
  only by a call of its own. Most steps leave all this alone (`QuietStep`); one
  lemma covers them. With callbacks a release makes its thread owner of a lock
  object that need not be the one it took, which the argument does not cover.

*Plain use* (`PlainUse`, an assumption of the theorems of `PlainUseProofs`) is
that clients use none of the `Features` and that at most one thread reads any
given mutex (`OneReader`); different mutexes may have different readers, and
threads, mutexes, wrappers and their nesting are as many as one likes. It is the
workload of `sole_reader` and `refinement`. Nothing weaker will do for exclusion:
`shared_readers` breaks it without `OneReader`, `second_attempt` without the
order of requests, and a conversion releases what an open wrapper relies on.
The theorems:

* `WritersExclude` (`MutualExclusion`), `WrappersStayBacked` (`WrappersBacked`),
  `HeldIsWhatIsOpen` (`HeldMatchesWrappers`), `NobodyWaitsInACycle`
  (`NoWaitCycle`), `WriteLocksAreOwnedOnce` (`WriteLockHasOneOwner`),
  `NothingLeaks` (`QuiescentClean`), `SuccessIsOwned` (`SuccessOwns`) and
  `NobodyElseUndoes`, the action property `GuardKept`.

All follow from one inductive invariant, `PlainInv`, since none is inductive
alone. Its idea is that nobody but the thread that registered a lock object ever
owns it: whoever else finds it sees a guard and no owner of its own, waits and
gives up. It has three parts:

* `ThreadInv`: where a thread can be and which references it then has, that what
  it asks for is allowed (with a wrapper open for reading only it asks for no
  write, and it asks for no write below a mutex it has), and what its
  `m_heldLocks` contains at each place.
* `ResidentInv`: a thread is *resident* at a mutex while it has claims there
  (`Claims`: its wrappers, one just granted, one being released), registers it, or
  is closing it. There is one resident at most, one whenever a lock is
  registered, and the `lockCount` of the registered lock is exactly the
  resident's claims and 0 for everybody else.
* `LockInv`: objects that are not registered have no owners, and a registered
  object has its guard unless its resident is inside `CreateGuard`; only the
  resident is ever blocked with `m_classMutex`.

Each of the steps that move claims has a lemma; steps that move nothing but a
program counter and a local pointer share one. `AccessRefinementProofs` then
shows `PromiseKeptByEveryStep`: in plain use every initial state of `DataWrapper`
is one of `DataAccess` (`open` is `wrappers`, `call` is read off the program
counter) and every step is a step of `DataAccess` or changes neither. The one
step with content is the grant, whose guard is exclusion and comes from
`ResidentInv`.

Clients that *share* (`Shared`, the assumption of `ConversionProofs`) may have any
number of readers and writers of the same data, nest, upgrade, overwrite and time
out; they give no callback, and no thread writes below a mutex it ever asks for
(`NoReorder`). The last is what keeps `ReorderAll` away, since a stale
`m_heldLocks` can call for a reorder that no open wrapper explains. Without it the
statement is false: `ReorderAll` drops the guards of open wrappers
(`thread_tracker.h:149`), a write lock without guard is `AVAIL`, and another
thread joins it. TLC shows it when the `INVARIANT` of `second_attempt.cfg` is
`WriteLockHasOneOwner`. The workload is that of `conversion`.
Exclusion and the counts are lost there, and what is proved is

* `SharedWriteLocksAreOwnedOnce` (`WriteLockHasOneOwner`), and
* `SharedNothingLeaks` (`QuiescentClean`), if nobody overwrites.

`SharedInv` is weaker than `PlainInv` where sharing breaks it and needs parts of
its own. A thread is a *claimant* of a lock object if it owns it or is in the
middle of joining it (`Joins`: after `CanAcquire` said yes, before the count), and
it *releases* the object from `RemoveOwnership` to `RemoveFromMutexes`.

* `OneClaimant`: a write lock has one claimant. `CanAcquire` lets in whoever finds
  no guard, so this needs the guards (`ObjectInv`, as in plain use): an object
  somebody can look at has its guard or somebody in `CreateGuard` with
  `m_classMutex`, without which nobody looks.
* `SomeHolder`: a registered lock has a claimant or a thread that releases it. When
  a releaser leaves because it saw owners, one of them is the holder; when it
  unregisters, it is its own lock's mutex that goes, so that no other's holder is
  lost. A lock registered in place of the one that was erased has its registrar.
* `AtMostClaims`: no `lockCount` of a registered lock exceeds the wrappers and calls
  that will give it back. It is at most, not exactly, for a lock may be registered
  under wrappers whose own lock was erased; an overwritten wrapper gives nothing
  back, hence the restriction.
* `SharedCall`: the references of a call, `CallAsked` (what a thread has recorded
  it has asked for, from which `NeedToReset` answers no) and `Missed`: a thread whose
  lock was erased between `FindToRelease` and `RemoveOwnership` owns nothing of what
  was registered since, so that the claim it gives up is not counted elsewhere.

With all threads idle a holder can only be an owner, and an owner without claims
contradicts `AtMostClaims`. Most steps move on in a call and share the lemmas
`MovesKeep` and `MovesOn`; the two that change a count share `CountStepShared`, the
two around `CreateGuard` `GuardStepShared`.

For the queue (`QueueAssumption`: the threads are different, the sizes positive;
`NoTaskAssumption`), whatever its number of workers, with either constructor, and
whether or not clients keep to plain use:

* `QueueTypeCorrect` and `FrontIsThere`: `Spec => []TypeOK`, `Spec =>
  []FrontExists`. Neither is inductive: that a worker's hand gets a task needs a
  container that is not empty, which needs `m_mutexContainer`. `QueueInv` adds
  `ContainerHeld` (who is inside a section of `m_mutexContainer` has it),
  `HandsFull` (a hand is full exactly while its worker processes or retries),
  `Construction` (workers that were not started are unborn) and `ForceIndex`
  (the loop of `StopThreads` counts from the first worker). One lemma for each
  action, one step for each part.
* `QueueIsBounded`: `Spec => []QueueBounded`. `TaskSteps` says that all steps but
  five leave the hands alone and shrink the container at most; those five move
  the length and the number of full hands against each other, and a push is
  bounded because no more hands are full than workers were started.
* `EachTaskOnce`: `Spec => []TaskOnce`, with `Numbered`, that no task has a number
  that has not been given out. What is left of a container when tasks are
  erased, cleared or popped is a part of it (`PartOf`), each at a place of its own.
* `StopLeavesHands`: `Spec => []StopClears`. `SoloInv` says that with one client
  in plain use nobody else sets the state and no call that pushes is under way
  when the queue is stopped; `LeavesHands` is the bound from the stop's return on,
  which the steps of `TaskSteps` keep: a retry moves a task from a hand to the
  container, and no push comes.

* `QueueKeepsPool`: `Spec => KeepsPool`, the refinement of `TaskPool`, for any
  configuration and with no bound on tasks. The proof reads the status of a task
  off two sets, the numbers in the container and those in hands, and turns each
  action into what it does to them. It needs `TaskOnce`, that numbers are given
  out in order (`Numbered`), and `InOrder`: tasks never tried are in the
  container in the order of their numbers, so that a retry cannot overtake
  them, and a worker about to push a task back has seen it fail. Tasks
  that have failed may be anywhere among them, which is why `TaskPool` promises
  an order only among the untried.

For the singleton, `OneObject`: `Spec => []OneInstance`, for any set of threads.
The invariant says that only the thread that has the mutex is between its second
look and the store, and that until then nothing was created.

Only model-checked:

* Liveness, which is out of the prover's reach: `CallsReturn`, `Served`,
  `GetReturns`, the absence of deadlocks, and that calls return in `KeepsPromise`.
* The tracker's properties with operations: `WriteLockHasOneOwner`, `QuiescentClean`
  and `HeldCoversOwned`. `QuiescentClean` fails with overwritten wrappers, whose
  counts nobody gives back.

## Not modelled

* The random generator: the threads of the example share an `mt19937` without a
  mutex, a data race whose only effect is which numbers come out.
* The person map of `example.cpp` and `Add`: all persons are added before the
  first thread starts, under a mutex, and none is ever taken out, so that
  `Access` to data that does not exist returns a wrapper that does nothing. The
  statistics of the example threads.
* The task service beyond what its users see: whether `forceStop` waits, or what
  two tasks of one name do, is decided in code that is not in the repository.
* `PrintAll`, held times and all logging; build files.

## Plan

1. Proofs: `WriteLockHasOneOwner` and `QuiescentClean` with operations, where a
   releaser that finds some becomes owner once more and its task is the holder.
2. `GuardKept` for descending requests, and a refinement with two mutexes.
