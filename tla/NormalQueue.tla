----------------------------- MODULE NormalQueue -----------------------------
(***************************************************************************)
(* CNormalQueue (Source/Improved/queue_normal.h): clients add tasks to a   *)
(* bounded queue, workers take and process them with retries, a cleaner    *)
(* drops the old ones, and anybody may change the state of the queue or    *)
(* stop it.  An action is the code from one lock, unlock or wait to the    *)
(* next.  The task service (futureInstance) starts a worker for addTask,   *)
(* and forceStop sets the worker's bForce without waiting for it.          *)
(***************************************************************************)
EXTENDS Naturals, SequencesExt

CONSTANTS Clients,     \* threads that use the queue
          Owner,       \* the client that constructs it
          Cleaner,     \* the thread of the cleaner task
          NoThread,    \* no thread: a mutex is free
          NoTask,      \* no task in a worker's hand
          MaxWorkers,  \* MAX_WORKER_THREAD_COUNT
          MaxQueue,    \* MAX_QUEUE_SIZE
          MaxRetry,    \* MAX_RETRY_COUNT
          Configs,     \* what constructor and clients may choose, see below
          BatchSizes,  \* sizes of the vectors given to AddBatchTasks
          MaxTasks     \* bound: tasks added in any behaviour

Workers == 1 .. MaxWorkers
Actors == Clients \cup Workers \cup {Cleaner}
EQueueState == {"WORKING", "IDLE", "THREADS_STOPPED"}

(***************************************************************************)
(* workers: m_workerThreadCount, clamped from a value never initialised.   *)
(* clients: those that call.  func: m_processFunc is not empty.  plain:    *)
(* they keep to plain use, in which the owner sets WORKING before anybody  *)
(* has the queue, nobody sets the state after that, tasks are added while  *)
(* it is WORKING, and it is stopped as the destructor does, with           *)
(* bClearTasks.  tasks: bound on the tasks they add.                       *)
(*                                                                         *)
(* relock: what locking a std::mutex that the thread has, undefined in     *)
(* C++, does in the build: it blocks (pthread) or throws system_error      *)
(* (MSVC's library).  repaired: a supposition.  The constructor relocks    *)
(* m_mutex, so that in no build of the code as written, FALSE, does anybody*)
(* get a queue.  TRUE is the code whose StartThreads composes the names of *)
(* the workers without m_mutex; all else is as written.                    *)
(***************************************************************************)
AllConfigs ==
  [workers : Workers, clients : SUBSET Clients, func : BOOLEAN, plain : BOOLEAN,
   tasks : 0 .. MaxTasks, relock : {"blocks", "throws"}, repaired : BOOLEAN]

ASSUME QueueAssumption ==
  /\ Owner \in Clients
  /\ Cleaner \notin Clients \cup Workers
  /\ Clients \cap Workers = {}
  /\ NoThread \notin Actors
  /\ MaxWorkers \in Nat \ {0}
  /\ MaxQueue \in Nat \ {0}
  /\ MaxRetry \in Nat \ {0}
  /\ Configs \subseteq AllConfigs
  /\ BatchSizes \subseteq Nat
  /\ MaxTasks \in Nat

\* id numbers the tasks in the order of their m_enqueue_time
Tasks == [id : Nat \ {0}, retry : 0 .. MaxRetry - 1]

ASSUME NoTaskAssumption == NoTask \notin Tasks

VARIABLES
  config,          \* the choice among Configs
  state,           \* m_state
  container,       \* m_container
  added,           \* number of tasks added so far
  mutex,           \* who holds m_mutex
  containerMutex,  \* who holds m_mutexContainer
  pc,              \* the section an actor is about to enter
  hand,            \* the task a worker has moved out of the container
  force,           \* actors whose bForce is set
  call             \* arguments and loop variable of the call an actor is in

vars == <<config, state, container, added, mutex, containerMutex, pc, hand, force, call>>

(***************************************************************************)
(* n: tasks left to add, or the loop index of StartThreads or StopThreads. *)
(* to: the state asked for.  all: bClearTasks, or AddBatchTasks rather     *)
(* than AddTask.                                                           *)
(***************************************************************************)
CallRecords == [n : Nat, to : EQueueState, all : BOOLEAN]

NoCall == [n |-> 0, to |-> "WORKING", all |-> FALSE]

\* Arguments and loop variables are gone when a call returns
Return(a) == call' = [call EXCEPT ![a] = NoCall]

\* An actor goes from one section to another
Moves(a, from, to) == pc[a] = from /\ pc' = [pc EXCEPT ![a] = to]

\* The sections in which nothing but the actor's place changes, or a mutex does
Jump(a, from, to) ==
  /\ Moves(a, from, to)
  /\ UNCHANGED <<config, state, container, added, mutex, containerMutex, hand, force, call>>

LockMutex(a, from, to) ==
  /\ Moves(a, from, to)
  /\ mutex = NoThread
  /\ mutex' = a
  /\ UNCHANGED <<config, state, container, added, containerMutex, hand, force, call>>

LockContainer(a, from, to) ==
  /\ Moves(a, from, to)
  /\ containerMutex = NoThread
  /\ containerMutex' = a
  /\ UNCHANGED <<config, state, container, added, mutex, hand, force, call>>

UnlockContainer(a, from, to) ==
  /\ Moves(a, from, to)
  /\ containerMutex' = NoThread
  /\ UNCHANGED <<config, state, container, added, mutex, hand, force, call>>

CanTake == container # <<>> /\ state = "WORKING"

\* Slip: nobody is notified
NoneAwoken(awake) == pc

\* What a notification does to the workers it wakes
Awoken(awake) == [a \in Actors |-> IF pc[a] = "asleep" /\ a \in awake THEN "lock" ELSE pc[a]]

-----------------------------------------------------------------------------
(* The constructor                                                         *)

\* StartThreads takes m_mutex and starts the cleaner
StartThreads ==
  /\ pc[Owner] = "construct"
  /\ mutex = NoThread
  /\ mutex' = Owner
  /\ pc' = [pc EXCEPT ![Owner] = "start", ![Cleaner] = "check"]
  /\ call' = [call EXCEPT ![Owner].n = 1]
  /\ UNCHANGED <<config, state, container, added, containerMutex, hand, force>>

\* addTask for each worker, under a name that the repaired code has without a lock
StartWorker ==
  /\ pc[Owner] = "start"
  /\ call[Owner].n <= config.workers
  /\ config.repaired
  /\ pc' = [pc EXCEPT ![call[Owner].n] = "top"]
  /\ call' = [call EXCEPT ![Owner].n = @ + 1]
  /\ UNCHANGED <<config, state, container, added, mutex, containerMutex, hand, force>>

\* As written, GetTaskName relocks m_mutex for the first name.  Unless the owner
\* is blocked there, an exception leaves the constructor; the cleaner goes on.
ConstructorThrows ==
  /\ Moves(Owner, "start", "thrown")
  /\ ~config.repaired
  /\ config.relock = "throws"
  /\ mutex' = NoThread
  /\ Return(Owner)
  /\ UNCHANGED <<config, state, container, added, containerMutex, hand, force>>

\* The clients get the queue; in plain use its owner opens it first
Constructed ==
  /\ pc[Owner] = "start"
  /\ call[Owner].n > config.workers
  /\ mutex' = NoThread
  /\ pc' = [a \in Actors |-> IF a = Owner /\ config.plain THEN "setState"
                             ELSE IF a \in config.clients \cup {Owner} THEN "idle" ELSE pc[a]]
  /\ Return(Owner)
  /\ UNCHANGED <<config, state, container, added, containerMutex, hand, force>>

-----------------------------------------------------------------------------
(* What a client may call                                                  *)

Adding == {c \in Clients : pc[c] \in {"add", "lockToPush", "push"}}

\* Bound: config.tasks tasks are added.  In plain use the queue must be WORKING.
MayAdd(n) ==
  /\ added + n + FoldFunctionOnSet(+, 0, [c \in Clients |-> call[c].n], Adding) <= config.tasks
  /\ config.plain => state = "WORKING"

\* A client calls a method, with n tasks or the state `to'
Calls(c, method, n, to, all) ==
  /\ Moves(c, "idle", method)
  /\ call' = [call EXCEPT ![c] = [n |-> n, to |-> to, all |-> all]]
  /\ UNCHANGED <<config, state, container, added, mutex, containerMutex, hand, force>>

Call(c) ==
  \/ ~config.plain /\ \E s \in EQueueState : Calls(c, "setState", 0, s, FALSE)
  \/ /\ state # "THREADS_STOPPED"
     /\ \E clear \in BOOLEAN :
          (config.plain => clear) /\ Calls(c, "stop", 0, "WORKING", clear)
  \/ MayAdd(1) /\ Calls(c, "add", 1, "WORKING", FALSE)
  \/ \E n \in BatchSizes : MayAdd(n) /\ Calls(c, "add", n, "WORKING", TRUE)
  \/ Calls(c, "remove", 0, "WORKING", FALSE)

\* m_state changes and every waiting worker is notified; no change, no notification
StateChange(s) ==
  /\ state' = s
  /\ UNCHANGED <<config, container, added, mutex, containerMutex, hand, force>>

Notified(a, label, s) ==
  pc' = [Awoken(IF s = state THEN {} ELSE Workers) EXCEPT ![a] = label]

SetState(c) ==
  /\ pc[c] = "setState"
  /\ mutex = NoThread
  /\ StateChange(call[c].to)
  /\ Notified(c, "idle", call[c].to)
  /\ Return(c)

-----------------------------------------------------------------------------
(* StopThreads of a client, or of a worker that has no process function    *)

\* Slip: m_mutex is kept, for GetTaskName to lock it again as in StartThreads
KeepMutex(a) ==
  /\ pc[a] = "stop"
  /\ mutex = NoThread
  /\ mutex' = a
  /\ state' = "THREADS_STOPPED"
  /\ Notified(a, "force", "THREADS_STOPPED")
  /\ call' = [call EXCEPT ![a].n = 1]
  /\ UNCHANGED <<config, container, added, containerMutex, hand, force>>

SetStopped(a) ==
  /\ pc[a] = "stop"
  /\ mutex = NoThread
  /\ StateChange("THREADS_STOPPED")
  /\ Notified(a, "force", "THREADS_STOPPED")
  /\ call' = [call EXCEPT ![a].n = 1]

\* forceStop of a worker, whose name GetTaskName computes under m_mutex
ForceWorker(a) ==
  /\ pc[a] = "force"
  /\ call[a].n <= config.workers
  /\ mutex = NoThread
  /\ force' = force \cup {call[a].n}
  /\ call' = [call EXCEPT ![a].n = @ + 1]
  /\ UNCHANGED <<config, state, container, added, mutex, containerMutex, pc, hand>>

ForceCleaner(a) ==
  /\ Moves(a, "force", "clear")
  /\ call[a].n > config.workers
  /\ force' = force \cup {Cleaner}
  /\ call' = [call EXCEPT ![a].n = 0]
  /\ UNCHANGED <<config, state, container, added, mutex, containerMutex, hand>>

\* Stop takes m_mutex ...
EnterStop(a) == LockMutex(a, "clear", "clearing")

\* Slip: nothing is cleared
Kept(a) == container

\* bClearTasks
Cleared(a) == IF call[a].all THEN <<>> ELSE container

\* Slip: the container is cleared without its mutex
MayClearAnyTime == TRUE

MayClear == containerMutex = NoThread

\* ... and m_mutexContainer
Stop(a) ==
  /\ Moves(a, "clearing", "idle")
  /\ MayClear
  /\ container' = Cleared(a)
  /\ mutex' = NoThread
  /\ Return(a)
  /\ UNCHANGED <<config, state, added, containerMutex, hand, force>>

\* A worker without process function has m_mutexContainer already.  Unless it
\* is blocked there for ever, the exception unlocks both and ends its task.
StopThrows(w) ==
  /\ Moves(w, "clearing", "ended")
  /\ containerMutex = w
  /\ config.relock = "throws"
  /\ mutex' = NoThread
  /\ containerMutex' = NoThread
  /\ Return(w)
  /\ UNCHANGED <<config, state, container, added, hand, force>>

-----------------------------------------------------------------------------
(* AddTask and AddBatchTasks; RemoveTask                                   *)

EnterAdd(c) == LockMutex(c, "add", "lockToPush")

LockToPush(c) == LockContainer(c, "lockToPush", "push")

\* Slip: one task too many
LateRoom == IF Len(container) > MaxQueue THEN Tail(container) ELSE container

\* The oldest task makes room for a new one
Room == IF Len(container) >= MaxQueue THEN Tail(container) ELSE container

Push(c) ==
  /\ pc[c] = "push"
  /\ call[c].n > 0
  /\ container' = Append(Room, [id |-> added + 1, retry |-> 0])
  /\ added' = added + 1
  /\ call' = [call EXCEPT ![c].n = @ - 1]
  /\ UNCHANGED <<config, state, mutex, containerMutex, pc, hand, force>>

\* notify_one wakes one waiting worker, notify_all every one.  The unlock just
\* before it is part of the step: whoever looks in between sees the tasks.
Notify(c) ==
  /\ pc[c] = "push"
  /\ call[c].n = 0
  /\ containerMutex' = NoThread
  /\ LET asleep == {w \in Workers : pc[w] = "asleep"} IN
     IF call[c].all \/ asleep = {}
     THEN pc' = [Awoken(Workers) EXCEPT ![c] = "idle"]
     ELSE \E w \in asleep : pc' = [Awoken({w}) EXCEPT ![c] = "idle"]
  /\ mutex' = NoThread
  /\ Return(c)
  /\ UNCHANGED <<config, state, container, added, hand, force>>

\* A loop over the container erases one of the tasks
Erase(i) ==
  /\ container' = RemoveAt(container, i)
  /\ UNCHANGED <<config, state, added, mutex, containerMutex, pc, hand, force, call>>

\* RemoveTask erases the tasks its caller's function picks
RemoveTask(c) ==
  \/ LockContainer(c, "remove", "removing")
  \/ pc[c] = "removing" /\ \E i \in DOMAIN container : Erase(i)
  \/ UnlockContainer(c, "removing", "idle")

-----------------------------------------------------------------------------
(* The cleaner                                                             *)

CheckCleanerForce == Jump(Cleaner, "check", IF Cleaner \in force THEN "ended" ELSE "expire")

\* Any task may be older than OPERATION_TIMEOUT, but then so are those added
\* before it, whose m_enqueue_time a retry does not renew
FirstAdded(i) == \A j \in DOMAIN container : container[i].id <= container[j].id

Clean ==
  \/ LockContainer(Cleaner, "expire", "expiring")
  \/ pc[Cleaner] = "expiring" /\ \E i \in DOMAIN container : FirstAdded(i) /\ Erase(i)
  \/ UnlockContainer(Cleaner, "expiring", "check")

-----------------------------------------------------------------------------
(* A worker                                                                *)

CheckForce(w) == Jump(w, "top", IF w \in force THEN "ended" ELSE "lock")

\* The lock and a look of the wait's predicate; also what happens on a wakeup
Look(w) == LockContainer(w, "lock", IF CanTake THEN "ready" ELSE "drowsy")

\* The wait begins: from here on a notification is not missed
Sleep(w) == UnlockContainer(w, "drowsy", "asleep")

SpuriousWakeup(w) == Jump(w, "asleep", "lock")

\* Without a process function: StopThreads(true), which returns at once or never,
\* m_mutexContainer in the worker's hands all the time
StopQueue(w) ==
  /\ ~config.func
  /\ Moves(w, "ready", IF state = "THREADS_STOPPED" THEN "break" ELSE "stop")
  /\ call' = [call EXCEPT ![w].all = state # "THREADS_STOPPED"]
  /\ UNCHANGED <<config, state, container, added, mutex, containerMutex, hand, force>>

Break(w) == UnlockContainer(w, "break", "ended")

\* The state may have changed since the predicate saw it
Recheck(w) ==
  /\ config.func
  /\ \/ state = "WORKING" /\ Jump(w, "ready", "take")
     \/ state # "WORKING" /\ UnlockContainer(w, "ready", "top")

\* Slips: back() for front(); no pop_front(); one retry too many
Newest == Last(container)
Unpopped == container
MayRetryOnceMore(task) == task.retry + 1 <= MaxRetry

Oldest == Head(container)
Popped == Tail(container)
MayRetry(task) == task.retry + 1 < MaxRetry

Take(w) ==
  /\ Moves(w, "take", "run")
  /\ hand' = [hand EXCEPT ![w] = Oldest]
  /\ container' = Popped
  /\ containerMutex' = NoThread
  /\ UNCHANGED <<config, state, added, mutex, force, call>>

\* m_processFunc runs with no mutex held.  The task is done, or has failed for
\* the last time and is dropped without a word, ...
Succeed(w) ==
  /\ Moves(w, "run", "top")
  /\ hand' = [hand EXCEPT ![w] = NoTask]
  /\ UNCHANGED <<config, state, container, added, mutex, containerMutex, force, call>>

\* ... or is to be tried again
Fail(w) ==
  /\ Moves(w, "run", "retry")
  /\ MayRetry(hand[w])
  /\ hand' = [hand EXCEPT ![w].retry = @ + 1]
  /\ UNCHANGED <<config, state, container, added, mutex, containerMutex, force, call>>

\* Back into the container, without a look at its size and without a notification
PushBack(w) ==
  /\ Moves(w, "retry", "top")
  /\ containerMutex = NoThread
  /\ container' = Append(container, hand[w])
  /\ hand' = [hand EXCEPT ![w] = NoTask]
  /\ UNCHANGED <<config, state, added, mutex, containerMutex, force, call>>

-----------------------------------------------------------------------------

Init ==
  /\ config \in Configs
  /\ state = "THREADS_STOPPED"
  /\ container = <<>>
  /\ added = 0
  /\ mutex = NoThread
  /\ containerMutex = NoThread
  /\ pc = [a \in Actors |-> IF a = Owner THEN "construct" ELSE "unborn"]
  /\ hand = [w \in Workers |-> NoTask]
  /\ force = {}
  /\ call = [a \in Actors |-> NoCall]

ConstructorStep == StartThreads \/ StartWorker \/ ConstructorThrows \/ Constructed

StopStep(a) == SetStopped(a) \/ ForceWorker(a) \/ ForceCleaner(a) \/ EnterStop(a) \/ Stop(a)

AddStep(c) == EnterAdd(c) \/ LockToPush(c) \/ Push(c) \/ Notify(c)

CallStep(c) ==
  \/ c = Owner /\ ConstructorStep
  \/ SetState(c) \/ StopStep(c) \/ AddStep(c) \/ RemoveTask(c)

CleanerStep == CheckCleanerForce \/ Clean

WorkerStep(w) ==
  \/ CheckForce(w) \/ Look(w) \/ Sleep(w) \/ StopQueue(w) \/ StopStep(w) \/ StopThrows(w)
  \/ Break(w) \/ Recheck(w) \/ Take(w) \/ Succeed(w) \/ Fail(w) \/ PushBack(w)

Next == \/ CleanerStep
        \/ \E c \in Clients : Call(c) \/ CallStep(c)
        \/ \E w \in Workers : WorkerStep(w) \/ SpuriousWakeup(w)

Spec == Init /\ [][Next]_vars

(***************************************************************************)
(* Every thread is scheduled, the mutexes do not starve those who call or  *)
(* work, and the process function returns.  Nothing makes a client call,   *)
(* and no wakeup comes without a notification.                             *)
(***************************************************************************)
Fairness ==
  /\ WF_vars(CleanerStep)
  /\ \A c \in Clients : SF_vars(CallStep(c))
  /\ \A w \in Workers : SF_vars(WorkerStep(w))

FairSpec == Spec /\ Fairness

-----------------------------------------------------------------------------
(* Properties.  Tasks are only added, and calls made, if config.repaired.  *)
(* What else one needs is in its premises: config.func, config.plain.      *)

PcLabels ==
  {"unborn", "construct", "start", "thrown", "idle", "setState", "stop", "force", "clear", "clearing",
   "add", "lockToPush", "push", "remove", "removing", "check", "expire", "expiring",
   "top", "lock", "drowsy", "asleep", "ready", "take", "run", "retry", "break", "ended"}

\* Every variable has its type; a task that is queued or in hand has failed
\* less than MAX_RETRY_COUNT times.
TypeOK ==
  /\ config \in Configs
  /\ state \in EQueueState
  /\ container \in Seq(Tasks)
  /\ added \in Nat
  /\ mutex \in Actors \cup {NoThread}
  /\ containerMutex \in Actors \cup {NoThread}
  /\ pc \in [Actors -> PcLabels]
  /\ hand \in [Workers -> Tasks \cup {NoTask}]
  /\ force \subseteq Actors
  /\ call \in [Actors -> CallRecords]

Busy == {w \in Workers : hand[w] # NoTask}

\* Retries are pushed back without a look at MAX_QUEUE_SIZE (line 126), but
\* never take the queue above it by more than the number of workers, whoever
\* adds while they process.
QueueBounded == Len(container) + Cardinality(Busy) <= MaxQueue + config.workers

\* A task is in one place: once in the container, or in one worker's hand,
\* through retries, restarts and clearing stops.
TaskOnce ==
  /\ \A i, j \in DOMAIN container : container[i].id = container[j].id => i = j
  /\ \A w \in Busy :
       /\ \A i \in DOMAIN container : container[i].id # hand[w].id
       /\ \A v \in Busy : hand[v].id = hand[w].id => v = w

\* front() and pop_front() find a task: nobody clears, removes or expires it
\* between the wait's predicate and the move (lines 104-119).
FrontExists ==
  \A w \in Workers : pc[w] \in {"ready", "take"} => container # <<>>

\* The queue of one client, in plain use
Solo == config.func /\ config.plain /\ config.clients = {Owner}

\* When StopThreads(true) of the only client has returned, no task is left but
\* those that were in a worker's hand (line 122): they are still processed,
\* and pushed back if they fail, after the clear of line 168.
StopClears ==
  Solo /\ state = "THREADS_STOPPED" /\ pc[Owner] = "idle"
    => Len(container) + Cardinality(Busy) <= config.workers

\* The sections of the public methods
InCall(c) ==
  pc[c] \in {"setState", "stop", "force", "clear", "clearing", "add", "lockToPush", "push",
            "remove", "removing"}

\* Every call on a queue that was constructed returns, whatever the other
\* clients call: StopThreads comes to its end through the three sections of
\* m_mutex it is made of (lines 158-169) while others stop, add and set the
\* state, and AddTask gets m_mutexContainer, with m_mutex in its hands, from
\* the workers (line 175).
CallsReturn ==
  \A c \in Clients : config.func /\ InCall(c) ~> pc[c] = "idle"

\* In plain use no wakeup is lost: the tasks of a queue that is WORKING are
\* worked off, or somebody stops it (lines 104, 143, 181, 202).
Served ==
  config.func /\ config.plain /\ container # <<>> ~> container = <<>> \/ state # "WORKING"

=============================================================================
