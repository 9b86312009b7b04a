------------------------ MODULE QueueRefinementProofs ------------------------
(***************************************************************************)
(* NormalQueue implements TaskPool, for all clients, workers, sizes and    *)
(* configurations.  The proof goes by way of two sets: the tasks that are  *)
(* queued, and those that are held by a worker, each with its tries.       *)
(***************************************************************************)
EXTENDS QueueRefinement, NormalQueueProofs

Queued == {container[i] : i \in DOMAIN container}

HeldBy(w) ==
  [id |-> hand[w].id, tries |-> hand[w].retry + IF pc[w] = "run" THEN 1 ELSE 0]

Held == {HeldBy(w) : w \in Busy}

UntriedInOrder(s) ==
  \A i, j \in DOMAIN s : i < j /\ s[i].retry = 0 /\ s[j].retry = 0 => s[i].id < s[j].id

\* Untried tasks are in the order of their numbers: a retry, which goes to the
\* end, has been tried.  A task about to be pushed back has failed.
InOrder ==
  /\ UntriedInOrder(container)
  /\ \A w \in Workers : pc[w] = "retry" => hand[w].retry > 0

\* A number belongs to one task, queued or held, and has been given out
Apart ==
  /\ Queued \subseteq Tasks
  /\ Held \subseteq [id : Nat, tries : 1 .. MaxRetry]
  /\ \A q, r \in Queued : q.id = r.id => q = r
  /\ \A h, k \in Held : h.id = k.id => h = k
  /\ \A q \in Queued, h \in Held : q.id # h.id
  /\ \A q \in Queued : q.id <= added
  /\ \A h \in Held : h.id <= added

\* Status and Tries, read off the two sets
Placed ==
  \A id \in TaskIds :
    /\ id > added => Status(id) = "new" /\ Tries(id) = 0
    /\ \A h \in Held : h.id = id => Status(id) = "running" /\ Tries(id) = h.tries
    /\ \A q \in Queued : q.id = id => Status(id) = "waiting" /\ Tries(id) = q.retry
    /\ \/ id > added
       \/ \E h \in Held : h.id = id
       \/ \E q \in Queued : q.id = id
       \/ Status(id) = "gone" /\ Tries(id) = 0

QueueState == QueueInv /\ TaskOnce /\ Numbered /\ InOrder

LEMMA HeldShape ==
  ASSUME QueueState, NEW w \in Busy
  PROVE  /\ w \in Workers /\ hand[w] \in Tasks /\ hand[w].id <= added
         /\ pc[w] \in Processing
         /\ HeldBy(w) \in [id : Nat, tries : 1 .. MaxRetry]
<1>1. w \in Workers /\ hand[w] \in Tasks /\ hand[w].id <= added /\ pc[w] \in Processing
  BY DEF QueueState, QueueInv, TypeOK, HandsFull, Numbered, Busy
<1>2. pc[w] = "run" \/ hand[w].retry > 0
  BY <1>1 DEF QueueState, InOrder, Processing
<1> QED
  BY <1>1, <1>2, QueueAssumption DEF HeldBy, Tasks

LEMMA StateIsApart == QueueState => Apart
<1> SUFFICES ASSUME QueueState PROVE Apart
  OBVIOUS
<1>1. Queued \subseteq Tasks
  BY ElementOfSeq, LenProperties DEF QueueState, QueueInv, TypeOK, Queued
<1>2. Held \subseteq [id : Nat, tries : 1 .. MaxRetry] /\ \A h \in Held : h.id <= added
  BY HeldShape DEF Held, HeldBy
<1>3. \A q, r \in Queued : q.id = r.id => q = r
  BY DEF QueueState, TaskOnce, Queued
<1>4. \A h, k \in Held : h.id = k.id => h = k
  <2>1. \A v, w \in Busy : HeldBy(v).id = HeldBy(w).id => v = w
    BY DEF QueueState, TaskOnce, HeldBy
  <2> QED
    BY <2>1 DEF Held
<1>5. \A q \in Queued, h \in Held : q.id # h.id
  BY DEF QueueState, TaskOnce, Queued, Held, HeldBy
<1>6. \A q \in Queued : q.id <= added
  BY DEF QueueState, Numbered, Queued
<1> QED
  BY <1>1, <1>2, <1>3, <1>4, <1>5, <1>6 DEF Apart

LEMMA StateIsPlaced == QueueState => Placed
<1> SUFFICES ASSUME QueueState, NEW id \in TaskIds
             PROVE  /\ id > added => Status(id) = "new" /\ Tries(id) = 0
                    /\ \A h \in Held : h.id = id =>
                         Status(id) = "running" /\ Tries(id) = h.tries
                    /\ \A q \in Queued : q.id = id =>
                         Status(id) = "waiting" /\ Tries(id) = q.retry
                    /\ \/ id > added
                       \/ \E h \in Held : h.id = id
                       \/ \E q \in Queued : q.id = id
                       \/ Status(id) = "gone" /\ Tries(id) = 0
  BY DEF Placed
<1>1. id \in Nat /\ added \in Nat
  BY DEF TaskIds, QueueState, QueueInv, TypeOK
<1>2. ASSUME id > added PROVE Status(id) = "new" /\ Tries(id) = 0
  BY <1>2 DEF Status, Tries
<1>3. ASSUME NEW h \in Held, h.id = id
      PROVE  Status(id) = "running" /\ Tries(id) = h.tries
  <2>1. PICK w \in Busy : h = HeldBy(w)
    BY <1>3 DEF Held
  <2>2. hand[w].id = id /\ ~(id > added)
    BY <1>1, <1>3, <2>1, HeldShape DEF HeldBy
  <2>3. InHand(id) = {w}
    BY <2>2 DEF InHand, QueueState, TaskOnce
  <2>4. Status(id) = "running"
    BY <2>2, <2>3 DEF Status
  <2>5. (CHOOSE v \in InHand(id) : TRUE) = w
    BY <2>3
  <2>6. Tries(id) = hand[w].retry + IF pc[w] = "run" THEN 1 ELSE 0
    BY <2>4, <2>5 DEF Tries
  <2> QED
    BY <2>1, <2>4, <2>6 DEF HeldBy
<1>4. ASSUME NEW q \in Queued, q.id = id
      PROVE  Status(id) = "waiting" /\ Tries(id) = q.retry
  <2>1. PICK i \in DOMAIN container : q = container[i]
    BY <1>4 DEF Queued
  <2>2. container[i].id = id /\ ~(id > added)
    BY <1>1, <1>4, <2>1 DEF QueueState, Numbered
  <2>3. InHand(id) = {} /\ Places(id) = {i}
    BY <2>2 DEF InHand, Places, QueueState, TaskOnce
  <2>4. Status(id) = "waiting"
    BY <2>2, <2>3 DEF Status
  <2>5. (CHOOSE j \in Places(id) : TRUE) = i
    BY <2>3
  <2> QED
    BY <2>1, <2>4, <2>5 DEF Tries
<1>5. ASSUME ~(id > added), \A h \in Held : h.id # id, \A q \in Queued : q.id # id
      PROVE  Status(id) = "gone" /\ Tries(id) = 0
  <2>1. Places(id) = {}
    BY <1>5 DEF Places, Queued
  <2>2. \A w \in Busy : HeldBy(w) \in Held /\ HeldBy(w).id = hand[w].id
    BY DEF Held, HeldBy
  <2>3. InHand(id) = {}
    BY <1>5, <2>2 DEF InHand
  <2> QED
    BY <1>5, <2>1, <2>3 DEF Status, Tries
<1> QED
  BY <1>2, <1>3, <1>4, <1>5

-----------------------------------------------------------------------------
(* Steps of the two sets are steps of the pool                             *)

PoolStep == [Pool!Next]_(Pool!vars)

\* Both sets, before and after a step
Views == Placed /\ Placed' /\ Apart /\ added \in Nat

\* What is not touched looks the same
LEMMA SameView ==
  ASSUME Views, NEW id \in TaskIds, id > added <=> id > added',
         \A h \in Held : h.id = id => h \in Held',
         \A h \in Held' : h.id = id => h \in Held,
         \A q \in Queued : q.id = id => q \in Queued',
         \A q \in Queued' : q.id = id => q \in Queued
  PROVE  Status(id)' = Status(id) /\ Tries(id)' = Tries(id)
<1>1. CASE id > added
  BY <1>1 DEF Views, Placed
<1>2. CASE \E h \in Held : h.id = id
  BY <1>2 DEF Views, Placed
<1>3. CASE \E q \in Queued : q.id = id
  BY <1>3 DEF Views, Placed
<1>4. CASE ~(id > added) /\ ~(\E h \in Held : h.id = id) /\ ~(\E q \in Queued : q.id = id)
  <2>1. ~(id > added') /\ ~(\E h \in Held' : h.id = id) /\ ~(\E q \in Queued' : q.id = id)
    BY <1>4
  <2> QED
    BY <1>4, <2>1 DEF Views, Placed
<1> QED
  BY <1>1, <1>2, <1>3, <1>4

\* Nothing moves, or only tasks do that were added too late to be numbered
LEMMA NothingMoves ==
  ASSUME \A id \in TaskIds : Status(id)' = Status(id) /\ Tries(id)' = Tries(id)
  PROVE  PoolStep
BY DEF PoolStep, Pool!vars

\* The numbers of the tasks of D
Numbers(D) == {id \in TaskIds : \E q \in D : q.id = id}

LEMMA QueuedIsWaiting ==
  ASSUME Views, NEW D, D \subseteq Queued
  PROVE  Numbers(D) \subseteq Pool!Waiting
BY DEF Views, Placed, Numbers, Pool!Waiting

\* Tasks that leave the container are dropped
LEMMA DropView ==
  ASSUME Views, NEW D, D \subseteq Queued,
         \A id \in Numbers(D) : Status(id)' = "gone" /\ Tries(id)' = 0,
         \A id \in TaskIds \ Numbers(D) : Status(id)' = Status(id) /\ Tries(id)' = Tries(id)
  PROVE  PoolStep
<1>1. CASE Numbers(D) = {}
  BY <1>1, NothingMoves
<1>2. CASE Numbers(D) # {}
  <2>1. Numbers(D) \in SUBSET Pool!Waiting
    BY QueuedIsWaiting
  <2>2. /\ [id \in TaskIds |-> Status(id)]'
             = Pool!Without(Numbers(D), [id \in TaskIds |-> Status(id)], "gone")
        /\ [id \in TaskIds |-> Tries(id)]'
             = Pool!Without(Numbers(D), [id \in TaskIds |-> Tries(id)], 0)
    BY DEF Pool!Without
  <2>3. Pool!Drop
    BY <1>2, <2>1, <2>2 DEF Pool!Drop
  <2> QED
    BY <2>3 DEF PoolStep, Pool!Next
<1> QED
  BY <1>1, <1>2

\* A task that has left the container and is in nobody's hand is gone
LEMMA GoneView ==
  ASSUME Views, added' >= added, added' \in Nat, Held' = Held, NEW D, D \subseteq Queued,
         Queued' \cap D = {}, NEW id \in Numbers(D),
         \A q \in Queued' : q.id = id => q \in Queued
  PROVE  Status(id)' = "gone" /\ Tries(id)' = 0
<1>1. PICK q \in D : q.id = id
  BY DEF Numbers
<1>2. id \in TaskIds /\ id \in Nat /\ ~(id > added')
  BY <1>1 DEF Numbers, TaskIds, Views, Apart
<1>3. ~(\E h \in Held' : h.id = id) /\ ~(\E r \in Queued' : r.id = id)
  BY <1>1 DEF Views, Apart
<1> QED
  BY <1>2, <1>3 DEF Views, Placed

LEMMA ShrinkIsDrop ==
  ASSUME Views, added' = added, Held' = Held, Queued' \subseteq Queued
  PROVE  PoolStep
<1> DEFINE D == Queued \ Queued'
<1>1. ASSUME NEW id \in Numbers(D) PROVE Status(id)' = "gone" /\ Tries(id)' = 0
  BY <1>1, GoneView DEF Views
<1>2. ASSUME NEW id \in TaskIds \ Numbers(D)
      PROVE  Status(id)' = Status(id) /\ Tries(id)' = Tries(id)
  BY <1>2, SameView DEF Numbers
<1> QED
  BY <1>1, <1>2, DropView

\* A task is added, and the oldest may make room for it
LEMMA PushIsSubmit ==
  ASSUME Views, NEW i, i = added + 1, added' = i, Held' = Held, NEW Q, Q \subseteq Queued,
         \A q, r \in Queued \ Q : q = r, Queued' = Q \cup {[id |-> i, retry |-> 0]}
  PROVE  PoolStep
<1> DEFINE D == Queued \ Q
<1>1. i \in Nat /\ i > added /\ added' \in Nat /\ added' >= added
  BY DEF Views
<1>2. \A q \in Queued : q.id # i
  BY <1>1 DEF Views, Apart, Tasks
<1>3. ASSUME NEW id \in Numbers(D) PROVE Status(id)' = "gone" /\ Tries(id)' = 0
  <2>1. id # i
    BY <1>2, <1>3 DEF Numbers
  <2> QED
    BY <1>1, <1>2, <1>3, <2>1, GoneView
<1>4. ASSUME NEW id \in TaskIds \ Numbers(D), id # i
      PROVE  Status(id)' = Status(id) /\ Tries(id)' = Tries(id)
  <2>1. id > added <=> id > added'
    BY <1>1, <1>4 DEF TaskIds, Views
  <2> QED
    BY <1>4, <2>1, SameView DEF Numbers
<1>5. CASE i \notin TaskIds
  BY <1>3, <1>4, <1>5, DropView
<1>6. CASE i \in TaskIds
  <2>1. Status(i) = "new" /\ Tries(i) = 0 /\ Status(i)' = "waiting" /\ Tries(i)' = 0
    <3> DEFINE q == [id |-> i, retry |-> 0]
    <3>1. q \in Queued' /\ q.id = i /\ q.retry = 0
      OBVIOUS
    <3> HIDE DEF q
    <3>2. Status(i)' = "waiting" /\ Tries(i)' = 0
      BY <1>6, <3>1 DEF Views, Placed
    <3> QED
      BY <1>1, <1>6, <3>2 DEF Views, Placed
  <2>2. \A j \in TaskIds : j < i => Status(j) # "new"
    BY <1>1 DEF Views, Placed, TaskIds
  <2>3. Numbers(D) \in {{}} \cup {{j} : j \in Pool!Waiting}
    <3>1. \A j, k \in Numbers(D) : j = k
      BY DEF Numbers
    <3>2. Numbers(D) \subseteq Pool!Waiting
      BY QueuedIsWaiting
    <3>3. Numbers(D) = {} \/ \E j \in Pool!Waiting : Numbers(D) = {j}
      BY <3>1, <3>2
    <3> QED
      BY <3>3
  <2>4. i \notin Numbers(D)
    BY <1>2 DEF Numbers
  <2>5. /\ [id \in TaskIds |-> Status(id)]'
             = [Pool!Without(Numbers(D), [id \in TaskIds |-> Status(id)], "gone")
                  EXCEPT ![i] = "waiting"]
        /\ [id \in TaskIds |-> Tries(id)]'
             = Pool!Without(Numbers(D), [id \in TaskIds |-> Tries(id)], 0)
    <3>1. \A id \in TaskIds :
            /\ Status(id)' = IF id = i THEN "waiting"
                             ELSE IF id \in Numbers(D) THEN "gone" ELSE Status(id)
            /\ Tries(id)' = IF id \in Numbers(D) THEN 0 ELSE Tries(id)
      BY <1>3, <1>4, <2>1, <2>4
    <3> HIDE DEF D
    <3> QED
      BY <1>6, <3>1 DEF Pool!Without
  <2>6. Pool!Submit(i)
    BY <1>6, <2>1, <2>2, <2>3, <2>5 DEF Pool!Submit
  <2> QED
    BY <1>6, <2>6 DEF PoolStep, Pool!Next
<1> QED
  BY <1>5, <1>6

\* A worker takes a task that no untried one precedes
LEMMA TakeIsStart ==
  ASSUME Views, added' = added, NEW d \in Queued, Queued' = Queued \ {d},
         Held' = Held \cup {[id |-> d.id, tries |-> d.retry + 1]},
         d.retry = 0 => \A q \in Queued : q.id < d.id => q.retry > 0
  PROVE  PoolStep
<1>1. d \in Tasks /\ d.id <= added /\ d.id \in Nat /\ d.retry \in Nat
  BY DEF Views, Apart, Tasks
<1>2. ASSUME NEW id \in TaskIds, id # d.id
      PROVE  Status(id)' = Status(id) /\ Tries(id)' = Tries(id)
  BY <1>2, SameView
<1>3. CASE d.id \notin TaskIds
  BY <1>2, <1>3, NothingMoves
<1>4. CASE d.id \in TaskIds
  <2>1. Status(d.id) = "waiting" /\ Tries(d.id) = d.retry
    BY <1>4 DEF Views, Placed
  <2>2. Status(d.id)' = "running" /\ Tries(d.id)' = d.retry + 1
    <3> DEFINE h == [id |-> d.id, tries |-> d.retry + 1]
    <3>1. h \in Held' /\ h.id = d.id /\ h.tries = d.retry + 1
      OBVIOUS
    <3> HIDE DEF h
    <3> QED
      BY <1>4, <3>1 DEF Views, Placed
  <2>3. d.retry = 0 => \A j \in Pool!Waiting : j < d.id => Tries(j) > 0
    <3>1. \A j \in Pool!Waiting : \E q \in Queued : q.id = j /\ Tries(j) = q.retry
      BY DEF Views, Placed, Pool!Waiting
    <3> QED
      BY <3>1
  <2>4. Pool!Waiting \subseteq TaskIds
    BY DEF Pool!Waiting
  <2>5. /\ [id \in TaskIds |-> Status(id)]'
             = [[id \in TaskIds |-> Status(id)] EXCEPT ![d.id] = "running"]
        /\ [id \in TaskIds |-> Tries(id)]'
             = [[id \in TaskIds |-> Tries(id)] EXCEPT ![d.id] = @ + 1]
    BY <1>2, <1>4, <2>1, <2>2
  <2>6. Pool!Start(d.id)
    BY <1>4, <2>1, <2>3, <2>4, <2>5 DEF Pool!Start
  <2> QED
    BY <1>4, <2>6 DEF PoolStep, Pool!Next
<1> QED
  BY <1>3, <1>4

\* A worker is done with a task
LEMMA SucceedIsFinish ==
  ASSUME Views, added' = added, Queued' = Queued, NEW g \in Held, Held' = Held \ {g}
  PROVE  PoolStep
<1>1. ASSUME NEW id \in TaskIds, id # g.id
      PROVE  Status(id)' = Status(id) /\ Tries(id)' = Tries(id)
  BY <1>1, SameView
<1>2. CASE g.id \notin TaskIds
  BY <1>1, <1>2, NothingMoves
<1>3. CASE g.id \in TaskIds
  <2>1. Status(g.id) = "running"
    BY <1>3 DEF Views, Placed
  <2>2. Status(g.id)' = "gone" /\ Tries(g.id)' = 0
    <3>1. g.id <= added /\ g.id \in Nat
      BY DEF Views, Apart
    <3>2. ~(g.id > added') /\ ~(\E h \in Held' : h.id = g.id) /\ ~(\E q \in Queued' : q.id = g.id)
      BY <3>1 DEF Views, Apart
    <3> QED
      BY <1>3, <3>2 DEF Views, Placed
  <2>3. /\ [id \in TaskIds |-> Status(id)]'
             = [[id \in TaskIds |-> Status(id)] EXCEPT ![g.id] = "gone"]
        /\ [id \in TaskIds |-> Tries(id)]'
             = [[id \in TaskIds |-> Tries(id)] EXCEPT ![g.id] = 0]
    BY <1>1, <1>3, <2>2
  <2>4. Pool!Finish(g.id)
    BY <1>3, <2>1, <2>3 DEF Pool!Finish
  <2> QED
    BY <1>3, <2>4 DEF PoolStep, Pool!Next
<1> QED
  BY <1>2, <1>3

\* A failed task is pushed back, its tries counted
LEMMA PushBackIsReturn ==
  ASSUME Views, added' = added, NEW g \in Held, g.tries < MaxRetry, Held' = Held \ {g},
         Queued' = Queued \cup {[id |-> g.id, retry |-> g.tries]}
  PROVE  PoolStep
<1>1. ASSUME NEW id \in TaskIds, id # g.id
      PROVE  Status(id)' = Status(id) /\ Tries(id)' = Tries(id)
  BY <1>1, SameView
<1>2. CASE g.id \notin TaskIds
  BY <1>1, <1>2, NothingMoves
<1>3. CASE g.id \in TaskIds
  <2>1. Status(g.id) = "running" /\ Tries(g.id) = g.tries
    BY <1>3 DEF Views, Placed
  <2>2. Status(g.id)' = "waiting" /\ Tries(g.id)' = g.tries
    <3> DEFINE q == [id |-> g.id, retry |-> g.tries]
    <3>1. q \in Queued' /\ q.id = g.id /\ q.retry = g.tries
      OBVIOUS
    <3> HIDE DEF q
    <3> QED
      BY <1>3, <3>1 DEF Views, Placed
  <2>3. /\ [id \in TaskIds |-> Status(id)]'
             = [[id \in TaskIds |-> Status(id)] EXCEPT ![g.id] = "waiting"]
        /\ [id \in TaskIds |-> Tries(id)]' = [id \in TaskIds |-> Tries(id)]
    BY <1>1, <1>3, <2>1, <2>2
  <2>4. Pool!Return(g.id)
    BY <1>3, <2>1, <2>3 DEF Pool!Return
  <2> QED
    BY <1>3, <2>4 DEF PoolStep, Pool!Next
<1> QED
  BY <1>2, <1>3

-----------------------------------------------------------------------------
(* What a step does to the two sets                                        *)

\* Only the worker's own steps move it while it has a task, and they change its
\* hand
LEMMA BusyKeepsPlace ==
  ASSUME QueueInv, [Next]_vars, NEW w \in Busy, hand'[w] = hand[w]
  PROVE  pc'[w] = pc[w]
<1>1. /\ w \in Workers /\ w \in Actors /\ w \notin Clients /\ w # Cleaner /\ w # Owner
      /\ pc \in [Actors -> PcLabels] /\ pc[w] \in Processing
      /\ hand \in [Workers -> Tasks \cup {NoTask}] /\ hand[w] \in Tasks
  BY QueueAssumption DEF QueueInv, TypeOK, HandsFull, Busy, Actors
<1> USE DEF Processing
<1>2. CASE CleanerStep
  BY <1>1, <1>2 DEF CleanerStep, CheckCleanerForce, Clean, Jump, LockContainer,
                    UnlockContainer, Erase, Moves
<1>3. ASSUME NEW a \in Actors, StopStep(a) PROVE pc'[w] = pc[w]
  BY <1>1, <1>3 DEF StopStep, SetStopped, Notified, Awoken, ForceWorker, ForceCleaner,
                    EnterStop, LockMutex, Stop, Moves
<1>4. ASSUME NEW c \in Clients, Call(c) \/ CallStep(c) PROVE pc'[w] = pc[w]
  <2>1. c \in Actors /\ c # w
    BY <1>1, <1>4 DEF Actors
  <2>2. CASE Call(c)
    BY <1>1, <2>1, <2>2 DEF Call, Calls, Moves
  <2>3. CASE StartThreads \/ ConstructorThrows \/ Constructed
    <3>1. config.clients \subseteq Clients
      BY QueueAssumption DEF QueueInv, TypeOK, AllConfigs
    <3> QED
      BY <1>1, <2>3, <3>1, QueueAssumption DEF StartThreads, ConstructorThrows, Constructed, Moves
  <2>4. CASE StartWorker
    <3>1. call[Owner].n \in Workers /\ pc[call[Owner].n] = "unborn"
      BY <2>4, QueueAssumption, LoopVariable
         DEF QueueInv, TypeOK, Construction, UnbornFrom, AllConfigs, Workers, Actors, StartWorker
    <3> QED
      BY <1>1, <2>4, <3>1 DEF StartWorker
  <2>5. CASE SetState(c)
    BY <1>1, <2>1, <2>5 DEF SetState, Notified, Awoken
  <2>6. CASE AddStep(c)
    BY <1>1, <2>1, <2>6 DEF AddStep, EnterAdd, LockToPush, Push, Notify, LockMutex,
                            LockContainer, Moves, Awoken
  <2>7. CASE RemoveTask(c)
    BY <1>1, <2>1, <2>7 DEF RemoveTask, LockContainer, UnlockContainer, Erase, Moves
  <2> QED
    BY <1>3, <1>4, <2>1, <2>2, <2>3, <2>4, <2>5, <2>6, <2>7 DEF CallStep, ConstructorStep
<1>5. ASSUME NEW v \in Workers, WorkerStep(v) \/ SpuriousWakeup(v) PROVE pc'[w] = pc[w]
  <2>1. v \in Actors
    BY <1>5 DEF Actors
  <2>2. CASE CheckForce(v) \/ Look(v) \/ Sleep(v) \/ StopQueue(v) \/ StopThrows(v) \/ Break(v)
             \/ Recheck(v) \/ SpuriousWakeup(v)
    BY <1>1, <2>1, <2>2
       DEF CheckForce, Look, Sleep, StopQueue, StopThrows, Break, Recheck, SpuriousWakeup, Jump,
           LockContainer, UnlockContainer, Moves
  <2>3. CASE Take(v) \/ Succeed(v) \/ PushBack(v)
    BY <1>1, <2>1, <2>3, NoTaskAssumption DEF Take, Succeed, PushBack, Moves
  <2>4. CASE Fail(v)
    <3>1. v # w
      <4>1. CASE v = w
        <5>1. hand'[w].retry = hand[w].retry + 1 /\ hand[w].retry \in Nat
          BY <1>1, <2>4, <4>1 DEF Fail, Tasks
        <5> QED
          BY <5>1
      <4> QED
        BY <4>1
    <3> QED
      BY <1>1, <2>1, <2>4, <3>1 DEF Fail, Moves
  <2> QED
    BY <1>3, <1>5, <2>1, <2>2, <2>3, <2>4 DEF WorkerStep
<1>6. CASE UNCHANGED vars
  BY <1>6 DEF vars
<1> QED
  BY <1>2, <1>4, <1>5, <1>6 DEF Next

\* Elements of a sequence
Elements(s) == {s[i] : i \in DOMAIN s}

LEMMA PartInOrder ==
  ASSUME QueueState, NEW s, PartOf(s)
  PROVE  UntriedInOrder(s) /\ Elements(s) \subseteq Queued
<1>1. DOMAIN s = 1 .. Len(s) /\ Len(s) \in Nat
  BY LenProperties DEF PartOf
<1>2. PICK i \in Nat : \A j \in 1 .. Len(s) :
        LET k == IF j < i THEN j ELSE j + 1 IN
        k \in DOMAIN container /\ s[j] = container[k]
  BY DEF PartOf
<1> DEFINE at(j) == IF j < i THEN j ELSE j + 1
<1>3. \A j \in 1 .. Len(s) : at(j) \in DOMAIN container /\ s[j] = container[at(j)]
  BY <1>2
<1>4. \A j, k \in 1 .. Len(s) : j < k => at(j) < at(k)
  BY <1>1
<1> HIDE DEF at
<1>5. UntriedInOrder(s)
  BY <1>1, <1>3, <1>4 DEF UntriedInOrder, QueueState, InOrder
<1>6. Elements(s) \subseteq Queued
  BY <1>1, <1>3 DEF Elements, Queued
<1> QED
  BY <1>5, <1>6

\* Appending to a sequence of tasks
LEMMA Appended ==
  ASSUME NEW s \in Seq(Tasks), NEW task \in Tasks, UntriedInOrder(s),
         task.retry = 0 => \A i \in DOMAIN s : s[i].id < task.id
  PROVE  /\ UntriedInOrder(Append(s, task))
         /\ Elements(Append(s, task)) = Elements(s) \cup {task}
<1> DEFINE r == Append(s, task)
<1>1. /\ DOMAIN s = 1 .. Len(s) /\ Len(s) \in Nat
      /\ DOMAIN r = 1 .. Len(s) + 1
      /\ \A i \in 1 .. Len(s) : r[i] = s[i]
      /\ r[Len(s) + 1] = task
  BY LenProperties, AppendProperties
<1> HIDE DEF r
<1>2. UntriedInOrder(r)
  BY <1>1 DEF UntriedInOrder
<1>3. Elements(r) = Elements(s) \cup {task}
  <2>1. \A e \in Elements(r) : e \in Elements(s) \cup {task}
    BY <1>1 DEF Elements
  <2>2. \A e \in Elements(s) : e \in Elements(r)
    BY <1>1 DEF Elements
  <2>3. Len(s) + 1 \in DOMAIN r
    BY <1>1
  <2>4. task \in Elements(r)
    BY <1>1, <2>3 DEF Elements
  <2> QED
    BY <2>1, <2>2, <2>4
<1> QED
  BY <1>2, <1>3 DEF r

\* The tasks without the first
LEMMA WithoutFirst ==
  ASSUME QueueState, container # <<>>
  PROVE  /\ container[1] \in Queued /\ Oldest = container[1]
         /\ Elements(Tail(container)) = Queued \ {container[1]}
<1>1. /\ container \in Seq(Tasks) /\ DOMAIN container = 1 .. Len(container)
      /\ Len(container) \in Nat /\ Len(container) > 0
  BY LenProperties, EmptySeq DEF QueueState, QueueInv, TypeOK
<1>2. /\ DOMAIN Tail(container) = 1 .. Len(container) - 1
      /\ \A j \in 1 .. Len(container) - 1 : Tail(container)[j] = container[j + 1]
      /\ Head(container) = container[1]
  BY <1>1, HeadTailProperties, LenProperties
<1>3. 1 \in DOMAIN container
  BY <1>1
<1>4. ASSUME NEW e \in Elements(Tail(container)) PROVE e \in Queued \ {container[1]}
  <2>1. PICK j \in 1 .. Len(container) - 1 : e = container[j + 1]
    BY <1>2, <1>4 DEF Elements
  <2>2. j + 1 \in DOMAIN container /\ j + 1 # 1
    BY <1>1, <2>1
  <2>3. container[j + 1].id # container[1].id
    BY <1>3, <2>2 DEF QueueState, TaskOnce
  <2> QED
    BY <2>1, <2>2, <2>3 DEF Queued
<1>5. ASSUME NEW e \in Queued \ {container[1]} PROVE e \in Elements(Tail(container))
  <2>1. PICK j \in DOMAIN container : e = container[j] /\ j # 1
    BY <1>5 DEF Queued
  <2>2. j - 1 \in 1 .. Len(container) - 1 /\ (j - 1) + 1 = j
    BY <1>1, <2>1
  <2>3. Tail(container)[j - 1] = e
    BY <1>2, <2>1, <2>2
  <2> QED
    BY <1>2, <2>2, <2>3 DEF Elements
<1> QED
  BY <1>2, <1>3, <1>4, <1>5 DEF Queued, Oldest

\* The order survives every step
LEMMA StepKeepsOrder ==
  ASSUME QueueState, QueueInv', [Next]_vars
  PROVE  InOrder'
<1>1. container \in Seq(Tasks) /\ hand \in [Workers -> Tasks \cup {NoTask}] /\ added \in Nat
  BY DEF QueueState, QueueInv, TypeOK
<1>2. UntriedInOrder(container) /\ UntriedInOrder(container')
  <2>0. UntriedInOrder(container)
    BY DEF QueueState, InOrder
  <2>1. CASE Shrinks
    BY <1>1, <2>0, <2>1, ShrinksToPart, PartInOrder
  <2>2. ASSUME NEW c \in Clients, Push(c) PROVE UntriedInOrder(container')
    <3> DEFINE new == [id |-> added + 1, retry |-> 0]
    <3>1. new \in Tasks /\ new.id = added + 1 /\ container' = Append(Room, new)
      BY <1>1, <2>2, QueueAssumption DEF Tasks, Push
    <3>2. Room \in Seq(Tasks) /\ UntriedInOrder(Room) /\ Distinct(Room)
      BY <1>1, RoomIsPart, PartInOrder, PartIsDistinct DEF PartOf, QueueState
    <3> HIDE DEF new
    <3>3. \A i \in DOMAIN Room : Room[i].id < new.id
      <4>1. \A i \in DOMAIN Room : Room[i] \in Tasks /\ Room[i].id <= added
        BY <3>2, LenProperties, ElementOfSeq DEF Distinct
      <4> QED
        BY <1>1, <3>1, <4>1 DEF Tasks
    <3> QED
      BY <3>1, <3>2, <3>3, Appended
  <2>3. ASSUME NEW w \in Workers, Take(w) PROVE UntriedInOrder(container')
    <3>1. container # <<>> /\ container' = Tail(container)
      BY <2>3 DEF QueueState, QueueInv, FrontExists, Take, Moves, Popped
    <3> QED
      BY <1>1, <3>1, TailIsPart, PartInOrder
  <2>4. ASSUME NEW w \in Workers, Succeed(w) \/ Fail(w) PROVE UntriedInOrder(container')
    BY <2>0, <2>4 DEF Succeed, Fail
  <2>5. ASSUME NEW w \in Workers, PushBack(w) PROVE UntriedInOrder(container')
    <3>1. hand[w] \in Tasks /\ hand[w].retry > 0 /\ container' = Append(container, hand[w])
      BY <2>5 DEF QueueState, QueueInv, TypeOK, HandsFull, Processing, InOrder, PushBack, Moves
    <3>2. hand[w].retry # 0
      BY <3>1 DEF Tasks
    <3> QED
      BY <1>1, <2>0, <3>1, <3>2, Appended
  <2> QED
    BY <2>0, <2>1, <2>2, <2>3, <2>4, <2>5, TaskSteps
<1>3. ASSUME NEW w \in Workers, pc'[w] = "retry" PROVE hand'[w].retry > 0
  <2>1. w \in Busy' /\ hand'[w] # NoTask
    BY <1>3 DEF QueueInv, HandsFull, Processing, Busy
  <2>2. CASE hand'[w] = hand[w]
    <3>1. w \in Busy
      BY <2>1, <2>2 DEF Busy
    <3> QED
      BY <1>3, <2>2, <3>1, BusyKeepsPlace DEF QueueState, InOrder
  <2>3. CASE hand'[w] # hand[w]
    <3>0. w \in Actors /\ pc \in [Actors -> PcLabels]
      BY DEF Actors, QueueState, QueueInv, TypeOK
    <3>1. PICK v \in Workers : Take(v) \/ Succeed(v) \/ Fail(v) \/ PushBack(v)
      BY <2>3, TaskSteps DEF Shrinks, Push
    <3>2. v = w
      BY <1>1, <2>3, <3>1 DEF Take, Succeed, Fail, PushBack
    <3>3. Fail(w)
      BY <1>3, <3>0, <3>1, <3>2 DEF Take, Succeed, PushBack, Moves
    <3>4. hand[w] \in Tasks /\ hand'[w].retry = hand[w].retry + 1
      BY <1>1, <3>3 DEF QueueState, QueueInv, HandsFull, Processing, Fail, Moves
    <3> QED
      BY <3>4 DEF Tasks
  <2> QED
    BY <2>2, <2>3
<1> QED
  BY <1>2, <1>3 DEF InOrder

\* What the hands hold changes only with the task of a worker
LEMMA HeldStays ==
  ASSUME QueueState, [Next]_vars, UNCHANGED hand
  PROVE  Held' = Held
<1>1. Busy' = Busy
  BY DEF Busy
<1>2. \A w \in Busy : HeldBy(w)' = HeldBy(w)
  BY BusyKeepsPlace DEF HeldBy, QueueState
<1> QED
  BY <1>1, <1>2 DEF Held

LEMMA StepIsPoolStep ==
  ASSUME QueueState, Placed, Placed', [Next]_vars
  PROVE  PoolStep
<1>1. /\ container \in Seq(Tasks) /\ hand \in [Workers -> Tasks \cup {NoTask}]
      /\ pc \in [Actors -> PcLabels] /\ added \in Nat /\ Workers \subseteq Actors
  BY DEF QueueState, QueueInv, TypeOK, Actors
<1>2. Views
  BY <1>1, StateIsApart DEF Views
<1>3. CASE Shrinks
  <2>1. Elements(container') \subseteq Queued
    BY <1>1, <1>3, ShrinksToPart, PartInOrder
  <2>2. Queued' \subseteq Queued
    BY <2>1 DEF Elements, Queued
  <2>3. UNCHANGED <<hand, added>>
    BY <1>3 DEF Shrinks
  <2> QED
    BY <1>2, <2>2, <2>3, HeldStays, ShrinkIsDrop
<1>4. ASSUME NEW c \in Clients, Push(c) PROVE PoolStep
  <2> DEFINE new == [id |-> added + 1, retry |-> 0]
  <2>1. /\ new \in Tasks /\ container' = Append(Room, new) /\ added' = added + 1
        /\ UNCHANGED hand
    BY <1>1, <1>4, QueueAssumption DEF Tasks, Push
  <2>2. Room \in Seq(Tasks) /\ UntriedInOrder(Room) /\ Elements(Room) \subseteq Queued
        /\ Distinct(Room)
    BY <1>1, RoomIsPart, PartInOrder, PartIsDistinct DEF PartOf, QueueState
  <2>3. \A q, r \in Queued \ Elements(Room) : q = r
    <3>1. CASE Room = container
      BY <3>1 DEF Elements, Queued
    <3>2. CASE Room # container
      <4>1. Room = Tail(container) /\ container # <<>>
        <5>1. Len(container) >= MaxQueue /\ Room = Tail(container)
          BY <3>2 DEF Room
        <5>2. Len(container) # 0
          BY <1>1, <5>1, QueueAssumption, LenProperties
        <5> QED
          BY <5>1, <5>2
      <4> QED
        BY <4>1, WithoutFirst
    <3> QED
      BY <3>1, <3>2
  <2>4. new.retry = 0 => \A i \in DOMAIN Room : Room[i].id < new.id
    <3>1. \A i \in DOMAIN Room : Room[i] \in Tasks /\ Room[i].id <= added
      BY <2>2, LenProperties, ElementOfSeq DEF Distinct
    <3> QED
      BY <1>1, <3>1 DEF Tasks
  <2>5. Queued' = Elements(Room) \cup {new}
    <3>1. Queued' = Elements(container')
      BY DEF Queued, Elements
    <3> HIDE DEF new
    <3> QED
      BY <2>1, <2>2, <2>4, <3>1, Appended
  <2>6. Held' = Held
    BY <2>1, HeldStays
  <2> QED
    BY <1>2, <2>1, <2>2, <2>3, <2>5, <2>6, PushIsSubmit
<1>5. ASSUME NEW w \in Workers, Take(w) PROVE PoolStep
  <2> DEFINE d == container[1]
             h == [id |-> d.id, tries |-> d.retry + 1]
  <2>1. container # <<>> /\ container' = Tail(container) /\ added' = added
    BY <1>5 DEF QueueState, QueueInv, FrontExists, Take, Moves, Popped
  <2>2. /\ d \in Queued /\ Queued' = Queued \ {d}
        /\ hand' = [hand EXCEPT ![w] = d] /\ pc' = [pc EXCEPT ![w] = "run"]
        /\ pc[w] = "take"
    <3>1. Queued' = Elements(container')
      BY DEF Queued, Elements
    <3> QED
      BY <1>5, <2>1, <3>1, WithoutFirst DEF Take, Moves
  <2>3. d.retry = 0 => \A q \in Queued : q.id < d.id => q.retry > 0
    <3>1. /\ 1 \in DOMAIN container /\ d \in Tasks
          /\ \A i \in DOMAIN container : i # 1 => 1 < i
          /\ \A q \in Queued : q \in Tasks
      BY <1>1, <1>2, <2>1, <2>2, LenProperties, EmptySeq DEF Views, Apart
    <3>2. ASSUME d.retry = 0, NEW i \in DOMAIN container, container[i].id < d.id
          PROVE  container[i].retry # 0
      <4>1. container[i] \in Queued /\ container[i].id \in Nat /\ d.id \in Nat
        BY <3>1, <3>2 DEF Queued, Tasks
      <4>2. i # 1
        BY <3>2, <4>1
      <4>3. container[i].retry = 0 => d.id < container[i].id
        BY <3>1, <3>2, <4>2 DEF QueueState, InOrder, UntriedInOrder
      <4> QED
        BY <3>2, <4>1, <4>3
    <3>3. \A q \in Queued : q.retry \in Nat /\ q.id \in Nat
      BY <3>1 DEF Tasks
    <3> QED
      BY <3>2, <3>3 DEF Queued
  <2>4. d \in Tasks /\ w \notin Busy
    BY <1>2, <2>2 DEF Views, Apart, QueueState, QueueInv, HandsFull, Processing, Busy
  <2>5. Busy' = Busy \cup {w} /\ w \in Actors
    BY <1>1, <2>2, <2>4, NoTaskAssumption DEF Busy
  <2>6. HeldBy(w)' = h
    BY <1>1, <2>2, <2>5 DEF HeldBy
  <2>7. \A v \in Busy : HeldBy(v)' = HeldBy(v)
    BY <1>1, <2>2, <2>4 DEF HeldBy, Busy
  <2>8. Held' = Held \cup {h}
    <3> HIDE DEF h
    <3> QED
      BY <2>5, <2>6, <2>7 DEF Held
  <2> HIDE DEF d
  <2> QED
    BY <1>2, <2>1, <2>2, <2>3, <2>8, TakeIsStart
<1>6. ASSUME NEW w \in Workers, Succeed(w) \/ PushBack(w)
      PROVE  w \in Busy /\ Held' = Held \ {HeldBy(w)} /\ HeldBy(w) \in Held
  <2>1. w \in Busy /\ Busy' = Busy \ {w} /\ w \in Actors
    BY <1>1, <1>6
       DEF QueueState, QueueInv, HandsFull, Processing, Busy, Succeed, PushBack, Moves
  <2>2. \A v \in Busy \ {w} : HeldBy(v)' = HeldBy(v)
    BY <1>1, <1>6 DEF HeldBy, Busy, Succeed, PushBack, Moves
  <2>3. \A v \in Busy \ {w} : HeldBy(v) # HeldBy(w)
    BY <2>1 DEF QueueState, TaskOnce, HeldBy
  <2> QED
    BY <2>1, <2>2, <2>3 DEF Held
<1>7. ASSUME NEW w \in Workers, Succeed(w) PROVE PoolStep
  <2>1. Queued' = Queued /\ added' = added
    BY <1>7 DEF Succeed, Queued
  <2> QED
    BY <1>2, <1>6, <1>7, <2>1, SucceedIsFinish
<1>8. ASSUME NEW w \in Workers, Fail(w) PROVE PoolStep
  <2>1. hand[w] \in Tasks /\ w \in Actors /\ pc[w] = "run" /\ hand[w] # NoTask
    BY <1>1, <1>8 DEF QueueState, QueueInv, HandsFull, Processing, Fail, Moves
  <2>2. hand' = [hand EXCEPT ![w].retry = @ + 1] /\ pc' = [pc EXCEPT ![w] = "retry"]
    BY <1>8 DEF Fail, Moves
  <2>3. /\ hand'[w] \in Tasks /\ hand'[w].id = hand[w].id
        /\ hand'[w].retry = hand[w].retry + 1
    <3>1. hand'[w] = [hand[w] EXCEPT !.retry = hand[w].retry + 1]
      BY <1>1, <2>2
    <3>2. hand[w].retry + 1 \in 0 .. MaxRetry - 1
      BY <1>8, <2>1, QueueAssumption DEF Tasks, Fail, MayRetry
    <3> QED
      BY <2>1, <3>1, <3>2 DEF Tasks
  <2>4. Busy' = Busy /\ w \in Busy
    BY <1>1, <2>1, <2>2, <2>3, NoTaskAssumption DEF Busy
  <2>5. HeldBy(w)' = HeldBy(w)
    BY <1>1, <2>1, <2>2, <2>3 DEF HeldBy, Tasks
  <2>6. \A v \in Busy \ {w} : HeldBy(v)' = HeldBy(v)
    BY <1>1, <2>2 DEF HeldBy, Busy
  <2>7. Held' = Held
    BY <2>4, <2>5, <2>6 DEF Held
  <2>8. Queued' = Queued /\ added' = added
    BY <1>8 DEF Fail, Queued
  <2> QED
    BY <1>2, <2>7, <2>8, ShrinkIsDrop
<1>9. ASSUME NEW w \in Workers, PushBack(w) PROVE PoolStep
  <2>1. /\ hand[w] \in Tasks /\ hand[w].retry > 0 /\ pc[w] = "retry"
        /\ container' = Append(container, hand[w]) /\ added' = added
    BY <1>9 DEF QueueState, QueueInv, TypeOK, HandsFull, Processing, InOrder, PushBack, Moves
  <2>2. UntriedInOrder(container) /\ hand[w].retry # 0
    BY <2>1 DEF QueueState, InOrder, Tasks
  <2>3. Queued' = Queued \cup {hand[w]}
    <3>1. Queued' = Elements(container') /\ Queued = Elements(container)
      BY DEF Queued, Elements
    <3> QED
      BY <1>1, <2>1, <2>2, <3>1, Appended
  <2>4. /\ hand[w] = [id |-> HeldBy(w).id, retry |-> HeldBy(w).tries]
        /\ HeldBy(w).tries < MaxRetry
    BY <2>1, QueueAssumption DEF HeldBy, Tasks
  <2>5. HeldBy(w) \in Held /\ Held' = Held \ {HeldBy(w)}
    BY <1>6, <1>9
  <2>6. Queued' = Queued \cup {[id |-> HeldBy(w).id, retry |-> HeldBy(w).tries]}
    BY <2>3, <2>4
  <2> QED
    BY <1>2, <2>1, <2>4, <2>5, <2>6, PushBackIsReturn
<1> QED
  BY <1>3, <1>4, <1>5, <1>7, <1>8, <1>9, TaskSteps

LEMMA InitIsPoolInit == Init => Pool!Init /\ InOrder
<1> SUFFICES ASSUME Init PROVE Pool!Init /\ InOrder
  OBVIOUS
<1>1. InOrder
  BY QueueAssumption DEF Init, InOrder, UntriedInOrder, Actors
<1>2. \A id \in TaskIds : Status(id) = "new" /\ Tries(id) = 0
  BY DEF Init, TaskIds, Status, Tries
<1> QED
  BY <1>1, <1>2 DEF Pool!Init

\* Whatever clients, cleaner and stops do, however many workers there are, each
\* task is tried in its turn, one try at a time, at most MAX_RETRY_COUNT times,
\* and is never brought back (queue_normal.h:96-136, 155-170, 176-202).
THEOREM QueueKeepsPool == Spec => KeepsPool
<1>1. Init => TaskOnce /\ Numbered
  BY DEF Init, TaskOnce, Numbered, Busy
<1>2. QueueInv /\ QueueInv' /\ [Next]_vars /\ TaskOnce /\ Numbered => TaskOnce' /\ Numbered'
  BY StepKeepsTaskOnce
<1>3. QueueInv /\ QueueInv' /\ TaskOnce /\ Numbered /\ InOrder /\ [Next]_vars => InOrder'
  BY StepKeepsOrder DEF QueueState
<1>4. QueueInv /\ TaskOnce /\ Numbered /\ InOrder => QueueState
  BY DEF QueueState
<1>5. QueueState /\ Placed /\ Placed' /\ [Next]_vars => [Pool!Next]_(Pool!vars)
  BY StepIsPoolStep DEF PoolStep
<1> QED
  BY <1>1, <1>2, <1>3, <1>4, <1>5, StateIsPlaced, InitIsPoolInit, QueueInvariant, PTL
     DEF Spec, KeepsPool, Pool!Spec

=============================================================================
