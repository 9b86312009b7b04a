-------------------------- MODULE NormalQueueProofs --------------------------
(***************************************************************************)
(* Theorems about NormalQueue, for all clients, workers, sizes and         *)
(* configurations.                                                         *)
(***************************************************************************)
EXTENDS NormalQueue, FiniteSetTheorems, SequenceTheorems, TLAPS

(***************************************************************************)
(* The inductive invariant.  Who is inside a section of m_mutexContainer   *)
(* has it; a worker has a task in its hand exactly while it processes or   *)
(* retries it; workers that the constructor has not started are unborn.    *)
(***************************************************************************)
InContainer(a) ==
  \/ pc[a] \in {"push", "removing", "expiring", "drowsy", "ready", "take", "break"}
  \/ a \in Workers /\ pc[a] \in {"stop", "force", "clear", "clearing"}

ContainerHeld == \A a \in Actors : InContainer(a) => containerMutex = a

Processing == {"run", "retry"}

HandsFull == \A w \in Workers : pc[w] \in Processing <=> hand[w] # NoTask

\* Workers from n on have not been started
UnbornFrom(n) == \A w \in Workers : w >= n => pc[w] = "unborn"

Construction ==
  /\ UnbornFrom(config.workers + 1)
  /\ pc[Owner] = "construct" => UnbornFrom(1)
  /\ pc[Owner] = "start" => call[Owner].n >= 1 /\ UnbornFrom(call[Owner].n)

\* The loop variable of StopThreads
ForceIndex == \A a \in Actors : pc[a] = "force" => call[a].n >= 1

QueueInv ==
  TypeOK /\ ContainerHeld /\ HandsFull /\ Construction /\ ForceIndex /\ FrontExists

-----------------------------------------------------------------------------
(* Sequences                                                               *)

\* RemoveAt shifts the elements behind the removed one.
LEMMA RemoveAtProperties ==
  ASSUME NEW S, NEW s \in Seq(S), NEW i \in DOMAIN s
  PROVE  /\ RemoveAt(s, i) \in Seq(S)
         /\ Len(RemoveAt(s, i)) = Len(s) - 1
         /\ \A j \in 1 .. Len(s) - 1 :
              RemoveAt(s, i)[j] = IF j < i THEN s[j] ELSE s[j + 1]
<1> DEFINE p == SubSeq(s, 1, i - 1)
<1> DEFINE q == SubSeq(s, i + 1, Len(s))
<1>1. i \in 1 .. Len(s) /\ Len(s) \in Nat
  OBVIOUS
<1>2. p \in Seq(S) /\ Len(p) = i - 1 /\ \A j \in 1 .. i - 1 : p[j] = s[j]
  BY <1>1
<1>3. q \in Seq(S) /\ Len(q) = Len(s) - i /\ \A j \in 1 .. Len(s) - i : q[j] = s[i + j]
  BY <1>1
<1>4. /\ p \o q \in Seq(S)
      /\ Len(p \o q) = Len(p) + Len(q)
      /\ \A j \in 1 .. Len(p) + Len(q) :
           (p \o q)[j] = IF j <= Len(p) THEN p[j] ELSE q[j - Len(p)]
  <2> HIDE DEF p, q
  <2> QED BY <1>2, <1>3, ConcatProperties
<1>5. RemoveAt(s, i) = p \o q
  BY DEF RemoveAt
<1> HIDE DEF p, q
<1>6. ASSUME NEW j \in 1 .. Len(s) - 1
      PROVE  (p \o q)[j] = IF j < i THEN s[j] ELSE s[j + 1]
  <2>1. CASE j < i
    <3>1. j \in 1 .. Len(p) + Len(q) /\ j <= Len(p) /\ j \in 1 .. i - 1
      BY <1>1, <1>2, <1>3, <2>1
    <3>2. (p \o q)[j] = p[j]
      BY <1>4, <3>1
    <3>3. p[j] = s[j]
      BY <1>2, <3>1
    <3> QED BY <2>1, <3>2, <3>3
  <2>2. CASE ~ (j < i)
    <3>1. q[j - (i - 1)] = s[i + (j - (i - 1))]
      BY <1>1, <1>3, <2>2
    <3>2. i + (j - (i - 1)) = j + 1
      BY <1>1
    <3>3. (p \o q)[j] = q[j - (i - 1)]
      <4>1. j \in 1 .. Len(p) + Len(q) /\ ~ (j <= Len(p)) /\ Len(p) = i - 1
        BY <1>1, <1>2, <1>3, <2>2
      <4> QED BY <1>4, <4>1
    <3> QED BY <2>2, <3>1, <3>2, <3>3
  <2> QED BY <2>1, <2>2
<1>7. Len(p \o q) = Len(s) - 1
  BY <1>1, <1>2, <1>3, <1>4
<1> QED BY <1>4, <1>5, <1>6, <1>7

-----------------------------------------------------------------------------

\* Loop variables are numbers.
LEMMA LoopVariable ==
  ASSUME call \in [Actors -> CallRecords], NEW a \in Actors
  PROVE  /\ call[a].n \in Nat
         /\ \A n \in Nat : [call EXCEPT ![a].n = n] \in [Actors -> CallRecords]
BY DEF CallRecords

\* A step that changes nothing but the place of its actor.
LEMMA JumpKeeps ==
  ASSUME QueueInv, NEW a \in Actors, NEW from, NEW to,
         Jump(a, from, to),
         <<from, to>> \in {<<"check", "ended">>,
                           <<"check", "expire">>,
                           <<"top", "ended">>,
                           <<"top", "lock">>,
                           <<"asleep", "lock">>,
                           <<"ready", "take">>}
  PROVE  QueueInv'
<1>1. TypeOK'
  BY DEF QueueInv, TypeOK, PcLabels, Jump, Moves
<1>2. ContainerHeld'
  BY DEF QueueInv, ContainerHeld, InContainer, Jump, Moves
<1>3. HandsFull'
  BY DEF QueueInv, HandsFull, Processing, Jump, Moves
<1>4. Construction'
  BY DEF QueueInv, Construction, UnbornFrom, Jump, Moves
<1>5. ForceIndex'
  BY DEF QueueInv, ForceIndex, Jump, Moves
<1>6. FrontExists'
  BY DEF QueueInv, FrontExists, Jump, Moves
<1> QED BY <1>1, <1>2, <1>3, <1>4, <1>5, <1>6 DEF QueueInv

\* m_mutex is taken.
LEMMA LockMutexKeeps ==
  ASSUME QueueInv, NEW a \in Actors, NEW from, NEW to,
         LockMutex(a, from, to),
         <<from, to>> \in {<<"clear", "clearing">>,
                           <<"add", "lockToPush">>}
  PROVE  QueueInv'
<1>1. TypeOK'
  BY DEF QueueInv, TypeOK, PcLabels, LockMutex, Moves
<1>2. ContainerHeld'
  BY DEF QueueInv, ContainerHeld, InContainer, LockMutex, Moves
<1>3. HandsFull'
  BY DEF QueueInv, HandsFull, Processing, LockMutex, Moves
<1>4. Construction'
  BY DEF QueueInv, Construction, UnbornFrom, LockMutex, Moves
<1>5. ForceIndex'
  BY DEF QueueInv, ForceIndex, LockMutex, Moves
<1>6. FrontExists'
  BY DEF QueueInv, FrontExists, LockMutex, Moves
<1> QED BY <1>1, <1>2, <1>3, <1>4, <1>5, <1>6 DEF QueueInv

\* m_mutexContainer is taken; a worker that is ready has found a task.
LEMMA LockContainerKeeps ==
  ASSUME QueueInv, NEW a \in Actors, NEW from, NEW to,
         LockContainer(a, from, to),
         <<from, to>> \in {<<"lockToPush", "push">>,
                           <<"remove", "removing">>,
                           <<"expire", "expiring">>,
                           <<"lock", "drowsy">>,
                           <<"lock", IF CanTake THEN "ready" ELSE "drowsy">>}
  PROVE  QueueInv'
<1>1. TypeOK'
  BY DEF QueueInv, TypeOK, PcLabels, LockContainer, Moves
<1>2. ContainerHeld'
  BY QueueAssumption DEF QueueInv, ContainerHeld, InContainer, LockContainer, Moves
<1>3. HandsFull'
  BY DEF QueueInv, HandsFull, Processing, LockContainer, Moves
<1>4. Construction'
  BY DEF QueueInv, Construction, UnbornFrom, LockContainer, Moves
<1>5. ForceIndex'
  BY DEF QueueInv, ForceIndex, LockContainer, Moves
<1>6. FrontExists'
  BY DEF QueueInv, FrontExists, LockContainer, Moves, CanTake
<1> QED BY <1>1, <1>2, <1>3, <1>4, <1>5, <1>6 DEF QueueInv

\* m_mutexContainer is given back.
LEMMA UnlockContainerKeeps ==
  ASSUME QueueInv, NEW a \in Actors, NEW from, NEW to,
         UnlockContainer(a, from, to),
         <<from, to>> \in {<<"removing", "idle">>,
                           <<"expiring", "check">>,
                           <<"drowsy", "asleep">>,
                           <<"break", "ended">>,
                           <<"ready", "top">>}
  PROVE  QueueInv'
<1>1. TypeOK'
  BY DEF QueueInv, TypeOK, PcLabels, UnlockContainer, Moves
<1>2. ContainerHeld'
  BY DEF QueueInv, TypeOK, ContainerHeld, InContainer, UnlockContainer, Moves
<1>3. HandsFull'
  BY DEF QueueInv, HandsFull, Processing, UnlockContainer, Moves
<1>4. Construction'
  BY DEF QueueInv, Construction, UnbornFrom, UnlockContainer, Moves
<1>5. ForceIndex'
  BY DEF QueueInv, ForceIndex, UnlockContainer, Moves
<1>6. FrontExists'
  BY DEF QueueInv, FrontExists, UnlockContainer, Moves
<1> QED BY <1>1, <1>2, <1>3, <1>4, <1>5, <1>6 DEF QueueInv

\* The constructor starts the cleaner, and no worker yet.
LEMMA StartThreadsKeeps ==
  ASSUME QueueInv, StartThreads
  PROVE  QueueInv'
<1>1. TypeOK'
  <2>1. mutex' \in Actors \cup {NoThread}
    BY QueueAssumption DEF StartThreads, Actors
  <2>2. pc' \in [Actors -> PcLabels]
    BY DEF QueueInv, TypeOK, StartThreads, PcLabels
  <2>3. call' \in [Actors -> CallRecords]
    BY DEF QueueInv, TypeOK, StartThreads, CallRecords
  <2> QED BY <2>1, <2>2, <2>3 DEF QueueInv, TypeOK, StartThreads
<1>2. ContainerHeld'
  BY DEF QueueInv, TypeOK, ContainerHeld, InContainer, StartThreads
<1>3. HandsFull'
  BY QueueAssumption DEF QueueInv, TypeOK, Actors, HandsFull, StartThreads
<1>4. Construction'
  BY QueueAssumption
     DEF QueueInv, TypeOK, Actors, Construction, UnbornFrom, StartThreads
<1>5. ForceIndex'
  BY DEF QueueInv, TypeOK, ForceIndex, StartThreads
<1>6. FrontExists'
  BY DEF QueueInv, TypeOK, Actors, FrontExists, StartThreads
<1> QED BY <1>1, <1>2, <1>3, <1>4, <1>5, <1>6 DEF QueueInv

\* It starts the worker of its loop variable, who was unborn until then.
LEMMA StartWorkerKeeps ==
  ASSUME QueueInv, StartWorker
  PROVE  QueueInv'
<1>1. TypeOK'
  <2>1. /\ Owner \in Actors /\ Owner \notin Workers
        /\ call[Owner].n \in Workers /\ call[Owner].n + 1 \in Nat
    BY QueueAssumption, LoopVariable
       DEF QueueInv, TypeOK, Construction, AllConfigs, Workers, Actors, StartWorker
  <2>2. call' \in [Actors -> CallRecords]
    BY <2>1, LoopVariable DEF QueueInv, TypeOK, StartWorker
  <2>3. pc' \in [Actors -> PcLabels]
    BY DEF QueueInv, TypeOK, StartWorker, PcLabels
  <2> QED BY <2>2, <2>3 DEF QueueInv, TypeOK, StartWorker
<1>2. ContainerHeld'
  BY DEF QueueInv, ContainerHeld, InContainer, StartWorker
<1>3. HandsFull'
  <2>1. /\ Owner \in Actors /\ Owner \notin Workers
        /\ call[Owner].n \in Workers /\ call[Owner].n + 1 \in Nat
    BY QueueAssumption, LoopVariable
       DEF QueueInv, TypeOK, Construction, AllConfigs, Workers, Actors, StartWorker
  <2>2. pc[call[Owner].n] = "unborn"
    BY <2>1 DEF QueueInv, Construction, UnbornFrom, StartWorker, Workers
  <2> QED BY <2>1, <2>2 DEF QueueInv, HandsFull, Processing, StartWorker
<1>4. Construction'
  <2>1. /\ config.workers \in Nat /\ MaxWorkers \in Nat /\ config.workers <= MaxWorkers
        /\ call[Owner].n \in Nat
        /\ Owner \in Actors /\ Owner \notin Workers
    BY QueueAssumption, LoopVariable DEF QueueInv, TypeOK, AllConfigs, Workers, Actors
  <2>2. call'[Owner].n = call[Owner].n + 1
    BY <2>1 DEF QueueInv, TypeOK, StartWorker
  <2>3. ASSUME NEW w \in Workers, w # call[Owner].n
        PROVE  pc'[w] = pc[w]
    BY <2>3 DEF QueueInv, StartWorker
  <2>4. pc'[Owner] = "start"
    BY <2>1 DEF QueueInv, TypeOK, StartWorker, Workers
  <2> QED BY <2>1, <2>2, <2>3, <2>4
             DEF QueueInv, Construction, UnbornFrom, StartWorker, Workers
<1>5. ForceIndex'
  BY DEF QueueInv, ForceIndex, StartWorker
<1>6. FrontExists'
  BY DEF QueueInv, FrontExists, StartWorker
<1> QED BY <1>1, <1>2, <1>3, <1>4, <1>5, <1>6 DEF QueueInv

\* Or it throws, before any worker has been started.
LEMMA ConstructorThrowsKeeps ==
  ASSUME QueueInv, ConstructorThrows
  PROVE  QueueInv'
<1>1. TypeOK'
  BY DEF QueueInv, TypeOK, PcLabels, ConstructorThrows, Moves, CallRecords, Return, NoCall,
         EQueueState
<1>2. ContainerHeld'
  BY QueueAssumption
     DEF QueueInv, TypeOK, ContainerHeld, InContainer, ConstructorThrows, Moves
<1>3. HandsFull'
  BY QueueAssumption DEF QueueInv, TypeOK, Actors, HandsFull, Processing, ConstructorThrows, Moves
<1>4. Construction'
  BY QueueAssumption
     DEF QueueInv, TypeOK, Actors, Construction, UnbornFrom, ConstructorThrows, Moves
<1>5. ForceIndex'
  BY DEF QueueInv, TypeOK, ForceIndex, ConstructorThrows, Moves, Return
<1>6. FrontExists'
  BY QueueAssumption DEF QueueInv, TypeOK, Actors, FrontExists, ConstructorThrows, Moves
<1> QED BY <1>1, <1>2, <1>3, <1>4, <1>5, <1>6 DEF QueueInv

\* It hands the queue over.
LEMMA ConstructedKeeps ==
  ASSUME QueueInv, Constructed
  PROVE  QueueInv'
<1>1. TypeOK'
  BY DEF QueueInv, TypeOK, PcLabels, Constructed, CallRecords, Return, NoCall,
         EQueueState
<1>2. ContainerHeld'
  BY DEF QueueInv, ContainerHeld, InContainer, Constructed
<1>3. HandsFull'
  BY QueueAssumption DEF QueueInv, TypeOK, Actors, HandsFull, Constructed, AllConfigs
<1>4. Construction'
  BY QueueAssumption
     DEF QueueInv, TypeOK, Actors, Construction, UnbornFrom, Constructed, AllConfigs
<1>5. ForceIndex'
  BY DEF QueueInv, ForceIndex, Constructed, Return
<1>6. FrontExists'
  BY DEF QueueInv, Actors, FrontExists, Constructed
<1> QED BY <1>1, <1>2, <1>3, <1>4, <1>5, <1>6 DEF QueueInv

\* A client calls a method.
LEMMA CallsKeeps ==
  ASSUME QueueInv, NEW c \in Clients,
         NEW method \in {"setState", "stop", "add", "remove"},
         NEW n \in Nat, NEW to \in EQueueState, NEW all \in BOOLEAN,
         Calls(c, method, n, to, all)
  PROVE  QueueInv'
<1>1. TypeOK'
  <2>1. pc' \in [Actors -> PcLabels]
    BY DEF QueueInv, TypeOK, Calls, Moves, PcLabels
  <2>2. call' \in [Actors -> CallRecords]
    BY DEF QueueInv, TypeOK, Calls, CallRecords
  <2> QED BY <2>1, <2>2 DEF QueueInv, TypeOK, Calls
<1>2. ContainerHeld'
  BY QueueAssumption DEF QueueInv, ContainerHeld, InContainer, Calls, Moves
<1>3. HandsFull'
  BY DEF QueueInv, HandsFull, Processing, Calls, Moves
<1>4. Construction'
  BY DEF QueueInv, Construction, UnbornFrom, Calls, Moves
<1>5. ForceIndex'
  BY DEF QueueInv, ForceIndex, Calls, Moves
<1>6. FrontExists'
  BY DEF QueueInv, FrontExists, Calls, Moves
<1> QED BY <1>1, <1>2, <1>3, <1>4, <1>5, <1>6 DEF QueueInv

\* Those are the calls there are.
LEMMA CallKeeps ==
  ASSUME QueueInv, NEW c \in Clients, Call(c)
  PROVE  QueueInv'
<1>1. "WORKING" \in EQueueState /\ 0 \in Nat /\ 1 \in Nat /\ BatchSizes \subseteq Nat
  BY QueueAssumption DEF EQueueState
<1> QED BY <1>1, CallsKeeps DEF Call

\* SetState wakes workers.
LEMMA SetStateKeeps ==
  ASSUME QueueInv, NEW c \in Clients, SetState(c)
  PROVE  QueueInv'
<1>1. TypeOK'
  BY DEF QueueInv, TypeOK, Actors, PcLabels, SetState, StateChange, Notified, Awoken,
         Return, NoCall, CallRecords, EQueueState
<1>2. ContainerHeld'
  BY DEF QueueInv, ContainerHeld, InContainer, SetState, StateChange, Notified, Awoken
<1>3. HandsFull'
  BY DEF QueueInv, Actors, HandsFull, Processing, SetState, StateChange, Notified,
         Awoken
<1>4. Construction'
  BY QueueAssumption
     DEF QueueInv, TypeOK, Actors, Construction, UnbornFrom, SetState, StateChange,
         Notified, Awoken, Return
<1>5. ForceIndex'
  BY DEF QueueInv, ForceIndex, SetState, Notified, Awoken, Return
<1>6. FrontExists'
  BY DEF QueueInv, Actors, FrontExists, SetState, StateChange, Notified, Awoken
<1> QED BY <1>1, <1>2, <1>3, <1>4, <1>5, <1>6 DEF QueueInv

\* So does the first section of StopThreads.
LEMMA SetStoppedKeeps ==
  ASSUME QueueInv, NEW a \in Actors, SetStopped(a)
  PROVE  QueueInv'
<1>1. TypeOK'
  <2>1. state' \in EQueueState
    BY DEF SetStopped, StateChange, EQueueState
  <2>2. pc' \in [Actors -> PcLabels]
    BY DEF QueueInv, TypeOK, SetStopped, Notified, Awoken, PcLabels
  <2>3. call' \in [Actors -> CallRecords]
    BY DEF QueueInv, TypeOK, SetStopped, CallRecords
  <2> QED BY <2>1, <2>2, <2>3 DEF QueueInv, TypeOK, SetStopped, StateChange
<1>2. ContainerHeld'
  BY DEF QueueInv, ContainerHeld, InContainer, SetStopped, StateChange, Notified,
         Awoken
<1>3. HandsFull'
  BY DEF QueueInv, Actors, HandsFull, Processing, SetStopped, StateChange, Notified,
         Awoken
<1>4. Construction'
  BY QueueAssumption
     DEF QueueInv, Actors, Construction, UnbornFrom, SetStopped, StateChange,
         Notified, Awoken
<1>5. ForceIndex'
  BY DEF QueueInv, TypeOK, ForceIndex, SetStopped, Notified, Awoken
<1>6. FrontExists'
  BY DEF QueueInv, Actors, FrontExists, SetStopped, StateChange, Notified, Awoken
<1> QED BY <1>1, <1>2, <1>3, <1>4, <1>5, <1>6 DEF QueueInv

\* forceStop names a worker that exists.
LEMMA ForceWorkerKeeps ==
  ASSUME QueueInv, NEW a \in Actors, ForceWorker(a)
  PROVE  QueueInv'
<1>1. TypeOK'
  <2>1. call[a] \in CallRecords /\ call[a].n \in Nat
    BY DEF QueueInv, TypeOK, CallRecords
  <2>2. config.workers \in Workers
    BY QueueAssumption DEF QueueInv, TypeOK, AllConfigs
  <2>3. call[a].n \in Workers
    BY <2>1, <2>2, QueueAssumption DEF QueueInv, ForceIndex, ForceWorker, Workers
  <2>4. force' \subseteq Actors
    BY <2>3 DEF QueueInv, TypeOK, ForceWorker, Actors
  <2>5. call[a].n + 1 \in Nat
    BY <2>1
  <2>6. call' \in [Actors -> CallRecords]
    BY <2>5, LoopVariable DEF QueueInv, TypeOK, ForceWorker
  <2> QED BY <2>4, <2>6 DEF QueueInv, TypeOK, ForceWorker
<1>2. ContainerHeld'
  BY DEF QueueInv, ContainerHeld, InContainer, ForceWorker
<1>3. HandsFull'
  BY DEF QueueInv, HandsFull, ForceWorker
<1>4. Construction'
  BY DEF QueueInv, Construction, UnbornFrom, ForceWorker
<1>5. ForceIndex'
  BY DEF QueueInv, TypeOK, ForceIndex, ForceWorker, CallRecords
<1>6. FrontExists'
  BY DEF QueueInv, FrontExists, ForceWorker
<1> QED BY <1>1, <1>2, <1>3, <1>4, <1>5, <1>6 DEF QueueInv

\* forceStop of the cleaner ends the loop.
LEMMA ForceCleanerKeeps ==
  ASSUME QueueInv, NEW a \in Actors, ForceCleaner(a)
  PROVE  QueueInv'
<1>1. TypeOK'
  <2>1. pc' \in [Actors -> PcLabels]
    BY DEF QueueInv, TypeOK, ForceCleaner, Moves, PcLabels
  <2>2. force' \subseteq Actors
    BY DEF QueueInv, TypeOK, ForceCleaner, Actors
  <2>3. call' \in [Actors -> CallRecords]
    BY DEF QueueInv, TypeOK, ForceCleaner, CallRecords
  <2> QED BY <2>1, <2>2, <2>3 DEF QueueInv, TypeOK, ForceCleaner
<1>2. ContainerHeld'
  BY DEF QueueInv, ContainerHeld, InContainer, ForceCleaner, Moves
<1>3. HandsFull'
  BY DEF QueueInv, HandsFull, Processing, ForceCleaner, Moves
<1>4. Construction'
  BY DEF QueueInv, Construction, UnbornFrom, ForceCleaner, Moves
<1>5. ForceIndex'
  BY DEF QueueInv, TypeOK, ForceIndex, ForceCleaner, Moves
<1>6. FrontExists'
  BY DEF QueueInv, FrontExists, ForceCleaner, Moves
<1> QED BY <1>1, <1>2, <1>3, <1>4, <1>5, <1>6 DEF QueueInv

\* Clearing takes nothing from a worker that is ready: it would have m_mutexContainer.
LEMMA StopKeeps ==
  ASSUME QueueInv, NEW a \in Clients \cup Workers, Stop(a)
  PROVE  QueueInv'
<1>1. TypeOK'
  BY DEF QueueInv, TypeOK, Actors, PcLabels, Stop, Moves, Return, NoCall, CallRecords,
         EQueueState, Cleared
<1>2. ContainerHeld'
  BY DEF QueueInv, ContainerHeld, InContainer, Stop, Moves
<1>3. HandsFull'
  BY DEF QueueInv, HandsFull, Processing, Stop, Moves
<1>4. Construction'
  BY DEF QueueInv, Construction, UnbornFrom, Stop, Moves, Return
<1>5. ForceIndex'
  BY DEF QueueInv, ForceIndex, Stop, Moves, Return
<1>6. FrontExists'
  BY QueueAssumption
     DEF QueueInv, Actors, FrontExists, ContainerHeld, InContainer, Stop, Moves,
         MayClear
<1> QED BY <1>1, <1>2, <1>3, <1>4, <1>5, <1>6 DEF QueueInv

\* A worker that throws leaves the sections of both mutexes.
LEMMA StopThrowsKeeps ==
  ASSUME QueueInv, NEW w \in Workers, StopThrows(w)
  PROVE  QueueInv'
<1>1. TypeOK'
  BY DEF QueueInv, TypeOK, Actors, PcLabels, StopThrows, Moves, Return, NoCall, CallRecords,
         EQueueState
<1>2. ContainerHeld'
  <2>1. \A a \in Actors : a # w => containerMutex # a
    BY DEF StopThrows
  <2> QED BY <2>1 DEF QueueInv, TypeOK, Actors, ContainerHeld, InContainer, StopThrows, Moves
<1>3. HandsFull'
  BY DEF QueueInv, HandsFull, Processing, StopThrows, Moves
<1>4. Construction'
  BY QueueAssumption DEF QueueInv, Construction, UnbornFrom, StopThrows, Moves, Return
<1>5. ForceIndex'
  BY DEF QueueInv, ForceIndex, StopThrows, Moves, Return
<1>6. FrontExists'
  BY DEF QueueInv, FrontExists, StopThrows, Moves
<1> QED BY <1>1, <1>2, <1>3, <1>4, <1>5, <1>6 DEF QueueInv

\* A push makes room by popping, and leaves the container not empty.
LEMMA PushKeeps ==
  ASSUME QueueInv, NEW c \in Clients, Push(c)
  PROVE  QueueInv'
<1>1. TypeOK'
  <2>1. Room \in Seq(Tasks)
    BY QueueAssumption, HeadTailProperties DEF QueueInv, TypeOK, Room
  <2>2. [id |-> added + 1, retry |-> 0] \in Tasks /\ added' \in Nat
    BY QueueAssumption DEF QueueInv, TypeOK, Push, Tasks
  <2>3. container' \in Seq(Tasks)
    BY <2>1, <2>2, AppendProperties DEF Push
  <2>4. c \in Actors /\ call[c].n - 1 \in Nat
    BY LoopVariable DEF QueueInv, TypeOK, Push, Actors
  <2>5. call' \in [Actors -> CallRecords]
    BY <2>4, LoopVariable DEF QueueInv, TypeOK, Push
  <2> QED BY <2>2, <2>3, <2>5 DEF QueueInv, TypeOK, Push
<1>2. ContainerHeld'
  BY DEF QueueInv, ContainerHeld, InContainer, Push
<1>3. HandsFull'
  BY DEF QueueInv, HandsFull, Push
<1>4. Construction'
  BY DEF QueueInv, Construction, UnbornFrom, Push
<1>5. ForceIndex'
  BY DEF QueueInv, ForceIndex, Push
<1>6. FrontExists'
  BY DEF QueueInv, FrontExists, ContainerHeld, Push
<1> QED BY <1>1, <1>2, <1>3, <1>4, <1>5, <1>6 DEF QueueInv

\* The client lets go and wakes workers.
LEMMA NotifyKeeps ==
  ASSUME QueueInv, NEW c \in Clients, Notify(c)
  PROVE  QueueInv'
<1>1. TypeOK'
  <2>1. mutex' \in Actors \cup {NoThread}
    BY DEF Notify
  <2>2. containerMutex' \in Actors \cup {NoThread}
    BY DEF Notify
  <2>3. pc' \in [Actors -> PcLabels]
    BY DEF QueueInv, TypeOK, Notify, Awoken, PcLabels
  <2>4. call' \in [Actors -> CallRecords]
    BY DEF QueueInv, TypeOK, Notify, Return, NoCall, CallRecords, EQueueState
  <2> QED BY <2>1, <2>2, <2>3, <2>4 DEF QueueInv, TypeOK, Notify
<1>2. ContainerHeld'
  <2>1. PICK awake : pc' = [Awoken(awake) EXCEPT ![c] = "idle"]
    BY DEF Notify
  <2>2. c \in Actors /\ containerMutex = c
    BY DEF QueueInv, ContainerHeld, InContainer, Notify, Actors
  <2> QED BY <2>1, <2>2 DEF QueueInv, ContainerHeld, InContainer, Awoken
<1>3. HandsFull'
  BY DEF QueueInv, Actors, HandsFull, Processing, Notify, Awoken
<1>4. Construction'
  <2>1. PICK awake : pc' = [Awoken(awake) EXCEPT ![c] = "idle"]
    BY DEF Notify
  <2> QED BY <2>1, QueueAssumption
             DEF QueueInv, Actors, Construction, UnbornFrom, Awoken, Notify, Return
<1>5. ForceIndex'
  BY DEF QueueInv, TypeOK, ForceIndex, Notify, Awoken, Return
<1>6. FrontExists'
  <2>1. PICK awake : pc' = [Awoken(awake) EXCEPT ![c] = "idle"]
    BY DEF Notify
  <2> QED BY <2>1 DEF QueueInv, Actors, FrontExists, Awoken, Notify
<1> QED BY <1>1, <1>2, <1>3, <1>4, <1>5, <1>6 DEF QueueInv

\* Erasing needs m_mutexContainer as well.
LEMMA EraseKeeps ==
  ASSUME QueueInv, NEW a \in Actors, NEW i \in DOMAIN container,
         pc[a] \in {"removing", "expiring"}, Erase(i)
  PROVE  QueueInv'
<1>1. TypeOK'
  BY RemoveAtProperties DEF QueueInv, TypeOK, Erase
<1>2. ContainerHeld'
  BY RemoveAtProperties DEF QueueInv, ContainerHeld, InContainer, Erase
<1>3. HandsFull'
  BY RemoveAtProperties DEF QueueInv, HandsFull, Erase
<1>4. Construction'
  BY RemoveAtProperties DEF QueueInv, Construction, UnbornFrom, Erase
<1>5. ForceIndex'
  BY RemoveAtProperties DEF QueueInv, ForceIndex, Erase
<1>6. FrontExists'
  BY RemoveAtProperties
     DEF QueueInv, Actors, FrontExists, ContainerHeld, InContainer, Erase
<1> QED BY <1>1, <1>2, <1>3, <1>4, <1>5, <1>6 DEF QueueInv

\* A worker without process function stops the queue and keeps m_mutexContainer.
LEMMA StopQueueKeeps ==
  ASSUME QueueInv, NEW w \in Workers, StopQueue(w)
  PROVE  QueueInv'
<1>1. TypeOK'
  <2>1. pc' \in [Actors -> PcLabels]
    BY DEF QueueInv, TypeOK, StopQueue, Moves, PcLabels
  <2>2. call' \in [Actors -> CallRecords]
    BY DEF QueueInv, TypeOK, StopQueue, CallRecords
  <2> QED BY <2>1, <2>2 DEF QueueInv, TypeOK, StopQueue
<1>2. ContainerHeld'
  BY DEF QueueInv, ContainerHeld, InContainer, StopQueue, Moves
<1>3. HandsFull'
  BY DEF QueueInv, HandsFull, Processing, StopQueue, Moves
<1>4. Construction'
  BY DEF QueueInv, Construction, UnbornFrom, StopQueue, Moves
<1>5. ForceIndex'
  BY DEF QueueInv, ForceIndex, StopQueue, Moves
<1>6. FrontExists'
  BY DEF QueueInv, FrontExists, StopQueue, Moves
<1> QED BY <1>1, <1>2, <1>3, <1>4, <1>5, <1>6 DEF QueueInv

\* Taking fills a hand with the task that FrontExists says is there.
LEMMA TakeKeeps ==
  ASSUME QueueInv, NEW w \in Workers, Take(w)
  PROVE  QueueInv'
<1>1. TypeOK'
  <2>1. Oldest \in Tasks /\ Popped \in Seq(Tasks)
    BY HeadTailProperties
       DEF QueueInv, TypeOK, FrontExists, Take, Moves, Oldest, Popped
  <2>2. pc' \in [Actors -> PcLabels]
    BY DEF QueueInv, TypeOK, Take, Moves, PcLabels
  <2> QED BY <2>1, <2>2 DEF QueueInv, TypeOK, Take
<1>2. ContainerHeld'
  BY NoTaskAssumption
     DEF QueueInv, TypeOK, Actors, ContainerHeld, InContainer, Take, Moves
<1>3. HandsFull'
  <2>1. Oldest \in Tasks
    BY HeadTailProperties DEF QueueInv, TypeOK, FrontExists, Take, Moves, Oldest
  <2> QED BY <2>1, NoTaskAssumption
             DEF QueueInv, TypeOK, Actors, HandsFull, Processing, Take, Moves
<1>4. Construction'
  BY NoTaskAssumption DEF QueueInv, Construction, UnbornFrom, Take, Moves
<1>5. ForceIndex'
  BY NoTaskAssumption DEF QueueInv, ForceIndex, Take, Moves
<1>6. FrontExists'
  BY NoTaskAssumption
     DEF QueueInv, TypeOK, Actors, FrontExists, ContainerHeld, InContainer, Take,
         Moves
<1> QED BY <1>1, <1>2, <1>3, <1>4, <1>5, <1>6 DEF QueueInv

\* A try that is over empties the hand.
LEMMA SucceedKeeps ==
  ASSUME QueueInv, NEW w \in Workers, Succeed(w)
  PROVE  QueueInv'
<1>1. TypeOK'
  BY DEF QueueInv, TypeOK, PcLabels, Succeed, Moves
<1>2. ContainerHeld'
  BY DEF QueueInv, ContainerHeld, InContainer, Succeed, Moves
<1>3. HandsFull'
  BY DEF QueueInv, TypeOK, Actors, HandsFull, Processing, Succeed, Moves
<1>4. Construction'
  BY DEF QueueInv, Construction, UnbornFrom, Succeed, Moves
<1>5. ForceIndex'
  BY DEF QueueInv, ForceIndex, Succeed, Moves
<1>6. FrontExists'
  BY DEF QueueInv, FrontExists, Succeed, Moves
<1> QED BY <1>1, <1>2, <1>3, <1>4, <1>5, <1>6 DEF QueueInv

\* A failed try keeps it, with one more failure.
LEMMA FailKeeps ==
  ASSUME QueueInv, NEW w \in Workers, Fail(w)
  PROVE  QueueInv'
<1>1. TypeOK'
  <2>1. hand[w] \in Tasks
    BY DEF QueueInv, TypeOK, HandsFull, Processing, Fail, Moves
  <2>2. [hand[w] EXCEPT !.retry = @ + 1] \in Tasks
    BY <2>1, QueueAssumption DEF Fail, MayRetry, Tasks
  <2>3. pc' \in [Actors -> PcLabels]
    BY DEF QueueInv, TypeOK, Fail, Moves, PcLabels
  <2> QED BY <2>2, <2>3 DEF QueueInv, TypeOK, Fail
<1>2. ContainerHeld'
  BY NoTaskAssumption DEF QueueInv, ContainerHeld, InContainer, Fail, Moves
<1>3. HandsFull'
  <2>1. hand[w] \in Tasks
    BY DEF QueueInv, TypeOK, HandsFull, Processing, Fail, Moves
  <2>2. [hand[w] EXCEPT !.retry = @ + 1] \in Tasks
    BY <2>1, QueueAssumption DEF Fail, MayRetry, Tasks
  <2> QED BY <2>2, NoTaskAssumption DEF QueueInv, HandsFull, Processing, Fail, Moves
<1>4. Construction'
  BY NoTaskAssumption DEF QueueInv, Construction, UnbornFrom, Fail, Moves
<1>5. ForceIndex'
  BY NoTaskAssumption DEF QueueInv, ForceIndex, Fail, Moves
<1>6. FrontExists'
  BY NoTaskAssumption DEF QueueInv, FrontExists, Fail, Moves
<1> QED BY <1>1, <1>2, <1>3, <1>4, <1>5, <1>6 DEF QueueInv

\* A retry goes from the hand to the container.
LEMMA PushBackKeeps ==
  ASSUME QueueInv, NEW w \in Workers, PushBack(w)
  PROVE  QueueInv'
<1>1. TypeOK'
  <2>1. hand[w] \in Tasks
    BY DEF QueueInv, TypeOK, HandsFull, Processing, PushBack, Moves
  <2>2. container' \in Seq(Tasks)
    BY <2>1, AppendProperties DEF QueueInv, TypeOK, PushBack
  <2>3. pc' \in [Actors -> PcLabels]
    BY DEF QueueInv, TypeOK, PushBack, Moves, PcLabels
  <2> QED BY <2>2, <2>3 DEF QueueInv, TypeOK, PushBack
<1>2. ContainerHeld'
  BY DEF QueueInv, ContainerHeld, InContainer, PushBack, Moves
<1>3. HandsFull'
  BY DEF QueueInv, TypeOK, Actors, HandsFull, Processing, PushBack, Moves
<1>4. Construction'
  BY DEF QueueInv, Construction, UnbornFrom, PushBack, Moves
<1>5. ForceIndex'
  BY DEF QueueInv, ForceIndex, PushBack, Moves
<1>6. FrontExists'
  BY DEF QueueInv, FrontExists, PushBack
<1> QED BY <1>1, <1>2, <1>3, <1>4, <1>5, <1>6 DEF QueueInv

-----------------------------------------------------------------------------
(* The invariant is inductive                                              *)

LEMMA InitEstablishes == Init => QueueInv
<1> SUFFICES ASSUME Init PROVE QueueInv
  OBVIOUS
<1>1. TypeOK
  BY QueueAssumption
     DEF Init, TypeOK, PcLabels, EQueueState, CallRecords, NoCall, Actors
<1>2. ContainerHeld /\ HandsFull /\ ForceIndex /\ FrontExists
  BY QueueAssumption
     DEF Init, ContainerHeld, InContainer, HandsFull, Processing, ForceIndex, FrontExists,
         Actors
<1>3. Construction
  BY QueueAssumption DEF Init, Construction, UnbornFrom, Actors
<1> QED BY <1>1, <1>2, <1>3 DEF QueueInv

\* StopThreads and Stop, of a client or of a worker.
LEMMA StopStepKeeps ==
  ASSUME QueueInv, NEW a \in Clients \cup Workers, StopStep(a)
  PROVE  QueueInv'
<1>1. a \in Actors
  BY DEF Actors
<1>2. CASE SetStopped(a)   BY <1>1, <1>2, SetStoppedKeeps
<1>3. CASE ForceWorker(a)  BY <1>1, <1>3, ForceWorkerKeeps
<1>4. CASE ForceCleaner(a) BY <1>1, <1>4, ForceCleanerKeeps
<1>5. CASE EnterStop(a)    BY <1>1, <1>5, LockMutexKeeps DEF EnterStop
<1>6. CASE Stop(a)         BY <1>6, StopKeeps
<1> QED BY <1>2, <1>3, <1>4, <1>5, <1>6 DEF StopStep

LEMMA ClientKeeps ==
  ASSUME QueueInv, NEW c \in Clients, Call(c) \/ CallStep(c)
  PROVE  QueueInv'
<1>1. c \in Actors
  BY DEF Actors
<1>2. CASE Call(c)        BY <1>2, CallKeeps
<1>3. CASE ConstructorStep
  BY <1>3, StartThreadsKeeps, StartWorkerKeeps, ConstructorThrowsKeeps, ConstructedKeeps
     DEF ConstructorStep
<1>4. CASE SetState(c)    BY <1>4, SetStateKeeps
<1>5. CASE StopStep(c)    BY <1>5, StopStepKeeps
<1>6. CASE AddStep(c)
  <2>1. CASE EnterAdd(c)   BY <1>1, <2>1, LockMutexKeeps DEF EnterAdd
  <2>2. CASE LockToPush(c) BY <1>1, <2>2, LockContainerKeeps DEF LockToPush
  <2>3. CASE Push(c)       BY <2>3, PushKeeps
  <2>4. CASE Notify(c)     BY <2>4, NotifyKeeps
  <2> QED BY <1>6, <2>1, <2>2, <2>3, <2>4 DEF AddStep
<1>7. CASE RemoveTask(c)
  BY <1>1, <1>7, LockContainerKeeps, EraseKeeps, UnlockContainerKeeps DEF RemoveTask
<1> QED BY <1>2, <1>3, <1>4, <1>5, <1>6, <1>7 DEF CallStep

LEMMA CleanerKeeps ==
  ASSUME QueueInv, CleanerStep
  PROVE  QueueInv'
<1>1. Cleaner \in Actors
  BY DEF Actors
<1>2. CASE CheckCleanerForce
  BY <1>1, <1>2, JumpKeeps DEF CheckCleanerForce
<1>3. CASE Clean
  BY <1>1, <1>3, LockContainerKeeps, EraseKeeps, UnlockContainerKeeps DEF Clean
<1> QED BY <1>2, <1>3 DEF CleanerStep

LEMMA WorkerKeeps ==
  ASSUME QueueInv, NEW w \in Workers, WorkerStep(w) \/ SpuriousWakeup(w)
  PROVE  QueueInv'
<1>1. w \in Actors
  BY DEF Actors
<1>2. CASE CheckForce(w)     BY <1>1, <1>2, JumpKeeps DEF CheckForce
<1>3. CASE Look(w)           BY <1>1, <1>3, LockContainerKeeps DEF Look
<1>4. CASE Sleep(w)          BY <1>1, <1>4, UnlockContainerKeeps DEF Sleep
<1>5. CASE SpuriousWakeup(w) BY <1>1, <1>5, JumpKeeps DEF SpuriousWakeup
<1>6. CASE StopQueue(w)      BY <1>6, StopQueueKeeps
<1>7. CASE StopStep(w)       BY <1>7, StopStepKeeps
<1>8. CASE Break(w)          BY <1>1, <1>8, UnlockContainerKeeps DEF Break
<1>9. CASE Recheck(w)
  BY <1>1, <1>9, JumpKeeps, UnlockContainerKeeps DEF Recheck
<1>10. CASE Take(w)     BY <1>10, TakeKeeps
<1>11. CASE Succeed(w)  BY <1>11, SucceedKeeps
<1>12. CASE Fail(w)     BY <1>12, FailKeeps
<1>13. CASE PushBack(w) BY <1>13, PushBackKeeps
<1>14. CASE StopThrows(w) BY <1>14, StopThrowsKeeps
<1> QED BY <1>2, <1>3, <1>4, <1>5, <1>6, <1>7, <1>8, <1>9, <1>10, <1>11, <1>12, <1>13,
           <1>14
        DEF WorkerStep

LEMMA StutterKeeps == QueueInv /\ UNCHANGED vars => QueueInv'
BY DEF QueueInv, TypeOK, ContainerHeld, InContainer, HandsFull, Processing,
       Construction,
       UnbornFrom, ForceIndex, FrontExists, vars

LEMMA NextKeeps == QueueInv /\ [Next]_vars => QueueInv'
BY ClientKeeps, CleanerKeeps, WorkerKeeps, StutterKeeps DEF Next

LEMMA QueueInvariant == Spec => []QueueInv
BY InitEstablishes, NextKeeps, PTL DEF Spec

\* Every variable has its type in every reachable state.
THEOREM QueueTypeCorrect == Spec => []TypeOK
<1>1. QueueInv => TypeOK
  BY DEF QueueInv
<1> QED BY <1>1, QueueInvariant, PTL

\* A worker about to take a task has one to take, though it looked at the
\* container before (lines 104-119): m_mutexContainer is its own in between.
THEOREM FrontIsThere == Spec => []FrontExists
<1>1. QueueInv => FrontExists
  BY DEF QueueInv
<1> QED BY <1>1, QueueInvariant, PTL

-----------------------------------------------------------------------------
(* What a step does to the tasks                                           *)

\* The tasks stay, all go, or one goes.
Shrinks ==
  /\ UNCHANGED <<config, added, hand>>
  /\ \/ container' = container
     \/ container' = <<>>
     \/ \E i \in DOMAIN container : container' = RemoveAt(container, i)

\* Only five steps do anything else.
LEMMA TaskSteps ==
  ASSUME [Next]_vars
  PROVE  \/ Shrinks
         \/ \E c \in Clients : Push(c)
         \/ \E w \in Workers : Take(w) \/ Succeed(w) \/ Fail(w) \/ PushBack(w)
<1>1. CASE CleanerStep
  BY <1>1
     DEF CleanerStep, CheckCleanerForce, Clean, Jump, LockContainer, UnlockContainer,
              Erase, Shrinks
<1>2. ASSUME NEW a, StopStep(a) PROVE Shrinks
  BY <1>2 DEF StopStep, SetStopped, StateChange, ForceWorker, ForceCleaner, EnterStop,
              LockMutex, Stop, Cleared, Shrinks
<1>3. ASSUME NEW c \in Clients, Call(c) \/ CallStep(c) PROVE Shrinks \/ Push(c)
  <2>1. CASE Call(c)
    BY <2>1 DEF Call, Calls, Shrinks
  <2>2. CASE ConstructorStep
    BY <2>2 DEF ConstructorStep, StartThreads, StartWorker, ConstructorThrows, Constructed,
                Shrinks
  <2>3. CASE SetState(c)
    BY <2>3 DEF SetState, StateChange, Shrinks
  <2>4. CASE AddStep(c)
    BY <2>4
       DEF AddStep, EnterAdd, LockToPush, Notify, LockMutex, LockContainer, Shrinks
  <2>5. CASE RemoveTask(c)
    BY <2>5 DEF RemoveTask, LockContainer, UnlockContainer, Erase, Shrinks
  <2> QED BY <1>2, <1>3, <2>1, <2>2, <2>3, <2>4, <2>5 DEF CallStep
<1>4. ASSUME NEW w \in Workers, WorkerStep(w) \/ SpuriousWakeup(w)
      PROVE  Shrinks \/ Take(w) \/ Succeed(w) \/ Fail(w) \/ PushBack(w)
  <2>1. CASE CheckForce(w) \/ Look(w) \/ Sleep(w) \/ StopQueue(w) \/ StopThrows(w) \/ Break(w)
             \/ Recheck(w) \/ SpuriousWakeup(w)
    BY <2>1 DEF CheckForce, Look, Sleep, StopQueue, StopThrows, Break, Recheck, SpuriousWakeup,
                Jump, LockContainer, UnlockContainer, Shrinks
  <2> QED BY <1>2, <1>4, <2>1 DEF WorkerStep
<1>5. CASE UNCHANGED vars
  BY <1>5 DEF vars, Shrinks
<1> QED BY <1>1, <1>3, <1>4, <1>5 DEF Next

\* What is left after a step that shrinks the container, or after making room,
\* are tasks that were there, each at a place of its own.
PartOf(s) ==
  /\ s \in Seq(Tasks)
  /\ Len(s) <= Len(container)
  /\ \E i \in Nat : \A j \in 1 .. Len(s) :
       LET k == IF j < i THEN j ELSE j + 1 IN
       k \in DOMAIN container /\ s[j] = container[k]

LEMMA WholeIsPart ==
  ASSUME container \in Seq(Tasks)
  PROVE  PartOf(container)
<1>1. DOMAIN container = 1 .. Len(container) /\ Len(container) \in Nat
  BY LenProperties
<1>2. \A j \in 1 .. Len(container) :
        LET k == IF j < Len(container) + 1 THEN j ELSE j + 1 IN
        k \in DOMAIN container /\ container[j] = container[k]
  BY <1>1
<1>3. Len(container) + 1 \in Nat
  BY <1>1
<1> QED BY <1>1, <1>2, <1>3 DEF PartOf

LEMMA ShrinksToPart ==
  ASSUME container \in Seq(Tasks), Shrinks
  PROVE  PartOf(container')
<1>1. DOMAIN container = 1 .. Len(container) /\ Len(container) \in Nat
  BY LenProperties
<1>2. CASE container' = container
  BY <1>2, WholeIsPart DEF PartOf
<1>3. CASE container' = <<>>
  <2>1. container' \in Seq(Tasks) /\ Len(container') = 0
    BY <1>3
  <2> QED BY <1>1, <2>1 DEF PartOf
<1>4. CASE \E i \in DOMAIN container : container' = RemoveAt(container, i)
  <2>1. PICK i \in DOMAIN container : container' = RemoveAt(container, i)
    BY <1>4
  <2>2. /\ container' \in Seq(Tasks)
        /\ Len(container') = Len(container) - 1
        /\ \A j \in 1 .. Len(container) - 1 :
             container'[j] = IF j < i THEN container[j] ELSE container[j + 1]
    BY <2>1, RemoveAtProperties
  <2>3. \A j \in 1 .. Len(container') :
          LET k == IF j < i THEN j ELSE j + 1 IN
          k \in DOMAIN container /\ container'[j] = container[k]
    BY <1>1, <2>2
  <2>4. i \in Nat /\ Len(container') <= Len(container)
    BY <1>1, <2>2
  <2> QED BY <2>2, <2>3, <2>4 DEF PartOf
<1> QED BY <1>2, <1>3, <1>4 DEF Shrinks

LEMMA TailIsPart ==
  ASSUME container \in Seq(Tasks), container # <<>>
  PROVE  PartOf(Tail(container))
<1>1. DOMAIN container = 1 .. Len(container) /\ Len(container) \in Nat
  BY LenProperties
<1>2. /\ Tail(container) \in Seq(Tasks)
      /\ Len(Tail(container)) = Len(container) - 1
      /\ \A j \in 1 .. Len(Tail(container)) : Tail(container)[j] = container[j + 1]
  BY HeadTailProperties
<1>3. \A j \in 1 .. Len(Tail(container)) :
        LET k == IF j < 1 THEN j ELSE j + 1 IN
        k \in DOMAIN container /\ Tail(container)[j] = container[k]
  BY <1>1, <1>2
<1> QED BY <1>1, <1>2, <1>3 DEF PartOf

LEMMA RoomIsPart ==
  ASSUME container \in Seq(Tasks)
  PROVE  PartOf(Room) /\ (Len(Room) = Len(container) => Len(container) < MaxQueue)
<1>1. Len(container) \in Nat /\ MaxQueue \in Nat \ {0}
  BY QueueAssumption, LenProperties
<1>2. CASE Len(container) >= MaxQueue
  <2>1. container # <<>> /\ Room = Tail(container)
    BY <1>1, <1>2 DEF Room
  <2>2. Len(Tail(container)) = Len(container) - 1
    BY <2>1, HeadTailProperties
  <2>3. PartOf(Tail(container))
    BY <2>1, TailIsPart
  <2>4. Len(Room) = Len(container) - 1
    BY <2>1, <2>2
  <2>5. Len(Room) # Len(container)
    BY <1>1, <2>4
  <2>6. PartOf(Room)
    BY <2>1, <2>3 DEF PartOf
  <2> QED BY <2>5, <2>6
<1>3. CASE ~ (Len(container) >= MaxQueue)
  BY <1>1, <1>3, WholeIsPart DEF Room
<1> QED BY <1>2, <1>3

-----------------------------------------------------------------------------
(* The bound of the queue                                                  *)

\* At most as many workers as were started have a task in their hands.
LEMMA BusyIsSmall ==
  ASSUME QueueInv
  PROVE  /\ IsFiniteSet(Busy)
         /\ Cardinality(Busy) \in Nat
         /\ config.workers \in Nat
         /\ Cardinality(Busy) <= config.workers
<1>1. config.workers \in Workers /\ config.workers \in Nat
  BY QueueAssumption DEF QueueInv, TypeOK, AllConfigs, Workers
<1>2. Busy \subseteq 1 .. config.workers
  <2>1. ASSUME NEW w \in Busy PROVE w \in 1 .. config.workers
    <3>1. w \in Workers /\ pc[w] # "unborn"
      BY <2>1 DEF QueueInv, HandsFull, Processing, Busy
    <3> QED BY <1>1, <3>1 DEF QueueInv, Construction, UnbornFrom, Workers
  <2> QED BY <2>1
<1>3. IsFiniteSet(1 .. config.workers) /\ Cardinality(1 .. config.workers) = config.workers
  BY <1>1, FS_Interval
<1>4. IsFiniteSet(Busy) /\ Cardinality(Busy) <= Cardinality(1 .. config.workers)
  BY <1>2, <1>3, FS_Subset
<1>5. Cardinality(Busy) \in Nat
  BY <1>4, FS_CardinalityType
<1>6. Cardinality(Busy) <= config.workers
  BY <1>3, <1>4
<1> QED BY <1>1, <1>4, <1>5, <1>6

\* The hands of the workers change one at a time.
LEMMA BusyAdds ==
  ASSUME QueueInv, NEW w \in Workers, Take(w)
  PROVE  Cardinality(Busy') = Cardinality(Busy) + 1
<1>1. Oldest \in Tasks
  BY HeadTailProperties DEF QueueInv, TypeOK, FrontExists, Take, Moves, Oldest
<1>2. Busy' = Busy \cup {w} /\ w \notin Busy
  BY <1>1, NoTaskAssumption, QueueAssumption
     DEF QueueInv, TypeOK, HandsFull, Processing, Busy, Take, Moves
<1> QED BY <1>2, BusyIsSmall, FS_AddElement

LEMMA BusyDrops ==
  ASSUME QueueInv, NEW w \in Workers, Succeed(w) \/ PushBack(w)
  PROVE  Cardinality(Busy') = Cardinality(Busy) - 1
<1>1. Busy' = Busy \ {w} /\ w \in Busy
  BY DEF QueueInv, TypeOK, HandsFull, Processing, Busy, Succeed, PushBack, Moves
<1> QED BY <1>1, BusyIsSmall, FS_RemoveElement

LEMMA StepKeepsBound ==
  ASSUME QueueInv, QueueInv', [Next]_vars, QueueBounded
  PROVE  QueueBounded'
<1>1. /\ container \in Seq(Tasks) /\ Len(container) \in Nat
      /\ container' \in Seq(Tasks) /\ Len(container') \in Nat
      /\ MaxQueue \in Nat
  BY QueueAssumption, LenProperties DEF QueueInv, TypeOK
<1>2. /\ Cardinality(Busy) \in Nat
      /\ config.workers \in Nat
      /\ Cardinality(Busy) <= config.workers
  BY BusyIsSmall
<1>3. CASE Shrinks
  <2>1. Len(container') <= Len(container)
    BY <1>1, <1>3, ShrinksToPart DEF PartOf
  <2>2. Busy' = Busy /\ config' = config
    BY <1>3 DEF Shrinks, Busy
  <2> QED BY <1>1, <1>2, <2>1, <2>2 DEF QueueBounded
<1>4. ASSUME NEW c \in Clients, Push(c) PROVE QueueBounded'
  <2>1. Room \in Seq(Tasks) /\ Len(Room) <= Len(container)
    BY <1>1, RoomIsPart DEF PartOf
  <2>2. Len(Room) = Len(container) => Len(container) < MaxQueue
    BY <1>1, RoomIsPart
  <2>3. [id |-> added + 1, retry |-> 0] \in Tasks
    BY QueueAssumption DEF QueueInv, TypeOK, Tasks
  <2>4. Len(container') = Len(Room) + 1 /\ Len(Room) \in Nat
    BY <1>4, <2>1, <2>3, AppendProperties, LenProperties DEF Push
  <2>5. Busy' = Busy /\ config' = config
    BY <1>4 DEF Push, Busy
  <2> QED BY <1>1, <1>2, <2>1, <2>2, <2>4, <2>5 DEF QueueBounded
<1>5. ASSUME NEW w \in Workers, Take(w) PROVE QueueBounded'
  <2>1. container # <<>> /\ container' = Tail(container) /\ config' = config
    BY <1>5 DEF QueueInv, FrontExists, Take, Moves, Popped
  <2>2. Len(container') = Len(container) - 1
    BY <1>1, <2>1, HeadTailProperties
  <2>3. Cardinality(Busy') = Cardinality(Busy) + 1
    BY <1>5, BusyAdds
  <2> QED BY <1>1, <1>2, <2>1, <2>2, <2>3 DEF QueueBounded
<1>6. ASSUME NEW w \in Workers, Succeed(w) PROVE QueueBounded'
  <2>1. Cardinality(Busy') = Cardinality(Busy) - 1
    BY <1>6, BusyDrops
  <2> QED BY <1>1, <1>2, <1>6, <2>1 DEF QueueBounded, Succeed
<1>7. ASSUME NEW w \in Workers, Fail(w) PROVE QueueBounded'
  <2>1. Busy' = Busy
    BY <1>7 DEF QueueInv, TypeOK, HandsFull, Processing, Busy, Fail, Moves
  <2> QED BY <1>1, <1>2, <1>7, <2>1 DEF QueueBounded, Fail
<1>8. ASSUME NEW w \in Workers, PushBack(w) PROVE QueueBounded'
  <2>1. Cardinality(Busy') = Cardinality(Busy) - 1
    BY <1>8, BusyDrops
  <2>2. hand[w] \in Tasks
    BY <1>8 DEF QueueInv, TypeOK, HandsFull, Processing, PushBack, Moves
  <2>3. Len(container') = Len(container) + 1
    BY <1>1, <1>8, <2>2, AppendProperties DEF PushBack
  <2> QED BY <1>1, <1>2, <1>8, <2>1, <2>3 DEF QueueBounded, PushBack
<1> QED BY <1>3, <1>4, <1>5, <1>6, <1>7, <1>8, TaskSteps

\* Retries, which push without a look at the size, take the queue above
\* MAX_QUEUE_SIZE by at most the number of workers started (lines 126, 176).
THEOREM QueueIsBounded == Spec => []QueueBounded
<1>1. Init => QueueBounded
  <2> SUFFICES ASSUME Init PROVE QueueBounded
    OBVIOUS
  <2>1. Len(container) = 0 /\ Busy = {} /\ Cardinality({}) = 0
    BY FS_EmptySet DEF Init, Busy
  <2>2. config.workers \in Nat /\ MaxQueue \in Nat
    BY QueueAssumption DEF Init, AllConfigs, Workers
  <2> QED BY <2>1, <2>2 DEF QueueBounded
<1>2. QueueInv /\ QueueInv' /\ [Next]_vars /\ QueueBounded => QueueBounded'
  BY StepKeepsBound
<1> QED BY <1>1, <1>2, QueueInvariant, PTL DEF Spec

-----------------------------------------------------------------------------
(* A task is in one place                                                  *)

\* The numbers given so far are at most added; the next one is new.
Numbered ==
  /\ \A i \in DOMAIN container : container[i].id <= added
  /\ \A w \in Busy : hand[w].id <= added

\* Each of s is a task of its own, and none is in a hand.
Distinct(s) ==
  /\ \A i, j \in DOMAIN s : s[i].id = s[j].id => i = j
  /\ \A i \in DOMAIN s : s[i].id <= added
  /\ \A w \in Busy : \A i \in DOMAIN s : s[i].id # hand[w].id

LEMMA PartIsDistinct ==
  ASSUME container \in Seq(Tasks), TaskOnce, Numbered, NEW s, PartOf(s)
  PROVE  Distinct(s)
<1>1. DOMAIN s = 1 .. Len(s) /\ Len(s) \in Nat
  BY LenProperties DEF PartOf
<1>2. PICK i \in Nat : \A j \in 1 .. Len(s) :
        LET k == IF j < i THEN j ELSE j + 1 IN
        k \in DOMAIN container /\ s[j] = container[k]
  BY DEF PartOf
<1> DEFINE at(j) == IF j < i THEN j ELSE j + 1
<1>3. \A j \in 1 .. Len(s) : at(j) \in DOMAIN container /\ s[j] = container[at(j)]
  BY <1>2
<1>4. \A j, k \in 1 .. Len(s) : at(j) = at(k) => j = k
  BY <1>1
<1> HIDE DEF at
<1> QED BY <1>1, <1>3, <1>4 DEF TaskOnce, Numbered, Distinct

LEMMA StepKeepsTaskOnce ==
  ASSUME QueueInv, QueueInv', [Next]_vars, TaskOnce, Numbered
  PROVE  TaskOnce' /\ Numbered'
<1>1. container \in Seq(Tasks) /\ container' \in Seq(Tasks) /\ added \in Nat
  BY DEF QueueInv, TypeOK
<1>2. /\ DOMAIN container = 1 .. Len(container) /\ Len(container) \in Nat
      /\ DOMAIN container' = 1 .. Len(container') /\ Len(container') \in Nat
  BY <1>1, LenProperties
<1>3. CASE Shrinks
  <2>1. Distinct(container')
    BY <1>1, <1>3, ShrinksToPart, PartIsDistinct
  <2>2. Busy' = Busy /\ hand' = hand /\ added' = added
    BY <1>3 DEF Shrinks, Busy
  <2> QED BY <2>1, <2>2 DEF TaskOnce, Numbered, Distinct
<1>4. ASSUME NEW c \in Clients, Push(c) PROVE TaskOnce' /\ Numbered'
  <2> DEFINE new == [id |-> added + 1, retry |-> 0]
  <2>1. new \in Tasks /\ new.id = added + 1
    BY <1>1, QueueAssumption DEF Tasks
  <2>2. Room \in Seq(Tasks) /\ Distinct(Room)
    BY <1>1, RoomIsPart, PartIsDistinct DEF PartOf
  <2>3. container' = Append(Room, new)
    BY <1>4 DEF Push
  <2> HIDE DEF new
  <2>4. DOMAIN Room = 1 .. Len(Room) /\ Len(Room) \in Nat
    BY <2>2, LenProperties
  <2>5. /\ DOMAIN container' = 1 .. Len(Room) + 1
        /\ \A i \in 1 .. Len(Room) : container'[i] = Room[i]
        /\ container'[Len(Room) + 1] = new
    BY <1>2, <2>1, <2>2, <2>3, AppendProperties
  <2>6. Busy' = Busy /\ hand' = hand /\ added' = added + 1
    BY <1>4 DEF Push, Busy
  <2>7. \A w \in Busy : hand[w].id # added + 1 /\ hand[w].id <= added + 1
    <3>1. \A w \in Busy : hand[w].id \in Nat /\ hand[w].id <= added
      BY DEF QueueInv, TypeOK, Busy, Tasks, Numbered
    <3> QED BY <1>1, <3>1
  <2>8. \A i \in 1 .. Len(Room) : Room[i].id # added + 1 /\ Room[i].id <= added + 1
    <3>1. \A i \in 1 .. Len(Room) : Room[i] \in Tasks
      BY <2>2, ElementOfSeq
    <3>2. \A i \in 1 .. Len(Room) : Room[i].id \in Nat /\ Room[i].id <= added
      BY <2>2, <2>4, <3>1 DEF Distinct, Tasks
    <3> QED BY <1>1, <3>2
  <2>9. \A i, j \in DOMAIN container' : container'[i].id = container'[j].id => i = j
    BY <2>1, <2>2, <2>4, <2>5, <2>8 DEF Distinct
  <2>10. \A i \in DOMAIN container' :
           /\ container'[i].id <= added + 1
           /\ \A w \in Busy : container'[i].id # hand[w].id
    BY <1>1, <2>1, <2>2, <2>4, <2>5, <2>7, <2>8 DEF Distinct
  <2> QED BY <2>6, <2>7, <2>9, <2>10 DEF TaskOnce, Numbered
<1>5. ASSUME NEW w \in Workers, Take(w) PROVE TaskOnce' /\ Numbered'
  <2>1. container # <<>> /\ container' = Tail(container)
    BY <1>5 DEF QueueInv, FrontExists, Take, Moves, Popped
  <2>2. Distinct(container')
    BY <1>1, <2>1, TailIsPart, PartIsDistinct
  <2>3. /\ Len(container') = Len(container) - 1
        /\ \A j \in 1 .. Len(container') : container'[j] = container[j + 1]
    BY <1>1, <2>1, HeadTailProperties
  <2>4. hand' = [hand EXCEPT ![w] = container[1]] /\ added' = added
    BY <1>1, <2>1, <1>5 DEF Take, Oldest
  <2>5. Busy' \subseteq Busy \cup {w} /\ w \notin Busy
    BY <1>5, <2>4 DEF QueueInv, TypeOK, HandsFull, Processing, Busy, Take, Moves
  <2>6. \A v \in Busy : hand'[v] = hand[v]
    BY <2>4, <2>5 DEF QueueInv, TypeOK, Busy
  <2>7. hand'[w] = container[1] /\ 1 \in DOMAIN container
    BY <1>2, <2>1, <2>3, <2>4, <1>1 DEF QueueInv, TypeOK
  <2>8. \A j \in DOMAIN container' : container'[j].id # container[1].id
    BY <1>2, <2>3, <2>7 DEF TaskOnce
  <2> QED BY <2>2, <2>4, <2>5, <2>6, <2>7, <2>8 DEF TaskOnce, Numbered, Distinct
<1>6. ASSUME NEW w \in Workers, Succeed(w) PROVE TaskOnce' /\ Numbered'
  <2>1. Busy' \subseteq Busy /\ \A v \in Busy' : hand'[v] = hand[v]
    BY <1>6 DEF QueueInv, TypeOK, Busy, Succeed
  <2> QED BY <1>6, <2>1 DEF TaskOnce, Numbered, Succeed
<1>7. ASSUME NEW w \in Workers, Fail(w) PROVE TaskOnce' /\ Numbered'
  <2>1. hand[w] \in Tasks
    BY <1>7 DEF QueueInv, TypeOK, HandsFull, Processing, Fail, Moves
  <2>2. Busy' = Busy /\ \A v \in Busy : hand'[v].id = hand[v].id
    BY <1>7, <2>1
       DEF QueueInv, TypeOK, HandsFull, Processing, Busy, Fail, Moves, Tasks
  <2> QED BY <1>7, <2>2 DEF TaskOnce, Numbered, Fail
<1>8. ASSUME NEW w \in Workers, PushBack(w) PROVE TaskOnce' /\ Numbered'
  <2>1. hand[w] \in Tasks /\ w \in Busy
    BY <1>8, NoTaskAssumption
       DEF QueueInv, TypeOK, HandsFull, Processing, PushBack, Moves, Busy
  <2>2. /\ DOMAIN container' = 1 .. Len(container) + 1
        /\ \A i \in 1 .. Len(container) : container'[i] = container[i]
        /\ container'[Len(container) + 1] = hand[w]
    BY <1>1, <1>2, <1>8, <2>1, AppendProperties DEF PushBack
  <2>3. Busy' = Busy \ {w} /\ \A v \in Busy' : hand'[v] = hand[v]
    BY <1>8 DEF QueueInv, TypeOK, Busy, PushBack
  <2>4. added' = added
    BY <1>8 DEF PushBack
  <2> QED BY <1>2, <2>1, <2>2, <2>3, <2>4 DEF TaskOnce, Numbered
<1> QED BY <1>3, <1>4, <1>5, <1>6, <1>7, <1>8, TaskSteps

\* No task is ever twice in the container, in two hands, or in both.
THEOREM EachTaskOnce == Spec => []TaskOnce
<1>1. Init => TaskOnce /\ Numbered
  BY DEF Init, TaskOnce, Numbered, Busy
<1>2. QueueInv /\ QueueInv' /\ [Next]_vars /\ TaskOnce /\ Numbered => TaskOnce' /\ Numbered'
  BY StepKeepsTaskOnce
<1> QED BY <1>1, <1>2, QueueInvariant, PTL DEF Spec

-----------------------------------------------------------------------------
(* What a stop leaves                                                      *)

Stopping == {"stop", "force", "clear", "clearing"}

(***************************************************************************)
(* With one client nobody else stops the queue or sets its state, and a    *)
(* call that was made while it was WORKING is over when it is stopped.     *)
(***************************************************************************)
SoloInv ==
  Solo =>
    /\ \A c \in Clients \ {Owner} : pc[c] = "unborn"
    /\ \A w \in Workers : pc[w] \notin Stopping
    /\ pc[Owner] \in Stopping => call[Owner].all
    /\ pc[Owner] = "setState" => call[Owner].to = "WORKING"
    /\ state = "THREADS_STOPPED" => pc[Owner] \notin {"stop", "add", "lockToPush", "push"}

\* StopClears, from the first state on and in every call but StopThreads itself.
LeavesHands ==
  Solo /\ state = "THREADS_STOPPED" /\ pc[Owner] \notin Stopping
    => Len(container) + Cardinality(Busy) <= config.workers

\* What SoloInv says of the threads is up to the workers and the owner.
LEMMA SoloOthers ==
  ASSUME QueueInv, SoloInv, Solo, [Next]_vars
  PROVE  \/ CallStep(Owner) \/ Call(Owner)
         \/ /\ UNCHANGED <<config, state>>
            /\ pc'[Owner] = pc[Owner] /\ call'[Owner] = call[Owner]
            /\ \A c \in Clients \ {Owner} : pc'[c] = "unborn"
            /\ \A w \in Workers : pc'[w] \notin Stopping
<1>1. /\ Owner \in Actors /\ Owner \in Clients /\ Owner \notin Workers /\ Owner # Cleaner
      /\ Cleaner \notin Clients /\ Cleaner \notin Workers /\ Clients \cap Workers = {}
      /\ Clients \subseteq Actors /\ Workers \subseteq Actors
  BY QueueAssumption DEF Actors
<1>2. pc \in [Actors -> PcLabels] /\ call \in [Actors -> CallRecords]
  BY DEF QueueInv, TypeOK
<1>3. CASE CleanerStep
  <2>1. UNCHANGED <<config, state, call>> /\ \A a \in Actors \ {Cleaner} : pc'[a] = pc[a]
    BY <1>2, <1>3 DEF CleanerStep, CheckCleanerForce, Clean, Jump, LockContainer,
                      UnlockContainer, Erase, Moves
  <2> QED BY <1>1, <2>1 DEF SoloInv
<1>4. ASSUME NEW c \in Clients, Call(c) \/ CallStep(c)
      PROVE  c = Owner
  <2>1. CASE c # Owner
    <3>1. pc[c] = "unborn"
      BY <2>1 DEF SoloInv
    <3> QED BY <1>4, <2>1, <3>1
            DEF Call, Calls, CallStep, SetState, StopStep, SetStopped, ForceWorker,
                ForceCleaner, EnterStop, Stop, AddStep, EnterAdd, LockToPush, Push, Notify,
                RemoveTask, LockMutex, LockContainer, UnlockContainer, Moves
  <2> QED BY <2>1
<1>5. ASSUME NEW w \in Workers, WorkerStep(w) \/ SpuriousWakeup(w)
      PROVE  /\ UNCHANGED <<config, state>>
             /\ pc'[Owner] = pc[Owner] /\ call'[Owner] = call[Owner]
             /\ \A c \in Clients \ {Owner} : pc'[c] = "unborn"
             /\ \A v \in Workers : pc'[v] \notin Stopping
  <2>1. pc[w] \notin Stopping /\ config.func
    BY DEF SoloInv, Solo
  <2>2. ~ StopStep(w) /\ ~ StopThrows(w) /\ ~ StopQueue(w)
    BY <2>1
       DEF StopStep, SetStopped, ForceWorker, ForceCleaner, EnterStop, Stop,
           LockMutex, Moves, Stopping, StopThrows, StopQueue
  <2>3. /\ UNCHANGED <<config, state, call>>
        /\ \E label \in PcLabels \ Stopping : pc' = [pc EXCEPT ![w] = label]
    BY <1>5, <2>2
       DEF WorkerStep, CheckForce, Look, Sleep, SpuriousWakeup, Break, Recheck, Take,
           Succeed,
           Fail, PushBack, Jump, LockContainer, UnlockContainer, Moves, PcLabels, Stopping
  <2> QED BY <1>1, <1>2, <2>3 DEF SoloInv
<1>6. CASE UNCHANGED vars
  BY <1>6 DEF vars, SoloInv
<1> QED BY <1>3, <1>4, <1>5, <1>6 DEF Next

\* A step of the owner.
LEMMA SoloOwner ==
  ASSUME QueueInv, SoloInv, Solo, Call(Owner) \/ CallStep(Owner)
  PROVE  /\ SoloInv'
         /\ state' = "THREADS_STOPPED" /\ pc'[Owner] \notin Stopping =>
              \/ container' = <<>> /\ UNCHANGED <<config, hand>>
              \/ state = "THREADS_STOPPED" /\ pc[Owner] \notin Stopping
<1>1. /\ Owner \in Actors /\ Owner \in Clients /\ Owner \notin Workers /\ Owner # Cleaner
      /\ Cleaner \notin Clients /\ Cleaner \notin Workers /\ Clients \cap Workers = {}
      /\ Clients \subseteq Actors /\ Workers \subseteq Actors
  BY QueueAssumption DEF Actors
<1>2. pc \in [Actors -> PcLabels] /\ call \in [Actors -> CallRecords]
  BY DEF QueueInv, TypeOK
<1>3. CASE Call(Owner)
  <2>1. PICK method \in {"stop", "add", "remove"}, n \in Nat, clear \in BOOLEAN :
          /\ Calls(Owner, method, n, "WORKING", clear)
          /\ method = "stop" => state # "THREADS_STOPPED" /\ clear
          /\ method = "add" => state = "WORKING"
    BY <1>3, QueueAssumption DEF Solo, Call, MayAdd
  <2>2. /\ pc[Owner] = "idle"
        /\ pc' = [pc EXCEPT ![Owner] = method]
        /\ call'[Owner] = [n |-> n, to |-> "WORKING", all |-> clear]
        /\ UNCHANGED <<config, state, container>>
    BY <1>1, <1>2, <2>1 DEF Calls, Moves
  <2>3. /\ \A c \in Clients \ {Owner} : pc'[c] = "unborn"
        /\ \A w \in Workers : pc'[w] \notin Stopping
        /\ pc'[Owner] = method
    BY <1>1, <1>2, <2>2 DEF SoloInv, Solo
  <2> QED BY <2>1, <2>2, <2>3 DEF SoloInv, Solo, Stopping
<1>4. CASE ConstructorStep
  <2>1. /\ UNCHANGED <<config, state, container>>
        /\ pc[Owner] \in {"construct", "start"}
        /\ pc'[Owner] \in {"start", "thrown", "setState"}
        /\ \A c \in Clients \ {Owner} : pc'[c] = "unborn"
        /\ \A w \in Workers : pc'[w] \notin Stopping
    <3>1. CASE StartThreads
      BY <1>1, <1>2, <3>1 DEF SoloInv, Solo, Stopping, StartThreads
    <3>2. CASE StartWorker
      <4>1. call[Owner].n # Owner /\ call[Owner].n \in Workers
        BY <1>1, <3>2, QueueAssumption, LoopVariable
           DEF QueueInv, TypeOK, Construction, AllConfigs, Workers, StartWorker
      <4> QED BY <1>1, <1>2, <3>2, <4>1 DEF SoloInv, Solo, Stopping, StartWorker
    <3>3. CASE Constructed
      BY <1>1, <1>2, <3>3 DEF SoloInv, Solo, Stopping, Constructed
    <3>4. CASE ConstructorThrows
      BY <1>1, <1>2, <3>4 DEF SoloInv, Solo, Stopping, ConstructorThrows, Moves
    <3> QED BY <1>4, <3>1, <3>2, <3>3, <3>4 DEF ConstructorStep
  <2>2. pc'[Owner] = "setState" => call'[Owner].to = "WORKING"
    <3>1. CASE Constructed
      BY <1>1, <1>2, <3>1 DEF Constructed, Return, NoCall
    <3>2. CASE StartThreads \/ StartWorker
      <4>1. pc'[Owner] = "start"
        BY <1>1, <1>2, <2>1, <3>2 DEF StartThreads, StartWorker
      <4> QED BY <4>1
    <3>3. CASE ConstructorThrows
      BY <1>1, <1>2, <3>3 DEF ConstructorThrows, Moves
    <3> QED BY <1>4, <3>1, <3>2, <3>3 DEF ConstructorStep
  <2> QED BY <2>1, <2>2 DEF SoloInv, Solo, Stopping
<1>5. CASE SetState(Owner)
  BY <1>1, <1>2, <1>5
     DEF SoloInv, Solo, Stopping, SetState, StateChange, Notified, Awoken, Return
<1>6. CASE StopStep(Owner)
  <2>1. CASE SetStopped(Owner)
    BY <1>1, <1>2, <2>1
       DEF SoloInv, Solo, Stopping, SetStopped, StateChange, Notified, Awoken, CallRecords
  <2>2. CASE ForceWorker(Owner) \/ ForceCleaner(Owner) \/ EnterStop(Owner)
    <3>1. /\ UNCHANGED <<config, state>>
          /\ pc[Owner] \in Stopping \ {"stop"}
          /\ pc' = pc \/ pc' = [pc EXCEPT ![Owner] = "clear"]
                       \/ pc' = [pc EXCEPT ![Owner] = "clearing"]
      BY <2>2 DEF ForceWorker, ForceCleaner, EnterStop, LockMutex, Moves, Stopping
    <3>2. call[Owner] \in CallRecords /\ call'[Owner].all = call[Owner].all
      BY <1>1, <1>2, <2>2
         DEF ForceWorker, ForceCleaner, EnterStop, LockMutex, CallRecords
    <3>3. /\ \A c \in Clients \ {Owner} : pc'[c] = "unborn"
          /\ \A w \in Workers : pc'[w] \notin Stopping
          /\ pc'[Owner] \in Stopping \ {"stop"}
      BY <1>1, <1>2, <3>1 DEF SoloInv, Solo, Stopping
    <3> QED BY <3>1, <3>2, <3>3 DEF SoloInv, Solo, Stopping
  <2>3. CASE Stop(Owner)
    BY <1>1, <1>2, <2>3 DEF SoloInv, Solo, Stopping, Stop, Cleared, Moves, Return
  <2> QED BY <1>6, <2>1, <2>2, <2>3 DEF StopStep
<1>7. CASE AddStep(Owner)
  BY <1>1, <1>2, <1>7
     DEF SoloInv, Solo, Stopping, AddStep, EnterAdd, LockToPush, Push, Notify, LockMutex,
         LockContainer, Moves, Awoken, Return
<1>8. CASE RemoveTask(Owner)
  BY <1>1, <1>2, <1>8
     DEF SoloInv, Solo, Stopping, RemoveTask, LockContainer, UnlockContainer, Erase, Moves
<1> QED BY <1>3, <1>4, <1>5, <1>6, <1>7, <1>8 DEF CallStep

LEMMA StepKeepsSolo ==
  ASSUME QueueInv, SoloInv, [Next]_vars
  PROVE  SoloInv'
<1>1. config' = config
  BY TaskSteps DEF Shrinks, Push, Take, Succeed, Fail, PushBack
<1>2. CASE Solo
  <2>1. CASE CallStep(Owner) \/ Call(Owner)
    BY <1>2, <2>1, SoloOwner
  <2>2. CASE ~ (CallStep(Owner) \/ Call(Owner))
    BY <1>2, <2>2, SoloOthers DEF SoloInv
  <2> QED BY <2>1, <2>2
<1>3. CASE ~ Solo
  BY <1>1, <1>3 DEF SoloInv, Solo
<1> QED BY <1>2, <1>3

LEMMA StepKeepsLeaves ==
  ASSUME QueueInv, QueueInv', SoloInv, [Next]_vars, LeavesHands
  PROVE  LeavesHands'
<1> SUFFICES ASSUME Solo', state' = "THREADS_STOPPED", pc'[Owner] \notin Stopping
             PROVE  Len(container') + Cardinality(Busy') <= config'.workers
  BY DEF LeavesHands
<1>1. config' = config /\ Solo
  <2>1. config' = config
    BY TaskSteps DEF Shrinks, Push, Take, Succeed, Fail, PushBack
  <2> QED BY <2>1 DEF Solo
<1>2. /\ container \in Seq(Tasks) /\ Len(container) \in Nat
      /\ container' \in Seq(Tasks) /\ Len(container') \in Nat
  BY LenProperties DEF QueueInv, TypeOK
<1>3. /\ Cardinality(Busy) \in Nat
      /\ config.workers \in Nat
      /\ Cardinality(Busy) <= config.workers
  BY BusyIsSmall
<1>4. \/ container' = <<>> /\ UNCHANGED <<config, hand>>
      \/ state = "THREADS_STOPPED" /\ pc[Owner] \notin Stopping
  BY <1>1, SoloOthers, SoloOwner
<1>5. CASE container' = <<>> /\ UNCHANGED <<config, hand>>
  <2>1. Len(container') = 0 /\ Busy' = Busy
    BY <1>5 DEF Busy
  <2> QED BY <1>1, <1>3, <2>1
<1>6. CASE state = "THREADS_STOPPED" /\ pc[Owner] \notin Stopping
  <2>1. Len(container) + Cardinality(Busy) <= config.workers
    BY <1>1, <1>6 DEF LeavesHands
  <2>2. CASE Shrinks
    <3>1. Len(container') <= Len(container) /\ Busy' = Busy
      BY <1>2, <2>2, ShrinksToPart DEF PartOf, Shrinks, Busy
    <3> QED BY <1>1, <1>2, <1>3, <2>1, <3>1
  <2>3. ASSUME NEW c \in Clients, Push(c) PROVE FALSE
    <3>1. pc[c] = "push"
      BY <2>3 DEF Push
    <3> QED BY <1>1, <1>6, <2>3, <3>1 DEF SoloInv
  <2>4. ASSUME NEW w \in Workers, Take(w)
        PROVE  Len(container') + Cardinality(Busy') <= config'.workers
    <3>1. container # <<>> /\ container' = Tail(container)
      BY <2>4 DEF QueueInv, FrontExists, Take, Moves, Popped
    <3>2. Len(container') = Len(container) - 1
      BY <1>2, <3>1, HeadTailProperties
    <3>3. Cardinality(Busy') = Cardinality(Busy) + 1
      BY <2>4, BusyAdds
    <3> QED BY <1>1, <1>2, <1>3, <2>1, <3>2, <3>3
  <2>5. ASSUME NEW w \in Workers, Succeed(w)
        PROVE  Len(container') + Cardinality(Busy') <= config'.workers
    <3>1. Cardinality(Busy') = Cardinality(Busy) - 1 /\ container' = container
      BY <2>5, BusyDrops DEF Succeed
    <3> QED BY <1>1, <1>2, <1>3, <2>1, <3>1
  <2>6. ASSUME NEW w \in Workers, Fail(w)
        PROVE  Len(container') + Cardinality(Busy') <= config'.workers
    <3>1. Busy' = Busy /\ container' = container
      BY <2>6 DEF QueueInv, TypeOK, HandsFull, Processing, Busy, Fail, Moves
    <3> QED BY <1>1, <2>1, <3>1
  <2>7. ASSUME NEW w \in Workers, PushBack(w)
        PROVE  Len(container') + Cardinality(Busy') <= config'.workers
    <3>1. Cardinality(Busy') = Cardinality(Busy) - 1
      BY <2>7, BusyDrops
    <3>2. hand[w] \in Tasks
      BY <2>7 DEF QueueInv, TypeOK, HandsFull, Processing, PushBack, Moves
    <3>3. Len(container') = Len(container) + 1
      BY <1>2, <2>7, <3>2, AppendProperties DEF PushBack
    <3> QED BY <1>1, <1>2, <1>3, <2>1, <3>1, <3>3
  <2> QED BY <2>2, <2>3, <2>4, <2>5, <2>6, <2>7, TaskSteps
<1> QED BY <1>4, <1>5, <1>6

\* With one client, in plain use, StopThreads(true) leaves no more tasks than
\* there are workers, those that were in their hands when it cleared the
\* container (lines 122 and 168).
THEOREM StopLeavesHands == Spec => []StopClears
<1>1. Init => SoloInv /\ LeavesHands
  <2> SUFFICES ASSUME Init PROVE SoloInv /\ LeavesHands
    OBVIOUS
  <2>1. QueueInv
    BY InitEstablishes
  <2>2. SoloInv
    BY QueueAssumption DEF Init, SoloInv, Stopping, Actors
  <2>3. Len(container) = 0 /\ Busy = {} /\ Cardinality({}) = 0
    BY FS_EmptySet DEF Init, Busy
  <2>4. config.workers \in Nat
    BY <2>1, BusyIsSmall
  <2>5. Len(container) + Cardinality(Busy) <= config.workers
    BY <2>3, <2>4
  <2> QED BY <2>2, <2>5 DEF LeavesHands
<1>2. QueueInv /\ QueueInv' /\ [Next]_vars /\ SoloInv /\ LeavesHands
        => SoloInv' /\ LeavesHands'
  BY StepKeepsSolo, StepKeepsLeaves
<1>3. SoloInv /\ LeavesHands => StopClears
  BY DEF LeavesHands, Stopping, StopClears
<1> QED BY <1>1, <1>2, <1>3, QueueInvariant, PTL DEF Spec

=============================================================================
