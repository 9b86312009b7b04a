---------------------------- MODULE PlainUseProofs ----------------------------
(***************************************************************************)
(* Theorems about DataWrapper in plain use: clients that use none of the   *)
(* Features, and of whom at most one reads any given mutex.  Threads,      *)
(* mutexes, nested wrappers and requests are as many as one likes.         *)
(***************************************************************************)
EXTENDS DataWrapperProofs

MayRead(t, m) == [thread |-> t, mutex |-> m, type |-> "Read"] \in Requests

OneReader ==
  \A s, t \in Threads, m \in Mutexes : MayRead(s, m) /\ MayRead(t, m) => s = t

PlainUse == Features = {} /\ OneReader

-----------------------------------------------------------------------------
(***************************************************************************)
(* The inductive invariant.  Nobody but the thread that registered a lock  *)
(* object ever owns it: whoever else finds it sees a guard and no owner of *)
(* its own, waits and gives up.  So everything hangs on who is resident at *)
(* a mutex, and on the lockCount that is owed to wrappers and to calls.    *)
(***************************************************************************)
Acquiring == {"guard", "lock", "own"}
Granted == {"reset", "success"}
Waiting == {"wait", "waitOwners"}
Looking == {"can", "canOwners", "addHeld"}
AccessPcs == {"get", "register"} \cup Looking \cup Waiting \cup Acquiring \cup Granted
Closing == {"disown", "should", "shouldOwners", "opCount", "unregister"}
ReleasePcs == {"release", "dropHeld", "return"} \cup Closing

\* t is at one of the places, working on m
At(t, places, m) == pc[t] \in places /\ req[t].mutex = m

\* The lockCount of t on m: its wrappers, one just granted, one being released
Claims(t, m) ==
  Open(t, m) + IF At(t, Granted \cup {"release", "disown"}, m) THEN 1 ELSE 0

\* The lock registered for m is the one t has registered
Resident(t, m) ==
  \/ Claims(t, m) > 0
  \/ dataLock = t /\ req[t].mutex = m
  \/ At(t, Closing, m)

\* t writes, or is about to
Writes(t, m) ==
  wrappers[t][m]["Write"] > 0 \/ (At(t, Granted, m) /\ req[t].type = "Write")

\* Where a thread can be, and the references it then has
CallShape(t) ==
  /\ pc[t] \in {"idle"} \cup AccessPcs \cup ReleasePcs
  /\ dataLock = t =>
       pc[t] \in Acquiring /\ registry[req[t].mutex] # NoLock /\ mdata[t] = NoLock
  /\ pc[t] \in Looking => mdata[t] # NoLock
  /\ pc[t] \in Acquiring => dataLock = t \/ mdata[t] # NoLock
  /\ mdata[t] # NoLock => pc[t] \in Looking \cup Acquiring \cup Granted
  /\ wdata[t] # NoLock <=> pc[t] \in Waiting
  /\ wdata[t] # NoLock => lock[wdata[t]].mutex = req[t].mutex
  /\ pc[t] \in Closing => rdata[t] = registry[req[t].mutex] /\ rdata[t] # NoLock

\* An access is one of Requests and, in plain use, neither upgrades nor descends
Asked(t) ==
  pc[t] \in AccessPcs =>
    /\ [thread |-> t, mutex |-> req[t].mutex, type |-> req[t].type] \in Requests
    /\ req[t].type = "Write" =>
         /\ wrappers[t][req[t].mutex]["Read"] > 0 => wrappers[t][req[t].mutex]["Write"] > 0
         /\ \A k \in Mutexes : k > req[t].mutex => Open(t, k) = 0

\* What a call has found out, and what can no longer change under it
Settled(t) ==
  /\ pc[t] \in Acquiring \cup {"addHeld"} =>
       /\ dataLock # t => registry[req[t].mutex] = mdata[t] /\ Open(t, req[t].mutex) > 0
       /\ lock[Target(t)].type = "Read" => req[t].type = "Read"
  /\ pc[t] = "can" /\ lock[mdata[t]].type = "Read" /\ req[t].type = "Read" =>
       registry[req[t].mutex] = mdata[t]
  /\ pc[t] = "canOwners" => lock[mdata[t]].type = "Read" /\ req[t].type = "Write"
  /\ pc[t] = "waitOwners" => lock[wdata[t]].type = "Read" /\ req[t].type = "Write"
  /\ pc[t] = "wait" =>
       IF lock[wdata[t]].type = "Read" THEN req[t].type = "Write"
                                       ELSE ~IsOwner(lock[wdata[t]], t)
  /\ pc[t] = "reset" => req[t].type = "Write"
  /\ pc[t] \in {"opCount", "unregister", "dropHeld"} => Open(t, req[t].mutex) = 0

\* m_heldLocks names the mutexes with wrappers and the one of the call
Remembers(t) ==
  \A m \in Mutexes :
    m \in held[t] <=>
      Open(t, m) > 0 \/ At(t, Acquiring \cup Granted \cup Closing \cup {"release", "dropHeld"}, m)

ThreadInv(t) == CallShape(t) /\ Asked(t) /\ Settled(t) /\ Remembers(t)

Counted ==
  \A t \in Threads, m \in Mutexes :
    IF registry[m] = NoLock THEN Claims(t, m) = 0
                            ELSE lock[registry[m]].owners[t] = Claims(t, m)

OneResident ==
  \A m \in Mutexes : \A s, t \in Threads : Resident(s, m) /\ Resident(t, m) => s = t

SomeResident ==
  \A m \in Mutexes : registry[m] # NoLock => \E t \in Threads : Resident(t, m)

\* The resident of a read lock reads
ReadersRead ==
  \A t \in Threads, m \in Mutexes :
    registry[m] # NoLock /\ lock[registry[m]].type = "Read" /\ Resident(t, m)
      => MayRead(t, m) /\ ~Writes(t, m)

ResidentInv == Counted /\ OneResident /\ SomeResident /\ ReadersRead

\* A lock object that is not registered has no owner
UnregisteredUnowned ==
  \A o \in LockIds : (\A m \in Mutexes : registry[m] # o) =>
    \A t \in Threads : lock[o].owners[t] = 0

\* A guard is missing only while its resident creates it, with m_classMutex or,
\* before that, with m_mutexData
GuardUp ==
  \A o \in LockIds \cap Referenced :
    \/ lock[o].guard
    \/ lock[o].class # NoThread
    \/ \E t \in Threads : dataLock = t /\ pc[t] = "guard" /\ Target(t) = o

ClassHeld ==
  \A o \in LockIds, t \in Threads : lock[o].class = t <=> pc[t] = "lock" /\ Target(t) = o

\* Until m_mutexData is given back nobody else has the new lock
Private ==
  \A t \in Threads : dataLock = t =>
    \A a \in Actors : Target(t) \notin {mdata[a], wdata[a], rdata[a]}

LockInv == UnregisteredUnowned /\ GuardUp /\ ClassHeld /\ Private

PlainInv == (\A t \in Threads : ThreadInv(t)) /\ ResidentInv /\ LockInv

-----------------------------------------------------------------------------
(* Steps that leave most of it alone                                       *)

\* A step of t touches nothing of the other threads ...
Alone(t) ==
  /\ \A a \in Actors \ {t} :
       pc'[a] = pc[a] /\ mdata'[a] = mdata[a] /\ wdata'[a] = wdata[a] /\ rdata'[a] = rdata[a]
  /\ \A s \in Threads \ {t} :
       req'[s] = req[s] /\ held'[s] = held[s] /\ wrappers'[s] = wrappers[s]

\* ... in the locks they refer to no more than these parts ...
SameFor(s, o) ==
  /\ lock'[o].mutex = lock[o].mutex /\ lock'[o].type = lock[o].type
  /\ lock'[o].owners[s] = lock[o].owners[s]

\* ... and no registration that they build on
BuildsOn(s) ==
  \/ dataLock = s
  \/ pc[s] \in Acquiring \cup Closing \cup {"addHeld"}
  \/ pc[s] = "can" /\ lock[mdata[s]].type = "Read" /\ req[s].type = "Read"

LEMMA OthersKeep ==
  ASSUME TypeOK, NEW t \in Threads, NEW s \in Threads \ {t}, ThreadInv(s), Alone(t),
         dataLock' = s <=> dataLock = s,
         BuildsOn(s) => registry'[req[s].mutex] = registry[req[s].mutex],
         \A o \in LockIds : o \in {mdata[s], wdata[s]} => SameFor(s, o),
         dataLock = s => SameFor(s, registry[req[s].mutex])
  PROVE  ThreadInv(s)'
<1>1. /\ pc'[s] = pc[s] /\ req'[s] = req[s] /\ held'[s] = held[s] /\ wrappers'[s] = wrappers[s]
      /\ mdata'[s] = mdata[s] /\ wdata'[s] = wdata[s] /\ rdata'[s] = rdata[s]
      /\ req[s].mutex \in Mutexes
  BY ThreadsAreActors DEF Alone, TypeOK
<1>2. /\ mdata[s] # NoLock => mdata[s] \in LockIds /\ SameFor(s, mdata[s])
      /\ wdata[s] # NoLock => wdata[s] \in LockIds /\ SameFor(s, wdata[s])
  BY ThreadsAreActors DEF TypeOK, LockRefs
<1>3. CallShape(s)'
  BY <1>1, <1>2 DEF ThreadInv, CallShape, BuildsOn, SameFor
<1>4. Asked(s)'
  BY <1>1 DEF ThreadInv, Asked, Open
<1>5. Settled(s)'
  <2>1. pc[s] \in Acquiring \cup {"addHeld"} =>
          Target(s)' = Target(s) /\ lock'[Target(s)].type = lock[Target(s)].type
    BY <1>1, <1>2 DEF ThreadInv, CallShape, Looking, BuildsOn, SameFor, Target
  <2>2. pc[s] \in Looking => mdata[s] # NoLock
    BY DEF ThreadInv, CallShape
  <2>3. pc[s] \in Waiting => wdata[s] # NoLock
    BY DEF ThreadInv, CallShape
  <2> QED
    BY <1>1, <1>2, <2>1, <2>2, <2>3
       DEF ThreadInv, Settled, BuildsOn, SameFor, Looking, Waiting, IsOwner, Open
<1>6. Remembers(s)'
  BY <1>1 DEF ThreadInv, Remembers, At, Open
<1> QED
  BY <1>3, <1>4, <1>5, <1>6 DEF ThreadInv

\* Who is resident, with how many claims, is the same after the step
SameResidents(t) ==
  /\ UNCHANGED registry
  /\ \A m \in Mutexes :
       /\ Claims(t, m)' = Claims(t, m)
       /\ Resident(t, m)' <=> Resident(t, m)
       /\ Writes(t, m)' => Writes(t, m)
  /\ \A s \in Threads \ {t} : dataLock' = s <=> dataLock = s
  /\ \A s \in Threads, m \in Mutexes : registry[m] # NoLock => SameFor(s, registry[m])

LEMMA OthersResidents ==
  ASSUME NEW t \in Threads, NEW s \in Threads \ {t}, Alone(t), dataLock' = s <=> dataLock = s,
         NEW m \in Mutexes
  PROVE  /\ Claims(s, m)' = Claims(s, m)
         /\ Resident(s, m)' <=> Resident(s, m)
         /\ Writes(s, m)' <=> Writes(s, m)
<1>1. pc'[s] = pc[s] /\ req'[s] = req[s] /\ wrappers'[s] = wrappers[s]
  BY ThreadsAreActors DEF Alone
<1>2. Claims(s, m)' = Claims(s, m)
  BY <1>1 DEF Claims, At, Open
<1> QED
  BY <1>1, <1>2 DEF Resident, Writes, At

LEMMA ResidentsKeep ==
  ASSUME NEW t \in Threads, ResidentInv, Alone(t), SameResidents(t)
  PROVE  ResidentInv'
<1>1. \A s \in Threads, m \in Mutexes :
        /\ Claims(s, m)' = Claims(s, m)
        /\ Resident(s, m)' <=> Resident(s, m)
        /\ Writes(s, m)' => Writes(s, m)
  BY OthersResidents DEF SameResidents
<1>2. Counted'
  BY <1>1 DEF ResidentInv, Counted, SameResidents, SameFor
<1>3. OneResident' /\ SomeResident'
  BY <1>1 DEF ResidentInv, OneResident, SomeResident, SameResidents
<1>4. ReadersRead'
  BY <1>1 DEF ResidentInv, ReadersRead, SameResidents, SameFor, MayRead
<1> QED
  BY <1>2, <1>3, <1>4 DEF ResidentInv

\* The lock objects stay as they are, but for those that nothing refers to now
KeepsLocks == \A o \in LockIds : lock'[o] = lock[o] \/ (o \notin Referenced' /\ lock'[o] = Freed)

FewerReferences(t) ==
  \A o \in LockIds : o \in {mdata'[t], wdata'[t], rdata'[t]} =>
    \/ o \in {mdata[t], wdata[t], rdata[t]}
    \/ dataLock = NoThread /\ \E m \in Mutexes : registry[m] = o

\* A step of t's own: most are
LocalStep(t) ==
  /\ Alone(t)
  /\ UNCHANGED <<registry, dataLock>>
  /\ dataLock # t
  /\ KeepsLocks
  /\ FewerReferences(t)
  /\ pc[t] # "lock" /\ pc'[t] # "lock"
  /\ \A m \in Mutexes :
       /\ Claims(t, m)' = Claims(t, m)
       /\ Resident(t, m)' <=> Resident(t, m)
       /\ Writes(t, m)' => Writes(t, m)

LEMMA FreedIsFree ==
  /\ \A t \in Threads : Freed.owners[t] = 0
  /\ Freed.class = NoThread
BY DEF Freed, NewLock

LEMMA ReferencesKeep ==
  ASSUME TypeOK, NEW t \in Threads, Alone(t), UNCHANGED registry, FewerReferences(t)
  PROVE  Referenced' \cap LockIds \subseteq Referenced
BY ThreadsAreActors DEF Alone, FewerReferences, Referenced, TypeOK

LEMMA LocalKeepsLockInv ==
  ASSUME TypeOK, TypeOK', PlainInv, NEW t \in Threads, LocalStep(t)
  PROVE  LockInv'
<1>1. \A o \in LockIds : o \in Referenced' => lock'[o] = lock[o] /\ o \in Referenced
  BY ReferencesKeep DEF LocalStep, KeepsLocks
<1>2. ASSUME NEW s \in Threads, dataLock = s \/ pc[s] = "lock"
      PROVE  /\ Target(s) \in LockIds /\ Target(s) \in Referenced
             /\ s # t => Target(s)' = Target(s)
  BY <1>2, ThreadsAreActors
     DEF PlainInv, ThreadInv, CallShape, Acquiring, Target, TypeOK, LockRefs, Referenced,
         LocalStep, Alone
<1>3. \A s \in Threads : dataLock = s => s # t
  BY DEF LocalStep
<1>4. \A s \in Threads : dataLock' = s <=> dataLock = s
  BY DEF LocalStep
<1>5. \A s \in Threads : pc'[s] = "lock" <=> pc[s] = "lock"
  BY ThreadsAreActors DEF LocalStep, Alone
<1>6. UnregisteredUnowned'
  BY FreedIsFree DEF PlainInv, LockInv, UnregisteredUnowned, LocalStep, KeepsLocks
<1>7. GuardUp'
  <2>1. SUFFICES ASSUME NEW o \in LockIds, o \in Referenced',
                        NEW s \in Threads, dataLock = s, pc[s] = "guard", Target(s) = o
                 PROVE  dataLock' = s /\ pc'[s] = "guard" /\ Target(s)' = o
    BY <1>1 DEF PlainInv, LockInv, GuardUp
  <2> QED
    BY <1>2, <1>3, <1>4, <2>1, ThreadsAreActors DEF LocalStep, Alone
<1>8. ClassHeld'
  <2> SUFFICES ASSUME NEW o \in LockIds, NEW s \in Threads
               PROVE  lock'[o].class = s <=> pc'[s] = "lock" /\ Target(s)' = o
    BY DEF ClassHeld
  <2>1. pc[s] = "lock" => s # t /\ Target(s)' = Target(s)
    BY <1>2 DEF LocalStep
  <2>2. CASE lock'[o] = lock[o]
    BY <1>5, <2>1, <2>2 DEF PlainInv, LockInv, ClassHeld
  <2>3. CASE o \notin Referenced' /\ lock'[o] = Freed
    <3>1. lock'[o].class # s
      BY <2>3, FreedIsFree, LockTypesAssumption
    <3>2. ASSUME pc'[s] = "lock", Target(s)' = o PROVE FALSE
      <4>1. dataLock' # s => mdata'[s] = o
        BY <3>2 DEF Target
      <4>2. dataLock' = s => registry'[req'[s].mutex] = o /\ req'[s].mutex \in Mutexes
        BY <3>2, ThreadsAreActors DEF Target, TypeOK
      <4> QED
        BY <2>3, <4>1, <4>2, ThreadsAreActors DEF Referenced
    <3> QED
      BY <3>1, <3>2
  <2> QED
    BY <2>2, <2>3 DEF LocalStep, KeepsLocks
<1>9. Private'
  <2> SUFFICES ASSUME NEW s \in Threads, dataLock' = s, NEW a \in Actors
               PROVE  Target(s)' \notin {mdata'[a], wdata'[a], rdata'[a]}
    BY DEF Private
  <2>1. dataLock = s /\ s # t /\ Target(s)' = Target(s) /\ Target(s) \in LockIds
    BY <1>2, <1>3, <1>4
  <2>2. Target(s) \notin {mdata[a], wdata[a], rdata[a]}
    BY <2>1 DEF PlainInv, LockInv, Private
  <2>3. CASE a = t
    BY <2>1, <2>2, <2>3, LockTypesAssumption DEF LocalStep, FewerReferences
  <2>4. CASE a # t
    BY <2>1, <2>2, <2>4 DEF LocalStep, Alone
  <2> QED
    BY <2>3, <2>4
<1> QED
  BY <1>6, <1>7, <1>8, <1>9 DEF LockInv

LEMMA LocalKeeps ==
  ASSUME TypeOK, TypeOK', PlainInv, NEW t \in Threads, LocalStep(t), ThreadInv(t)'
  PROVE  PlainInv'
<1>1. \A o \in LockIds : o \in Referenced' => lock'[o] = lock[o]
  BY DEF LocalStep, KeepsLocks
<1>2. ASSUME NEW s \in Threads \ {t} PROVE ThreadInv(s)'
  <2>1. mdata'[s] = mdata[s] /\ wdata'[s] = wdata[s] /\ req'[s] = req[s] /\ req[s].mutex \in Mutexes
    BY ThreadsAreActors DEF LocalStep, Alone, TypeOK
  <2>2. \A o \in LockIds : o \in {mdata[s], wdata[s]} => SameFor(s, o)
    BY <1>1, <2>1, ThreadsAreActors DEF Referenced, SameFor
  <2>3. dataLock = s => registry[req[s].mutex] \in LockIds
    BY <2>1 DEF PlainInv, ThreadInv, CallShape, TypeOK, LockRefs
  <2>4. dataLock = s => SameFor(s, registry[req[s].mutex])
    BY <1>1, <2>1, <2>3 DEF LocalStep, Referenced, SameFor
  <2> QED
    BY <2>2, <2>4, OthersKeep DEF PlainInv, LocalStep
<1>3. ResidentInv'
  <2>1. \A s \in Threads, m \in Mutexes : registry[m] # NoLock => SameFor(s, registry[m])
    <3>1. \A m \in Mutexes : registry[m] # NoLock =>
            registry[m] \in LockIds /\ registry[m] \in Referenced'
      BY DEF LocalStep, Referenced, TypeOK, LockRefs
    <3> QED
      BY <1>1, <3>1 DEF SameFor
  <2>2. SameResidents(t)
    BY <2>1 DEF LocalStep, SameResidents
  <2> QED
    BY <2>2, ResidentsKeep DEF PlainInv, LocalStep
<1> QED
  BY <1>2, <1>3, LocalKeepsLockInv DEF PlainInv

-----------------------------------------------------------------------------
(* What a thread sees of a lock object it has found *)

\* It has a guard, and is owned by the thread only if it is registered and the
\* thread has claims on it.
LEMMA LockSeen ==
  ASSUME TypeOK, OwnedInv, PlainInv, NEW t \in Threads, dataLock # t,
         NEW o \in {mdata[t], wdata[t], rdata[t]}, o # NoLock, ClassFree(o)
  PROVE  /\ lock[o].guard
         /\ IsOwner(lock[o], t) /\ o \in {mdata[t], wdata[t]} =>
              registry[req[t].mutex] = o /\ Claims(t, req[t].mutex) > 0
<1>1. o \in LockIds /\ o \in Referenced /\ t \in Actors /\ req[t].mutex \in Mutexes
  BY ThreadsAreActors DEF TypeOK, LockRefs, Referenced
<1>2. lock[o].guard
  <2>1. ~ \E s \in Threads : dataLock = s /\ pc[s] = "guard" /\ Target(s) = o
    BY <1>1 DEF PlainInv, LockInv, Private
  <2> QED
    BY <1>1, <2>1 DEF PlainInv, LockInv, GuardUp, ClassFree
<1>3. ASSUME IsOwner(lock[o], t), o \in {mdata[t], wdata[t]}
      PROVE  registry[req[t].mutex] = o /\ Claims(t, req[t].mutex) > 0
  <2>1. lock[o].mutex = req[t].mutex
    BY <1>3 DEF PlainInv, ThreadInv, CallShape, OwnedInv, CallPlaced
  <2>2. PICK m \in Mutexes : registry[m] = o
    BY <1>1, <1>3 DEF PlainInv, LockInv, UnregisteredUnowned, IsOwner
  <2>3. registry[req[t].mutex] = o
    BY <2>1, <2>2 DEF OwnedInv, Placed
  <2> QED
    BY <1>1, <1>3, <2>3 DEF PlainInv, ResidentInv, Counted, IsOwner
<1> QED
  BY <1>2, <1>3

\* It never is the owner of a read lock it asks to write on: that would be an
\* upgrade, and the conversion of TryAcquireLock is not reached.
LEMMA NoConversion ==
  ASSUME TypeOK, OwnedInv, PlainInv, NEW t \in Threads, pc[t] \in {"canOwners", "waitOwners"},
         NEW o \in {mdata[t], wdata[t]}, o # NoLock, ClassFree(o),
         lock[o].type = "Read", req[t].type = "Write"
  PROVE  ~IsOnlyOwner(lock[o], t)
<1> SUFFICES ASSUME IsOnlyOwner(lock[o], t) PROVE FALSE
  OBVIOUS
<1> DEFINE m == req[t].mutex
<1>1. m \in Mutexes /\ dataLock # t
  BY ThreadsAreActors DEF TypeOK, PlainInv, ThreadInv, CallShape, Acquiring
<1>2. IsOwner(lock[o], t)
  BY DEF IsOnlyOwner, Owners
<1>3. registry[m] = o /\ Claims(t, m) > 0
  BY <1>1, <1>2, LockSeen
<1>4. wrappers[t][m]["Read"] \in Nat /\ wrappers[t][m]["Write"] \in Nat
  BY <1>1 DEF TypeOK, Types
<1>5. Open(t, m) > 0
  BY <1>3, <1>4 DEF Claims, At, Granted, Open
<1>6. ~Writes(t, m)
  BY <1>1, <1>3 DEF PlainInv, ResidentInv, ReadersRead, Resident
<1>7. wrappers[t][m]["Read"] > 0 => wrappers[t][m]["Write"] > 0
  BY DEF PlainInv, ThreadInv, Asked, AccessPcs, Looking, Waiting
<1> QED
  BY <1>4, <1>5, <1>6, <1>7 DEF Open, Writes

-----------------------------------------------------------------------------
(* The steps of TryAcquireLock that change nothing but the caller's place  *)

PlainState == PlainUse /\ TypeOK /\ TypeOK' /\ OwnedInv /\ PlainInv

LEMMA GetLockDataKeeps ==
  ASSUME PlainState, NEW t \in Threads, GetLockData(t), UNCHANGED wrappers
  PROVE  PlainInv'
<1>0. /\ t \in Actors /\ t # NoThread /\ req[t].mutex \in Mutexes
      /\ pc \in [Actors -> PcLabels] /\ mdata \in [Actors -> LockRefs]
  BY ThreadsAreActors, LockTypesAssumption DEF PlainState, TypeOK
<1>1. /\ pc[t] = "get" /\ dataLock = NoThread
      /\ mdata' = [mdata EXCEPT ![t] = registry[req[t].mutex]]
      /\ pc' = [pc EXCEPT ![t] = IF registry[req[t].mutex] = NoLock THEN "register" ELSE "can"]
      /\ UNCHANGED <<registry, lock, held, dataLock, req, wdata, rdata, wrappers>>
  BY DEF GetLockData, Goto
<1>2. pc'[t] = IF registry[req[t].mutex] = NoLock THEN "register" ELSE "can"
  BY <1>0, <1>1
<1>3. LocalStep(t)
  <2>1. Alone(t)
    BY <1>0, <1>1, ThreadsAreActors DEF Alone
  <2>2. KeepsLocks /\ FewerReferences(t)
    BY <1>0, <1>1 DEF KeepsLocks, FewerReferences
  <2>3. ASSUME NEW m \in Mutexes
        PROVE  /\ Claims(t, m)' = Claims(t, m)
               /\ Resident(t, m)' <=> Resident(t, m)
               /\ Writes(t, m)' => Writes(t, m)
    <3>1. Claims(t, m)' = Claims(t, m)
      BY <1>1, <1>2 DEF Claims, At, Open, Granted
    <3> QED
      BY <1>1, <1>2, <3>1 DEF Resident, Writes, At, Granted, Closing
  <2> QED
    BY <1>0, <1>1, <1>2, <2>1, <2>2, <2>3 DEF LocalStep
<1>4. ThreadInv(t)
  BY DEF PlainState, PlainInv
<1>5. mdata'[t] = registry[req[t].mutex]
  BY <1>0, <1>1
<1>6. CallShape(t)'
  BY <1>0, <1>1, <1>2, <1>4, <1>5
     DEF ThreadInv, CallShape, AccessPcs, ReleasePcs, Looking, Waiting, Acquiring, Granted, Closing
<1>7. Asked(t)'
  BY <1>1, <1>2, <1>4 DEF ThreadInv, Asked, AccessPcs, Open
<1>8. Settled(t)'
  BY <1>1, <1>2, <1>5 DEF Settled, Acquiring
<1>9. Remembers(t)'
  BY <1>1, <1>2, <1>4 DEF ThreadInv, Remembers, At, Acquiring, Granted, Closing, Open
<1> QED
  BY <1>3, <1>6, <1>7, <1>8, <1>9, LocalKeeps DEF PlainState, ThreadInv

\* A thread at rest in, or on its way through, its own call
LEMMA Here ==
  ASSUME PlainState, NEW t \in Threads
  PROVE  /\ t \in Actors /\ t # NoThread
         /\ req[t].mutex \in Mutexes /\ req[t].type \in Types
         /\ pc \in [Actors -> PcLabels] /\ held \in [Actors -> SUBSET Mutexes]
         /\ mdata \in [Actors -> LockRefs] /\ wdata \in [Actors -> LockRefs]
         /\ rdata \in [Actors -> LockRefs] /\ NoLock \notin LockIds
         /\ \A m \in Mutexes : Open(t, m) \in Nat
         /\ ThreadInv(t) /\ CallPlaced(t)
<1>1. \A m \in Mutexes : wrappers[t][m]["Read"] \in Nat /\ wrappers[t][m]["Write"] \in Nat
  BY DEF PlainState, TypeOK, Types
<1>2. \A m \in Mutexes : Open(t, m) \in Nat
  BY <1>1 DEF Open
<1> QED
  BY <1>2, ThreadsAreActors, LockTypesAssumption, TrackerAssumption
     DEF PlainState, PlainInv, OwnedInv, TypeOK

\* Most steps of a call only move on in it
LEMMA MovesLocally ==
  ASSUME PlainState, NEW t \in Threads, Alone(t), KeepsLocks, FewerReferences(t),
         UNCHANGED <<registry, dataLock, req, wrappers>>, dataLock # t,
         pc[t] # "lock", pc'[t] # "lock",
         pc'[t] \in Granted <=> pc[t] \in Granted,
         pc'[t] \in {"release", "disown"} <=> pc[t] \in {"release", "disown"},
         (pc'[t] \in Closing <=> pc[t] \in Closing) \/ Claims(t, req[t].mutex) > 0
  PROVE  LocalStep(t)
<1>1. ASSUME NEW m \in Mutexes
      PROVE  /\ Claims(t, m)' = Claims(t, m)
             /\ Resident(t, m)' <=> Resident(t, m)
             /\ Writes(t, m)' => Writes(t, m)
  <2>1. Claims(t, m)' = Claims(t, m)
    BY DEF Claims, At, Open
  <2> QED
    BY <2>1 DEF Resident, Writes, At
<1> QED
  BY <1>1 DEF LocalStep

LEMMA CanAcquireKeeps ==
  ASSUME PlainState, NEW t \in Threads, CanAcquire(t), UNCHANGED wrappers
  PROVE  PlainInv'
<1> DEFINE o == mdata[t]
           m == req[t].mutex
<1>1. /\ pc[t] = "can" /\ ClassFree(o)
      /\ UNCHANGED <<registry, lock, held, dataLock, req, rdata, wrappers>>
  BY DEF CanAcquire
<1>2. /\ ThreadInv(t) /\ CallPlaced(t) /\ m \in Mutexes /\ t \in Actors
      /\ o # NoLock /\ wdata[t] = NoLock /\ dataLock # t /\ lock[o].mutex = m
  BY <1>1, Here DEF ThreadInv, CallShape, CallPlaced, Looking, Waiting, Acquiring
<1>3. /\ lock[o].guard
      /\ IsOwner(lock[o], t) => registry[m] = o /\ Open(t, m) > 0
  BY <1>1, <1>2, LockSeen, Here DEF PlainState, Claims, At, Granted
<1>4. ASSUME lock[o].type = "Read", req[t].type = "Read"
      PROVE  registry[m] = o /\ Open(t, m) > 0
  <2>1. registry[m] = o
    BY <1>1, <1>2, <1>4 DEF ThreadInv, Settled
  <2>2. PICK s \in Threads : Resident(s, m)
    BY <1>2, <2>1 DEF PlainState, PlainInv, ResidentInv, SomeResident
  <2>3. MayRead(s, m) /\ MayRead(t, m)
    BY <1>1, <1>2, <1>4, <2>1, <2>2
       DEF PlainState, PlainInv, ResidentInv, ReadersRead, ThreadInv, Asked, AccessPcs,
           Looking, MayRead
  <2>4. s = t
    BY <1>2, <2>3 DEF PlainState, PlainUse, OneReader
  <2> QED
    BY <1>1, <1>2, <2>1, <2>2, <2>4, Here DEF Resident, Claims, At, Granted, Closing
<1>5. lock[o].type \in Types /\ req[t].type \in Types
  BY <1>2, Here DEF PlainState, TypeOK, LockRefs, LockObjects
<1>6. CASE FirstLook(lock[o], t, req[t].type) = "CANNOT"
  <2>1. lock[o].type = "Write" /\ ~IsOwner(lock[o], t)
    BY <1>3, <1>5, <1>6 DEF FirstLook, Types
  <2>2. /\ wdata' = [wdata EXCEPT ![t] = o] /\ mdata' = [mdata EXCEPT ![t] = NoLock]
        /\ pc' = [pc EXCEPT ![t] = "wait"]
    BY <1>2, <1>6 DEF CanAcquire, Cannot, Goto
  <2>3. pc'[t] = "wait" /\ wdata'[t] = o /\ mdata'[t] = NoLock
    BY <2>2, Here
  <2>4. LocalStep(t)
    <3>1. Alone(t) /\ KeepsLocks /\ FewerReferences(t)
      BY <1>1, <2>2, Here, ThreadsAreActors DEF Alone, KeepsLocks, FewerReferences
    <3> QED
      BY <1>1, <1>2, <2>3, <3>1, MovesLocally DEF Granted, Closing
  <2>5. CallShape(t)'
    BY <1>1, <1>2, <2>3
       DEF CallShape, AccessPcs, ReleasePcs, Looking, Waiting, Acquiring, Granted, Closing
  <2>6. Asked(t)' /\ Remembers(t)'
    BY <1>1, <1>2, <2>3
       DEF ThreadInv, Asked, Remembers, AccessPcs, Looking, At, Acquiring, Granted, Closing, Open
  <2>7. Settled(t)'
    BY <1>1, <2>1, <2>3 DEF Settled, Acquiring
  <2> QED
    BY <2>4, <2>5, <2>6, <2>7, LocalKeeps DEF PlainState, ThreadInv
<1>7. CASE FirstLook(lock[o], t, req[t].type) # "CANNOT"
  <2>1. /\ UNCHANGED <<mdata, wdata>>
        /\ \/ FirstLook(lock[o], t, req[t].type) = "AVAIL" /\ pc' = [pc EXCEPT ![t] = "addHeld"]
           \/ FirstLook(lock[o], t, req[t].type) = "OWNERS" /\ pc' = [pc EXCEPT ![t] = "canOwners"]
    BY <1>7 DEF CanAcquire, Goto
  <2>2. pc'[t] \in {"addHeld", "canOwners"}
    BY <2>1, Here
  <2>3. pc'[t] = "addHeld" =>
          /\ registry[m] = o /\ Open(t, m) > 0
          /\ lock[o].type = "Read" => req[t].type = "Read"
    BY <1>3, <1>4, <1>5, <2>1, Here DEF FirstLook, Types
  <2>4. pc'[t] = "canOwners" => lock[o].type = "Read" /\ req[t].type = "Write"
    BY <1>3, <1>5, <2>1, Here DEF FirstLook, Types
  <2>5. LocalStep(t)
    <3>1. Alone(t) /\ KeepsLocks /\ FewerReferences(t)
      BY <1>1, <2>1, Here, ThreadsAreActors DEF Alone, KeepsLocks, FewerReferences
    <3> QED
      BY <1>1, <1>2, <2>2, <3>1, MovesLocally DEF Granted, Closing
  <2>6. CallShape(t)'
    BY <1>1, <1>2, <2>1, <2>2
       DEF CallShape, AccessPcs, ReleasePcs, Looking, Waiting, Acquiring, Granted, Closing
  <2>7. Asked(t)' /\ Remembers(t)'
    BY <1>1, <1>2, <2>2
       DEF ThreadInv, Asked, Remembers, AccessPcs, Looking, At, Acquiring, Granted, Closing, Open
  <2>8. Settled(t)'
    BY <1>1, <1>2, <2>1, <2>2, <2>3, <2>4 DEF Settled, Acquiring, Target, Open
  <2> QED
    BY <2>5, <2>6, <2>7, <2>8, LocalKeeps DEF PlainState, ThreadInv
<1> QED
  BY <1>6, <1>7

LEMMA CanConvertKeeps ==
  ASSUME PlainState, NEW t \in Threads, CanConvert(t), UNCHANGED wrappers
  PROVE  PlainInv'
<1> DEFINE o == mdata[t]
<1>1. /\ pc[t] = "canOwners" /\ ClassFree(o)
      /\ UNCHANGED <<registry, lock, held, dataLock, req, rdata, wrappers>>
  BY DEF CanConvert
<1>2. /\ ThreadInv(t) /\ CallPlaced(t) /\ t \in Actors /\ dataLock # t
      /\ o # NoLock /\ wdata[t] = NoLock /\ lock[o].mutex = req[t].mutex
      /\ lock[o].type = "Read" /\ req[t].type = "Write"
  BY <1>1, Here DEF ThreadInv, CallShape, Settled, CallPlaced, Looking, Waiting, Acquiring
<1>3. ~IsOnlyOwner(lock[o], t)
  BY <1>1, <1>2, NoConversion DEF PlainState
<1>4. /\ wdata' = [wdata EXCEPT ![t] = o] /\ mdata' = [mdata EXCEPT ![t] = NoLock]
      /\ pc' = [pc EXCEPT ![t] = "wait"]
  BY <1>2, <1>3 DEF CanConvert, Cannot, Goto
<1>5. pc'[t] = "wait" /\ wdata'[t] = o /\ mdata'[t] = NoLock
  BY <1>4, Here
<1>6. LocalStep(t)
  <2>1. Alone(t) /\ KeepsLocks /\ FewerReferences(t)
    BY <1>1, <1>4, Here, ThreadsAreActors DEF Alone, KeepsLocks, FewerReferences
  <2> QED
    BY <1>1, <1>2, <1>5, <2>1, MovesLocally DEF Granted, Closing
<1>7. CallShape(t)'
  BY <1>1, <1>2, <1>5
     DEF CallShape, AccessPcs, ReleasePcs, Looking, Waiting, Acquiring, Granted, Closing
<1>8. Asked(t)' /\ Remembers(t)'
  BY <1>1, <1>2, <1>5
     DEF ThreadInv, Asked, Remembers, AccessPcs, Looking, At, Acquiring, Granted, Closing, Open
<1>9. Settled(t)'
  BY <1>1, <1>2, <1>5 DEF Settled, Acquiring
<1> QED
  BY <1>6, <1>7, <1>8, <1>9, LocalKeeps DEF PlainState, ThreadInv

\* A step that ends in DropUnreferenced leaves the locks referred to alone
LEMMA DropKeepsLocks == DropUnreferenced => KeepsLocks
BY DEF DropUnreferenced, KeepsLocks

LEMMA RegisterFailsKeeps ==
  ASSUME PlainState, NEW t \in Threads, RegisterFails(t), UNCHANGED wrappers
  PROVE  PlainInv'
<1>1. /\ pc[t] = "register" /\ ~req[t].op
      /\ pc' = [pc EXCEPT ![t] = "idle"]
      /\ mdata' = [mdata EXCEPT ![t] = NoLock] /\ wdata' = [wdata EXCEPT ![t] = NoLock]
      /\ UNCHANGED <<registry, held, dataLock, req, rdata, wrappers>>
  BY DEF RegisterFails, Goto, PlainState, OwnedInv, NoOperations
<1>2. pc'[t] = "idle" /\ mdata'[t] = NoLock /\ wdata'[t] = NoLock
  BY <1>1, Here
<1>3. ThreadInv(t) /\ dataLock # t /\ t \in Actors
  BY <1>1, Here DEF ThreadInv, CallShape, Acquiring
<1>4. LocalStep(t)
  <2>1. Alone(t)
    BY <1>1, Here, ThreadsAreActors DEF Alone
  <2>2. KeepsLocks /\ FewerReferences(t)
    BY <1>1, <1>2, Here, DropKeepsLocks DEF RegisterFails, FewerReferences
  <2> QED
    BY <1>1, <1>2, <1>3, <2>1, <2>2, MovesLocally DEF Granted, Closing
<1>5. CallShape(t)'
  BY <1>1, <1>2, <1>3
     DEF CallShape, AccessPcs, ReleasePcs, Looking, Waiting, Acquiring, Granted, Closing
<1>6. Asked(t)' /\ Remembers(t)'
  BY <1>1, <1>2, <1>3
     DEF ThreadInv, Asked, Remembers, AccessPcs, Looking, Waiting, At, Acquiring, Granted,
         Closing, Open
<1>7. Settled(t)'
  BY <1>2 DEF Settled, Acquiring
<1> QED
  BY <1>4, <1>5, <1>6, <1>7, LocalKeeps DEF PlainState, ThreadInv

LEMMA AddToHeldLocksKeeps ==
  ASSUME PlainState, NEW t \in Threads, AddToHeldLocks(t), UNCHANGED wrappers
  PROVE  PlainInv'
<1>1. /\ pc[t] = "addHeld"
      /\ pc' = [pc EXCEPT ![t] = "guard"]
      /\ held' = [held EXCEPT ![t] = @ \cup {req[t].mutex}]
      /\ UNCHANGED <<registry, lock, dataLock, req, mdata, wdata, rdata, wrappers>>
  BY DEF AddToHeldLocks, Goto
<1>2. pc'[t] = "guard" /\ held'[t] = held[t] \cup {req[t].mutex}
  BY <1>1, Here
<1>3. ThreadInv(t) /\ dataLock # t /\ t \in Actors
  BY <1>1, Here DEF ThreadInv, CallShape, Acquiring
<1>4. LocalStep(t)
  <2>1. Alone(t) /\ KeepsLocks /\ FewerReferences(t)
    BY <1>1, Here, ThreadsAreActors DEF Alone, KeepsLocks, FewerReferences
  <2> QED
    BY <1>1, <1>2, <1>3, <2>1, MovesLocally DEF Granted, Closing
<1>5. CallShape(t)'
  BY <1>1, <1>2, <1>3
     DEF ThreadInv, CallShape, AccessPcs, ReleasePcs, Looking, Waiting, Acquiring, Granted, Closing
<1>6. Asked(t)'
  BY <1>1, <1>2, <1>3 DEF ThreadInv, Asked, AccessPcs, Looking, Acquiring, Open
<1>7. Settled(t)'
  BY <1>1, <1>2, <1>3 DEF ThreadInv, Settled, Acquiring, Target, Open
<1>8. Remembers(t)'
  BY <1>1, <1>2, <1>3 DEF ThreadInv, Remembers, At, Acquiring, Granted, Closing, Open
<1> QED
  BY <1>4, <1>5, <1>6, <1>7, <1>8, LocalKeeps DEF PlainState, ThreadInv

\* The new mutex is the greatest that the thread holds: nothing to reorder
LEMMA NeedToResetKeeps ==
  ASSUME PlainState, NEW t \in Threads, NeedToReset(t), UNCHANGED wrappers
  PROVE  PlainInv'
<1>1. /\ pc[t] = "reset"
      /\ UNCHANGED <<registry, lock, held, dataLock, req, mdata, wdata, rdata, wrappers>>
  BY DEF NeedToReset
<1>2. /\ ThreadInv(t) /\ dataLock # t /\ t \in Actors /\ req[t].mutex \in Mutexes
      /\ held[t] \subseteq Mutexes /\ \A m \in Mutexes : Open(t, m) \in Nat
  BY <1>1, Here DEF ThreadInv, CallShape, Acquiring
<1>3. ~ \E k \in held[t] : k > req[t].mutex
  <2> SUFFICES ASSUME NEW k \in held[t], k > req[t].mutex PROVE FALSE
    OBVIOUS
  <2>1. k \in Mutexes /\ k # req[t].mutex
    BY <1>2, LockTypesAssumption
  <2>2. Open(t, k) = 0
    BY <1>1, <1>2, <2>1 DEF ThreadInv, Asked, Settled, AccessPcs, Granted
  <2> QED
    BY <1>2, <2>1, <2>2 DEF ThreadInv, Remembers, At
<1>4. pc' = [pc EXCEPT ![t] = "success"]
  BY <1>3 DEF NeedToReset, Goto
<1>5. pc'[t] = "success"
  BY <1>4, Here
<1>6. LocalStep(t)
  <2>1. Alone(t) /\ KeepsLocks /\ FewerReferences(t)
    BY <1>1, <1>4, Here, ThreadsAreActors DEF Alone, KeepsLocks, FewerReferences
  <2> QED
    BY <1>1, <1>2, <1>5, <2>1, MovesLocally DEF Granted, Closing
<1>7. CallShape(t)'
  BY <1>1, <1>2, <1>5
     DEF ThreadInv, CallShape, AccessPcs, ReleasePcs, Looking, Waiting, Acquiring, Granted, Closing
<1>8. Asked(t)' /\ Remembers(t)'
  BY <1>1, <1>2, <1>5
     DEF ThreadInv, Asked, Remembers, AccessPcs, At, Acquiring, Granted, Closing, Open
<1>9. Settled(t)'
  BY <1>5 DEF Settled, Acquiring
<1> QED
  BY <1>6, <1>7, <1>8, <1>9, LocalKeeps DEF PlainState, ThreadInv

-----------------------------------------------------------------------------
(* The steps of ReleaseLock that leave the lock as it is *)

LEMMA FindToReleaseKeeps ==
  ASSUME PlainState, NEW t \in Threads, FindToRelease(t), UNCHANGED wrappers
  PROVE  PlainInv'
<1> DEFINE m == req[t].mutex
<1>1. /\ pc[t] = "release" /\ dataLock = NoThread
      /\ rdata' = [rdata EXCEPT ![t] = registry[m]]
      /\ UNCHANGED <<registry, lock, held, dataLock, req, mdata, wdata, wrappers>>
  BY DEF FindToRelease
<1>2. /\ ThreadInv(t) /\ dataLock # t /\ t \in Actors /\ m \in Mutexes
      /\ mdata[t] = NoLock /\ wdata[t] = NoLock
  BY <1>1, Here DEF ThreadInv, CallShape, Acquiring, Looking, Granted, Waiting
<1>3. Claims(t, m) > 0
  BY <1>1, <1>2, Here DEF Claims, At
<1>4. registry[m] # NoLock
  BY <1>2, <1>3 DEF PlainState, PlainInv, ResidentInv, Counted
<1>5. pc' = [pc EXCEPT ![t] = "disown"]
  BY <1>4 DEF FindToRelease, Goto
<1>6. pc'[t] = "disown" /\ rdata'[t] = registry[m]
  BY <1>1, <1>5, Here
<1>7. LocalStep(t)
  <2>1. Alone(t) /\ KeepsLocks /\ FewerReferences(t)
    BY <1>1, <1>2, <1>5, <1>6, ThreadsAreActors DEF Alone, KeepsLocks, FewerReferences
  <2> QED
    BY <1>1, <1>2, <1>3, <1>6, <2>1, MovesLocally DEF Granted
<1>8. CallShape(t)'
  BY <1>1, <1>2, <1>4, <1>6
     DEF CallShape, AccessPcs, ReleasePcs, Looking, Waiting, Acquiring, Granted, Closing
<1>9. Asked(t)' /\ Remembers(t)'
  BY <1>1, <1>2, <1>6
     DEF ThreadInv, Asked, Remembers, AccessPcs, Looking, Waiting, At, Acquiring, Granted,
         Closing, Open
<1>10. Settled(t)'
  BY <1>6 DEF Settled, Acquiring
<1> QED
  BY <1>7, <1>8, <1>9, <1>10, LocalKeeps DEF PlainState, ThreadInv

\* Every lock that a release comes across has its guard
LEMMA ShouldRemoveGuardKeeps ==
  ASSUME PlainState, NEW t \in Threads, ShouldRemoveGuard(t), UNCHANGED wrappers
  PROVE  PlainInv'
<1>1. /\ pc[t] = "should" /\ ClassFree(rdata[t])
      /\ UNCHANGED <<registry, lock, held, dataLock, req, mdata, wdata, rdata, wrappers>>
  BY DEF ShouldRemoveGuard
<1>2. /\ ThreadInv(t) /\ dataLock # t /\ t \in Actors
      /\ mdata[t] = NoLock /\ wdata[t] = NoLock /\ rdata[t] # NoLock
  BY <1>1, Here DEF ThreadInv, CallShape, Acquiring, Looking, Granted, Waiting, Closing
<1>3. lock[rdata[t]].guard
  BY <1>1, <1>2, LockSeen DEF PlainState
<1>4. pc' = [pc EXCEPT ![t] = "shouldOwners"]
  BY <1>3 DEF ShouldRemoveGuard, Goto
<1>5. pc'[t] = "shouldOwners"
  BY <1>4, Here
<1>6. LocalStep(t)
  <2>1. Alone(t) /\ KeepsLocks /\ FewerReferences(t)
    BY <1>1, <1>2, <1>4, ThreadsAreActors DEF Alone, KeepsLocks, FewerReferences
  <2> QED
    BY <1>1, <1>2, <1>5, <2>1, MovesLocally DEF Granted, Closing
<1>7. CallShape(t)'
  BY <1>1, <1>2, <1>5
     DEF ThreadInv, CallShape, AccessPcs, ReleasePcs, Looking, Waiting, Acquiring, Granted, Closing
<1>8. Asked(t)' /\ Remembers(t)'
  BY <1>1, <1>2, <1>5
     DEF ThreadInv, Asked, Remembers, AccessPcs, Looking, Waiting, At, Acquiring, Granted,
         Closing, Open
<1>9. Settled(t)'
  BY <1>5 DEF Settled, Acquiring
<1> QED
  BY <1>6, <1>7, <1>8, <1>9, LocalKeeps DEF PlainState, ThreadInv

\* If the lock has an owner left, it is the thread itself
LEMMA ShouldRemoveOwnersKeeps ==
  ASSUME PlainState, NEW t \in Threads, ShouldRemoveOwners(t), UNCHANGED wrappers
  PROVE  PlainInv'
<1> DEFINE m == req[t].mutex
           o == rdata[t]
<1>1. /\ pc[t] = "shouldOwners"
      /\ pc' = [pc EXCEPT ![t] = IF Owners(lock[o]) = {} THEN "opCount" ELSE "return"]
      /\ UNCHANGED <<registry, lock, held, dataLock, req, mdata, wdata, rdata, wrappers>>
  BY DEF ShouldRemoveOwners, Goto
<1>2. /\ ThreadInv(t) /\ dataLock # t /\ t \in Actors /\ m \in Mutexes
      /\ mdata[t] = NoLock /\ wdata[t] = NoLock /\ o = registry[m] /\ o # NoLock
  BY <1>1, Here DEF ThreadInv, CallShape, Acquiring, Looking, Granted, Waiting, Closing
<1>3. pc'[t] = IF Owners(lock[o]) = {} THEN "opCount" ELSE "return"
  BY <1>1, Here
<1>4. \A s \in Threads : lock[o].owners[s] = Claims(s, m)
  BY <1>2 DEF PlainState, PlainInv, ResidentInv, Counted
<1>5. Claims(t, m) = Open(t, m)
  BY <1>1, Here DEF Claims, At, Granted
<1>6. pc'[t] = "opCount" => Open(t, m) = 0
  BY <1>3, <1>4, <1>5, Here DEF Owners, IsOwner
<1>7. pc'[t] = "return" => Claims(t, m) > 0
  <2> SUFFICES ASSUME NEW s \in Threads, IsOwner(lock[o], s) PROVE s = t
    BY <1>3, <1>4 DEF Owners, IsOwner
  <2>1. Resident(s, m) /\ Resident(t, m)
    BY <1>1, <1>4 DEF Resident, At, Closing, IsOwner
  <2> QED
    BY <1>2, <2>1 DEF PlainState, PlainInv, ResidentInv, OneResident
<1>8. LocalStep(t)
  <2>1. Alone(t) /\ KeepsLocks /\ FewerReferences(t)
    BY <1>1, <1>2, ThreadsAreActors DEF Alone, KeepsLocks, FewerReferences
  <2> QED
    BY <1>1, <1>2, <1>3, <1>7, <2>1, MovesLocally DEF Granted, Closing
<1>9. CallShape(t)'
  BY <1>1, <1>2, <1>3
     DEF CallShape, AccessPcs, ReleasePcs, Looking, Waiting, Acquiring, Granted, Closing
<1>10. Asked(t)'
  BY <1>3 DEF Asked, AccessPcs, Looking, Waiting, Acquiring, Granted
<1>11. Settled(t)'
  BY <1>1, <1>3, <1>6 DEF Settled, Acquiring, Open
<1>12. Remembers(t)'
  BY <1>1, <1>2, <1>3, <1>5, <1>7
     DEF ThreadInv, Remembers, At, Acquiring, Granted, Closing, Open
<1> QED
  BY <1>8, <1>9, <1>10, <1>11, <1>12, LocalKeeps DEF PlainState, ThreadInv

LEMMA GetOperationCountKeeps ==
  ASSUME PlainState, NEW t \in Threads, GetOperationCount(t), UNCHANGED wrappers
  PROVE  PlainInv'
<1>1. /\ pc[t] = "opCount"
      /\ UNCHANGED <<registry, lock, held, dataLock, req, mdata, wdata, rdata, wrappers>>
  BY DEF GetOperationCount
<1>2. /\ ThreadInv(t) /\ dataLock # t /\ t \in Actors /\ rdata[t] \in LockIds
      /\ mdata[t] = NoLock /\ wdata[t] = NoLock
  BY <1>1, Here
     DEF ThreadInv, CallShape, Acquiring, Looking, Granted, Waiting, Closing, LockRefs
<1>3. pc' = [pc EXCEPT ![t] = "unregister"]
  <2>1. lock[rdata[t]].ops = 0
    BY <1>2 DEF PlainState, OwnedInv, NoOperations
  <2> QED
    BY <2>1 DEF GetOperationCount, Goto
<1>4. pc'[t] = "unregister"
  BY <1>3, Here
<1>5. LocalStep(t)
  <2>1. Alone(t) /\ KeepsLocks /\ FewerReferences(t)
    BY <1>1, <1>2, <1>3, ThreadsAreActors DEF Alone, KeepsLocks, FewerReferences
  <2> QED
    BY <1>1, <1>2, <1>4, <2>1, MovesLocally DEF Granted, Closing
<1>6. CallShape(t)'
  BY <1>1, <1>2, <1>4
     DEF ThreadInv, CallShape, AccessPcs, ReleasePcs, Looking, Waiting, Acquiring, Granted, Closing
<1>7. Asked(t)' /\ Remembers(t)'
  BY <1>1, <1>2, <1>4
     DEF ThreadInv, Asked, Remembers, AccessPcs, Looking, Waiting, At, Acquiring, Granted,
         Closing, Open
<1>8. Settled(t)'
  BY <1>1, <1>2, <1>4 DEF ThreadInv, Settled, Acquiring, Open
<1> QED
  BY <1>5, <1>6, <1>7, <1>8, LocalKeeps DEF PlainState, ThreadInv

LEMMA RemoveFromHeldLocksKeeps ==
  ASSUME PlainState, NEW t \in Threads, RemoveFromHeldLocks(t), UNCHANGED wrappers
  PROVE  PlainInv'
<1>1. /\ pc[t] = "dropHeld"
      /\ held' = [held EXCEPT ![t] = @ \ {req[t].mutex}]
      /\ pc' = [pc EXCEPT ![t] = "return"]
      /\ UNCHANGED <<registry, lock, dataLock, req, mdata, wdata, rdata, wrappers>>
  BY DEF RemoveFromHeldLocks, Goto
<1>2. /\ ThreadInv(t) /\ dataLock # t /\ t \in Actors /\ mdata[t] = NoLock /\ wdata[t] = NoLock
      /\ Open(t, req[t].mutex) = 0
  BY <1>1, Here DEF ThreadInv, CallShape, Settled, Acquiring, Looking, Granted, Waiting
<1>3. pc'[t] = "return" /\ held'[t] = held[t] \ {req[t].mutex}
  BY <1>1, Here
<1>4. LocalStep(t)
  <2>1. Alone(t) /\ KeepsLocks /\ FewerReferences(t)
    BY <1>1, <1>2, ThreadsAreActors DEF Alone, KeepsLocks, FewerReferences
  <2> QED
    BY <1>1, <1>2, <1>3, <2>1, MovesLocally DEF Granted, Closing
<1>5. CallShape(t)'
  BY <1>1, <1>2, <1>3
     DEF CallShape, AccessPcs, ReleasePcs, Looking, Waiting, Acquiring, Granted, Closing
<1>6. Asked(t)' /\ Settled(t)'
  BY <1>3 DEF Asked, Settled, AccessPcs, Looking, Waiting, Acquiring, Granted
<1>7. Remembers(t)'
  BY <1>1, <1>2, <1>3, Here DEF ThreadInv, Remembers, At, Acquiring, Granted, Closing, Open
<1> QED
  BY <1>4, <1>5, <1>6, <1>7, LocalKeeps DEF PlainState, ThreadInv

\* Only destructors release: neither conversion has left a lock at hand
LEMMA ReturnFromReleaseKeeps ==
  ASSUME PlainState, NEW t \in Threads, ReturnFromRelease(t), UNCHANGED wrappers
  PROVE  PlainInv'
<1>1. /\ pc[t] = "return"
      /\ rdata' = [rdata EXCEPT ![t] = NoLock]
      /\ UNCHANGED <<registry, held, dataLock, req, mdata, wdata, wrappers>>
  BY DEF ReturnFromRelease
<1>2. /\ ThreadInv(t) /\ dataLock # t /\ t \in Actors /\ mdata[t] = NoLock /\ wdata[t] = NoLock
  BY <1>1, Here DEF ThreadInv, CallShape, Acquiring, Looking, Granted, Waiting
<1>3. pc' = [pc EXCEPT ![t] = "idle"]
  BY <1>2 DEF ReturnFromRelease, Goto
<1>4. pc'[t] = "idle" /\ rdata'[t] = NoLock
  BY <1>1, <1>3, Here
<1>5. LocalStep(t)
  <2>1. Alone(t)
    BY <1>1, <1>2, <1>3, ThreadsAreActors DEF Alone
  <2>2. KeepsLocks /\ FewerReferences(t)
    BY <1>1, <1>4, Here, DropKeepsLocks DEF ReturnFromRelease, FewerReferences
  <2> QED
    BY <1>1, <1>2, <1>4, <2>1, <2>2, MovesLocally DEF Granted, Closing
<1>6. CallShape(t)'
  BY <1>1, <1>2, <1>4
     DEF CallShape, AccessPcs, ReleasePcs, Looking, Waiting, Acquiring, Granted, Closing
<1>7. Asked(t)' /\ Settled(t)'
  BY <1>4 DEF Asked, Settled, AccessPcs, Looking, Waiting, Acquiring, Granted
<1>8. Remembers(t)'
  BY <1>1, <1>2, <1>4 DEF ThreadInv, Remembers, At, Acquiring, Granted, Closing, Open
<1> QED
  BY <1>5, <1>6, <1>7, <1>8, LocalKeeps DEF PlainState, ThreadInv

-----------------------------------------------------------------------------
(* The wait of the constructor *)

\* A write lock of another thread does not become available, and a read lock
\* only sends the predicate on to count its owners
LEMMA WaitLookKeeps ==
  ASSUME PlainState, NEW t \in Threads, WaitLook(t)
  PROVE  PlainInv'
<1> DEFINE o == wdata[t]
<1>1. /\ pc[t] = "wait" /\ ClassFree(o)
      /\ UNCHANGED <<registry, lock, held, dataLock, req, mdata, wdata, rdata, wrappers>>
  BY DEF WaitLook
<1>2. /\ ThreadInv(t) /\ dataLock # t /\ t \in Actors /\ mdata[t] = NoLock /\ o # NoLock
  BY <1>1, Here DEF ThreadInv, CallShape, Acquiring, Looking, Granted, Waiting
<1>3. lock[o].guard /\ lock[o].type \in Types
  BY <1>1, <1>2, LockSeen, Here DEF PlainState, TypeOK, LockRefs, LockObjects
<1>4. lock[o].type = "Read" /\ req[t].type = "Write" /\ FirstLook(lock[o], t, req[t].type) = "OWNERS"
  BY <1>1, <1>2, <1>3 DEF ThreadInv, Settled, FirstLook, Types, WaitLook
<1>5. pc' = [pc EXCEPT ![t] = "waitOwners"]
  BY <1>4 DEF WaitLook, Goto
<1>6. pc'[t] = "waitOwners"
  BY <1>5, Here
<1>7. LocalStep(t)
  <2>1. Alone(t) /\ KeepsLocks /\ FewerReferences(t)
    BY <1>1, <1>2, <1>5, ThreadsAreActors DEF Alone, KeepsLocks, FewerReferences
  <2> QED
    BY <1>1, <1>2, <1>6, <2>1, MovesLocally DEF Granted, Closing
<1>8. CallShape(t)'
  BY <1>1, <1>2, <1>6
     DEF ThreadInv, CallShape, AccessPcs, ReleasePcs, Looking, Waiting, Acquiring, Granted, Closing
<1>9. Asked(t)' /\ Remembers(t)'
  BY <1>1, <1>2, <1>6
     DEF ThreadInv, Asked, Remembers, AccessPcs, Waiting, At, Acquiring, Granted, Closing, Open
<1>10. Settled(t)'
  BY <1>1, <1>4, <1>6 DEF Settled, Acquiring
<1> QED
  BY <1>7, <1>8, <1>9, <1>10, LocalKeeps DEF PlainState, ThreadInv

LEMMA WaitConvertKeeps ==
  ASSUME PlainState, NEW t \in Threads, WaitConvert(t)
  PROVE  PlainInv'
<1> DEFINE o == wdata[t]
<1>1. /\ pc[t] = "waitOwners" /\ ClassFree(o)
      /\ UNCHANGED <<registry, lock, held, dataLock, req, mdata, wdata, rdata, wrappers>>
  BY DEF WaitConvert
<1>2. /\ ThreadInv(t) /\ dataLock # t /\ t \in Actors /\ mdata[t] = NoLock /\ o # NoLock
      /\ lock[o].type = "Read" /\ req[t].type = "Write"
  BY <1>1, Here DEF ThreadInv, CallShape, Settled, Acquiring, Looking, Granted, Waiting
<1>3. pc' = [pc EXCEPT ![t] = "wait"]
  BY <1>1, <1>2, NoConversion DEF PlainState, WaitConvert, Goto
<1>4. pc'[t] = "wait"
  BY <1>3, Here
<1>5. LocalStep(t)
  <2>1. Alone(t) /\ KeepsLocks /\ FewerReferences(t)
    BY <1>1, <1>2, <1>3, ThreadsAreActors DEF Alone, KeepsLocks, FewerReferences
  <2> QED
    BY <1>1, <1>2, <1>4, <2>1, MovesLocally DEF Granted, Closing
<1>6. CallShape(t)'
  BY <1>1, <1>2, <1>4
     DEF ThreadInv, CallShape, AccessPcs, ReleasePcs, Looking, Waiting, Acquiring, Granted, Closing
<1>7. Asked(t)' /\ Remembers(t)'
  BY <1>1, <1>2, <1>4
     DEF ThreadInv, Asked, Remembers, AccessPcs, Waiting, At, Acquiring, Granted, Closing, Open
<1>8. Settled(t)'
  BY <1>1, <1>2, <1>4 DEF Settled, Acquiring
<1> QED
  BY <1>5, <1>6, <1>7, <1>8, LocalKeeps DEF PlainState, ThreadInv

LEMMA WaitTimeoutKeeps ==
  ASSUME PlainState, NEW t \in Threads, WaitTimeout(t)
  PROVE  PlainInv'
<1>1. /\ pc[t] \in Waiting
      /\ wdata' = [wdata EXCEPT ![t] = NoLock]
      /\ pc' = [pc EXCEPT ![t] = "idle"]
      /\ UNCHANGED <<registry, held, dataLock, req, mdata, rdata, wrappers>>
  BY DEF WaitTimeout, Waiting, Goto
<1>2. /\ ThreadInv(t) /\ dataLock # t /\ t \in Actors /\ mdata[t] = NoLock
  BY <1>1, Here DEF ThreadInv, CallShape, Acquiring, Looking, Granted, Waiting
<1>3. pc'[t] = "idle" /\ wdata'[t] = NoLock
  BY <1>1, Here
<1>4. LocalStep(t)
  <2>1. Alone(t)
    BY <1>1, <1>2, ThreadsAreActors DEF Alone
  <2>2. KeepsLocks /\ FewerReferences(t)
    BY <1>1, <1>3, Here, DropKeepsLocks DEF WaitTimeout, FewerReferences
  <2> QED
    BY <1>1, <1>2, <1>3, <2>1, <2>2, MovesLocally DEF Granted, Closing, Waiting
<1>5. CallShape(t)'
  BY <1>1, <1>2, <1>3
     DEF CallShape, AccessPcs, ReleasePcs, Looking, Waiting, Acquiring, Granted, Closing
<1>6. Asked(t)' /\ Settled(t)'
  BY <1>3 DEF Asked, Settled, AccessPcs, Looking, Waiting, Acquiring, Granted
<1>7. Remembers(t)'
  BY <1>1, <1>2, <1>3
     DEF ThreadInv, Remembers, At, Waiting, Acquiring, Granted, Closing, Open
<1> QED
  BY <1>4, <1>5, <1>6, <1>7, LocalKeeps DEF PlainState, ThreadInv

-----------------------------------------------------------------------------
(* The steps in which a wrapper is opened, asked for or closed *)

\* The claim of the call that was granted becomes the wrapper's
LEMMA SucceedKeeps ==
  ASSUME PlainState, NEW t \in Threads, Succeed(t)
  PROVE  PlainInv'
<1> DEFINE m == req[t].mutex
           ty == req[t].type
<1>1. /\ pc[t] = "success"
      /\ wrappers' = [wrappers EXCEPT ![t][m][ty] = @ + 1]
      /\ mdata' = [mdata EXCEPT ![t] = NoLock]
      /\ wdata' = [wdata EXCEPT ![t] = NoLock]
      /\ pc' = [pc EXCEPT ![t] = "idle"]
      /\ UNCHANGED <<registry, held, dataLock, req, rdata>>
  BY DEF Succeed, Goto
<1>2. /\ ThreadInv(t) /\ dataLock # t /\ t \in Actors /\ m \in Mutexes /\ ty \in Types
  BY <1>1, Here DEF ThreadInv, CallShape, Acquiring
<1>3. pc'[t] = "idle" /\ wdata'[t] = NoLock /\ mdata'[t] = NoLock
  BY <1>1, Here
<1>4. wrappers \in [Threads -> [Mutexes -> [Types -> Nat]]]
  BY DEF PlainState, TypeOK
<1>5. /\ \A k \in Mutexes, u \in Types :
           wrappers'[t][k][u] = wrappers[t][k][u] + IF k = m /\ u = ty THEN 1 ELSE 0
      /\ \A s \in Threads \ {t} : wrappers'[s] = wrappers[s]
  BY <1>1, <1>2, <1>4
<1>6. \A k \in Mutexes : Open(t, k)' = Open(t, k) + IF k = m THEN 1 ELSE 0
  BY <1>2, <1>4, <1>5 DEF Open, Types
<1>7. LocalStep(t)
  <2>1. Alone(t)
    BY <1>1, <1>2, <1>5, ThreadsAreActors DEF Alone
  <2>2. KeepsLocks /\ FewerReferences(t)
    BY <1>1, <1>3, Here, DropKeepsLocks DEF Succeed, FewerReferences
  <2>3. ASSUME NEW k \in Mutexes
        PROVE  /\ Claims(t, k)' = Claims(t, k)
               /\ Resident(t, k)' <=> Resident(t, k)
               /\ Writes(t, k)' => Writes(t, k)
    <3>1. Claims(t, k)' = Claims(t, k)
      BY <1>1, <1>3, <1>6, Here DEF Claims, At, Granted
    <3>2. Writes(t, k)' => Writes(t, k)
      BY <1>1, <1>2, <1>3, <1>4, <1>5 DEF Writes, At, Granted, Types
    <3> QED
      BY <1>1, <1>3, <3>1, <3>2 DEF Resident, At, Closing
  <2> QED
    BY <1>1, <1>2, <1>3, <2>1, <2>2, <2>3 DEF LocalStep
<1>8. CallShape(t)'
  BY <1>1, <1>2, <1>3
     DEF CallShape, AccessPcs, ReleasePcs, Looking, Waiting, Acquiring, Granted, Closing
<1>9. Asked(t)' /\ Settled(t)'
  BY <1>3 DEF Asked, Settled, AccessPcs, Looking, Waiting, Acquiring, Granted
<1>10. Remembers(t)'
  BY <1>1, <1>2, <1>3, <1>6, Here DEF ThreadInv, Remembers, At, Acquiring, Granted, Closing
<1> QED
  BY <1>7, <1>8, <1>9, <1>10, LocalKeeps DEF PlainState, ThreadInv

LEMMA AccessKeeps ==
  ASSUME PlainState, NEW t \in Threads, Access(t)
  PROVE  PlainInv'
<1>1. /\ pc[t] = "idle"
      /\ pc' = [pc EXCEPT ![t] = "get"]
      /\ UNCHANGED <<registry, lock, held, dataLock, mdata, wdata, rdata, wrappers>>
  BY DEF Access, Goto
<1>2. PICK m \in Mutexes, ty \in Types :
        /\ MayAsk(t, m, ty)
        /\ req' = [req EXCEPT ![t] = [mutex |-> m, type |-> ty, op |-> MayQueue(m)]]
  BY DEF Access
<1>3. /\ ThreadInv(t) /\ dataLock # t /\ t \in Actors
      /\ mdata[t] = NoLock /\ wdata[t] = NoLock
  BY <1>1, Here DEF ThreadInv, CallShape, Acquiring, Looking, Granted, Waiting
<1>4. /\ pc'[t] = "get" /\ req'[t].mutex = m /\ req'[t].type = ty
      /\ \A s \in Threads \ {t} : req'[s] = req[s]
  BY <1>1, <1>2, Here, ThreadsAreActors DEF PlainState, TypeOK
<1>5. LocalStep(t)
  <2>1. Alone(t) /\ KeepsLocks /\ FewerReferences(t)
    BY <1>1, <1>3, <1>4, ThreadsAreActors DEF Alone, KeepsLocks, FewerReferences
  <2>2. ASSUME NEW k \in Mutexes
        PROVE  /\ Claims(t, k)' = Claims(t, k)
               /\ Resident(t, k)' <=> Resident(t, k)
               /\ Writes(t, k)' => Writes(t, k)
    <3>1. Claims(t, k)' = Claims(t, k)
      BY <1>1, <1>4 DEF Claims, At, Granted, Open
    <3> QED
      BY <1>1, <1>3, <1>4, <3>1 DEF Resident, Writes, At, Closing, Granted
  <2> QED
    BY <1>1, <1>3, <1>4, <2>1, <2>2 DEF LocalStep
<1>6. CallShape(t)'
  BY <1>1, <1>3, <1>4
     DEF CallShape, AccessPcs, ReleasePcs, Looking, Waiting, Acquiring, Granted, Closing
<1>7. Asked(t)'
  <2>1. [thread |-> t, mutex |-> m, type |-> ty] \in Requests
    BY <1>2 DEF MayAsk
  <2>2. ASSUME ty = "Write" PROVE wrappers[t][m]["Read"] > 0 => wrappers[t][m]["Write"] > 0
    <3>1. wrappers[t][m]["Write"] \in Nat
      BY <1>2 DEF PlainState, TypeOK, Types
    <3> QED
      BY <1>2, <2>2, <3>1 DEF MayAsk, PlainState, PlainUse
  <2>3. ASSUME ty = "Write", NEW k \in Mutexes, k > m PROVE Open(t, k) = 0
    BY <1>2, <2>3, Here DEF MayAsk, PlainState, PlainUse
  <2> QED
    BY <1>1, <1>4, <2>1, <2>2, <2>3 DEF Asked, Open
<1>8. Settled(t)'
  BY <1>4 DEF Settled, Acquiring
<1>9. Remembers(t)'
  BY <1>1, <1>3, <1>4 DEF ThreadInv, Remembers, At, Acquiring, Granted, Closing, Open
<1> QED
  BY <1>5, <1>6, <1>7, <1>8, <1>9, LocalKeeps DEF PlainState, ThreadInv

\* The claim of the wrapper becomes that of the release
LEMMA DestroyKeeps ==
  ASSUME PlainState, NEW t \in Threads, Destroy(t)
  PROVE  PlainInv'
<1>1. /\ pc[t] = "idle"
      /\ pc' = [pc EXCEPT ![t] = "release"]
      /\ UNCHANGED <<registry, lock, held, dataLock, mdata, wdata, rdata>>
  BY DEF Destroy, Goto
<1>2. PICK m \in Mutexes, ty \in Types :
        /\ wrappers[t][m][ty] > 0
        /\ wrappers' = [wrappers EXCEPT ![t][m][ty] = @ - 1]
        /\ req' = [req EXCEPT ![t] = [mutex |-> m, type |-> ty, op |-> FALSE]]
  BY DEF Destroy
<1>3. /\ ThreadInv(t) /\ dataLock # t /\ t \in Actors
      /\ mdata[t] = NoLock /\ wdata[t] = NoLock
  BY <1>1, Here DEF ThreadInv, CallShape, Acquiring, Looking, Granted, Waiting
<1>4. /\ pc'[t] = "release" /\ req'[t].mutex = m /\ req'[t].type = ty
      /\ \A s \in Threads \ {t} : req'[s] = req[s]
  BY <1>1, <1>2, Here, ThreadsAreActors DEF PlainState, TypeOK
<1>5. wrappers \in [Threads -> [Mutexes -> [Types -> Nat]]]
  BY DEF PlainState, TypeOK
<1>6. /\ \A k \in Mutexes, u \in Types :
           wrappers'[t][k][u] = wrappers[t][k][u] - IF k = m /\ u = ty THEN 1 ELSE 0
      /\ \A s \in Threads \ {t} : wrappers'[s] = wrappers[s]
  BY <1>2, <1>5
<1>7. /\ \A k \in Mutexes : Open(t, k)' = Open(t, k) - IF k = m THEN 1 ELSE 0
      /\ Open(t, m) > 0
  <2>1. \A k \in Mutexes : wrappers[t][k]["Read"] \in Nat /\ wrappers[t][k]["Write"] \in Nat
    BY <1>5 DEF Types
  <2>2. ty = "Read" \/ ty = "Write"
    BY DEF Types
  <2> QED
    BY <1>2, <1>6, <2>1, <2>2 DEF Open, Types
<1>8. LocalStep(t)
  <2>1. Alone(t) /\ KeepsLocks /\ FewerReferences(t)
    BY <1>1, <1>3, <1>4, <1>6, ThreadsAreActors DEF Alone, KeepsLocks, FewerReferences
  <2>2. ASSUME NEW k \in Mutexes
        PROVE  /\ Claims(t, k)' = Claims(t, k)
               /\ Resident(t, k)' <=> Resident(t, k)
               /\ Writes(t, k)' => Writes(t, k)
    <3>1. Claims(t, k)' = Claims(t, k)
      BY <1>1, <1>4, <1>7, Here DEF Claims, At, Granted
    <3>2. Writes(t, k)' => Writes(t, k)
      BY <1>4, <1>5, <1>6 DEF Writes, At, Granted, Types
    <3> QED
      BY <1>1, <1>3, <1>4, <3>1, <3>2 DEF Resident, At, Closing
  <2> QED
    BY <1>1, <1>3, <1>4, <2>1, <2>2 DEF LocalStep
<1>9. CallShape(t)'
  BY <1>1, <1>3, <1>4
     DEF CallShape, AccessPcs, ReleasePcs, Looking, Waiting, Acquiring, Granted, Closing
<1>10. Asked(t)' /\ Settled(t)'
  BY <1>4 DEF Asked, Settled, AccessPcs, Looking, Waiting, Acquiring, Granted
<1>11. Remembers(t)'
  BY <1>1, <1>3, <1>4, <1>7, Here
     DEF ThreadInv, Remembers, At, Acquiring, Granted, Closing
<1> QED
  BY <1>8, <1>9, <1>10, <1>11, LocalKeeps DEF PlainState, ThreadInv

-----------------------------------------------------------------------------
(* RegisterMutex, AcquireLock and what they call *)

LEMMA NoResidents ==
  ASSUME PlainState, dataLock = NoThread, NEW m \in Mutexes, registry[m] = NoLock
  PROVE  \A s \in Threads : ~Resident(s, m)
BY LockTypesAssumption
   DEF PlainState, PlainInv, ResidentInv, Counted, ThreadInv, CallShape, Resident, At

LEMMA RegisterMutexKeeps ==
  ASSUME PlainState, NEW t \in Threads, RegisterMutex(t), UNCHANGED wrappers
  PROVE  PlainInv'
<1> DEFINE m == req[t].mutex
           F == FreshLock
<1>1. /\ pc[t] = "register" /\ dataLock = NoThread /\ registry[m] = NoLock
      /\ F \in LockIds /\ F \notin Referenced
      /\ registry' = [registry EXCEPT ![m] = F]
      /\ lock' = [lock EXCEPT ![F] = NewLock(m, req[t].type)]
      /\ held' = [held EXCEPT ![t] = @ \cup {m}]
      /\ dataLock' = t
      /\ pc' = [pc EXCEPT ![t] = "guard"]
      /\ UNCHANGED <<req, mdata, wdata, rdata, wrappers>>
  BY DEF RegisterMutex, Goto
<1> HIDE DEF F
<1>2. /\ ThreadInv(t) /\ t \in Actors /\ t # NoThread /\ m \in Mutexes /\ F # NoLock
      /\ mdata[t] = NoLock /\ wdata[t] = NoLock
  BY <1>1, Here DEF ThreadInv, CallShape, Acquiring, Looking, Granted, Waiting
<1>3. /\ registry \in [Mutexes -> LockRefs] /\ lock \in [LockIds -> LockObjects]
  BY DEF PlainState, TypeOK
<1>4. /\ registry'[m] = F /\ \A k \in Mutexes \ {m} : registry'[k] = registry[k]
      /\ lock'[F] = NewLock(m, req[t].type) /\ \A o \in LockIds \ {F} : lock'[o] = lock[o]
      /\ pc'[t] = "guard" /\ held'[t] = held[t] \cup {m}
  BY <1>1, <1>2, <1>3, Here
<1>5. Alone(t)
  BY <1>1, <1>2, Here, ThreadsAreActors DEF Alone
<1>6. /\ \A k \in Mutexes : registry[k] # F
      /\ \A a \in Actors : F \notin {mdata[a], wdata[a], rdata[a]}
  BY <1>1 DEF Referenced
<1>7. \A s \in Threads : dataLock # s
  BY <1>1, LockTypesAssumption
<1>8. ASSUME NEW s \in Threads \ {t} PROVE ThreadInv(s)'
  <2>1. BuildsOn(s) => registry'[req[s].mutex] = registry[req[s].mutex]
    <3>1. ThreadInv(s) /\ req[s].mutex \in Mutexes
      BY Here
    <3>2. BuildsOn(s) => registry[req[s].mutex] # NoLock
      BY <1>7, <3>1
         DEF BuildsOn, ThreadInv, CallShape, Settled, Acquiring, Looking, Closing
    <3> QED
      BY <1>1, <1>4, <3>1, <3>2
  <2>2. \A o \in LockIds : o \in {mdata[s], wdata[s]} => SameFor(s, o)
    BY <1>4, <1>6, ThreadsAreActors DEF SameFor
  <2>3. ThreadInv(s)
    BY Here
  <2> QED
    BY <1>1, <1>5, <1>7, <2>1, <2>2, <2>3, OthersKeep DEF PlainState
<1>9. ThreadInv(t)'
  <2>1. CallShape(t)'
    BY <1>1, <1>2, <1>4
       DEF CallShape, AccessPcs, ReleasePcs, Looking, Waiting, Acquiring, Granted, Closing
  <2>2. Asked(t)'
    BY <1>1, <1>2, <1>4 DEF ThreadInv, Asked, AccessPcs, Open
  <2>3. Settled(t)'
    BY <1>1, <1>4 DEF Settled, Acquiring, Target, NewLock
  <2>4. Remembers(t)'
    BY <1>1, <1>2, <1>4 DEF ThreadInv, Remembers, At, Acquiring, Granted, Closing, Open
  <2> QED
    BY <2>1, <2>2, <2>3, <2>4 DEF ThreadInv
<1>10. ASSUME NEW s \in Threads, NEW k \in Mutexes
       PROVE  /\ Claims(s, k)' = Claims(s, k)
              /\ Resident(s, k)' <=> Resident(s, k) \/ (s = t /\ k = m)
              /\ Writes(s, k)' <=> Writes(s, k)
  <2>1. CASE s = t
    <3>1. Claims(t, k)' = Claims(t, k)
      BY <1>1, <1>4 DEF Claims, At, Granted, Open
    <3> QED
      BY <1>1, <1>4, <1>7, <2>1, <3>1 DEF Resident, Writes, At, Granted, Closing
  <2>2. CASE s # t
    <3>1. dataLock' = s <=> dataLock = s
      BY <1>1, <1>7, <2>2
    <3> QED
      BY <1>5, <2>2, <3>1, OthersResidents
  <2> QED
    BY <2>1, <2>2
<1>11. ResidentInv'
  <2>1. \A s \in Threads : ~Resident(s, m) /\ Claims(s, m) = 0
    BY <1>1, <1>2, NoResidents DEF PlainState, PlainInv, ResidentInv, Counted
  <2>2. \A k \in Mutexes \ {m} : registry'[k] # NoLock =>
          registry'[k] = registry[k] /\ lock'[registry'[k]] = lock[registry[k]]
    BY <1>3, <1>4, <1>6 DEF LockRefs
  <2>3. Counted'
    <3> SUFFICES ASSUME NEW s \in Threads, NEW k \in Mutexes
                 PROVE  IF registry'[k] = NoLock THEN Claims(s, k)' = 0
                        ELSE lock'[registry'[k]].owners[s] = Claims(s, k)'
      BY DEF Counted
    <3>1. CASE k = m
      BY <1>2, <1>4, <1>10, <2>1, <3>1 DEF NewLock
    <3>2. CASE k # m
      BY <1>4, <1>10, <2>2, <3>2 DEF PlainState, PlainInv, ResidentInv, Counted
    <3> QED
      BY <3>1, <3>2
  <2>4. OneResident' /\ SomeResident'
    BY <1>2, <1>4, <1>10, <2>1
       DEF PlainState, PlainInv, ResidentInv, OneResident, SomeResident
  <2>5. ReadersRead'
    <3> SUFFICES ASSUME NEW s \in Threads, NEW k \in Mutexes, registry'[k] # NoLock,
                        lock'[registry'[k]].type = "Read", Resident(s, k)'
                 PROVE  MayRead(s, k) /\ ~Writes(s, k)
      BY <1>10 DEF ReadersRead, MayRead
    <3>1. CASE k = m
      <4>1. s = t /\ req[t].type = "Read"
        BY <1>4, <1>10, <2>1, <3>1 DEF NewLock
      <4>2. MayRead(t, m)
        BY <1>1, <1>2, <4>1 DEF ThreadInv, Asked, AccessPcs, MayRead
      <4>3. wrappers[t][m]["Read"] \in Nat /\ wrappers[t][m]["Write"] \in Nat
        BY <1>2 DEF PlainState, TypeOK, Types
      <4>4. ~Writes(t, m)
        BY <1>1, <2>1, <4>3 DEF Claims, Open, At, Granted, Writes
      <4> QED
        BY <3>1, <4>1, <4>2, <4>4
    <3>2. CASE k # m
      BY <1>10, <2>2, <3>2 DEF PlainState, PlainInv, ResidentInv, ReadersRead
    <3> QED
      BY <3>1, <3>2
  <2> QED
    BY <2>3, <2>4, <2>5 DEF ResidentInv
<1>12. LockInv'
  <2>1. UnregisteredUnowned'
    BY <1>1, <1>2, <1>4, Here
       DEF PlainState, PlainInv, LockInv, UnregisteredUnowned
  <2>2. Target(t)' = F
    BY <1>1, <1>4 DEF Target
  <2>3. GuardUp'
    <3> SUFFICES ASSUME NEW o \in LockIds, o \in Referenced', o # F
                 PROVE  lock'[o].guard \/ lock'[o].class # NoThread
      BY <1>1, <1>4, <2>2 DEF GuardUp
    <3>1. o \in Referenced
      BY <1>1, <1>2, <1>4 DEF Referenced
    <3> QED
      BY <1>4, <1>7, <3>1 DEF PlainState, PlainInv, LockInv, GuardUp
  <2>4. ClassHeld'
    <3> SUFFICES ASSUME NEW o \in LockIds, NEW s \in Threads
                 PROVE  lock'[o].class = s <=> pc'[s] = "lock" /\ Target(s)' = o
      BY DEF ClassHeld
    <3>1. pc'[s] = "lock" <=> pc[s] = "lock"
      BY <1>1, <1>4, <1>5, ThreadsAreActors DEF Alone
    <3>2. pc[s] = "lock" => Target(s) = mdata[s] /\ Target(s)' = mdata[s]
      BY <1>1, <1>7 DEF Target
    <3>3. CASE o = F
      BY <1>4, <1>6, <3>1, <3>2, <3>3, ThreadsAreActors, LockTypesAssumption DEF NewLock
    <3>4. CASE o # F
      BY <1>4, <3>1, <3>2, <3>4 DEF PlainState, PlainInv, LockInv, ClassHeld
    <3> QED
      BY <3>3, <3>4
  <2>5. Private'
    BY <1>1, <1>6, <2>2 DEF Private
  <2> QED
    BY <2>1, <2>3, <2>4, <2>5 DEF LockInv
<1> QED
  BY <1>8, <1>9, <1>11, <1>12 DEF PlainInv

\* What AcquireLock is called on is the lock registered for the mutex
LEMMA TargetIsRegistered ==
  ASSUME PlainState, NEW t \in Threads, pc[t] \in Acquiring
  PROVE  /\ Target(t) = registry[req[t].mutex] /\ Target(t) \in LockIds
         /\ lock[Target(t)] \in LockObjects
         /\ lock[Target(t)].mutex = req[t].mutex
         /\ Resident(t, req[t].mutex)
         /\ lock[Target(t)].type = "Read" => req[t].type = "Read"
<1>1. ThreadInv(t) /\ req[t].mutex \in Mutexes
  BY Here
<1>2. Target(t) = registry[req[t].mutex] /\ Target(t) # NoLock
  BY <1>1 DEF ThreadInv, CallShape, Settled, Target
<1>3. Target(t) \in LockIds /\ lock[Target(t)] \in LockObjects
  BY <1>1, <1>2 DEF PlainState, TypeOK, LockRefs
<1>4. lock[Target(t)].mutex = req[t].mutex
  BY <1>1, <1>2 DEF PlainState, OwnedInv, Placed
<1>5. dataLock # t => Claims(t, req[t].mutex) > 0
  BY <1>1, Here DEF ThreadInv, Settled, Claims, At, Acquiring, Granted
<1> QED
  BY <1>1, <1>2, <1>3, <1>4, <1>5 DEF ThreadInv, Settled, Resident

\* Inside CreateGuard nothing changes but the guard and m_classMutex
LEMMA GuardStepKeeps ==
  ASSUME PlainState, NEW t \in Threads, pc[t] \in {"guard", "lock"},
         NEW l \in {"lock", "own"}, l # pc[t], pc' = [pc EXCEPT ![t] = l],
         NEW k \in LockObjects, lock' = [lock EXCEPT ![Target(t)] = k],
         k.mutex = lock[Target(t)].mutex, k.type = lock[Target(t)].type,
         k.owners = lock[Target(t)].owners,
         k.guard \/ k.class # NoThread,
         k.class = IF l = "lock" THEN t ELSE NoThread,
         lock[Target(t)].class = IF pc[t] = "lock" THEN t ELSE NoThread,
         UNCHANGED <<registry, held, dataLock, req, mdata, wdata, rdata, wrappers>>
  PROVE  PlainInv'
<1> DEFINE T == Target(t)
<1>1. ThreadInv(t) /\ t \in Actors /\ t # NoThread
  BY Here
<1>2. T \in LockIds /\ T = registry[req[t].mutex]
  BY TargetIsRegistered DEF Acquiring
<1> HIDE DEF T
<1>3. /\ lock'[T] = k /\ \A o \in LockIds \ {T} : lock'[o] = lock[o]
      /\ pc'[t] = l /\ \A s \in Threads \ {t} : pc'[s] = pc[s]
      /\ \A s \in Threads : Target(s)' = Target(s)
      /\ T = Target(t)
  BY <1>1, <1>2, Here, ThreadsAreActors DEF PlainState, TypeOK, Target, T
<1>4. \A s \in Threads, o \in LockIds : SameFor(s, o)
  BY <1>3 DEF SameFor
<1>5. Alone(t)
  BY <1>1, Here, ThreadsAreActors DEF Alone
<1>6. ASSUME NEW s \in Threads \ {t} PROVE ThreadInv(s)'
  <2>1. dataLock = s => registry[req[s].mutex] \in LockIds
    BY Here DEF PlainState, TypeOK, ThreadInv, CallShape, LockRefs
  <2> QED
    BY <1>4, <1>5, <2>1, OthersKeep, Here DEF PlainState
<1>7. ThreadInv(t)'
  <2>1. CallShape(t)'
    BY <1>1, <1>3, <1>4, Here
       DEF ThreadInv, CallShape, AccessPcs, ReleasePcs, Looking, Waiting, Acquiring, Granted,
           Closing, SameFor, LockRefs
  <2>2. Asked(t)' /\ Remembers(t)'
    BY <1>1, <1>3
       DEF ThreadInv, Asked, Remembers, AccessPcs, At, Acquiring, Granted, Closing, Open
  <2>3. Settled(t)'
    BY <1>1, <1>3 DEF ThreadInv, Settled, Acquiring, Open
  <2> QED
    BY <2>1, <2>2, <2>3 DEF ThreadInv
<1>8. ResidentInv'
  <2>1. ASSUME NEW j \in Mutexes
        PROVE  /\ Claims(t, j)' = Claims(t, j)
               /\ Resident(t, j)' <=> Resident(t, j)
               /\ Writes(t, j)' <=> Writes(t, j)
    <3>1. Claims(t, j)' = Claims(t, j)
      BY <1>3 DEF Claims, At, Granted, Open, Acquiring
    <3> QED
      BY <1>3, <3>1 DEF Resident, Writes, At, Granted, Closing, Acquiring
  <2>2. \A j \in Mutexes : registry[j] # NoLock => registry[j] \in LockIds
    BY DEF PlainState, TypeOK, LockRefs
  <2>3. \A s \in Threads \ {t}, j \in Mutexes :
          /\ Claims(s, j)' = Claims(s, j)
          /\ Resident(s, j)' <=> Resident(s, j)
          /\ Writes(s, j)' <=> Writes(s, j)
    BY <1>5, OthersResidents
  <2>4. SameResidents(t)
    BY <1>4, <2>1, <2>2, <2>3 DEF SameResidents
  <2> QED
    BY <1>5, <2>4, ResidentsKeep DEF PlainState, PlainInv
<1>9. LockInv'
  <2>1. UnregisteredUnowned' /\ Private'
    BY <1>3, <1>4 DEF PlainState, PlainInv, LockInv, UnregisteredUnowned, Private, SameFor
  <2>2. GuardUp'
    <3> SUFFICES ASSUME NEW o \in LockIds, o \in Referenced, o # T
                 PROVE  \/ lock'[o].guard
                        \/ lock'[o].class # NoThread
                        \/ \E s \in Threads : dataLock' = s /\ pc'[s] = "guard" /\ Target(s)' = o
      BY <1>3 DEF GuardUp, Referenced
    <3> QED
      BY <1>3 DEF PlainState, PlainInv, LockInv, GuardUp
  <2>3. ClassHeld'
    <3> SUFFICES ASSUME NEW o \in LockIds, NEW s \in Threads
                 PROVE  lock'[o].class = s <=> pc'[s] = "lock" /\ Target(s) = o
      BY <1>3 DEF ClassHeld
    <3>1. lock[o].class = s <=> pc[s] = "lock" /\ Target(s) = o
      BY DEF PlainState, PlainInv, LockInv, ClassHeld
    <3>2. CASE s = t
      BY <1>1, <1>3, <3>1, <3>2, LockTypesAssumption
    <3>3. CASE s # t
      BY <1>1, <1>3, <3>1, <3>3, LockTypesAssumption
    <3> QED
      BY <3>2, <3>3
  <2> QED
    BY <2>1, <2>2, <2>3 DEF LockInv
<1> QED
  BY <1>6, <1>7, <1>8, <1>9 DEF PlainInv

LEMMA AcquireLockKeeps ==
  ASSUME PlainState, NEW t \in Threads, AcquireLock(t), UNCHANGED wrappers
  PROVE  PlainInv'
<1> DEFINE k == EnterCreateGuard(lock[Target(t)], t)
<1>1. /\ pc[t] = "guard"
      /\ UNCHANGED <<registry, held, dataLock, req, mdata, wdata, rdata, wrappers>>
  BY DEF AcquireLock
<1>2. ~IgnoresRequest(lock[Target(t)], req[t].type) /\ lock[Target(t)] \in LockObjects
  BY <1>1, TargetIsRegistered DEF IgnoresRequest, Acquiring
<1>3. /\ ClassFree(Target(t))
      /\ lock' = [lock EXCEPT ![Target(t)] = k]
      /\ pc' = [pc EXCEPT ![t] = "lock"]
  BY <1>2 DEF AcquireLock, Goto
<1>4. /\ k \in LockObjects /\ k.class = t /\ t # NoThread
      /\ k.mutex = lock[Target(t)].mutex /\ k.type = lock[Target(t)].type
      /\ k.owners = lock[Target(t)].owners
  BY <1>2, GuardOperations, Here DEF EnterCreateGuard, LockObjects
<1> HIDE DEF k
<1> QED
  BY <1>1, <1>3, <1>4, GuardStepKeeps DEF ClassFree

LEMMA LockGrantedKeeps ==
  ASSUME PlainState, NEW t \in Threads, LockGranted(t), UNCHANGED wrappers
  PROVE  PlainInv'
<1> DEFINE k == LeaveCreateGuard(lock[Target(t)])
<1>1. /\ pc[t] = "lock"
      /\ lock' = [lock EXCEPT ![Target(t)] = k]
      /\ pc' = [pc EXCEPT ![t] = "own"]
      /\ UNCHANGED <<registry, held, dataLock, req, mdata, wdata, rdata, wrappers>>
  BY DEF LockGranted, Goto
<1>2. Target(t) \in LockIds /\ lock[Target(t)] \in LockObjects
  BY <1>1, TargetIsRegistered DEF Acquiring
<1>3. lock[Target(t)].class = t
  BY <1>1, <1>2 DEF PlainState, PlainInv, LockInv, ClassHeld
<1>4. /\ k \in LockObjects /\ k.class = NoThread /\ k.guard
      /\ k.mutex = lock[Target(t)].mutex /\ k.type = lock[Target(t)].type
      /\ k.owners = lock[Target(t)].owners
  BY <1>2, GuardOperations DEF LeaveCreateGuard, LockObjects
<1> HIDE DEF k
<1> QED
  BY <1>1, <1>3, <1>4, GuardStepKeeps

\* A step of t that counts its claims on the mutex m it works on up or down,
\* and with them its lockCount in the lock registered for m
LEMMA CountStepKeeps ==
  ASSUME PlainState, NEW t \in Threads, Alone(t), ThreadInv(t)', NEW m \in Mutexes,
         m = req[t].mutex, registry[m] # NoLock, Resident(t, m), Resident(t, m)',
         NEW k \in LockObjects, lock' = [lock EXCEPT ![registry[m]] = k],
         k.mutex = m, k.type = lock[registry[m]].type,
         k.guard = lock[registry[m]].guard, k.class = lock[registry[m]].class,
         \A s \in Threads \ {t} : k.owners[s] = lock[registry[m]].owners[s],
         k.owners[t] = Claims(t, m)',
         lock[registry[m]].type = "Read" /\ Writes(t, m)' => Writes(t, m),
         pc[t] \notin {"guard", "lock"}, pc'[t] \notin {"guard", "lock"},
         dataLock' = IF dataLock = t THEN NoThread ELSE dataLock,
         UNCHANGED <<registry, req, mdata, wdata, rdata, wrappers>>
  PROVE  PlainInv'
<1> DEFINE R == registry[m]
<1>1. /\ R \in LockIds /\ lock[R].mutex = m /\ t # NoThread
      /\ \A j \in Mutexes \ {m} : registry[j] # R
  BY Here DEF PlainState, OwnedInv, Placed, TypeOK, LockRefs
<1> HIDE DEF R
<1>2. lock'[R] = k /\ \A o \in LockIds \ {R} : lock'[o] = lock[o]
  BY <1>1 DEF PlainState, TypeOK, R
<1>3. \A s \in Threads \ {t}, o \in LockIds : SameFor(s, o)
  BY <1>1, <1>2 DEF SameFor, R
<1>4. \A s \in Threads \ {t} :
        /\ dataLock' = s <=> dataLock = s
        /\ pc'[s] = pc[s] /\ Target(s)' = Target(s)
  BY LockTypesAssumption, ThreadsAreActors DEF Alone, Target
<1>5. dataLock' # t
  BY <1>1
<1>6. ASSUME NEW s \in Threads \ {t} PROVE ThreadInv(s)'
  <2>1. dataLock = s => registry[req[s].mutex] \in LockIds
    BY Here DEF PlainState, TypeOK, ThreadInv, CallShape, LockRefs
  <2> QED
    BY <1>3, <1>4, <2>1, OthersKeep, Here DEF PlainState
<1>7. \A s \in Threads, j \in Mutexes : s # t \/ j # m =>
        /\ Claims(s, j)' = Claims(s, j)
        /\ Resident(s, j)' <=> Resident(s, j)
        /\ Writes(s, j)' <=> Writes(s, j)
  <2> SUFFICES ASSUME NEW s \in Threads, NEW j \in Mutexes, s # t \/ j # m
               PROVE  /\ Claims(s, j)' = Claims(s, j)
                      /\ Resident(s, j)' <=> Resident(s, j)
                      /\ Writes(s, j)' <=> Writes(s, j)
    OBVIOUS
  <2>1. CASE s # t
    BY <1>4, <2>1, OthersResidents
  <2>2. CASE s = t /\ j # m
    BY <2>2 DEF Resident, Claims, Writes, At, Open
  <2> QED
    BY <2>1, <2>2
<1>8. ResidentInv'
  <2>1. Counted'
    <3> SUFFICES ASSUME NEW s \in Threads, NEW j \in Mutexes
                 PROVE  IF registry[j] = NoLock THEN Claims(s, j)' = 0
                        ELSE lock'[registry[j]].owners[s] = Claims(s, j)'
      BY DEF Counted
    <3>1. CASE s = t /\ j = m
      BY <1>2, <3>1 DEF R
    <3>2. CASE s # t \/ j # m
      <4>1. registry[j] # NoLock => registry[j] \in LockIds
        BY DEF PlainState, TypeOK, LockRefs
      <4>2. registry[j] # NoLock => lock'[registry[j]].owners[s] = lock[registry[j]].owners[s]
        BY <1>1, <1>2, <1>3, <3>2, <4>1 DEF SameFor, R
      <4> QED
        BY <1>7, <3>2, <4>2 DEF PlainState, PlainInv, ResidentInv, Counted
    <3> QED
      BY <3>1, <3>2
  <2>2. \A s \in Threads, j \in Mutexes : Resident(s, j)' <=> Resident(s, j)
    BY <1>7
  <2>3. OneResident' /\ SomeResident'
    BY <2>2 DEF PlainState, PlainInv, ResidentInv, OneResident, SomeResident
  <2>4. ReadersRead'
    <3>1. \A j \in Mutexes : registry[j] # NoLock =>
            lock'[registry[j]].type = lock[registry[j]].type
      BY <1>2 DEF PlainState, TypeOK, LockRefs, R
    <3>2. \A s \in Threads, j \in Mutexes :
            registry[j] # NoLock /\ lock[registry[j]].type = "Read" /\ Writes(s, j)'
              => Writes(s, j)
      BY <1>7
    <3> QED
      BY <2>2, <3>1, <3>2
         DEF PlainState, PlainInv, ResidentInv, ReadersRead, MayRead
  <2> QED
    BY <2>1, <2>3, <2>4 DEF ResidentInv
<1>9. LockInv'
  <2>1. UnregisteredUnowned'
    BY <1>2 DEF PlainState, PlainInv, LockInv, UnregisteredUnowned, R
  <2>2. \A o \in LockIds : lock'[o].guard = lock[o].guard /\ lock'[o].class = lock[o].class
    BY <1>2 DEF R
  <2>3. GuardUp'
    BY <1>4, <2>2 DEF PlainState, PlainInv, LockInv, GuardUp, Referenced
  <2>4. ClassHeld'
    BY <1>4, <2>2 DEF PlainState, PlainInv, LockInv, ClassHeld
  <2>5. Private'
    BY <1>4, <1>5 DEF PlainState, PlainInv, LockInv, Private
  <2> QED
    BY <2>1, <2>3, <2>4, <2>5 DEF LockInv
<1> QED
  BY <1>6, <1>8, <1>9 DEF PlainInv

LEMMA OwnLockKeeps ==
  ASSUME PlainState, NEW t \in Threads, OwnLock(t), UNCHANGED wrappers
  PROVE  PlainInv'
<1> DEFINE m == req[t].mutex
           R == registry[m]
           k == CountOwnership(lock[R], t)
<1>1. /\ pc[t] = "own"
      /\ pc' = [pc EXCEPT ![t] = IF req[t].type = "Write" THEN "reset" ELSE "success"]
      /\ dataLock' = IF dataLock = t THEN NoThread ELSE dataLock
      /\ UNCHANGED <<registry, held, req, mdata, wdata, rdata, wrappers>>
  BY DEF OwnLock, Goto
<1>2. /\ R \in LockIds /\ lock[R] \in LockObjects /\ lock[R].mutex = m /\ Resident(t, m)
      /\ lock[R].type = "Read" => req[t].type = "Read"
      /\ lock' = [lock EXCEPT ![R] = k]
  BY <1>1, TargetIsRegistered DEF OwnLock, Acquiring
<1>3. /\ ThreadInv(t) /\ t \in Actors /\ t # NoThread /\ m \in Mutexes /\ R # NoLock
      /\ wdata[t] = NoLock
  BY <1>1, <1>2, Here DEF ThreadInv, CallShape, Waiting
<1>4. pc'[t] = IF req[t].type = "Write" THEN "reset" ELSE "success"
  BY <1>1, Here
<1>5. Alone(t)
  BY <1>1, <1>3, ThreadsAreActors DEF Alone
<1>6. ThreadInv(t)'
  <2>1. CallShape(t)'
    BY <1>1, <1>3, <1>4
       DEF CallShape, AccessPcs, ReleasePcs, Looking, Waiting, Acquiring, Granted, Closing
  <2>2. Asked(t)' /\ Remembers(t)'
    BY <1>1, <1>3, <1>4
       DEF ThreadInv, Asked, Remembers, AccessPcs, At, Acquiring, Granted, Closing, Open
  <2>3. Settled(t)'
    BY <1>1, <1>4 DEF Settled, Acquiring
  <2> QED
    BY <2>1, <2>2, <2>3 DEF ThreadInv
<1>7. k.owners[t] = Claims(t, m)'
  <2>1. lock[R].owners[t] = Claims(t, m) /\ lock[R].owners \in [Threads -> Nat]
    BY <1>2, <1>3 DEF PlainState, PlainInv, ResidentInv, Counted, LockObjects
  <2>2. Claims(t, m) = Open(t, m) /\ Claims(t, m)' = Open(t, m) + 1
    BY <1>1, <1>3, <1>4, Here DEF Claims, At, Granted, Open
  <2> QED
    BY <1>2, <2>1, <2>2 DEF CountOwnership, LockObjects
<1>8. Resident(t, m)'
  BY <1>1, <1>3, <1>4, Here DEF Resident, Claims, At, Granted, Open
<1>9. /\ k \in LockObjects /\ k.mutex = m /\ k.type = lock[R].type
      /\ k.guard = lock[R].guard /\ k.class = lock[R].class
      /\ \A s \in Threads \ {t} : k.owners[s] = lock[R].owners[s]
  BY <1>2, OwnershipOperations DEF CountOwnership, LockObjects
<1>10. lock[R].type = "Read" /\ Writes(t, m)' => Writes(t, m)
  BY <1>1, <1>2 DEF Writes, At
<1>11. pc[t] \notin {"guard", "lock"} /\ pc'[t] \notin {"guard", "lock"}
  BY <1>1, <1>4
<1> HIDE DEF k
<1> QED
  BY <1>1, <1>2, <1>3, <1>5, <1>6, <1>7, <1>8, <1>9, <1>10, <1>11, CountStepKeeps

LEMMA DisownLockKeeps ==
  ASSUME PlainState, NEW t \in Threads, DisownLock(t), UNCHANGED wrappers
  PROVE  PlainInv'
<1> DEFINE m == req[t].mutex
           R == registry[m]
           k == RemoveOwnership(lock[R], t)
<1>1. /\ pc[t] = "disown"
      /\ lock' = [lock EXCEPT ![rdata[t]] = RemoveOwnership(@, t)]
      /\ pc' = [pc EXCEPT ![t] = "should"]
      /\ UNCHANGED <<registry, held, dataLock, req, mdata, wdata, rdata, wrappers>>
  BY DEF DisownLock, Goto
<1>2. /\ ThreadInv(t) /\ t \in Actors /\ dataLock # t /\ m \in Mutexes
      /\ rdata[t] = R /\ R # NoLock /\ mdata[t] = NoLock /\ wdata[t] = NoLock
  BY <1>1, Here DEF ThreadInv, CallShape, Acquiring, Looking, Granted, Waiting, Closing
<1>3. R \in LockIds /\ lock[R] \in LockObjects /\ lock[R].mutex = m
  BY <1>2 DEF PlainState, TypeOK, LockRefs, OwnedInv, Placed
<1>4. lock' = [lock EXCEPT ![R] = k]
  BY <1>1, <1>2
<1>5. pc'[t] = "should"
  BY <1>1, Here
<1>6. Alone(t)
  BY <1>1, <1>2, ThreadsAreActors DEF Alone
<1>7. ThreadInv(t)'
  <2>1. CallShape(t)'
    BY <1>1, <1>2, <1>5
       DEF CallShape, AccessPcs, ReleasePcs, Looking, Waiting, Acquiring, Granted, Closing
  <2>2. Asked(t)' /\ Remembers(t)'
    BY <1>1, <1>2, <1>5
       DEF ThreadInv, Asked, Remembers, AccessPcs, Looking, Waiting, At, Acquiring, Granted,
           Closing, Open
  <2>3. Settled(t)'
    BY <1>5 DEF Settled, Acquiring
  <2> QED
    BY <2>1, <2>2, <2>3 DEF ThreadInv
<1>8. k.owners[t] = Claims(t, m)'
  <2>1. lock[R].owners[t] = Claims(t, m) /\ lock[R].owners \in [Threads -> Nat]
    BY <1>2, <1>3 DEF PlainState, PlainInv, ResidentInv, Counted, LockObjects
  <2>2. Claims(t, m) = Open(t, m) + 1 /\ Claims(t, m)' = Open(t, m)
    BY <1>1, <1>2, <1>5, Here DEF Claims, At, Granted, Open
  <2> QED
    BY <1>2, <1>3, <2>1, <2>2, Here DEF RemoveOwnership, LockObjects
<1>9. Resident(t, m) /\ Resident(t, m)'
  BY <1>1, <1>5 DEF Resident, At, Closing
<1>10. /\ k \in LockObjects /\ k.mutex = m /\ k.type = lock[R].type
       /\ k.guard = lock[R].guard /\ k.class = lock[R].class
       /\ \A s \in Threads \ {t} : k.owners[s] = lock[R].owners[s]
  BY <1>3, OwnershipOperations DEF RemoveOwnership, LockObjects
<1>11. Writes(t, m)' => Writes(t, m)
  BY <1>1, <1>5 DEF Writes, At, Granted
<1> HIDE DEF k
<1> QED
  BY <1>1, <1>2, <1>4, <1>5, <1>6, <1>7, <1>8, <1>9, <1>10, <1>11, CountStepKeeps

\* The lock that is unregistered is the one its last owner closes: nobody else
\* has got as far as to build on it
LEMMA RemoveFromMutexesKeeps ==
  ASSUME PlainState, NEW t \in Threads, RemoveFromMutexes(t), UNCHANGED wrappers
  PROVE  PlainInv'
<1> DEFINE m == req[t].mutex
<1>1. /\ pc[t] = "unregister" /\ dataLock = NoThread
      /\ registry' = [registry EXCEPT ![m] = NoLock]
      /\ pc' = [pc EXCEPT ![t] = "dropHeld"]
      /\ UNCHANGED <<held, dataLock, req, mdata, wdata, rdata, wrappers>>
      /\ DropUnreferenced
  BY DEF RemoveFromMutexes, Goto
<1>2. /\ ThreadInv(t) /\ t \in Actors /\ m \in Mutexes /\ Open(t, m) = 0
      /\ registry[m] # NoLock /\ mdata[t] = NoLock /\ wdata[t] = NoLock
  BY <1>1, Here
     DEF ThreadInv, CallShape, Settled, Acquiring, Looking, Granted, Waiting, Closing
<1>3. /\ pc'[t] = "dropHeld" /\ registry'[m] = NoLock
      /\ \A k \in Mutexes \ {m} : registry'[k] = registry[k]
  BY <1>1, <1>2, Here DEF PlainState, TypeOK
<1>4. /\ \A s \in Threads : dataLock # s /\ dataLock' # s
      /\ \A s \in Threads : Target(s) = mdata[s] /\ Target(s)' = mdata[s]
  BY <1>1, LockTypesAssumption DEF Target
<1>5. Alone(t)
  BY <1>1, <1>2, ThreadsAreActors DEF Alone
<1>6. /\ KeepsLocks
      /\ \A o \in LockIds : o \in Referenced' => lock'[o] = lock[o] /\ o \in Referenced
  <2>1. \A o \in LockIds : o \in Referenced' => o \in Referenced
    BY <1>1, <1>2, <1>3, Here DEF Referenced
  <2> QED
    BY <1>1, <2>1, DropKeepsLocks DEF DropUnreferenced
<1>7. Resident(t, m) /\ \A s \in Threads \ {t} : ~Resident(s, m)
  BY <1>1, <1>2 DEF Resident, At, Closing, PlainState, PlainInv, ResidentInv, OneResident
<1>8. \A s \in Threads : Claims(s, m) = 0
  <2>1. Claims(t, m) = 0
    BY <1>1, <1>2 DEF Claims, At, Granted
  <2>2. ASSUME NEW s \in Threads PROVE Claims(s, m) \in Nat
    BY <1>2, Here DEF Claims
  <2> QED
    BY <1>7, <2>1, <2>2 DEF Resident
<1>9. ASSUME NEW s \in Threads \ {t}, BuildsOn(s) PROVE req[s].mutex # m
  <2> SUFFICES ASSUME req[s].mutex = m PROVE FALSE
    OBVIOUS
  <2>1. ThreadInv(s) /\ dataLock # s /\ Claims(s, m) = 0 /\ ~At(s, Closing, m)
    BY <1>4, <1>7, <1>8, Here DEF Resident
  <2>2. pc[s] \notin Closing \cup Acquiring \cup {"addHeld"}
    BY <2>1, Here DEF At, ThreadInv, Settled, Claims, Acquiring, Granted
  <2>3. pc[s] = "can" /\ lock[mdata[s]].type = "Read" /\ req[s].type = "Read"
    BY <2>1, <2>2, <1>9 DEF BuildsOn
  <2>4. registry[m] = mdata[s] /\ MayRead(s, m)
    BY <2>1, <2>3 DEF ThreadInv, Settled, Asked, AccessPcs, Looking, MayRead
  <2>5. MayRead(t, m)
    BY <1>2, <1>7, <2>3, <2>4 DEF PlainState, PlainInv, ResidentInv, ReadersRead
  <2> QED
    BY <1>2, <2>4, <2>5 DEF PlainState, PlainUse, OneReader
<1>10. ASSUME NEW s \in Threads \ {t} PROVE ThreadInv(s)'
  <2>1. BuildsOn(s) => registry'[req[s].mutex] = registry[req[s].mutex]
    BY <1>3, <1>9, Here
  <2>2. \A o \in LockIds : o \in {mdata[s], wdata[s]} => SameFor(s, o)
    BY <1>1, <1>6, ThreadsAreActors DEF Referenced, SameFor
  <2> QED
    BY <1>1, <1>4, <1>5, <2>1, <2>2, OthersKeep, Here DEF PlainState
<1>11. ThreadInv(t)'
  <2>1. CallShape(t)'
    BY <1>1, <1>2, <1>3, <1>4
       DEF CallShape, AccessPcs, ReleasePcs, Looking, Waiting, Acquiring, Granted, Closing
  <2>2. Asked(t)' /\ Settled(t)'
    BY <1>1, <1>2, <1>3
       DEF Asked, Settled, AccessPcs, Looking, Waiting, Acquiring, Granted, Open
  <2>3. Remembers(t)'
    BY <1>1, <1>2, <1>3 DEF ThreadInv, Remembers, At, Acquiring, Granted, Closing, Open
  <2> QED
    BY <2>1, <2>2, <2>3 DEF ThreadInv
<1>12. ASSUME NEW s \in Threads, NEW k \in Mutexes
       PROVE  /\ Claims(s, k)' = Claims(s, k)
              /\ Resident(s, k)' <=> Resident(s, k) /\ k # m
              /\ Writes(s, k)' <=> Writes(s, k)
  <2>1. CASE s = t
    <3>1. Claims(t, k)' = Claims(t, k)
      BY <1>1, <1>3 DEF Claims, At, Granted, Open
    <3> QED
      BY <1>1, <1>3, <1>4, <1>8, <2>1, <3>1 DEF Resident, Writes, At, Granted, Closing
  <2>2. CASE s # t
    BY <1>1, <1>5, <1>7, <2>2, OthersResidents
  <2> QED
    BY <2>1, <2>2
<1>13. ResidentInv'
  <2>1. \A k \in Mutexes \ {m} : registry'[k] # NoLock =>
          registry'[k] = registry[k] /\ lock'[registry'[k]] = lock[registry[k]]
    <3>1. \A k \in Mutexes : registry'[k] # NoLock =>
            registry'[k] \in LockIds /\ registry'[k] \in Referenced'
      BY DEF PlainState, TypeOK, LockRefs, Referenced
    <3> QED
      BY <1>3, <1>6, <3>1
  <2>2. Counted'
    <3> SUFFICES ASSUME NEW s \in Threads, NEW k \in Mutexes
                 PROVE  IF registry'[k] = NoLock THEN Claims(s, k) = 0
                        ELSE lock'[registry'[k]].owners[s] = Claims(s, k)
      BY <1>12 DEF Counted
    <3> QED
      BY <1>3, <1>8, <2>1 DEF PlainState, PlainInv, ResidentInv, Counted
  <2>3. OneResident' /\ SomeResident'
    BY <1>3, <1>12 DEF PlainState, PlainInv, ResidentInv, OneResident, SomeResident
  <2>4. ReadersRead'
    BY <1>3, <1>12, <2>1 DEF PlainState, PlainInv, ResidentInv, ReadersRead, MayRead
  <2> QED
    BY <2>2, <2>3, <2>4 DEF ResidentInv
<1>14. LockInv'
  <2>1. UnregisteredUnowned'
    <3> SUFFICES ASSUME NEW o \in LockIds, \A k \in Mutexes : registry'[k] # o,
                        NEW s \in Threads
                 PROVE  lock'[o].owners[s] = 0
      BY DEF UnregisteredUnowned
    <3>1. lock[o].owners[s] = 0
      <4>1. CASE registry[m] = o
        BY <1>2, <1>8, <4>1 DEF PlainState, PlainInv, ResidentInv, Counted
      <4>2. CASE registry[m] # o
        BY <1>3, <4>2 DEF PlainState, PlainInv, LockInv, UnregisteredUnowned
      <4> QED
        BY <4>1, <4>2
    <3> QED
      BY <1>6, <3>1, FreedIsFree DEF KeepsLocks
  <2>2. GuardUp'
    BY <1>4, <1>6 DEF PlainState, PlainInv, LockInv, GuardUp
  <2>3. ClassHeld'
    <3> SUFFICES ASSUME NEW o \in LockIds, NEW s \in Threads
                 PROVE  lock'[o].class = s <=> pc'[s] = "lock" /\ mdata[s] = o
      BY <1>4 DEF ClassHeld
    <3>1. pc'[s] = "lock" <=> pc[s] = "lock"
      BY <1>1, <1>3, <1>5, ThreadsAreActors DEF Alone
    <3>2. lock[o].class = s <=> pc[s] = "lock" /\ mdata[s] = o
      BY <1>4 DEF PlainState, PlainInv, LockInv, ClassHeld
    <3>3. o \notin Referenced' => mdata[s] # o
      BY <1>1, ThreadsAreActors DEF Referenced
    <3> QED
      BY <1>6, <3>1, <3>2, <3>3, FreedIsFree, LockTypesAssumption DEF KeepsLocks
  <2>4. Private'
    BY <1>4 DEF Private
  <2> QED
    BY <2>1, <2>2, <2>3, <2>4 DEF LockInv
<1> QED
  BY <1>10, <1>11, <1>13, <1>14 DEF PlainInv

-----------------------------------------------------------------------------
(* The invariant *)

LEMMA PlainInvInit == Init => PlainInv
<1> SUFFICES ASSUME Init PROVE PlainInv
  OBVIOUS
<1>1. /\ \A m \in Mutexes : registry[m] = NoLock
      /\ \A o \in LockIds : lock[o] = Freed
      /\ \A t \in Threads : /\ pc[t] = "idle" /\ held[t] = {} /\ dataLock # t
                            /\ mdata[t] = NoLock /\ wdata[t] = NoLock /\ rdata[t] = NoLock
      /\ Referenced \subseteq {NoLock} /\ NoLock \notin LockIds
  BY ThreadsAreActors, LockTypesAssumption, TrackerAssumption DEF Init, TrackerInit, Referenced
<1>2. \A t \in Threads, m \in Mutexes : wrappers[t][m]["Write"] = 0 /\ Open(t, m) = 0
  BY DEF Init, Open, Types
<1>3. \A t \in Threads, m \in Mutexes : Claims(t, m) = 0 /\ ~Resident(t, m)
  BY <1>1, <1>2 DEF Claims, Resident, At, Granted, Closing
<1>4. ASSUME NEW t \in Threads PROVE ThreadInv(t)
  <2>1. CallShape(t)
    BY <1>1
       DEF CallShape, AccessPcs, ReleasePcs, Looking, Waiting, Acquiring, Granted, Closing
  <2>2. Asked(t) /\ Settled(t)
    BY <1>1 DEF Asked, Settled, AccessPcs, Looking, Waiting, Acquiring, Granted
  <2>3. Remembers(t)
    BY <1>1, <1>2 DEF Remembers, At, Acquiring, Granted, Closing
  <2> QED
    BY <2>1, <2>2, <2>3 DEF ThreadInv
<1>5. ResidentInv
  BY <1>1, <1>3 DEF ResidentInv, Counted, OneResident, SomeResident, ReadersRead
<1>6. LockInv
  BY <1>1, FreedIsFree, LockTypesAssumption
     DEF LockInv, UnregisteredUnowned, GuardUp, ClassHeld, Private
<1> QED
  BY <1>4, <1>5, <1>6 DEF PlainInv

\* In plain use no release finds operations and no write lock is out of order
LEMMA PlainSteps ==
  ASSUME PlainState, NEW t \in Threads
  PROVE  /\ ~Overwrite(t) /\ ~ReorderStep(t) /\ ~RunOperationsOfMutex(t) /\ ~AddOperationStep(t)
         /\ \A w \in Workers : ~TaskStep(w)
<1>1. pc[t] \in {"idle"} \cup AccessPcs \cup ReleasePcs
  BY Here DEF ThreadInv, CallShape
<1>2. ~ReorderStep(t) /\ ~RunOperationsOfMutex(t)
  BY <1>1
     DEF AccessPcs, ReleasePcs, Looking, Waiting, Acquiring, Granted, Closing, ReorderStep,
         BeginReorder, ReorderRemoveGuard, ReorderSort, ReorderCreateGuard, ReorderLockGranted,
         EndReorder, RunOperationsOfMutex
<1>3. ~Overwrite(t)
  BY DEF PlainState, PlainUse, Overwrite
<1> QED
  BY <1>2, <1>3, NoOperationNoTask DEF PlainState

LEMMA PlainInvNext ==
  ASSUME PlainState, [Next]_vars
  PROVE  PlainInv'
<1>1. ASSUME NEW t \in Threads, ClientStep(t) PROVE PlainInv'
  BY <1>1, PlainSteps, AccessKeeps, DestroyKeeps DEF ClientStep
<1>2. ASSUME NEW t \in Threads, WrapperStep(t) PROVE PlainInv'
  BY <1>2, WaitLookKeeps, WaitConvertKeeps, WaitTimeoutKeeps, SucceedKeeps DEF WrapperStep
<1>3. ASSUME NEW t \in Threads, TryAcquireStep(t), UNCHANGED wrappers PROVE PlainInv'
  BY <1>3, GetLockDataKeeps, CanAcquireKeeps, CanConvertKeeps, RegisterMutexKeeps,
     RegisterFailsKeeps, AddToHeldLocksKeeps, AcquireLockKeeps, LockGrantedKeeps, OwnLockKeeps,
     NeedToResetKeeps DEF TryAcquireStep
<1>4. ASSUME NEW t \in Threads, ReleaseStep(t), UNCHANGED wrappers PROVE PlainInv'
  BY <1>4, PlainSteps, FindToReleaseKeeps, DisownLockKeeps, ShouldRemoveGuardKeeps,
     ShouldRemoveOwnersKeeps, GetOperationCountKeeps DEF ReleaseStep
<1>5. ASSUME NEW t \in Threads, UnregisterStep(t), UNCHANGED wrappers PROVE PlainInv'
  BY <1>5, RemoveFromMutexesKeeps, RemoveFromHeldLocksKeeps, ReturnFromReleaseKeeps
     DEF UnregisterStep
<1>6. ASSUME NEW t \in Threads, TrackerStep(t) PROVE PlainInv'
  BY <1>3, <1>4, <1>5, <1>6, PlainSteps DEF TrackerStep
<1>7. ASSUME NEW w \in Workers, WorkerStep(w) PROVE FALSE
  BY <1>7, NoOperationNoTask DEF WorkerStep, PlainState
<1>8. CASE UNCHANGED vars
  <2>1. /\ UNCHANGED <<registry, lock, held, dataLock, pc, req, mdata, wdata, rdata, wrappers>>
    BY <1>8 DEF vars, trackerVars
  <2>2. \A t \in Threads : ThreadInv(t)'
    BY <2>1 DEF PlainState, PlainInv, ThreadInv, CallShape, Asked, Settled, Remembers, Open,
                At, Target
  <2>3. ResidentInv'
    <3>1. \A t \in Threads, m \in Mutexes :
            /\ Claims(t, m)' = Claims(t, m)
            /\ Resident(t, m)' <=> Resident(t, m)
            /\ Writes(t, m)' <=> Writes(t, m)
      BY <2>1 DEF Claims, Resident, Writes, At, Open
    <3> QED
      BY <2>1, <3>1 DEF PlainState, PlainInv, ResidentInv, Counted, OneResident, SomeResident,
                        ReadersRead, MayRead
  <2>4. LockInv'
    BY <2>1 DEF PlainState, PlainInv, LockInv, UnregisteredUnowned, GuardUp, ClassHeld, Private,
                Target, Referenced
  <2> QED
    BY <2>2, <2>3, <2>4 DEF PlainInv
<1> QED
  BY <1>1, <1>2, <1>6, <1>7, <1>8 DEF Next

\* The residents, the lockCount that is owed, and the guards, in every state of
\* every run of plain use
THEOREM PlainInvariant ==
  ASSUME PlainUse
  PROVE  Spec => [](TypeOK /\ OwnedInv /\ PlainInv)
<1>1. "ops" \notin Features
  BY DEF PlainUse
<1>2. TypeOK /\ TypeOK' /\ OwnedInv /\ PlainInv /\ [Next]_vars => PlainInv'
  BY PlainInvNext DEF PlainState
<1>3. Spec => []OwnedInv
  BY <1>1, OwnedInvariant
<1> QED
  BY <1>2, <1>3, TypeCorrect, PlainInvInit, PTL DEF Spec

-----------------------------------------------------------------------------
(* What it says to a client *)

LEMMA OpenIsResident ==
  ASSUME TypeOK, NEW t \in Threads, NEW m \in Mutexes
  PROVE  /\ wrappers[t][m]["Write"] > 0 => Open(t, m) > 0
         /\ Open(t, m) > 0 => Claims(t, m) > 0 /\ Resident(t, m)
         /\ Claims(t, m) >= Open(t, m)
<1>1. wrappers[t][m]["Read"] \in Nat /\ wrappers[t][m]["Write"] \in Nat
  BY DEF TypeOK, Types
<1>2. Open(t, m) \in Nat /\ (wrappers[t][m]["Write"] > 0 => Open(t, m) > 0)
  BY <1>1 DEF Open
<1>3. Claims(t, m) \in Nat /\ Claims(t, m) >= Open(t, m)
  BY <1>2 DEF Claims
<1> QED
  BY <1>2, <1>3 DEF Resident

\* A SUCCESS wrapper for writing excludes every other thread's SUCCESS wrapper
\* on the same data: for any number of threads, data and nested wrappers, if the
\* clients neither upgrade, descend, overwrite nor give callbacks and no two of
\* them read the same data.  (With two readers exclusion really fails: a reader
\* joins after ShouldRemove of the other and is unregistered with it.)
THEOREM WritersExclude ==
  ASSUME PlainUse
  PROVE  Spec => []MutualExclusion
<1>1. TypeOK /\ OwnedInv /\ PlainInv => MutualExclusion
  <2> SUFFICES ASSUME TypeOK, PlainInv, NEW s \in Threads, NEW t \in Threads, s # t,
                      NEW m \in Mutexes, wrappers[s][m]["Write"] > 0
               PROVE  Open(t, m) = 0
    BY DEF MutualExclusion
  <2>1. Resident(s, m) /\ ~Resident(t, m)
    BY OpenIsResident DEF PlainInv, ResidentInv, OneResident
  <2>2. wrappers[t][m]["Read"] \in Nat /\ wrappers[t][m]["Write"] \in Nat
    BY DEF TypeOK, Types
  <2> QED
    BY <2>1, <2>2, OpenIsResident DEF Open
<1> QED
  BY <1>1, PlainInvariant, PTL

\* Every open wrapper is backed by the lock registered for its mutex, with one
\* lockCount each: no release, by whichever thread, takes it early.
THEOREM WrappersStayBacked ==
  ASSUME PlainUse
  PROVE  Spec => []WrappersBacked
<1>1. TypeOK /\ OwnedInv /\ PlainInv => WrappersBacked
  BY OpenIsResident DEF WrappersBacked, PlainInv, ResidentInv, Counted
<1> QED
  BY <1>1, PlainInvariant, PTL

\* Between its calls m_heldLocks of a thread is exactly the mutexes it has
\* wrappers open on, which NeedToReset takes it for.
THEOREM HeldIsWhatIsOpen ==
  ASSUME PlainUse
  PROVE  Spec => []HeldMatchesWrappers
<1>1. TypeOK /\ OwnedInv /\ PlainInv => HeldMatchesWrappers
  <2> SUFFICES ASSUME TypeOK, PlainInv, NEW t \in Threads, pc[t] = "idle"
               PROVE  held[t] = {m \in Mutexes : Open(t, m) > 0}
    BY DEF HeldMatchesWrappers
  <2>1. held[t] \subseteq Mutexes
    BY ThreadsAreActors DEF TypeOK
  <2>2. \A m \in Mutexes : m \in held[t] <=> Open(t, m) > 0
    BY DEF PlainInv, ThreadInv, Remembers, At, Acquiring, Granted, Closing
  <2> QED
    BY <2>1, <2>2
<1> QED
  BY <1>1, PlainInvariant, PTL

\* No thread that blocks on the data's mutex inside RegisterMutex waits for a
\* guard in the hands of a thread that waits for m_mutexData to erase it: what a
\* release erases is what it closed.
THEOREM NobodyWaitsInACycle ==
  ASSUME PlainUse
  PROVE  Spec => []NoWaitCycle
<1>1. TypeOK /\ OwnedInv /\ PlainInv => NoWaitCycle
  BY DEF NoWaitCycle, PlainInv, ThreadInv, CallShape, Closing, Target
<1> QED
  BY <1>1, PlainInvariant, PTL

\* No lock object, registered or not, read or write, ever has two owners.
THEOREM WriteLocksAreOwnedOnce ==
  ASSUME PlainUse
  PROVE  Spec => []WriteLockHasOneOwner
<1>1. TypeOK /\ OwnedInv /\ PlainInv => WriteLockHasOneOwner
  <2> SUFFICES ASSUME PlainInv, NEW o \in LockIds, NEW s \in Threads, NEW t \in Threads,
                      IsOwner(lock[o], s), IsOwner(lock[o], t)
               PROVE  s = t
    BY DEF WriteLockHasOneOwner, Owners
  <2>1. PICK m \in Mutexes : registry[m] = o
    BY DEF PlainInv, LockInv, UnregisteredUnowned, IsOwner
  <2>2. o # NoLock
    BY TrackerAssumption
  <2>3. Resident(s, m) /\ Resident(t, m)
    BY <2>1, <2>2 DEF PlainInv, ResidentInv, Counted, IsOwner, Resident
  <2> QED
    BY <2>3 DEF PlainInv, ResidentInv, OneResident
<1> QED
  BY <1>1, PlainInvariant, PTL

\* With every call returned and every wrapper destroyed no lock is left
\* registered, whatever the accesses and releases raced with.
THEOREM NothingLeaks ==
  ASSUME PlainUse
  PROVE  Spec => []QuiescentClean
<1>1. TypeOK /\ OwnedInv /\ PlainInv => QuiescentClean
  <2> SUFFICES ASSUME PlainInv, \A a \in Actors : pc[a] = "idle",
                      \A t \in Threads, m \in Mutexes : Open(t, m) = 0,
                      NEW m \in Mutexes, registry[m] # NoLock
               PROVE  FALSE
    BY DEF QuiescentClean
  <2>1. PICK t \in Threads : Resident(t, m)
    BY DEF PlainInv, ResidentInv, SomeResident
  <2>2. pc[t] = "idle" /\ Claims(t, m) = 0
    BY ThreadsAreActors DEF Claims, At, Granted
  <2> QED
    BY <2>1, <2>2 DEF PlainInv, ThreadInv, CallShape, Resident, At, Acquiring, Closing
<1> QED
  BY <1>1, PlainInvariant, PTL

\* A constructor that is about to report SUCCESS owns the registered lock: what
\* the second attempt of a conversion breaks holds where nothing is converted.
THEOREM SuccessIsOwned ==
  ASSUME PlainUse
  PROVE  Spec => []SuccessOwns
<1>1. TypeOK /\ OwnedInv /\ PlainInv => SuccessOwns
  <2> SUFFICES ASSUME TypeOK, PlainInv, NEW t \in Threads, pc[t] = "success"
               PROVE  /\ registry[req[t].mutex] # NoLock
                      /\ IsOwner(lock[registry[req[t].mutex]], t)
    BY DEF SuccessOwns
  <2>1. req[t].mutex \in Mutexes
    BY ThreadsAreActors DEF TypeOK
  <2>2. wrappers[t][req[t].mutex]["Read"] \in Nat /\ wrappers[t][req[t].mutex]["Write"] \in Nat
    BY <2>1 DEF TypeOK, Types
  <2>3. Claims(t, req[t].mutex) > 0
    BY <2>2 DEF Claims, At, Granted, Open
  <2> QED
    BY <2>1, <2>3 DEF PlainInv, ResidentInv, Counted, IsOwner
<1> QED
  BY <1>1, PlainInvariant, PTL

-----------------------------------------------------------------------------
(* GuardKept *)

LEMMA KeptByTakers ==
  ASSUME PlainState, NEW s \in Threads, AcquireLock(s) \/ LockGranted(s) \/ OwnLock(s),
         NEW m \in Mutexes, registry[m] # NoLock, lock[registry[m]].guard, ~Resident(s, m)
  PROVE  registry'[m] = registry[m] /\ lock'[registry[m]].guard
<1>1. pc[s] \in Acquiring /\ UNCHANGED registry
  BY DEF AcquireLock, LockGranted, OwnLock, Acquiring
<1>2. Target(s) # registry[m]
  <2>1. Target(s) = registry[req[s].mutex] /\ Resident(s, req[s].mutex)
    BY <1>1, TargetIsRegistered
  <2>2. req[s].mutex \in Mutexes
    BY Here
  <2> QED
    BY <2>1, <2>2 DEF PlainState, OwnedInv, Placed
<1>3. \A o \in LockIds \ {Target(s)} : lock'[o] = lock[o]
  BY DEF AcquireLock, LockGranted, OwnLock, PlainState, TypeOK
<1> QED
  BY <1>1, <1>2, <1>3 DEF PlainState, TypeOK, LockRefs

LEMMA KeptByDisown ==
  ASSUME PlainState, NEW s \in Threads, DisownLock(s),
         NEW m \in Mutexes, registry[m] # NoLock, lock[registry[m]].guard
  PROVE  registry'[m] = registry[m] /\ lock'[registry[m]].guard
<1>1. registry[m] \in LockIds /\ lock \in [LockIds -> LockObjects]
  BY DEF PlainState, TypeOK, LockRefs
<1>2. rdata[s] \in LockRefs
  BY Here
<1>3. lock'[registry[m]] \in {lock[registry[m]], RemoveOwnership(lock[registry[m]], s)}
  BY <1>1 DEF DisownLock
<1>4. lock[registry[m]] \in LockObjects
  BY <1>1
<1>5. RemoveOwnership(lock[registry[m]], s).guard = lock[registry[m]].guard
  BY <1>4 DEF RemoveOwnership, LockObjects
<1> QED
  BY <1>3, <1>5 DEF DisownLock

LEMMA KeptByRegistration ==
  ASSUME PlainState, NEW s \in Threads, RegisterMutex(s) \/ RemoveFromMutexes(s),
         NEW m \in Mutexes, registry[m] # NoLock, lock[registry[m]].guard, ~Resident(s, m)
  PROVE  registry'[m] = registry[m] /\ lock'[registry[m]].guard
<1>1. registry[m] \in LockIds /\ registry[m] \in Referenced /\ registry \in [Mutexes -> LockRefs]
  BY DEF PlainState, TypeOK, LockRefs, Referenced
<1>2. CASE RegisterMutex(s)
  <2>1. req[s].mutex # m /\ FreshLock # registry[m]
    BY <1>1, <1>2 DEF RegisterMutex
  <2> QED
    BY <1>1, <1>2, <2>1 DEF RegisterMutex, PlainState, TypeOK
<1>3. CASE RemoveFromMutexes(s)
  <2>1. req[s].mutex # m
    BY <1>3 DEF RemoveFromMutexes, Resident, At, Closing
  <2>2. registry'[m] = registry[m]
    BY <1>1, <1>3, <2>1 DEF RemoveFromMutexes
  <2>3. registry[m] \in Referenced'
    BY <2>2 DEF Referenced
  <2> QED
    BY <1>1, <1>3, <2>2, <2>3 DEF RemoveFromMutexes, DropUnreferenced
<1> QED
  BY <1>2, <1>3

\* Every other step leaves the registrations and the locks referred to alone
LEMMA KeptByOthers ==
  ASSUME PlainState, UNCHANGED registry, KeepsLocks,
         NEW m \in Mutexes, registry[m] # NoLock, lock[registry[m]].guard
  PROVE  registry'[m] = registry[m] /\ lock'[registry[m]].guard
<1>1. registry[m] \in LockIds /\ registry[m] \in Referenced'
  BY DEF PlainState, TypeOK, LockRefs, Referenced
<1> QED
  BY <1>1 DEF KeepsLocks

LEMMA OnlyResidentsUndo ==
  ASSUME PlainState, [Next]_vars, NEW t \in Threads, NEW m \in Mutexes,
         Resident(t, m), pc[t] = "idle", pc'[t] = "idle",
         registry[m] # NoLock, lock[registry[m]].guard
  PROVE  registry'[m] = registry[m] /\ lock'[registry[m]].guard
<1> DEFINE Kept == registry'[m] = registry[m] /\ lock'[registry[m]].guard
<1>0. UNCHANGED <<registry, lock>> => Kept
  BY KeptByOthers DEF KeepsLocks
<1>1. UNCHANGED registry /\ DropUnreferenced => Kept
  BY KeptByOthers, DropKeepsLocks
<1>2. \A s \in Threads \ {t} : ~Resident(s, m)
  BY DEF PlainState, PlainInv, ResidentInv, OneResident
<1> HIDE DEF Kept
<1>3. ASSUME NEW s \in Threads, ClientStep(s) PROVE Kept
  BY <1>0, <1>3, PlainSteps DEF ClientStep, Access, Destroy
<1>4. ASSUME NEW s \in Threads, WrapperStep(s) PROVE Kept
  BY <1>0, <1>1, <1>4 DEF WrapperStep, WaitLook, WaitConvert, WaitTimeout, Succeed
<1>5. ASSUME NEW s \in Threads, TryAcquireStep(s) PROVE Kept
  <2>1. CASE AcquireLock(s) \/ LockGranted(s) \/ OwnLock(s) \/ RegisterMutex(s)
    <3>1. s # t
      BY <2>1 DEF AcquireLock, LockGranted, OwnLock, RegisterMutex
    <3> QED
      BY <1>2, <2>1, <3>1, KeptByTakers, KeptByRegistration DEF Kept
  <2>2. CASE ~(AcquireLock(s) \/ LockGranted(s) \/ OwnLock(s) \/ RegisterMutex(s))
    BY <1>0, <1>1, <1>5, <2>2
       DEF TryAcquireStep, GetLockData, CanAcquire, CanConvert, RegisterFails, AddToHeldLocks,
           NeedToReset
  <2> QED
    BY <2>1, <2>2
<1>6. ASSUME NEW s \in Threads, ReleaseStep(s) PROVE Kept
  <2>1. DisownLock(s) => Kept
    BY KeptByDisown DEF Kept
  <2> QED
    BY <1>0, <1>6, <2>1, PlainSteps
       DEF ReleaseStep, FindToRelease, ShouldRemoveGuard, ShouldRemoveOwners, GetOperationCount
<1>7. ASSUME NEW s \in Threads, UnregisterStep(s) PROVE Kept
  <2>1. CASE RemoveFromMutexes(s)
    <3>1. s # t
      BY <2>1 DEF RemoveFromMutexes
    <3> QED
      BY <1>2, <2>1, <3>1, KeptByRegistration DEF Kept
  <2>2. CASE RemoveFromHeldLocks(s) \/ ReturnFromRelease(s)
    BY <1>0, <1>1, <2>2 DEF RemoveFromHeldLocks, ReturnFromRelease
  <2> QED
    BY <1>7, <2>1, <2>2 DEF UnregisterStep
<1>8. ASSUME NEW s \in Threads, TrackerStep(s) PROVE Kept
  BY <1>5, <1>6, <1>7, <1>8, PlainSteps DEF TrackerStep
<1>9. ASSUME NEW w \in Workers, WorkerStep(w) PROVE FALSE
  BY <1>9, PlainSteps DEF WorkerStep
<1>10. UNCHANGED vars => Kept
  BY <1>0 DEF vars, trackerVars
<1> QED
  BY <1>3, <1>4, <1>8, <1>9, <1>10 DEF Next, Kept

\* While a thread is in the client's code with a wrapper open, nobody else drops
\* the guard of the lock that backs it, nor the lock itself: a thread that may
\* touch either is the one resident at the mutex.
THEOREM NobodyElseUndoes ==
  ASSUME PlainUse
  PROVE  Spec => GuardKept
<1>1. TypeOK /\ OwnedInv /\ PlainInv /\ TypeOK' /\ [Next]_vars =>
        \A t \in Threads, m \in Mutexes :
          /\ pc[t] = "idle" /\ pc'[t] = "idle" /\ Open(t, m) > 0
          /\ registry[m] # NoLock /\ lock[registry[m]].guard
          => registry'[m] = registry[m] /\ lock'[registry[m]].guard
  BY OpenIsResident, OnlyResidentsUndo DEF PlainState
<1> QED
  BY <1>1, PlainInvariant, PTL DEF Spec, GuardKept

=============================================================================
