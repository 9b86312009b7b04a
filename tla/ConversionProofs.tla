--------------------------- MODULE ConversionProofs ---------------------------
(***************************************************************************)
(* Theorems about DataWrapper for clients that share data between any      *)
(* number of readers, convert read locks to write locks and overwrite      *)
(* wrappers, but give no callback and let no reorder come about.  Mutual   *)
(* exclusion is lost there, and with it most of what PlainUseProofs says;  *)
(* what remains is that a write lock has one owner, and that nothing       *)
(* leaks.                                                                  *)
(***************************************************************************)
EXTENDS PlainUseProofs

Asks(t, m, ty) == [thread |-> t, mutex |-> m, type |-> ty] \in Requests

\* No thread writes below a mutex it ever asks for.  (ReorderAll drops guards,
\* and who looks meanwhile finds a write lock free to join.)
NoReorder ==
  \A q, r \in Requests : q.thread = r.thread /\ r.type = "Write" => q.mutex <= r.mutex

Shared == "ops" \notin Features /\ NoReorder

-----------------------------------------------------------------------------
(***************************************************************************)
(* The inductive invariant.  A registered lock has somebody who will, in   *)
(* the end, look whether it can go: an owner, a thread that is joining it, *)
(* or one that has given it up and is still in ReleaseLock.  Guards are up *)
(* whenever somebody can look, so that only its owner joins a write lock.  *)
(***************************************************************************)
Joining == Acquiring \cup {"addHeld"}

Joins(t, o) == pc[t] \in Joining /\ Target(t) = o

\* t owns the lock object or is about to
Claimant(t, o) == IsOwner(lock[o], t) \/ Joins(t, o)

\* t has given the lock object up and is on its way to unregister it
Releases(t, o) == pc[t] \in Closing \ {"disown"} /\ rdata[t] = o

\* Where a thread can be, and the references it then has
CallPlace(t) ==
  /\ pc[t] \in {"idle"} \cup AccessPcs \cup ReleasePcs
  /\ dataLock = t => pc[t] \in Acquiring /\ registry[req[t].mutex] # NoLock
  /\ pc[t] \in Looking => mdata[t] # NoLock
  /\ pc[t] \in Acquiring => dataLock = t \/ mdata[t] # NoLock
  /\ pc[t] \in Waiting => wdata[t] # NoLock
  /\ pc[t] = "idle" => wdata[t] = NoLock
  /\ pc[t] \in Closing => rdata[t] # NoLock /\ lock[rdata[t]].mutex = req[t].mutex

\* An access, also one that is releasing a read lock to convert it, is one of
\* Requests; so are the accesses behind m_heldLocks
CallAsked(t) ==
  /\ pc[t] \in AccessPcs \/ mdata[t] # NoLock \/ wdata[t] # NoLock
       => Asks(t, req[t].mutex, req[t].type)
  /\ \A m \in held[t] : \E ty \in Types : Asks(t, m, ty)
  /\ pc[t] = "reset" => req[t].type = "Write"
  /\ pc[t] \in Joining /\ lock[Target(t)].type = "Read" => req[t].type = "Read"

\* If another thread has unregistered the lock that t is about to disown, t owns
\* nothing of what was registered since
Missed(t) ==
  LET o == registry[req[t].mutex] IN
  pc[t] = "disown" /\ o # NoLock /\ o # rdata[t] => ~IsOwner(lock[o], t)

SharedCall(t) == CallPlace(t) /\ CallAsked(t) /\ Missed(t)

ObjectInv == GuardUp /\ ClassHeld /\ Private

OneClaimant ==
  \A o \in LockIds : lock[o].type = "Write" =>
    \A s, t \in Threads : Claimant(s, o) /\ Claimant(t, o) => s = t

SomeHolder ==
  \A m \in Mutexes : registry[m] # NoLock =>
    \E t \in Threads : Claimant(t, registry[m]) \/ Releases(t, registry[m])

\* No more is counted than is open or about to be, except for what was overwritten
AtMostClaims ==
  "overwrite" \notin Features =>
    \A t \in Threads, m \in Mutexes :
      registry[m] # NoLock => lock[registry[m]].owners[t] <= Claims(t, m)

SharedInv ==
  (\A t \in Threads : SharedCall(t)) /\ ObjectInv /\ OneClaimant /\ SomeHolder /\ AtMostClaims

SharedState == Shared /\ TypeOK /\ TypeOK' /\ OwnedInv /\ OwnedInv' /\ SharedInv

\* What a thread works with, and its types
LEMMA HereShared ==
  ASSUME SharedState, NEW t \in Threads
  PROVE  /\ t \in Actors /\ t # NoThread
         /\ req[t].mutex \in Mutexes /\ req[t].type \in Types
         /\ pc \in [Actors -> PcLabels] /\ held \in [Actors -> SUBSET Mutexes]
         /\ mdata \in [Actors -> LockRefs] /\ wdata \in [Actors -> LockRefs]
         /\ rdata \in [Actors -> LockRefs] /\ NoLock \notin LockIds
         /\ registry \in [Mutexes -> LockRefs] /\ lock \in [LockIds -> LockObjects]
         /\ \A m \in Mutexes : Open(t, m) \in Nat /\ Claims(t, m) \in Nat
         /\ SharedCall(t) /\ CallPlaced(t)
         /\ ~req[t].op
<1>1. \A m \in Mutexes : wrappers[t][m]["Read"] \in Nat /\ wrappers[t][m]["Write"] \in Nat
  BY DEF SharedState, TypeOK, Types
<1>2. \A m \in Mutexes : Open(t, m) \in Nat /\ Claims(t, m) \in Nat
  BY <1>1 DEF Open, Claims
<1> QED
  BY <1>2, ThreadsAreActors, LockTypesAssumption, TrackerAssumption
     DEF SharedState, SharedInv, OwnedInv, NoOperations, TypeOK

\* The lock object that a thread is joining, or blocked on
LEMMA TargetExists ==
  ASSUME SharedState, NEW t \in Threads, dataLock = t \/ pc[t] \in Joining
  PROVE  /\ Target(t) \in LockIds /\ Target(t) \in Referenced
         /\ lock[Target(t)].mutex = req[t].mutex
<1>1. /\ CallPlace(t) /\ CallPlaced(t) /\ t \in Actors /\ req[t].mutex \in Mutexes
      /\ registry \in [Mutexes -> LockRefs] /\ mdata \in [Actors -> LockRefs]
  BY HereShared DEF SharedCall
<1>2. CASE dataLock = t
  BY <1>1, <1>2
     DEF CallPlace, Target, Referenced, SharedState, OwnedInv, Placed, LockRefs
<1>3. CASE dataLock # t
  BY <1>1, <1>3 DEF CallPlace, CallPlaced, Target, Referenced, Joining, Looking, LockRefs
<1> QED
  BY <1>2, <1>3

-----------------------------------------------------------------------------
(* What the steps leave alone                                              *)

\* The guards stay as they are, and nobody starts or ends a CreateGuard
LEMMA ObjectsStay ==
  ASSUME SharedState, NEW t \in Threads, Alone(t), FewerReferences(t),
         pc[t] \notin {"guard", "lock"}, pc'[t] # "lock",
         \A s \in Threads : dataLock' = s => dataLock = s /\ s # t,
         \A s \in Threads \ {t} : dataLock = s => dataLock' = s,
         \A m \in Mutexes : registry'[m] = registry[m] \/ registry'[m] = NoLock,
         dataLock' # NoThread => UNCHANGED registry,
         \A o \in LockIds : \/ lock'[o].guard = lock[o].guard /\ lock'[o].class = lock[o].class
                            \/ o \notin Referenced' /\ lock'[o] = Freed
  PROVE  ObjectInv'
<1>1. \A o \in LockIds : o \in Referenced' => o \in Referenced
  BY HereShared, ThreadsAreActors, LockTypesAssumption
     DEF Alone, FewerReferences, Referenced, SharedState, TypeOK
<1>2. \A s \in Threads \ {t} :
        /\ pc'[s] = pc[s] /\ req'[s] = req[s] /\ mdata'[s] = mdata[s]
        /\ req[s].mutex \in Mutexes /\ dataLock' = s <=> dataLock = s
  BY HereShared, ThreadsAreActors DEF Alone
<1>3. ASSUME NEW s \in Threads \ {t} PROVE Target(s)' = Target(s)
  <2>1. dataLock' = s => registry' = registry
    BY HereShared
  <2> QED
    BY <1>2, <2>1 DEF Target
<1>4. GuardUp'
  <2> SUFFICES ASSUME NEW o \in LockIds, o \in Referenced'
               PROVE  \/ lock'[o].guard
                      \/ lock'[o].class # NoThread
                      \/ \E s \in Threads : dataLock' = s /\ pc'[s] = "guard" /\ Target(s)' = o
    BY DEF GuardUp
  <2>1. lock'[o].guard = lock[o].guard /\ lock'[o].class = lock[o].class /\ o \in Referenced
    BY <1>1
  <2>2. CASE lock[o].guard \/ lock[o].class # NoThread
    BY <2>1, <2>2
  <2>3. CASE ~(lock[o].guard \/ lock[o].class # NoThread)
    <3>1. PICK s \in Threads : dataLock = s /\ pc[s] = "guard" /\ Target(s) = o
      BY <2>1, <2>3 DEF SharedState, SharedInv, ObjectInv, GuardUp
    <3>2. s # t
      BY <3>1
    <3> QED
      BY <1>2, <1>3, <3>1, <3>2
  <2> QED
    BY <2>2, <2>3
<1>5. ClassHeld'
  <2> SUFFICES ASSUME NEW o \in LockIds, NEW s \in Threads
               PROVE  lock'[o].class = s <=> pc'[s] = "lock" /\ Target(s)' = o
    BY DEF ClassHeld
  <2>1. pc'[s] = "lock" /\ Target(s)' = o <=> pc[s] = "lock" /\ Target(s) = o
    BY <1>2, <1>3
  <2>2. lock[o].class = s <=> pc[s] = "lock" /\ Target(s) = o
    BY DEF SharedState, SharedInv, ObjectInv, ClassHeld
  <2>3. CASE lock'[o].class = lock[o].class
    BY <2>1, <2>2, <2>3
  <2>4. CASE o \notin Referenced' /\ lock'[o] = Freed
    <3>1. lock'[o].class # s
      BY <2>4, FreedIsFree, LockTypesAssumption
    <3>2. ASSUME pc'[s] = "lock", Target(s)' = o PROVE FALSE
      <4>1. s # t /\ s \in Actors /\ req'[s].mutex \in Mutexes
        BY <1>2, <3>2, HereShared
      <4> QED
        BY <2>4, <3>2, <4>1 DEF Target, Referenced
    <3> QED
      BY <3>1, <3>2
  <2> QED
    BY <2>3, <2>4
<1>6. Private'
  <2> SUFFICES ASSUME NEW s \in Threads, dataLock' = s, NEW a \in Actors
               PROVE  Target(s)' \notin {mdata'[a], wdata'[a], rdata'[a]}
    BY DEF Private
  <2>1. dataLock = s /\ s # t /\ Target(s)' = Target(s) /\ Target(s) \in LockIds
    BY <1>3, TargetExists
  <2>2. Target(s) \notin {mdata[a], wdata[a], rdata[a]}
    BY <2>1 DEF SharedState, SharedInv, ObjectInv, Private
  <2>3. CASE a = t
    BY <2>1, <2>2, <2>3, LockTypesAssumption DEF FewerReferences
  <2>4. CASE a # t
    BY <2>1, <2>2, <2>4 DEF Alone
  <2> QED
    BY <2>3, <2>4
<1> QED
  BY <1>4, <1>5, <1>6 DEF ObjectInv

\* The call of another thread, if what it refers to stays what it is
LEMMA OthersStay ==
  ASSUME SharedState, NEW t \in Threads, NEW s \in Threads \ {t}, Alone(t),
         dataLock' = s <=> dataLock = s,
         dataLock = s => registry'[req[s].mutex] = registry[req[s].mutex],
         \A o \in LockIds : o \in {mdata[s], rdata[s]} \/ (dataLock = s /\ o = Target(s)) =>
           lock'[o].mutex = lock[o].mutex /\ lock'[o].type = lock[o].type,
         LET o == registry'[req[s].mutex] IN
           \/ o = NoLock
           \/ o = registry[req[s].mutex] /\ lock'[o].owners[s] = lock[o].owners[s]
           \/ lock'[o].owners[s] = 0
  PROVE  SharedCall(s)'
<1>1. /\ pc'[s] = pc[s] /\ req'[s] = req[s] /\ held'[s] = held[s]
      /\ mdata'[s] = mdata[s] /\ wdata'[s] = wdata[s] /\ rdata'[s] = rdata[s]
      /\ SharedCall(s) /\ req[s].mutex \in Mutexes
  BY HereShared DEF Alone
<1>2. rdata[s] # NoLock => lock'[rdata[s]].mutex = lock[rdata[s]].mutex
  BY HereShared DEF LockRefs
<1>3. CallPlace(s)'
  BY <1>1, <1>2 DEF SharedCall, CallPlace
<1>4. CallAsked(s)'
  <2>1. ASSUME pc[s] \in Joining
        PROVE  Target(s)' = Target(s) /\ lock'[Target(s)].type = lock[Target(s)].type
    <3>1. Target(s)' = Target(s)
      BY <1>1 DEF Target
    <3> QED
      BY <2>1, <3>1, TargetExists DEF Target
  <2> QED
    BY <1>1, <2>1 DEF SharedCall, CallAsked, Asks
<1>5. Missed(s)'
  BY <1>1 DEF SharedCall, Missed, IsOwner
<1> QED
  BY <1>3, <1>4, <1>5 DEF SharedCall

\* What other threads claim, release and may count on
LEMMA OthersClaims ==
  ASSUME SharedState, NEW t \in Threads, NEW s \in Threads \ {t}, Alone(t),
         dataLock' = s <=> dataLock = s,
         dataLock = s => registry'[req[s].mutex] = registry[req[s].mutex]
  PROVE  /\ \A o \in LockIds : Joins(s, o)' <=> Joins(s, o)
         /\ \A o \in LockIds : Releases(s, o)' <=> Releases(s, o)
         /\ \A m \in Mutexes : Claims(s, m)' = Claims(s, m)
<1>1. /\ pc'[s] = pc[s] /\ req'[s] = req[s] /\ wrappers'[s] = wrappers[s]
      /\ mdata'[s] = mdata[s] /\ rdata'[s] = rdata[s]
  BY HereShared DEF Alone
<1>2. Target(s)' = Target(s)
  BY <1>1 DEF Target
<1> QED
  BY <1>1, <1>2 DEF Joins, Releases, Claims, At, Open

\* A step of t in its own call: it drops references, or takes what it has found,
\* and leaves registrations and owners alone
Moves(t) ==
  /\ Alone(t) /\ KeepsLocks /\ FewerReferences(t)
  /\ UNCHANGED <<registry, dataLock>>
  /\ pc[t] \notin Acquiring /\ pc'[t] \notin {"lock", "own"}

LEMMA FreedIsRead == Freed.type = "Read"
BY DEF Freed, NewLock

LEMMA MovesKeep ==
  ASSUME SharedState, NEW t \in Threads, Moves(t), SharedCall(t)',
         pc'[t] \in Joining => mdata'[t] # NoLock
           /\ (lock[mdata'[t]].type = "Write" => Claimant(t, mdata'[t])),
         pc[t] = "addHeld" => pc'[t] = "guard" /\ mdata'[t] = mdata[t],
         \A m \in Mutexes :
           registry[m] # NoLock /\ Releases(t, registry[m]) =>
             Releases(t, registry[m])' \/ Owners(lock[registry[m]]) # {},
         \A m \in Mutexes :
           "overwrite" \notin Features /\ registry[m] # NoLock => Claims(t, m)' >= Claims(t, m)
  PROVE  SharedInv'
<1>1. dataLock # t /\ t \in Actors /\ pc[t] \notin {"guard", "lock"} /\ pc'[t] # "lock"
  BY HereShared DEF Moves, SharedCall, CallPlace, Acquiring
<1>2. /\ \A o \in LockIds : o \in Referenced' => lock'[o] = lock[o]
      /\ \A o \in LockIds : lock'[o] = lock[o] \/ (o \notin Referenced' /\ lock'[o] = Freed)
      /\ \A m \in Mutexes : registry[m] # NoLock =>
           registry[m] \in LockIds /\ lock'[registry[m]] = lock[registry[m]]
  BY HereShared DEF Moves, KeepsLocks, Referenced, LockRefs
<1>3. ObjectInv'
  BY <1>1, <1>2, ObjectsStay DEF Moves
<1>4. ASSUME NEW s \in Threads \ {t} PROVE SharedCall(s)'
  <2>1. /\ s \in Actors /\ req[s].mutex \in Mutexes
        /\ mdata'[s] = mdata[s] /\ rdata'[s] = rdata[s]
    BY HereShared DEF Moves, Alone
  <2>2. \A o \in LockIds : o \in {mdata[s], rdata[s]} => lock'[o] = lock[o]
    BY <1>2, <2>1 DEF Referenced
  <2>3. dataLock = s => lock'[Target(s)] = lock[Target(s)]
    BY <1>2, <2>1, TargetExists, HereShared DEF Target
  <2> QED
    BY <1>2, <2>1, <2>2, <2>3, OthersStay DEF Moves
<1>5. \A s \in Threads, o \in LockIds :
        lock'[o].type = "Write" /\ Claimant(s, o)' => lock[o].type = "Write" /\ Claimant(s, o)
  <2> SUFFICES ASSUME NEW s \in Threads, NEW o \in LockIds, lock'[o].type = "Write",
                      Claimant(s, o)'
               PROVE  lock[o].type = "Write" /\ Claimant(s, o)
    OBVIOUS
  <2>1. lock'[o] = lock[o]
    BY <1>2, FreedIsRead
  <2>2. CASE s # t
    <3>1. Joins(s, o)' <=> Joins(s, o)
      BY <2>2, OthersClaims DEF Moves
    <3> QED
      BY <2>1, <3>1 DEF Claimant
  <2>3. CASE s = t
    <3>1. Target(t)' = mdata'[t]
      BY <1>1 DEF Target, Moves
    <3> QED
      BY <2>1, <2>3, <3>1 DEF Claimant, Joins
  <2> QED
    BY <2>2, <2>3
<1>6. OneClaimant'
  BY <1>5 DEF SharedState, SharedInv, OneClaimant
<1>7. SomeHolder'
  <2> SUFFICES ASSUME NEW m \in Mutexes, registry[m] # NoLock
               PROVE  \E s \in Threads : (Claimant(s, registry[m]) \/ Releases(s, registry[m]))'
    BY DEF SomeHolder, Moves
  <2> DEFINE o == registry[m]
  <2>1. o \in LockIds /\ lock'[o] = lock[o] /\ registry' = registry
    BY <1>2 DEF Moves
  <2> HIDE DEF o
  <2>2. ASSUME NEW s \in Threads, IsOwner(lock[o], s)
        PROVE  \E q \in Threads : (Claimant(q, o) \/ Releases(q, o))'
    <3>1. IsOwner(lock[o], s)'
      BY <2>1, <2>2 DEF o, IsOwner
    <3> QED
      BY <3>1 DEF Claimant
  <2>3. PICK s \in Threads : Claimant(s, o) \/ Releases(s, o)
    BY DEF SharedState, SharedInv, SomeHolder, o
  <2>4. CASE IsOwner(lock[o], s)
    BY <2>2, <2>4 DEF o
  <2>5. CASE s # t /\ (Joins(s, o) \/ Releases(s, o))
    BY <2>1, <2>5, OthersClaims DEF Moves, Claimant, o
  <2>6. CASE s = t /\ Joins(t, o)
    <3>1. pc[t] = "addHeld" /\ mdata[t] = o
      BY <1>1, <2>6 DEF Joins, Joining, Moves, Target
    <3>2. Joins(t, o)'
      BY <1>1, <2>1, <3>1 DEF Joins, Joining, Acquiring, Target, Moves, o
    <3> QED
      BY <3>2 DEF Claimant, o
  <2>7. CASE s = t /\ Releases(t, o)
    <3>1. Releases(t, o)' \/ \E q \in Threads : IsOwner(lock[o], q)
      BY <2>7 DEF o, Owners
    <3> QED
      BY <2>2, <3>1 DEF o
  <2> QED
    BY <2>3, <2>4, <2>5, <2>6, <2>7 DEF Claimant
<1>8. AtMostClaims'
  <2> SUFFICES ASSUME "overwrite" \notin Features, NEW s \in Threads, NEW m \in Mutexes,
                      registry[m] # NoLock
               PROVE  lock'[registry[m]].owners[s] <= Claims(s, m)'
    BY DEF AtMostClaims, Moves
  <2>1. /\ lock'[registry[m]].owners[s] = lock[registry[m]].owners[s]
        /\ lock[registry[m]].owners[s] <= Claims(s, m)
        /\ lock[registry[m]].owners[s] \in Nat
    BY <1>2, HereShared DEF SharedState, SharedInv, AtMostClaims, LockObjects
  <2>2. Claims(s, m) \in Nat /\ Claims(s, m)' \in Nat
    <3>1. wrappers'[s][m]["Read"] \in Nat /\ wrappers'[s][m]["Write"] \in Nat
      BY DEF SharedState, TypeOK, Types
    <3> QED
      BY <3>1, HereShared DEF Claims, Open
  <2>3. Claims(s, m)' >= Claims(s, m)
    <3>1. CASE s = t
      BY <3>1
    <3>2. CASE s # t
      BY <2>2, <3>2, OthersClaims DEF Moves
    <3> QED
      BY <3>1, <3>2
  <2> QED
    BY <2>1, <2>2, <2>3
<1> QED
  BY <1>3, <1>4, <1>6, <1>7, <1>8 DEF SharedInv

-----------------------------------------------------------------------------
(* The steps of a call that only move on in it                             *)

LEMMA MovesOn ==
  ASSUME SharedState, NEW t \in Threads, Alone(t), KeepsLocks, FewerReferences(t),
         UNCHANGED <<registry, dataLock, req, wrappers>>, held'[t] \subseteq held[t],
         pc[t] \notin Joining,
         pc'[t] \in ({"idle"} \cup AccessPcs \cup ReleasePcs) \ (Joining \cup {"reset"}),
         pc'[t] \in AccessPcs \/ mdata'[t] # NoLock \/ wdata'[t] # NoLock =>
           pc[t] \in AccessPcs \/ mdata[t] # NoLock \/ wdata[t] # NoLock,
         pc'[t] \in Looking => mdata'[t] # NoLock,
         pc'[t] \in Waiting => wdata'[t] # NoLock,
         pc'[t] = "idle" => wdata'[t] = NoLock,
         pc'[t] \in Closing => \/ pc[t] \in Closing /\ rdata'[t] = rdata[t]
                               \/ rdata'[t] # NoLock /\ rdata'[t] = registry[req[t].mutex],
         pc'[t] = "disown" => rdata'[t] = registry[req[t].mutex],
         pc[t] \in Granted \cup {"release", "disown"} =>
           pc'[t] \in Granted \cup {"release", "disown"} \/ registry[req[t].mutex] = NoLock,
         pc[t] \in Closing \ {"disown"} =>
           \/ pc'[t] \in Closing \ {"disown"} /\ rdata'[t] = rdata[t]
           \/ Owners(lock[rdata[t]]) # {}
  PROVE  SharedInv'
<1>1. /\ SharedCall(t) /\ t \in Actors /\ req[t].mutex \in Mutexes
      /\ pc[t] # "guard" /\ pc[t] # "addHeld" /\ dataLock # t /\ pc'[t] \notin Joining
  BY HereShared DEF SharedCall, CallPlace, Joining, AccessPcs, ReleasePcs, Granted, Looking,
                    Waiting, Closing, Acquiring
<1>2. Moves(t)
  BY DEF Moves, Joining, Acquiring
<1>3. SharedCall(t)'
  <2>1. CallPlace(t)'
    <3>1. pc'[t] \in Closing => rdata'[t] # NoLock /\ lock'[rdata'[t]].mutex = req[t].mutex
      <4>1. pc'[t] \in Closing => rdata'[t] \in LockIds /\ lock[rdata'[t]].mutex = req[t].mutex
        BY <1>1, HereShared
           DEF SharedCall, CallPlace, SharedState, OwnedInv, Placed, LockRefs
      <4>2. rdata'[t] \in LockIds => lock'[rdata'[t]] = lock[rdata'[t]]
        BY <1>1 DEF KeepsLocks, Referenced
      <4> QED
        BY <4>1, <4>2, HereShared
    <3> QED
      BY <1>1, <3>1 DEF CallPlace, Joining
  <2>2. CallAsked(t)'
    BY <1>1 DEF SharedCall, CallAsked, Asks
  <2>3. Missed(t)'
    BY DEF Missed
  <2> QED
    BY <2>1, <2>2, <2>3 DEF SharedCall
<1>4. ASSUME NEW m \in Mutexes, registry[m] # NoLock PROVE Claims(t, m)' >= Claims(t, m)
  BY <1>4, HereShared DEF Claims, At, Open
<1>5. ASSUME NEW m \in Mutexes, Releases(t, registry[m])
      PROVE  Releases(t, registry[m])' \/ Owners(lock[registry[m]]) # {}
  BY <1>5 DEF Releases
<1> QED
  BY <1>1, <1>2, <1>3, <1>4, <1>5, MovesKeep

\* What a thread finds with m_classMutex free has its guard
LEMMA GuardSeen ==
  ASSUME SharedState, NEW t \in Threads, dataLock # t,
         NEW o \in {mdata[t], wdata[t], rdata[t]}, o # NoLock, ClassFree(o)
  PROVE  lock[o].guard /\ o \in LockIds /\ lock[o].type \in Types
<1>1. o \in LockIds /\ o \in Referenced /\ t \in Actors
  BY HereShared DEF LockRefs, Referenced
<1>2. ~ \E s \in Threads : dataLock = s /\ pc[s] = "guard" /\ Target(s) = o
  BY <1>1 DEF SharedState, SharedInv, ObjectInv, Private
<1> QED
  BY <1>1, <1>2, HereShared DEF SharedState, SharedInv, ObjectInv, GuardUp, ClassFree, LockObjects

LEMMA GetLockDataShared ==
  ASSUME SharedState, NEW t \in Threads, GetLockData(t), UNCHANGED wrappers
  PROVE  SharedInv'
<1>1. /\ pc[t] = "get" /\ dataLock = NoThread
      /\ mdata' = [mdata EXCEPT ![t] = registry[req[t].mutex]]
      /\ pc' = [pc EXCEPT ![t] = IF registry[req[t].mutex] = NoLock THEN "register" ELSE "can"]
      /\ UNCHANGED <<registry, lock, held, dataLock, req, wdata, rdata, wrappers>>
  BY DEF GetLockData, Goto
<1>2. /\ pc'[t] = IF registry[req[t].mutex] = NoLock THEN "register" ELSE "can"
      /\ mdata'[t] = registry[req[t].mutex]
  BY <1>1, HereShared
<1>3. Alone(t) /\ KeepsLocks /\ FewerReferences(t)
  BY <1>1, <1>2, HereShared, ThreadsAreActors DEF Alone, KeepsLocks, FewerReferences
<1> QED
  BY <1>1, <1>2, <1>3, MovesOn
     DEF Joining, AccessPcs, ReleasePcs, Granted, Looking, Waiting, Closing, Acquiring

LEMMA CanConvertShared ==
  ASSUME SharedState, NEW t \in Threads, CanConvert(t), UNCHANGED wrappers
  PROVE  SharedInv'
<1>1. /\ pc[t] = "canOwners"
      /\ UNCHANGED <<registry, lock, held, dataLock, req, rdata, wrappers>>
      /\ \/ UNCHANGED <<mdata, wdata>> /\ pc' = [pc EXCEPT ![t] = "release"]
         \/ UNCHANGED <<mdata, wdata>> /\ pc' = [pc EXCEPT ![t] = "success"]
         \/ /\ wdata' = [wdata EXCEPT ![t] = mdata[t]]
            /\ mdata' = [mdata EXCEPT ![t] = NoLock]
            /\ pc' = [pc EXCEPT ![t] = "wait"]
  BY DEF CanConvert, Cannot, Goto
<1>2. \/ mdata'[t] = mdata[t] /\ wdata'[t] = wdata[t] /\ pc'[t] \in {"release", "success"}
      \/ mdata'[t] = NoLock /\ wdata'[t] = mdata[t] /\ pc'[t] = "wait"
  BY <1>1, HereShared
<1>3. Alone(t) /\ KeepsLocks /\ FewerReferences(t)
  BY <1>1, <1>2, HereShared, ThreadsAreActors DEF Alone, KeepsLocks, FewerReferences
<1>4. mdata[t] # NoLock
  BY <1>1, HereShared DEF SharedCall, CallPlace, Looking
<1> QED
  BY <1>1, <1>2, <1>3, <1>4, MovesOn
     DEF Joining, AccessPcs, ReleasePcs, Granted, Looking, Waiting, Closing, Acquiring

\* A write lock is joined by its owner only, a read lock by readers only
LEMMA CanAcquireShared ==
  ASSUME SharedState, NEW t \in Threads, CanAcquire(t), UNCHANGED wrappers
  PROVE  SharedInv'
<1> DEFINE o == mdata[t]
<1>1. /\ pc[t] = "can" /\ ClassFree(o)
      /\ UNCHANGED <<registry, lock, held, dataLock, req, rdata, wrappers>>
      /\ LET look == FirstLook(lock[o], t, req[t].type) IN
         \/ look = "AVAIL" /\ pc' = [pc EXCEPT ![t] = "addHeld"] /\ UNCHANGED <<mdata, wdata>>
         \/ look = "OWNERS" /\ pc' = [pc EXCEPT ![t] = "canOwners"] /\ UNCHANGED <<mdata, wdata>>
         \/ look = "CANNOT" /\ Cannot(t)
  BY DEF CanAcquire, Goto
<1>2. /\ SharedCall(t) /\ t \in Actors /\ o # NoLock /\ dataLock # t /\ req[t].type \in Types
      /\ Asks(t, req[t].mutex, req[t].type)
  BY <1>1, HereShared DEF SharedCall, CallPlace, CallAsked, Looking, Acquiring, AccessPcs
<1>3. lock[o].guard /\ o \in LockIds /\ lock[o].type \in Types
  BY <1>1, <1>2, GuardSeen
<1>4. CASE FirstLook(lock[o], t, req[t].type) = "AVAIL"
  <2>1. IF lock[o].type = "Write" THEN IsOwner(lock[o], t) ELSE req[t].type = "Read"
    BY <1>2, <1>3, <1>4 DEF FirstLook, Types
  <2>2. pc' = [pc EXCEPT ![t] = "addHeld"] /\ UNCHANGED <<mdata, wdata>>
    BY <1>1, <1>4
  <2>3. pc'[t] = "addHeld"
    BY <2>2, HereShared
  <2>4. Alone(t) /\ KeepsLocks /\ FewerReferences(t)
    BY <1>1, <2>2, HereShared, ThreadsAreActors DEF Alone, KeepsLocks, FewerReferences
  <2>5. Moves(t)
    BY <1>1, <2>3, <2>4 DEF Moves, Acquiring
  <2>6. SharedCall(t)'
    <3>1. CallPlace(t)'
      BY <1>1, <1>2, <2>2, <2>3
         DEF CallPlace, AccessPcs, ReleasePcs, Looking, Waiting, Acquiring, Granted, Closing
    <3>2. Target(t)' = o
      BY <1>1, <1>2, <2>2 DEF Target
    <3>3. CallAsked(t)'
      BY <1>1, <1>2, <2>1, <2>3, <3>2 DEF SharedCall, CallAsked, Asks
    <3>4. Missed(t)'
      BY <2>3 DEF Missed
    <3> QED
      BY <3>1, <3>3, <3>4 DEF SharedCall
  <2>7. \A m \in Mutexes : Claims(t, m)' >= Claims(t, m)
    BY <1>1, <2>3, HereShared DEF Claims, At, Open, Granted
  <2> QED
    BY <1>1, <1>2, <2>1, <2>2, <2>3, <2>5, <2>6, <2>7, MovesKeep DEF Claimant, Releases, Closing
<1>5. CASE FirstLook(lock[o], t, req[t].type) # "AVAIL"
  <2>1. \/ pc' = [pc EXCEPT ![t] = "canOwners"] /\ UNCHANGED <<mdata, wdata>>
        \/ pc' = [pc EXCEPT ![t] = "success"] /\ UNCHANGED <<mdata, wdata>>
        \/ /\ wdata' = [wdata EXCEPT ![t] = o]
           /\ mdata' = [mdata EXCEPT ![t] = NoLock]
           /\ pc' = [pc EXCEPT ![t] = "wait"]
    BY <1>1, <1>5 DEF Cannot, Goto
  <2>2. \/ mdata'[t] = o /\ wdata'[t] = wdata[t] /\ pc'[t] \in {"canOwners", "success"}
        \/ mdata'[t] = NoLock /\ wdata'[t] = o /\ pc'[t] = "wait"
    BY <2>1, HereShared
  <2>3. Alone(t) /\ KeepsLocks /\ FewerReferences(t)
    BY <1>1, <2>1, <2>2, HereShared, ThreadsAreActors DEF Alone, KeepsLocks, FewerReferences
  <2> QED
    BY <1>1, <1>2, <2>2, <2>3, MovesOn
       DEF Joining, AccessPcs, ReleasePcs, Granted, Looking, Waiting, Closing, Acquiring
<1> QED
  BY <1>4, <1>5

LEMMA RegisterFailsShared ==
  ASSUME SharedState, NEW t \in Threads, RegisterFails(t), UNCHANGED wrappers
  PROVE  SharedInv'
<1>1. /\ pc[t] = "register"
      /\ pc' = [pc EXCEPT ![t] = "idle"]
      /\ mdata' = [mdata EXCEPT ![t] = NoLock] /\ wdata' = [wdata EXCEPT ![t] = NoLock]
      /\ UNCHANGED <<registry, held, dataLock, req, rdata, wrappers>>
      /\ DropUnreferenced
  BY HereShared DEF RegisterFails, Goto
<1>2. pc'[t] = "idle" /\ mdata'[t] = NoLock /\ wdata'[t] = NoLock
  BY <1>1, HereShared
<1>3. Alone(t) /\ KeepsLocks /\ FewerReferences(t)
  BY <1>1, <1>2, HereShared, ThreadsAreActors, DropKeepsLocks DEF Alone, FewerReferences
<1> QED
  BY <1>1, <1>2, <1>3, MovesOn
     DEF Joining, AccessPcs, ReleasePcs, Granted, Looking, Waiting, Closing, Acquiring

LEMMA AddToHeldLocksShared ==
  ASSUME SharedState, NEW t \in Threads, AddToHeldLocks(t), UNCHANGED wrappers
  PROVE  SharedInv'
<1>1. /\ pc[t] = "addHeld"
      /\ pc' = [pc EXCEPT ![t] = "guard"]
      /\ held' = [held EXCEPT ![t] = @ \cup {req[t].mutex}]
      /\ UNCHANGED <<registry, lock, dataLock, req, mdata, wdata, rdata, wrappers>>
  BY DEF AddToHeldLocks, Goto
<1>2. pc'[t] = "guard" /\ held'[t] = held[t] \cup {req[t].mutex}
  BY <1>1, HereShared
<1>3. /\ SharedCall(t) /\ dataLock # t /\ mdata[t] # NoLock /\ req[t].type \in Types
      /\ Asks(t, req[t].mutex, req[t].type) /\ Target(t) = mdata[t] /\ Target(t)' = mdata[t]
  BY <1>1, HereShared
     DEF SharedCall, CallPlace, CallAsked, Looking, Acquiring, AccessPcs, Target
<1>4. Moves(t)
  <2>1. Alone(t) /\ KeepsLocks /\ FewerReferences(t)
    BY <1>1, HereShared, ThreadsAreActors DEF Alone, KeepsLocks, FewerReferences
  <2> QED
    BY <1>1, <1>2, <2>1 DEF Moves, Acquiring
<1>5. SharedCall(t)'
  <2>1. CallPlace(t)'
    BY <1>1, <1>2, <1>3
       DEF CallPlace, AccessPcs, ReleasePcs, Looking, Waiting, Acquiring, Granted, Closing
  <2>2. CallAsked(t)'
    BY <1>1, <1>2, <1>3 DEF SharedCall, CallAsked, Asks, Joining, Acquiring
  <2>3. Missed(t)'
    BY <1>2 DEF Missed
  <2> QED
    BY <2>1, <2>2, <2>3 DEF SharedCall
<1>6. \A m \in Mutexes : Claims(t, m)' >= Claims(t, m)
  BY <1>1, <1>2, HereShared DEF Claims, At, Open, Granted
<1>7. Claimant(t, mdata'[t])
  BY <1>1, <1>3 DEF Claimant, Joins, Joining
<1> QED
  BY <1>1, <1>2, <1>3, <1>4, <1>5, <1>6, <1>7, MovesKeep DEF Releases, Closing

\* Nothing that the thread holds is greater: no reorder
LEMMA NeedToResetShared ==
  ASSUME SharedState, NEW t \in Threads, NeedToReset(t), UNCHANGED wrappers
  PROVE  SharedInv'
<1>1. /\ pc[t] = "reset"
      /\ UNCHANGED <<registry, lock, held, dataLock, req, mdata, wdata, rdata, wrappers>>
  BY DEF NeedToReset
<1>2. CallAsked(t) /\ req[t].mutex \in Nat /\ held[t] \subseteq Nat
  BY HereShared, LockTypesAssumption DEF SharedCall
<1>3. ~ \E k \in held[t] : k > req[t].mutex
  <2> SUFFICES ASSUME NEW k \in held[t], k > req[t].mutex PROVE FALSE
    OBVIOUS
  <2>1. PICK ty \in Types : Asks(t, k, ty)
    BY <1>2 DEF CallAsked
  <2>2. Asks(t, req[t].mutex, "Write")
    BY <1>1, <1>2 DEF CallAsked, AccessPcs, Granted
  <2>3. k <= req[t].mutex
    BY <2>1, <2>2 DEF Asks, SharedState, Shared, NoReorder
  <2> QED
    BY <1>2, <2>3
<1>4. pc' = [pc EXCEPT ![t] = "success"]
  BY <1>3 DEF NeedToReset, Goto
<1>5. pc'[t] = "success"
  BY <1>4, HereShared
<1>6. Alone(t) /\ KeepsLocks /\ FewerReferences(t)
  BY <1>1, <1>4, HereShared, ThreadsAreActors DEF Alone, KeepsLocks, FewerReferences
<1> QED
  BY <1>1, <1>5, <1>6, MovesOn
     DEF Joining, AccessPcs, ReleasePcs, Granted, Looking, Waiting, Closing, Acquiring

-----------------------------------------------------------------------------
(* The steps of ReleaseLock that only move on in it                        *)

LEMMA FindToReleaseShared ==
  ASSUME SharedState, NEW t \in Threads, FindToRelease(t), UNCHANGED wrappers
  PROVE  SharedInv'
<1>1. /\ pc[t] = "release" /\ dataLock = NoThread
      /\ rdata' = [rdata EXCEPT ![t] = registry[req[t].mutex]]
      /\ pc' = [pc EXCEPT ![t] = IF registry[req[t].mutex] = NoLock THEN "return" ELSE "disown"]
      /\ UNCHANGED <<registry, lock, held, dataLock, req, mdata, wdata, wrappers>>
  BY DEF FindToRelease, Goto
<1>2. /\ pc'[t] = IF registry[req[t].mutex] = NoLock THEN "return" ELSE "disown"
      /\ rdata'[t] = registry[req[t].mutex]
  BY <1>1, HereShared
<1>3. Alone(t) /\ KeepsLocks /\ FewerReferences(t)
  BY <1>1, <1>2, HereShared, ThreadsAreActors DEF Alone, KeepsLocks, FewerReferences
<1> QED
  BY <1>1, <1>2, <1>3, MovesOn
     DEF Joining, AccessPcs, ReleasePcs, Granted, Looking, Waiting, Closing, Acquiring

LEMMA ShouldRemoveShared ==
  ASSUME SharedState, NEW t \in Threads, ShouldRemoveGuard(t) \/ ShouldRemoveOwners(t),
         UNCHANGED wrappers
  PROVE  SharedInv'
<1>1. /\ pc[t] \in {"should", "shouldOwners"}
      /\ \/ pc' = [pc EXCEPT ![t] = "shouldOwners"]
         \/ pc' = [pc EXCEPT ![t] = "opCount"]
         \/ pc' = [pc EXCEPT ![t] = "return"] /\ Owners(lock[rdata[t]]) # {}
      /\ UNCHANGED <<registry, lock, held, dataLock, req, mdata, wdata, rdata, wrappers>>
  BY DEF ShouldRemoveGuard, ShouldRemoveOwners, Goto
<1>2. \/ pc'[t] \in {"shouldOwners", "opCount"}
      \/ pc'[t] = "return" /\ Owners(lock[rdata[t]]) # {}
  BY <1>1, HereShared
<1>3. Alone(t) /\ KeepsLocks /\ FewerReferences(t)
  BY <1>1, HereShared, ThreadsAreActors DEF Alone, KeepsLocks, FewerReferences
<1> QED
  BY <1>1, <1>2, <1>3, MovesOn
     DEF Joining, AccessPcs, ReleasePcs, Granted, Looking, Waiting, Closing, Acquiring

LEMMA GetOperationCountShared ==
  ASSUME SharedState, NEW t \in Threads, GetOperationCount(t), UNCHANGED wrappers
  PROVE  SharedInv'
<1>1. /\ pc[t] = "opCount"
      /\ UNCHANGED <<registry, lock, held, dataLock, req, mdata, wdata, rdata, wrappers>>
  BY DEF GetOperationCount
<1>2. rdata[t] \in LockIds
  BY <1>1, HereShared DEF SharedCall, CallPlace, Closing, LockRefs
<1>3. lock[rdata[t]].ops = 0
  BY <1>2 DEF SharedState, OwnedInv, NoOperations
<1>4. pc' = [pc EXCEPT ![t] = "unregister"]
  BY <1>3 DEF GetOperationCount, Goto
<1>5. pc'[t] = "unregister"
  BY <1>4, HereShared
<1>6. Alone(t) /\ KeepsLocks /\ FewerReferences(t)
  BY <1>1, <1>4, HereShared, ThreadsAreActors DEF Alone, KeepsLocks, FewerReferences
<1> QED
  BY <1>1, <1>5, <1>6, MovesOn
     DEF Joining, AccessPcs, ReleasePcs, Granted, Looking, Waiting, Closing, Acquiring

LEMMA RemoveFromHeldLocksShared ==
  ASSUME SharedState, NEW t \in Threads, RemoveFromHeldLocks(t), UNCHANGED wrappers
  PROVE  SharedInv'
<1>1. /\ pc[t] = "dropHeld"
      /\ pc' = [pc EXCEPT ![t] = "return"]
      /\ held' = [held EXCEPT ![t] = @ \ {req[t].mutex}]
      /\ UNCHANGED <<registry, lock, dataLock, req, mdata, wdata, rdata, wrappers>>
  BY DEF RemoveFromHeldLocks, Goto
<1>2. pc'[t] = "return" /\ held'[t] \subseteq held[t]
  BY <1>1, HereShared
<1>3. Alone(t) /\ KeepsLocks /\ FewerReferences(t)
  BY <1>1, HereShared, ThreadsAreActors DEF Alone, KeepsLocks, FewerReferences
<1> QED
  BY <1>1, <1>2, <1>3, MovesOn
     DEF Joining, AccessPcs, ReleasePcs, Granted, Looking, Waiting, Closing, Acquiring

LEMMA ReturnFromReleaseShared ==
  ASSUME SharedState, NEW t \in Threads, ReturnFromRelease(t), UNCHANGED wrappers
  PROVE  SharedInv'
<1>1. /\ pc[t] = "return"
      /\ rdata' = [rdata EXCEPT ![t] = NoLock]
      /\ pc' = [pc EXCEPT ![t] = IF mdata[t] # NoLock THEN "register"
                                 ELSE IF wdata[t] # NoLock THEN "get" ELSE "idle"]
      /\ UNCHANGED <<registry, held, dataLock, req, mdata, wdata, wrappers>>
      /\ DropUnreferenced
  BY DEF ReturnFromRelease, Goto
<1>2. /\ pc'[t] = IF mdata[t] # NoLock THEN "register"
                  ELSE IF wdata[t] # NoLock THEN "get" ELSE "idle"
      /\ rdata'[t] = NoLock
  BY <1>1, HereShared
<1>3. Alone(t) /\ KeepsLocks /\ FewerReferences(t)
  BY <1>1, <1>2, HereShared, ThreadsAreActors, DropKeepsLocks DEF Alone, FewerReferences
<1> QED
  BY <1>1, <1>2, <1>3, MovesOn
     DEF Joining, AccessPcs, ReleasePcs, Granted, Looking, Waiting, Closing, Acquiring

-----------------------------------------------------------------------------
(* Wait, and the steps in which a wrapper is opened, asked for or closed   *)

LEMMA WaitLookShared ==
  ASSUME SharedState, NEW t \in Threads, WaitLook(t)
  PROVE  SharedInv'
<1>1. /\ pc[t] = "wait"
      /\ \E l \in {"get", "waitOwners"} : pc' = [pc EXCEPT ![t] = l]
      /\ UNCHANGED <<registry, lock, held, dataLock, req, mdata, wdata, rdata, wrappers>>
  BY DEF WaitLook, Goto
<1>2. pc'[t] \in {"get", "waitOwners"} /\ wdata[t] # NoLock
  BY <1>1, HereShared DEF SharedCall, CallPlace, Waiting
<1>3. Alone(t) /\ KeepsLocks /\ FewerReferences(t)
  BY <1>1, HereShared, ThreadsAreActors DEF Alone, KeepsLocks, FewerReferences
<1> QED
  BY <1>1, <1>2, <1>3, MovesOn
     DEF Joining, AccessPcs, ReleasePcs, Granted, Looking, Waiting, Closing, Acquiring

LEMMA WaitConvertShared ==
  ASSUME SharedState, NEW t \in Threads, WaitConvert(t)
  PROVE  SharedInv'
<1>1. /\ pc[t] = "waitOwners"
      /\ \E l \in {"release", "wait"} : pc' = [pc EXCEPT ![t] = l]
      /\ UNCHANGED <<registry, lock, held, dataLock, req, mdata, wdata, rdata, wrappers>>
  BY DEF WaitConvert, Goto
<1>2. pc'[t] \in {"release", "wait"} /\ wdata[t] # NoLock
  BY <1>1, HereShared DEF SharedCall, CallPlace, Waiting
<1>3. Alone(t) /\ KeepsLocks /\ FewerReferences(t)
  BY <1>1, HereShared, ThreadsAreActors DEF Alone, KeepsLocks, FewerReferences
<1> QED
  BY <1>1, <1>2, <1>3, MovesOn
     DEF Joining, AccessPcs, ReleasePcs, Granted, Looking, Waiting, Closing, Acquiring

LEMMA WaitTimeoutShared ==
  ASSUME SharedState, NEW t \in Threads, WaitTimeout(t)
  PROVE  SharedInv'
<1>1. /\ pc[t] \in Waiting
      /\ wdata' = [wdata EXCEPT ![t] = NoLock]
      /\ pc' = [pc EXCEPT ![t] = "idle"]
      /\ UNCHANGED <<registry, held, dataLock, req, mdata, rdata, wrappers>>
      /\ DropUnreferenced
  BY DEF WaitTimeout, Waiting, Goto
<1>2. pc'[t] = "idle" /\ wdata'[t] = NoLock
  BY <1>1, HereShared
<1>3. mdata[t] = NoLock
  BY <1>1, HereShared DEF CallPlaced, Waiting
<1>4. Alone(t) /\ KeepsLocks /\ FewerReferences(t)
  BY <1>1, <1>2, HereShared, ThreadsAreActors, DropKeepsLocks DEF Alone, FewerReferences
<1> QED
  BY <1>1, <1>2, <1>3, <1>4, MovesOn
     DEF Joining, AccessPcs, ReleasePcs, Granted, Looking, Waiting, Closing, Acquiring

\* The claim of the call that was granted becomes the wrapper's
LEMMA SucceedShared ==
  ASSUME SharedState, NEW t \in Threads, Succeed(t)
  PROVE  SharedInv'
<1> DEFINE m == req[t].mutex
           ty == req[t].type
<1>1. /\ pc[t] = "success"
      /\ wrappers' = [wrappers EXCEPT ![t][m][ty] = @ + 1]
      /\ mdata' = [mdata EXCEPT ![t] = NoLock]
      /\ wdata' = [wdata EXCEPT ![t] = NoLock]
      /\ pc' = [pc EXCEPT ![t] = "idle"]
      /\ UNCHANGED <<registry, held, dataLock, req, rdata>>
      /\ DropUnreferenced
  BY DEF Succeed, Goto
<1>2. SharedCall(t) /\ dataLock # t /\ t \in Actors /\ m \in Mutexes /\ ty \in Types
  BY <1>1, HereShared DEF SharedCall, CallPlace, Acquiring
<1>3. pc'[t] = "idle" /\ wdata'[t] = NoLock /\ mdata'[t] = NoLock
  BY <1>1, HereShared
<1>4. wrappers \in [Threads -> [Mutexes -> [Types -> Nat]]]
  BY DEF SharedState, TypeOK
<1>5. /\ \A k \in Mutexes, u \in Types :
           wrappers'[t][k][u] = wrappers[t][k][u] + IF k = m /\ u = ty THEN 1 ELSE 0
      /\ \A s \in Threads \ {t} : wrappers'[s] = wrappers[s]
  BY <1>1, <1>2, <1>4
<1>6. \A k \in Mutexes : Open(t, k)' = Open(t, k) + IF k = m THEN 1 ELSE 0
  BY <1>2, <1>4, <1>5 DEF Open, Types
<1>7. \A k \in Mutexes : Claims(t, k)' = Claims(t, k)
  BY <1>1, <1>3, <1>6, HereShared DEF Claims, At, Granted
<1>8. Moves(t)
  <2>1. Alone(t)
    BY <1>1, <1>2, <1>5, ThreadsAreActors DEF Alone
  <2>2. KeepsLocks /\ FewerReferences(t)
    BY <1>1, <1>3, HereShared, DropKeepsLocks DEF FewerReferences
  <2> QED
    BY <1>1, <1>3, <2>1, <2>2 DEF Moves, Acquiring
<1>9. SharedCall(t)'
  BY <1>1, <1>2, <1>3
     DEF SharedCall, CallPlace, CallAsked, Missed, Asks, Joining, AccessPcs, ReleasePcs, Looking,
         Waiting, Acquiring, Granted, Closing
<1>10. \A k \in Mutexes : Claims(t, k) \in Nat
  BY HereShared
<1> QED
  BY <1>1, <1>3, <1>7, <1>8, <1>9, <1>10, MovesKeep DEF Releases, Joining, Acquiring, Closing

\* An idle thread holds no reference to a lock
LEMMA IdleShared ==
  ASSUME SharedState, NEW t \in Threads, pc[t] = "idle"
  PROVE  mdata[t] = NoLock /\ wdata[t] = NoLock /\ dataLock # t
BY HereShared DEF SharedCall, CallPlace, CallPlaced, Acquiring

LEMMA AccessShared ==
  ASSUME SharedState, NEW t \in Threads, Access(t)
  PROVE  SharedInv'
<1>1. /\ pc[t] = "idle"
      /\ pc' = [pc EXCEPT ![t] = "get"]
      /\ UNCHANGED <<registry, lock, held, dataLock, mdata, wdata, rdata, wrappers>>
  BY DEF Access, Goto
<1>2. PICK m \in Mutexes, ty \in Types :
        /\ MayAsk(t, m, ty)
        /\ req' = [req EXCEPT ![t] = [mutex |-> m, type |-> ty, op |-> MayQueue(m)]]
  BY DEF Access
<1>3. SharedCall(t) /\ t \in Actors /\ mdata[t] = NoLock /\ wdata[t] = NoLock /\ dataLock # t
  BY <1>1, HereShared, IdleShared
<1>4. /\ pc'[t] = "get" /\ req'[t].mutex = m /\ req'[t].type = ty
      /\ \A s \in Threads \ {t} : req'[s] = req[s]
  BY <1>1, <1>2, HereShared, ThreadsAreActors DEF SharedState, TypeOK
<1>5. Moves(t)
  <2>1. Alone(t) /\ KeepsLocks /\ FewerReferences(t)
    BY <1>1, <1>3, <1>4, ThreadsAreActors DEF Alone, KeepsLocks, FewerReferences
  <2> QED
    BY <1>1, <1>4, <2>1 DEF Moves, Acquiring
<1>6. SharedCall(t)'
  <2>1. Asks(t, m, ty)
    BY <1>2 DEF MayAsk, Asks
  <2> QED
    BY <1>1, <1>3, <1>4, <2>1
       DEF SharedCall, CallPlace, CallAsked, Missed, Asks, Joining, AccessPcs, ReleasePcs,
           Looking, Waiting, Acquiring, Granted, Closing
<1>7. \A k \in Mutexes : Claims(t, k)' = Claims(t, k) /\ Claims(t, k) \in Nat
  BY <1>1, <1>4, HereShared DEF Claims, At, Granted, Open
<1> QED
  BY <1>1, <1>4, <1>5, <1>6, <1>7, MovesKeep DEF Releases, Joining, Acquiring, Closing

\* The claim of the wrapper becomes that of the release
LEMMA DestroyShared ==
  ASSUME SharedState, NEW t \in Threads, Destroy(t)
  PROVE  SharedInv'
<1>1. /\ pc[t] = "idle"
      /\ pc' = [pc EXCEPT ![t] = "release"]
      /\ UNCHANGED <<registry, lock, held, dataLock, mdata, wdata, rdata>>
  BY DEF Destroy, Goto
<1>2. PICK m \in Mutexes, ty \in Types :
        /\ wrappers[t][m][ty] > 0
        /\ wrappers' = [wrappers EXCEPT ![t][m][ty] = @ - 1]
        /\ req' = [req EXCEPT ![t] = [mutex |-> m, type |-> ty, op |-> FALSE]]
  BY DEF Destroy
<1>3. SharedCall(t) /\ t \in Actors /\ mdata[t] = NoLock /\ wdata[t] = NoLock /\ dataLock # t
  BY <1>1, HereShared, IdleShared
<1>4. /\ pc'[t] = "release" /\ req'[t].mutex = m /\ req'[t].type = ty
      /\ \A s \in Threads \ {t} : req'[s] = req[s]
  BY <1>1, <1>2, HereShared, ThreadsAreActors DEF SharedState, TypeOK
<1>5. wrappers \in [Threads -> [Mutexes -> [Types -> Nat]]]
  BY DEF SharedState, TypeOK
<1>6. /\ \A k \in Mutexes, u \in Types :
           wrappers'[t][k][u] = wrappers[t][k][u] - IF k = m /\ u = ty THEN 1 ELSE 0
      /\ \A s \in Threads \ {t} : wrappers'[s] = wrappers[s]
  BY <1>2, <1>5
<1>7. \A k \in Mutexes : Open(t, k)' = Open(t, k) - IF k = m THEN 1 ELSE 0
  BY <1>2, <1>5, <1>6 DEF Open, Types
<1>8. Moves(t)
  <2>1. Alone(t) /\ KeepsLocks /\ FewerReferences(t)
    BY <1>1, <1>3, <1>4, <1>6, ThreadsAreActors DEF Alone, KeepsLocks, FewerReferences
  <2> QED
    BY <1>1, <1>4, <2>1 DEF Moves, Acquiring
<1>9. SharedCall(t)'
  BY <1>1, <1>3, <1>4
     DEF SharedCall, CallPlace, CallAsked, Missed, Asks, Joining, AccessPcs, ReleasePcs, Looking,
         Waiting, Acquiring, Granted, Closing
<1>10. \A k \in Mutexes : Claims(t, k)' = Claims(t, k) /\ Claims(t, k) \in Nat
  BY <1>1, <1>4, <1>7, HereShared DEF Claims, At, Granted
<1> QED
  BY <1>1, <1>4, <1>8, <1>9, <1>10, MovesKeep DEF Releases, Joining, Acquiring, Closing

\* The claim is lost, the lockCount is not: AtMostClaims leaves such clients out
LEMMA OverwriteShared ==
  ASSUME SharedState, NEW t \in Threads, Overwrite(t)
  PROVE  SharedInv'
<1>1. /\ pc[t] = "idle" /\ "overwrite" \in Features
      /\ \E m \in Mutexes, ty \in Types : wrappers' = [wrappers EXCEPT ![t][m][ty] = @ - 1]
      /\ UNCHANGED <<registry, lock, held, dataLock, pc, req, mdata, wdata, rdata>>
  BY DEF Overwrite, trackerVars
<1>2. \A s \in Threads \ {t} : wrappers'[s] = wrappers[s]
  BY <1>1 DEF SharedState, TypeOK
<1>3. Moves(t)
  <2>1. Alone(t) /\ KeepsLocks /\ FewerReferences(t)
    BY <1>1, <1>2, HereShared DEF Alone, KeepsLocks, FewerReferences
  <2> QED
    BY <1>1, <2>1 DEF Moves, Acquiring
<1>4. SharedCall(t)'
  BY <1>1, HereShared DEF SharedCall, CallPlace, CallAsked, Missed, Asks, Target
<1> QED
  BY <1>1, <1>3, <1>4, MovesKeep DEF Releases, Joining, Acquiring, Closing

-----------------------------------------------------------------------------
(* AcquireLock and RemoveOwnership *)

\* Inside CreateGuard nothing changes but the guard and m_classMutex
LEMMA GuardStepShared ==
  ASSUME SharedState, NEW t \in Threads, pc[t] \in {"guard", "lock"},
         NEW l \in {"lock", "own"}, l # pc[t], pc' = [pc EXCEPT ![t] = l],
         NEW k \in LockObjects, lock' = [lock EXCEPT ![Target(t)] = k],
         k.mutex = lock[Target(t)].mutex, k.type = lock[Target(t)].type,
         k.owners = lock[Target(t)].owners,
         k.guard \/ k.class # NoThread,
         k.class = IF l = "lock" THEN t ELSE NoThread,
         lock[Target(t)].class = IF pc[t] = "lock" THEN t ELSE NoThread,
         UNCHANGED <<registry, held, dataLock, req, mdata, wdata, rdata, wrappers>>
  PROVE  SharedInv'
<1> DEFINE T == Target(t)
<1>1. SharedCall(t) /\ t \in Actors /\ t # NoThread /\ T \in LockIds
  BY HereShared, TargetExists DEF Joining, Acquiring
<1> HIDE DEF T
<1>2. /\ lock'[T] = k /\ \A o \in LockIds \ {T} : lock'[o] = lock[o]
      /\ pc'[t] = l /\ \A s \in Threads \ {t} : pc'[s] = pc[s]
      /\ \A s \in Threads : Target(s)' = Target(s)
      /\ T = Target(t)
  BY <1>1, HereShared, ThreadsAreActors DEF Target, T
<1>3. \A o \in LockIds : /\ lock'[o].mutex = lock[o].mutex /\ lock'[o].type = lock[o].type
                         /\ lock'[o].owners = lock[o].owners
  BY <1>2
<1>4. Alone(t)
  BY <1>1, HereShared, ThreadsAreActors DEF Alone
<1>5. ASSUME NEW s \in Threads \ {t} PROVE SharedCall(s)'
  <2>1. registry[req[s].mutex] \in LockRefs
    BY HereShared
  <2> QED
    BY <1>3, <1>4, <2>1, OthersStay DEF LockRefs
<1>6. SharedCall(t)'
  <2>1. CallPlace(t)'
    BY <1>1, <1>2
       DEF SharedCall, CallPlace, AccessPcs, ReleasePcs, Looking, Waiting, Acquiring, Granted,
           Closing
  <2>2. CallAsked(t)'
    BY <1>1, <1>2, <1>3 DEF SharedCall, CallAsked, Asks, Joining, Acquiring, AccessPcs
  <2>3. Missed(t)'
    BY <1>2 DEF Missed
  <2> QED
    BY <2>1, <2>2, <2>3 DEF SharedCall
<1>7. ObjectInv'
  <2>1. Private'
    BY <1>2 DEF SharedState, SharedInv, ObjectInv, Private
  <2>2. GuardUp'
    <3> SUFFICES ASSUME NEW o \in LockIds, o \in Referenced, o # T
                 PROVE  \/ lock'[o].guard
                        \/ lock'[o].class # NoThread
                        \/ \E s \in Threads : dataLock' = s /\ pc'[s] = "guard" /\ Target(s)' = o
      BY <1>2 DEF GuardUp, Referenced
    <3> QED
      BY <1>2 DEF SharedState, SharedInv, ObjectInv, GuardUp
  <2>3. ClassHeld'
    <3> SUFFICES ASSUME NEW o \in LockIds, NEW s \in Threads
                 PROVE  lock'[o].class = s <=> pc'[s] = "lock" /\ Target(s) = o
      BY <1>2 DEF ClassHeld
    <3>1. lock[o].class = s <=> pc[s] = "lock" /\ Target(s) = o
      BY DEF SharedState, SharedInv, ObjectInv, ClassHeld
    <3>2. CASE s = t
      BY <1>1, <1>2, <3>1, <3>2, LockTypesAssumption
    <3>3. CASE s # t
      BY <1>1, <1>2, <3>1, <3>3, LockTypesAssumption
    <3> QED
      BY <3>2, <3>3
  <2> QED
    BY <2>1, <2>2, <2>3 DEF ObjectInv
<1>8. \A s \in Threads, o \in LockIds :
        /\ Claimant(s, o)' <=> Claimant(s, o)
        /\ Releases(s, o)' <=> Releases(s, o)
  BY <1>2, <1>3 DEF Claimant, Joins, Joining, Acquiring, Releases, Closing, IsOwner
<1>9. OneClaimant'
  BY <1>3, <1>8 DEF SharedState, SharedInv, OneClaimant
<1>10. SomeHolder'
  BY <1>8, HereShared DEF SharedState, SharedInv, SomeHolder, LockRefs
<1>11. AtMostClaims'
  <2>1. \A s \in Threads, m \in Mutexes : Claims(s, m)' = Claims(s, m)
    BY <1>2 DEF Claims, At, Granted, Open
  <2>2. \A m \in Mutexes : registry[m] # NoLock => registry[m] \in LockIds
    BY HereShared DEF LockRefs
  <2> QED
    BY <1>3, <2>1, <2>2 DEF SharedState, SharedInv, AtMostClaims
<1> QED
  BY <1>5, <1>6, <1>7, <1>9, <1>10, <1>11 DEF SharedInv

LEMMA AcquireLockShared ==
  ASSUME SharedState, NEW t \in Threads, AcquireLock(t), UNCHANGED wrappers
  PROVE  SharedInv'
<1> DEFINE k == EnterCreateGuard(lock[Target(t)], t)
<1>1. /\ pc[t] = "guard"
      /\ UNCHANGED <<registry, held, dataLock, req, mdata, wdata, rdata, wrappers>>
  BY DEF AcquireLock
<1>2. ~IgnoresRequest(lock[Target(t)], req[t].type) /\ lock[Target(t)] \in LockObjects
  BY <1>1, TargetExists, HereShared DEF IgnoresRequest, Joining, Acquiring, SharedCall, CallAsked
<1>3. /\ ClassFree(Target(t))
      /\ lock' = [lock EXCEPT ![Target(t)] = k]
      /\ pc' = [pc EXCEPT ![t] = "lock"]
  BY <1>2 DEF AcquireLock, Goto
<1>4. /\ k.mutex = lock[Target(t)].mutex /\ k.type = lock[Target(t)].type
      /\ k.owners = lock[Target(t)].owners /\ k.class = t
  BY <1>2 DEF EnterCreateGuard, LockObjects
<1>5. k \in LockObjects /\ t # NoThread
  BY <1>2, GuardOperations, HereShared
<1> QED
  BY <1>1, <1>3, <1>4, <1>5, GuardStepShared DEF ClassFree

LEMMA LockGrantedShared ==
  ASSUME SharedState, NEW t \in Threads, LockGranted(t), UNCHANGED wrappers
  PROVE  SharedInv'
<1> DEFINE k == LeaveCreateGuard(lock[Target(t)])
<1>1. /\ pc[t] = "lock"
      /\ lock' = [lock EXCEPT ![Target(t)] = k]
      /\ pc' = [pc EXCEPT ![t] = "own"]
      /\ UNCHANGED <<registry, held, dataLock, req, mdata, wdata, rdata, wrappers>>
  BY DEF LockGranted, Goto
<1>2. lock[Target(t)] \in LockObjects /\ lock[Target(t)].class = t
  BY <1>1, TargetExists, HereShared
     DEF Joining, Acquiring, SharedState, SharedInv, ObjectInv, ClassHeld
<1>3. /\ k.mutex = lock[Target(t)].mutex /\ k.type = lock[Target(t)].type
      /\ k.owners = lock[Target(t)].owners /\ k.guard /\ k.class = NoThread
  BY <1>2 DEF LeaveCreateGuard, LockObjects
<1>4. k \in LockObjects
  BY <1>2, GuardOperations
<1> QED
  BY <1>1, <1>2, <1>3, <1>4, GuardStepShared

\* A step of t that changes its lockCount in T and nothing else in any lock
LEMMA CountStepShared ==
  ASSUME SharedState, NEW t \in Threads, pc[t] \in {"own", "disown"}, Alone(t),
         NEW T \in LockIds, T \in Referenced, pc[t] = "own" => T = Target(t),
         NEW k \in LockObjects, lock' = [lock EXCEPT ![T] = k],
         k.mutex = lock[T].mutex, k.type = lock[T].type,
         k.guard = lock[T].guard, k.class = lock[T].class,
         \A s \in Threads \ {t} : k.owners[s] = lock[T].owners[s],
         UNCHANGED <<registry, held, req, mdata, wdata, rdata, wrappers>>,
         dataLock' # t, \A s \in Threads \ {t} : dataLock' = s <=> dataLock = s,
         pc'[t] \in Granted \cup {"should"}, SharedCall(t)',
         IsOwner(k, t) => Claimant(t, T),
         Claimant(t, T) => IsOwner(k, t) \/ Releases(t, T)',
         \A m \in Mutexes : "overwrite" \notin Features /\ registry[m] # NoLock =>
           lock'[registry[m]].owners[t] <= Claims(t, m)'
  PROVE  SharedInv'
<1>1. /\ lock'[T] = k /\ \A o \in LockIds \ {T} : lock'[o] = lock[o]
      /\ \A o \in LockIds :
           /\ lock'[o].mutex = lock[o].mutex /\ lock'[o].type = lock[o].type
           /\ lock'[o].guard = lock[o].guard /\ lock'[o].class = lock[o].class
           /\ \A s \in Threads \ {t} : lock'[o].owners[s] = lock[o].owners[s]
  BY HereShared
<1>2. ObjectInv'
  <2>1. FewerReferences(t)
    BY DEF FewerReferences
  <2> QED
    BY <1>1, <2>1, ObjectsStay DEF Granted
<1>3. ASSUME NEW s \in Threads \ {t} PROVE SharedCall(s)'
  <2>1. registry[req[s].mutex] \in LockRefs
    BY HereShared
  <2> QED
    BY <1>1, <2>1, OthersStay DEF LockRefs
<1>4. \A s \in Threads \ {t}, o \in LockIds :
        /\ Claimant(s, o)' <=> Claimant(s, o)
        /\ Releases(s, o)' <=> Releases(s, o)
  BY <1>1, OthersClaims DEF Claimant, IsOwner
<1>5. \A o \in LockIds : ~Joins(t, o)' /\ (o # T => ~Joins(t, o)) /\ ~Releases(t, o)
  BY DEF Joins, Joining, Acquiring, Granted, Releases, Closing
<1>6. \A o \in LockIds \ {T} : Claimant(t, o)' <=> Claimant(t, o)
  BY <1>1, <1>5 DEF Claimant
<1>7. Claimant(t, T)' <=> IsOwner(k, t)
  BY <1>1, <1>5 DEF Claimant
<1>8. OneClaimant'
  BY <1>1, <1>4, <1>6, <1>7 DEF SharedState, SharedInv, OneClaimant
<1>9. SomeHolder'
  <2> SUFFICES ASSUME NEW m \in Mutexes, NEW o \in LockIds, o = registry[m]
               PROVE  \E s \in Threads : (Claimant(s, o) \/ Releases(s, o))'
    BY HereShared DEF SomeHolder, LockRefs
  <2>1. PICK s \in Threads : Claimant(s, o) \/ Releases(s, o)
    BY HereShared DEF SharedState, SharedInv, SomeHolder
  <2>2. CASE s # t
    BY <1>4, <2>1, <2>2
  <2>3. CASE s = t
    <3>1. Claimant(t, o)
      BY <1>5, <2>1, <2>3
    <3>2. Claimant(t, o)' \/ Releases(t, o)'
      BY <1>6, <1>7, <3>1
    <3> QED
      BY <3>2
  <2> QED
    BY <2>2, <2>3
<1>10. AtMostClaims'
  <2> SUFFICES ASSUME "overwrite" \notin Features, NEW s \in Threads, NEW m \in Mutexes,
                      registry[m] # NoLock
               PROVE  lock'[registry[m]].owners[s] <= Claims(s, m)'
    BY DEF AtMostClaims
  <2>1. CASE s = t
    BY <2>1
  <2>2. CASE s # t
    <3>1. Claims(s, m)' = Claims(s, m)
      BY <2>2, OthersClaims
    <3>2. lock'[registry[m]].owners[s] = lock[registry[m]].owners[s]
      BY <1>1, <2>2, HereShared DEF LockRefs
    <3> QED
      BY <3>1, <3>2 DEF SharedState, SharedInv, AtMostClaims
  <2> QED
    BY <2>1, <2>2
<1> QED
  BY <1>2, <1>3, <1>8, <1>9, <1>10 DEF SharedInv

\* A registered lock of the mutex is the one registered for it
LEMMA RegisteredForMutex ==
  ASSUME SharedState, NEW m \in Mutexes, NEW o \in LockIds, registry[m] = o
  PROVE  lock[o].mutex = m
BY HereShared, TrackerAssumption DEF SharedState, OwnedInv, Placed

LEMMA OwnLockShared ==
  ASSUME SharedState, NEW t \in Threads, OwnLock(t), UNCHANGED wrappers
  PROVE  SharedInv'
<1> DEFINE T == Target(t)
           k == CountOwnership(lock[T], t)
<1>1. /\ pc[t] = "own"
      /\ lock' = [lock EXCEPT ![T] = k]
      /\ dataLock' = IF dataLock = t THEN NoThread ELSE dataLock
      /\ pc' = [pc EXCEPT ![t] = IF req[t].type = "Write" THEN "reset" ELSE "success"]
      /\ UNCHANGED <<registry, held, req, mdata, wdata, rdata, wrappers>>
  BY DEF OwnLock, Goto
<1>2. /\ T \in LockIds /\ T \in Referenced /\ lock[T].mutex = req[t].mutex
      /\ lock[T] \in LockObjects /\ SharedCall(t) /\ t # NoThread /\ req[t].mutex \in Mutexes
  BY <1>1, TargetExists, HereShared DEF Joining, Acquiring
<1> HIDE DEF T
<1>3. /\ k \in LockObjects /\ k.mutex = lock[T].mutex /\ k.type = lock[T].type
      /\ k.guard = lock[T].guard /\ k.class = lock[T].class
      /\ k.owners[t] = lock[T].owners[t] + 1
      /\ \A s \in Threads \ {t} : k.owners[s] = lock[T].owners[s]
  BY <1>2, OwnershipOperations DEF CountOwnership, LockObjects
<1>4. /\ lock[T].owners[t] \in Nat
      /\ lock'[T] = k /\ \A o \in LockIds \ {T} : lock'[o] = lock[o]
  BY <1>1, <1>2, HereShared DEF LockObjects
<1> HIDE DEF k
<1>5. /\ pc'[t] = IF req[t].type = "Write" THEN "reset" ELSE "success"
      /\ dataLock' # t /\ \A s \in Threads \ {t} : dataLock' = s <=> dataLock = s
  BY <1>1, <1>2, HereShared, LockTypesAssumption
<1>6. Alone(t)
  BY <1>1, HereShared, ThreadsAreActors DEF Alone
<1>7. SharedCall(t)'
  BY <1>1, <1>2, <1>5
     DEF SharedCall, CallPlace, CallAsked, Missed, Asks, Joining, AccessPcs, ReleasePcs, Looking,
         Waiting, Acquiring, Granted, Closing
<1>8. Claimant(t, T) /\ IsOwner(k, t)
  BY <1>1, <1>3, <1>4 DEF Claimant, Joins, Joining, Acquiring, IsOwner, T
<1>9. ASSUME NEW m \in Mutexes, "overwrite" \notin Features, registry[m] # NoLock
      PROVE  lock'[registry[m]].owners[t] <= Claims(t, m)'
  <2>1. /\ registry[m] \in LockIds /\ lock[registry[m]].owners[t] <= Claims(t, m)
        /\ Claims(t, m) \in Nat /\ lock[registry[m]].owners[t] \in Nat
    BY <1>9, HereShared DEF SharedState, SharedInv, AtMostClaims, LockRefs, LockObjects
  <2>2. Claims(t, m)' = Claims(t, m) + IF m = req[t].mutex THEN 1 ELSE 0
    BY <1>1, <1>5, HereShared DEF Claims, At, Granted, Open
  <2>3. CASE registry[m] = T
    <3>1. m = req[t].mutex
      BY <1>2, <2>3, RegisteredForMutex
    <3> QED
      BY <1>3, <1>4, <2>1, <2>2, <2>3, <3>1
  <2>4. CASE registry[m] # T
    BY <1>4, <2>1, <2>2, <2>4
  <2> QED
    BY <2>3, <2>4
<1> QED
  BY <1>1, <1>2, <1>3, <1>5, <1>6, <1>7, <1>8, <1>9, CountStepShared DEF Granted, T

\* The owner goes on to look whether the lock can go
LEMMA DisownLockShared ==
  ASSUME SharedState, NEW t \in Threads, DisownLock(t), UNCHANGED wrappers
  PROVE  SharedInv'
<1>0. SharedCall(t) /\ pc[t] = "disown" /\ rdata[t] # NoLock
  BY HereShared DEF DisownLock, SharedCall, CallPlace, Closing
<1> PICK T \in LockIds : T = rdata[t]
  BY <1>0, HereShared DEF LockRefs
<1> DEFINE k == RemoveOwnership(lock[T], t)
<1>1. /\ pc[t] = "disown"
      /\ lock' = [lock EXCEPT ![T] = k]
      /\ pc' = [pc EXCEPT ![t] = "should"]
      /\ UNCHANGED <<registry, held, dataLock, req, mdata, wdata, rdata, wrappers>>
  BY DEF DisownLock, Goto
<1>2. /\ T \in LockIds /\ T \in Referenced /\ lock[T].mutex = req[t].mutex
      /\ lock[T] \in LockObjects /\ SharedCall(t) /\ req[t].mutex \in Mutexes /\ dataLock # t
  BY <1>1, HereShared DEF SharedCall, CallPlace, Closing, Acquiring, LockRefs, Referenced
<1>3. /\ k \in LockObjects /\ k.mutex = lock[T].mutex /\ k.type = lock[T].type
      /\ k.guard = lock[T].guard /\ k.class = lock[T].class
      /\ k.owners[t] = IF lock[T].owners[t] > 0 THEN lock[T].owners[t] - 1 ELSE 0
      /\ \A s \in Threads \ {t} : k.owners[s] = lock[T].owners[s]
  BY <1>2, OwnershipOperations DEF RemoveOwnership, LockObjects
<1>4. /\ lock[T].owners[t] \in Nat
      /\ lock'[T] = k /\ \A o \in LockIds \ {T} : lock'[o] = lock[o]
  BY <1>1, <1>2, HereShared DEF LockObjects
<1> HIDE DEF k
<1>5. pc'[t] = "should"
  BY <1>1, HereShared
<1>6. Alone(t)
  BY <1>1, HereShared, ThreadsAreActors DEF Alone
<1>7. SharedCall(t)'
  <2>1. rdata'[t] = T /\ lock'[rdata'[t]].mutex = req'[t].mutex
    BY <1>1, <1>2, <1>3, <1>4
  <2> QED
    BY <1>1, <1>2, <1>5, <2>1
       DEF SharedCall, CallPlace, CallAsked, Missed, Asks, Joining, AccessPcs, ReleasePcs,
           Looking, Waiting, Acquiring, Granted, Closing
<1>8. Releases(t, T)' /\ (IsOwner(k, t) => Claimant(t, T))
  BY <1>1, <1>3, <1>4, <1>5 DEF Releases, Closing, Claimant, IsOwner
<1>9. ASSUME NEW m \in Mutexes, "overwrite" \notin Features, registry[m] # NoLock
      PROVE  lock'[registry[m]].owners[t] <= Claims(t, m)'
  <2>1. /\ registry[m] \in LockIds /\ lock[registry[m]].owners[t] <= Claims(t, m)
        /\ Claims(t, m) \in Nat /\ lock[registry[m]].owners[t] \in Nat /\ Open(t, m) \in Nat
    BY <1>9, HereShared DEF SharedState, SharedInv, AtMostClaims, LockRefs, LockObjects
  <2>2. /\ Claims(t, m)' = Open(t, m)
        /\ Claims(t, m) = Open(t, m) + IF m = req[t].mutex THEN 1 ELSE 0
    BY <1>1, <1>5, <2>1 DEF Claims, At, Granted, Open
  <2>3. CASE registry[m] = T
    <3>1. m = req[t].mutex
      BY <1>2, <2>3, RegisteredForMutex
    <3> QED
      BY <1>3, <1>4, <2>1, <2>2, <2>3, <3>1
  <2>4. CASE registry[m] # T /\ m = req[t].mutex
    <3>1. lock[registry[m]].owners[t] = 0
      BY <1>1, <1>2, <1>9, <2>1, <2>4 DEF SharedCall, Missed, IsOwner
    <3> QED
      BY <1>4, <2>1, <2>2, <2>4, <3>1
  <2>5. CASE registry[m] # T /\ m # req[t].mutex
    BY <1>4, <2>1, <2>2, <2>5
  <2> QED
    BY <2>3, <2>4, <2>5
<1> QED
  BY <1>1, <1>2, <1>3, <1>5, <1>6, <1>7, <1>8, <1>9, CountStepShared

-----------------------------------------------------------------------------
(* RegisterMutex, and RemoveFromMutexes, which erases whatever is there    *)

LEMMA RegisterMutexShared ==
  ASSUME SharedState, NEW t \in Threads, RegisterMutex(t), UNCHANGED wrappers
  PROVE  SharedInv'
<1> DEFINE m == req[t].mutex
<1> PICK F \in LockIds : F = FreshLock
  BY DEF RegisterMutex
<1>1. /\ pc[t] = "register" /\ dataLock = NoThread /\ registry[m] = NoLock
      /\ F \in LockIds /\ F \notin Referenced
      /\ registry' = [registry EXCEPT ![m] = F]
      /\ lock' = [lock EXCEPT ![F] = NewLock(m, req[t].type)]
      /\ held' = [held EXCEPT ![t] = @ \cup {m}]
      /\ dataLock' = t
      /\ pc' = [pc EXCEPT ![t] = "guard"]
      /\ UNCHANGED <<req, mdata, wdata, rdata, wrappers>>
  BY DEF RegisterMutex, Goto
<1>2. /\ SharedCall(t) /\ t \in Actors /\ t # NoThread /\ m \in Mutexes /\ F # NoLock
      /\ req[t].type \in Types /\ Asks(t, m, req[t].type)
  BY <1>1, HereShared DEF SharedCall, CallAsked, AccessPcs
<1>3. /\ registry'[m] = F /\ \A k \in Mutexes \ {m} : registry'[k] = registry[k]
      /\ lock'[F] = NewLock(m, req[t].type) /\ \A o \in LockIds \ {F} : lock'[o] = lock[o]
      /\ pc'[t] = "guard" /\ held'[t] = held[t] \cup {m}
      /\ registry \in [Mutexes -> LockRefs]
  BY <1>1, <1>2, HereShared
<1>4. /\ lock'[F].type = req[t].type /\ \A s \in Threads : lock'[F].owners[s] = 0
      /\ lock'[F].class = NoThread
  BY <1>3 DEF NewLock
<1>5. Alone(t)
  BY <1>1, <1>2, HereShared, ThreadsAreActors DEF Alone
<1>6. /\ \A k \in Mutexes : registry[k] # F
      /\ \A a \in Actors : F \notin {mdata[a], wdata[a], rdata[a]}
  BY <1>1 DEF Referenced
<1>7. \A s \in Threads : dataLock # s
  BY <1>1, LockTypesAssumption
<1>8. \A k \in Mutexes \ {m} : registry'[k] # NoLock =>
        registry[k] \in LockIds /\ registry'[k] = registry[k] /\ lock'[registry[k]] = lock[registry[k]]
  BY <1>3, <1>6 DEF LockRefs
<1>9. ASSUME NEW s \in Threads \ {t} PROVE SharedCall(s)'
  <2>1. \A o \in LockIds : o \in {mdata[s], rdata[s]} => lock'[o] = lock[o]
    BY <1>3, <1>6, ThreadsAreActors
  <2>2. req[s].mutex \in Mutexes
    BY HereShared
  <2>3. LET o == registry'[req[s].mutex] IN
          \/ o = NoLock
          \/ o = registry[req[s].mutex] /\ lock'[o].owners[s] = lock[o].owners[s]
          \/ lock'[o].owners[s] = 0
    BY <1>3, <1>4, <1>8, <2>2
  <2> QED
    BY <1>1, <1>5, <1>7, <2>1, <2>3, OthersStay
<1>10. SharedCall(t)'
  <2>1. CallPlace(t)'
    BY <1>1, <1>2, <1>3
       DEF CallPlace, AccessPcs, ReleasePcs, Looking, Waiting, Acquiring, Granted, Closing
  <2>2. Target(t)' = F
    BY <1>1, <1>3 DEF Target
  <2>3. CallAsked(t)'
    BY <1>1, <1>2, <1>3, <1>4, <2>2 DEF SharedCall, CallAsked, Asks
  <2>4. Missed(t)'
    BY <1>3 DEF Missed
  <2> QED
    BY <2>1, <2>3, <2>4 DEF SharedCall
<1>11. \A s \in Threads \ {t} :
         /\ \A o \in LockIds : Joins(s, o)' <=> Joins(s, o)
         /\ \A o \in LockIds : Releases(s, o)' <=> Releases(s, o)
         /\ \A k \in Mutexes : Claims(s, k)' = Claims(s, k)
  BY <1>1, <1>5, <1>7, OthersClaims
<1>12. \A o \in LockIds : /\ Joins(t, o)' <=> o = F
                          /\ ~Joins(t, o) /\ ~Releases(t, o)
  BY <1>1, <1>3 DEF Joins, Joining, Acquiring, Releases, Closing, Target
<1>13. \A s \in Threads, o \in LockIds \ {F} : Claimant(s, o)' <=> Claimant(s, o)
  BY <1>3, <1>11, <1>12 DEF Claimant
<1>14. \A s \in Threads : Claimant(s, F)' <=> s = t
  <2>1. \A s \in Threads : ~Joins(s, F)
    BY <1>6, <1>7, ThreadsAreActors DEF Joins, Target
  <2> QED
    BY <1>1, <1>4, <1>11, <1>12, <2>1 DEF Claimant, IsOwner
<1>15. ObjectInv'
  <2>1. Target(t)' = F
    BY <1>1, <1>3 DEF Target
  <2>2. GuardUp'
    <3> SUFFICES ASSUME NEW o \in LockIds, o \in Referenced', o # F
                 PROVE  lock'[o].guard \/ lock'[o].class # NoThread
      BY <1>1, <1>3, <2>1 DEF GuardUp
    <3>1. o \in Referenced
      BY <1>1, <1>2, <1>3 DEF Referenced
    <3> QED
      BY <1>3, <1>7, <3>1 DEF SharedState, SharedInv, ObjectInv, GuardUp
  <2>3. ClassHeld'
    <3> SUFFICES ASSUME NEW o \in LockIds, NEW s \in Threads
                 PROVE  lock'[o].class = s <=> pc'[s] = "lock" /\ Target(s)' = o
      BY DEF ClassHeld
    <3>1. pc'[s] = "lock" <=> pc[s] = "lock"
      BY <1>1, <1>3, <1>5, ThreadsAreActors DEF Alone
    <3>2. pc[s] = "lock" => Target(s) = mdata[s] /\ Target(s)' = mdata[s]
      BY <1>1, <1>7 DEF Target
    <3>3. CASE o = F
      BY <1>4, <1>6, <3>1, <3>2, <3>3, ThreadsAreActors, LockTypesAssumption
    <3>4. CASE o # F
      BY <1>3, <3>1, <3>2, <3>4 DEF SharedState, SharedInv, ObjectInv, ClassHeld
    <3> QED
      BY <3>3, <3>4
  <2>4. Private'
    BY <1>1, <1>6, <2>1 DEF Private
  <2> QED
    BY <2>2, <2>3, <2>4 DEF ObjectInv
<1>16. OneClaimant'
  BY <1>3, <1>13, <1>14 DEF SharedState, SharedInv, OneClaimant
<1>17. SomeHolder'
  <2> SUFFICES ASSUME NEW k \in Mutexes, NEW o \in LockIds, o = registry'[k]
               PROVE  \E s \in Threads : (Claimant(s, o) \/ Releases(s, o))'
    BY <1>1, <1>3, <1>8 DEF SomeHolder
  <2>1. CASE o = F
    BY <1>14, <2>1
  <2>2. CASE o # F
    <3>1. k # m /\ registry[k] = o /\ registry[k] # NoLock
      BY <1>3, <2>2, TrackerAssumption
    <3>2. PICK s \in Threads : Claimant(s, o) \/ Releases(s, o)
      BY <3>1 DEF SharedState, SharedInv, SomeHolder
    <3>3. Claimant(s, o)' \/ Releases(s, o)'
      BY <1>11, <1>12, <1>13, <2>2, <3>2
    <3> QED
      BY <3>3
  <2> QED
    BY <2>1, <2>2
<1>18. AtMostClaims'
  <2> SUFFICES ASSUME "overwrite" \notin Features, NEW s \in Threads, NEW k \in Mutexes,
                      registry'[k] # NoLock
               PROVE  lock'[registry'[k]].owners[s] <= Claims(s, k)'
    BY DEF AtMostClaims
  <2>1. Claims(s, k)' = Claims(s, k) /\ Claims(s, k) \in Nat
    <3>1. Claims(t, k)' = Claims(t, k)
      BY <1>1, <1>3 DEF Claims, At, Granted, Open
    <3> QED
      BY <1>11, <3>1, HereShared
  <2>2. CASE k = m
    BY <1>3, <1>4, <2>1, <2>2
  <2>3. CASE k # m
    BY <1>8, <2>1, <2>3, TrackerAssumption DEF SharedState, SharedInv, AtMostClaims
  <2> QED
    BY <2>2, <2>3
<1> QED
  BY <1>9, <1>10, <1>15, <1>16, <1>17, <1>18 DEF SharedInv

\* Whoever gave up the lock of another mutex is not the one that unregisters
LEMMA RemoveFromMutexesShared ==
  ASSUME SharedState, NEW t \in Threads, RemoveFromMutexes(t), UNCHANGED wrappers
  PROVE  SharedInv'
<1> DEFINE m == req[t].mutex
<1>1. /\ pc[t] = "unregister" /\ dataLock = NoThread
      /\ registry' = [registry EXCEPT ![m] = NoLock]
      /\ pc' = [pc EXCEPT ![t] = "dropHeld"]
      /\ UNCHANGED <<held, dataLock, req, mdata, wdata, rdata, wrappers>>
      /\ DropUnreferenced
  BY DEF RemoveFromMutexes, Goto
<1>2. /\ SharedCall(t) /\ t \in Actors /\ m \in Mutexes
      /\ rdata[t] # NoLock /\ lock[rdata[t]].mutex = m
  BY <1>1, HereShared DEF SharedCall, CallPlace, Closing
<1>3. /\ registry'[m] = NoLock /\ \A k \in Mutexes \ {m} : registry'[k] = registry[k]
      /\ pc'[t] = "dropHeld"
      /\ \A s \in Threads : dataLock # s
  BY <1>1, <1>2, HereShared, LockTypesAssumption
<1>4. Alone(t) /\ FewerReferences(t)
  BY <1>1, HereShared, ThreadsAreActors DEF Alone, FewerReferences
<1>5. /\ \A o \in LockIds : o \in Referenced' => lock'[o] = lock[o]
      /\ \A o \in LockIds : lock'[o] = lock[o] \/ (o \notin Referenced' /\ lock'[o] = Freed)
  BY <1>1 DEF DropUnreferenced
<1>6. \A k \in Mutexes : registry'[k] # NoLock =>
        /\ k # m /\ registry[k] \in LockIds /\ registry'[k] = registry[k]
        /\ lock'[registry[k]] = lock[registry[k]] /\ lock[registry[k]].mutex = k
  <2> SUFFICES ASSUME NEW k \in Mutexes, registry'[k] # NoLock
               PROVE  /\ k # m /\ registry[k] \in LockIds /\ registry'[k] = registry[k]
                      /\ lock'[registry[k]] = lock[registry[k]] /\ lock[registry[k]].mutex = k
    OBVIOUS
  <2>1. k # m /\ registry[k] \in LockIds /\ registry'[k] = registry[k]
    BY <1>3, HereShared DEF LockRefs
  <2>2. registry[k] \in Referenced'
    BY <2>1 DEF Referenced
  <2> QED
    BY <1>5, <2>1, <2>2, RegisteredForMutex
<1>7. ObjectInv'
  BY <1>1, <1>3, <1>4, <1>5, ObjectsStay
<1>8. ASSUME NEW s \in Threads \ {t} PROVE SharedCall(s)'
  <2>1. /\ s \in Actors /\ mdata'[s] = mdata[s] /\ rdata'[s] = rdata[s]
        /\ req[s].mutex \in Mutexes
    BY <1>1, HereShared
  <2>2. \A o \in LockIds : o \in {mdata[s], rdata[s]} => lock'[o] = lock[o]
    BY <1>5, <2>1 DEF Referenced
  <2> QED
    BY <1>1, <1>3, <1>4, <1>6, <2>1, <2>2, OthersStay
<1>9. SharedCall(t)'
  BY <1>1, <1>2, <1>3
     DEF SharedCall, CallPlace, CallAsked, Missed, Asks, Joining, AccessPcs, ReleasePcs, Looking,
         Waiting, Acquiring, Granted, Closing
<1>10. \A s \in Threads \ {t} :
         /\ \A o \in LockIds : Joins(s, o)' <=> Joins(s, o)
         /\ \A o \in LockIds : Releases(s, o)' <=> Releases(s, o)
         /\ \A k \in Mutexes : Claims(s, k)' = Claims(s, k)
  BY <1>1, <1>3, <1>4, OthersClaims
<1>11. \A o \in LockIds : ~Joins(t, o) /\ ~Joins(t, o)'
  BY <1>1, <1>3 DEF Joins, Joining, Acquiring
<1>12. \A s \in Threads, o \in LockIds : lock'[o] = lock[o] => (Claimant(s, o)' <=> Claimant(s, o))
  BY <1>10, <1>11 DEF Claimant
<1>13. OneClaimant'
  <2> SUFFICES ASSUME NEW o \in LockIds, lock'[o].type = "Write", NEW s \in Threads,
                      NEW q \in Threads, Claimant(s, o)', Claimant(q, o)'
               PROVE  s = q
    BY DEF OneClaimant
  <2>1. lock'[o] = lock[o]
    BY <1>5, FreedIsRead
  <2> QED
    BY <1>12, <2>1 DEF SharedState, SharedInv, OneClaimant
<1>14. SomeHolder'
  <2> SUFFICES ASSUME NEW k \in Mutexes, NEW o \in LockIds, o = registry'[k]
               PROVE  \E s \in Threads : (Claimant(s, o) \/ Releases(s, o))'
    BY <1>6 DEF SomeHolder
  <2>1. k # m /\ registry[k] = o /\ registry[k] # NoLock /\ lock'[o] = lock[o] /\ lock[o].mutex = k
    BY <1>6, TrackerAssumption
  <2>2. PICK s \in Threads : Claimant(s, o) \/ Releases(s, o)
    BY <2>1 DEF SharedState, SharedInv, SomeHolder
  <2>3. ~Releases(t, o)
    BY <1>2, <2>1 DEF Releases
  <2>4. Claimant(s, o)' \/ Releases(s, o)'
    BY <1>10, <1>12, <2>1, <2>2, <2>3
  <2> QED
    BY <2>4
<1>15. AtMostClaims'
  <2>1. \A s \in Threads, k \in Mutexes : Claims(s, k)' = Claims(s, k)
    <3>1. \A k \in Mutexes : Claims(t, k)' = Claims(t, k)
      BY <1>1, <1>3 DEF Claims, At, Granted, Open
    <3> QED
      BY <1>10, <3>1
  <2> QED
    BY <1>6, <2>1, TrackerAssumption DEF SharedState, SharedInv, AtMostClaims
<1> QED
  BY <1>7, <1>8, <1>9, <1>13, <1>14, <1>15 DEF SharedInv

-----------------------------------------------------------------------------
(* The invariant *)

LEMMA SharedInvInit == Init => SharedInv
<1> SUFFICES ASSUME Init PROVE SharedInv
  OBVIOUS
<1>1. /\ \A m \in Mutexes : registry[m] = NoLock
      /\ \A o \in LockIds : lock[o] = Freed
      /\ \A t \in Threads : /\ pc[t] = "idle" /\ held[t] = {} /\ dataLock # t
                            /\ mdata[t] = NoLock /\ wdata[t] = NoLock /\ rdata[t] = NoLock
      /\ Referenced \subseteq {NoLock} /\ NoLock \notin LockIds
  BY ThreadsAreActors, LockTypesAssumption, TrackerAssumption DEF Init, TrackerInit, Referenced
<1>2. ASSUME NEW t \in Threads PROVE SharedCall(t)
  BY <1>1
     DEF SharedCall, CallPlace, CallAsked, Missed, Joining, AccessPcs, ReleasePcs, Looking,
         Waiting, Acquiring, Granted, Closing
<1>3. ObjectInv
  BY <1>1, FreedIsFree, LockTypesAssumption DEF ObjectInv, GuardUp, ClassHeld, Private
<1>4. OneClaimant
  BY <1>1, FreedIsRead DEF OneClaimant
<1>5. SomeHolder /\ AtMostClaims
  BY <1>1 DEF SomeHolder, AtMostClaims
<1> QED
  BY <1>2, <1>3, <1>4, <1>5 DEF SharedInv

\* No operation is ever queued, and ReorderAll is never called
LEMMA SharedSteps ==
  ASSUME SharedState, NEW t \in Threads
  PROVE  /\ ~ReorderStep(t) /\ ~RunOperationsOfMutex(t) /\ ~AddOperationStep(t)
         /\ \A w \in Workers : ~TaskStep(w)
<1>1. pc[t] \in {"idle"} \cup AccessPcs \cup ReleasePcs
  BY HereShared DEF SharedCall, CallPlace
<1>2. ~ReorderStep(t) /\ ~RunOperationsOfMutex(t)
  BY <1>1
     DEF AccessPcs, ReleasePcs, Looking, Waiting, Acquiring, Granted, Closing, ReorderStep,
         BeginReorder, ReorderRemoveGuard, ReorderSort, ReorderCreateGuard, ReorderLockGranted,
         EndReorder, RunOperationsOfMutex
<1> QED
  BY <1>2, NoOperationNoTask DEF SharedState

LEMMA SharedInvNext ==
  ASSUME SharedState, [Next]_vars
  PROVE  SharedInv'
<1>1. ASSUME NEW t \in Threads, ClientStep(t) PROVE SharedInv'
  BY <1>1, AccessShared, DestroyShared, OverwriteShared DEF ClientStep
<1>2. ASSUME NEW t \in Threads, WrapperStep(t) PROVE SharedInv'
  BY <1>2, WaitLookShared, WaitConvertShared, WaitTimeoutShared, SucceedShared DEF WrapperStep
<1>3. ASSUME NEW t \in Threads, TryAcquireStep(t), UNCHANGED wrappers PROVE SharedInv'
  BY <1>3, GetLockDataShared, CanAcquireShared, CanConvertShared, RegisterMutexShared,
     RegisterFailsShared, AddToHeldLocksShared, AcquireLockShared, LockGrantedShared,
     OwnLockShared, NeedToResetShared DEF TryAcquireStep
<1>4. ASSUME NEW t \in Threads, ReleaseStep(t), UNCHANGED wrappers PROVE SharedInv'
  BY <1>4, SharedSteps, FindToReleaseShared, DisownLockShared, ShouldRemoveShared,
     GetOperationCountShared DEF ReleaseStep
<1>5. ASSUME NEW t \in Threads, UnregisterStep(t), UNCHANGED wrappers PROVE SharedInv'
  BY <1>5, RemoveFromMutexesShared, RemoveFromHeldLocksShared, ReturnFromReleaseShared
     DEF UnregisterStep
<1>6. ASSUME NEW t \in Threads, TrackerStep(t) PROVE SharedInv'
  BY <1>3, <1>4, <1>5, <1>6, SharedSteps DEF TrackerStep
<1>7. ASSUME NEW w \in Workers, WorkerStep(w) PROVE FALSE
  BY <1>7, NoOperationNoTask DEF WorkerStep, SharedState
<1>8. CASE UNCHANGED vars
  <2>1. UNCHANGED <<registry, lock, held, dataLock, pc, req, mdata, wdata, rdata, wrappers>>
    BY <1>8 DEF vars, trackerVars
  <2>2. \A t \in Threads : SharedCall(t)'
    BY <2>1 DEF SharedState, SharedInv, SharedCall, CallPlace, CallAsked, Missed, Asks, Target
  <2>3. ObjectInv'
    BY <2>1 DEF SharedState, SharedInv, ObjectInv, GuardUp, ClassHeld, Private, Target,
                Referenced
  <2>4. /\ \A t \in Threads, o \in LockIds :
             (Claimant(t, o)' <=> Claimant(t, o)) /\ (Releases(t, o)' <=> Releases(t, o))
        /\ \A t \in Threads, m \in Mutexes : Claims(t, m)' = Claims(t, m)
    BY <2>1 DEF Claimant, Joins, Releases, Target, Claims, At, Open
  <2>5. OneClaimant' /\ SomeHolder' /\ AtMostClaims'
    BY <2>1, <2>4, HereShared
       DEF SharedState, SharedInv, OneClaimant, SomeHolder, AtMostClaims, Claimant, Releases,
           Joins, Target
  <2> QED
    BY <2>2, <2>3, <2>5 DEF SharedInv
<1> QED
  BY <1>1, <1>2, <1>6, <1>7, <1>8 DEF Next

\* Who owns, joins or is releasing a lock object, and the guards, in every state
\* of every run of clients that share, convert and overwrite
THEOREM SharedInvariant ==
  ASSUME Shared
  PROVE  Spec => [](TypeOK /\ OwnedInv /\ SharedInv)
<1>1. "ops" \notin Features
  BY DEF Shared
<1>2. TypeOK /\ TypeOK' /\ OwnedInv /\ OwnedInv' /\ SharedInv /\ [Next]_vars => SharedInv'
  BY SharedInvNext DEF SharedState
<1>3. Spec => []OwnedInv
  BY <1>1, OwnedInvariant
<1> QED
  BY <1>2, <1>3, TypeCorrect, SharedInvInit, PTL DEF Spec

-----------------------------------------------------------------------------
(* What remains for a client that shares *)

\* A CWriteLock never has two owners, with any number of readers and writers of
\* the same data, conversions, late joiners and overwritten wrappers: CanAcquire
\* lets only the owner join, and its guard is up whenever another can look.
THEOREM SharedWriteLocksAreOwnedOnce ==
  ASSUME Shared
  PROVE  Spec => []WriteLockHasOneOwner
<1>1. SharedInv => WriteLockHasOneOwner
  BY DEF SharedInv, OneClaimant, Claimant, WriteLockHasOneOwner, Owners
<1> QED
  BY <1>1, SharedInvariant, PTL

\* With every call returned and every wrapper destroyed no lock is left
\* registered, also where readers share a lock, convert it and time out: the
\* last to give a registered lock up finds it without owners, and erases it.
THEOREM SharedNothingLeaks ==
  ASSUME Shared, "overwrite" \notin Features
  PROVE  Spec => []QuiescentClean
<1>1. TypeOK /\ OwnedInv /\ SharedInv => QuiescentClean
  <2> SUFFICES ASSUME TypeOK, SharedInv, \A a \in Actors : pc[a] = "idle",
                      \A t \in Threads, m \in Mutexes : Open(t, m) = 0,
                      NEW m \in Mutexes, registry[m] # NoLock
               PROVE  FALSE
    BY DEF QuiescentClean
  <2>1. PICK t \in Threads : Claimant(t, registry[m]) \/ Releases(t, registry[m])
    BY DEF SharedInv, SomeHolder
  <2>2. pc[t] = "idle" /\ Claims(t, m) = 0
    BY ThreadsAreActors DEF Claims, At, Granted
  <2>3. IsOwner(lock[registry[m]], t)
    BY <2>1, <2>2 DEF Claimant, Joins, Joining, Acquiring, Releases, Closing
  <2>4. registry[m] \in LockIds /\ lock[registry[m]].owners[t] \in Nat
    BY DEF TypeOK, LockRefs, LockObjects
  <2> QED
    BY <2>2, <2>3, <2>4 DEF SharedInv, AtMostClaims, IsOwner
<1> QED
  BY <1>1, SharedInvariant, PTL

=============================================================================
