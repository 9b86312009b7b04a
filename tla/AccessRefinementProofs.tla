------------------------ MODULE AccessRefinementProofs ------------------------
(***************************************************************************)
(* DataWrapper implements DataAccess in plain use, step by step: the       *)
(* safety part of KeepsPromise, for all threads, mutexes and requests.     *)
(***************************************************************************)
EXTENDS AccessRefinement, PlainUseProofs

\* The kind of the call a thread is in, by its place
Kind(p) == IF p = "idle" THEN "none" ELSE IF p \in AccessPcs THEN "access" ELSE "release"

\* What the client sees of the calls
Seen == [t \in Threads |-> CallOf(t)]

\* In plain use the place alone tells the kind: no release is a conversion's
ByPlace ==
  [t \in Threads |-> [kind |-> Kind(pc[t]), mutex |-> req[t].mutex, type |-> req[t].type]]

LEMMA CallKind == PlainInv => Seen = ByPlace
<1> SUFFICES ASSUME PlainInv, NEW t \in Threads PROVE CallOf(t).kind = Kind(pc[t])
  BY DEF Seen, ByPlace, CallOf
<1>1. CallShape(t)
  BY DEF PlainInv, ThreadInv
<1>2. pc[t] \in ReleasePcs => mdata[t] = NoLock /\ wdata[t] = NoLock
  BY <1>1 DEF CallShape, ReleasePcs, Looking, Waiting, Acquiring, Granted, Closing
<1> QED
  BY <1>1, <1>2
     DEF CallShape, CallOf, Kind, Releasing, AccessPcs, ReleasePcs, Looking, Waiting, Acquiring,
         Granted, Closing

\* A step inside a call: the client sees nothing of it
Inside(t) ==
  /\ UNCHANGED <<req, wrappers>>
  /\ pc' = [pc EXCEPT ![t] = pc'[t]]
  /\ Kind(pc'[t]) = Kind(pc[t])

\* Or its last step, which gives no wrapper
Ends(t) ==
  /\ UNCHANGED <<req, wrappers>>
  /\ pc[t] # "idle"
  /\ pc' = [pc EXCEPT ![t] = "idle"]

LEMMA TryAcquireIsInside ==
  ASSUME PlainState, NEW t \in Threads, TryAcquireStep(t), UNCHANGED wrappers
  PROVE  Inside(t) \/ Ends(t)
<1> USE Here DEF Inside, Ends, Goto, Kind, AccessPcs, Looking, Waiting, Acquiring, Granted
<1>1. CASE GetLockData(t)
  BY <1>1 DEF GetLockData
<1>2. CASE CanAcquire(t)
  BY <1>2 DEF CanAcquire, Cannot
<1>3. CASE CanConvert(t)
  <2>1. /\ pc[t] = "canOwners" /\ ClassFree(mdata[t]) /\ mdata[t] # NoLock
        /\ lock[mdata[t]].type = "Read" /\ req[t].type = "Write"
    BY <1>3 DEF CanConvert, ThreadInv, CallShape, Settled
  <2>2. ~IsOnlyOwner(lock[mdata[t]], t)
    BY <2>1, NoConversion DEF PlainState
  <2> QED
    BY <1>3, <2>2 DEF CanConvert, Cannot
<1>4. CASE RegisterMutex(t)
  BY <1>4 DEF RegisterMutex
<1>5. CASE RegisterFails(t)
  BY <1>5 DEF RegisterFails, PlainState, OwnedInv, NoOperations
<1>6. CASE AddToHeldLocks(t)
  BY <1>6 DEF AddToHeldLocks
<1>7. CASE AcquireLock(t)
  BY <1>7 DEF AcquireLock
<1>8. CASE LockGranted(t)
  BY <1>8 DEF LockGranted
<1>9. CASE OwnLock(t)
  BY <1>9 DEF OwnLock
<1>10. CASE NeedToReset(t)
  <2>1. pc[t] = "reset" /\ pc'[t] \in {"success", "reorder"}
    BY <1>10 DEF NeedToReset
  <2>2. pc'[t] # "reorder"
    <3>1. ThreadInv(t)'
      BY <1>10, NeedToResetKeeps DEF PlainInv
    <3> QED
      BY <3>1 DEF ThreadInv, CallShape, ReleasePcs, Closing
  <2> QED
    BY <1>10, <2>1, <2>2 DEF NeedToReset
<1> QED
  BY <1>1, <1>2, <1>3, <1>4, <1>5, <1>6, <1>7, <1>8, <1>9, <1>10 DEF TryAcquireStep

LEMMA ReleaseIsInside ==
  ASSUME PlainState, NEW t \in Threads, ReleaseStep(t) \/ UnregisterStep(t), UNCHANGED wrappers
  PROVE  Inside(t) \/ Ends(t)
<1> USE Here DEF Inside, Ends, Goto, Kind, AccessPcs, Looking, Waiting, Acquiring, Granted
<1>1. CASE FindToRelease(t) \/ DisownLock(t)
  BY <1>1 DEF FindToRelease, DisownLock
<1>2. CASE ShouldRemoveGuard(t) \/ ShouldRemoveOwners(t)
  BY <1>2 DEF ShouldRemoveGuard, ShouldRemoveOwners
<1>3. CASE GetOperationCount(t)
  BY <1>3 DEF GetOperationCount
<1>4. CASE RemoveFromMutexes(t) \/ RemoveFromHeldLocks(t)
  BY <1>4 DEF RemoveFromMutexes, RemoveFromHeldLocks
<1>5. CASE ReturnFromRelease(t)
  <2>1. mdata[t] = NoLock /\ wdata[t] = NoLock
    BY <1>5 DEF ReturnFromRelease, ThreadInv, CallShape
  <2> QED
    BY <1>5, <2>1 DEF ReturnFromRelease
<1> QED
  BY <1>1, <1>2, <1>3, <1>4, <1>5, PlainSteps DEF ReleaseStep, UnregisterStep

LEMMA WaitIsInside ==
  ASSUME PlainState, NEW t \in Threads, WaitLook(t) \/ WaitConvert(t) \/ WaitTimeout(t)
  PROVE  Inside(t) \/ Ends(t)
<1> USE Here DEF Inside, Ends, Goto, Kind, AccessPcs, Looking, Waiting, Acquiring, Granted
<1>1. CASE WaitLook(t)
  BY <1>1 DEF WaitLook
<1>2. CASE WaitConvert(t)
  <2>1. /\ pc[t] = "waitOwners" /\ ClassFree(wdata[t]) /\ wdata[t] # NoLock
        /\ lock[wdata[t]].type = "Read" /\ req[t].type = "Write"
    BY <1>2 DEF WaitConvert, ThreadInv, CallShape, Settled
  <2>2. ~IsOnlyOwner(lock[wdata[t]], t)
    BY <2>1, NoConversion DEF PlainState
  <2> QED
    BY <1>2, <2>2 DEF WaitConvert
<1>3. CASE WaitTimeout(t)
  BY <1>3 DEF WaitTimeout
<1> QED
  BY <1>1, <1>2, <1>3

-----------------------------------------------------------------------------
(* Every step is one of DataAccess, or nothing *)

PromiseStep == [Promise!Next]_(Promise!vars)

\* A call is over: its kind is gone, the rest of the record is as it was
LEMMA KindSet ==
  ASSUME Seen = ByPlace, NEW t \in Threads
  PROVE  [Seen EXCEPT ![t].kind = "none"]
           = [Seen EXCEPT ![t] =
                [kind |-> "none", mutex |-> req[t].mutex, type |-> req[t].type]]
<1> DEFINE ty == req[t].type
           m == req[t].mutex
           k == Kind(pc[t])
<1>1. Seen[t] = [kind |-> k, mutex |-> m, type |-> ty]
  BY DEF ByPlace
<1> HIDE DEF ty, m, k
<1>2. [[kind |-> k, mutex |-> m, type |-> ty] EXCEPT !.kind = "none"]
        = [kind |-> "none", mutex |-> m, type |-> ty]
  OBVIOUS
<1>3. [Seen[t] EXCEPT !.kind = "none"] = [kind |-> "none", mutex |-> m, type |-> ty]
  BY <1>1, <1>2, Zenon
<1>4. [Seen EXCEPT ![t].kind = "none"] = [Seen EXCEPT ![t] = [Seen[t] EXCEPT !.kind = "none"]]
  OBVIOUS
<1> QED
  BY <1>3, <1>4, Zenon DEF ty, m

\* How a step of t shows in the calls
LEMMA SeenStep ==
  ASSUME PlainState, Seen = ByPlace, Seen' = ByPlace', NEW t \in Threads,
         pc' = [pc EXCEPT ![t] = pc'[t]], req' = [req EXCEPT ![t] = req'[t]]
  PROVE  /\ Seen[t] = [kind |-> Kind(pc[t]), mutex |-> req[t].mutex, type |-> req[t].type]
         /\ Seen' = [Seen EXCEPT ![t] =
              [kind |-> Kind(pc'[t]), mutex |-> req'[t].mutex, type |-> req'[t].type]]
<1>1. \A s \in Threads \ {t} : pc'[s] = pc[s] /\ req'[s] = req[s]
  BY ThreadsAreActors DEF PlainState, TypeOK
<1> QED
  BY <1>1 DEF ByPlace

LEMMA InsideIsNothing ==
  ASSUME PlainState, Seen = ByPlace, Seen' = ByPlace', NEW t \in Threads, Inside(t)
  PROVE  PromiseStep
<1>1. /\ req' = [req EXCEPT ![t] = req'[t]] /\ pc' = [pc EXCEPT ![t] = pc'[t]]
      /\ req'[t] = req[t]
  BY DEF Inside, PlainState, TypeOK
<1>2. /\ Seen[t] = [kind |-> Kind(pc[t]), mutex |-> req[t].mutex, type |-> req[t].type]
      /\ Seen' = [Seen EXCEPT ![t] =
           [kind |-> Kind(pc'[t]), mutex |-> req'[t].mutex, type |-> req'[t].type]]
  BY <1>1, SeenStep
<1>3. Kind(pc'[t]) = Kind(pc[t])
  BY DEF Inside
<1>4. Seen' = [Seen EXCEPT ![t] = Seen[t]]
  BY <1>1, <1>2, <1>3
<1>5. Seen' = Seen
  BY <1>4 DEF Seen
<1> QED
  BY <1>5 DEF Inside, PromiseStep, Promise!vars, Seen

\* A call that ends without a wrapper is an access refused or a release done
LEMMA EndsIsRefuseOrClosed ==
  ASSUME PlainState, Seen = ByPlace, Seen' = ByPlace', NEW t \in Threads, Ends(t)
  PROVE  PromiseStep
<1>1. /\ req' = [req EXCEPT ![t] = req'[t]] /\ pc' = [pc EXCEPT ![t] = pc'[t]]
      /\ req'[t] = req[t] /\ pc'[t] = "idle"
  BY Here DEF Ends, PlainState, TypeOK
<1>2. /\ Seen[t] = [kind |-> Kind(pc[t]), mutex |-> req[t].mutex, type |-> req[t].type]
      /\ Seen' = [Seen EXCEPT ![t] = [kind |-> "none", mutex |-> req[t].mutex, type |-> req[t].type]]
  BY <1>1, SeenStep DEF Kind
<1>3. Seen' = [Seen EXCEPT ![t].kind = "none"]
  <2>1. [Seen EXCEPT ![t].kind = "none"]
          = [Seen EXCEPT ![t] =
               [kind |-> "none", mutex |-> req[t].mutex, type |-> req[t].type]]
    BY KindSet, Zenon
  <2> QED
    BY <1>2, <2>1, Zenon
<1>4. Seen[t].kind \in {"access", "release"}
  BY <1>2 DEF Ends, Kind
<1>5. Promise!Refuse(t) \/ Promise!Closed(t)
  BY <1>3, <1>4 DEF Ends, Promise!Refuse, Promise!Closed, Seen
<1> QED
  BY <1>5 DEF PromiseStep, Promise!Next

LEMMA AccessIsAsk ==
  ASSUME PlainState, Seen = ByPlace, Seen' = ByPlace', NEW t \in Threads, Access(t)
  PROVE  PromiseStep
<1>1. PICK m \in Mutexes, ty \in Types :
        req' = [req EXCEPT ![t] = [mutex |-> m, type |-> ty, op |-> MayQueue(m)]]
  BY DEF Access
<1> DEFINE c == [kind |-> "access", mutex |-> m, type |-> ty]
<1>2. /\ pc[t] = "idle" /\ UNCHANGED wrappers
      /\ pc' = [pc EXCEPT ![t] = pc'[t]] /\ pc'[t] = "get"
      /\ req' = [req EXCEPT ![t] = req'[t]] /\ req'[t].mutex = m /\ req'[t].type = ty
  BY <1>1, Here DEF Access, Goto, PlainState, TypeOK
<1>3. /\ Seen[t] = [kind |-> Kind("idle"), mutex |-> req[t].mutex, type |-> req[t].type]
      /\ Seen' = [Seen EXCEPT ![t] = [kind |-> Kind("get"), mutex |-> m, type |-> ty]]
  BY <1>1, <1>2, SeenStep
<1>4. Seen[t].kind = "none" /\ Seen' = [Seen EXCEPT ![t] = c]
  BY <1>3 DEF Kind, AccessPcs
<1>5. c \in {d \in Promise!Calls : d.kind = "access"}
  BY DEF Promise!Calls, Promise!Types, Types
<1> HIDE DEF c
<1>6. Promise!Ask(t)
  BY <1>2, <1>4, <1>5 DEF Promise!Ask, Seen
<1> QED
  BY <1>6 DEF PromiseStep, Promise!Next

LEMMA DestroyIsClose ==
  ASSUME PlainState, Seen = ByPlace, Seen' = ByPlace', NEW t \in Threads, Destroy(t)
  PROVE  PromiseStep
<1>1. PICK m \in Mutexes, ty \in Types :
        /\ wrappers[t][m][ty] > 0
        /\ wrappers' = [wrappers EXCEPT ![t][m][ty] = @ - 1]
        /\ req' = [req EXCEPT ![t] = [mutex |-> m, type |-> ty, op |-> FALSE]]
  BY DEF Destroy
<1>2. /\ pc[t] = "idle" /\ pc' = [pc EXCEPT ![t] = pc'[t]] /\ pc'[t] = "release"
      /\ req' = [req EXCEPT ![t] = req'[t]] /\ req'[t].mutex = m /\ req'[t].type = ty
  BY <1>1, Here DEF Destroy, Goto, PlainState, TypeOK
<1>3. /\ Seen[t] = [kind |-> Kind("idle"), mutex |-> req[t].mutex, type |-> req[t].type]
      /\ Seen' = [Seen EXCEPT ![t] = [kind |-> Kind("release"), mutex |-> m, type |-> ty]]
  BY <1>1, <1>2, SeenStep
<1>4. /\ Seen[t].kind = "none"
      /\ Seen' = [Seen EXCEPT ![t] = [kind |-> "release", mutex |-> m, type |-> ty]]
  BY <1>3 DEF Kind, AccessPcs, Looking, Waiting, Acquiring, Granted
<1>5. Promise!Close(t, m, ty)
  BY <1>1, <1>4 DEF Promise!Close, Seen
<1>6. m \in Mutexes /\ ty \in Promise!Types
  BY DEF Types, Promise!Types
<1> QED
  BY <1>5, <1>6 DEF PromiseStep, Promise!Next

\* The wrapper excludes and is excluded by nobody: its thread is the resident
LEMMA SucceedIsGrant ==
  ASSUME PlainState, Seen = ByPlace, Seen' = ByPlace', NEW t \in Threads, Succeed(t)
  PROVE  PromiseStep
<1> DEFINE m == req[t].mutex
           ty == req[t].type
<1>1. /\ pc[t] = "success" /\ pc' = [pc EXCEPT ![t] = pc'[t]] /\ pc'[t] = "idle"
      /\ wrappers' = [wrappers EXCEPT ![t][m][ty] = @ + 1]
      /\ req' = [req EXCEPT ![t] = req'[t]] /\ req'[t] = req[t]
  BY Here DEF Succeed, Goto, PlainState, TypeOK
<1>2. /\ Seen[t] = [kind |-> Kind("success"), mutex |-> m, type |-> ty]
      /\ Seen' = [Seen EXCEPT ![t] = [kind |-> Kind("idle"), mutex |-> m, type |-> ty]]
  BY <1>1, SeenStep
<1>3. /\ Seen[t].kind = "access" /\ Seen[t].mutex = m /\ Seen[t].type = ty
      /\ Seen' = [Seen EXCEPT ![t].kind = "none"]
  <2>1. Kind("success") = "access" /\ Kind("idle") = "none"
    BY DEF Kind, AccessPcs, Granted
  <2>2. [Seen EXCEPT ![t].kind = "none"]
          = [Seen EXCEPT ![t] = [kind |-> "none", mutex |-> m, type |-> ty]]
    BY KindSet, Zenon
  <2> HIDE DEF m, ty
  <2>3. Seen[t].kind = "access" /\ Seen[t].mutex = m /\ Seen[t].type = ty
    BY <1>2, <2>1
  <2> QED
    BY <1>2, <2>1, <2>2, <2>3, Zenon
<1>4. ASSUME NEW s \in Threads \ {t} PROVE ~Promise!Excludes(s, t, m, ty)
  <2>1. m \in Mutexes
    BY Here
  <2>2. Resident(t, m)
    BY <1>1, <2>1, Here DEF Resident, Claims, At, Granted
  <2>3. ~Resident(s, m)
    BY <2>1, <2>2 DEF PlainState, PlainInv, ResidentInv, OneResident
  <2>4. /\ wrappers[s][m]["Read"] \in Nat /\ wrappers[s][m]["Write"] \in Nat
        /\ ~(Open(s, m) > 0)
    BY <2>1, <2>3, OpenIsResident DEF PlainState, TypeOK, Types
  <2> QED
    BY <2>4 DEF Promise!Excludes, Open
<1>5. Promise!Grant(t)
  BY <1>1, <1>3, <1>4 DEF Promise!Grant, Seen
<1> QED
  BY <1>5 DEF PromiseStep, Promise!Next

LEMMA StepKeepsPromise ==
  ASSUME PlainState, Seen = ByPlace, Seen' = ByPlace', [Next]_vars
  PROVE  PromiseStep
<1>1. ASSUME NEW t \in Threads, ClientStep(t) PROVE PromiseStep
  BY <1>1, PlainSteps, AccessIsAsk, DestroyIsClose DEF ClientStep
<1>2. ASSUME NEW t \in Threads, WrapperStep(t) PROVE PromiseStep
  BY <1>2, WaitIsInside, SucceedIsGrant, InsideIsNothing, EndsIsRefuseOrClosed DEF WrapperStep
<1>3. ASSUME NEW t \in Threads, TrackerStep(t) PROVE PromiseStep
  BY <1>3, PlainSteps, TryAcquireIsInside, ReleaseIsInside, InsideIsNothing,
     EndsIsRefuseOrClosed DEF TrackerStep
<1>4. ASSUME NEW w \in Workers, WorkerStep(w) PROVE FALSE
  BY <1>4, NoOperationNoTask DEF WorkerStep, PlainState
<1>5. CASE UNCHANGED vars
  <2>1. UNCHANGED <<pc, req, wrappers>>
    BY <1>5 DEF vars, trackerVars
  <2>2. Seen' = Seen
    BY <2>1 DEF ByPlace
  <2> QED
    BY <2>1, <2>2 DEF PromiseStep, Promise!vars, Seen
<1> QED
  BY <1>1, <1>2, <1>3, <1>4, <1>5 DEF Next

LEMMA InitKeepsPromise == Init => Promise!Init
<1> SUFFICES ASSUME Init PROVE Promise!Init
  OBVIOUS
<1>1. wrappers = [t \in Threads |-> [m \in Mutexes |-> [ty \in Promise!Types |-> 0]]]
  BY DEF Init, Types, Promise!Types
<1>2. ASSUME NEW t \in Threads
      PROVE  CallOf(t) \in {c \in Promise!Calls : c.kind = "none"}
  <2>1. pc[t] = "idle" /\ req[t].mutex \in Mutexes /\ req[t].type = "Read"
    BY ThreadsAreActors, LockTypesAssumption DEF Init, TrackerInit
  <2> QED
    BY <2>1 DEF CallOf, Promise!Calls, Promise!Types
<1> QED
  BY <1>1, <1>2 DEF Promise!Init

\* In plain use the tracker and the wrapper keep the promise of DataAccess at
\* every step: a wrapper is granted only where it excludes and is excluded by
\* nobody, it is gone before its release begins, and no step of a wait, a timeout
\* or a stale look shows to a client as anything but that.  (That every call
\* returns is the liveness part of KeepsPromise.)
THEOREM PromiseKeptByEveryStep ==
  ASSUME PlainUse
  PROVE  Spec => Promise!Init /\ [][Promise!Next]_(Promise!vars)
<1> DEFINE Sees == Seen = ByPlace
<1>1. PlainInv => Sees
  BY CallKind
<1>2. TypeOK /\ OwnedInv /\ PlainInv /\ Sees /\ TypeOK' /\ Sees' /\ [Next]_vars
        => [Promise!Next]_(Promise!vars)
  BY StepKeepsPromise DEF PlainState, PromiseStep
<1> HIDE DEF Sees
<1> QED
  BY <1>1, <1>2, InitKeepsPromise, PlainInvariant, PTL DEF Spec

=============================================================================
