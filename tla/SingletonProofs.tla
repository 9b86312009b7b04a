---------------------------- MODULE SingletonProofs ----------------------------
(***************************************************************************)
(* getInstance creates at most one object, for every set of threads.       *)
(***************************************************************************)
EXTENDS Singleton, TLAPS

Critical == {"new", "create", "construct", "store", "unlock", "delete", "nested"}

(***************************************************************************)
(* OneInstance is not inductive.  Who is past the lock has the mutex; an   *)
(* object that is not yet stored has its creator still there, so that a    *)
(* thread that finds no instance under the mutex knows of no object.       *)
(***************************************************************************)
OneInv ==
  /\ TypeOK
  /\ OneInstance
  /\ \A t \in Threads : pc[t] \in Critical => mutex = t
  /\ \A t \in Threads : pc[t] = "new" => created = 0
  /\ \A t \in Threads : pc[t] \in {"create", "store", "construct"} => created = 1
  /\ instance = 0 /\ created = 1 => \E t \in Threads : pc[t] \in {"create", "store"}

\* The first look of getInstance and of deleteInstance changes a place alone.
LEMMA LookKeeps ==
  ASSUME OneInv, NEW t \in Threads, NEW from, NEW null, NEW set,
         from \in {"idle"}, null \in {"idle", "get"}, set \in {"idle", "destroy"},
         Look(t, from, null, set)
  PROVE  OneInv'
  BY DEF OneInv, TypeOK, OneInstance, Critical, PcLabels, Look, Moves

\* Under the mutex: no instance means no object.
LEMMA LockKeeps ==
  ASSUME OneInv, NEW t \in Threads, NEW from, NEW null, NEW set,
         from \in {"get", "destroy"}, null \in {"new", "unlock"}, set \in {"unlock", "delete"},
         LockAndLook(t, from, null, set)
  PROVE  OneInv'
  BY SingletonAssumption DEF OneInv, TypeOK, OneInstance, Critical, PcLabels, LockAndLook, Moves

LEMMA CreateKeeps ==
  ASSUME OneInv, NEW t \in Threads, Allocate(t) \/ Construct(t) \/ Store(t)
  PROVE  OneInv'
<1>1. CASE Allocate(t)
  BY <1>1 DEF OneInv, TypeOK, OneInstance, Critical, PcLabels, Allocate, Moves
<1>2. CASE Construct(t)
  BY <1>2 DEF OneInv, TypeOK, OneInstance, Critical, PcLabels, Construct, Moves
<1>3. CASE Store(t)
  BY <1>3 DEF OneInv, TypeOK, OneInstance, Critical, PcLabels, Store, Moves
<1>4. QED BY <1>1, <1>2, <1>3

LEMMA LeaveKeeps ==
  ASSUME OneInv, NEW t \in Threads, Unlock(t) \/ Delete(t)
  PROVE  OneInv'
  BY SingletonAssumption DEF OneInv, TypeOK, OneInstance, Critical, PcLabels, Unlock, Delete, Moves

\* No race between first calls, and no deletion, makes getInstance create a
\* second object (singleton.h:11-15).
THEOREM OneObject == Spec => []OneInstance
<1>1. Init => OneInv
  BY SingletonAssumption DEF Init, OneInv, TypeOK, OneInstance, Critical, PcLabels
<1>2. OneInv /\ [Next]_vars => OneInv'
  <2> SUFFICES ASSUME OneInv, [Next]_vars PROVE OneInv' OBVIOUS
  <2>1. CASE UNCHANGED vars
    BY <2>1 DEF OneInv, TypeOK, OneInstance, vars
  <2>2. ASSUME NEW t \in Threads, Get(t) \/ Destroy(t) PROVE OneInv'
    BY <2>2, LookKeeps DEF Get, Destroy
  <2>3. ASSUME NEW t \in Threads, GetStep(t) PROVE OneInv'
    BY <2>3, LockKeeps, CreateKeeps, LeaveKeeps DEF GetStep
  <2>4. ASSUME NEW t \in Threads, DestroyStep(t) PROVE OneInv'
    BY <2>4, LockKeeps, LeaveKeeps DEF DestroyStep
  <2>5. QED BY <2>1, <2>2, <2>3, <2>4 DEF Next
<1>3. OneInv => OneInstance
  BY DEF OneInv
<1>4. QED BY <1>1, <1>2, <1>3, PTL DEF Spec

=============================================================================
