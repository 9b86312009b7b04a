------------------------------- MODULE Singleton -------------------------------
(***************************************************************************)
(* CSingleton (Source/singleton.h), as its one user CRandomGenerator has   *)
(* it: getInstance creates the object on demand with double-checked        *)
(* locking, and the destructor of any other object of the class deletes it *)
(* (the constructor of CRandomGenerator is public).                        *)
(***************************************************************************)
EXTENDS Naturals

CONSTANTS Threads, NoThread

ASSUME SingletonAssumption == NoThread \notin Threads

VARIABLES
  instance,  \* m_instance, the number of the object it points to or 0 for nullptr
  created,   \* objects created so far
  built,     \* the object numbers whose constructor has run and no destructor has
  mutex,     \* who holds m_singleton_mutex
  pc         \* the section a thread is about to enter

vars == <<instance, created, built, mutex, pc>>

Moves(t, from, to) == pc[t] = from /\ pc' = [pc EXCEPT ![t] = to]

\* The look at m_instance outside the mutex, a data race with the store
Look(t, from, null, set) ==
  /\ Moves(t, from, IF instance = 0 THEN null ELSE set)
  /\ UNCHANGED <<instance, created, built, mutex>>

\* Slip: no second look
LockOnly(t, from, null, set) ==
  /\ mutex = NoThread
  /\ mutex' = t
  /\ Moves(t, from, null)
  /\ UNCHANGED <<instance, created, built>>

\* The lock and the second look
LockAndLook(t, from, null, set) ==
  /\ mutex = NoThread
  /\ mutex' = t
  /\ Moves(t, from, IF instance = 0 THEN null ELSE set)
  /\ UNCHANGED <<instance, created, built>>

\* Slip: no unlock
KeepLocked(t) ==
  /\ Moves(t, "unlock", "idle")
  /\ UNCHANGED <<instance, created, built, mutex>>

Unlock(t) ==
  /\ Moves(t, "unlock", "idle")
  /\ mutex' = NoThread
  /\ UNCHANGED <<instance, created, built>>

-----------------------------------------------------------------------------
(* getInstance                                                             *)

Get(t) == Look(t, "idle", "get", "idle")

Allocate(t) ==
  /\ Moves(t, "new", "create")
  /\ created' = created + 1
  /\ UNCHANGED <<instance, built, mutex>>

(***************************************************************************)
(* m_instance is a plain pointer: other threads may see it set before or   *)
(* after the object is constructed.                                        *)
(***************************************************************************)
Construct(t) ==
  /\ \/ Moves(t, "create", "store")
     \/ Moves(t, "construct", "unlock")
  /\ built' = built \cup {created}
  /\ UNCHANGED <<instance, created, mutex>>

Store(t) ==
  /\ \/ Moves(t, "store", "unlock")
     \/ Moves(t, "create", "construct")
  /\ instance' = created
  /\ UNCHANGED <<created, built, mutex>>

GetStep(t) ==
  \/ LockAndLook(t, "get", "new", "unlock")
  \/ Allocate(t) \/ Construct(t) \/ Store(t) \/ Unlock(t)

-----------------------------------------------------------------------------
(* deleteInstance, called by the destructor of an object of the class      *)

Destroy(t) == Look(t, "idle", "idle", "destroy")

(***************************************************************************)
(* The object's destructor calls deleteInstance again: m_instance is still *)
(* set, and the thread locks the mutex it holds.  That is undefined; it    *)
(* blocks for ever, or throws from a destructor and ends the program.  It  *)
(* never unlocks.                                                          *)
(***************************************************************************)
Delete(t) ==
  /\ Moves(t, "delete", "nested")
  /\ built' = built \ {instance}
  /\ UNCHANGED <<instance, created, mutex>>

DestroyStep(t) == LockAndLook(t, "destroy", "unlock", "delete") \/ Delete(t)

-----------------------------------------------------------------------------

Init ==
  /\ instance = 0
  /\ created = 0
  /\ built = {}
  /\ mutex = NoThread
  /\ pc = [t \in Threads |-> "idle"]

Next == \E t \in Threads : Get(t) \/ Destroy(t) \/ GetStep(t) \/ DestroyStep(t)

Spec == Init /\ [][Next]_vars

\* Threads are scheduled and the mutex does not starve them; nothing makes a
\* thread call
FairSpec == Spec /\ \A t \in Threads : SF_vars(GetStep(t) \/ DestroyStep(t))

-----------------------------------------------------------------------------

PcLabels == {"idle", "get", "new", "create", "construct", "store", "unlock",
             "destroy", "delete", "nested"}

\* Every variable has its type.
TypeOK ==
  /\ instance \in 0 .. created
  /\ created \in Nat
  /\ built \subseteq 1 .. created
  /\ mutex \in Threads \cup {NoThread}
  /\ pc \in [Threads -> PcLabels]

\* However the first calls race, and whoever deletes the instance, no second
\* object is ever created: every reference is to the same one.
OneInstance == created <= 1

\* A call that found no instance returns, unless somebody has deleted the
\* instance since, who keeps the mutex for ever.
GetReturns ==
  \A t \in Threads : pc[t] = "get" ~> pc[t] = "idle" \/ \E d \in Threads : pc[d] = "nested"

=============================================================================
