------------------------------ MODULE LockTypes ------------------------------
(***************************************************************************)
(* The lock objects of Source/Improved/lock_types.{h,cpp}: CReadLock and   *)
(* CWriteLock over AbstractLock, together with the operation queue of the  *)
(* TLockData that wraps each of them (common_types.h).  This module holds  *)
(* what the methods decide and compute from one lock object; the order in  *)
(* which threads call them is the business of ThreadTracker.               *)
(***************************************************************************)
EXTENDS Naturals

CONSTANTS Threads,   \* client threads, named by their std::thread::id
          Mutexes,   \* mutex ids, the addresses (uintptr_t) of the guarded data's mutexes
          NoThread   \* no thread id

ASSUME LockTypesAssumption ==
  /\ Mutexes \subseteq Nat
  /\ Mutexes # {}
  /\ NoThread \notin Threads

Types == {"Read", "Write"}

(***************************************************************************)
(* A lock object.  guard: m_lockGuard holds the data's shared_mutex, in    *)
(* shared mode for a Read lock and in exclusive mode for a Write lock.     *)
(* owners: lockCount of each thread, 0 for a thread not in m_owners.       *)
(* class: the thread blocked inside m_classMutex (only CreateGuard blocks  *)
(* there).  ops: operations waiting in TLockData::m_operations.            *)
(***************************************************************************)
LockObjects == [mutex : Mutexes, type : Types, guard : BOOLEAN,
                owners : [Threads -> Nat], class : Threads \cup {NoThread}, ops : Nat]

\* A lock as its constructor leaves it: no guard, no owner, no operation.
NewLock(m, ty) ==
  [mutex |-> m, type |-> ty, guard |-> FALSE,
   owners |-> [t \in Threads |-> 0], class |-> NoThread, ops |-> 0]

IsOwner(l, t) == l.owners[t] > 0

Owners(l) == {t \in Threads : IsOwner(l, t)}

\* GetOwnerCount() <= 1 && IsOwner()
IsOnlyOwner(l, t) == Owners(l) = {t}

(***************************************************************************)
(* What CanAcquire, and the predicate of Wait, conclude from their first   *)
(* look at the lock.  "OWNERS": a Read lock asked for Write must still     *)
(* count its owners, in a second critical section of m_classMutex.         *)
(* LookAtGuard is the same with a slip, a variant that runs must refute;   *)
(* the modules keep such variants beside the definition they depart from.  *)
(***************************************************************************)
LookAtGuard(l, t, ty) ==
  CASE ~l.guard                    -> "AVAIL"
    [] l.guard /\ l.type = "Write" -> "AVAIL"   \* slip: no IsOwner
    [] l.guard /\ l.type = "Read"  -> IF ty = "Read" THEN "AVAIL" ELSE "OWNERS"

FirstLook(l, t, ty) ==
  CASE ~l.guard                           -> "AVAIL"
    [] l.guard /\ l.type = "Write"        -> IF IsOwner(l, t) THEN "AVAIL" ELSE "CANNOT"
    [] l.guard /\ l.type = "Read"         -> IF ty = "Read" THEN "AVAIL" ELSE "OWNERS"

\* AddOwnership changes nothing for a thread that is already an owner
AddOwnership(l, t) == [l EXCEPT !.owners[t] = IF @ > 0 THEN @ ELSE 1]

\* AcquireLock after CreateGuard: CounterIncrease for an owner, else AddOwnership
CountOwnership(l, t) == [l EXCEPT !.owners[t] = @ + 1]

\* Slip: fetch_sub without a look for the thread in m_owners
SubtractOwnership(l, t) == [l EXCEPT !.owners[t] = @ - 1]

\* RemoveOwnership: the last of a thread's counts erases it from m_owners
RemoveOwnership(l, t) == [l EXCEPT !.owners[t] = IF @ > 0 THEN @ - 1 ELSE 0]

\* RemoveGuard: m_lockGuard.reset()
RemoveGuard(l) == [l EXCEPT !.guard = FALSE]

\* CreateGuard up to the point where the data's mutex is asked for:
\* m_lockGuard.emplace destroys the guard it holds before it locks again
EnterCreateGuard(l, t) == [l EXCEPT !.guard = FALSE, !.class = t]

\* CreateGuard once the data's mutex is granted
LeaveCreateGuard(l) == [l EXCEPT !.guard = TRUE, !.class = NoThread]

\* CReadLock::AcquireLock ignores every request that is not a Read
IgnoresRequest(l, ty) == l.type = "Read" /\ ty = "Write"

=============================================================================
