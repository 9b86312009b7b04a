--------------------------- MODULE AccessRefinement ---------------------------
(***************************************************************************)
(* DataWrapper implements DataAccess when no two threads read the same     *)
(* data and no conversion, reorder, overwrite or operation is asked for.   *)
(***************************************************************************)
EXTENDS MCDataWrapper

\* Inside ReleaseLock called by a destructor: a conversion has a lock at hand
Releasing(t) ==
  /\ pc[t] \in {"release", "disown", "should", "shouldOwners", "opCount", "runOps",
                "unregister", "dropHeld", "return"}
  /\ mdata[t] = NoLock /\ wdata[t] = NoLock

CallOf(t) ==
  [kind |-> IF pc[t] = "idle" THEN "none" ELSE IF Releasing(t) THEN "release" ELSE "access",
   mutex |-> req[t].mutex, type |-> req[t].type]

Promise == INSTANCE DataAccess WITH open <- wrappers, call <- [t \in Threads |-> CallOf(t)]

\* The tracker and the wrapper keep the promise: exclusion at every grant, the
\* wrapper gone before its release begins, and every constructor, destructor
\* and Access returns, also the ones that wait, time out or meet a stale lock.
KeepsPromise == Promise!Spec

=============================================================================
