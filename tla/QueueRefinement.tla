--------------------------- MODULE QueueRefinement ---------------------------
(***************************************************************************)
(* NormalQueue implements TaskPool: where a task is and how often it has   *)
(* been tried are read off the container and the workers' hands.           *)
(***************************************************************************)
EXTENDS MCNormalQueue

TaskIds == 1 .. MaxTasks

\* The worker that has the task in its hand, and the place of a queued one
InHand(id) == {w \in Busy : hand[w].id = id}
Places(id) == {i \in DOMAIN container : container[i].id = id}

Status(id) ==
  IF id > added THEN "new"
  ELSE IF InHand(id) # {} THEN "running"
  ELSE IF Places(id) # {} THEN "waiting" ELSE "gone"

\* A try is counted when it begins, m_retry_count when it has failed
Tries(id) ==
  LET RunningTries(w) == hand[w].retry + IF pc[w] = "run" THEN 1 ELSE 0
  IN CASE Status(id) = "running" -> RunningTries(CHOOSE w \in InHand(id) : TRUE)
       [] Status(id) = "waiting" -> container[CHOOSE i \in Places(id) : TRUE].retry
       [] OTHER -> 0

Pool == INSTANCE TaskPool WITH status <- [id \in TaskIds |-> Status(id)],
                               tries <- [id \in TaskIds |-> Tries(id)]

\* Whatever clients, cleaner and stops do, each task is tried in its turn, one
\* try at a time, at most MAX_RETRY_COUNT times, and is never brought back.
KeepsPool == Pool!Spec

=============================================================================
