------------------------------- MODULE TaskPool -------------------------------
(***************************************************************************)
(* What the queue of queue_normal.h promises about a task, without a       *)
(* mutex, a worker or a container in sight: tasks are tried for the first  *)
(* time in the order in which they were added, one try at a time and no    *)
(* more than MaxRetry of them, and a task that is done, given up or        *)
(* dropped while it waits does not come back.                              *)
(***************************************************************************)
EXTENDS Naturals

CONSTANTS TaskIds,  \* tasks, numbered in the order in which they are added
          MaxRetry  \* tries a task gets

VARIABLES status,  \* of each task
          tries    \* times a task that is not gone has been started

vars == <<status, tries>>

Waiting == {i \in TaskIds : status[i] = "waiting"}

\* The tasks of a set are gone
Without(S, f, value) == [i \in TaskIds |-> IF i \in S THEN value ELSE f[i]]

Init == /\ status = [i \in TaskIds |-> "new"]
        /\ tries = [i \in TaskIds |-> 0]

\* A task is added; another may have to make room
Submit(i) ==
  /\ status[i] = "new"
  /\ \A j \in TaskIds : j < i => status[j] # "new"
  /\ \E S \in {{}} \cup {{j} : j \in Waiting} :
       /\ status' = [Without(S, status, "gone") EXCEPT ![i] = "waiting"]
       /\ tries' = Without(S, tries, 0)

\* A task is tried, before any that was added later and is still untried
Start(i) ==
  /\ status[i] = "waiting"
  /\ tries[i] = 0 => \A j \in Waiting : j < i => tries[j] > 0
  /\ status' = [status EXCEPT ![i] = "running"]
  /\ tries' = [tries EXCEPT ![i] = @ + 1]

\* It succeeds, or has failed for the last time ...
Finish(i) ==
  /\ status[i] = "running"
  /\ status' = [status EXCEPT ![i] = "gone"]
  /\ tries' = [tries EXCEPT ![i] = 0]

\* ... or waits to be tried again
Return(i) ==
  /\ status[i] = "running"
  /\ tries[i] < MaxRetry
  /\ status' = [status EXCEPT ![i] = "waiting"]
  /\ UNCHANGED tries

\* Waiting tasks are removed, expire, or are cleared by a stop
Drop ==
  \E S \in SUBSET Waiting :
    /\ S # {}
    /\ status' = Without(S, status, "gone")
    /\ tries' = Without(S, tries, 0)

Next == Drop \/ \E i \in TaskIds : Submit(i) \/ Start(i) \/ Finish(i) \/ Return(i)

Spec == Init /\ [][Next]_vars

===============================================================================
