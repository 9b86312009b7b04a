---------------------------- MODULE MCNormalQueue ----------------------------
(***************************************************************************)
(* The configurations of the runs of NormalQueue.  Each is small in what   *)
(* the others are large in: workers, clients, what the clients do, tasks.  *)
(***************************************************************************)
EXTENDS NormalQueue

Config(workers, clients, func, plain, tasks) ==
  [workers |-> workers, clients |-> clients, func |-> func, plain |-> plain, tasks |-> tasks,
   relock |-> "blocks", repaired |-> TRUE]

AsWritten == [Config(2, Clients, TRUE, FALSE, 2) EXCEPT !.repaired = FALSE]

WithoutFunction == Config(1, {Owner}, FALSE, FALSE, 2)

Throwing(c) == [c EXCEPT !.relock = "throws"]

QueueConfigs ==
  { Config(1, {Owner}, TRUE, TRUE, 4),   \* the queue is full
    Config(2, {Owner}, TRUE, TRUE, 2),   \* workers compete for wakeups and tasks
    Config(1, Clients, TRUE, TRUE, 2),   \* clients compete for m_mutex
    Config(1, {Owner}, TRUE, FALSE, 2),  \* pauses, stops that keep the tasks, restarts
    Config(1, Clients, TRUE, FALSE, 0),  \* state changes and stops of two clients
    WithoutFunction, Throwing(WithoutFunction),  \* the worker stops the queue
    AsWritten, Throwing(AsWritten)               \* the constructor does not return
  }

=============================================================================
