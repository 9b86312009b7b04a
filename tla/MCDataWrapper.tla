---------------------------- MODULE MCDataWrapper ----------------------------
(***************************************************************************)
(* Workloads for the runs of DataWrapper.  Threads and mutexes are few:    *)
(* every race of the tracker is between two or three threads over one      *)
(* mutex, and a reorder needs a second one.                                *)
(***************************************************************************)
EXTENDS DataWrapper, FiniteSets

CONSTANTS t1, t2, t3, w1

\* An address is always left for RegisterMutex: a mutex and the three local
\* pointers of a thread or task refer to one lock object each.
Addresses == 1 .. Cardinality(Mutexes) + 3 * Cardinality(Threads \cup Workers) + 1

AllRequests == [thread : Threads, mutex : Mutexes, type : Types]

\* Only one thread reads; the others write
SoleReaderRequests == {r \in AllRequests : r.type = "Read" => r.thread = t1}

WriteRequests == {r \in AllRequests : r.type = "Write"}

\* One thread takes both mutexes, the other reads the second one
CrossRequests == {r \in AllRequests : r.thread = t2 => r.mutex = 2 /\ r.type = "Read"}

=============================================================================
