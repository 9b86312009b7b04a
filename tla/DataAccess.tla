------------------------------ MODULE DataAccess ------------------------------
(***************************************************************************)
(* What CDataWrapper and the tracker promise to a client, with no lock     *)
(* object in sight: an access is answered with a wrapper or refused, a     *)
(* wrapper is granted only if it excludes and is excluded by nobody, it    *)
(* ends when its destructor begins, and no call goes on for ever.          *)
(***************************************************************************)
EXTENDS Naturals

CONSTANTS Threads, Mutexes

Types == {"Read", "Write"}

VARIABLES
  open,  \* SUCCESS wrappers of each thread, by mutex and type
  call   \* the call a thread is in, "none" if it runs the client's code

vars == <<open, call>>

Calls == [kind : {"none", "access", "release"}, mutex : Mutexes, type : Types]

Excludes(s, t, m, ty) ==
  \/ open[s][m]["Write"] > 0
  \/ ty = "Write" /\ open[s][m]["Read"] > 0

Init ==
  /\ open = [t \in Threads |-> [m \in Mutexes |-> [ty \in Types |-> 0]]]
  /\ call \in [Threads -> {c \in Calls : c.kind = "none"}]

\* The client asks for access
Ask(t) ==
  /\ call[t].kind = "none"
  /\ call' \in {[call EXCEPT ![t] = c] : c \in {d \in Calls : d.kind = "access"}}
  /\ UNCHANGED open

\* It gets a wrapper that is SUCCESS ...
Grant(t) ==
  /\ call[t].kind = "access"
  /\ \A s \in Threads \ {t} : ~Excludes(s, t, call[t].mutex, call[t].type)
  /\ open' = [open EXCEPT ![t][call[t].mutex][call[t].type] = @ + 1]
  /\ call' = [call EXCEPT ![t].kind = "none"]

\* ... or one that is not
Refuse(t) ==
  /\ call[t].kind = "access"
  /\ call' = [call EXCEPT ![t].kind = "none"]
  /\ UNCHANGED open

\* A wrapper's destructor begins
Close(t, m, ty) ==
  /\ call[t].kind = "none"
  /\ open[t][m][ty] > 0
  /\ open' = [open EXCEPT ![t][m][ty] = @ - 1]
  /\ call' = [call EXCEPT ![t] = [kind |-> "release", mutex |-> m, type |-> ty]]

\* and returns
Closed(t) ==
  /\ call[t].kind = "release"
  /\ call' = [call EXCEPT ![t].kind = "none"]
  /\ UNCHANGED open

Next ==
  \E t \in Threads :
    \/ Ask(t) \/ Grant(t) \/ Refuse(t) \/ Closed(t)
    \/ \E m \in Mutexes, ty \in Types : Close(t, m, ty)

Return(t) == Grant(t) \/ Refuse(t) \/ Closed(t)

Spec == Init /\ [][Next]_vars /\ \A t \in Threads : WF_vars(Return(t))

=============================================================================
