------------------------------- MODULE SharedJobs -------------------------------
(***************************************************************************)
(* What a pool of shared jobs promises its callers, without how jobs start,  *)
(* what they run and how a call is cancelled: an idle job is taken before a  *)
(* new one and a new one before one in use, which is shared only when all    *)
(* are and then the least busy; a caller has its job until it gives it back; *)
(* a job that was given up, or had no caller when it was retired, is never   *)
(* given to another.  JobPool implements this module.                        *)
(***************************************************************************)
EXTENDS Naturals, FiniteSets

CONSTANTS Slots, Calls, MaxJobs

VARIABLES
    closed,
    offered,  \* jobs that calls may get
    gone,     \* jobs no call gets any more
    users,    \* the calls that have each job
    over      \* calls that are over

vars == <<closed, offered, gone, users, over>>

Init ==
    /\ closed = FALSE
    /\ offered = {}
    /\ gone = {}
    /\ users = [s \in Slots |-> {}]
    /\ over = {}

AllBusy == \A s \in offered : users[s] # {}

\* A call that is not over, and has no job
Waits(c) == c \notin over /\ \A s \in Slots : c \notin users[s]

\* The call gets a job: an idle one, a new one, or the least busy
Get(c, s) ==
    /\ ~closed
    /\ Waits(c)
    /\ \/ /\ s \in offered
          /\ users[s] = {}
          /\ UNCHANGED offered
       \/ /\ s \in Slots \ (offered \cup gone)
          /\ AllBusy
          /\ Cardinality(offered) < MaxJobs
          /\ offered' = offered \cup {s}
       \/ /\ s \in offered
          /\ AllBusy
          /\ Cardinality(offered) >= MaxJobs
          /\ \A t \in offered : Cardinality(users[s]) <= Cardinality(users[t])
          /\ UNCHANGED offered
    /\ users' = [users EXCEPT ![s] = @ \cup {c}]
    /\ UNCHANGED <<closed, gone, over>>

\* The pool is closed or has no job for the call
Refuse(c) ==
    /\ Waits(c)
    /\ over' = over \cup {c}
    /\ UNCHANGED <<closed, offered, gone, users>>

Withdraw(S) ==
    /\ offered' = offered \ S
    /\ gone' = gone \cup S

\* The call gives its job back, or says that it must not be used again
GiveBack(c, s) ==
    /\ c \in users[s]
    /\ users' = [users EXCEPT ![s] = @ \ {c}]
    /\ over' = over \cup {c}
    /\ \E S \in SUBSET ({s} \cap offered) : Withdraw(S)
    /\ UNCHANGED closed

\* Jobs nobody has are retired, or a job turns out not to start
Retire(S) ==
    /\ S \subseteq offered
    /\ \/ \A s \in S : users[s] = {}
       \/ \E s \in offered : S = {s}
    /\ Withdraw(S)
    /\ UNCHANGED <<closed, users, over>>

\* The connection of all jobs is gone, or the pool is closed
LoseAll ==
    /\ closed' \in {closed, TRUE}
    /\ Withdraw(offered)
    /\ UNCHANGED <<users, over>>

Next ==
    \/ \E c \in Calls, s \in Slots : Get(c, s) \/ GiveBack(c, s)
    \/ \E c \in Calls : Refuse(c)
    \/ \E S \in SUBSET Slots : Retire(S)
    \/ LoseAll

Spec == Init /\ [][Next]_vars

=============================================================================
