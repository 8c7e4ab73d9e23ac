----------------------------- MODULE MCJobPool -------------------------------
(* Small instances of JobPool for TLC: a pool of MaxJobs jobs, and one of a     *)
(* single job that every call has to share, in one run.                        *)
EXTENDS JobPool, TLC

Single == INSTANCE JobPool WITH MaxJobs <- 1

VARIABLE size

MCInit == Init /\ size \in {1, MaxJobs}

MCNext ==
    /\ \/ size = MaxJobs /\ Next
       \/ size = 1 /\ Single!Next
    /\ UNCHANGED size

\* No action that has fairness depends on MaxJobs
MCSpec == MCInit /\ [][MCNext]_<<size, vars>> /\ Fairness

=============================================================================
