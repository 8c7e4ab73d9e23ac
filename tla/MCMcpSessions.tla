---------------------------- MODULE MCMcpSessions -----------------------------
(* A small instance of McpSessions for TLC. *)
EXTENDS McpSessions, TLC

CONSTANTS k1, t1, t2, s1, s2

\* Both tokens are of one OAuth grant
OneGrant == [t \in Tokens |-> k1]

\* One run checks two instances, told apart by slice: "tokens" has two tokens
\* and one session, "sessions" two sessions and one token.
VARIABLE slice

MCInit == Init /\ slice \in {"tokens", "sessions"}

\* IDs and tokens are taken in order, which loses nothing
InOrder ==
    /\ sess'[s2] # Unborn => sess[s1] # Unborn
    /\ token'[t2] # "none" => token[t1] # "none"

MCNext ==
    /\ Next /\ InOrder
    /\ slice = "tokens" => sess'[s2] = Unborn
    /\ slice = "sessions" => token'[t2] = "none"
    /\ UNCHANGED slice

MCSpec == MCInit /\ [][MCNext]_<<slice, vars>> /\ Fairness
=============================================================================
