--------------------------- MODULE GrantLifetimes ---------------------------
(***************************************************************************)
(* What the OAuth server promises of a sign-in, without a store, a file,   *)
(* requests in flight or restarts: a sign-in is begun once, and goes on    *)
(* with its code or with its one refresh token, each of which is given up  *)
(* for the tokens it brings; anything may be lost at any moment, to        *)
(* expiry, a cap, a limit or a restart, and nothing that is lost comes     *)
(* back; and a sign-in that is over gets nothing more.                     *)
(* OAuthGrants implements this module.                                     *)
(***************************************************************************)
EXTENDS Integers, FiniteSets

CONSTANTS SignIns, Tokens, RTokens, MaxSessions, None

VARIABLES
    begun,      \* sign-ins that were given a code
    codes,      \* sign-ins whose code can be exchanged
    renewals,   \* the refresh tokens each sign-in can go on with
    accepted,   \* access tokens the server accepts
    tokenOf,    \* the sign-in each access token was issued for
    refreshOf,  \* the sign-in each refresh token was issued for
    over        \* sign-ins that are revoked

vars == <<begun, codes, renewals, accepted, tokenOf, refreshOf, over>>

Init ==
    /\ begun = {}
    /\ codes = {}
    /\ renewals = [s \in SignIns |-> {}]
    /\ accepted = {}
    /\ tokenOf = [t \in Tokens |-> None]
    /\ refreshOf = [r \in RTokens |-> None]
    /\ over = {}

Begin(s) ==
    /\ s \notin begun
    /\ begun' = begun \cup {s}
    /\ codes' = codes \cup {s}
    /\ UNCHANGED <<renewals, accepted, tokenOf, refreshOf, over>>

\* What the other sign-ins can go on with may be evicted at the same time
OthersShrink(s) ==
    /\ renewals' \in [SignIns -> SUBSET RTokens]
    /\ \A n \in SignIns \ {s} : renewals'[n] \subseteq renewals[n]

\* A sign-in that has a code or a refresh token gives it up for an access token
\* that is new and within the limit, and for a new refresh token or none
Renew(s, t) ==
    /\ s \notin over
    /\ s \in codes \/ renewals[s] # {}
    /\ codes' = codes \ {s}
    /\ Cardinality(accepted) < MaxSessions
    /\ tokenOf[t] = None
    /\ tokenOf' = [tokenOf EXCEPT ![t] = s]
    /\ accepted' = accepted \cup {t}
    /\ OthersShrink(s)
    /\ \/ UNCHANGED refreshOf /\ renewals'[s] = {}
       \/ \E r \in RTokens :
             /\ refreshOf[r] = None
             /\ refreshOf' = [refreshOf EXCEPT ![r] = s]
             /\ renewals'[s] = {r}
    /\ UNCHANGED <<begun, over>>

\* Tokens and codes expire, are used in vain or do not outlive the process
Lose ==
    /\ codes' \subseteq codes
    /\ accepted' \subseteq accepted
    /\ renewals' \in [SignIns -> SUBSET RTokens]
    /\ \A s \in SignIns : renewals'[s] \subseteq renewals[s]
    /\ UNCHANGED <<begun, tokenOf, refreshOf, over>>

\* A revocation, of this sign-in alone; its access tokens are lost after it
End(s) ==
    /\ over' = over \cup {s}
    /\ renewals' = [renewals EXCEPT ![s] = {}]
    /\ UNCHANGED <<begun, codes, accepted, tokenOf, refreshOf>>

Next ==
    \/ \E s \in SignIns : Begin(s)
    \/ \E s \in SignIns, t \in Tokens : Renew(s, t)
    \/ Lose
    \/ \E s \in SignIns : End(s)

Spec == Init /\ [][Next]_vars

=============================================================================
