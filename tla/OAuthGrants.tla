----------------------------- MODULE OAuthGrants -----------------------------
(***************************************************************************)
(* Sign-ins of the OAuth server, src/auth: codes, access tokens, refresh   *)
(* tokens, revocation and the state file (oauth.ts, grantStore.ts,         *)
(* tokenManager.ts), with the pool each sign-in owns (login.ts, http.ts).  *)
(*                                                                         *)
(* A sign-in is one authorization code and, once exchanged, one grant ID:  *)
(* every access and refresh token that follows belongs to it.  A refresh   *)
(* waits for seconds on the IBM i sign-on while other requests run, and    *)
(* the process may stop and start at any moment.                           *)
(*                                                                         *)
(* Left out: client registration and authentication, the sign-in page,     *)
(* PKCE (a failed check is DropCode), encryption, and tokens of POST       *)
(* /auth, which have no grant.  A state file is configured and writing it  *)
(* succeeds.  Requests are those of stateless mode, which registers its    *)
(* pool key in the same turn as the token check.                           *)
(***************************************************************************)
EXTENDS Integers, FiniteSets

CONSTANTS
    SignIns,      \* sign-ins, each with its code and grant ID
    Users,        \* an IBM i user profile on a system (userKey)
    UserOf,       \* [SignIns -> Users]
    Tokens,       \* access tokens; bounds how many are issued
    RTokens,      \* refresh tokens; bounds how many are issued
    Reqs,         \* concurrent refresh requests
    MaxSessions,  \* MCP_MAX_SESSIONS, which bounds refresh grants too
    UserCap,      \* MAX_REFRESH_GRANTS_PER_USER
    None

ASSUME UserAssumption == UserOf \in [SignIns -> Users]
ASSUME LimitAssumption == MaxSessions \in Nat \ {0} /\ UserCap \in Nat \ {0}
ASSUME NoneAssumption == None \notin SignIns /\ None \notin RTokens
ASSUME RTokensAssumption == IsFiniteSet(RTokens)
ASSUME ReqsAssumption == IsFiniteSet(Reqs)

VARIABLES
    phase,       \* "up", then the steps of shutdownHttpServer
    code,        \* pendingCodes and usedCodes
    tokenOf,     \* the sign-in each access token was issued for
    sessions,    \* TokenManager.sessions
    refreshOf,   \* the sign-in each refresh token was issued for
    grants,      \* RefreshGrantStore.grants
    file,        \* the state file (MCP_OAUTH_STATE_FILE)
    lapsed,      \* tokens past their expiry
    refreshing,  \* grants with a refresh waiting on the sign-on
    req,         \* the refresh requests
    revoking,    \* tokens a TokenManager.revokeGrant loop has yet to revoke
    draining,    \* tokens whose cleanup TokenManager.shutdown has yet to await
    closers,     \* cleanup callbacks between hasGrant and closeSessionPool
    grantPool,   \* grant IDs registered as pool owners
    ended,       \* history: sign-ins a revocation reached before shutdown
                 \* cleared the store
    asked,       \* history: sign-ins whose revocation was answered with 200
    redeemed     \* history: refresh tokens that were exchanged for new tokens

vars == <<phase, code, tokenOf, sessions, refreshOf, grants, file, lapsed, refreshing,
          req, revoking, draining, closers, grantPool, ended, asked, redeemed>>

Phases == {"up", "stopping", "reset"}
Idle   == [pc |-> "idle", rt |-> None]
Quiet  == [count |-> 0, revoked |-> FALSE]

TypeOK ==
    /\ phase \in Phases
    /\ code \in [SignIns -> {"fresh", "pending", "used", "gone"}]
    /\ tokenOf \in [Tokens -> SignIns \cup {None}]
    /\ sessions \subseteq {t \in Tokens : tokenOf[t] # None}
    /\ refreshOf \in [RTokens -> SignIns \cup {None}]
    /\ grants \subseteq {r \in RTokens : refreshOf[r] # None}
    /\ file \subseteq {r \in RTokens : refreshOf[r] # None}
    /\ lapsed \subseteq Tokens \cup RTokens
    /\ refreshing \in [SignIns -> {Quiet} \cup [count: 1..Cardinality(Reqs), revoked: BOOLEAN]]
    /\ req \in [Reqs -> {Idle} \cup
                  [pc: {"checking"}, rt: {r \in RTokens : refreshOf[r] # None}]]
    /\ revoking \in [SignIns -> SUBSET Tokens]
    /\ draining \subseteq {t \in Tokens : tokenOf[t] # None}
    /\ closers \subseteq {t \in Tokens : tokenOf[t] # None}
    /\ grantPool \subseteq SignIns
    /\ ended \subseteq SignIns
    /\ asked \subseteq SignIns
    /\ redeemed \subseteq RTokens

Init ==
    /\ phase = "up"
    /\ code = [s \in SignIns |-> "fresh"]
    /\ tokenOf = [t \in Tokens |-> None]
    /\ sessions = {}
    /\ refreshOf = [r \in RTokens |-> None]
    /\ grants = {}
    /\ file = {}
    /\ lapsed = {}
    /\ refreshing = [s \in SignIns |-> Quiet]
    /\ req = [q \in Reqs |-> Idle]
    /\ revoking = [s \in SignIns |-> {}]
    /\ draining = {}
    /\ closers = {}
    /\ grantPool = {}
    /\ ended = {}
    /\ asked = {}
    /\ redeemed = {}

TokensOf(s) == {t \in sessions : tokenOf[t] = s}
GrantsOf(s) == {r \in grants : refreshOf[r] = s}
OfUser(u)   == {r \in grants : UserOf[refreshOf[r]] = u}
Flights(s)  == {q \in Reqs : req[q].pc = "checking" /\ refreshOf[req[q].rt] = s}

\* Mutant: the file is only ever added to
SaveAppending == file' = file \cup grants'

\* RefreshGrantStore.set and deleteMany: the file follows every change
Save == file' = IF grants' = grants THEN file ELSE grants'

-----------------------------------------------------------------------------
(***************************************************************************)
(* Ending tokens                                                           *)
(***************************************************************************)

\* Mutant: the callback runs before the token leaves the map
RemoveTokenNotifyingFirst(t) ==
    /\ sessions' = sessions \ {t}
    /\ closers' = IF \E u \in sessions : tokenOf[u] = tokenOf[t]
                  THEN closers ELSE closers \cup {t}

\* Remove a token from the map and run the cleanup callback of http.ts up to
\* its first await: nothing more to do while the grant has other tokens.
RemoveToken(t) ==
    /\ sessions' = sessions \ {t}
    /\ closers' = IF \E u \in sessions \ {t} : tokenOf[u] = tokenOf[t]
                  THEN closers ELSE closers \cup {t}

\* validateToken on an expired token, or one turn of cleanupExpiredSessions
DropExpired(t) ==
    /\ t \in sessions \cap lapsed
    /\ RemoveToken(t)
    /\ UNCHANGED <<phase, code, tokenOf, refreshOf, grants, file, lapsed, refreshing,
                   req, revoking, grantPool, ended, draining, asked, redeemed>>

\* The rest of the cleanup callback: closeSessionPool of the grant's key
ClosePool(t) ==
    /\ t \in closers
    /\ closers' = closers \ {t}
    /\ draining' = draining \ {t}
    /\ grantPool' = grantPool \ {tokenOf[t]}
    /\ UNCHANGED <<phase, code, tokenOf, sessions, refreshOf, grants, file, lapsed,
                   refreshing, req, revoking, ended, asked, redeemed>>

\* Mutant: a refresh in flight does not learn of the revocation
RevokeGrantUnmarked(s) ==
    /\ UNCHANGED refreshing
    /\ grants' = grants \ GrantsOf(s)
    /\ revoking' = [revoking EXCEPT ![s] = @ \cup TokensOf(s)]
    /\ ended' = IF phase = "reset" THEN ended ELSE ended \cup {s}

\* revokeGrant up to the TokenManager's loop: mark refreshes in flight,
\* delete the refresh grants, list the access tokens
RevokeGrant(s) ==
    /\ refreshing' = IF refreshing[s].count > 0
                     THEN [refreshing EXCEPT ![s] = [@ EXCEPT !.revoked = TRUE]]
                     ELSE refreshing
    /\ grants' = grants \ GrantsOf(s)
    /\ revoking' = [revoking EXCEPT ![s] = @ \cup TokensOf(s)]
    /\ ended' = IF phase = "reset" THEN ended ELSE ended \cup {s}

\* One turn of that loop: revokeToken
RevokeNext(s, t) ==
    /\ t \in revoking[s]
    /\ revoking' = [revoking EXCEPT ![s] = @ \ {t}]
    /\ IF t \in sessions THEN RemoveToken(t) ELSE UNCHANGED <<sessions, closers>>
    /\ UNCHANGED <<phase, code, tokenOf, refreshOf, grants, file, lapsed, refreshing,
                   req, grantPool, ended, draining, asked, redeemed>>

\* POST /oauth/revoke with an access token
RevokeAccess(t) ==
    /\ t \in sessions
    /\ RevokeGrant(tokenOf[t])
    /\ Save
    /\ asked' = asked \cup {tokenOf[t]}
    /\ UNCHANGED <<phase, code, tokenOf, sessions, refreshOf, lapsed, req, draining,
                   closers, grantPool, redeemed>>

\* POST /oauth/revoke with a refresh token that a client holds: one the store
\* has, or one it has handed to a refresh that is not answered yet.  The second
\* is found nowhere, and the answer is the same 200.
RevokeRefresh(r) ==
    /\ r \in grants \cup {req[q].rt : q \in {p \in Reqs : req[p].pc = "checking"}}
    /\ IF r \in grants
       THEN RevokeGrant(refreshOf[r])
       ELSE UNCHANGED <<grants, refreshing, revoking, ended>>
    /\ Save
    /\ asked' = asked \cup {refreshOf[r]}
    /\ UNCHANGED <<phase, code, tokenOf, sessions, refreshOf, lapsed, req, draining,
                   closers, grantPool, redeemed>>

-----------------------------------------------------------------------------
(***************************************************************************)
(* Issuing tokens                                                          *)
(***************************************************************************)

\* issueTokens' access token: createSession, then handOverPool, which leaves
\* the grant's key with an open pool, the check's or the one it had
NewAccess(s, t) ==
    /\ tokenOf[t] = None
    /\ tokenOf' = [tokenOf EXCEPT ![t] = s]
    /\ sessions' = sessions \cup {t}
    /\ grantPool' = grantPool \cup {s}

\* issueTokens' refresh token: expired grants are swept, a user at the cap
\* loses own grants (the oldest in the code, any here), and a full store
\* issues none
NewRefresh(s, r) ==
    LET kept == grants \ lapsed
        own  == OfUser(UserOf[s]) \ lapsed
        excess == Cardinality(own) - UserCap + 1 IN
    \E evicted \in SUBSET own :
        /\ Cardinality(evicted) = IF excess > 0 THEN excess ELSE 0
        /\ IF Cardinality(kept \ evicted) >= MaxSessions
           THEN grants' = kept \ evicted /\ UNCHANGED refreshOf
           ELSE /\ refreshOf[r] = None
                /\ refreshOf' = [refreshOf EXCEPT ![r] = s]
                /\ grants' = (kept \ evicted) \cup {r}

\* A client that may not refresh, or MCP_OAUTH_REFRESH_EXPIRY=0
NoRefresh == UNCHANGED <<refreshOf, grants>>

\* Mutant: the pool is handed over before the token exists
IssueHandingFirst(s, t, r) ==
    \/ /\ Cardinality(sessions) >= MaxSessions
       /\ grantPool' = grantPool \cup {s}
       /\ UNCHANGED <<tokenOf, sessions, refreshOf, grants>>
    \/ /\ Cardinality(sessions) < MaxSessions
       /\ NewAccess(s, t)
       /\ NewRefresh(s, r) \/ NoRefresh

\* issueTokens for the sign-in s, at the session limit or not
Issue(s, t, r) ==
    \/ /\ Cardinality(sessions) >= MaxSessions
       /\ UNCHANGED <<tokenOf, sessions, grantPool, refreshOf, grants>>
    \/ /\ Cardinality(sessions) < MaxSessions
       /\ NewAccess(s, t)
       /\ NewRefresh(s, r) \/ NoRefresh

\* POST /oauth/authorize with good credentials
SignIn(s) ==
    /\ code[s] = "fresh"
    /\ code' = [code EXCEPT ![s] = "pending"]
    /\ UNCHANGED <<phase, tokenOf, sessions, refreshOf, grants, file, lapsed,
                   refreshing, req, revoking, closers, grantPool, ended, draining,
                   asked, redeemed>>

\* POST /oauth/token with a pending code and the right client and verifier
Exchange(s, t, r) ==
    /\ code[s] = "pending"
    /\ code' = [code EXCEPT ![s] = "used"]
    /\ Issue(s, t, r)
    /\ Save
    /\ UNCHANGED <<phase, lapsed, refreshing, req, revoking, closers, ended, draining,
                   asked, redeemed>>

\* A refused exchange uses the code up, and an old one is forgotten
DropCode(s) ==
    /\ code[s] \in {"pending", "used"}
    /\ code' = [code EXCEPT ![s] = "gone"]
    /\ UNCHANGED <<phase, tokenOf, sessions, refreshOf, grants, file, lapsed,
                   refreshing, req, revoking, closers, grantPool, ended, draining,
                   asked, redeemed>>

\* POST /oauth/token with a code already used
Replay(s) ==
    /\ code[s] = "used"
    /\ code' = [code EXCEPT ![s] = "gone"]
    /\ RevokeGrant(s)
    /\ Save
    /\ UNCHANGED <<phase, tokenOf, sessions, refreshOf, lapsed, req, closers, grantPool,
                   draining, asked, redeemed>>

-----------------------------------------------------------------------------
(***************************************************************************)
(* Refreshing                                                              *)
(***************************************************************************)

\* POST /oauth/token with a refresh token, up to the credential check:
\* rotation deletes the grant first, and an expired one goes no further
Refresh(q, r) ==
    /\ req[q].pc = "idle"
    /\ r \in grants
    /\ grants' = grants \ {r}
    /\ Save
    /\ IF r \in lapsed
       THEN UNCHANGED <<req, refreshing>>
       ELSE /\ req' = [req EXCEPT ![q] = [pc |-> "checking", rt |-> r]]
            /\ refreshing' = [refreshing EXCEPT ![refreshOf[r]].count = @ + 1]
    /\ UNCHANGED <<phase, code, tokenOf, sessions, refreshOf, lapsed, revoking, closers,
                   grantPool, ended, draining, asked, redeemed>>

\* The entry of `refreshing` when a check is over: the last one removes it
Landed(f) == IF f.count = 1 THEN Quiet ELSE [f EXCEPT !.count = @ - 1]

Land(q, s) ==
    /\ req[q].pc = "checking"
    /\ refreshOf[req[q].rt] = s
    /\ req' = [req EXCEPT ![q] = Idle]

\* The check is over, and the sign-in was revoked during it
RefreshRevoked(q, s) ==
    /\ Land(q, s)
    /\ refreshing[s].revoked
    /\ refreshing' = [refreshing EXCEPT ![s] = Landed(@)]
    /\ UNCHANGED <<phase, code, tokenOf, sessions, refreshOf, grants, file, lapsed,
                   revoking, closers, grantPool, ended, draining, asked, redeemed>>

\* Mutant: the grant goes back although the sign-in was revoked meanwhile
RefreshDeferredAnyway(q, s) ==
    /\ Land(q, s)
    /\ refreshing' = [refreshing EXCEPT ![s] = Landed(@)]
    /\ grants' = grants \cup {req[q].rt}
    /\ Save
    /\ UNCHANGED <<phase, code, tokenOf, sessions, refreshOf, lapsed, revoking, closers,
                   grantPool, ended, draining, asked, redeemed>>

\* The IBM i was not reached: the grant goes back as it was
RefreshDeferred(q, s) ==
    /\ Land(q, s)
    /\ ~refreshing[s].revoked
    /\ refreshing' = [refreshing EXCEPT ![s] = Landed(@)]
    /\ grants' = grants \cup {req[q].rt}
    /\ Save
    /\ UNCHANGED <<phase, code, tokenOf, sessions, refreshOf, lapsed, revoking, closers,
                   grantPool, ended, draining, asked, redeemed>>

\* The IBM i refused the credentials: the sign-in ends
RefreshRefused(q, s) ==
    /\ Land(q, s)
    /\ ~refreshing[s].revoked
    /\ refreshing' = [refreshing EXCEPT ![s] =
                        [Landed(@) EXCEPT !.revoked = Landed(refreshing[s]).count > 0]]
    /\ grants' = grants \ GrantsOf(s)
    /\ Save
    /\ revoking' = [revoking EXCEPT ![s] = @ \cup TokensOf(s)]
    /\ ended' = IF phase = "reset" THEN ended ELSE ended \cup {s}
    /\ UNCHANGED <<phase, code, tokenOf, sessions, refreshOf, lapsed, closers,
                   grantPool, draining, asked, redeemed>>

\* The credentials are good: new tokens, or 503 at the session limit
RefreshIssues(q, s, t, r) ==
    /\ Land(q, s)
    /\ ~refreshing[s].revoked
    /\ refreshing' = [refreshing EXCEPT ![s] = Landed(@)]
    /\ Issue(s, t, r)
    /\ Save
    /\ redeemed' = IF tokenOf' = tokenOf THEN redeemed ELSE redeemed \cup {req[q].rt}
    /\ UNCHANGED <<phase, code, lapsed, revoking, closers, ended, draining, asked>>

-----------------------------------------------------------------------------
(***************************************************************************)
(* Requests, time, stopping and starting                                   *)
(***************************************************************************)

\* An MCP request with a valid token registers its pool key
Request(t) ==
    /\ t \in sessions \ lapsed
    /\ tokenOf[t] \notin grantPool
    /\ grantPool' = grantPool \cup {tokenOf[t]}
    /\ UNCHANGED <<phase, code, tokenOf, sessions, refreshOf, grants, file, lapsed,
                   refreshing, req, revoking, closers, ended, draining, asked,
                   redeemed>>

\* A token's expiry passes
Lapse(x) ==
    /\ x \in (sessions \cup grants) \ lapsed
    /\ lapsed' = lapsed \cup {x}
    /\ UNCHANGED <<phase, code, tokenOf, sessions, refreshOf, grants, file, refreshing,
                   req, revoking, closers, grantPool, ended, draining, asked, redeemed>>

\* shutdownHttpServer: tokenManager.shutdown clears the map before it runs the
\* cleanup callbacks.  Requests are still served until the server closes.
Stop ==
    /\ phase = "up"
    /\ phase' = "stopping"
    /\ sessions' = {}
    /\ draining' = sessions
    /\ UNCHANGED <<code, tokenOf, refreshOf, grants, file, lapsed, refreshing, req,
                   revoking, closers, grantPool, ended, asked, redeemed>>

\* One turn of its loop: the cleanup callback, which the loop awaits
Drain(t) ==
    /\ t \in draining
    /\ draining \cap closers = {}
    /\ IF \E u \in sessions : tokenOf[u] = tokenOf[t]
       THEN draining' = draining \ {t} /\ UNCHANGED closers
       ELSE closers' = closers \cup {t} /\ UNCHANGED draining
    /\ UNCHANGED <<phase, code, tokenOf, sessions, refreshOf, grants, file, lapsed,
                   refreshing, req, revoking, grantPool, ended, asked, redeemed>>

\* shutdownHttpServer: resetOAuthState and closeAllSessionPools
Reset ==
    /\ phase = "stopping"
    /\ draining = {}
    /\ phase' = "reset"
    /\ code' = [s \in SignIns |-> IF code[s] = "fresh" THEN "fresh" ELSE "gone"]
    /\ grants' = {}
    /\ grantPool' = {}
    /\ UNCHANGED <<tokenOf, sessions, refreshOf, file, lapsed, refreshing, req,
                   revoking, closers, ended, draining, asked, redeemed>>

\* Mutant: what load() dropped stays in the file
RestartKeepingFile ==
    /\ phase' = "up"
    /\ code' = [s \in SignIns |-> IF code[s] = "fresh" THEN "fresh" ELSE "gone"]
    /\ sessions' = {}
    /\ grants' = file \ lapsed
    /\ refreshing' = [s \in SignIns |-> Quiet]
    /\ req' = [q \in Reqs |-> Idle]
    /\ revoking' = [s \in SignIns |-> {}]
    /\ draining' = {}
    /\ closers' = {}
    /\ grantPool' = {}
    /\ UNCHANGED <<tokenOf, refreshOf, file, lapsed, ended, asked, redeemed>>

\* The process ends, at any moment, and a new one loads the state file
Restart ==
    /\ phase' = "up"
    /\ code' = [s \in SignIns |-> IF code[s] = "fresh" THEN "fresh" ELSE "gone"]
    /\ sessions' = {}
    /\ grants' = file \ lapsed
    /\ file' = file \ lapsed
    /\ refreshing' = [s \in SignIns |-> Quiet]
    /\ req' = [q \in Reqs |-> Idle]
    /\ revoking' = [s \in SignIns |-> {}]
    /\ draining' = {}
    /\ closers' = {}
    /\ grantPool' = {}
    /\ UNCHANGED <<tokenOf, refreshOf, lapsed, ended, asked, redeemed>>

-----------------------------------------------------------------------------
Next ==
    \/ \E t \in Tokens : DropExpired(t)
    \/ \E t \in Tokens : ClosePool(t)
    \/ \E s \in SignIns, t \in Tokens : RevokeNext(s, t)
    \/ \E t \in Tokens : RevokeAccess(t)
    \/ \E r \in RTokens : RevokeRefresh(r)
    \/ \E s \in SignIns : SignIn(s)
    \/ \E s \in SignIns, t \in Tokens, r \in RTokens : Exchange(s, t, r)
    \/ \E s \in SignIns : DropCode(s)
    \/ \E s \in SignIns : Replay(s)
    \/ \E q \in Reqs, r \in RTokens : Refresh(q, r)
    \/ \E q \in Reqs, s \in SignIns : RefreshRevoked(q, s)
    \/ \E q \in Reqs, s \in SignIns : RefreshDeferred(q, s)
    \/ \E q \in Reqs, s \in SignIns : RefreshRefused(q, s)
    \/ \E q \in Reqs, s \in SignIns, t \in Tokens, r \in RTokens : RefreshIssues(q, s, t, r)
    \/ \E t \in Tokens : Request(t)
    \/ \E x \in Tokens \cup RTokens : Lapse(x)
    \/ Stop
    \/ \E t \in Tokens : Drain(t)
    \/ Reset
    \/ Restart

Spec == Init /\ [][Next]_vars

\* The loops and callbacks that a revocation or a shutdown has started run on
Fairness ==
    /\ \A s \in SignIns, t \in Tokens : WF_vars(RevokeNext(s, t))
    /\ \A t \in Tokens : WF_vars(ClosePool(t)) /\ WF_vars(Drain(t))

FairSpec == Spec /\ Fairness

-----------------------------------------------------------------------------
(***************************************************************************)
(* Properties                                                              *)
(***************************************************************************)

\* "A revocation during it must not be undone by new tokens" (oauth.ts): once
\* a revocation has reached a sign-in, no access or refresh token is issued
\* for it, by a refresh in flight or after a restart.
NoTokenAfterRevocation ==
    [][\A s \in ended :
          /\ \A t \in Tokens : tokenOf'[t] = s => tokenOf[t] = s
          /\ \A r \in RTokens : refreshOf'[r] = s => refreshOf[r] = s]_vars

\* "Revocation ends the whole sign-in" (docs/security.md): a revoked sign-in
\* has no refresh token left, in memory or on disk, and no access token but
\* those the revocation is still to take away.
RevokedHoldsNothing ==
    \A s \in ended :
        /\ \A r \in grants \cup file : refreshOf[r] # s
        /\ TokensOf(s) \subseteq revoking[s]

\* "Each refresh token works once" (docs/security.md): a refresh token that was
\* exchanged is not in the store, the file or another request.
WorksOnce ==
    \A r \in redeemed :
        /\ r \notin grants \cup file
        /\ \A q \in Reqs : req[q].rt # r

\* A sign-in has one refresh token at most, in the store or being exchanged
OneRefreshToken ==
    \A s \in SignIns :
        /\ \A r1, r2 \in GrantsOf(s) : r1 = r2
        /\ \A q1, q2 \in Flights(s) : q1 = q2
        /\ GrantsOf(s) = {} \/ Flights(s) = {}

\* However requests, revocations and restarts interleave, a sign-in has one
\* refresh token at most, which works once.
RefreshTokensAccounted == TypeOK /\ WorksOnce /\ OneRefreshToken

\* A restart signs nobody out: until shutdown clears the store, the file holds
\* exactly its grants.
FileFollowsStore == phase # "reset" => file = grants

\* A grant's pool does not outlive its tokens: it is registered while the
\* sign-in has a token, or a cleanup callback is about to close it.
NoStrandedPool ==
    \A s \in grantPool : TokensOf(s) # {} \/ \E t \in closers \cup draining : tokenOf[t] = s

\* A revocation ends the tokens and the pool of its sign-in
RevocationCompletes ==
    \A s \in SignIns : s \in ended ~> TokensOf(s) = {} /\ s \notin grantPool

\* The sign-ins implement GrantLifetimes: what a sign-in can go on with is the
\* refresh token that the file holds of it or a request is exchanging, unless a
\* revocation has reached it.  So no order of refreshes, revocations, stops and
\* restarts gives a sign-in two lines of tokens, or one that is over any token.
BegunSignIns == {s \in SignIns : code[s] # "fresh"}
Exchangeable == {s \in SignIns : code[s] = "pending"}
Exchanging == {req[q].rt : q \in {p \in Reqs : req[p].pc = "checking"}}
Renewable == {r \in file \cup Exchanging : refreshOf[r] \notin ended}
RenewalsOf == [s \in SignIns |-> {r \in Renewable : refreshOf[r] = s}]

Lifetimes == INSTANCE GrantLifetimes WITH
    begun <- BegunSignIns, codes <- Exchangeable, renewals <- RenewalsOf,
    accepted <- sessions, over <- ended

ImplementsLifetimes == Lifetimes!Spec

(***************************************************************************)
(* Statements of the documentation that the code does not keep             *)
(***************************************************************************)

\* docs/security.md: "Revoking either the access token or the refresh token
\* ends both, and every access token refreshed from the same sign-in."
RevocationIsFinal ==
    [][\A s \in asked : \A t \in Tokens : tokenOf'[t] = s => tokenOf[t] = s]_vars

\* oauth.ts, resetOAuthState: "A state file is left as it is, for the next
\* start."  Once the store is cleared, the file loses no grant but those the
\* store has got since.
ShutdownKeepsFile ==
    [][phase = "reset" /\ phase' = "reset" => file \ file' \subseteq grants]_vars

=============================================================================
