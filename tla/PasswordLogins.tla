---------------------------- MODULE PasswordLogins ----------------------------
(* POST /auth: credentials proven on a pool that becomes the token's own, the   *)
(* limit on tokens, their expiry with the cleanup it triggers, and shutdown     *)
(* while logins are under way. A login that succeeds stands for its token too.  *)
(* What the pools do below their keys is in PoolRegistry; tokens of the OAuth   *)
(* server, which share the limit, are in OAuthGrants.                           *)
(* Files: src/transports/http.ts, src/auth/{login,tokenManager}.ts              *)
EXTENDS Naturals, FiniteSets

CONSTANTS
    Logins,         \* requests to POST /auth
    MaxRuns,        \* bound: runs of the token cleanup that can overlap
    TokenLimit,    \* MCP_MAX_SESSIONS
    NoLogin

ASSUME LoginsAssumption ==
    NoLogin \notin Logins /\ IsFiniteSet(Logins) /\ TokenLimit \in Nat /\ MaxRuns \in Nat

VARIABLES
    attempt,    \* the requests
    audited,    \* sign_in events of a request
    pool,       \* under the key of the check, then under the token
    token,
    cleanup,    \* the runs
    downStep,      \* of shutdownHttpServer()
    late        \* history: logins that came when shutdown had begun to close pools

loginVars == <<attempt, audited, pool, token, cleanup, downStep, late>>

(* Run 0 is the one that shutdown makes *)
DrainRun == 0
Sweeps == 1..MaxRuns
Runs == {DrainRun} \cup Sweeps
(* sessions: the MCP sessions of a token are being closed. pool: its pool is.   *)
(* next: the pool's key was gone already.                                       *)
CleanupRuns == [at : Logins \cup {NoLogin}, todo : SUBSET Logins, step : {"idle", "sessions", "pool", "next"}]
NoRun == [at |-> NoLogin, todo |-> {}, step |-> "idle"]

LoginTypeOK ==
    /\ attempt \in [Logins -> {"none", "testing", "refused", "full", "done"}]
    /\ audited \in [Logins -> SUBSET {"success", "failure", "error"}]
    /\ pool \in [Logins -> {"none", "check", "token", "closing", "closed"}]
    /\ token \in [Logins -> {"none", "live", "expired", "ended"}]
    /\ cleanup \in [Runs -> CleanupRuns]
    /\ downStep \in {"serving", "tokens", "pools", "stopping", "closed"}
    /\ late \subseteq Logins

LoginInit ==
    /\ attempt = [l \in Logins |-> "none"]
    /\ audited = [l \in Logins |-> {}]
    /\ pool = [l \in Logins |-> "none"]
    /\ token = [l \in Logins |-> "none"]
    /\ cleanup = [w \in Runs |-> NoRun]
    /\ downStep = "serving" /\ late = {}

HeldTokens == {l \in Logins : token[l] \in {"live", "expired"}}
Listening == downStep \in {"serving", "tokens", "pools"}

Audit(l, outcome) == audited' = [audited EXCEPT ![l] = @ \cup {outcome}]

(* closeCheckPool(): a key that is gone leaves nothing to close *)
CloseCheckPool(l) == pool' = [pool EXCEPT ![l] = IF @ = "check" THEN "closing" ELSE @]

-----------------------------------------------------------------------------
(* Logins *)

(* A malformed request, an unknown system or a host that is not allowed *)
RejectRequest(l) ==
    /\ Listening /\ attempt[l] = "none"
    /\ attempt' = [attempt EXCEPT ![l] = "done"]
    /\ Audit(l, "failure")
    /\ UNCHANGED <<pool, token, cleanup, downStep, late>>

TestCredentials(l) ==
    /\ Listening /\ attempt[l] = "none"
    /\ attempt' = [attempt EXCEPT ![l] = "testing"]
    /\ pool' = [pool EXCEPT ![l] = "check"]
    /\ late' = IF downStep = "pools" THEN late \cup {l} ELSE late
    /\ UNCHANGED <<audited, token, cleanup, downStep>>

(* Mutant: only a login that succeeded clears its check's pool away *)
CheckFailsKeeping(l) ==
    /\ attempt[l] = "testing"
    /\ attempt' = [attempt EXCEPT ![l] = "refused"]
    /\ UNCHANGED <<audited, pool, token, cleanup, downStep, late>>

CheckFails(l) ==
    /\ attempt[l] = "testing"
    /\ attempt' = [attempt EXCEPT ![l] = "refused"]
    /\ CloseCheckPool(l)
    /\ UNCHANGED <<audited, token, cleanup, downStep, late>>

(* A refused login is answered when its pool is closed *)
AnswerRefused(l) ==
    /\ attempt[l] = "refused" /\ pool[l] # "closing"
    /\ attempt' = [attempt EXCEPT ![l] = "done"]
    /\ Audit(l, "failure")
    /\ UNCHANGED <<pool, token, cleanup, downStep, late>>

(* canCreateSession() and createSession() see the same tokens: nothing is      *)
(* awaited between them, so the limit needs no second look.                    *)
LimitReached(l) ==
    /\ attempt[l] = "testing"
    /\ Cardinality(HeldTokens) >= TokenLimit
    /\ attempt' = [attempt EXCEPT ![l] = "full"]
    /\ Audit(l, "error")
    /\ CloseCheckPool(l)
    /\ UNCHANGED <<token, cleanup, downStep, late>>

EndFull(l) ==
    /\ attempt[l] = "full" /\ pool[l] # "closing"
    /\ attempt' = [attempt EXCEPT ![l] = "done"]
    /\ UNCHANGED <<audited, pool, token, cleanup, downStep, late>>

(* handOverPool(): the token is new, so the pool moves, unless shutdown has    *)
(* taken its key.                                                              *)
SignInUser(l) ==
    /\ attempt[l] = "testing"
    /\ Cardinality(HeldTokens) < TokenLimit
    /\ attempt' = [attempt EXCEPT ![l] = "done"]
    /\ token' = [token EXCEPT ![l] = "live"]
    /\ pool' = [pool EXCEPT ![l] = IF @ = "check" THEN "token" ELSE @]
    /\ Audit(l, "success")
    /\ UNCHANGED <<cleanup, downStep, late>>

LoginPoolCloses(l) ==
    /\ pool[l] = "closing"
    /\ pool' = [pool EXCEPT ![l] = "closed"]
    /\ UNCHANGED <<attempt, audited, token, cleanup, downStep, late>>

-----------------------------------------------------------------------------
(* The end of tokens *)

TokenExpires(l) ==
    /\ token[l] = "live"
    /\ token' = [token EXCEPT ![l] = "expired"]
    /\ UNCHANGED <<attempt, audited, pool, cleanup, downStep, late>>

(* A run drops a token and notifies; the ones it still has to do stay in the   *)
(* map meanwhile, where a request or the next run may find them too.           *)
Notify(w, l, rest) ==
    /\ cleanup' = [cleanup EXCEPT ![w] = [at |-> l, todo |-> rest, step |-> "sessions"]]
    /\ token' = [token EXCEPT ![l] = "ended"]

Found(w) ==
    IF downStep = "serving" THEN {l \in Logins : token[l] = "expired"} ELSE {}

(* Mutant: one run at a time *)
StartsAlone(w) == \A v \in Runs : cleanup[v].step = "idle"

Starts(w) == cleanup[w].step = "idle" /\ \A v \in 1..w - 1 : cleanup[v].step # "idle"

(* cleanupExpiredSessions(), every minute, whether or not the last run is over *)
SweepTokens(w) ==
    /\ Starts(w)
    /\ \E l \in Found(w) : Notify(w, l, Found(w) \ {l})
    /\ UNCHANGED <<attempt, audited, pool, downStep, late>>

(* validateToken() drops the expired token of a request *)
ValidateExpired(w, l) ==
    /\ Listening /\ Starts(w) /\ token[l] = "expired"
    /\ Notify(w, l, {})
    /\ UNCHANGED <<attempt, audited, pool, downStep, late>>

(* The callback closes the MCP sessions, and then the pool *)
SessionsGone(w) ==
    /\ cleanup[w].step = "sessions"
    /\ LET l == cleanup[w].at
       IN  IF pool[l] = "token"
           THEN /\ pool' = [pool EXCEPT ![l] = "closing"]
                /\ cleanup' = [cleanup EXCEPT ![w].step = "pool"]
           ELSE cleanup' = [cleanup EXCEPT ![w].step = "next"] /\ UNCHANGED pool
    /\ UNCHANGED <<attempt, audited, token, downStep, late>>

NextToken(w) ==
    /\ \/ cleanup[w].step = "next"
       \/ cleanup[w].step = "pool" /\ pool[cleanup[w].at] = "closed"
    /\ IF cleanup[w].todo = {} THEN cleanup' = [cleanup EXCEPT ![w] = NoRun] /\ UNCHANGED token
       ELSE \E l \in cleanup[w].todo : Notify(w, l, cleanup[w].todo \ {l})
    /\ UNCHANGED <<attempt, audited, pool, downStep, late>>

-----------------------------------------------------------------------------
(* Shutdown: tokens, pools, server. Requests are served until the last. *)

ShutTokens ==
    /\ downStep = "serving"
    /\ downStep' = "tokens"
    /\ token' = [l \in Logins |-> IF l \in HeldTokens THEN "ended" ELSE token[l]]
    /\ cleanup' = [cleanup EXCEPT ![DrainRun] =
                      IF HeldTokens = {} THEN NoRun ELSE [NoRun EXCEPT !.todo = HeldTokens, !.step = "next"]]
    /\ UNCHANGED <<attempt, audited, pool, late>>

(* closeAllSessionPools() closes what is registered now, side by side *)
ShutPools ==
    /\ downStep = "tokens" /\ cleanup[DrainRun] = NoRun
    /\ downStep' = "pools"
    /\ LET open == {l \in Logins : pool[l] \in {"check", "token"}}
       IN  /\ pool' = [l \in Logins |-> IF l \in open THEN "closing" ELSE pool[l]]
           /\ cleanup' = [cleanup EXCEPT ![DrainRun].todo = open]
    /\ UNCHANGED <<attempt, audited, token, late>>

StopServer ==
    /\ downStep = "pools"
    /\ \A l \in cleanup[DrainRun].todo : pool[l] = "closed"
    /\ downStep' = "stopping"
    /\ UNCHANGED <<attempt, audited, pool, token, cleanup, late>>

(* server.close() ends with the last request *)
ServerStopped ==
    /\ downStep = "stopping"
    /\ \A l \in Logins : attempt[l] \in {"none", "done"}
    /\ downStep' = "closed"
    /\ UNCHANGED <<attempt, audited, pool, token, cleanup, late>>

-----------------------------------------------------------------------------
LoginNext ==
    \/ \E l \in Logins :
          \/ RejectRequest(l) \/ TestCredentials(l) \/ CheckFails(l) \/ AnswerRefused(l)
          \/ LimitReached(l) \/ EndFull(l) \/ SignInUser(l)
          \/ LoginPoolCloses(l) \/ TokenExpires(l)
    \/ \E w \in Sweeps : SweepTokens(w) \/ \E l \in Logins : ValidateExpired(w, l)
    \/ \E w \in Runs : SessionsGone(w) \/ NextToken(w)
    \/ ShutTokens \/ ShutPools \/ StopServer \/ ServerStopped

LoginSpec == LoginInit /\ [][LoginNext]_loginVars

(* The timer goes off every minute, and what a run awaits before it closes a   *)
(* pool has time limits. A pool may never close.                               *)
LoginFairness ==
    /\ WF_loginVars(\E w \in Sweeps : SweepTokens(w))
    /\ \A w \in Sweeps : WF_loginVars(SessionsGone(w)) /\ WF_loginVars(NextToken(w))

-----------------------------------------------------------------------------
(* Properties *)

(* No login leaves a pool behind, whether it fails, finds the server full or    *)
(* races with shutdown: an open pool is a check's, a token's, or that of a      *)
(* token some run has still to clean up; after shutdown only logins that came   *)
(* while it closed pools have one. Tokens keep their limit, and each request    *)
(* is audited once, as a success just when there is a token.                    *)
LoginPoolsAccounted ==
    /\ LoginTypeOK
    /\ \A l \in Logins :
          /\ pool[l] = "check" => attempt[l] = "testing"
          /\ pool[l] = "token" =>
                \/ l \in HeldTokens
                \/ \E w \in Runs : l \in cleanup[w].todo \/ (cleanup[w].at = l /\ cleanup[w].step = "sessions")
          /\ downStep = "closed" /\ pool[l] \in {"check", "token"} => l \in late
          /\ attempt[l] = "done" => audited[l] = IF token[l] # "none" THEN {"success"}
                                                 ELSE audited[l] \ {"success"}
          /\ attempt[l] = "done" => Cardinality(audited[l]) = 1
    /\ Cardinality(HeldTokens) <= TokenLimit

(* An expired token's pool begins to close although nobody uses the token again *)
(* and the pools of other tokens never finish closing; until shutdown.          *)
ExpiredPoolsClose ==
    \A l \in Logins : token[l] = "expired" ~> pool[l] # "token" \/ downStep # "serving"

=============================================================================
