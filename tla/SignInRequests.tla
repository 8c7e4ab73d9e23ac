---------------------------- MODULE SignInRequests ----------------------------
(* From a client's registration to its first tokens: the client ID and the      *)
(* sign-in form carry their own signed content, the code they lead to is kept   *)
(* in memory with the pool of the credential check, and the exchange compares   *)
(* what the client sends with what the user signed in for. A restart may bring  *)
(* another list of redirect URIs or, when no secret is configured, another      *)
(* secret. What becomes of the tokens afterwards is in OAuthGrants.             *)
(* File: src/auth/oauth.ts                                                      *)
EXTENDS Naturals, FiniteSets

CONSTANTS
    Clients, Uris,
    Verifiers,      \* a code verifier stands for its challenge too
    Allowlists,     \* values of MCP_OAUTH_REDIRECT_URIS, with the loopback URLs
    Posts,          \* posted sign-ins: each is an attempt, and the code it gets
    MaxPending,     \* MAX_PENDING_CODES
    MaxRestarts,    \* bound
    Absent          \* a parameter that was not sent, or nothing stored

ASSUME SignInsAssumption ==
    /\ Absent \notin Clients \cup Uris \cup Verifiers
    /\ \A list \in Allowlists : list \subseteq Uris
    /\ MaxPending \in Nat /\ MaxRestarts \in Nat
    /\ IsFiniteSet(Posts)

VARIABLES
    allowed,        \* isRedirectUriAllowed()
    registered,     \* what readClient() finds in a client ID: its redirect URIs
    form,           \* the LoginRequest of the sign-in page a browser shows
    post,
    request,        \* of a sign-in under way, then of its PendingCode
    authCode,       \* in pendingCodes or usedCodes
    checkPool,
    timers,         \* sign-ins whose CODE_TTL_MS timer is set
    issued,         \* history: the token request that was answered with tokens
    restarts

signInVars == <<allowed, registered, form, post, request, authCode, checkPool, timers, issued, restarts>>

LoginRequest == [client: Clients, uri: Uris, explicit: BOOLEAN, challenge: Verifiers]
TokenRequest == [client: Clients, uri: Uris \cup {Absent}, verifier: Verifiers \cup {Absent}]

SignInTypeOK ==
    /\ allowed \in Allowlists
    /\ registered \in [Clients -> SUBSET Uris]
    /\ form \in {Absent} \cup LoginRequest
    /\ post \in [Posts -> {"none", "checking", "answered"}]
    /\ request \in [Posts -> {Absent} \cup LoginRequest]
    /\ authCode \in [Posts -> {"none", "pending", "expired", "used", "gone"}]
    /\ checkPool \in [Posts -> {"none", "check", "grant", "closed"}]
    /\ timers \subseteq Posts
    /\ issued \in [Posts -> {Absent} \cup [asked: LoginRequest, sent: TokenRequest, live: BOOLEAN]]
    /\ restarts \in 0..MaxRestarts

SignInInit ==
    /\ allowed \in Allowlists
    /\ registered = [c \in Clients |-> {}]
    /\ form = Absent
    /\ post = [s \in Posts |-> "none"]
    /\ request = [s \in Posts |-> Absent]
    /\ authCode = [s \in Posts |-> "none"]
    /\ checkPool = [s \in Posts |-> "none"]
    /\ timers = {}
    /\ issued = [s \in Posts |-> Absent]
    /\ restarts = 0

Pending == {s \in Posts : authCode[s] \in {"pending", "expired"}}

(* closeCheckPool(): of a key that was handed over it finds nothing *)
Closing(s) == IF checkPool[s] = "check" THEN "closed" ELSE checkPool[s]
CloseCheck(s) == checkPool' = [checkPool EXCEPT ![s] = Closing(s)]

-----------------------------------------------------------------------------
(* Registration and the sign-in page *)

(* POST /oauth/register: nothing is stored, the ID itself lists the URIs *)
RegisterClient(c) ==
    /\ registered[c] = {}
    /\ \E list \in SUBSET allowed \ {{}} : registered' = [registered EXCEPT ![c] = list]
    /\ UNCHANGED <<allowed, form, post, request, authCode, checkPool, timers, issued, restarts>>

(* GET /oauth/authorize, with or without redirect_uri, which only a client with *)
(* one URI may leave out. Any other request is answered with an error.          *)
Authorize(c, u, v) ==
    /\ registered[c] # {}
    /\ u = Absent => Cardinality(registered[c]) = 1
    /\ LET uri == IF u = Absent THEN CHOOSE only \in registered[c] : TRUE ELSE u
       IN  /\ uri \in registered[c] \cap allowed
           /\ form' = [client |-> c, uri |-> uri, explicit |-> u # Absent, challenge |-> v]
    /\ UNCHANGED <<allowed, registered, post, request, authCode, checkPool, timers, issued, restarts>>

(* LOGIN_TTL_MS has passed, or the browser has gone *)
FormExpires ==
    /\ form # Absent
    /\ form' = Absent
    /\ UNCHANGED <<allowed, registered, post, request, authCode, checkPool, timers, issued, restarts>>

-----------------------------------------------------------------------------
(* POST /oauth/authorize *)

(* Mutant: the request was checked when its page was shown *)
PostSignInTrusting(s) ==
    /\ post[s] = "none"
    /\ form # Absent
    /\ post' = [post EXCEPT ![s] = "checking"]
    /\ request' = [request EXCEPT ![s] = form]
    /\ checkPool' = [checkPool EXCEPT ![s] = "check"]
    /\ UNCHANGED <<allowed, registered, form, authCode, timers, issued, restarts>>

(* The form's client and redirect URI must be right now, not only when the page *)
(* was shown. The page may be posted again.                                     *)
PostSignIn(s) ==
    /\ post[s] = "none"
    /\ form # Absent
    /\ form.uri \in registered[form.client] \cap allowed
    /\ post' = [post EXCEPT ![s] = "checking"]
    /\ request' = [request EXCEPT ![s] = form]
    /\ checkPool' = [checkPool EXCEPT ![s] = "check"]
    /\ UNCHANGED <<allowed, registered, form, authCode, timers, issued, restarts>>

Answer(s) == post' = [post EXCEPT ![s] = "answered"]
Forget(s) == request' = [request EXCEPT ![s] = Absent]

SignInRefused(s) ==
    /\ post[s] = "checking"
    /\ Answer(s) /\ Forget(s) /\ CloseCheck(s)
    /\ UNCHANGED <<allowed, registered, form, authCode, timers, issued, restarts>>

Swept == [s \in Posts |-> IF authCode[s] = "expired" THEN "gone" ELSE authCode[s]]

(* Expired codes make room, and leave their pools to their timers *)
TooManyPending(s) ==
    /\ post[s] = "checking"
    /\ Cardinality({p \in Posts : Swept[p] = "pending"}) >= MaxPending
    /\ Answer(s) /\ Forget(s) /\ CloseCheck(s)
    /\ authCode' = Swept
    /\ UNCHANGED <<allowed, registered, form, timers, issued, restarts>>

IssueCode(s) ==
    /\ post[s] = "checking"
    /\ Cardinality({p \in Posts : Swept[p] = "pending"}) < MaxPending
    /\ Answer(s)
    /\ authCode' = [Swept EXCEPT ![s] = "pending"]
    /\ timers' = timers \cup {s}
    /\ UNCHANGED <<allowed, registered, form, request, checkPool, issued, restarts>>

(* CODE_TTL_MS of a pending code, whose content nothing reads any more, or      *)
(* USED_CODE_TTL_MS of a used one.                                              *)
CodeExpires(s) ==
    /\ authCode[s] \in {"pending", "used"}
    /\ authCode' = [authCode EXCEPT ![s] = IF @ = "pending" THEN "expired" ELSE "gone"]
    /\ Forget(s)
    /\ UNCHANGED <<allowed, registered, form, post, checkPool, timers, issued, restarts>>

(* The timer was set for the time at which the code expires *)
CodeTimer(s) ==
    /\ s \in timers /\ authCode[s] # "pending"
    /\ timers' = timers \ {s}
    /\ CloseCheck(s)
    /\ UNCHANGED <<allowed, registered, form, post, request, authCode, issued, restarts>>

-----------------------------------------------------------------------------
(* POST /oauth/token with an authorization code, from a client whose ID the     *)
(* server can read: the one that signed the user in, or another.                *)

Matches(s, r) ==
    /\ authCode[s] = "pending"
    /\ r.client = request[s].client
    /\ IF r.uri = Absent THEN ~request[s].explicit ELSE r.uri = request[s].uri
    /\ r.verifier = request[s].challenge

(* Any of it wrong: the code is used up all the same, and its pool is closed *)
ExchangeRefused(s, r) ==
    /\ registered[r.client] # {}
    /\ s \in Pending /\ ~Matches(s, r)
    /\ authCode' = [authCode EXCEPT ![s] = "gone"]
    /\ Forget(s) /\ CloseCheck(s)
    /\ UNCHANGED <<allowed, registered, form, post, timers, issued, restarts>>

(* MCP_MAX_SESSIONS: no token, and the code counts as used *)
NoSessionLeft(s, r) ==
    /\ registered[r.client] # {}
    /\ Matches(s, r)
    /\ authCode' = [authCode EXCEPT ![s] = "used"]
    /\ Forget(s) /\ CloseCheck(s)
    /\ UNCHANGED <<allowed, registered, form, post, timers, issued, restarts>>

(* issueTokens() with handOverPool(): a new grant's key, so the pool moves *)
ExchangeCode(s, r) ==
    /\ registered[r.client] # {}
    /\ Matches(s, r)
    /\ authCode' = [authCode EXCEPT ![s] = "used"]
    /\ Forget(s)
    /\ issued' = [issued EXCEPT ![s] = [asked |-> request[s], sent |-> r, live |-> TRUE]]
    /\ checkPool' = [checkPool EXCEPT ![s] = IF @ = "check" THEN "grant" ELSE @]
    /\ UNCHANGED <<allowed, registered, form, post, timers, restarts>>

(* A used code, from any client: what it issued is revoked, whose last token    *)
(* takes the grant's pool along.                                                *)
ReplayCode(s) ==
    /\ \E c \in Clients : registered[c] # {}
    /\ authCode[s] = "used"
    /\ authCode' = [authCode EXCEPT ![s] = "gone"]
    /\ IF issued[s] = Absent THEN UNCHANGED <<issued, checkPool>>
       ELSE /\ issued' = [issued EXCEPT ![s].live = FALSE]
            /\ checkPool' = [checkPool EXCEPT ![s] = "closed"]
    /\ UNCHANGED <<allowed, registered, form, post, request, timers, restarts>>

-----------------------------------------------------------------------------
(* resetOAuthState() at shutdown *)
ResetState ==
    /\ authCode' = [s \in Posts |-> IF authCode[s] = "none" THEN "none" ELSE "gone"]
    /\ request' = [s \in Posts |-> IF post[s] = "checking" THEN request[s] ELSE Absent]
    /\ checkPool' = [s \in Posts |-> IF s \in Pending THEN Closing(s) ELSE checkPool[s]]
    /\ UNCHANGED <<allowed, registered, form, post, timers, issued, restarts>>

(* Another process, with the configured secret or, without one, a new one that  *)
(* no client ID and no form was signed with. Pages stay open in browsers.       *)
RestartProcess ==
    /\ restarts < MaxRestarts
    /\ restarts' = restarts + 1
    /\ allowed' \in Allowlists
    /\ \/ UNCHANGED <<registered, form>>
       \/ registered' = [c \in Clients |-> {}] /\ form' = Absent
    /\ post' = [s \in Posts |-> IF post[s] = "checking" THEN "answered" ELSE post[s]]
    /\ request' = [s \in Posts |-> Absent]
    /\ authCode' = [s \in Posts |-> IF authCode[s] = "none" THEN "none" ELSE "gone"]
    /\ checkPool' = [s \in Posts |-> IF checkPool[s] = "none" THEN "none" ELSE "closed"]
    /\ issued' = [s \in Posts |-> Absent]
    /\ timers' = {}

SignInNext ==
    \/ \E c \in Clients : RegisterClient(c)
    \/ \E c \in Clients, u \in Uris \cup {Absent}, v \in Verifiers : Authorize(c, u, v)
    \/ FormExpires
    \/ \E s \in Posts :
          \/ PostSignIn(s) \/ SignInRefused(s) \/ TooManyPending(s) \/ IssueCode(s)
          \/ CodeExpires(s) \/ CodeTimer(s) \/ ReplayCode(s)
          \/ \E r \in TokenRequest : ExchangeRefused(s, r) \/ NoSessionLeft(s, r) \/ ExchangeCode(s, r)
    \/ ResetState \/ RestartProcess

SignInSpec == SignInInit /\ [][SignInNext]_signInVars

-----------------------------------------------------------------------------
(* Properties *)

(* A code waits only for a client and a redirect URI that are right under the   *)
(* settings of this process, whichever process showed the page; no more codes   *)
(* wait than the limit. Its pool stays open until it is exchanged or expires,   *)
(* and a check's pool is never left open without a check, a code or a timer     *)
(* that ends it. Tokens go to the client the user signed in for, with its       *)
(* verifier, and a pool is a grant's as long as they live.                      *)
SignInsAccounted ==
    /\ SignInTypeOK
    /\ Cardinality({s \in Posts : authCode[s] = "pending"}) <= MaxPending
    /\ \A s \in Posts :
          /\ authCode[s] = "pending" =>
                /\ request[s].uri \in registered[request[s].client] \cap allowed
                /\ checkPool[s] = "check"
          /\ checkPool[s] = "check" => post[s] = "checking" \/ s \in timers
          /\ issued[s] # Absent =>
                /\ issued[s].sent.client = issued[s].asked.client
                /\ issued[s].sent.verifier = issued[s].asked.challenge
                /\ checkPool[s] = IF issued[s].live THEN "grant" ELSE "closed"

=============================================================================
