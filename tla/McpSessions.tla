----------------------------- MODULE McpSessions ------------------------------
(***************************************************************************)
(* MCP sessions over HTTP and the end of the process: the requests of      *)
(* /mcp in MCP_SESSION_MODE=stateful (transports/http.ts), SessionManager   *)
(* (transports/sessionManager.ts), the cleanup of a caller whose last token *)
(* ended, and shutdown (lifecycle.ts, shutdownHttpServer).                  *)
(*                                                                         *)
(* A caller is a pool key: one token of POST /auth, or all tokens of one    *)
(* OAuth grant.  MCP_AUTH_MODE is required.                                 *)
(* Left out: what requests do, how a token is come by (modules OAuthGrants  *)
(* and PasswordLogins), what becomes of a key's pools below it (module      *)
(* PoolRegistry), and the stdio transport, which shutdown closes alongside. *)
(* Nobody names the session ID of another caller, a random UUID: getSession *)
(* would count that as use before the owner is checked.                     *)
(* Stale sweeps do not overlap: they are a minute apart.                    *)
(***************************************************************************)
EXTENDS Integers, FiniteSets

CONSTANTS
    Keys,      \* callers, as pool keys
    Tokens,    \* tokens; bounds how many are issued
    KeyOf,     \* sessionPoolKey: the grant of a token, or the token itself
    Sessions,  \* MCP session IDs; bounds how many sessions are created
    Reqs,      \* concurrent HTTP requests
    None

ASSUME NoneAssumption == None \notin Keys \cup Sessions \cup {0, 1}
ASSUME TokensAssumption == KeyOf \in [Tokens -> Keys] /\ None \notin Tokens
ASSUME LoopAssumption == {"sweep", "shutdown"} \cap Tokens = {}
ASSUME ReqsAssumption == IsFiniteSet(Reqs)

VARIABLES
    token,       \* tokens: "held" in TokenManager.sessions, or where the
                 \* cleanup callback of an ended one is
    sess,        \* SessionManager.sessions, with what became of each ID
    stale,       \* sessions idle for longer than staleTimeoutMs
    req,         \* the requests
    loop,        \* loops that await closeSession of one session after another
    turn,        \* the token whose callback TokenManager.shutdown awaits
    down,        \* "up", then the steps of shutdownHttpServer
    exit,        \* the exit code
    closes,      \* history: how often each session's transport was closed
    late,        \* history: sessions registered when their key had no token
    pooled,      \* keys the pool registry has an owner for
    taken        \* history: keys with a token whose owner a failed initialize
                 \* closed, or a callback that did not know of the token

sessionVars == <<sess, stale, loop, closes, late>>
tokenVars   == <<token, turn>>
lifeVars    == <<down, exit>>
poolVars    == <<pooled, taken>>
vars == <<req, sessionVars, tokenVars, lifeVars, poolVars>>

Loops   == Tokens \cup {"sweep", "shutdown"}
Done    == [todo |-> {}, cur |-> None]
Idle    == [pc |-> "idle", tok |-> None, key |-> None, sid |-> None]
Unborn  == [pc |-> "free", key |-> None, active |-> 0]

TypeOK ==
    /\ token \in [Tokens -> {"none", "held", "draining", "sessions", "overtaken", "pool", "done"}]
    /\ sess \in [Sessions -> {Unborn} \cup [pc: {"open", "closing", "gone"}, key: Keys,
                                            active: 0..Cardinality(Reqs)]]
    /\ stale \subseteq Sessions
    /\ req \in [Reqs -> {Idle} \cup
                  [pc: {"probing"}, tok: Tokens, key: Keys, sid: {None}] \cup
                  [pc: {"connecting", "running"}, tok: {None}, key: Keys, sid: {None}] \cup
                  [pc: {"handling", "streaming", "deleting"}, tok: {None}, key: Keys, sid: Sessions]]
    /\ loop \in [Loops -> [todo: SUBSET Sessions, cur: Sessions \cup {None}]]
    /\ turn \in Tokens \cup {None}
    /\ down \in {"up", "handler", "sessions", "tokens", "server", "closed"}
    /\ exit \in {None, 0, 1}
    /\ closes \in [Sessions -> Nat]
    /\ late \subseteq Sessions
    /\ pooled \subseteq Keys /\ taken \subseteq Keys

Init ==
    /\ token = [t \in Tokens |-> "none"]
    /\ sess = [s \in Sessions |-> Unborn]
    /\ stale = {}
    /\ req = [r \in Reqs |-> Idle]
    /\ loop = [l \in Loops |-> Done]
    /\ turn = None
    /\ down = "up"
    /\ exit = None
    /\ closes = [s \in Sessions |-> 0]
    /\ late = {}
    /\ pooled = {} /\ taken = {}

InMap   == {s \in Sessions : sess[s].pc \in {"open", "closing"}}
Open    == {s \in Sessions : sess[s].pc = "open"}

TokensIn(states) == {t \in Tokens : token[t] \in states}
KeysOf(toks)     == {KeyOf[t] : t \in toks}
HeldKeys         == KeysOf(TokensIn({"held"}))

\* Mutant: closeSessionsByToken skips the sessions in use, as the sweep does
OfKeyUnused(k) == {s \in InMap : sess[s].key = k /\ sess[s].active = 0}

OfKey(k) == {s \in InMap : sess[s].key = k}

\* getSession of a session the caller owns
Owned(r, s) == s \in Open /\ sess[s].key = req[r].key

-----------------------------------------------------------------------------
(***************************************************************************)
(* Closing sessions                                                        *)
(***************************************************************************)

\* closeSession goes on only with a session nobody is closing.  The onclose of
\* the transport it closes calls it again, and finds isClosing.
MayClose(s) == s \in Open

\* The part of closeSession before its awaits
StartClose(s) ==
    /\ sess' = [sess EXCEPT ![s].pc = "closing"]
    /\ closes' = [closes EXCEPT ![s] = @ + 1]

\* One turn of a loop: await closeSession, which returns at once with false
\* when the session is gone or closing
LoopNext(l) ==
    /\ loop[l].cur = None
    /\ \E s \in loop[l].todo :
         IF MayClose(s)
         THEN /\ StartClose(s)
              /\ loop' = [loop EXCEPT ![l] = [todo |-> @.todo \ {s}, cur |-> s]]
         ELSE /\ loop' = [loop EXCEPT ![l].todo = @ \ {s}]
              /\ UNCHANGED <<sess, closes>>
    /\ UNCHANGED <<req, stale, late, tokenVars, lifeVars, poolVars>>

\* Transport and server have closed or failed to: the session leaves the map,
\* and the loop or the DELETE that closed it goes on
CloseEnds(s) ==
    /\ sess[s].pc = "closing"
    /\ sess' = [sess EXCEPT ![s] = [pc |-> "gone", key |-> @.key, active |-> 0]]
    /\ stale' = stale \ {s}
    /\ loop' = [l \in Loops |-> IF loop[l].cur = s THEN [loop[l] EXCEPT !.cur = None]
                                ELSE loop[l]]
    /\ req' = [r \in Reqs |-> IF req[r].pc = "deleting" /\ req[r].sid = s THEN Idle
                              ELSE req[r]]
    /\ UNCHANGED <<closes, late, tokenVars, lifeVars, poolVars>>

\* A session was last accessed more than 30 minutes ago
GoStale(s) ==
    /\ s \in Open \ stale
    /\ stale' = stale \cup {s}
    /\ UNCHANGED <<req, sess, loop, closes, late, tokenVars, lifeVars, poolVars>>

\* Mutant: sessions of ended tokens are left to the token's cleanup
StaleSessionsOfTokens == {s \in Open \cap stale : sess[s].active = 0 /\ sess[s].key \in HeldKeys}

StaleSessions == {s \in Open \cap stale : sess[s].active = 0}

\* cleanupStaleSessions picks its sessions, until shutdown clears the timer
Sweep ==
    /\ down \in {"up", "handler"}
    /\ loop["sweep"] = Done
    /\ StaleSessions # {}
    /\ loop' = [loop EXCEPT !["sweep"].todo = StaleSessions]
    /\ UNCHANGED <<req, sess, stale, closes, late, tokenVars, lifeVars, poolVars>>

-----------------------------------------------------------------------------
(***************************************************************************)
(* Requests                                                                *)
(***************************************************************************)

\* authMiddleware accepts the token, and the request waits for its body to be
\* classified (toWebRequest, isLegacyRequest)
Arrive(r) ==
    /\ down # "closed"
    /\ req[r] = Idle
    /\ \E t \in TokensIn({"held"}) :
          req' = [req EXCEPT ![r] = [pc |-> "probing", tok |-> t, key |-> KeyOf[t], sid |-> None]]
    /\ UNCHANGED <<sessionVars, tokenVars, lifeVars, poolVars>>

\* initializeSessionPool, or moveSessionPool at a hand-over
RegisterPool(k) ==
    /\ pooled' = pooled \cup {k}
    /\ taken' = taken \ {k}

\* closeSessionPool: the owner leaves the registry at once
DropPool(k) == pooled' = pooled \ {k}

\* A probing request goes on, and its token is not looked at again
Goes(r, pc, sid) == req' = [req EXCEPT ![r].pc = pc, ![r].tok = None, ![r].sid = sid]

\* A stateless request: createHttpMcpServer validates the token again
Stateless(r) ==
    /\ req[r].pc = "probing"
    /\ IF token[req[r].tok] = "held"
       THEN Goes(r, "running", None) /\ RegisterPool(KeyOf[req[r].tok])
       ELSE req' = [req EXCEPT ![r] = Idle] /\ UNCHANGED poolVars
    /\ UNCHANGED <<sessionVars, tokenVars, lifeVars>>

\* No session ID where one is needed, or one the caller has no session for
Refuse(r) ==
    /\ req[r].pc = "probing"
    /\ req' = [req EXCEPT ![r] = Idle]
    /\ UNCHANGED <<sessionVars, tokenVars, lifeVars, poolVars>>

\* GET opens the session's event stream, which activeRequests does not count
Get(r, s) ==
    /\ req[r].pc = "probing"
    /\ Owned(r, s)
    /\ stale' = stale \ {s}
    /\ Goes(r, "streaming", s)
    /\ UNCHANGED <<sess, loop, closes, late, tokenVars, lifeVars, poolVars>>

\* POST with a session ID
Post(r, s) ==
    /\ req[r].pc = "probing"
    /\ Owned(r, s)
    /\ stale' = stale \ {s}
    /\ sess' = [sess EXCEPT ![s].active = @ + 1]
    /\ Goes(r, "handling", s)
    /\ UNCHANGED <<loop, closes, late, tokenVars, lifeVars, poolVars>>

\* DELETE awaits closeSession
Delete(r, s) ==
    /\ req[r].pc = "probing"
    /\ Owned(r, s)
    /\ StartClose(s)
    /\ stale' = stale \ {s}
    /\ Goes(r, "deleting", s)
    /\ UNCHANGED <<loop, late, tokenVars, lifeVars, poolVars>>

\* POST of an initialize request registers the key the request came with,
\* whatever became of its token, and awaits server.connect
Initialize(r) ==
    /\ req[r].pc = "probing"
    /\ Goes(r, "connecting", None)
    /\ RegisterPool(req[r].key)
    /\ UNCHANGED <<sessionVars, tokenVars, lifeVars>>

\* createSession adds the session, and the transport handles the request
Connected(r) ==
    /\ req[r].pc = "connecting"
    /\ \E s \in Sessions :
         /\ sess[s] = Unborn
         /\ sess' = [sess EXCEPT ![s] = [pc |-> "open", key |-> req[r].key, active |-> 0]]
         /\ late' = IF req[r].key \in HeldKeys THEN late ELSE late \cup {s}
    /\ req' = [req EXCEPT ![r].pc = "running"]
    /\ UNCHANGED <<stale, loop, closes, tokenVars, lifeVars, poolVars>>

\* The server cannot be created or connected: what exists of it is closed, and
\* the key's pools with it, which other sessions of the caller may use
ConnectFails(r) ==
    /\ req[r].pc = "connecting"
    /\ req' = [req EXCEPT ![r] = Idle]
    /\ DropPool(req[r].key)
    /\ taken' = taken \cup ({req[r].key} \cap HeldKeys)
    /\ UNCHANGED <<sessionVars, tokenVars, lifeVars>>

\* Mutant: the request ends through getSession, which hides a closing session
CountedOpen(s) == s \in Open /\ sess[s].active > 0

\* decrementActiveRequests finds the session, closing or not
Counted(s) == s \in InMap /\ sess[s].active > 0

\* The transport has answered, or its client is gone
Answered(r) ==
    /\ req[r].pc \in {"running", "handling", "streaming"}
    /\ req' = [req EXCEPT ![r] = Idle]
    /\ LET s == req[r].sid
       IN  IF req[r].pc = "handling" /\ Counted(s)
           THEN /\ sess' = [sess EXCEPT ![s].active = @ - 1]
                /\ stale' = stale \ {s}
           ELSE UNCHANGED <<sess, stale>>
    /\ UNCHANGED <<loop, closes, late, tokenVars, lifeVars, poolVars>>

-----------------------------------------------------------------------------
(***************************************************************************)
(* Tokens come and end                                                     *)
(***************************************************************************)

\* POST /auth, or the exchange of a code or a refresh token, made a token after
\* its sign-on and hands the pool of its check over at once.  closeAllSessionPools
\* may have closed that pool.  A callback of the key that is still at its
\* sessions does not learn of the token.
SignIn(t) ==
    /\ token[t] = "none"
    /\ down # "closed"
    /\ token' = [u \in Tokens |->
                    IF u = t THEN "held"
                    ELSE IF token[u] = "sessions" /\ KeyOf[u] = KeyOf[t] THEN "overtaken"
                    ELSE token[u]]
    /\ \/ RegisterPool(KeyOf[t])
       \/ down = "server" /\ UNCHANGED poolVars
    /\ UNCHANGED <<req, sessionVars, turn, lifeVars>>

\* Mutant: the callback takes every token for the last of its key
NoGrant(t) == FALSE

\* hasGrant, asked for a token that is no longer held
HasGrant(t) == \E u \in TokensIn({"held"}) \ {t} : KeyOf[u] = KeyOf[t]

\* The cleanup callback up to its first await: it returns when the grant has
\* another token, else closeSessionsByToken picks the sessions of the key
StartCleanup(t) ==
    IF HasGrant(t)
    THEN token' = [token EXCEPT ![t] = "done"] /\ UNCHANGED loop
    ELSE /\ token' = [token EXCEPT ![t] = "sessions"]
         /\ loop' = [loop EXCEPT ![t].todo = OfKey(KeyOf[t])]

\* Revoked, or found expired by a request or the minute's sweep
EndToken(t) ==
    /\ token[t] = "held"
    /\ StartCleanup(t)
    /\ taken' = IF HasGrant(t) THEN taken ELSE taken \ {KeyOf[t]}
    /\ UNCHANGED <<req, sess, stale, closes, late, turn, lifeVars, pooled>>

\* The minute's sweep took this token and another as expired, and while it
\* awaited the other's callback this one ended by other means: it notifies again
\* (here only once the first callback of this one is through)
CleanupAgain(t) ==
    /\ token[t] = "done"
    /\ \E u \in Tokens \ {t} : token[u] = "done"
    /\ StartCleanup(t)
    /\ UNCHANGED <<req, sess, stale, closes, late, turn, lifeVars, poolVars>>

\* The callback goes on: closeSessionPool closes the key's pools, although a
\* token may have been issued since hasGrant was asked
CleanupPool(t) ==
    /\ token[t] \in {"sessions", "overtaken"}
    /\ loop[t] = Done
    /\ token' = [token EXCEPT ![t] = "pool"]
    /\ DropPool(KeyOf[t])
    /\ taken' = IF token[t] = "overtaken" THEN taken \cup ({KeyOf[t]} \cap HeldKeys) ELSE taken
    /\ UNCHANGED <<req, sessionVars, turn, lifeVars>>

\* The key's pools have closed
CleanupEnds(t) ==
    /\ token[t] = "pool"
    /\ token' = [token EXCEPT ![t] = "done"]
    /\ turn' = IF turn = t THEN None ELSE turn
    /\ UNCHANGED <<req, sessionVars, lifeVars, poolVars>>

-----------------------------------------------------------------------------
(***************************************************************************)
(* Shutdown                                                                *)
(***************************************************************************)

\* The first signal: shutdownHttpServer closes the MCP handler.  Later signals
\* find the shutdown running.
Signal ==
    /\ down = "up"
    /\ down' = "handler"
    /\ UNCHANGED <<req, sessionVars, tokenVars, exit, poolVars>>

\* The MCP handler has closed; SessionManager.shutdown stops the sweeps and
\* takes its sessions one by one
ShutSessions ==
    /\ down = "handler"
    /\ down' = "sessions"
    /\ loop' = [loop EXCEPT !["shutdown"].todo = InMap]
    /\ UNCHANGED <<req, sess, stale, closes, late, tokenVars, exit, poolVars>>

\* Mutant: TokenManager.shutdown clears its tokens and notifies nobody
ShutTokensQuietly ==
    /\ down = "sessions"
    /\ loop["shutdown"] = Done
    /\ down' = "tokens"
    /\ token' = [t \in Tokens |-> IF token[t] = "held" THEN "done" ELSE token[t]]
    /\ taken' = {}
    /\ UNCHANGED <<req, sessionVars, turn, exit, pooled>>

\* TokenManager.shutdown clears its tokens, and then notifies of each.  Sign-ins
\* under way, and requests on connections still open, make new ones.
ShutTokens ==
    /\ down = "sessions"
    /\ loop["shutdown"] = Done
    /\ down' = "tokens"
    /\ token' = [t \in Tokens |-> IF token[t] = "held" THEN "draining" ELSE token[t]]
    /\ taken' = {}
    /\ UNCHANGED <<req, sessionVars, turn, exit, pooled>>

\* It awaits one callback after the other
DrainNext(t) ==
    /\ down = "tokens"
    /\ turn = None
    /\ token[t] = "draining"
    /\ StartCleanup(t)
    /\ turn' = IF HasGrant(t) THEN None ELSE t
    /\ UNCHANGED <<req, sess, stale, closes, late, lifeVars, poolVars>>

\* closeAllSessionPools takes the owners there are, and when their pools are
\* closed server.close ends the listening.  Until then, and while requests on
\* open connections last, tokens are issued and sessions opened that nothing
\* closes.
ShutServer ==
    /\ down = "tokens"
    /\ TokensIn({"draining"}) = {} /\ turn = None
    /\ down' = "server"
    /\ pooled' = {}
    /\ UNCHANGED <<req, sessionVars, tokenVars, exit, taken>>

\* The callback of server.close comes when the last request has ended
Quiet == \A r \in Reqs : req[r] = Idle

ServerClosed ==
    /\ down = "server"
    /\ Quiet
    /\ down' = "closed"
    /\ UNCHANGED <<req, sessionVars, tokenVars, exit, poolVars>>

\* The transports are closed.  The stdio pools and the exports follow, which
\* change nothing here, and the process ends.
Finish ==
    /\ down = "closed"
    /\ exit' = 0
    /\ UNCHANGED <<req, sessionVars, tokenVars, down, poolVars>>

\* SHUTDOWN_DEADLINE_MS is over
Deadline ==
    /\ down # "up"
    /\ exit' = 1
    /\ UNCHANGED <<req, sessionVars, tokenVars, down, poolVars>>

-----------------------------------------------------------------------------
Settles(r) ==
    \/ Stateless(r) \/ Refuse(r) \/ Initialize(r)
    \/ \E s \in Sessions : Get(r, s) \/ Post(r, s) \/ Delete(r, s)

RequestNext(r) ==
    \/ Arrive(r) \/ Settles(r) \/ Connected(r) \/ ConnectFails(r) \/ Answered(r)

TokenNext(t) ==
    \/ SignIn(t) \/ EndToken(t) \/ CleanupAgain(t) \/ CleanupPool(t) \/ CleanupEnds(t)
    \/ DrainNext(t)

SessionNext == Sweep \/ (\E l \in Loops : LoopNext(l)) \/ (\E s \in Sessions : CloseEnds(s) \/ GoStale(s))

LifeNext ==
    \/ Signal \/ ShutSessions \/ ShutTokens \/ ShutServer \/ ServerClosed \/ Finish \/ Deadline

\* Nothing happens any more once the process has exited
Next ==
    /\ exit = None
    /\ \/ \E r \in Reqs : RequestNext(r)
       \/ \E t \in Tokens : TokenNext(t)
       \/ SessionNext
       \/ LifeNext

Spec == Init /\ [][Next]_vars

Alive(A) == exit = None /\ A

\* Requests end but for event streams, loops and closes go on, time passes and
\* timers fire: one of each kind at least, which is less than the code ensures.
\* Nothing makes a client sign in, send a request or leave, a token end or a
\* signal come.
Fairness ==
    /\ WF_vars(Alive(\E r \in Reqs : Settles(r)))
    /\ WF_vars(Alive(\E r \in Reqs : Connected(r) \/ ConnectFails(r)))
    /\ WF_vars(Alive(\E r \in Reqs : req[r].pc # "streaming" /\ Answered(r)))
    /\ WF_vars(Alive(\E l \in Loops : LoopNext(l)))
    /\ WF_vars(Alive(\E s \in Sessions : CloseEnds(s)))
    /\ WF_vars(Alive(\E s \in Sessions : GoStale(s)))
    /\ WF_vars(Alive(Sweep))
    /\ WF_vars(Alive(Deadline))

FairSpec == Spec /\ Fairness

-----------------------------------------------------------------------------
\* activeRequests of a session in the map is the number of its requests in
\* flight, even while the session is closing: the stale sweep relies on it.
ActiveExact ==
    \A s \in InMap :
        sess[s].active = Cardinality({r \in Reqs : req[r].pc = "handling" /\ req[r].sid = s})

\* A session is closed once, although a DELETE, the stale sweep, the end of its
\* token and shutdown may all want to close it, and closing it reports back
\* through onclose.
ClosedOnce == \A s \in Sessions : closes[s] <= 1

\* Requests are counted exactly and each session is closed at most once,
\* whoever closes it.
SessionsAccounted == TypeOK /\ ActiveExact /\ ClosedOnce

\* A session that is open belongs to a caller with a token, or the cleanup of
\* its ended token has yet to come to it.  What the cleanup misses is a session
\* whose initialize passed the token check before and was connected after.
CleanupClosesSessions ==
    \A s \in Open :
        LET k == sess[s].key
        IN  \/ s \in late
            \/ k \in KeysOf(TokensIn({"held", "draining"}))
            \/ \E t \in Tokens : KeyOf[t] = k /\ s \in loop[t].todo

\* Until shutdown closes all pools, whoever has a token has pools for it,
\* whichever of the caller's tokens, sessions and requests come and end.  Two
\* things take the pools of a caller with a token, until the next request or
\* sign-in registers the key again: an initialize that fails, and the cleanup
\* of an earlier token of the grant that was closing sessions when a refresh
\* issued the new one.  And a key without a token has no pools once its cleanup
\* is through, but for an initialize that was let in before and registers it
\* again.
PoolsFollowTokens ==
    /\ down \notin {"server", "closed"} => HeldKeys \subseteq pooled \cup taken
    /\ \A k \in pooled :
           \/ k \in KeysOf(TokensIn({"held", "draining", "sessions", "overtaken"}))
           \/ \E r \in Reqs : req[r].pc = "connecting" /\ req[r].key = k
           \/ \E s \in late : sess[s].key = k

\* A clean exit leaves no request in flight and no session open, but for those
\* an initialize in flight opened after its token was cleared, those of a token
\* that ended just before, which its own cleanup had still to close, and those
\* of a token issued after TokenManager.shutdown had cleared the tokens.
CleanExit ==
    exit = 0 => /\ \A r \in Reqs : req[r] = Idle
                /\ \A s \in Open :
                       \/ s \in late
                       \/ sess[s].key \in HeldKeys
                       \/ \E t \in Tokens : KeyOf[t] = sess[s].key /\ s \in loop[t].todo

\* The sessions of a caller without tokens are all closed in the end, the ones
\* its cleanup missed included, unless the caller has a token again: nobody can
\* use them, so the stale sweep takes them, even from under an event stream.
EndedKeySessionsEnd ==
    \A k \in Keys :
        k \notin HeldKeys ~> exit # None \/ OfKey(k) = {} \/ k \in HeldKeys

=============================================================================
