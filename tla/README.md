# mcp-server-db2i in TLA+

A verification project for `mcp-server-db2i`, the MCP server that lets AI
clients query Db2 for i. It holds TLA+ modules translated from `src/src`, TLC
configurations that check them on small instances, and TLAPS proofs of the
properties that matter most for instances of any size.

Paths below are relative to `src/src` unless they start with `docs/`.

## 1. The system

One Node.js process serves one stdio client, HTTP clients, or both. Everything
runs on one event loop: code between two `await`s is atomic, and what makes the
server hard is what other requests, timers and events do during an `await`
(an IBM i sign-on takes seconds, a statement minutes). Each action of a module
is therefore one run of the event loop up to an `await`, a timer that fires, or
an event of the outside world.

| Component | Source | State | Operations | Hard behaviour | What makes it correct |
|---|---|---|---|---|---|
| Pool registry | `db/connection.ts` | `owners`: key → owner; per owner `active`, `lastUsed` and slots with a promise of a pool; `closingPools` | register, move a key, close a key / all, idle sweep, acquire, run, cursor, cancel, warm-up | creation settles after its slot was swept, closed or moved; statements keep owner objects the map has dropped | no pool leaks, none is closed under a statement, counts are exact, keys' pools never merge, a closed key opens nothing |
| OAuth sign-ins and tokens | `auth/oauth.ts`, `grantStore.ts`, `tokenManager.ts`, `login.ts` | signed client IDs and forms outside the process; codes, used codes, refresh grants and their file, access tokens, `refreshing` | register, show and post the sign-in page, exchange, replay, refresh, revoke, expire, evict, save, load; `POST /auth` | a refresh or login awaits a sign-on while revocations, replays, shutdown happen; a form outlives the process; cleanup callbacks await | revocation is final, a refresh token works once, the file follows the store, every check's pool becomes a token's or is closed, tokens go where the settings allow it now |
| Mapepire job pool | `db/drivers/mapepire.ts` | slots with `ready`, `job`, `active`; the SSH connection | pick / share / start jobs, query, cursor, time out, cancel, drop, sweep, close; connect, drop, close SSH | jobs that come up late, die silently or keep running an abandoned statement; CANCEL_SQL ends whatever runs; connections that overlap | no job lost, counts exact, cap kept, a spoiled job is not reused, a query ends, one watched connection |
| ODBC, JT400 | `db/driver.ts`, `db/drivers/odbc.ts`, `jt400.ts` | the connection, handle and timer of a statement | query with and without a limit, cursor, cancel, abort | limit, cancel, late end and grace timer race; an abort while connecting or preparing | a running statement holds its connection, a timed one is answered |
| Query exports | `tools/exportQuery.ts`, `export/*.ts` | registry, `running`, `reservedBytes`, files; a writer's stream | begin, batches, complete, release, take, sweep, close, init; write, drain, end, destroy | a deadline races the cursor; downloads race each other, the sweep and the close; the disk fails between two writes | places, bytes and files accounted for, the cursor is closed, an export ends, a finished file is whole |
| MCP sessions, HTTP | `transports/*.ts` | `SessionManager.sessions` with `isClosing`, `activeRequests`; which keys have pools | create, request, close, stale cleanup, shutdown | close re-enters through `onclose`; a token that ends while a session is created, or is issued while the sign-in's last one is cleaned up or the server shuts down | sessions and pools of an ended key end, no close is done twice |
| Lifecycle | `lifecycle.ts`, `index.ts`, `transports/stdio.ts` | `running`, `stopping`, `exited` | start, signals, stdin close, deadline | the client leaves or a signal comes between two awaits of the start; signals race | exits once, after closing or at the deadline; does not outlive its client |
| Custom tools: reload, execution | `customTools/watch.ts`, `registry.ts`, `execute.ts`, `server.ts` | tool set, parse cache, watchers, debounce timer, live servers | start and loss of the watch, save, reload, open and close a server, call | a reload during a tool's parse, saves in a burst, servers that outlive a reload | a statement runs on its own check, the files are loaded in the end, live servers offer what is loaded |
| Custom tools: files | `customTools/loader.ts`, `schema.ts`, `cli.ts` | none beyond the run | load, validate | names and masks that reach across files | `validate-tools` says what the start will do, in any order of the files |
| Query | `tools/query.ts`, `sqlLimit.ts`, `customTools/filters.ts` | none beyond the call | check, limit, run, answer | limits that meet an OFFSET, a limit of the statement's own and the extra row; a reload meanwhile | the answer is the statement's own rows, cut where it says |
| Catalogue lists, error details | `resources.ts`, `db/sqlServices.ts`, `db/sqlErrorInfo.ts` | kept lists and promises | look up, keep, forget | overlapping lookups that end in any order or fail | nothing stale, bounded, looked up once |
| Rate limiter | `utils/rateLimiter.ts` | windows | check, cleanup | window boundary | at most twice the limit in a window's length, and a refusal tells the truth |
| SQL checks, masking, catalogue SQL, server declarations, configuration, logs, CLI | the rest | none of their own | request / response | none | - |

How they meet: a tool call resolves its caller's pool key and runs statements
through the pool registry, which creates pools of the system's driver; with the
Mapepire driver a pool is a `JobPool`. An OAuth sign-in checks credentials on a
pool of its own, which it hands to the grant's key (`moveSessionPool`) once an
access token exists; `TokenManager` tells `http.ts` of every token that ends,
and the last one of a grant closes the grant's key. An export holds a row cursor
of the registry, and so a connection or a job, until it closes it. A cancel
(`QSYS2.CANCEL_SQL`) is itself a statement on the caller's procedure pool.

`PROJECT.json` lists every component with its modules, and under `hazards` each
place where the code can go wrong in a way a test would hardly reach, with the
properties that watch it.

## 2. Modules

| Module | Models | States in its run |
|---|---|---|
| `PoolOwnership` | abstract: what the registry promises (pools are held by one key, handed over whole, given up once, then go away) | through `PoolRegistry` |
| `PoolRegistry` | `db/connection.ts` | 190k |
| `GrantLifetimes` | abstract: what the OAuth server promises of a sign-in (a code or one refresh token, each given up for the tokens it brings; nothing lost comes back; nothing more once it is over) | through `OAuthGrants` |
| `OAuthGrants` | `auth/oauth.ts`, `grantStore.ts`, `tokenManager.ts`, the callback and shutdown of `transports/http.ts` | 829k (symmetric), again in `MCTokens` |
| `SignInRequests` | `auth/oauth.ts` from the registration of a client to its first tokens | in `MCTokens` |
| `PasswordLogins` | `POST /auth`, the limit on tokens and their expiry, with shutdown | in `MCTokens`: 374k together |
| `SharedJobs` | abstract: what a pool of shared jobs promises its callers (an idle job before a new one before the least busy; a caller has its job until it gives it back; a job given up or retired is nobody's again) | proved |
| `JobPool` | `db/drivers/mapepire.ts` and `withQueryTimeout` of `db/driver.ts` | 139k |
| `ExportLinks` | abstract: what the export store promises of download links (published once, a bounded number of downloads, no return) | proved |
| `Exports` | `tools/exportQuery.ts`, `export/store.ts`, `export/download.ts` | 290k |
| `McpSessions` | `transports/sessionManager.ts`, requests and shutdown of `transports/http.ts`, `lifecycle.ts`, tokens of a key and its pools | 1.29M |
| `ToolReload` | `customTools/watch.ts`, `registry.ts`, `execute.ts`, live servers of `server.ts` | in `MCTools` |
| `RateLimiter` | `utils/rateLimiter.ts` | in `MCTools` |
| `Lifecycle` | `index.ts`, `lifecycle.ts`, `transports/stdio.ts` | in `MCTools` |
| `DriverStatements` | `db/driver.ts`, `db/drivers/odbc.ts`, `jt400.ts` | in `MCTools` |
| `ReadQuery` | `tools/query.ts`, `sqlLimit.ts`, row filters | in `MCTools` |
| `NameLists` | kept lists of `resources.ts` and `db/sqlServices.ts` | in `MCTools` |
| `ErrorExplanations` | `db/sqlErrorInfo.ts` | in `MCTools` |
| `SshTransport` | the SSH connection of `db/drivers/mapepire.ts`, `sshHostKey.ts` | in `MCTools` |
| `ToolFiles` | `customTools/loader.ts`, `validate-tools` of `cli.ts` | in `MCTools` |
| `ExportWriters` | `export/writer.ts`, `csv.ts`, `xlsx.ts` | in `MCTools`: 485k together |
| `PoolRegistryProofs`, `OAuthGrantsProofs`, `JobPoolProofs`, `ExportsProofs`, `McpSessionsProofs`, `ToolReloadProofs` | theorems about the module of that name | - |
| `SignInProofs` | theorems about `SignInRequests` and `PasswordLogins` | - |
| `ToolsProofs` | theorems about the small components of `MCTools` | - |
| `MC...` | constants and symmetry of an instance for TLC | - |

`MCTokens` and `MCTools` put components side by side that share no variable. A
behaviour belongs to one of them, its `slice`, while the others rest at an
initial state: their product would only multiply states, and a property of one
component is decided in its slice. `MCJobPool` does the same with two sizes of
the pool.

Definitions whose comment begins with "Mutant" are not part of any
specification. Each is a plausible bug in the definition that follows it, and
each checked property is shown to fail when one of them takes that definition's
place, so no property holds by the shape of its model.

### PoolRegistry

`owners` is the map, an owner or a pool is an object identity. A statement in
`stmt` keeps the owner and pool it was started with, as the closure in `run`
does, while `owners`, `slotPool` and `closer` change around it. `Register`,
`Move`, `Close` are the exported functions; `CloseSlot` is one turn of
`closeOwner`'s loop, which awaits each close; `Begin` is `getSlot`, `markActive`
and `acquire`, with no `await` between them; `Created` and `CreateFails` settle
the promise of the pool; `Finish` is `release` in the `finally`. Time is
`stale`: an owner's last use may fall behind the idle limit at any moment,
while a statement runs too.

### OAuthGrants

A sign-in is one authorization code and the grant that its exchange makes.
`Refresh` is the handler up to `testCredentials`: it has deleted the refresh
token and counted itself in `refreshing`. `RefreshRevoked`, `RefreshDeferred`,
`RefreshRefused` and `RefreshIssues` are what follows the check. `RevokeGrant`
is the synchronous part of a revocation, `RevokeNext` one turn of the loop that
awaits each cleanup callback; `RemoveToken` is a token's deletion with the
callback up to its first `await`, `ClosePool` the callback's end. `Stop`,
`Drain` and `Reset` are `shutdownHttpServer`, during which requests go on.
`Restart` may happen at any time and loads the file. `ended`, `asked` and
`redeemed` are history variables.

### JobPool

`queue[s]` holds the requests a job was sent and has not answered; it runs the
first. A call's `pc` says which `await` it is at: `q-wait` and `c-wait` for the
job, `q-run` and `c-run` for an answer, `q-cancel` for CANCEL_SQL, `q-grace`
for the cancelled statement. `CancelSql` ends whatever request the job runs,
whosever it is. A job may die without a word, the SSH connection may go, a
start may succeed after its slot has gone. `prepare` is a query of one request
as far as the pool is concerned. Why the SSH connection goes is `SshTransport`.

### Exports

`pc` is where `exportQueryTool` stands. The driver's cursor (`cursor`) and what
the tool knows of it (`held`) are kept apart, because `beforeDeadline` may stop
listening. `Batch` adds up to `BatchBytes` to the file and ends the export once
`MaxBytes` are reached, which the code looks at only after the batch;
`Complete` adds the end of the file, up to `TailBytes` that nobody checks.
`Overshoot` is what a file may have beyond its reservation for these reasons,
and `StorageBounded` what that makes of `EXPORT_DIR_MAX_BYTES`. Files about to
be deleted, or sent for the last time, are in neither: `storedBytes` does not
count them. `Close` and `CloseEnd` are the two halves of `closeExportStore`
around its `await`. Faults and `EXPORT_TIMEOUT` may come at any moment. The
caps on rows and on bytes before compression end an export as `LastBatch` does
and are left out. How a batch reaches the disk is `ExportWriters`.

### McpSessions

A request's `pc` is the `await` it is at: `probing` after `authMiddleware` (it
keeps the key it was authenticated for, whatever becomes of the token),
`connecting` in `createSession`, then with its session. `loop` holds every loop
that awaits `closeSession` of one session after another: the cleanup callback
of a token, the stale sweep, shutdown; `MayClose` is the `isClosing` test,
`StartClose` and `CloseEnds` are `closeSession` before and after its awaits.

`token` says of each token whether `TokenManager` holds it and, once it ended,
where its cleanup callback is: `StartCleanup` asks `hasGrant` and picks the
sessions, `CleanupPool` follows the await of `closeSessionsByToken`, and
`CleanupEnds` that of `closeSessionPool`. `KeyOf` is `sessionPoolKey`: the tokens
of one OAuth sign-in share a key, one of `POST /auth` has its own. `SignIn` is the
step of `POST /auth`, of an exchange or a refresh that has passed its check: it may
come at any time until the server has closed, also while a callback of the same
key awaits its sessions, which is then `overtaken`, and after
`TokenManager.shutdown` cleared the tokens. `CleanupAgain` is the minute's sweep
that notifies of a token it had found expired before that token ended otherwise;
that both callbacks of one token run at once is left out.

`down` counts the steps of `shutdownHttpServer`, `DrainNext` is one turn of
`TokenManager.shutdown`. `closes` and `late` are history variables: `late` are
the sessions registered when their key had no token, which the code allows
because an initialize is not validated again after its awaits. `pooled` are the
keys the pool registry knows: `RegisterPool` and `DropPool` are
`initializeSessionPool` or `moveSessionPool` and `closeSessionPool` as far as a
key is concerned, and what happens to its pools then is `PoolRegistry`. `taken`
remembers the keys with a token whose pools a failing initialize or an overtaken
callback closed.

### SignInRequests

A client ID and a sign-in form are signed and carry their own content, so they
outlive the process: `registered` is what `readClient` finds in an ID, `form`
what a browser still shows. `PostSignIn` is the first handler of the post, which
checks both again, up to the await of `verifyLogin`; `SignInRefused`,
`TooManyPending` and `IssueCode` are what follows it. `CodeTimer` is the
`setTimeout` beside a code. `RestartProcess` may bring other redirect URIs, and
without a configured secret a new one that reads no older ID or form.

### PasswordLogins

A login is one request and the token it gets. `SignInUser` and `EndFull` follow
the await of `verifyLogin`. A run of the cleanup (`cleanup[w]`) takes one token
after the other and awaits the callback, first for its MCP sessions
(`SessionsGone`), then for its pool; runs overlap because the interval does not
wait. `downStep` is `shutdownHttpServer`, run 0 the one it makes itself.

### ToolReload

`disk` holds the files, `event` a watch event to deliver, `missed` a change no
watch reports. The model begins where `main()` has loaded the files and awaits
the export store, so a change may come before `StartWatch`. The watch is then
`on`, or `lost` for a path: `watch()` may fail at the start, its watcher may emit
`error` later (`WatchFails`), and a file that is listed itself is no longer
watched once another one takes its place (`ReplaceFile`). The code logs the first
two and goes on. `SaveUnseen` is a change before the watch, after it was lost or
stopped, or below a directory made later. `ScheduleReload` restarts the timer, `Reload` is its callback with
the registry's replacement and `syncLiveCustomTools`, all without an await. A
call keeps the definition it was started with (`call[c].def`) while its parse is
asked for; `Remember` caches the outcome under the tool's name. `late` is
history: a reload has come between.

### Lifecycle

`Load`, `ServeStdio` and `Listen` are `main()` up to each await. `ClientLeaves`
is the end of stdin, `ClientGone` the handler that sees it, `Signal` and
`Shutdown` the two ways to `run`, which `step` walks through; `closers` are the
two loops of `closeOwner` that may run at once.

### DriverStatements

`exec` is the promise a caller's answer depends on, whose steps differ by
`driver`; `handle` is what a cancel needs and is known only later. `limitTimer`
is `withQueryTimeout`. A cancel may fail, and one that works need not end the
statement.

### ReadQuery

A statement is what `splitStatement` takes apart: its own limit, its offset,
tables and columns. `Check` is the synchronous part, `Parsed` and `ParsedEmpty`
follow the parse on the IBM i, `Executed` cuts the rows. `ResultOf` is the
reference: the rows of a statement, numbered, without any limit but its own.

### NameLists, ErrorExplanations

`variant` is `resources.ts` or `db/sqlServices.ts`, which keep their lists in
different ways. `readAt` is when the IBM i read its catalogue, which tells a
stale list from a fresh one. In `ErrorExplanations` a lookup is a promise that
statements with the same SQLCODE share.

### SshTransport

`sshClient` is the promise of the connection in use, `current` the connection
whose `close` event counts, `awaited` those that `close()` waits for. Jobs only
start, come up and go; the rest of them is `JobPool`.

### ToolFiles

A file is a record of what reaches across files. `AddFile` is one turn of the
loader's loop, with the checks of `Fits`; `ReadFiles` is what is known after each
turn, a recursive function of their number; `LoadFiles` adds what is checked once
all are read, and `ValidateFiles` does what the command line does. `Acceptable`
is stated independently of the order of the files.

### ExportWriters

A writer gets pieces (the header, batches, the end of an XLSX file).
`compressor` may hold some back, `chunks` are those the sink has not written,
chained one after the other, `buffer` is the stream's. `SinkWrite`, `Drain`,
`SinkEnd` and `SinkDestroy` are the sink's methods at their awaits. The stream
is Node's: after an error it destroys itself, answers false to further writes
and emits nothing but that one error (external).

## 3. Runs

| Run | Instance | Shows |
|---|---|---|
| `pool` | 3 keys, 2 owners, 1 system (2 slots), 1 statement, 2 pools | `NoOrphanPool`, `PoolKeptForStatement`, `ActiveCountsUsers`, `ClosedOwnerGainsNoPool`, refinement of `PoolOwnership`, `ClosedKeyReleasesPools` |
| `oauth_safety` | 2 sign-ins of one user, 3 access and 2 refresh tokens, 2 requests, 2 sessions, cap 1 | refresh tokens work once and keep their cap, a revoked sign-in holds nothing, the file follows the store, no pool outlives its tokens, refinement of `GrantLifetimes` |
| `tokens` | 1 sign-in, 3 access tokens, 1 request; 2 clients, 2 redirect URIs, 2 posted sign-ins, 1 pending code, 1 restart; 3 logins, limit 2, 3 cleanups | `RevocationCompletes`; `SignInsAccounted`; `LoginPoolsAccounted`, `ExpiredPoolsClose` |
| `oauth_revoke_during_refresh`, `oauth_shutdown_file` | 2 sign-ins, 1 request | violations: findings 1 and 2 |
| `jobs` | 3 jobs over time, 2 calls, `maxJobs` 2 and 1 | no job lost, exact counts, cap, no reuse of a spoiled job; `QueriesEnd` |
| `jobs_export_shares` | 3 jobs, 3 calls, `maxJobs` 2 and 1 | violation: finding 3 |
| `exports` | 2 exports, 2 downloads, 2 places, 2 bytes each, 4 in all, batches of up to 2 bytes, an end of 1, 1 download per link | places, bytes stored, files and downloads accounted for, a link that works has its file, the cursor closed in time, every export ends |
| `exports_cursor` | same | violation: finding 4 |
| `sessions` | 1 caller, 2 requests, and either 2 sessions and 1 token or 1 session and 2 tokens of one sign-in | exact request counts, one close per session, what the cleanup of a token and a clean exit may leave open, pools that follow tokens, the end of every session of an ended token |
| `tools` | see `Tools.cfg`; per slice below | `RunsOnItsOwnCheck`, `LiveToolsFollow`, `ReloadCatchesUp` (reload); `TwicePerWindow`, `RetryIsAnswered` (limiter); `ShutdownIsComplete`, `LeavesWithItsClient` (lifecycle); `HeldWhileRunning`, `TimedStatementsSettle` (statements); `AnswerIsExact` (query); `ListsFreshAndFew`; `LookedUpOnce`; `ConnectionIsWatched`; `ValidationPredictsStartup`; `FileIsWhole` |
| `tools_reload_replaces` | 1 tool, 3 tool sets, 1 server | violation: finding 5 |

Why the bounds are enough. Owners, pools, tokens, jobs and SSH connections are
created once and never reused, so the constants bound how often the code may
create one. Two owners and three keys let a key be closed and registered again
and a pool be handed to a key that was used before. Some cases need more than
`pool` has, a failed creation beside a newer pool in its slot for one, or two
statements on one pool; the theorems of section 4 cover them for any number, and
the invariants were also checked with two statements and three pools. Two
sign-ins of one user with cap 1 make eviction happen, two requests make refreshes
overlap, three access tokens give one to the exchange and two to refreshes. Two
of three jobs may be in the pool, so a third is started after one is dropped, and
in the pool of one job two calls share it. One more owner, token or job only
repeats what the first ones do. In `sessions` two sessions make a loop await one
while the other changes, and two requests let an initialize or a DELETE overlap
the end of the token; two tokens of a sign-in let the second be issued before,
during and after the callback of the first, and before and after each step of
the shutdown. The two are checked apart, as two values of `slice` in
`MCMcpSessions`, because together they have too many states; the theorems cover
both at once. Sessions, counts and pools of callers do not touch each other, so
one caller is enough. Tokens and sessions are taken in order, since their names
mean nothing.

In `tokens` two posts of one page meet the limit of one pending code, a restart
may change the redirect URIs under an open page, and three logins with a limit of
two fill the server. In `tools` one edit after the first set makes a reload
overtake a call and a server; a window of 3 with limits 0 to 2 reaches two
windows and their boundary; two statements compete for one connection; counts 0
to 2 around settings 1 and 2 with up to 3 rows put every limit below, at and
above every other; three list keys overflow two lists, with two fetchers that
overlap; three errors share two codes; three SSH attempts and jobs let a new
connection open while an old one ends; the twelve files of `FileExamples` hold
each kind of fault and each pair that is only wrong together; a buffer of two
pieces fills under the four of a file. `UserCap`, `MaxSessions`, `HighWater`,
the byte limits and the others of their kind are the code's limits made small so
that they are reached.

Deadlock is not checked: the instances stop when their supply of statements,
tokens, calls or exports is used up, which is the bound and not the program.

### Fairness

Invariants and action properties hold without it. The liveness properties assume
only what the code ensures:

- `PoolRegistry`: a driver's `createPool` and `close()` settle, a statement
  ends, `closeOwner`'s loop goes on. Nothing is assumed of callers.
- `OAuthGrants`: the loops and callbacks a revocation or a shutdown has started
  go on (`closeOwner`'s own progress is `PoolRegistry`'s). No fairness of
  refreshes, requests or restarts.
- `JobPool`: starts, requests and cancels have time limits (`startupTimeout`,
  `requestTimeout`, `CANCEL_CALL_TIMEOUT_MS`) and the grace has its timer. Jobs
  need never answer. After a fetch that failed without timing out, `runOnJob`
  closes the query with no time limit; that close is taken to settle. Closing a
  cursor has no time limit either, and nothing is claimed of it.
- `Exports`: `EXPORT_TIMEOUT` is set and fires, the grace timer fires, the
  tool's own steps and the close of a cursor settle. The driver may never open
  the cursor or answer a read. With `EXPORT_TIMEOUT=0` there is no such promise.
- `McpSessions`: requests but event streams end, transports and servers close
  or fail to, the stale and sweep timers and the shutdown deadline fire. One
  condition per kind of step: it is enough that some request, loop or close goes
  on. No client has to sign in, to send anything, or to hang up its event stream.
- `PasswordLogins`: the minute's timer fires, and a cleanup's own steps go on.
  Logins need not end, and a pool need never finish closing.
- `ToolReload`: a file event and the debounce timer are delivered, while the
  watch that had the event lasts. Nothing of calls, and nothing of changes that
  no watch sees.
- `Lifecycle`: the end of stdin is noticed and the deadline fires. No transport
  or pool need ever close.
- `DriverStatements`: the limit and grace timers fire and a cancel settles. The
  database may never answer. A statement that still waits for its connection has
  no timer yet on ODBC, and nothing is claimed of it.

### Findings

Each is a violation run, with the sentence of the repository it contradicts in
`PROJECT.json`.

1. `RevocationIsFinal`: revoking with a refresh token while that token is being
   refreshed answers 200 and ends nothing. Rotation has removed the token from
   the store, so the grant is not found and the flight not marked. Revoking by
   access token, replaying the code and a refused refresh all work, which
   `ImplementsLifetimes` and the theorem `NoRevival` show.
2. `ShutdownKeepsFile`: `resetOAuthState` is to leave the state file as it is,
   but a token request served after it saves the emptied store.
3. `ExportJobNotShared`: with every job busy, `pick()` gives a query the job an
   export's cursor holds, which `docs/configuration.md` excludes.
4. `CursorReleased`: a cursor that opens after the deadline has passed is
   dropped by `beforeDeadline` and never closed.
5. `LiveToolsReplaced`: a reload that changes only the masked columns or the bind
   order of a tool leaves the old tool registered on servers that are open,
   though `docs/configuration.md` says a valid set replaces the running tools.

Some places are wider than one would like; a property names each as its
exception:

- A parse that a reload has overtaken is cached for the new tool of that name
  (`RunsOnItsOwnCheck`).
- A failing initialize takes the pools of its caller's other sessions
  (`PoolsFollowTokens`).
- The cleanup callback asks `hasGrant` before it awaits the sign-in's sessions
  (`transports/http.ts:380`) and closes the pool after (`:385`). A refresh that
  issues a token in between finds the pool closed under that token, until its next
  request registers the key again (`PoolsFollowTokens`). The comment at `:369`
  says that a refresh keeps the pool; that holds when the refresh comes before the
  last token's end, as `hasGrant` then finds the new token.
- A sign-in that is answered between `TokenManager.shutdown` and `server.close`
  leaves a token, and what its client opens then is closed by nobody; the process
  may still exit with 0 (`CleanExit`).
- A change of the tool files that no watch reports is read with the next change
  one does report: a change while the start awaits the export store, one of a path
  whose watch failed, one of a listed file after it was replaced, and one below a
  directory made after the start (`ReloadCatchesUp`).

## 4. Proofs

`PoolRegistryProofs` proves for any number of keys, owners, systems, statements
and pools, from the assumptions in `PoolRegistry` (`Stdio` is a key, `None` is
no owner or pool, there are finitely many statements):

| Theorem | States |
|---|---|
| `TypeCorrect` | `Spec => []TypeOK` |
| `NoConnectionLeak` | `Spec => []NoOrphanPool` |
| `NoPoolTakenFromStatement` | `Spec => []PoolKeptForStatement` |
| `ActiveIsExact` | `Spec => []ActiveCountsUsers` |
| `PoolsNeverMerged` | `Spec => []OneHome` |
| `ClosedKeyStaysClosed` | `Spec => ClosedOwnerGainsNoPool` |
| `RegistryImplementsOwnership` | `Spec => ImplementsOwnership` |

The argument is one inductive invariant `IInv`, the conjunction of type
correctness with the following, none of which is inductive alone.

- `SlotInv`: a pool that sits in a slot was created for that slot and is being
  created or open, and one that a `closeSlot` awaits sits in none. Without it
  `CreateFails` could clear a slot that holds another pool.
- `OwnerInv`: an owner is registered under one key at most, only once it is
  born, and a `closeOwner` loop runs on owners that are no longer registered.
  Without it `Move` or `Register` could resurrect an owner that is being closed.
- `NoOrphanPool` and `PoolKeptForStatement` rest on both, and the second also on
  `ActiveCountsUsers`: the idle sweep skips an owner whose `active` is above
  zero, and the count is exact, so an owner it takes has no statement
  (`IdleUnused`).

`IInvInit`, one lemma per part for the step (`SlotStep`, `OwnerStep`,
`NoOrphanStep`, `ActiveStep`, `PoolKeptStep`), and `IInvStep` give `Invariance`;
each has one step per action. The action property and the refinement follow
from `IInv`: `StepImplements` maps every action to `Open`, `HandOver`,
`Release`, `Go`, `Register` or a stutter of `PoolOwnership`.

`ToolReloadProofs` proves, for any tools, statements, systems, servers, calls and
contents of the files (assumptions: the sets of `ToolReload` are what their
comments say), `TypeCorrect`, `LiveServersFollowTheRegistry`
(`[]LiveToolsFollow`) and `StatementsRunChecked` (`[]RunsOnItsOwnCheck`). The
last needs `CacheFresh` and `CallsFresh`: an outcome in the cache, and the
definition a call runs, are of the loaded tool unless marked late; a reload
empties the cache and marks every call under way, which keeps both.

`OAuthGrantsProofs`, `JobPoolProofs`, `McpSessionsProofs`, `ExportsProofs`,
`SignInProofs` and `ToolsProofs` prove the rest, each for any constants that meet
the assumptions named in its component: the sets the code enumerates (requests,
calls, refresh tokens, slots, exports, downloads, logins, posts) are finite, the
limits are numbers the configuration admits, and a value that stands for "none"
is none of the others. The sets bound how often something may happen in a
behaviour, so a theorem covers any number of sign-ins, statements, jobs,
sessions, exports or chunks.

| Module | Theorem | States |
|---|---|---|
| `OAuthGrantsProofs` | `TypeCorrect` | `Spec => []TypeOK` |
| | `TokensAccounted` | `Spec => []RefreshTokensAccounted` |
| | `RevocationHolds` | `Spec => []RevokedHoldsNothing` |
| | `NoRevival` | `Spec => NoTokenAfterRevocation` (an action property) |
| | `SignInsImplementLifetimes` | `Spec => ImplementsLifetimes` (a refinement) |
| | `FileIsTheStore` | `Spec => []FileFollowsStore` |
| | `PoolsNotStranded` | `Spec => []NoStrandedPool` |
| `JobPoolProofs` | `JobsAreAccounted` | `Spec => []JobsAccounted` |
| | `PoolImplementsSharedJobs` | `Spec => ImplementsSharedJobs` (a refinement) |
| `McpSessionsProofs` | `RequestsCounted` | `Spec => []SessionsAccounted` |
| | `CleanupIsComplete` | `Spec => []CleanupClosesSessions` |
| | `PoolsAreTheTokens` | `Spec => []PoolsFollowTokens` |
| | `CleanExitHolds` | `Spec => []CleanExit` |
| `ExportsProofs` | `PlacesFilesAndLinks` | `Spec => []ExportsAccounted` |
| | `CursorsClosed` | `Spec => []CursorClosedInTime` |
| | `StoreImplementsLinks` | `Spec => ImplementsLinks` (a refinement) |
| `SignInProofs` | `SignInsAreAccounted` | `SignInSpec => []SignInsAccounted` |
| | `LoginPoolsAreAccounted` | `LoginSpec => []LoginPoolsAccounted` |
| `ToolsProofs` | `LimitHolds` | `LimiterSpec => []TwicePerWindow` |
| | `RefusalsTellTheTruth` | `LimiterSpec => RetryIsAnswered` (an action property) |
| | `AnswersAreExact` | `QuerySpec => []AnswerIsExact` |
| | `ConnectionsAreHeld` | `StatementsSpec => []HeldWhileRunning` |
| | `ErrorsAreLookedUpOnce` | `ErrorsSpec => []LookedUpOnce` |
| | `TheConnectionIsWatched` | `SshSpec => []ConnectionIsWatched` |
| | `ShutdownsAreComplete` | `LifecycleSpec => []ShutdownIsComplete` |
| | `ListsStayFreshAndFew` | `ListsSpec => []ListsFreshAndFew` |
| | `ValidationPredicts` | `FilesSpec => []ValidationPredictsStartup` |
| | `FilesAreWhole` | `WritersSpec => []FileIsWhole` |

No property of these was inductive as it stood. What each invariant adds, and
why it is needed:

- `OAuthGrants`: a revocation takes what it finds, and what it must not miss are
  refreshes in flight, which hold a token that no store knows. `OneToken` says
  that a sign-in has one token at most, in the file or in one flight;
  `FlightsCounted` that `refreshing` counts exactly that flight, so marking the
  count marks the flight; `EndedHoldsNothing` that an ended sign-in's flight is
  marked and its access tokens are in the hands of the revocation, and that the
  file has nothing of it, so that a restart brings nothing back
  (`FileHoldsGrants`: the store is a part of the file, and the same until
  shutdown). `CodeComesFirst` and `RedeemedIsGone` keep a code and a redeemed
  token from being used twice. `PoolsHeld` adds that nothing is drained before
  shutdown. `NoRevival` is read off `IInv`: the actions that issue tokens need an
  unmarked flight or a code that was never exchanged. The refinement maps what a
  sign-in can go on with to its token in the file or in a flight, unless it has
  ended: taking a token out of the store, and putting it back when the IBM i was
  not reached, is then a stutter, an exchange is `Renew`, a revocation `End`, and
  expiry, eviction, a request in vain, shutdown and restart are `Lose`. It needs
  `OneToken`, without which an exchange would leave a second token behind.
- `JobPool`: `RequestsPlaced` says a job's queue holds only requests of calls that
  are on it and have been sent, and `CancelsPlaced` that a call which cancelled was
  on a job; without them a job could answer, or drop, for a caller it never
  counted. That a slot's `active` is exact is `Holders`, a count of calls that each
  action changes by one. The refinement maps a job to its slot: offered while the
  pool lists it, gone once it was started and is not listed, used by the calls
  that hold it. It stands on the exact counts, since `pick` looks at `active`
  where `SharedJobs` speaks of the callers themselves (`UsersCounted`), and on
  a slot being started once, so that no dropped job is listed again. Starts,
  requests, cancels and a job's death are stutters; every way a call may end is
  `GiveBack` (`CallGivesBack`), and `Query` and `OpenCursor` are `Get`.
- `McpSessions`: `CleanupClosesSessions` needs the loops to take a session out of
  their list only when it is closing or gone (`LoopTurns`), and a callback that goes
  on for the last token to have the key's open sessions in its list
  (`CleanupStarts`). `PoolsFollowTokens` needs `CleanupsPlaced`: a callback that no
  sign-in has overtaken belongs to a key without a token, so that the pool it closes
  is nobody's. That the tokens of a key explain its pools is kept token by token
  (`CoverKept`): a token leaves the states that do only with its pools.
  `ShutdownPlaced` says what each step of the shutdown has behind it, and
  `SessionsKnown` that requests and the history name sessions that exist.
  `ClosesCounted` makes a close begin once although three loops and a DELETE compete
  for it.
- `Exports`: `SizesBelow` says that an export which may read on is below its cap,
  so one batch at most goes past its reservation. `RoomAccounted` is how the
  directory stays bounded although `Begin` compares with what is stored at that
  moment and every ending export may leave more than it had reserved: the files
  of exports that have given their place back, and the reservations, take no more
  than the limit and one `Overshoot` for each place that is free. An export that
  ends frees a place and brings its own; one that begins takes a place, and
  `Begin` has seen that what is stored leaves room. (TLC finds the bound reached,
  so it is tight.) `LinksHaveFiles` says that the file of a link is in nobody's
  hands who deletes it: what is being unlinked is of exports that are over, and a
  request that deletes its file has taken the link away. `LinksCounted` says that a
  link's downloads are the requests it was given to; `CursorsHeld` that the tool has
  listened to the opening of its cursor unless the deadline ended it. The
  refinement maps a link to the registry's entry, and counts it as over once its
  export has ended without one: `Complete` is `Publish`, `Take` is `Download`, and
  the sweep, the close, a restart and the ends of exports without a file are `End`.
- `SignInRequests`: what a code is checked for, and its pool, date from the
  sign-in, so `RequestKept` covers sign-ins that are still being checked.
- `PasswordLogins`: `PoolHeld` and `RunPlaced` place the pool of a token that ended
  in the hands of a run; `LateOnes` says that after the pools were closed only late
  logins have one.
- `RateLimiter`: a key's log of calls is split in those the current window has
  counted and those of windows that were over before it began (`WindowsCount`), so
  maxRequests calls later the window is another (`OncePerWindow`), and twice that
  many are a whole window apart (`TwoWindows`). For refusals, the window since the
  last one is over when its time has passed, or has counted only calls let through
  since (`WindowSinceRefusal`); `RoundedUp` is the rounding to seconds.
- `ReadQuery`: `ClampedFetch` is the core: fetching one row more than the answer
  may hold and cutting gives the rows of the statement's own result, and the extra
  row is there exactly when that has more. `FiltersJudged` carries the filters
  from the check to the answer.
- `DriverStatements`: `CancelsPlaced`, a timer that has called `cancel()` knows a
  handle. `ErrorExplanations`: `LookupsRemembered`, a lookup that has not failed is
  the one remembered for its code, so no second one starts. `SshTransport`:
  `OneOpening` and `JobsOnTheirLink`, a connection that is being opened is the
  only one, with a job that starts on it. `Lifecycle`: `StartOrder`,
  `ShutdownOrder` and `PoolsInHand`, a pool that is no longer owned is with one of
  the two loops that close it. `NameLists`: `GoodLists` and `ReadAfterAsking`, a
  list's expiry is counted from before it was read.
- `ToolFiles`: what has been read of a list is followed file by file: until an
  error, the loader knows exactly the tools, masks, annotations and text of the
  files before, and these are acceptable among themselves. That is an induction
  over the number of files. The library's principle takes a predicate as a
  parameter, which the provers cannot instantiate, so `Counting` states it for
  sets of numbers and follows from the well-founded order of the naturals;
  `ReadDefined` does the same for the recursive function's own existence. The
  invariant itself (`FilesInv`) only ties the two results to the files.
- `ExportWriters`: pieces are followed through every place they can be at
  (`ChunksInOrder`, `FileInOrder`): the compressor's follow the chunks', these the
  buffer's, these the file's. `FollowConcat`, `FollowSplit` and `FollowAppend` are
  what concatenation, `SubSeq` and `Append` do to pieces in order, element by
  element, which needs no induction. `StreamPlaced` and `CallPlaced` say which
  state of the stream a call can wait in.

Lemmas that several proofs lean on are stated once: `FewerPending`,
`OneMorePending`, `FewerHeld` and `OneMoreHeld` for sets under a limit,
`WithoutIsGood`, `TailIsGood`, `PutIsGood` for lists with one entry a key,
`ChunksTail` and `OneChunk` for the chain of writes.

Only model-checked are:

- liveness, since fairness and `ENABLED` are out of the prover's reach:
  `ClosedKeyReleasesPools`, `RevocationCompletes`, `ExpiredPoolsClose`,
  `QueriesEnd`, `ExportsEnd`, `EndedKeySessionsEnd`, `ReloadCatchesUp`,
  `LeavesWithItsClient`, `TimedStatementsSettle`;
- the violations of section 3.

Every invariant and action property of a passing run is therefore a theorem. Two
theorems state what no run has among its properties, `ImplementsLinks` and
`ImplementsSharedJobs`: what they say of the instances of `exports` and `jobs` was
checked with TLC before the proof (as a PROPERTY of `SPECIFICATION Spec`) and
takes no run of its own, since the proof covers every instance.

## 5. Not modelled

- What is found in a text: the read-only validator, the schema allowlist and the
  lineage of masked columns walk a third-party syntax tree. Their verdicts are
  given in `ReadQuery`, `ToolReload` and `ToolFiles`.
- The pools inside `odbc` and `node-jt400`, fflate, Node's streams: packages,
  modelled only as far as the code waits for them.
- A failing write of the state file: it is only logged, and nothing reads it
  before the next start.
- File formats, pages and texts, catalogue SQL, the declarations of tools,
  prompts and resources, environment variables, command line, OpenAPI document,
  logging and audit: wording and single synchronous decisions without state.
- The example web application under `examples/`, which is a client.

Much of the repository is of the last two kinds, so the share of its lines that
the definitions translate stays small though every component that keeps state
or waits has a module.

## 6. Plan

Done, in this order: `PoolRegistry` with `PoolOwnership` and its proofs, since
every statement goes through it; `OAuthGrants` with `GrantLifetimes`; `JobPool`; `Exports`;
`McpSessions` with the HTTP shutdown; `ToolReload`, `RateLimiter`, `ReadQuery`
with their proofs; `Lifecycle`, `DriverStatements`, `SshTransport`;
`PasswordLogins`, `SignInRequests`; `NameLists`, `ErrorExplanations`,
`ToolFiles`, `ExportWriters`; tokens and pools of a key in `McpSessions`; the
start and the loss of the watch in `ToolReload`.

Next modules: a state file whose write fails in `OAuthGrants`; the start of the
systems from their profiles (`systems.ts`).

Proofs, in this order: the registry and its refinement; reloads, the limiter,
queries; grants, jobs, sessions, exports; sign-ins and logins; the other
components around a tool call; the refinement of `GrantLifetimes`; the loader of
business tools; the bytes stored by exports; the refinements of `ExportLinks` and
`SharedJobs`. Every safety property a run checks is a theorem.

Next theorems: an abstract specification of sessions and their callers that
`McpSessions` implements.
