------------------------------ MODULE Lifecycle ------------------------------
(* The process from its start to its exit: the steps of main() with their      *)
(* awaits, a stdio client that leaves at any time, signals, and a shutdown     *)
(* that runs once under a deadline. The HTTP side closes as one step here; its *)
(* own order is in McpSessions, the pools' in PoolRegistry.                    *)
(* Files: src/index.ts, src/lifecycle.ts, src/transports/stdio.ts              *)

CONSTANT StdioPools     \* the pools the stdio client can use: query, procedure, per system

VARIABLES
    mode,           \* MCP_TRANSPORT
    stage,          \* where main() is
    client,         \* the stdio client: here, left, or its leaving was noticed
    stdio, http,    \* the transports
    owned,          \* the stdio key is registered
    pools,          \* the stdio pools
    closers,        \* loops of closeOwner(): the pools they still have to close
    step,           \* of the shutdown
    reason,         \* what started it
    deadline,       \* its timer is set
    watch,          \* of the tool files
    audit,          \* events in the audit log
    exit            \* process.exit(0), process.exit(1), or the signal's default action

lifecycleVars == <<mode, stage, client, stdio, http, owned, pools, closers, step, reason,
                   deadline, watch, audit, exit>>
transports == <<stdio, http>>
poolVars == <<owned, pools, closers>>
shutdownVars == <<step, reason, deadline, watch, audit, exit>>

StdioEnabled == mode \in {"stdio", "both"}
HttpEnabled == mode \in {"http", "both"}
Closers == {"leave", "shutdown"}

LifecycleTypeOK ==
    /\ mode \in {"stdio", "http", "both"}
    /\ stage \in {"load", "connect", "listen", "up"}
    /\ client \in {"here", "left", "gone"}
    /\ {stdio, http} \subseteq {"off", "serving", "closing", "closed"}
    /\ {owned, deadline, watch} \subseteq BOOLEAN
    /\ pools \in [StdioPools -> {"none", "open", "closing", "closed"}]
    /\ closers \in [Closers -> SUBSET StdioPools]
    /\ step \in {"no", "transports", "pools", "exports", "done"}
    /\ reason \in {"none", "signal", "stdin closed"}
    /\ audit \subseteq {"shutdown", "deadline"}
    /\ exit \in {"no", "clean", "failed", "killed"}

LifecycleInit ==
    /\ mode \in {"stdio", "http", "both"}
    /\ stage = "load"
    /\ client = "here" /\ stdio = "off" /\ http = "off"
    /\ owned = FALSE
    /\ pools = [p \in StdioPools |-> "none"]
    /\ closers = [c \in Closers |-> {}]
    /\ step = "no" /\ reason = "none" /\ deadline = FALSE /\ watch = FALSE
    /\ audit = {} /\ exit = "no"

-----------------------------------------------------------------------------
(* Start *)

(* Settings, systems, tool files, audit log, export directory; in stdio mode   *)
(* the pools are registered before the connection is tried.                    *)
Load ==
    /\ stage = "load"
    /\ stage' = IF StdioEnabled THEN "connect" ELSE "listen"
    /\ watch' \in BOOLEAN
    /\ owned' = StdioEnabled
    /\ UNCHANGED <<mode, client, transports, pools, closers, step, reason, deadline, audit, exit>>

(* The connection test may fail: the server starts all the same. Stdin is read *)
(* from here on only.                                                          *)
ServeStdio ==
    /\ stage = "connect"
    /\ \E used \in SUBSET StdioPools : pools' = [p \in StdioPools |-> IF p \in used THEN "open" ELSE "none"]
    /\ stdio' = "serving"
    /\ stage' = IF HttpEnabled THEN "listen" ELSE "up"
    /\ UNCHANGED <<mode, client, http, owned, closers, shutdownVars>>

Listen ==
    /\ stage = "listen"
    /\ http' = "serving"
    /\ stage' = "up"
    /\ UNCHANGED <<mode, client, stdio, poolVars, shutdownVars>>

(* A bad setting or a taken port *)
StartFails ==
    /\ stage # "up"
    /\ exit' = "failed"
    /\ UNCHANGED <<mode, stage, client, transports, poolVars, step, reason, deadline, watch, audit>>

-----------------------------------------------------------------------------
(* Stdio pools *)

(* A statement of the stdio client creates its pool; one that is under way     *)
(* does so even after the transport closed, while the key is registered.       *)
UsePool(p) ==
    /\ owned /\ stdio # "off" /\ pools[p] = "none"
    /\ pools' = [pools EXCEPT ![p] = "open"]
    /\ UNCHANGED <<mode, stage, client, transports, owned, closers, shutdownVars>>

(* closeGlobalPool(): the key is gone at once. When it was gone before, there  *)
(* is nothing left to close, or to wait for.                                   *)
CloseStdioPools(c) ==
    /\ owned' = FALSE
    /\ closers' = [closers EXCEPT ![c] = IF owned THEN {p \in StdioPools : pools[p] = "open"} ELSE {}]
    /\ UNCHANGED pools

(* closeOwner() closes one pool after the other; a close waits for a statement *)
ClosePool(c, p) ==
    /\ p \in closers[c] /\ pools[p] = "open"
    /\ \A q \in closers[c] : pools[q] = "open"
    /\ pools' = [pools EXCEPT ![p] = "closing"]
    /\ UNCHANGED <<mode, stage, client, transports, owned, closers, shutdownVars>>

PoolCloses(c, p) ==
    /\ p \in closers[c] /\ pools[p] = "closing"
    /\ pools' = [pools EXCEPT ![p] = "closed"]
    /\ closers' = [closers EXCEPT ![c] = @ \ {p}]
    /\ UNCHANGED <<mode, stage, client, transports, owned, shutdownVars>>

-----------------------------------------------------------------------------
(* Shutdown *)

(* Mutant: no deadline is set *)
ShutdownUnlimited(why) ==
    IF step = "no"
    THEN /\ step' = "transports" /\ reason' = why
         /\ audit' = audit \cup {"shutdown"}
         /\ watch' = FALSE
         /\ http' = IF http = "serving" THEN "closing" ELSE http
         /\ UNCHANGED <<deadline, exit>>
    ELSE UNCHANGED <<http, shutdownVars>>

(* run() up to its first await. A transport that closed before is not asked    *)
(* to close again.                                                             *)
Shutdown(why) ==
    IF step = "no"
    THEN /\ step' = "transports" /\ reason' = why
         /\ audit' = audit \cup {"shutdown"}
         /\ watch' = FALSE /\ deadline' = TRUE
         /\ http' = IF http = "serving" THEN "closing" ELSE http
         /\ UNCHANGED exit
    ELSE UNCHANGED <<http, shutdownVars>>

ClientLeaves ==
    /\ client = "here"
    /\ client' = "left"
    /\ UNCHANGED <<mode, stage, transports, poolVars, shutdownVars>>

(* The transport closes itself when stdin ends or stdout breaks, and reports.  *)
(* onStdioClientGone(): with HTTP enabled only the stdio side ends.            *)
ClientGone ==
    /\ client = "left" /\ stdio = "serving"
    /\ client' = "gone" /\ stdio' = "closed"
    /\ IF HttpEnabled
       THEN CloseStdioPools("leave") /\ UNCHANGED <<http, shutdownVars>>
       ELSE Shutdown("stdin closed") /\ UNCHANGED poolVars
    /\ UNCHANGED <<mode, stage>>

(* The handlers are installed at the end of main() *)
Signal ==
    /\ IF stage = "up"
       THEN /\ step = "no"
            /\ Shutdown("signal")
            /\ stdio' = IF stdio = "serving" THEN "closing" ELSE stdio
       ELSE /\ exit' = "killed"
            /\ UNCHANGED <<transports, step, reason, deadline, watch, audit>>
    /\ UNCHANGED <<mode, stage, client, poolVars>>

(* The report of the transport that shutdown closes is ignored *)
StdioCloses ==
    /\ stdio = "closing"
    /\ stdio' = "closed"
    /\ UNCHANGED <<mode, stage, client, http, poolVars, shutdownVars>>

HttpCloses ==
    /\ http = "closing"
    /\ http' = "closed"
    /\ UNCHANGED <<mode, stage, client, stdio, poolVars, shutdownVars>>

TransportsClosed ==
    /\ step = "transports"
    /\ "closing" \notin {stdio, http}
    /\ step' = "pools"
    /\ CloseStdioPools("shutdown")
    /\ UNCHANGED <<mode, stage, client, transports, reason, deadline, watch, audit, exit>>

(* Mutant: the pools' close is not awaited *)
PoolsClosing ==
    /\ step = "pools"
    /\ step' = "exports"
    /\ UNCHANGED <<mode, stage, client, transports, poolVars, reason, deadline, watch, audit, exit>>

PoolsClosed ==
    /\ step = "pools" /\ closers["shutdown"] = {}
    /\ step' = "exports"
    /\ UNCHANGED <<mode, stage, client, transports, poolVars, reason, deadline, watch, audit, exit>>

(* The export files are deleted, or that failed: finish(0) *)
ExportsDeleted ==
    /\ step = "exports"
    /\ step' = "done" /\ deadline' = FALSE
    /\ exit' = "clean"
    /\ UNCHANGED <<mode, stage, client, transports, poolVars, reason, watch, audit>>

Deadline ==
    /\ deadline
    /\ deadline' = FALSE
    /\ audit' = audit \cup {"deadline"}
    /\ exit' = "failed"
    /\ UNCHANGED <<mode, stage, client, transports, poolVars, step, reason, watch>>

-----------------------------------------------------------------------------
LifecycleNext ==
    /\ exit = "no"
    /\ \/ Load \/ ServeStdio \/ Listen \/ StartFails
       \/ \E p \in StdioPools : UsePool(p)
       \/ \E c \in Closers, p \in StdioPools : ClosePool(c, p) \/ PoolCloses(c, p)
       \/ ClientLeaves \/ ClientGone \/ Signal
       \/ StdioCloses \/ HttpCloses
       \/ TransportsClosed \/ PoolsClosed \/ ExportsDeleted \/ Deadline

LifecycleSpec == LifecycleInit /\ [][LifecycleNext]_lifecycleVars

(* The event loop reports the end of stdin and runs the deadline's timer.      *)
(* Nothing is assumed of the transports, the pools and the file system.        *)
LifecycleFairness ==
    /\ WF_lifecycleVars(exit = "no" /\ ClientGone)
    /\ WF_lifecycleVars(exit = "no" /\ Deadline)

-----------------------------------------------------------------------------
(* Properties *)

(* The process never outlives its stdio client, although a pool may never      *)
(* close; and once a shutdown has begun, it ends.                              *)
LeavesWithItsClient ==
    /\ (mode = "stdio" /\ stdio = "serving" /\ client = "left") ~> (exit # "no")
    /\ (step # "no") ~> (exit # "no")

(* With HTTP enabled the stdio client's leaving ends its side only. Exit code  *)
(* 0 means that nothing was left open: the transports, the watch and every     *)
(* stdio pool, but those that were closing since the client had left. A        *)
(* shutdown that could not finish says so in the audit log and exits with 1.   *)
ShutdownIsComplete ==
    /\ LifecycleTypeOK
    /\ reason = "stdin closed" => mode = "stdio"
    /\ HttpEnabled /\ stage = "up" /\ step = "no" => http = "serving"
    /\ exit = "clean" =>
          /\ {stdio, http} \subseteq {"off", "closed"}
          /\ ~watch /\ ~deadline /\ "deadline" \notin audit
          /\ \A p \in StdioPools : pools[p] \in {"open", "closing"} => p \in closers["leave"]
          /\ closers["leave"] # {} => mode = "both"
    /\ exit = "failed" /\ step # "no" => "deadline" \in audit
    /\ exit # "no" /\ step # "no" => "shutdown" \in audit

=============================================================================
