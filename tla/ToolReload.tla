------------------------------ MODULE ToolReload ------------------------------
(* Business SQL tools while their files change: the directory watch, the       *)
(* reload, the registry with its cache of parse outcomes, the servers that     *)
(* outlive a request, and the calls that are under way meanwhile.              *)
(* MCP_CUSTOM_TOOLS_WATCH is on.                                               *)
(* Files: src/customTools/{watch,registry,execute}.ts, src/server.ts,          *)
(* src/index.ts.                                                               *)
EXTENDS Naturals

CONSTANTS
    Names,      \* tool names
    Sqls,       \* statements, with their placeholders already rewritten to ?
    Systems,    \* IBM i systems
    Servers,    \* servers that outlive a request: stdio, stateful sessions
    Calls,      \* tool calls under way
    ToolSets,   \* what the files can hold when they are valid
    Broken,     \* files that do not load
    Permitted,  \* <<statement, system>>: names only libraries of the allowlist
    MaxEdits,   \* bound: changes to the files
    None

(* A tool as the loader stores it. binds stands for placeholderNames and       *)
(* masked for maskedColumns: neither shows in the rewritten statement.         *)
Defs == [sql : Sqls, binds : {1, 2}, masked : BOOLEAN, system : Systems \cup {None}]

ASSUME SetsAssumption ==
    /\ ToolSets \subseteq [Names -> Defs \cup {None}]
    /\ ToolSets # {}
    /\ Broken \notin ToolSets
ASSUME NoneAssumption == None \notin Defs \cup Systems \cup [Names -> Defs \cup {None}]
ASSUME BoundAssumption == MaxEdits \in Nat

VARIABLES
    disk,       \* the tool files: a valid set, or Broken
    missed,     \* a change since the last load that no watch reported
    newDir,     \* a directory was made below a watched one after the start
    event,      \* the file system has an event to deliver
    reloadTimer,    \* the timer of the reload is set
    watching,   \* "none" before it starts, "lost" when a path has none any more
    loaded,     \* the registry's tool set
    loads,      \* how often it was replaced
    cache,      \* parse outcomes by system and tool name
    live,       \* tools registered on each server, None when it is not serving
    bound,      \* the only system a server's session may use, or None
    call

vars == <<disk, missed, newDir, event, reloadTimer, watching, loaded, loads, cache, live, bound, call>>
fileVars == <<disk, missed, newDir, event>>
watchVars == <<reloadTimer, watching>>
registryVars == <<loaded, loads, cache>>
serverVars == <<live, bound>>

(* One parse outcome. late marks one that was stored by a call that a reload   *)
(* had overtaken; the code keeps no such mark.                                 *)
Outcomes == [of : Sqls, system : Systems, ok : BOOLEAN, late : BOOLEAN]

Idle == [pc |-> "idle"]
(* late: the registry was replaced since the call started *)
Busy == [pc : {"parse", "explain", "run"}, name : Names, def : Defs, system : Systems,
         late : BOOLEAN, used : Outcomes \cup {None}]

TypeOK ==
    /\ disk \in ToolSets \cup {Broken}
    /\ {missed, newDir, event, reloadTimer} \subseteq BOOLEAN
    /\ watching \in {"none", "on", "lost", "stopped"}
    /\ loaded \in ToolSets
    /\ loads \in Nat
    /\ cache \in [Systems \X Names -> Outcomes \cup {None}]
    /\ live \in [Servers -> [Names -> Defs \cup {None}] \cup {None}]
    /\ bound \in [Servers -> Systems \cup {None}]
    /\ call \in [Calls -> Busy \cup {Idle}]

(* main() has loaded the tools and awaits the store of the exports *)
Init ==
    /\ disk \in ToolSets
    /\ loaded = disk
    /\ missed = FALSE /\ newDir = FALSE /\ event = FALSE /\ reloadTimer = FALSE
    /\ watching = "none"
    /\ loads = 0
    /\ cache = [k \in Systems \X Names |-> None]
    /\ live = [v \in Servers |-> None]
    /\ bound = [v \in Servers |-> None]
    /\ call = [c \in Calls |-> Idle]

-----------------------------------------------------------------------------
(* The files and their watch *)

Running == watching \in {"on", "lost"}

(* startCustomToolsWatch(): a path that cannot be watched is logged, and the   *)
(* watch goes on without it.                                                   *)
StartWatch ==
    /\ watching = "none"
    /\ watching' \in {"on", "lost"}
    /\ UNCHANGED <<fileVars, reloadTimer, registryVars, serverVars, call>>

(* An FSWatcher emits 'error', which is logged: the events it had not          *)
(* delivered may be lost with it.                                              *)
WatchFails ==
    /\ watching = "on"
    /\ watching' = "lost"
    /\ \/ UNCHANGED <<event, missed>>
       \/ event /\ event' = FALSE /\ missed' = TRUE
    /\ UNCHANGED <<disk, newDir, reloadTimer, registryVars, serverVars, call>>

(* A file of a path that is watched is written *)
Save(f) ==
    /\ Running
    /\ disk' = f
    /\ event' = TRUE
    /\ UNCHANGED <<missed, newDir, watching>>

(* A file that is listed itself is replaced by another one, as editors save:   *)
(* the watch reports that, and then watches a file that is gone.               *)
ReplaceFile(f) ==
    /\ Running
    /\ disk' = f
    /\ event' = TRUE
    /\ watching' = "lost"
    /\ UNCHANGED <<missed, newDir>>

(* watchDirectory() runs for the directories that exist at the start. The      *)
(* callback calls it again with the watched directory itself, which returns at *)
(* once, so a directory made later has no watch of its own.                    *)
MakeDir ==
    /\ Running /\ ~newDir
    /\ newDir' = TRUE
    /\ event' = TRUE
    /\ UNCHANGED <<disk, missed, watching>>

(* A change before the watch starts, after it was lost or stopped, or below a  *)
(* directory that has none                                                     *)
SaveUnseen(f) ==
    /\ watching # "on" \/ newDir
    /\ disk' = f
    /\ missed' = TRUE
    /\ UNCHANGED <<newDir, event, watching>>

FilesChange ==
    /\ loads < MaxEdits
    /\ \/ \E f \in (ToolSets \cup {Broken}) \ {disk} : Save(f) \/ ReplaceFile(f) \/ SaveUnseen(f)
       \/ MakeDir
    /\ UNCHANGED <<reloadTimer, registryVars, serverVars, call>>

(* Mutant: an event that finds the timer set clears it and sets no new one *)
ScheduleReloadOnce ==
    /\ event /\ Running
    /\ event' = FALSE
    /\ reloadTimer' = ~reloadTimer
    /\ UNCHANGED <<disk, missed, newDir, watching, registryVars, serverVars, call>>

(* Every event restarts the timer *)
ScheduleReload ==
    /\ event /\ Running
    /\ event' = FALSE
    /\ reloadTimer' = TRUE
    /\ UNCHANGED <<disk, missed, newDir, watching, registryVars, serverVars, call>>

StopWatch ==
    /\ Running
    /\ watching' = "stopped" /\ reloadTimer' = FALSE
    /\ UNCHANGED <<fileVars, registryVars, serverVars, call>>

-----------------------------------------------------------------------------
(* Tools of the servers that outlive a request *)

(* A tool pinned to a system is left out of a session bound to another one *)
Reachable(d, system) == d.system = None \/ system = None \/ d.system = system

SessionTools(set, system) ==
    [n \in Names |-> IF set[n] # None /\ Reachable(set[n], system) THEN set[n] ELSE None]

(* toolSignature() reads the rewritten statement, the system and the texts, but *)
(* neither the bind order nor the masked columns.                               *)
Signature(d) == <<d.sql, d.system>>

SameSignature(d, e) == d # None /\ e # None /\ Signature(d) = Signature(e)

(* Mutant: a tool that the new set no longer has stays registered *)
SyncOneServerKeeping(tools, next) ==
    [n \in Names |-> IF next[n] = None \/ SameSignature(tools[n], next[n]) THEN tools[n] ELSE next[n]]

(* A registered tool is replaced when its signature changes, and removed or     *)
(* added as the new set says.                                                   *)
SyncOneServer(tools, next) ==
    [n \in Names |-> IF SameSignature(tools[n], next[n]) THEN tools[n] ELSE next[n]]

SyncLive(set) ==
    [v \in Servers |->
        IF live[v] = None THEN None ELSE SyncOneServer(live[v], SessionTools(set, bound[v]))]

(* The timer reads the whole set in one piece; a set that does not load        *)
(* changes nothing.                                                            *)
Reload ==
    /\ reloadTimer /\ Running
    /\ reloadTimer' = FALSE
    /\ missed' = FALSE
    /\ IF disk = Broken THEN UNCHANGED <<registryVars, live, call>>
       ELSE /\ loaded' = disk
            /\ loads' = loads + 1
            /\ cache' = [k \in Systems \X Names |-> None]
            /\ live' = SyncLive(disk)
            /\ call' = [c \in Calls |-> IF call[c] = Idle THEN Idle ELSE [call[c] EXCEPT !.late = TRUE]]
    /\ UNCHANGED <<disk, newDir, event, watching, bound>>

(* createServer() reads the registry; connecting it does no I/O, so no timer    *)
(* runs before the server is on the list of live ones. The transports start     *)
(* after the watch.                                                             *)
OpenServer(v) ==
    /\ watching # "none"
    /\ live[v] = None
    /\ \E s \in Systems \cup {None} :
          /\ bound' = [bound EXCEPT ![v] = s]
          /\ live' = [live EXCEPT ![v] = SessionTools(loaded, s)]
    /\ UNCHANGED <<fileVars, watchVars, registryVars, call>>

CloseServer(v) ==
    /\ live[v] # None
    /\ live' = [live EXCEPT ![v] = None]
    /\ UNCHANGED <<fileVars, watchVars, registryVars, bound, call>>

-----------------------------------------------------------------------------
(* Calls of a business tool *)

(* The servers a call can come in on: a live one, or one that the stateless    *)
(* handler builds from the registry for this request.                          *)
Offers(system) ==
    {<<live[v], bound[v]>> : v \in {w \in Servers : live[w] # None}}
        \cup {<<SessionTools(loaded, system), system>>}

(* What an outcome means for the call: a rejected statement, or one that names *)
(* a library outside the system's allowlist, is not run.                       *)
Judged(d, outcome) == outcome.ok /\ <<outcome.of, outcome.system>> \in Permitted

Run(c, d, outcome) ==
    call' = [call EXCEPT ![c] = IF Judged(d, outcome)
                                THEN [d EXCEPT !.pc = "run", !.used = outcome] ELSE Idle]

Started(n, d, system) ==
    [pc |-> "parse", name |-> n, def |-> d, system |-> system, late |-> FALSE, used |-> None]

(* A cached outcome spares the call its check *)
BeginWith(c, system, offer, n) ==
    LET d == offer[1][n]
        cached == cache[<<system, n>>]
    IN  /\ d # None
        /\ offer[2] \in {None, system}
        /\ d.system \in {None, system}
        /\ IF cached = None THEN call' = [call EXCEPT ![c] = Started(n, d, system)]
           ELSE Run(c, Started(n, d, system), cached)

Begin(c) ==
    /\ watching # "none"
    /\ call[c] = Idle
    /\ \E system \in Systems, b \in Systems \cup {None} :
          \E offer \in Offers(b), n \in Names : BeginWith(c, system, offer, n)
    /\ UNCHANGED <<fileVars, watchVars, registryVars, serverVars>>

(* Mutant: the key leaves the system out *)
RememberByName(c, outcome) ==
    cache' = [key \in Systems \X Names |-> IF key[2] = call[c].name THEN outcome ELSE cache[key]]

(* cacheParse(): stored by name and system, whatever was reloaded meanwhile *)
Remember(c, outcome) ==
    cache' = [cache EXCEPT ![<<call[c].system, call[c].name>>] = outcome]

OutcomeOf(c, ok) ==
    [of |-> call[c].def.sql, system |-> call[c].system, ok |-> ok, late |-> call[c].late]

(* PARSE_STATEMENT named the tables of a query, found another statement type,  *)
(* or is not installed.                                                        *)
ParseAnswers(c) ==
    /\ call[c].pc = "parse"
    /\ \E ok \in BOOLEAN :
          /\ Remember(c, OutcomeOf(c, ok))
          /\ Run(c, call[c], OutcomeOf(c, ok))
    /\ UNCHANGED <<fileVars, watchVars, loaded, loads, serverVars>>

(* No row came back: preparing the statement tells why *)
ParseEmpty(c) ==
    /\ call[c].pc = "parse"
    /\ call' = [call EXCEPT ![c].pc = "explain"]
    /\ UNCHANGED <<fileVars, watchVars, registryVars, serverVars>>

Explained(c) ==
    /\ call[c].pc = "explain"
    /\ Remember(c, OutcomeOf(c, FALSE))
    /\ call' = [call EXCEPT ![c] = Idle]
    /\ UNCHANGED <<fileVars, watchVars, loaded, loads, serverVars>>

(* A failing check is not cached; a statement that ran, or failed, is done *)
CallEnds(c) ==
    /\ call[c] # Idle
    /\ call' = [call EXCEPT ![c] = Idle]
    /\ UNCHANGED <<fileVars, watchVars, registryVars, serverVars>>

-----------------------------------------------------------------------------
Next ==
    \/ StartWatch \/ WatchFails \/ FilesChange \/ ScheduleReload \/ StopWatch \/ Reload
    \/ \E v \in Servers : OpenServer(v) \/ CloseServer(v)
    \/ \E c \in Calls :
          Begin(c) \/ ParseAnswers(c) \/ ParseEmpty(c) \/ Explained(c) \/ CallEnds(c)

Spec == Init /\ [][Next]_vars

(* The event loop delivers file events and runs timers that are due *)
FairSpec == Spec /\ WF_vars(ScheduleReload) /\ WF_vars(Reload)

-----------------------------------------------------------------------------
(* Properties *)

(* A statement is sent to the IBM i only on an outcome of that very statement  *)
(* on that system, naming permitted libraries only. The one exception is an    *)
(* outcome stored by a call whose check was under way when a reload cleared    *)
(* the cache: the tool of that name that is loaded now runs on it.             *)
RunsOnItsOwnCheck ==
    \A c \in Calls : call[c] # Idle /\ call[c].pc = "run" =>
        LET o == call[c].used
        IN  /\ o.ok /\ <<o.of, o.system>> \in Permitted
            /\ o.system = call[c].system
            /\ o.of = call[c].def.sql \/ o.late

(* Whatever reloads happened while it was open, a server that outlives its     *)
(* request registers the loaded tools its session can reach and no other, each *)
(* with the loaded statement and system.                                       *)
LiveToolsFollow ==
    \A v \in Servers : live[v] # None =>
        \A n \in Names :
            LET d == SessionTools(loaded, bound[v])[n]
            IN  live[v][n] = d \/ SameSignature(live[v][n], d)

(* docs/configuration.md: "A valid set replaces the running tools". A live      *)
(* server's tool is the loaded one in every respect, its bind order and masked *)
(* columns included.                                                           *)
LiveToolsReplaced ==
    \A v \in Servers : live[v] # None => live[v] = SessionTools(loaded, bound[v])

(* Once the files keep a valid content, it is served in the end, however the   *)
(* changes, broken saves and reloads interleaved. The exceptions are that the  *)
(* watch was stopped, or that nothing reported a change since the last load,   *)
(* for it was made                                                             *)
(*  - after main() loaded the tools and before it started the watch,           *)
(*  - when a path could not be watched or its watch failed, which is logged,   *)
(*  - after a file that is listed itself was replaced by another one, or       *)
(*  - below a directory made after the start;                                  *)
(* and that no change of a watched path has since had everything read again.   *)
ReloadCatchesUp ==
    \A f \in ToolSets :
        <>[](disk = f /\ Running /\ ~missed) => <>[](loaded = f)

=============================================================================
