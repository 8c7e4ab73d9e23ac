----------------------------- MODULE SshTransport -----------------------------
(* The SSH connection below the Mapepire jobs: opened by the first job, shared  *)
(* by all, opened again after a drop, and closed with the last idle job or the  *)
(* pool. What the jobs do is in JobPool; here they start, come up and go.       *)
(* Files: src/db/drivers/mapepire.ts, src/db/drivers/sshHostKey.ts              *)

CONSTANTS
    Links,          \* SSH clients, each made for one attempt to connect
    SshJobs,        \* job slots
    NoLink

ASSUME NoLinkAssumption == NoLink \notin Links

VARIABLES
    link,           \* the SSH clients
    sshClient,         \* the promise of the connection in use
    current,        \* the connection whose close event counts
    awaited,        \* connections that close() waits for
    rejection,      \* the attempt whose key the verifier refused last: what a failure reports
    jobState, jobOn,
    listed,         \* JobPool.slots
    swept,          \* jobs the sweep is closing
    poolStep        \* JobPool.close()

sshVars == <<link, sshClient, current, awaited, rejection, jobState, jobOn, listed, swept, poolStep>>

SettledLinks == {"up", "down", "failed", "ended"}
Opening == {"connecting", "authenticating", "refused"}

SshTypeOK ==
    /\ link \in [Links -> {"none"} \cup Opening \cup SettledLinks]
    /\ {sshClient, current, rejection} \subseteq Links \cup {NoLink}
    /\ awaited \subseteq Links
    /\ jobState \in [SshJobs -> {"none", "starting", "up", "gone"}]
    /\ jobOn \in [SshJobs -> Links \cup {NoLink}]
    /\ listed \subseteq SshJobs /\ swept \subseteq SshJobs
    /\ poolStep \in {"open", "jobs", "closed"}

SshInit ==
    /\ link = [a \in Links |-> "none"]
    /\ sshClient = NoLink /\ current = NoLink /\ awaited = {}
    /\ rejection = NoLink
    /\ jobState = [j \in SshJobs |-> "none"] /\ jobOn = [j \in SshJobs |-> NoLink]
    /\ listed = {} /\ swept = {} /\ poolStep = "open"

-----------------------------------------------------------------------------
(* Attempts to connect *)

(* getClient(): the promise at hand, settled or not, or a new attempt *)
GetClient(a) ==
    IF sshClient # NoLink THEN a = sshClient /\ UNCHANGED <<link, sshClient>>
    ELSE link[a] = "none" /\ link' = [link EXCEPT ![a] = "connecting"] /\ sshClient' = a

StartJob(j) ==
    /\ poolStep = "open" /\ jobState[j] = "none"
    /\ \E a \in Links : GetClient(a) /\ jobOn' = [jobOn EXCEPT ![j] = a]
    /\ jobState' = [jobState EXCEPT ![j] = "starting"]
    /\ listed' = listed \cup {j}
    /\ UNCHANGED <<current, awaited, rejection, swept, poolStep>>

(* verify() reads known_hosts again for each attempt. The verifier, with the    *)
(* last refusal, is one for all of them.                                        *)
KeyChecked(a) ==
    /\ link[a] = "connecting"
    /\ \/ link' = [link EXCEPT ![a] = "authenticating"] /\ rejection' = NoLink
       \/ link' = [link EXCEPT ![a] = "refused"] /\ rejection' = a
    /\ UNCHANGED <<sshClient, current, awaited, jobState, jobOn, listed, swept, poolStep>>

(* close() goes on before anything else that waits for the connection uses it *)
Ready(a) ==
    /\ link[a] = "authenticating"
    /\ link' = [link EXCEPT ![a] = IF a \in awaited THEN "ended" ELSE "up"]
    /\ current' = IF a \in awaited THEN NoLink ELSE a
    /\ awaited' = awaited \ {a}
    /\ UNCHANGED <<sshClient, rejection, jobState, jobOn, listed, swept, poolStep>>

Starting(a) == {j \in SshJobs : jobState[j] = "starting" /\ jobOn[j] = a}
Gone(jobs) == jobState' = [j \in SshJobs |-> IF j \in jobs THEN "gone" ELSE jobState[j]]

(* An attempt that failed is forgotten, and so are the jobs that waited for it *)
AttemptFails(a) ==
    /\ link[a] \in Opening
    /\ link' = [link EXCEPT ![a] = "failed"]
    /\ sshClient' = IF sshClient = a THEN NoLink ELSE sshClient
    /\ awaited' = awaited \ {a}
    /\ Gone(Starting(a))
    /\ listed' = listed \ Starting(a)
    /\ UNCHANGED <<current, rejection, jobOn, swept, poolStep>>

(* Mutant: the promise of a dropped connection is kept *)
LinkDropsKept(a) ==
    /\ link[a] = "up"
    /\ link' = [link EXCEPT ![a] = "down"]
    /\ IF current = a THEN current' = NoLink /\ listed' = {} ELSE UNCHANGED <<current, listed>>
    /\ UNCHANGED <<sshClient, awaited, rejection, jobState, jobOn, swept, poolStep>>

(* Only the connection in use counts; onDead() drops every job of the pool *)
LinkDrops(a) ==
    /\ link[a] = "up"
    /\ link' = [link EXCEPT ![a] = "down"]
    /\ IF current = a
       THEN current' = NoLink /\ sshClient' = NoLink /\ listed' = {}
       ELSE UNCHANGED <<current, sshClient, listed>>
    /\ UNCHANGED <<awaited, rejection, jobState, jobOn, swept, poolStep>>

(* close() of the factory: the connection is no longer in use at once, and     *)
(* ended, or ended as soon as it is ready.                                     *)
CloseFactory ==
    /\ sshClient' = NoLink
    /\ IF sshClient = NoLink THEN UNCHANGED <<link, current, awaited>>
       ELSE IF link[sshClient] \in Opening
       THEN awaited' = awaited \cup {sshClient} /\ UNCHANGED <<link, current>>
       ELSE /\ link' = [link EXCEPT ![sshClient] = "ended"]
            /\ current' = IF current = sshClient THEN NoLink ELSE current
            /\ UNCHANGED awaited

-----------------------------------------------------------------------------
(* Jobs *)

JobUp(j) ==
    /\ jobState[j] = "starting" /\ link[jobOn[j]] = "up"
    /\ jobState' = [jobState EXCEPT ![j] = IF poolStep # "open" \/ j \notin listed THEN "gone" ELSE "up"]
    /\ UNCHANGED <<link, sshClient, current, awaited, rejection, jobOn, listed, swept, poolStep>>

(* A start that fails, or a job that a query gave up *)
JobDropped(j) ==
    /\ \/ jobState[j] = "up"
       \/ jobState[j] = "starting" /\ link[jobOn[j]] \in SettledLinks
    /\ Gone({j})
    /\ listed' = listed \ {j}
    /\ UNCHANGED <<link, sshClient, current, awaited, rejection, jobOn, swept, poolStep>>

(* closeIdleJobs() *)
SweepJobs ==
    /\ poolStep = "open" /\ swept = {}
    /\ \E idle \in SUBSET {j \in listed : jobState[j] = "up"} :
          /\ idle # {}
          /\ swept' = idle /\ listed' = listed \ idle
    /\ UNCHANGED <<link, sshClient, current, awaited, rejection, jobState, jobOn, poolStep>>

(* Their jobs are closed: without another one the connection goes too *)
SweptJobsClosed ==
    /\ swept # {}
    /\ Gone(swept)
    /\ swept' = {}
    /\ IF poolStep = "open" /\ listed = {} THEN CloseFactory ELSE UNCHANGED <<link, sshClient, current, awaited>>
    /\ UNCHANGED <<rejection, jobOn, listed, poolStep>>

ClosePoolJobs ==
    /\ poolStep = "open"
    /\ poolStep' = "jobs"
    /\ listed' = {}
    /\ UNCHANGED <<link, sshClient, current, awaited, rejection, jobState, jobOn, swept>>

PoolJobsClosed ==
    /\ poolStep = "jobs"
    /\ poolStep' = "closed"
    /\ Gone({j \in SshJobs : jobState[j] = "up"} \ swept)
    /\ CloseFactory
    /\ UNCHANGED <<rejection, jobOn, listed, swept>>

-----------------------------------------------------------------------------
SshNext ==
    \/ \E a \in Links : KeyChecked(a) \/ Ready(a) \/ AttemptFails(a) \/ LinkDrops(a)
    \/ \E j \in SshJobs : StartJob(j) \/ JobUp(j) \/ JobDropped(j)
    \/ SweepJobs \/ SweptJobsClosed \/ ClosePoolJobs \/ PoolJobsClosed

SshSpec == SshInit /\ [][SshNext]_sshVars

-----------------------------------------------------------------------------
(* Properties *)

(* "The connection opens on the first job and reopens after it drops", and no   *)
(* SSH session stays up without the pool knowing it: the connection a new job   *)
(* would get is being opened or is up and watched for its drop; every job in    *)
(* the list is on it; any other open connection is about to be ended; a closed  *)
(* pool has none. A failure after the key check is never put down to a key.      *)
ConnectionIsWatched ==
    /\ SshTypeOK
    /\ sshClient # NoLink => link[sshClient] \in Opening \cup {"up"}
    /\ sshClient # NoLink /\ link[sshClient] = "up" => current = sshClient
    /\ \A a \in Links :
          /\ link[a] = "up" => a = sshClient
          /\ link[a] \in Opening => a = sshClient \/ a \in awaited
          /\ link[a] = "authenticating" => rejection = NoLink
    /\ \A j \in listed : jobOn[j] = sshClient
    /\ poolStep = "closed" => sshClient = NoLink

=============================================================================
