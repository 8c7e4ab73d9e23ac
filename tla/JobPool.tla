------------------------------ MODULE JobPool --------------------------------
(***************************************************************************)
(* The Mapepire driver's JobPool, src/db/drivers/mapepire.ts: up to MaxJobs *)
(* jobs on the IBM i, started on demand and shared when all are busy.       *)
(*                                                                         *)
(* A job runs the requests it is sent one after another.  QSYS2.CANCEL_SQL  *)
(* names a job and ends whatever that job is running at the moment.         *)
(*                                                                         *)
(* Left out: rows and errors other than that a call ends, prepare (a query  *)
(* of one request), the idle clock (a job without users may be swept at any *)
(* time), and the SSH client, but for the loss of its connection.           *)
(***************************************************************************)
EXTENDS Integers, Sequences, FiniteSets, SequencesExt

CONSTANTS
    Slots,    \* JobSlot objects; bounds how many jobs are ever started
    Calls,    \* calls of query() and openCursor(), each made once
    MaxJobs,  \* maxJobs
    None

ASSUME MaxJobsAssumption == MaxJobs \in Nat \ {0}
ASSUME SlotsAssumption == IsFiniteSet(Slots) /\ None \notin Slots
ASSUME CallsAssumption == IsFiniteSet(Calls)

VARIABLES
    closed,   \* JobPool.closed
    slots,    \* JobPool.slots
    job,      \* the job of each slot
    active,   \* JobSlot.active
    queue,    \* requests each job was sent and has not answered; it runs the first
    pc,       \* where each call stands
    on,       \* the slot a call has taken
    spoiled,  \* openCursor's failed and cancelFailed
    cancel    \* the CANCEL_SQL call for each call

vars == <<closed, slots, job, active, queue, pc, on, spoiled, cancel>>

\* Where a call has a slot
Holding == {"q-wait", "q-run", "q-cancel", "q-grace",
            "c-wait", "c-run", "c-open", "c-closing"}

TypeOK ==
    /\ closed \in BOOLEAN
    /\ slots \subseteq {s \in Slots : job[s] # "none"}
    /\ job \in [Slots -> {"none", "starting", "up", "ended", "failed"}]
    /\ active \in [Slots -> 0..Cardinality(Calls)]
    /\ queue \in [Slots -> Seq(Calls)]
    /\ pc \in [Calls -> Holding \cup {"idle", "done"}]
    /\ on \in [Calls -> Slots \cup {None}]
    /\ \A c \in Calls : pc[c] \in Holding => on[c] # None
    /\ spoiled \in [Calls -> BOOLEAN]
    /\ cancel \in [Calls -> {"no", "sent", "worked", "failed"}]

Init ==
    /\ closed = FALSE
    /\ slots = {}
    /\ job = [s \in Slots |-> "none"]
    /\ active = [s \in Slots |-> 0]
    /\ queue = [s \in Slots |-> <<>>]
    /\ pc = [c \in Calls |-> "idle"]
    /\ on = [c \in Calls |-> None]
    /\ spoiled = [c \in Calls |-> FALSE]
    /\ cancel = [c \in Calls |-> "no"]

Pending(c) == on[c] # None /\ c \in ToSet(queue[on[c]])
Usable(s)  == job[s] = "up"
Free       == {s \in slots : active[s] = 0}

-----------------------------------------------------------------------------
(***************************************************************************)
(* Jobs                                                                    *)
(***************************************************************************)

\* startSlot, the job is up: closed at once when its slot is gone meanwhile
StartOk(s) ==
    /\ job[s] = "starting"
    /\ job' = [job EXCEPT ![s] = IF closed \/ s \notin slots THEN "ended" ELSE "up"]
    /\ UNCHANGED <<closed, slots, active, queue, pc, on, spoiled, cancel>>

\* startSlot, the start failed
StartFails(s) ==
    /\ job[s] = "starting"
    /\ job' = [job EXCEPT ![s] = "failed"]
    /\ slots' = slots \ {s}
    /\ UNCHANGED <<closed, active, queue, pc, on, spoiled, cancel>>

\* The job answers the request it runs
Answer(s) ==
    /\ queue[s] # <<>>
    /\ queue' = [queue EXCEPT ![s] = Tail(@)]
    /\ UNCHANGED <<closed, slots, job, active, pc, on, spoiled, cancel>>

\* The job answers, and runOnJob sends the next fetch behind the requests
\* that wait
FetchMore(s) ==
    /\ queue[s] # <<>>
    /\ pc[Head(queue[s])] \in {"q-run", "q-cancel", "q-grace"}
    /\ queue' = [queue EXCEPT ![s] = Append(Tail(@), Head(@))]
    /\ UNCHANGED <<closed, slots, job, active, pc, on, spoiled, cancel>>

\* Jobs that ended, with what they were sent
Ended(S) ==
    /\ job' = [s \in Slots |-> IF s \in S /\ job[s] = "up" THEN "ended" ELSE job[s]]
    /\ queue' = [s \in Slots |-> IF s \in S THEN <<>> ELSE queue[s]]

\* A job's server process is gone.  The pool is not told.
JobDies(s) ==
    /\ Usable(s)
    /\ Ended({s})
    /\ UNCHANGED <<closed, slots, active, pc, on, spoiled, cancel>>

\* onDead: the SSH connection is gone, and every job with it
TransportDies ==
    /\ slots # {}
    /\ slots' = {}
    /\ Ended(Slots)
    /\ UNCHANGED <<closed, active, pc, on, spoiled, cancel>>

\* closeIdleJobs
Sweep(S) ==
    /\ S # {}
    /\ S \subseteq {s \in Free : job[s] \in {"up", "ended"}}
    /\ slots' = slots \ S
    /\ Ended(S)
    /\ UNCHANGED <<closed, active, pc, on, spoiled, cancel>>

\* close
Close ==
    /\ ~closed
    /\ closed' = TRUE
    /\ slots' = {}
    /\ Ended(slots)
    /\ UNCHANGED <<active, pc, on, spoiled, cancel>>

-----------------------------------------------------------------------------
(***************************************************************************)
(* Taking and giving back a job                                            *)
(***************************************************************************)

\* The call takes the slot s, a new one or one of the pool's
TakeSlot(c, s, where) ==
    /\ pc' = [pc EXCEPT ![c] = where]
    /\ on' = [on EXCEPT ![c] = s]
    /\ active' = [active EXCEPT ![s] = @ + 1]
    /\ IF s \in slots
       THEN UNCHANGED <<slots, job>>
       ELSE /\ slots' = slots \cup {s}
            /\ job' = [job EXCEPT ![s] = "starting"]

\* startSlot makes one of these, below maxJobs
Startable == IF Cardinality(slots) < MaxJobs THEN {s \in Slots : job[s] = "none"} ELSE {}

LeastBusy == {s \in slots : \A t \in slots : active[s] <= active[t]}

\* pick: an idle job, else a new one, else the least busy
Pick ==
    IF Free # {} THEN Free
    ELSE IF Cardinality(slots) < MaxJobs THEN Startable
    ELSE LeastBusy

\* query, up to its first await
Query(c, s) ==
    /\ pc[c] = "idle"
    /\ ~closed
    /\ s \in Pick
    /\ TakeSlot(c, s, "q-wait")
    /\ UNCHANGED <<closed, queue, spoiled, cancel>>

\* openCursor, up to its first await: an idle job or a new one
OpenCursor(c, s) ==
    /\ pc[c] = "idle"
    /\ ~closed
    /\ s \in IF Free # {} THEN Free ELSE Startable
    /\ TakeSlot(c, s, "c-wait")
    /\ UNCHANGED <<closed, queue, spoiled, cancel>>

\* The pool is closed, or every job is busy
Refuse(c) ==
    /\ pc[c] = "idle"
    /\ closed \/ (Free = {} /\ Cardinality(slots) >= MaxJobs)
    /\ pc' = [pc EXCEPT ![c] = "done"]
    /\ UNCHANGED <<closed, slots, job, active, queue, on, spoiled, cancel>>

\* The call is over and gives its slot back
Release(c) ==
    /\ pc' = [pc EXCEPT ![c] = "done"]
    /\ active' = [active EXCEPT ![on[c]] = @ - 1]

\* Over, and the job may be used again
Keep(c) ==
    /\ Release(c)
    /\ UNCHANGED <<slots, job, queue>>

\* Over, and the job is not reused: drop and job.close()
Drop(c) ==
    /\ Release(c)
    /\ slots' = slots \ {on[c]}
    /\ Ended({on[c]})

\* The job did not start
NoJob(c) ==
    /\ pc[c] \in {"q-wait", "c-wait"}
    /\ job[on[c]] = "failed"
    /\ Keep(c)
    /\ UNCHANGED <<closed, on, spoiled, cancel>>

\* The job is ready: the first request is sent to it
Send(c) ==
    /\ pc[c] \in {"q-wait", "c-wait"}
    /\ job[on[c]] \in {"up", "ended"}
    /\ pc' = [pc EXCEPT ![c] = IF pc[c] = "q-wait" THEN "q-run" ELSE "c-run"]
    /\ queue' = IF Usable(on[c]) THEN [queue EXCEPT ![on[c]] = Append(@, c)] ELSE queue
    /\ UNCHANGED <<closed, slots, job, active, on, spoiled, cancel>>

-----------------------------------------------------------------------------
(***************************************************************************)
(* Queries                                                                 *)
(***************************************************************************)

\* Rows, or an error that leaves the job usable
Return(c) ==
    /\ pc[c] = "q-run"
    /\ ~Pending(c)
    /\ Usable(on[c])
    /\ Keep(c)
    /\ UNCHANGED <<closed, on, spoiled, cancel>>

\* requestTimeout, or an error with the job gone
Fail(c) ==
    /\ pc[c] = "q-run"
    /\ Pending(c) \/ ~Usable(on[c])
    /\ Drop(c)
    /\ UNCHANGED <<closed, on, spoiled, cancel>>

\* withQueryTimeout: the time limit has passed, the cancel is called
QueryTimeout(c) ==
    /\ pc[c] = "q-run"
    /\ pc' = [pc EXCEPT ![c] = "q-cancel"]
    /\ cancel' = [cancel EXCEPT ![c] = "sent"]
    /\ UNCHANGED <<closed, slots, job, active, queue, on, spoiled>>

\* The cancel failed, or no connection is there to cancel with
CancelFails(c) ==
    /\ pc[c] = "q-cancel"
    /\ cancel' = [cancel EXCEPT ![c] = "failed"]
    /\ Drop(c)
    /\ UNCHANGED <<closed, on, spoiled>>

\* CANCEL_SQL on the job of c: the request it runs, whosever it is, is ended
CancelSql(c) ==
    /\ cancel[c] = "sent"
    /\ cancel' = [cancel EXCEPT ![c] = "worked"]
    /\ queue' = IF queue[on[c]] = <<>> THEN queue ELSE [queue EXCEPT ![on[c]] = Tail(@)]

\* The cancel of a query went through, and its grace begins
CancelWorks(c) ==
    /\ pc[c] = "q-cancel"
    /\ CancelSql(c)
    /\ pc' = [pc EXCEPT ![c] = "q-grace"]
    /\ UNCHANGED <<closed, slots, job, active, on, spoiled>>

\* Mutant: no grace timer
GraceEndsWithStatement(c) ==
    /\ pc[c] = "q-grace"
    /\ ~Pending(c)
    /\ Keep(c)
    /\ UNCHANGED <<closed, on, spoiled, cancel>>

\* The statement has ended, or CANCEL_GRACE_MS has passed
GraceEnds(c) ==
    /\ pc[c] = "q-grace"
    /\ Keep(c)
    /\ UNCHANGED <<closed, on, spoiled, cancel>>

-----------------------------------------------------------------------------
(***************************************************************************)
(* Cursors                                                                 *)
(***************************************************************************)

\* The first batch, or the next one, is there
Batch(c) ==
    /\ pc[c] = "c-run"
    /\ ~Pending(c)
    /\ Usable(on[c])
    /\ pc' = [pc EXCEPT ![c] = "c-open"]
    /\ UNCHANGED <<closed, slots, job, active, queue, on, spoiled, cancel>>

\* next: another fetch
NextBatch(c) ==
    /\ pc[c] = "c-open"
    /\ Usable(on[c])
    /\ pc' = [pc EXCEPT ![c] = "c-run"]
    /\ queue' = [queue EXCEPT ![on[c]] = Append(@, c)]
    /\ UNCHANGED <<closed, slots, job, active, on, spoiled, cancel>>

\* The fetch did not answer within requestTimeout
FetchTimeout(c) ==
    /\ pc[c] = "c-run"
    /\ Pending(c)
    /\ ~spoiled[c]
    /\ spoiled' = [spoiled EXCEPT ![c] = TRUE]
    /\ UNCHANGED <<closed, slots, job, active, queue, pc, on, cancel>>

\* The caller's signal aborts: cancelJob is called, and nobody waits for it
Abort(c) ==
    /\ pc[c] \in {"c-run", "c-open"}
    /\ cancel[c] = "no"
    /\ cancel' = [cancel EXCEPT ![c] = "sent"]
    /\ UNCHANGED <<closed, slots, job, active, queue, pc, on, spoiled>>

AbortWorks(c) ==
    /\ pc[c] # "q-cancel"
    /\ CancelSql(c)
    /\ UNCHANGED <<closed, slots, job, active, pc, on, spoiled>>

AbortFails(c) ==
    /\ pc[c] # "q-cancel"
    /\ cancel[c] = "sent"
    /\ cancel' = [cancel EXCEPT ![c] = "failed"]
    /\ spoiled' = [spoiled EXCEPT ![c] = TRUE]
    /\ UNCHANGED <<closed, slots, job, active, queue, pc, on>>

\* Mutant: the job is given back before its cursor is closed on the IBM i
CloseCursorEarly(c) ==
    /\ pc[c] \in {"c-run", "c-open"}
    /\ IF spoiled[c] \/ ~Usable(on[c])
       THEN Drop(c)
       ELSE Keep(c)
    /\ UNCHANGED <<closed, on, spoiled, cancel>>

\* The signal was aborted before the job was ready: nothing is sent
OpenAborted(c) ==
    /\ pc[c] = "c-wait"
    /\ job[on[c]] \in {"up", "ended"}
    /\ IF Usable(on[c]) THEN Keep(c) ELSE Drop(c)
    /\ UNCHANGED <<closed, on, spoiled, cancel>>

\* close: a job that may still run the statement is dropped, any other is
\* sent the close of its cursor unless that is read to the end.  The caller
\* may close while a fetch is still waiting.
CloseCursor(c) ==
    /\ pc[c] \in {"c-run", "c-open"}
    /\ \/ /\ spoiled[c] \/ ~Usable(on[c])
          /\ Drop(c)
       \/ /\ ~spoiled[c] /\ Usable(on[c])
          /\ pc' = [pc EXCEPT ![c] = "c-closing"]
          /\ queue' = [queue EXCEPT ![on[c]] = Append(@, c)]
          /\ UNCHANGED <<slots, job, active>>
       \/ /\ ~spoiled[c] /\ Usable(on[c])
          /\ ~Pending(c)
          /\ Keep(c)
    /\ UNCHANGED <<closed, on, spoiled, cancel>>

\* The cursor is closed on the IBM i, or its job has gone
CursorClosed(c) ==
    /\ pc[c] = "c-closing"
    /\ ~Pending(c)
    /\ Keep(c)
    /\ UNCHANGED <<closed, on, spoiled, cancel>>

-----------------------------------------------------------------------------
Next ==
    \/ \E s \in Slots : StartOk(s)
    \/ \E s \in Slots : StartFails(s)
    \/ \E s \in Slots : Answer(s)
    \/ \E s \in Slots : FetchMore(s)
    \/ \E s \in Slots : JobDies(s)
    \/ TransportDies
    \/ \E S \in SUBSET Slots : Sweep(S)
    \/ Close
    \/ \E c \in Calls, s \in Slots : Query(c, s)
    \/ \E c \in Calls, s \in Slots : OpenCursor(c, s)
    \/ \E c \in Calls : Refuse(c)
    \/ \E c \in Calls : NoJob(c)
    \/ \E c \in Calls : Send(c)
    \/ \E c \in Calls : Return(c)
    \/ \E c \in Calls : Fail(c)
    \/ \E c \in Calls : QueryTimeout(c)
    \/ \E c \in Calls : CancelFails(c)
    \/ \E c \in Calls : CancelWorks(c)
    \/ \E c \in Calls : GraceEnds(c)
    \/ \E c \in Calls : Batch(c)
    \/ \E c \in Calls : NextBatch(c)
    \/ \E c \in Calls : FetchTimeout(c)
    \/ \E c \in Calls : Abort(c)
    \/ \E c \in Calls : AbortWorks(c)
    \/ \E c \in Calls : AbortFails(c)
    \/ \E c \in Calls : OpenAborted(c)
    \/ \E c \in Calls : CloseCursor(c)
    \/ \E c \in Calls : CursorClosed(c)

Spec == Init /\ [][Next]_vars

\* Starts, requests (requestTimeout) and cancels (CANCEL_CALL_TIMEOUT_MS) have
\* time limits, so a query's steps go on.  Jobs need not answer, and closing a
\* cursor has no time limit: no fairness of Answer, Batch or CursorClosed.
Fairness ==
    /\ \A s \in Slots : WF_vars(StartOk(s) \/ StartFails(s))
    /\ \A c \in Calls : /\ WF_vars(NoJob(c) \/ Send(c))
                        /\ WF_vars(Return(c) \/ Fail(c))
                        /\ WF_vars(CancelFails(c) \/ CancelWorks(c))
                        /\ WF_vars(GraceEnds(c))

FairSpec == Spec /\ Fairness

-----------------------------------------------------------------------------
(***************************************************************************)
(* Properties                                                              *)
(***************************************************************************)

\* No job is lost: one that is up is in the pool, where the sweep, close() or
\* a failing call will end it, however its start raced with them.
NoLostJob == \A s \in Slots : job[s] = "up" => s \in slots

\* A slot's count is the number of calls that have it, so a job is never
\* swept under a call and never kept for one that is gone.
ActiveExact ==
    \A s \in Slots : active[s] = Cardinality({c \in Calls : pc[c] \in Holding /\ on[c] = s})

\* maxJobs bounds the pool
CapKept == Cardinality(slots) <= MaxJobs

\* "Neither may be reused" (mapepire.ts): a request whose call is over is on a
\* job of the pool only if it was cancelled.
NoOrphanRequest ==
    \A s \in slots, c \in Calls :
        c \in ToSet(queue[s]) /\ pc[c] = "done" => cancel[c] = "worked"

\* The pool knows its jobs and their callers, in every order of starts,
\* timeouts, drops and sweeps, and a job that may still run what its caller
\* gave up is not in it.
JobsAccounted == TypeOK /\ NoLostJob /\ ActiveExact /\ CapKept /\ NoOrphanRequest

\* With a job that never answers, with a start that fails or a cancel that is
\* refused, a query ends.
QueriesEnd ==
    \A c \in Calls : pc[c] \in {"q-wait", "q-run", "q-cancel", "q-grace"} ~> pc[c] = "done"

\* The pool implements SharedJobs: a job is gone once it was started and is not
\* in the pool, and calls have the jobs whose slots they hold.
Gone    == {s \in Slots : job[s] # "none" /\ s \notin slots}
UsersOf == [s \in Slots |-> {c \in Calls : pc[c] \in Holding /\ on[c] = s}]
Over    == {c \in Calls : pc[c] = "done"}

Jobs == INSTANCE SharedJobs WITH
    offered <- slots, gone <- Gone, users <- UsersOf, over <- Over

ImplementsSharedJobs == Jobs!Spec

\* docs/configuration.md: "The Mapepire driver gives an export a job of its own
\* and never shares one, because cancelling at EXPORT_TIMEOUT ends whatever the
\* job is running."  The code does not keep this.
ExportJobNotShared ==
    \A c, d \in Calls :
        /\ pc[c] \in {"c-run", "c-open", "c-closing"}
        /\ pc[d] \in Holding
        /\ on[c] = on[d]
        => c = d

=============================================================================
