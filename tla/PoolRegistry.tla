---------------------------- MODULE PoolRegistry ----------------------------
(***************************************************************************)
(* The connection pool registry, src/db/connection.ts.                     *)
(*                                                                         *)
(* Pools are owned by a caller (`stdio`, or an HTTP session key) and kept  *)
(* per IBM i system, one read-only query pool and one procedure pool each. *)
(* A pool is created by the first statement that needs it, moves with its  *)
(* owner when a key is handed over, is closed by the idle sweep while      *)
(* nothing runs on the owner, and is closed for good with its key.         *)
(*                                                                         *)
(* An owner and a pool are JavaScript objects: identity matters, because a *)
(* statement keeps the objects it was started with while the maps change.  *)
(* Each action is one run of the event loop up to an `await`.              *)
(***************************************************************************)
EXTENDS Integers, FiniteSets

CONSTANTS
    Keys,      \* what an owner is registered under: session keys and Stdio
    Stdio,     \* STDIO_POOL_KEY
    OwnerIds,  \* Owner objects; one per registration, so it bounds those
    Systems,   \* the configured IBM i systems
    Stmts,     \* concurrent statements and cursors
    Pools,     \* pool objects; one per createPool, so it bounds those
    None       \* `undefined`

ASSUME StdioAssumption == Stdio \in Keys
ASSUME NoneAssumption ==
    /\ None \notin Pools
    /\ None \notin OwnerIds
ASSUME StmtsAssumption == IsFiniteSet(Stmts)

VARIABLES
    owners,    \* the `owners` map: key -> owner, or None
    born,      \* owner objects created so far
    slotPool,  \* PoolSlot.pool of every slot of every owner
    active,    \* Owner.active
    stale,     \* now - Owner.lastUsed >= idleTimeoutMs
    pool,      \* what became of each pool: PoolStates
    home,      \* the slot object a pool was created for, <<owner, slot>>
    closing,   \* pools that a closeSlot is waiting on (`closingPools`)
    closer,    \* per owner, the closeOwner loop: slots left, pool awaited
    stmt       \* the callers of run and openQueryCursor

vars == <<owners, born, slotPool, active, stale, pool, home, closing, closer, stmt>>

Kinds == {"query", "procedure"}
Slots == Systems \X Kinds

\* "none": never created.  "failed": createPool rejected.
PoolStates == {"none", "creating", "open", "closed", "failed"}

Free  == [pc |-> "idle", key |-> None, owner |-> None, slot |-> None, pool |-> None]
NoRun == [todo |-> {}, at |-> None]

StmtStates ==
    {Free} \cup [pc: {"acquiring", "running"},
                key: Keys, owner: OwnerIds, slot: Slots, pool: Pools]

TypeOK ==
    /\ owners \in [Keys -> OwnerIds \cup {None}]
    /\ born \subseteq OwnerIds
    /\ slotPool \in [OwnerIds -> [Slots -> Pools \cup {None}]]
    /\ active \in [OwnerIds -> Int]
    /\ stale \in [OwnerIds -> BOOLEAN]
    /\ pool \in [Pools -> PoolStates]
    /\ home \in [Pools -> (OwnerIds \X Slots) \cup {None}]
    /\ closing \subseteq Pools
    /\ closer \in [OwnerIds -> [todo: SUBSET Slots, at: Pools \cup {None}]]
    /\ stmt \in [Stmts -> StmtStates]

Init ==
    /\ owners = [k \in Keys |-> None]
    /\ born = {}
    /\ slotPool = [o \in OwnerIds |-> [s \in Slots |-> None]]
    /\ active = [o \in OwnerIds |-> 0]
    /\ stale = [o \in OwnerIds |-> FALSE]
    /\ pool = [p \in Pools |-> "none"]
    /\ home = [p \in Pools |-> None]
    /\ closing = {}
    /\ closer = [o \in OwnerIds |-> NoRun]
    /\ stmt = [t \in Stmts |-> Free]

Registered(o)  == \E k \in Keys : owners[k] = o
HasOpenPool(o) == \E s \in Slots : slotPool[o][s] # None
Live(p)        == pool[p] \in {"creating", "open"}
PoolsOf(o)     == {slotPool[o][s] : s \in Slots} \ {None}
Users(o)       == {t \in Stmts : stmt[t].owner = o}

-----------------------------------------------------------------------------
(***************************************************************************)
(* Keys                                                                    *)
(***************************************************************************)

\* registerOwner, behind initializePool and initializeSessionPool
Register(k, o) ==
    /\ owners[k] = None
    /\ o \notin born
    /\ owners' = [owners EXCEPT ![k] = o]
    /\ born' = born \cup {o}
    /\ UNCHANGED <<slotPool, active, stale, pool, home, closing, closer, stmt>>

\* Mutant: pools that `to` already has are overwritten
MoveOverwriting(from, to) ==
    /\ from # to
    /\ Stdio \notin {from, to}
    /\ owners[from] # None
    /\ owners' = [owners EXCEPT ![from] = None, ![to] = owners[from]]
    /\ UNCHANGED <<born, slotPool, active, stale, pool, home, closing, closer, stmt>>

\* moveSessionPool: `to` may be registered, unless it has an open pool or a
\* statement running; the owner it had is dropped.
Move(from, to) ==
    /\ from # to
    /\ Stdio \notin {from, to}
    /\ owners[from] # None
    /\ owners[to] # None => active[owners[to]] <= 0 /\ ~HasOpenPool(owners[to])
    /\ owners' = [owners EXCEPT ![from] = None, ![to] = owners[from]]
    /\ UNCHANGED <<born, slotPool, active, stale, pool, home, closing, closer, stmt>>

\* Mutant: procedure pools are forgotten
CloseQueryOnly(keys) ==
    LET gone == {owners[k] : k \in keys} \ {None} IN
    /\ gone # {}
    /\ owners' = [k \in Keys |-> IF k \in keys THEN None ELSE owners[k]]
    /\ closer' = [o \in OwnerIds |->
                    IF o \in gone THEN [todo |-> Systems \X {"query"}, at |-> None]
                    ELSE closer[o]]
    /\ UNCHANGED <<born, slotPool, active, stale, pool, home, closing, stmt>>

\* closeSessionPool, closeGlobalPool, and closeAllSessionPools over several
\* keys: every key is removed before the first await, then closeOwner runs.
Close(keys) ==
    LET gone == {owners[k] : k \in keys} \ {None} IN
    /\ gone # {}
    /\ owners' = [k \in Keys |-> IF k \in keys THEN None ELSE owners[k]]
    /\ closer' = [o \in OwnerIds |->
                    IF o \in gone THEN [todo |-> Slots, at |-> None] ELSE closer[o]]
    /\ UNCHANGED <<born, slotPool, active, stale, pool, home, closing, stmt>>

CloseOne(k) == Close({k})
CloseAll    == Close(Keys \ {Stdio})

-----------------------------------------------------------------------------
(***************************************************************************)
(* Closing pools                                                           *)
(***************************************************************************)

\* One turn of closeOwner's loop: the closeSlot before it has finished, and a
\* system's query slot comes after its procedure slot.  The order of the
\* systems is left open.
CloseSlot(o, s) ==
    LET p == slotPool[o][s] IN
    /\ s \in closer[o].todo
    /\ closer[o].at \notin closing
    /\ s[2] = "query" => <<s[1], "procedure">> \notin closer[o].todo
    /\ slotPool' = [slotPool EXCEPT ![o] = [@ EXCEPT ![s] = None]]
    /\ closing' = IF p = None THEN closing ELSE closing \cup {p}
    /\ closer' = [closer EXCEPT ![o] = [todo |-> closer[o].todo \ {s}, at |-> p]]
    /\ UNCHANGED <<owners, born, active, stale, pool, home, stmt>>

\* pool.close() in closeSlot settles; an error is logged and forgotten
CloseSettles(p) ==
    /\ p \in closing
    /\ pool[p] = "open"
    /\ pool' = [pool EXCEPT ![p] = "closed"]
    /\ closing' = closing \ {p}
    /\ UNCHANGED <<owners, born, slotPool, active, stale, home, closer, stmt>>

\* Time: an owner's last use falls behind MCP_POOL_IDLE_TIMEOUT.  This can
\* happen while a statement runs: lastUsed is set when it starts and ends.
GrowStale(o) ==
    /\ Registered(o)
    /\ ~stale[o]
    /\ stale' = [stale EXCEPT ![o] = TRUE]
    /\ UNCHANGED <<owners, born, slotPool, active, pool, home, closing, closer, stmt>>

\* Mutant: running statements do not count
IdleByClock == {owners[k] : k \in {q \in Keys \ {Stdio} :
                   owners[q] # None /\ stale[owners[q]]}}

\* The owners closeIdleSessionPools does not skip
Idle == {owners[k] : k \in {q \in Keys \ {Stdio} :
            /\ owners[q] # None
            /\ active[owners[q]] <= 0
            /\ stale[owners[q]]}}

\* Mutant: a pool that is still being created is detached and forgotten
IdleSweepOpenPools ==
    LET swept == UNION {PoolsOf(o) : o \in Idle} IN
    /\ swept # {}
    /\ slotPool' = [o \in OwnerIds |->
                      IF o \in Idle THEN [s \in Slots |-> None] ELSE slotPool[o]]
    /\ closing' = closing \cup {p \in swept : pool[p] = "open"}
    /\ UNCHANGED <<owners, born, active, stale, pool, home, closer, stmt>>

\* closeIdleSessionPools: every pool is detached before the first await
IdleSweep ==
    LET swept == UNION {PoolsOf(o) : o \in Idle} IN
    /\ swept # {}
    /\ slotPool' = [o \in OwnerIds |->
                      IF o \in Idle THEN [s \in Slots |-> None] ELSE slotPool[o]]
    /\ closing' = closing \cup swept
    /\ UNCHANGED <<owners, born, active, stale, pool, home, closer, stmt>>

-----------------------------------------------------------------------------
(***************************************************************************)
(* Creating and using pools                                                *)
(***************************************************************************)

\* acquire: the slot's pool p, or a new one
Acquire(o, s, p) ==
    \/ /\ slotPool[o][s] = p
       /\ UNCHANGED <<slotPool, pool, home>>
    \/ /\ slotPool[o][s] = None
       /\ pool[p] = "none"
       /\ slotPool' = [slotPool EXCEPT ![o] = [@ EXCEPT ![s] = p]]
       /\ pool' = [pool EXCEPT ![p] = "creating"]
       /\ home' = [home EXCEPT ![p] = <<o, s>>]

\* getSlot, markActive and acquire, which run, openQueryCursor,
\* explainUnparsedStatement and cancelSql (on the procedure slot) do at once
Begin(t, k, s, p) ==
    /\ stmt[t].pc = "idle"
    /\ owners[k] # None
    /\ Acquire(owners[k], s, p)
    /\ active' = [active EXCEPT ![owners[k]] = @ + 1]
    /\ stale' = [stale EXCEPT ![owners[k]] = FALSE]
    /\ stmt' = [stmt EXCEPT ![t] =
                  [pc |-> "acquiring", key |-> k, owner |-> owners[k], slot |-> s, pool |-> p]]
    /\ UNCHANGED <<owners, born, closing, closer>>

\* Mutant: the owner found when the statement began is used
WarmUpKeepingOwner(t, p) ==
    LET o == stmt[t].owner
        s == <<stmt[t].slot[1], "procedure">> IN
    /\ stmt[t].pc = "running"
    /\ stmt[t].slot[2] = "query"
    /\ slotPool[o][s] = None
    /\ Acquire(o, s, p)
    /\ UNCHANGED <<owners, born, active, stale, closing, closer, stmt>>

\* scheduleCancelWarmUp's timer, for a query that has used half its time:
\* opens the procedure pool its cancel would need, not counted as active.
\* The key is looked up again, so a closed one opens nothing.
WarmUp(t, p) ==
    LET o == owners[stmt[t].key]
        s == <<stmt[t].slot[1], "procedure">> IN
    /\ stmt[t].pc = "running"
    /\ stmt[t].slot[2] = "query"
    /\ o # None
    /\ slotPool[o][s] = None
    /\ Acquire(o, s, p)
    /\ UNCHANGED <<owners, born, active, stale, closing, closer, stmt>>

Created(p) ==
    /\ pool[p] = "creating"
    /\ pool' = [pool EXCEPT ![p] = "open"]
    /\ UNCHANGED <<owners, born, slotPool, active, stale, home, closing, closer, stmt>>

\* createPool rejected: acquire's handler forgets the pool if its slot still
\* holds it, and a closeSlot waiting on it is done
CreateFails(p) ==
    LET o == home[p][1]
        s == home[p][2] IN
    /\ pool[p] = "creating"
    /\ pool' = [pool EXCEPT ![p] = "failed"]
    /\ slotPool' = IF slotPool[o][s] = p
                   THEN [slotPool EXCEPT ![o] = [@ EXCEPT ![s] = None]]
                   ELSE slotPool
    /\ closing' = closing \ {p}
    /\ UNCHANGED <<owners, born, active, stale, home, closer, stmt>>

\* `await acquire` returns: the pool was created (and may be closed by now)
Acquired(t) ==
    /\ stmt[t].pc = "acquiring"
    /\ pool[stmt[t].pool] \in {"open", "closed"}
    /\ stmt' = [stmt EXCEPT ![t] = [@ EXCEPT !.pc = "running"]]
    /\ UNCHANGED <<owners, born, slotPool, active, stale, pool, home, closing, closer>>

\* Mutant: release looks the owner up by key instead of keeping the object
FinishByKey(t) ==
    /\ \/ stmt[t].pc = "running"
       \/ stmt[t].pc = "acquiring" /\ pool[stmt[t].pool] = "failed"
    /\ LET o == owners[stmt[t].key] IN
       /\ active' = IF o = None THEN active ELSE [active EXCEPT ![o] = @ - 1]
       /\ stale' = IF o = None THEN stale ELSE [stale EXCEPT ![o] = FALSE]
    /\ stmt' = [stmt EXCEPT ![t] = Free]
    /\ UNCHANGED <<owners, born, slotPool, pool, home, closing, closer>>

\* release(), in the `finally` of run or the cursor's close(): the statement
\* ended, or its pool could not be created
Finish(t) ==
    /\ \/ stmt[t].pc = "running"
       \/ stmt[t].pc = "acquiring" /\ pool[stmt[t].pool] = "failed"
    /\ active' = [active EXCEPT ![stmt[t].owner] = @ - 1]
    /\ stale' = [stale EXCEPT ![stmt[t].owner] = FALSE]
    /\ stmt' = [stmt EXCEPT ![t] = Free]
    /\ UNCHANGED <<owners, born, slotPool, pool, home, closing, closer>>

-----------------------------------------------------------------------------
Settle(p) == Created(p) \/ CreateFails(p)
Step(t)   == Acquired(t) \/ Finish(t)

Next ==
    \/ \E k \in Keys, o \in OwnerIds : Register(k, o)
    \/ \E from, to \in Keys : Move(from, to)
    \/ \E k \in Keys : CloseOne(k)
    \/ CloseAll
    \/ \E o \in OwnerIds, s \in Slots : CloseSlot(o, s)
    \/ \E p \in Pools : CloseSettles(p)
    \/ \E o \in OwnerIds : GrowStale(o)
    \/ IdleSweep
    \/ \E t \in Stmts, k \in Keys, s \in Slots, p \in Pools : Begin(t, k, s, p)
    \/ \E t \in Stmts, p \in Pools : WarmUp(t, p)
    \/ \E p \in Pools : Created(p)
    \/ \E p \in Pools : CreateFails(p)
    \/ \E t \in Stmts : Acquired(t)
    \/ \E t \in Stmts : Finish(t)

Spec == Init /\ [][Next]_vars

\* A driver's createPool and close() settle, a statement ends (its callers
\* release in a `finally`), and the loop that closes an owner runs on.  Nothing
\* is assumed of the callers: they may never register, run or close anything.
Fairness ==
    /\ \A p \in Pools : WF_vars(Settle(p)) /\ WF_vars(CloseSettles(p))
    /\ \A o \in OwnerIds : WF_vars(\E s \in Slots : CloseSlot(o, s))
    /\ \A t \in Stmts : WF_vars(Step(t))

FairSpec == Spec /\ Fairness

-----------------------------------------------------------------------------
(***************************************************************************)
(* Properties                                                              *)
(***************************************************************************)

\* No connection leaks: every pool being created or open can still be closed,
\* because the slot of an owner that is registered, or that a closeOwner loop
\* has yet to reach, refers to it, or a closeSlot already waits on it.
Reachable(p) ==
    \/ p \in closing
    \/ \E o \in OwnerIds, s \in Slots :
          slotPool[o][s] = p /\ (Registered(o) \/ s \in closer[o].todo)

NoOrphanPool == \A p \in Pools : Live(p) => Reachable(p)

\* "so the idle timeout never closes a pool under it" (markActive): while the
\* owner of a statement or cursor is registered, the pool it was given is
\* still the one in its slot, unless it could not be created.
PoolKeptForStatement ==
    \A t \in Stmts :
        stmt[t].pc # "idle" /\ Registered(stmt[t].owner) =>
            \/ pool[stmt[t].pool] = "failed"
            \/ slotPool[stmt[t].owner][stmt[t].slot] = stmt[t].pool

\* Owner.active is the number of statements and cursors of that owner object,
\* through key hand-overs and re-registrations of the same key.
ActiveCountsUsers == \A o \in OwnerIds : active[o] = Cardinality(Users(o))

\* "a closed session never reopens a pool" (closeSessionPool): an owner that
\* is not registered under any key gains no pool.
ClosedOwnerGainsNoPool ==
    [][\A o \in OwnerIds : ~Registered(o) => PoolsOf(o)' \subseteq PoolsOf(o)]_vars

\* Pools of two keys are never merged (moveSessionPool): an owner object is
\* registered under one key, and an open pool is in one slot, the one it was
\* created for.
OneKeyPerOwner ==
    \A j, k \in Keys : owners[j] # None /\ owners[j] = owners[k] => j = k
OneSlotPerPool ==
    \A o \in OwnerIds, s \in Slots :
        slotPool[o][s] # None => home[slotPool[o][s]] = <<o, s>>
OneHome == OneKeyPerOwner /\ OneSlotPerPool

\* Closing a key closes its pools in the end, whatever its statements, other
\* keys and the idle sweep do meanwhile.
ClosedKeyReleasesPools ==
    \A p \in Pools :
        (Live(p) /\ home[p] # None /\ ~Registered(home[p][1])) ~> ~Live(p)

\* The registry implements PoolOwnership: what each key holds is what the slots
\* of its owner hold, and a pool no slot of a registered owner holds is released
\* until it is closed.
RegisteredKeys == {k \in Keys : owners[k] # None}
HeldBy == [k \in Keys |-> IF owners[k] = None THEN {} ELSE PoolsOf(owners[k])]
ReleasedPools == {p \in Pools : Live(p) /\ \A k \in Keys : p \notin HeldBy[k]}
GonePools == {p \in Pools : pool[p] \in {"closed", "failed"}}

Ownership == INSTANCE PoolOwnership WITH
    registered <- RegisteredKeys, held <- HeldBy,
    released <- ReleasedPools, gone <- GonePools

ImplementsOwnership == Ownership!Spec

=============================================================================
