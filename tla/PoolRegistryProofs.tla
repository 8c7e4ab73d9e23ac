-------------------------- MODULE PoolRegistryProofs --------------------------
(***************************************************************************)
(* TLAPS proofs about the connection pool registry.                        *)
(***************************************************************************)
EXTENDS PoolRegistry, FiniteSetTheorems, TLAPS

-----------------------------------------------------------------------------
(* Type correctness *)

LEMMA TypeInit == Init => TypeOK
BY DEF Init, TypeOK, PoolStates, NoRun, StmtStates

\* acquire leaves slots, pools and homes of their types
LEMMA AcquireType ==
    ASSUME TypeOK, NEW o \in OwnerIds, NEW s \in Slots, NEW p \in Pools, Acquire(o, s, p)
    PROVE  /\ slotPool' \in [OwnerIds -> [Slots -> Pools \cup {None}]]
           /\ pool' \in [Pools -> PoolStates]
           /\ home' \in [Pools -> (OwnerIds \X Slots) \cup {None}]
<1>1. CASE slotPool[o][s] = p /\ UNCHANGED <<slotPool, pool, home>>
    BY <1>1 DEF TypeOK
<1>2. CASE /\ slotPool' = [slotPool EXCEPT ![o] = [@ EXCEPT ![s] = p]]
           /\ pool' = [pool EXCEPT ![p] = "creating"]
           /\ home' = [home EXCEPT ![p] = <<o, s>>]
    <2>1. slotPool' \in [OwnerIds -> [Slots -> Pools \cup {None}]]
        BY <1>2 DEF TypeOK
    <2>2. pool' \in [Pools -> PoolStates]
        BY <1>2 DEF TypeOK, PoolStates
    <2>3. home' \in [Pools -> (OwnerIds \X Slots) \cup {None}]
        BY <1>2 DEF TypeOK
    <2> QED
        BY <2>1, <2>2, <2>3
<1> QED
    BY <1>1, <1>2 DEF Acquire

LEMMA TypeStep == TypeOK /\ [Next]_vars => TypeOK'
<1> SUFFICES ASSUME TypeOK, [Next]_vars PROVE TypeOK'
    OBVIOUS
<1> USE DEF TypeOK
<1>1. ASSUME NEW k \in Keys, NEW o \in OwnerIds, Register(k, o) PROVE TypeOK'
    BY <1>1 DEF Register
<1>2. ASSUME NEW from \in Keys, NEW to \in Keys, Move(from, to) PROVE TypeOK'
    BY <1>2 DEF Move
<1>3. ASSUME NEW keys \in SUBSET Keys, Close(keys) PROVE TypeOK'
    BY <1>3 DEF Close
<1>4. ASSUME NEW o \in OwnerIds, NEW s \in Slots, CloseSlot(o, s) PROVE TypeOK'
    <2>1. slotPool[o][s] \in Pools \cup {None}
        OBVIOUS
    <2>2. closing' \subseteq Pools
        BY <1>4, <2>1 DEF CloseSlot
    <2>3. closer' \in [OwnerIds -> [todo: SUBSET Slots, at: Pools \cup {None}]]
        BY <1>4, <2>1 DEF CloseSlot
    <2>4. slotPool' \in [OwnerIds -> [Slots -> Pools \cup {None}]]
        BY <1>4 DEF CloseSlot
    <2> QED
        BY <1>4, <2>2, <2>3, <2>4 DEF CloseSlot
<1>5. ASSUME NEW p \in Pools, CloseSettles(p) PROVE TypeOK'
    BY <1>5 DEF CloseSettles, PoolStates
<1>6. ASSUME NEW o \in OwnerIds, GrowStale(o) PROVE TypeOK'
    BY <1>6 DEF GrowStale
<1>7. CASE IdleSweep
    <2>1. UNION {PoolsOf(o) : o \in Idle} \subseteq Pools
        BY DEF PoolsOf, Idle
    <2> QED
        BY <1>7, <2>1 DEF IdleSweep
<1>8. ASSUME NEW t \in Stmts, NEW k \in Keys, NEW s \in Slots, NEW p \in Pools,
             Begin(t, k, s, p)
      PROVE  TypeOK'
    <2>1. owners[k] \in OwnerIds
        BY <1>8 DEF Begin
    <2>2. stmt' \in [Stmts -> StmtStates]
        BY <1>8, <2>1 DEF Begin, StmtStates
    <2> QED
        BY <1>8, <2>1, <2>2, AcquireType DEF Begin
<1>9. ASSUME NEW t \in Stmts, NEW p \in Pools, WarmUp(t, p) PROVE TypeOK'
    <2>1. /\ owners[stmt[t].key] \in OwnerIds
          /\ <<stmt[t].slot[1], "procedure">> \in Slots
        BY <1>9 DEF WarmUp, StmtStates, Free, Slots, Kinds
    <2> QED
        BY <1>9, <2>1, AcquireType DEF WarmUp
<1>10. ASSUME NEW p \in Pools, Created(p) PROVE TypeOK'
    BY <1>10 DEF Created, PoolStates
<1>11. ASSUME NEW p \in Pools, CreateFails(p) PROVE TypeOK'
    <2> DEFINE o == home[p][1]
               s == home[p][2]
               cleared == [slotPool EXCEPT ![o] = [@ EXCEPT ![s] = None]]
    <2>1. cleared \in [OwnerIds -> [Slots -> Pools \cup {None}]]
        OBVIOUS
    <2>2. slotPool' \in [OwnerIds -> [Slots -> Pools \cup {None}]]
        <3> HIDE DEF cleared
        <3>1. slotPool' \in {cleared, slotPool}
            BY <1>11 DEF CreateFails, cleared
        <3> QED
            BY <2>1, <3>1
    <2>3. pool' \in [Pools -> PoolStates] /\ closing' \subseteq Pools
        BY <1>11 DEF CreateFails, PoolStates
    <2> QED
        BY <1>11, <2>2, <2>3 DEF CreateFails
<1>12. ASSUME NEW t \in Stmts, Acquired(t) PROVE TypeOK'
    <2>1. stmt[t] \in StmtStates \ {Free}
        BY <1>12 DEF Acquired, Free
    <2>2. [stmt[t] EXCEPT !.pc = "running"] \in StmtStates
        BY <2>1 DEF StmtStates
    <2> QED
        BY <1>12, <2>2 DEF Acquired
<1>13. ASSUME NEW t \in Stmts, Finish(t) PROVE TypeOK'
    BY <1>13 DEF Finish, StmtStates, Free
<1>14. CASE UNCHANGED vars
    BY <1>14 DEF vars
<1> QED
    BY <1>1, <1>2, <1>3, <1>4, <1>5, <1>6, <1>7, <1>8, <1>9, <1>10, <1>11, <1>12,
       <1>13, <1>14
    DEF Next, CloseOne, CloseAll

\* The registry's state always has its type.
THEOREM TypeCorrect == Spec => []TypeOK
<1>1. Init => TypeOK
    BY TypeInit
<1>2. TypeOK /\ [Next]_vars => TypeOK'
    BY TypeStep
<1> QED
    BY <1>1, <1>2, PTL DEF Spec

-----------------------------------------------------------------------------
(* The inductive invariant.  The properties of PoolRegistry need, besides    *)
(* each other, that slots hold only live pools, that a pool being closed is  *)
(* in no slot, and that owner objects are used in the order unborn,          *)
(* registered, closing.                                                      *)

SlotPoolsLive ==
    \A o \in OwnerIds, s \in Slots : slotPool[o][s] # None => Live(slotPool[o][s])

ClosingDetached ==
    \A p \in closing :
        Live(p) /\ \A o \in OwnerIds, s \in Slots : slotPool[o][s] # p

RegisteredBorn == \A k \in Keys : owners[k] # None => owners[k] \in born

UnbornUnused ==
    /\ \A o \in OwnerIds \ born, s \in Slots : slotPool[o][s] = None
    /\ \A t \in Stmts : stmt[t].pc # "idle" => stmt[t].owner \in born

ClosersRetired ==
    \A o \in OwnerIds : closer[o].todo # {} => o \in born /\ ~Registered(o)

IInv ==
    /\ TypeOK
    /\ SlotPoolsLive
    /\ ClosingDetached
    /\ OneHome
    /\ RegisteredBorn
    /\ UnbornUnused
    /\ ClosersRetired
    /\ NoOrphanPool
    /\ ActiveCountsUsers
    /\ PoolKeptForStatement

LEMMA IInvInit == Init => IInv
<1> SUFFICES ASSUME Init PROVE IInv
    OBVIOUS
<1>1. TypeOK
    BY TypeInit
<1>2. \A o \in OwnerIds : Users(o) = {}
    BY NoneAssumption DEF Init, Users, Free
<1>3. ActiveCountsUsers
    BY <1>2, FS_EmptySet DEF ActiveCountsUsers, Init
<1> QED
    BY <1>1, <1>3
    DEF Init, IInv, SlotPoolsLive, ClosingDetached, OneHome, OneKeyPerOwner,
        OneSlotPerPool, RegisteredBorn, UnbornUnused, ClosersRetired, NoOrphanPool,
        PoolKeptForStatement, Live, NoRun, Free, Registered

-----------------------------------------------------------------------------
(* Slots and pools *)

SlotInv == SlotPoolsLive /\ ClosingDetached /\ OneSlotPerPool

LEMMA AcquireSlots ==
    ASSUME TypeOK, SlotInv, NEW o \in OwnerIds, NEW s \in Slots, NEW p \in Pools,
           Acquire(o, s, p), closing' = closing
    PROVE  SlotInv'
<1>1. CASE slotPool[o][s] = p /\ UNCHANGED <<slotPool, pool, home>>
    BY <1>1 DEF SlotInv, SlotPoolsLive, ClosingDetached, OneSlotPerPool, Live
<1>2. CASE /\ slotPool[o][s] = None
           /\ pool[p] = "none"
           /\ slotPool' = [slotPool EXCEPT ![o] = [@ EXCEPT ![s] = p]]
           /\ pool' = [pool EXCEPT ![p] = "creating"]
           /\ home' = [home EXCEPT ![p] = <<o, s>>]
    <2>1. \A n \in OwnerIds, r \in Slots :
             slotPool'[n][r] = IF n = o /\ r = s THEN p ELSE slotPool[n][r]
        BY <1>2 DEF TypeOK
    <2>2. p \notin closing
        BY <1>2 DEF SlotInv, ClosingDetached, Live
    <2>3. \A n \in OwnerIds, r \in Slots : slotPool[n][r] # p
        BY <1>2, NoneAssumption DEF SlotInv, SlotPoolsLive, Live
    <2>4. \A q \in Pools : q # p => pool'[q] = pool[q] /\ home'[q] = home[q]
        BY <1>2 DEF TypeOK
    <2>5. pool'[p] = "creating" /\ home'[p] = <<o, s>>
        BY <1>2 DEF TypeOK
    <2>0. \A n \in OwnerIds, r \in Slots : slotPool[n][r] \in Pools \cup {None}
        BY DEF TypeOK
    <2>6. SlotPoolsLive'
        BY <2>0, <2>1, <2>3, <2>4, <2>5 DEF SlotInv, SlotPoolsLive, Live
    <2>7. ClosingDetached'
        BY <2>1, <2>2, <2>4 DEF SlotInv, ClosingDetached, Live, TypeOK
    <2>8. OneSlotPerPool'
        BY <2>0, <2>1, <2>3, <2>4, <2>5 DEF SlotInv, OneSlotPerPool
    <2> QED
        BY <2>6, <2>7, <2>8 DEF SlotInv
<1> QED
    BY <1>1, <1>2 DEF Acquire

LEMMA SlotStep == TypeOK /\ TypeOK' /\ SlotInv /\ [Next]_vars => SlotInv'
<1> SUFFICES ASSUME TypeOK, TypeOK', SlotInv, [Next]_vars PROVE SlotInv'
    OBVIOUS
<1> USE DEF SlotInv, SlotPoolsLive, ClosingDetached, OneSlotPerPool
<1>1. CASE UNCHANGED <<slotPool, pool, home, closing>>
    BY <1>1 DEF Live
<1>2. ASSUME NEW o \in OwnerIds, NEW s \in Slots, CloseSlot(o, s) PROVE SlotInv'
    <2>1. \A n \in OwnerIds, r \in Slots :
             slotPool'[n][r] = IF n = o /\ r = s THEN None ELSE slotPool[n][r]
        BY <1>2 DEF CloseSlot, TypeOK
    <2>2. pool' = pool /\ home' = home
        BY <1>2 DEF CloseSlot
    <2>3. closing' = IF slotPool[o][s] = None THEN closing ELSE closing \cup {slotPool[o][s]}
        BY <1>2 DEF CloseSlot
    <2> QED
        BY <2>1, <2>2, <2>3, NoneAssumption DEF Live, TypeOK
<1>3. ASSUME NEW p \in Pools, CloseSettles(p) PROVE SlotInv'
    BY <1>3 DEF CloseSettles, Live, TypeOK
<1>4. CASE IdleSweep
    <2>1. \A n \in OwnerIds, r \in Slots :
             slotPool'[n][r] = IF n \in Idle THEN None ELSE slotPool[n][r]
        BY <1>4 DEF IdleSweep
    <2>2. pool' = pool /\ home' = home
        BY <1>4 DEF IdleSweep
    <2>3. \A p \in closing' : p \in closing \/
             \E n \in OwnerIds, r \in Slots :
                 n \in Idle /\ slotPool[n][r] = p /\ p # None
        BY <1>4 DEF IdleSweep, PoolsOf, Idle, TypeOK
    <2> QED
        BY <2>1, <2>2, <2>3, NoneAssumption DEF Live, TypeOK
<1>5. ASSUME NEW t \in Stmts, NEW k \in Keys, NEW s \in Slots, NEW p \in Pools,
             Begin(t, k, s, p)
      PROVE  SlotInv'
    <2>1. owners[k] \in OwnerIds /\ Acquire(owners[k], s, p) /\ closing' = closing
        BY <1>5 DEF Begin, TypeOK
    <2> QED
        BY <2>1, AcquireSlots
<1>6. ASSUME NEW t \in Stmts, NEW p \in Pools, WarmUp(t, p) PROVE SlotInv'
    <2> DEFINE o == owners[stmt[t].key]
               s == <<stmt[t].slot[1], "procedure">>
    <2>1. o \in OwnerIds /\ s \in Slots
        BY <1>6 DEF WarmUp, TypeOK, StmtStates, Free, Slots, Kinds
    <2>2. Acquire(o, s, p) /\ closing' = closing
        BY <1>6 DEF WarmUp
    <2> QED
        BY <2>1, <2>2, AcquireSlots
<1>7. ASSUME NEW p \in Pools, Created(p) PROVE SlotInv'
    BY <1>7 DEF Created, Live, TypeOK
<1>8. ASSUME NEW p \in Pools, CreateFails(p) PROVE SlotInv'
    <2> DEFINE o == home[p][1]
               s == home[p][2]
    <2>1. \A n \in OwnerIds, r \in Slots : slotPool'[n][r] # p
                /\ slotPool'[n][r] \in {None, slotPool[n][r]}
        BY <1>8, NoneAssumption DEF CreateFails, TypeOK
    <2>2. /\ \A q \in Pools : q # p => pool'[q] = pool[q]
          /\ home' = home
          /\ closing' = closing \ {p}
        BY <1>8 DEF CreateFails, TypeOK
    <2>3. \A n \in OwnerIds, r \in Slots : slotPool[n][r] \in Pools \cup {None}
        BY DEF TypeOK
    <2>4. closing \subseteq Pools
        BY DEF TypeOK
    <2> HIDE DEF o, s
    <2>5. SlotPoolsLive'
        BY <2>1, <2>2, <2>3 DEF Live
    <2>6. ClosingDetached'
        BY <2>1, <2>2, <2>3, <2>4, NoneAssumption DEF Live
    <2>7. OneSlotPerPool'
        BY <2>1, <2>2, <2>3
    <2> QED
        BY <2>5, <2>6, <2>7
<1> QED
    BY <1>1, <1>2, <1>3, <1>4, <1>5, <1>6, <1>7, <1>8
    DEF Next, vars, Register, Move, CloseOne, CloseAll, Close, GrowStale, Acquired, Finish

-----------------------------------------------------------------------------
(* Owner objects and keys *)

OwnerInv == RegisteredBorn /\ OneKeyPerOwner /\ UnbornUnused /\ ClosersRetired

LEMMA OwnerStep == TypeOK /\ OwnerInv /\ [Next]_vars => OwnerInv'
<1> SUFFICES ASSUME TypeOK, OwnerInv, [Next]_vars PROVE OwnerInv'
    OBVIOUS
<1> USE DEF OwnerInv, RegisteredBorn, OneKeyPerOwner, UnbornUnused, ClosersRetired,
        Registered
<1>1. CASE UNCHANGED <<owners, born, slotPool, closer, stmt>>
    BY <1>1
<1>2. ASSUME NEW k \in Keys, NEW o \in OwnerIds, Register(k, o) PROVE OwnerInv'
    BY <1>2 DEF Register, TypeOK
<1>3. ASSUME NEW from \in Keys, NEW to \in Keys, Move(from, to) PROVE OwnerInv'
    <2>1. \A k \in Keys : owners'[k] = IF k = to THEN owners[from]
                                       ELSE IF k = from THEN None ELSE owners[k]
        BY <1>3 DEF Move, TypeOK
    <2>2. UNCHANGED <<born, slotPool, closer, stmt>> /\ owners[from] # None
        BY <1>3 DEF Move
    <2>3. \A k \in Keys : owners'[k] # None =>
             \E j \in Keys : owners'[k] = owners[j] /\ (k = to <=> j = from)
                            /\ (k # to => j = k)
        BY <2>1, <1>3 DEF Move
    <2>4. RegisteredBorn' /\ UnbornUnused'
        BY <2>2, <2>3
    <2>5. OneKeyPerOwner'
        BY <2>1, <2>2
    <2>6. ClosersRetired'
        BY <2>2, <2>3, NoneAssumption
    <2> QED
        BY <2>4, <2>5, <2>6
<1>4. ASSUME NEW keys \in SUBSET Keys, Close(keys) PROVE OwnerInv'
    <2>1. \A k \in Keys : owners'[k] = IF k \in keys THEN None ELSE owners[k]
        BY <1>4 DEF Close
    <2>2. UNCHANGED <<born, slotPool, stmt>>
        BY <1>4 DEF Close
    <2>3. \A o \in OwnerIds : closer'[o].todo # {} =>
             \/ closer[o].todo # {}
             \/ \E k \in keys : owners[k] = o
        BY <1>4 DEF Close
    <2>4. \A o \in OwnerIds : closer[o].todo # {} => o \in born /\ ~Registered(o)
        OBVIOUS
    <2>5. ASSUME NEW o \in OwnerIds, closer'[o].todo # {}
          PROVE  o \in born /\ ~Registered(o)'
        <3>1. CASE closer[o].todo # {}
            BY <2>1, <2>4, <3>1, NoneAssumption
        <3>2. ASSUME NEW k \in keys, owners[k] = o PROVE o \in born /\ ~Registered(o)'
            BY <2>1, <3>2, NoneAssumption
        <3> QED
            BY <2>3, <2>5, <3>1, <3>2
    <2>6. ClosersRetired'
        BY <2>2, <2>5
    <2> QED
        BY <2>1, <2>2, <2>6
<1>5. ASSUME NEW o \in OwnerIds, NEW s \in Slots, CloseSlot(o, s) PROVE OwnerInv'
    <2>1. \A n \in OwnerIds : closer'[n].todo # {} => closer[n].todo # {}
        BY <1>5 DEF CloseSlot, TypeOK
    <2>2. UNCHANGED <<owners, born, stmt>>
        BY <1>5 DEF CloseSlot
    <2>3. \A n \in OwnerIds, r \in Slots : slotPool[n][r] = None => slotPool'[n][r] = None
        BY <1>5 DEF CloseSlot, TypeOK
    <2> QED
        BY <2>1, <2>2, <2>3
<1>6. CASE IdleSweep
    BY <1>6 DEF IdleSweep
<1>7. ASSUME NEW t \in Stmts, NEW k \in Keys, NEW s \in Slots, NEW p \in Pools,
             Begin(t, k, s, p)
      PROVE  OwnerInv'
    <2>1. owners[k] \in born
        BY <1>7 DEF Begin
    <2>2. \A n \in OwnerIds, r \in Slots : n # owners[k] => slotPool'[n][r] = slotPool[n][r]
        BY <1>7 DEF Begin, Acquire, TypeOK
    <2>3. UNCHANGED <<owners, born, closer>>
        BY <1>7 DEF Begin
    <2>4. \A u \in Stmts : stmt'[u] = stmt[u] \/ stmt'[u].owner = owners[k]
        BY <1>7 DEF Begin, TypeOK
    <2> QED
        BY <2>1, <2>2, <2>3, <2>4
<1>8. ASSUME NEW t \in Stmts, NEW p \in Pools, WarmUp(t, p) PROVE OwnerInv'
    <2> DEFINE o == owners[stmt[t].key]
    <2>1. stmt[t].key \in Keys /\ o # None
        BY <1>8 DEF WarmUp, TypeOK, StmtStates, Free
    <2>2. \A n \in OwnerIds, r \in Slots : n # o => slotPool'[n][r] = slotPool[n][r]
        BY <1>8 DEF WarmUp, Acquire, TypeOK
    <2>3. UNCHANGED <<owners, born, closer, stmt>>
        BY <1>8 DEF WarmUp
    <2> QED
        BY <2>1, <2>2, <2>3
<1>9. ASSUME NEW p \in Pools, CreateFails(p) PROVE OwnerInv'
    <2>1. \A n \in OwnerIds, r \in Slots : slotPool[n][r] = None => slotPool'[n][r] = None
        BY <1>9 DEF CreateFails, TypeOK
    <2> QED
        BY <1>9, <2>1 DEF CreateFails
<1>10. ASSUME NEW t \in Stmts, Acquired(t) PROVE OwnerInv'
    <2>1. \A u \in Stmts : stmt'[u].pc # "idle" =>
             stmt[u].pc # "idle" /\ stmt'[u].owner = stmt[u].owner
        BY <1>10 DEF Acquired, TypeOK, StmtStates, Free
    <2> QED
        BY <1>10, <2>1 DEF Acquired
<1>11. ASSUME NEW t \in Stmts, Finish(t) PROVE OwnerInv'
    <2>1. \A u \in Stmts : stmt'[u].pc # "idle" => stmt'[u] = stmt[u]
        BY <1>11 DEF Finish, TypeOK, Free
    <2> QED
        BY <1>11, <2>1 DEF Finish
<1> QED
    BY <1>1, <1>2, <1>3, <1>4, <1>5, <1>6, <1>7, <1>8, <1>9, <1>10, <1>11
    DEF Next, vars, CloseOne, CloseAll, CloseSettles, GrowStale, Created

-----------------------------------------------------------------------------
(* No connection leaks *)

\* A pool that acquire returns is in the slot of a registered owner
LEMMA AcquireReachable ==
    ASSUME TypeOK, NoOrphanPool, NEW o \in OwnerIds, NEW s \in Slots, NEW p \in Pools,
           Registered(o), Acquire(o, s, p), UNCHANGED <<owners, closing, closer>>
    PROVE  NoOrphanPool'
<1>1. CASE UNCHANGED <<slotPool, pool, home>>
    BY <1>1 DEF NoOrphanPool, Reachable, Live, Registered
<1>2. CASE /\ slotPool[o][s] = None
           /\ slotPool' = [slotPool EXCEPT ![o] = [@ EXCEPT ![s] = p]]
           /\ pool' = [pool EXCEPT ![p] = "creating"]
    <2>1. \A n \in OwnerIds, r \in Slots :
             slotPool'[n][r] = IF n = o /\ r = s THEN p ELSE slotPool[n][r]
        BY <1>2 DEF TypeOK
    <2>2. Reachable(p)'
        BY <2>1 DEF Reachable, Registered
    <2>3. ASSUME NEW q \in Pools, q # p, Live(q)' PROVE Reachable(q)'
        <3>1. Live(q)
            BY <1>2, <2>3 DEF Live, TypeOK
        <3>2. Reachable(q)
            BY <3>1 DEF NoOrphanPool
        <3> QED
            BY <1>2, <2>1, <3>2, NoneAssumption DEF Reachable, Registered
    <2> QED
        BY <2>2, <2>3 DEF NoOrphanPool
<1> QED
    BY <1>1, <1>2 DEF Acquire

LEMMA NoOrphanStep == TypeOK /\ SlotInv /\ NoOrphanPool /\ [Next]_vars => NoOrphanPool'
<1> SUFFICES ASSUME TypeOK, SlotInv, NoOrphanPool, [Next]_vars PROVE NoOrphanPool'
    OBVIOUS
<1>1. CASE UNCHANGED <<owners, slotPool, closing, closer, pool>>
    BY <1>1 DEF NoOrphanPool, Reachable, Live, Registered
<1>2. ASSUME NEW k \in Keys, NEW o \in OwnerIds, Register(k, o) PROVE NoOrphanPool'
    <2>1. \A n \in OwnerIds : Registered(n) => Registered(n)'
        BY <1>2, NoneAssumption DEF Register, Registered, TypeOK
    <2> QED
        BY <1>2, <2>1 DEF Register, NoOrphanPool, Reachable, Live
<1>3. ASSUME NEW from \in Keys, NEW to \in Keys, Move(from, to) PROVE NoOrphanPool'
    <2>1. \A n \in OwnerIds : Registered(n) /\ HasOpenPool(n) => Registered(n)'
        BY <1>3, NoneAssumption DEF Move, Registered, TypeOK
    <2>2. \A p \in Pools, n \in OwnerIds, s \in Slots : slotPool[n][s] = p => HasOpenPool(n)
        BY NoneAssumption DEF HasOpenPool
    <2>3. \A p \in Pools : Reachable(p) => Reachable(p)'
        BY <1>3, <2>1, <2>2 DEF Reachable, Move
    <2> QED
        BY <1>3, <2>3 DEF NoOrphanPool, Live, Move
<1>4. ASSUME NEW keys \in SUBSET Keys, Close(keys) PROVE NoOrphanPool'
    <2>1. \A n \in OwnerIds : Registered(n) => Registered(n)' \/ closer'[n].todo = Slots
        BY <1>4, NoneAssumption DEF Close, Registered
    <2>2. \A n \in OwnerIds, s \in Slots : s \in closer[n].todo => s \in closer'[n].todo
        BY <1>4 DEF Close
    <2>3. \A p \in Pools : Reachable(p) => Reachable(p)'
        BY <1>4, <2>1, <2>2 DEF Reachable, Close
    <2> QED
        BY <1>4, <2>3 DEF NoOrphanPool, Live, Close
<1>5. ASSUME NEW o \in OwnerIds, NEW s \in Slots, CloseSlot(o, s) PROVE NoOrphanPool'
    <2>1. \A n \in OwnerIds, r \in Slots : n # o \/ r # s =>
             /\ slotPool'[n][r] = slotPool[n][r]
             /\ r \in closer[n].todo => r \in closer'[n].todo
        BY <1>5 DEF CloseSlot, TypeOK
    <2>2. closing \subseteq closing' /\ slotPool[o][s] \in closing' \cup {None}
        BY <1>5 DEF CloseSlot
    <2>3. UNCHANGED <<owners, pool>>
        BY <1>5 DEF CloseSlot
    <2>4. \A p \in Pools : Reachable(p) => Reachable(p)'
        BY <2>1, <2>2, <2>3, NoneAssumption DEF Reachable, Registered
    <2> QED
        BY <2>3, <2>4 DEF NoOrphanPool, Live
<1>6. ASSUME NEW p \in Pools, CloseSettles(p) PROVE NoOrphanPool'
    <2>1. \A q \in Pools : Live(q)' => q # p /\ Live(q)
        BY <1>6 DEF CloseSettles, Live, TypeOK
    <2> QED
        BY <1>6, <2>1 DEF CloseSettles, NoOrphanPool, Reachable, Registered
<1>7. CASE IdleSweep
    <2>1. \A n \in OwnerIds, s \in Slots :
             \/ slotPool'[n][s] = slotPool[n][s]
             \/ slotPool[n][s] \in closing' \cup {None}
        BY <1>7 DEF IdleSweep, PoolsOf
    <2>2. closing \subseteq closing' /\ UNCHANGED <<owners, pool, closer>>
        BY <1>7 DEF IdleSweep
    <2> QED
        BY <2>1, <2>2, NoneAssumption DEF NoOrphanPool, Reachable, Registered, Live
<1>8. ASSUME NEW t \in Stmts, NEW k \in Keys, NEW s \in Slots, NEW p \in Pools,
             Begin(t, k, s, p)
      PROVE  NoOrphanPool'
    <2>1. /\ owners[k] \in OwnerIds
          /\ Registered(owners[k])
          /\ Acquire(owners[k], s, p)
          /\ UNCHANGED <<owners, closing, closer>>
        BY <1>8 DEF Begin, TypeOK, Registered
    <2> QED
        BY <2>1, AcquireReachable
<1>9. ASSUME NEW t \in Stmts, NEW p \in Pools, WarmUp(t, p) PROVE NoOrphanPool'
    <2> DEFINE o == owners[stmt[t].key]
               s == <<stmt[t].slot[1], "procedure">>
    <2>1. o \in OwnerIds /\ s \in Slots /\ Registered(o)
        BY <1>9 DEF WarmUp, TypeOK, StmtStates, Free, Slots, Kinds, Registered
    <2>2. Acquire(o, s, p) /\ UNCHANGED <<owners, closing, closer>>
        BY <1>9 DEF WarmUp
    <2> QED
        BY <2>1, <2>2, AcquireReachable
<1>10. ASSUME NEW p \in Pools, Created(p) PROVE NoOrphanPool'
    <2>1. \A q \in Pools : Live(q)' => Live(q)
        BY <1>10 DEF Created, Live, TypeOK
    <2> QED
        BY <1>10, <2>1 DEF Created, NoOrphanPool, Reachable, Registered
<1>11. ASSUME NEW p \in Pools, CreateFails(p) PROVE NoOrphanPool'
    <2>1. \A q \in Pools : Live(q)' => q # p /\ Live(q)
        BY <1>11 DEF CreateFails, Live, TypeOK
    <2>2. \A n \in OwnerIds, s \in Slots :
             slotPool[n][s] # p => slotPool'[n][s] = slotPool[n][s]
        BY <1>11 DEF CreateFails, TypeOK
    <2>3. UNCHANGED <<owners, closer>> /\ closing' = closing \ {p}
        BY <1>11 DEF CreateFails
    <2> QED
        BY <2>1, <2>2, <2>3 DEF NoOrphanPool, Reachable, Registered
<1> QED
    BY <1>1, <1>2, <1>3, <1>4, <1>5, <1>6, <1>7, <1>8, <1>9, <1>10, <1>11
    DEF Next, vars, CloseOne, CloseAll, GrowStale, Acquired, Finish

-----------------------------------------------------------------------------
(* The active counter *)

LEMMA UsersFinite == \A o : IsFiniteSet(Users(o))
BY StmtsAssumption, FS_Subset DEF Users

LEMMA ActiveStep == TypeOK /\ ActiveCountsUsers /\ [Next]_vars => ActiveCountsUsers'
<1> SUFFICES ASSUME TypeOK, ActiveCountsUsers, [Next]_vars PROVE ActiveCountsUsers'
    OBVIOUS
<1>1. CASE UNCHANGED <<active, stmt>>
    BY <1>1 DEF ActiveCountsUsers, Users
<1>2. ASSUME NEW t \in Stmts, NEW k \in Keys, NEW s \in Slots, NEW p \in Pools,
             Begin(t, k, s, p)
      PROVE  ActiveCountsUsers'
    <2>1. PICK o \in OwnerIds : o = owners[k]
        BY <1>2 DEF Begin, TypeOK
    <2>2. stmt[t].owner = None /\ stmt'[t].owner = o
        <3>1. stmt[t] = Free
            BY <1>2 DEF Begin, TypeOK, StmtStates
        <3> QED
            BY <1>2, <2>1, <3>1 DEF Begin, TypeOK, Free
    <2>3. \A u \in Stmts : u # t => stmt'[u] = stmt[u]
        BY <1>2 DEF Begin, TypeOK
    <2>4. Users(o)' = Users(o) \cup {t} /\ t \notin Users(o)
        BY <2>2, <2>3, NoneAssumption DEF Users
    <2>5. Cardinality(Users(o)') = active[o] + 1
        <3>1. Cardinality(Users(o) \cup {t}) = Cardinality(Users(o)) + 1
            BY <2>4, UsersFinite, FS_AddElement
        <3>2. Cardinality(Users(o)) = active[o]
            BY <2>1 DEF ActiveCountsUsers
        <3> QED
            BY <2>4, <3>1, <3>2
    <2>6. \A n \in OwnerIds : n # o => Users(n)' = Users(n)
        BY <2>2, <2>3, NoneAssumption DEF Users
    <2>7. \A n \in OwnerIds : active'[n] = IF n = o THEN active[n] + 1 ELSE active[n]
        BY <1>2, <2>1 DEF Begin, TypeOK
    <2> QED
        BY <2>5, <2>6, <2>7 DEF ActiveCountsUsers
<1>3. ASSUME NEW t \in Stmts, Acquired(t) PROVE ActiveCountsUsers'
    <2>1. \A u \in Stmts : stmt'[u].owner = stmt[u].owner
        BY <1>3 DEF Acquired, TypeOK, StmtStates, Free
    <2>2. \A n \in OwnerIds : Users(n)' = Users(n)
        BY <2>1 DEF Users
    <2> QED
        BY <1>3, <2>2 DEF Acquired, ActiveCountsUsers
<1>4. ASSUME NEW t \in Stmts, Finish(t) PROVE ActiveCountsUsers'
    <2>1. PICK o \in OwnerIds : o = stmt[t].owner
        BY <1>4 DEF Finish, TypeOK, StmtStates, Free
    <2>2. stmt'[t].owner = None
        BY <1>4 DEF Finish, TypeOK, Free
    <2>3. \A u \in Stmts : u # t => stmt'[u] = stmt[u]
        BY <1>4 DEF Finish, TypeOK
    <2>4. Users(o)' = Users(o) \ {t} /\ t \in Users(o)
        BY <2>1, <2>2, <2>3, NoneAssumption DEF Users
    <2>5. Cardinality(Users(o)') = active[o] - 1
        <3>1. Cardinality(Users(o) \ {t}) = Cardinality(Users(o)) - 1
            BY <2>4, UsersFinite, FS_RemoveElement
        <3>2. Cardinality(Users(o)) = active[o]
            BY <2>1 DEF ActiveCountsUsers
        <3> QED
            BY <2>4, <3>1, <3>2
    <2>6. \A n \in OwnerIds : n # o => Users(n)' = Users(n)
        BY <2>1, <2>2, <2>3, NoneAssumption DEF Users
    <2>7. \A n \in OwnerIds : active'[n] = IF n = o THEN active[n] - 1 ELSE active[n]
        BY <1>4, <2>1 DEF Finish, TypeOK
    <2> QED
        BY <2>5, <2>6, <2>7 DEF ActiveCountsUsers
<1> QED
    BY <1>1, <1>2, <1>3, <1>4
    DEF Next, vars, Register, Move, CloseOne, CloseAll, Close, CloseSlot, CloseSettles,
        GrowStale, IdleSweep, WarmUp, Created, CreateFails

-----------------------------------------------------------------------------
(* No pool is taken from under a statement *)

\* An owner the sweep takes has no statement
LEMMA IdleUnused ==
    ASSUME TypeOK, ActiveCountsUsers, NEW t \in Stmts, stmt[t].owner \in OwnerIds
    PROVE  stmt[t].owner \notin Idle
<1> DEFINE o == stmt[t].owner
<1>1. Users(o) # {}
    BY DEF Users
<1>2. Cardinality(Users(o)) \in Nat /\ Cardinality(Users(o)) # 0
    BY <1>1, UsersFinite, FS_EmptySet, FS_CardinalityType
<1>3. active[o] > 0
    BY <1>2 DEF ActiveCountsUsers
<1>4. \A n \in Idle : active[n] <= 0
    BY DEF Idle
<1>5. active[o] \in Int
    BY DEF TypeOK
<1> QED
    BY <1>3, <1>4, <1>5

\* What acquire does to the slots of statements already running
LEMMA AcquireKeeps ==
    ASSUME TypeOK, PoolKeptForStatement, NEW o \in OwnerIds, NEW s \in Slots,
           NEW p \in Pools, Acquire(o, s, p), owners' = owners,
           NEW t \in Stmts, stmt[t].pc # "idle", stmt'[t] = stmt[t],
           Registered(stmt[t].owner)
    PROVE  \/ pool'[stmt[t].pool] = "failed"
           \/ slotPool'[stmt[t].owner][stmt[t].slot] = stmt[t].pool
<1> DEFINE n == stmt[t].owner
           r == stmt[t].slot
<1>1. n \in OwnerIds /\ r \in Slots /\ stmt[t].pool \in Pools
    BY DEF TypeOK, StmtStates, Free
<1>2. pool[stmt[t].pool] = "failed" \/ slotPool[n][r] = stmt[t].pool
    BY DEF PoolKeptForStatement
<1>3. CASE UNCHANGED <<slotPool, pool, home>>
    BY <1>2, <1>3
<1>4. CASE /\ slotPool[o][s] = None
           /\ pool[p] = "none"
           /\ slotPool' = [slotPool EXCEPT ![o] = [@ EXCEPT ![s] = p]]
           /\ pool' = [pool EXCEPT ![p] = "creating"]
    <2>1. pool[stmt[t].pool] = "failed" => pool'[stmt[t].pool] = "failed"
        BY <1>1, <1>4 DEF TypeOK
    <2>2. slotPool[n][r] # None => slotPool'[n][r] = slotPool[n][r]
        BY <1>1, <1>4 DEF TypeOK
    <2> QED
        BY <1>1, <1>2, <2>1, <2>2, NoneAssumption
<1> QED
    BY <1>3, <1>4 DEF Acquire

LEMMA PoolKeptStep ==
    TypeOK /\ OwnerInv /\ ActiveCountsUsers /\ PoolKeptForStatement /\ [Next]_vars
        => PoolKeptForStatement'
<1> SUFFICES ASSUME TypeOK, OwnerInv, ActiveCountsUsers, PoolKeptForStatement, [Next]_vars,
                    NEW t \in Stmts, (stmt[t].pc # "idle")', Registered(stmt[t].owner)'
             PROVE  \/ pool'[stmt'[t].pool] = "failed"
                    \/ slotPool'[stmt'[t].owner][stmt'[t].slot] = stmt'[t].pool
    BY DEF PoolKeptForStatement
<1> DEFINE n == stmt[t].owner
           r == stmt[t].slot
           Kept == \/ pool'[stmt'[t].pool] = "failed"
                   \/ slotPool'[stmt'[t].owner][stmt'[t].slot] = stmt'[t].pool
<1>a. ASSUME stmt[t].pc # "idle"
      PROVE  n \in OwnerIds /\ r \in Slots /\ stmt[t].pool \in Pools
    BY <1>a DEF TypeOK, StmtStates, Free
<1>b. stmt[t].pc # "idle" /\ Registered(n) =>
         pool[stmt[t].pool] = "failed" \/ slotPool[n][r] = stmt[t].pool
    BY DEF PoolKeptForStatement
<1>1. CASE UNCHANGED <<owners, slotPool, pool, stmt>>
    BY <1>1, <1>b DEF Registered
<1>2. ASSUME NEW k \in Keys, NEW o \in OwnerIds, Register(k, o) PROVE Kept
    <2>1. stmt[t].pc # "idle" /\ n \in born
        BY <1>2 DEF Register, OwnerInv, UnbornUnused
    <2>2. Registered(n)
        BY <1>2, <2>1 DEF Register, Registered, TypeOK
    <2> QED
        BY <1>2, <1>b, <2>1, <2>2 DEF Register
<1>3. ASSUME NEW from \in Keys, NEW to \in Keys, Move(from, to) PROVE Kept
    <2>1. stmt[t].pc # "idle" /\ n \in OwnerIds
        BY <1>3, <1>a DEF Move
    <2>2. Registered(n)
        BY <1>3, <2>1, NoneAssumption DEF Move, Registered, TypeOK
    <2> QED
        BY <1>3, <1>b, <2>1, <2>2 DEF Move
<1>4. ASSUME NEW keys \in SUBSET Keys, Close(keys) PROVE Kept
    <2>1. stmt[t].pc # "idle" /\ n \in OwnerIds
        BY <1>4, <1>a DEF Close
    <2>2. Registered(n)
        BY <1>4, <2>1, NoneAssumption DEF Close, Registered
    <2> QED
        BY <1>4, <1>b, <2>1, <2>2 DEF Close
<1>5. ASSUME NEW o \in OwnerIds, NEW s \in Slots, CloseSlot(o, s) PROVE Kept
    <2>1. stmt[t].pc # "idle" /\ n \in OwnerIds /\ Registered(n)
        BY <1>5, <1>a DEF CloseSlot, Registered
    <2>2. n # o
        BY <1>5, <2>1 DEF CloseSlot, OwnerInv, ClosersRetired
    <2>3. slotPool'[n] = slotPool[n]
        BY <1>5, <2>1, <2>2 DEF CloseSlot, TypeOK
    <2> QED
        BY <1>5, <1>b, <2>1, <2>3 DEF CloseSlot
<1>6. ASSUME NEW p \in Pools, CloseSettles(p) PROVE Kept
    <2>1. stmt[t].pc # "idle" /\ Registered(n)
        BY <1>6 DEF CloseSettles, Registered
    <2>2. pool[stmt[t].pool] = "failed" => pool'[stmt[t].pool] = "failed"
        BY <1>6, <1>a, <2>1 DEF CloseSettles, TypeOK
    <2> QED
        BY <1>6, <1>b, <2>1, <2>2 DEF CloseSettles
<1>7. CASE IdleSweep
    <2>1. stmt[t].pc # "idle" /\ Registered(n) /\ n \in OwnerIds
        BY <1>7, <1>a DEF IdleSweep, Registered
    <2>2. n \notin Idle
        BY <2>1, IdleUnused
    <2>3. slotPool'[n] = slotPool[n]
        BY <1>7, <2>1, <2>2 DEF IdleSweep
    <2> QED
        BY <1>7, <1>b, <2>1, <2>3 DEF IdleSweep
<1>8. ASSUME NEW u \in Stmts, NEW k \in Keys, NEW s \in Slots, NEW p \in Pools,
             Begin(u, k, s, p)
      PROVE  Kept
    <2>1. owners[k] \in OwnerIds /\ Acquire(owners[k], s, p) /\ owners' = owners
        BY <1>8 DEF Begin, TypeOK
    <2>2. CASE u = t
        <3>1. /\ stmt'[t].owner = owners[k]
              /\ stmt'[t].slot = s
              /\ stmt'[t].pool = p
            BY <1>8, <2>2 DEF Begin, TypeOK
        <3>2. slotPool'[owners[k]][s] = p
            BY <2>1 DEF Acquire, TypeOK
        <3> QED
            BY <3>1, <3>2
    <2>3. CASE u # t
        <3>1. stmt'[t] = stmt[t]
            BY <1>8, <2>3 DEF Begin, TypeOK
        <3>2. stmt[t].pc # "idle" /\ Registered(n)
            BY <2>1, <3>1 DEF Registered
        <3> QED
            BY <2>1, <3>1, <3>2, AcquireKeeps
    <2> QED
        BY <2>2, <2>3
<1>9. ASSUME NEW u \in Stmts, NEW p \in Pools, WarmUp(u, p) PROVE Kept
    <2> DEFINE o == owners[stmt[u].key]
               s == <<stmt[u].slot[1], "procedure">>
    <2>1. o \in OwnerIds /\ s \in Slots
        BY <1>9 DEF WarmUp, TypeOK, StmtStates, Free, Slots, Kinds
    <2>2. Acquire(o, s, p) /\ owners' = owners /\ stmt' = stmt
        BY <1>9 DEF WarmUp
    <2>3. stmt[t].pc # "idle" /\ Registered(n)
        BY <2>2 DEF Registered
    <2> QED
        BY <2>1, <2>2, <2>3, AcquireKeeps
<1>10. ASSUME NEW p \in Pools, Created(p) PROVE Kept
    <2>1. stmt[t].pc # "idle" /\ Registered(n)
        BY <1>10 DEF Created, Registered
    <2>2. pool[stmt[t].pool] = "failed" => pool'[stmt[t].pool] = "failed"
        BY <1>10, <1>a, <2>1 DEF Created, TypeOK
    <2> QED
        BY <1>10, <1>b, <2>1, <2>2 DEF Created
<1>11. ASSUME NEW p \in Pools, CreateFails(p) PROVE Kept
    <2>1. stmt[t].pc # "idle" /\ Registered(n)
        BY <1>11 DEF CreateFails, Registered
    <2>2. pool[stmt[t].pool] = "failed" \/ stmt[t].pool = p => pool'[stmt[t].pool] = "failed"
        BY <1>11, <1>a, <2>1 DEF CreateFails, TypeOK
    <2>3. slotPool[n][r] # p => slotPool'[n][r] = slotPool[n][r]
        BY <1>11, <1>a, <2>1 DEF CreateFails, TypeOK
    <2> QED
        BY <1>11, <1>b, <2>1, <2>2, <2>3 DEF CreateFails
<1>12. ASSUME NEW u \in Stmts, Acquired(u) PROVE Kept
    <2>1. /\ stmt[t].pc # "idle"
          /\ stmt'[t].owner = n
          /\ stmt'[t].slot = r
          /\ stmt'[t].pool = stmt[t].pool
        BY <1>12 DEF Acquired, TypeOK, StmtStates, Free
    <2>2. Registered(n)
        BY <1>12, <2>1 DEF Acquired, Registered
    <2> QED
        BY <1>12, <1>b, <2>1, <2>2 DEF Acquired
<1>13. ASSUME NEW u \in Stmts, Finish(u) PROVE Kept
    <2>1. u # t /\ stmt'[t] = stmt[t]
        BY <1>13 DEF Finish, TypeOK, Free
    <2>2. Registered(n)
        BY <1>13, <2>1 DEF Finish, Registered
    <2> QED
        BY <1>13, <1>b, <2>1, <2>2 DEF Finish
<1> QED
    BY <1>1, <1>2, <1>3, <1>4, <1>5, <1>6, <1>7, <1>8, <1>9, <1>10, <1>11, <1>12, <1>13
    DEF Next, vars, CloseOne, CloseAll, GrowStale

-----------------------------------------------------------------------------
(* The theorems *)

LEMMA IInvStep == IInv /\ [Next]_vars => IInv'
<1> SUFFICES ASSUME IInv, [Next]_vars PROVE IInv'
    OBVIOUS
<1>1. TypeOK'
    BY TypeStep DEF IInv
<1>2. SlotInv'
    BY <1>1, SlotStep DEF IInv, SlotInv, OneHome
<1>3. OwnerInv'
    BY OwnerStep DEF IInv, OwnerInv, OneHome
<1>4. NoOrphanPool'
    BY NoOrphanStep DEF IInv, SlotInv, OneHome
<1>5. ActiveCountsUsers'
    BY ActiveStep DEF IInv
<1>6. PoolKeptForStatement'
    BY PoolKeptStep DEF IInv, OwnerInv, OneHome
<1> QED
    BY <1>1, <1>2, <1>3, <1>4, <1>5, <1>6 DEF IInv, SlotInv, OwnerInv, OneHome

LEMMA Invariance == Spec => []IInv
BY IInvInit, IInvStep, PTL DEF Spec

\* Whatever the interleaving of statements, hand-overs, sweeps and closes, a
\* pool that is being created or open can still be closed.
THEOREM NoConnectionLeak == Spec => []NoOrphanPool
<1>1. IInv => NoOrphanPool
    BY DEF IInv
<1> QED
    BY <1>1, Invariance, PTL

\* A statement's pool stays in its slot while its owner is registered.
THEOREM NoPoolTakenFromStatement == Spec => []PoolKeptForStatement
<1>1. IInv => PoolKeptForStatement
    BY DEF IInv
<1> QED
    BY <1>1, Invariance, PTL

\* The counter the sweep and the hand-over rely on is exact.
THEOREM ActiveIsExact == Spec => []ActiveCountsUsers
<1>1. IInv => ActiveCountsUsers
    BY DEF IInv
<1> QED
    BY <1>1, Invariance, PTL

\* Owners and pools are never shared between keys or slots.
THEOREM PoolsNeverMerged == Spec => []OneHome
<1>1. IInv => OneHome
    BY DEF IInv
<1> QED
    BY <1>1, Invariance, PTL

\* A closed key's owner never opens a pool again.
THEOREM ClosedKeyStaysClosed == Spec => ClosedOwnerGainsNoPool
<1> DEFINE Quiet == \A o \in OwnerIds : ~Registered(o) => PoolsOf(o)' \subseteq PoolsOf(o)
<1>1. ASSUME TypeOK, [Next]_vars, NEW o \in OwnerIds, ~Registered(o)
      PROVE  PoolsOf(o)' \subseteq PoolsOf(o)
    <2> SUFFICES \A s \in Slots : slotPool'[o][s] \in {None, slotPool[o][s]}
        BY DEF PoolsOf
    <2>1. ASSUME NEW n \in OwnerIds, NEW s \in Slots, CloseSlot(n, s)
          PROVE  \A r \in Slots : slotPool'[o][r] \in {None, slotPool[o][r]}
        BY <1>1, <2>1 DEF CloseSlot, TypeOK
    <2>2. ASSUME NEW t \in Stmts, NEW k \in Keys, NEW s \in Slots, NEW p \in Pools,
                 Begin(t, k, s, p)
          PROVE  \A r \in Slots : slotPool'[o][r] \in {None, slotPool[o][r]}
        <3>1. o # owners[k]
            BY <1>1, <2>2 DEF Begin, Registered
        <3> QED
            BY <1>1, <2>2, <3>1 DEF Begin, Acquire, TypeOK
    <2>3. ASSUME NEW t \in Stmts, NEW p \in Pools, WarmUp(t, p)
          PROVE  \A r \in Slots : slotPool'[o][r] \in {None, slotPool[o][r]}
        <3>1. stmt[t].key \in Keys
            BY <1>1, <2>3 DEF WarmUp, TypeOK, StmtStates, Free
        <3>2. o # owners[stmt[t].key]
            BY <1>1, <2>3, <3>1 DEF WarmUp, Registered
        <3> QED
            BY <1>1, <2>3, <3>2 DEF WarmUp, Acquire, TypeOK
    <2>4. ASSUME NEW p \in Pools, CreateFails(p)
          PROVE  \A r \in Slots : slotPool'[o][r] \in {None, slotPool[o][r]}
        BY <1>1, <2>4 DEF CreateFails, TypeOK
    <2>5. CASE IdleSweep
        BY <2>5 DEF IdleSweep
    <2> QED
        BY <1>1, <2>1, <2>2, <2>3, <2>4, <2>5
        DEF Next, vars, Register, Move, CloseOne, CloseAll, Close, CloseSettles,
            GrowStale, Created, Acquired, Finish
<1>2. TypeOK /\ [Next]_vars => [Quiet]_vars
    BY <1>1
<1> QED
    BY <1>2, TypeCorrect, PTL DEF Spec, ClosedOwnerGainsNoPool

-----------------------------------------------------------------------------
(* The registry implements PoolOwnership *)

AbsStep == Ownership!Next \/ UNCHANGED <<RegisteredKeys, HeldBy, ReleasedPools, GonePools>>

\* What a key holds, slot by slot
LEMMA HeldByDef ==
    /\ \A k \in Keys : \A p : p \in HeldBy[k] <=>
          owners[k] # None /\ p # None /\ \E s \in Slots : slotPool[owners[k]][s] = p
    /\ \A k \in Keys : \A p : p \in HeldBy'[k] <=>
          owners'[k] # None /\ p # None /\ \E s \in Slots : slotPool'[owners'[k]][s] = p
BY DEF HeldBy, PoolsOf

\* Held pools are live, and a pool is held by one key
LEMMA HeldFacts ==
    ASSUME IInv
    PROVE  /\ \A k \in Keys : \A p \in HeldBy[k] : p \in Pools /\ Live(p)
           /\ \A j, k \in Keys : \A p \in HeldBy[j] : p \in HeldBy[k] => j = k
<1>1. \A k \in Keys : owners[k] # None => owners[k] \in OwnerIds
    BY DEF IInv, TypeOK
<1>2. \A o \in OwnerIds, s \in Slots : slotPool[o][s] \in Pools \cup {None}
    BY DEF IInv, TypeOK
<1>3. \A k \in Keys : \A p \in HeldBy[k] : p \in Pools /\ Live(p)
    BY <1>1, <1>2, HeldByDef DEF IInv, SlotPoolsLive
<1>4. \A j, k \in Keys : \A p \in HeldBy[j] : p \in HeldBy[k] => owners[j] = owners[k]
    <2> SUFFICES ASSUME NEW j \in Keys, NEW k \in Keys, NEW p \in HeldBy[j], p \in HeldBy[k]
                 PROVE  owners[j] = owners[k]
        OBVIOUS
    <2>1. PICK r \in Slots : slotPool[owners[j]][r] = p /\ owners[j] # None /\ p # None
        BY HeldByDef
    <2>2. PICK s \in Slots : slotPool[owners[k]][s] = p /\ owners[k] # None
        BY HeldByDef
    <2>3. home[p] = <<owners[j], r>> /\ home[p] = <<owners[k], s>>
        BY <1>1, <2>1, <2>2 DEF IInv, OneHome, OneSlotPerPool
    <2> QED
        BY <2>3
<1>5. \A j, k \in Keys : \A p \in HeldBy[j] : p \in HeldBy[k] => j = k
    BY <1>4, HeldByDef DEF IInv, OneHome, OneKeyPerOwner
<1> QED
    BY <1>3, <1>5

LEMMA AcquireAbs ==
    ASSUME IInv, NEW k \in Keys, owners[k] # None, NEW s \in Slots, NEW p \in Pools,
           Acquire(owners[k], s, p), owners' = owners
    PROVE  AbsStep
<1>1. CASE UNCHANGED <<slotPool, pool, home>>
    BY <1>1 DEF AbsStep, RegisteredKeys, HeldBy, PoolsOf, ReleasedPools, GonePools, Live
<1>2. CASE /\ slotPool[owners[k]][s] = None
           /\ pool[p] = "none"
           /\ slotPool' = [slotPool EXCEPT ![owners[k]] = [@ EXCEPT ![s] = p]]
           /\ pool' = [pool EXCEPT ![p] = "creating"]
    <2>1. k \in RegisteredKeys /\ RegisteredKeys' = RegisteredKeys
        BY DEF RegisteredKeys
    <2>2. p \notin Ownership!Used
        <3>1. \A j \in Keys : p \notin HeldBy[j]
            BY <1>2, HeldFacts DEF Live
        <3>2. p \notin ReleasedPools /\ p \notin GonePools
            BY <1>2 DEF Live, ReleasedPools, GonePools
        <3> QED
            BY <3>1, <3>2 DEF Ownership!Used
    <2>3. \A o \in OwnerIds, r \in Slots :
             slotPool'[o][r] = IF o = owners[k] /\ r = s THEN p ELSE slotPool[o][r]
        BY <1>2 DEF IInv, TypeOK
    <2>4. \A j \in Keys : owners[j] # None => owners[j] \in OwnerIds
        BY DEF IInv, TypeOK
    <2>5. \A j \in Keys : HeldBy'[j] = IF j = k THEN HeldBy[j] \cup {p} ELSE HeldBy[j]
        <3>1. ASSUME NEW j \in Keys, j # k PROVE HeldBy'[j] = HeldBy[j]
            <4>1. owners[j] # None => owners[j] # owners[k]
                BY <3>1 DEF IInv, OneHome, OneKeyPerOwner
            <4>2. \A q : q \in HeldBy'[j] <=> q \in HeldBy[j]
                BY <2>3, <2>4, <4>1, HeldByDef
            <4> QED
                BY <4>2
        <3>2. HeldBy'[k] = HeldBy[k] \cup {p}
            <4>1. \A q : q \in HeldBy'[k] <=> q \in HeldBy[k] \cup {p}
                BY <1>2, <2>3, <2>4, HeldByDef, NoneAssumption
            <4> QED
                BY <4>1
        <3> QED
            BY <3>1, <3>2
    <2>6. HeldBy' = [HeldBy EXCEPT ![k] = @ \cup {p}]
        BY <2>5 DEF HeldBy
    <2>7. \A q \in Pools : q # p => pool'[q] = pool[q]
        BY <1>2 DEF IInv, TypeOK
    <2>8. pool'[p] = "creating"
        BY <1>2 DEF IInv, TypeOK
    <2>9. GonePools' = GonePools
        BY <1>2, <2>7, <2>8 DEF GonePools
    <2>10. ReleasedPools' = ReleasedPools
        BY <1>2, <2>5, <2>7, <2>8 DEF ReleasedPools, Live
    <2> QED
        BY <2>1, <2>2, <2>6, <2>9, <2>10 DEF AbsStep, Ownership!Next, Ownership!Open
<1> QED
    BY <1>1, <1>2 DEF Acquire

\* A key's holding depends on its owner and that owner's slots alone
LEMMA SameHolding ==
    ASSUME NEW j \in Keys, NEW k \in Keys, owners'[j] = owners[k],
           owners[k] # None => slotPool'[owners[k]] = slotPool[owners[k]]
    PROVE  HeldBy'[j] = HeldBy[k]
<1>1. \A p : p \in HeldBy'[j] <=> p \in HeldBy[k]
    BY HeldByDef
<1> QED
    BY <1>1

LEMMA NoHolding ==
    ASSUME NEW j \in Keys, owners'[j] = None PROVE HeldBy'[j] = {}
<1>1. \A p : p \notin HeldBy'[j]
    BY HeldByDef
<1> QED
    BY <1>1

\* A pool that stops being live was held or released, and is gone afterwards
LEMMA GoAbs ==
    ASSUME IInv, NEW p \in Pools, Live(p), owners' = owners,
           pool' \in {[pool EXCEPT ![p] = "closed"], [pool EXCEPT ![p] = "failed"]},
           \A k \in Keys : HeldBy'[k] = HeldBy[k] \ {p}
    PROVE  AbsStep
<1>1. p \in ReleasedPools \cup UNION {HeldBy[k] : k \in Keys}
    BY DEF ReleasedPools
<1>2. HeldBy' = [k \in Keys |-> HeldBy[k] \ {p}]
    BY DEF HeldBy
<1>3. pool'[p] \in {"closed", "failed"} /\ \A q \in Pools : q # p => pool'[q] = pool[q]
    BY DEF IInv, TypeOK
<1>4. ReleasedPools' = ReleasedPools \ {p}
    BY <1>3 DEF ReleasedPools, Live
<1>5. GonePools' = GonePools \cup {p}
    BY <1>3 DEF GonePools
<1>6. RegisteredKeys' = RegisteredKeys
    BY DEF RegisteredKeys
<1> QED
    BY <1>1, <1>2, <1>4, <1>5, <1>6 DEF AbsStep, Ownership!Next, Ownership!Go

\* Keys whose holdings are released, some of them closed
LEMMA ReleaseAbs ==
    ASSUME IInv, NEW keys \in SUBSET Keys, NEW closed \in SUBSET Keys, closed \subseteq keys,
           pool' = pool,
           \A k \in Keys : owners'[k] = IF k \in closed THEN None ELSE owners[k],
           \A k \in Keys : HeldBy'[k] = IF k \in keys THEN {} ELSE HeldBy[k]
    PROVE  AbsStep
<1>1. RegisteredKeys' = RegisteredKeys \ closed
    BY DEF RegisteredKeys
<1>2. HeldBy' = [k \in Keys |-> IF k \in keys THEN {} ELSE HeldBy[k]]
    BY DEF HeldBy
<1>3. ReleasedPools' = ReleasedPools \cup UNION {HeldBy[k] : k \in keys}
    <2>1. \A p \in ReleasedPools' :
             p \in ReleasedPools \cup UNION {HeldBy[k] : k \in keys}
        BY DEF ReleasedPools, Live
    <2>2. \A p \in ReleasedPools : p \in ReleasedPools'
        BY DEF ReleasedPools, Live
    <2>3. ASSUME NEW k \in keys, NEW p \in HeldBy[k] PROVE p \in ReleasedPools'
        <3>1. p \in Pools /\ Live(p)
            BY HeldFacts
        <3>2. \A j \in Keys : j \notin keys => p \notin HeldBy[j]
            BY HeldFacts
        <3> QED
            BY <3>1, <3>2 DEF ReleasedPools, Live
    <2> QED
        BY <2>1, <2>2, <2>3
<1>4. GonePools' = GonePools
    BY DEF GonePools
<1> QED
    BY <1>1, <1>2, <1>3, <1>4 DEF AbsStep, Ownership!Next, Ownership!Release

LEMMA StepImplements == IInv /\ [Next]_vars => AbsStep
<1> SUFFICES ASSUME IInv, [Next]_vars PROVE AbsStep
    OBVIOUS
<1>a. TypeOK
    BY DEF IInv
<1>b. \A k \in Keys : owners[k] # None => owners[k] \in OwnerIds
    BY <1>a DEF TypeOK
<1>1. CASE UNCHANGED <<owners, slotPool, pool>>
    BY <1>1 DEF AbsStep, RegisteredKeys, HeldBy, PoolsOf, ReleasedPools, GonePools, Live
<1>2. ASSUME NEW k \in Keys, NEW o \in OwnerIds, Register(k, o) PROVE AbsStep
    <2>1. \A j \in Keys : owners'[j] = IF j = k THEN o ELSE owners[j]
        BY <1>2, <1>a DEF Register, TypeOK
    <2>2. \A j \in Keys : j # k => HeldBy'[j] = HeldBy[j]
        BY <1>2, <2>1, SameHolding DEF Register
    <2>3. HeldBy'[k] = {} /\ HeldBy[k] = {}
        <3>1. \A s \in Slots : slotPool'[o][s] = None
            BY <1>2 DEF Register, IInv, UnbornUnused
        <3>2. \A p : p \notin HeldBy'[k] /\ p \notin HeldBy[k]
            BY <1>2, <2>1, <3>1, HeldByDef DEF Register
        <3> QED
            BY <3>2
    <2>4. HeldBy' = HeldBy
        BY <2>2, <2>3 DEF HeldBy
    <2>5. RegisteredKeys' = RegisteredKeys \cup {k}
        BY <2>1, NoneAssumption DEF RegisteredKeys
    <2>6. ReleasedPools' = ReleasedPools /\ GonePools' = GonePools
        BY <1>2, <2>4 DEF Register, ReleasedPools, GonePools, Live
    <2> QED
        BY <2>4, <2>5, <2>6 DEF AbsStep, Ownership!Next, Ownership!Register
<1>3. ASSUME NEW from \in Keys, NEW to \in Keys, Move(from, to) PROVE AbsStep
    <2>1. \A k \in Keys : owners'[k] = IF k = to THEN owners[from]
                                       ELSE IF k = from THEN None ELSE owners[k]
        BY <1>3, <1>a DEF Move, TypeOK
    <2>2. UNCHANGED <<slotPool, pool>> /\ from # to /\ owners[from] # None
        BY <1>3 DEF Move
    <2>3. HeldBy[to] = {}
        <3>1. \A p : p \notin HeldBy[to]
            BY <1>3, HeldByDef DEF Move, HasOpenPool
        <3> QED
            BY <3>1
    <2>4. HeldBy'[to] = HeldBy[from] /\ HeldBy'[from] = {}
        BY <2>1, <2>2, SameHolding, NoHolding
    <2>5. \A k \in Keys : k # to /\ k # from => HeldBy'[k] = HeldBy[k]
        BY <2>1, <2>2, SameHolding
    <2>6. HeldBy' = [HeldBy EXCEPT ![to] = HeldBy[from], ![from] = {}]
        BY <2>2, <2>4, <2>5 DEF HeldBy
    <2>7. RegisteredKeys' = (RegisteredKeys \ {from}) \cup {to} /\ from \in RegisteredKeys
        BY <2>1, <2>2 DEF RegisteredKeys
    <2>8. \A p : (\E k \in Keys : p \in HeldBy'[k]) <=> (\E k \in Keys : p \in HeldBy[k])
        BY <2>3, <2>4, <2>5
    <2>9. ReleasedPools' = ReleasedPools /\ GonePools' = GonePools
        BY <2>2, <2>8 DEF ReleasedPools, GonePools, Live
    <2> QED
        BY <2>2, <2>3, <2>6, <2>7, <2>9 DEF AbsStep, Ownership!Next, Ownership!HandOver
<1>4. ASSUME NEW keys \in SUBSET Keys, Close(keys) PROVE AbsStep
    <2>1. \A k \in Keys : owners'[k] = IF k \in keys THEN None ELSE owners[k]
        BY <1>4 DEF Close
    <2>2. \A k \in Keys : HeldBy'[k] = IF k \in keys THEN {} ELSE HeldBy[k]
        BY <1>4, <2>1, SameHolding, NoHolding DEF Close
    <2>3. pool' = pool
        BY <1>4 DEF Close
    <2> QED
        BY <2>1, <2>2, <2>3, ReleaseAbs
<1>5. ASSUME NEW o \in OwnerIds, NEW s \in Slots, CloseSlot(o, s) PROVE AbsStep
    <2>1. ~Registered(o) /\ UNCHANGED <<owners, pool>>
        BY <1>5 DEF CloseSlot, IInv, ClosersRetired
    <2>2. \A k \in Keys : owners[k] # None => slotPool'[owners[k]] = slotPool[owners[k]]
        BY <1>5, <1>a, <1>b, <2>1 DEF CloseSlot, TypeOK, Registered
    <2>3. HeldBy' = HeldBy
        BY <2>1, <2>2, SameHolding DEF HeldBy
    <2> QED
        BY <2>1, <2>3 DEF AbsStep, RegisteredKeys, ReleasedPools, GonePools, Live
<1>6. ASSUME NEW p \in Pools, CloseSettles(p) PROVE AbsStep
    <2>1. Live(p) /\ UNCHANGED <<owners, slotPool>> /\ pool' = [pool EXCEPT ![p] = "closed"]
        BY <1>6 DEF CloseSettles, Live
    <2>2. \A k \in Keys : p \notin HeldBy[k]
        BY <1>6, <1>b, HeldByDef DEF CloseSettles, IInv, ClosingDetached
    <2>3. \A k \in Keys : HeldBy'[k] = HeldBy[k] \ {p}
        BY <2>1, <2>2, SameHolding
    <2> QED
        BY <2>1, <2>3, GoAbs
<1>7. CASE IdleSweep
    <2> DEFINE keys == {q \in Keys \ {Stdio} : owners[q] # None
                          /\ active[owners[q]] <= 0 /\ stale[owners[q]]}
    <2>1. \A k \in Keys : owners[k] # None => (owners[k] \in Idle <=> k \in keys)
        BY DEF Idle, IInv, OneHome, OneKeyPerOwner
    <2>2. UNCHANGED <<owners, pool>> /\ \A o \in OwnerIds :
             slotPool'[o] = IF o \in Idle THEN [s \in Slots |-> None] ELSE slotPool[o]
        BY <1>7 DEF IdleSweep
    <2> HIDE DEF keys
    <2>3. \A k \in Keys : k \notin keys => HeldBy'[k] = HeldBy[k]
        BY <1>b, <2>1, <2>2, SameHolding
    <2>4. \A k \in Keys : k \in keys => HeldBy'[k] = {}
        <3>1. \A k \in Keys : \A p : k \in keys => p \notin HeldBy'[k]
            BY <1>b, <2>1, <2>2, HeldByDef
        <3> QED
            BY <3>1
    <2>5. keys \in SUBSET Keys
        BY DEF keys
    <2> QED
        BY <2>2, <2>3, <2>4, <2>5, ReleaseAbs
<1>8. ASSUME NEW t \in Stmts, NEW k \in Keys, NEW s \in Slots, NEW p \in Pools,
             Begin(t, k, s, p)
      PROVE  AbsStep
    BY <1>8, AcquireAbs DEF Begin
<1>9. ASSUME NEW t \in Stmts, NEW p \in Pools, WarmUp(t, p) PROVE AbsStep
    <2>1. stmt[t].key \in Keys /\ <<stmt[t].slot[1], "procedure">> \in Slots
        BY <1>9, <1>a DEF WarmUp, TypeOK, StmtStates, Free, Slots, Kinds
    <2> QED
        BY <1>9, <2>1, AcquireAbs DEF WarmUp
<1>10. ASSUME NEW p \in Pools, Created(p) PROVE AbsStep
    <2>1. UNCHANGED <<owners, slotPool>>
        BY <1>10 DEF Created
    <2>2. \A q \in Pools : (Live(q)' <=> Live(q))
             /\ (pool'[q] \in {"closed", "failed"} <=> pool[q] \in {"closed", "failed"})
        BY <1>10, <1>a DEF Created, Live, TypeOK
    <2>3. HeldBy' = HeldBy /\ RegisteredKeys' = RegisteredKeys
        BY <2>1 DEF HeldBy, PoolsOf, RegisteredKeys
    <2> QED
        BY <2>2, <2>3 DEF AbsStep, ReleasedPools, GonePools
<1>11. ASSUME NEW p \in Pools, CreateFails(p) PROVE AbsStep
    <2>1. Live(p) /\ owners' = owners /\ pool' = [pool EXCEPT ![p] = "failed"]
        BY <1>11 DEF CreateFails, Live
    <2>2. \A o \in OwnerIds, s \in Slots :
             slotPool'[o][s] = IF slotPool[o][s] = p THEN None ELSE slotPool[o][s]
        BY <1>11, <1>a, NoneAssumption DEF CreateFails, IInv, OneHome, OneSlotPerPool, TypeOK
    <2>3. \A k \in Keys : HeldBy'[k] = HeldBy[k] \ {p}
        <3>1. \A k \in Keys : \A q : q \in HeldBy'[k] <=> q \in HeldBy[k] \ {p}
            BY <1>b, <2>1, <2>2, HeldByDef
        <3> QED
            BY <3>1
    <2> QED
        BY <2>1, <2>3, GoAbs
<1> QED
    BY <1>1, <1>2, <1>3, <1>4, <1>5, <1>6, <1>7, <1>8, <1>9, <1>10, <1>11
    DEF Next, vars, CloseOne, CloseAll, GrowStale, Acquired, Finish

\* The registry keeps PoolOwnership's promise: pools are opened only by
\* registered keys, change hands whole, are never merged, and never come back
\* once released.
THEOREM RegistryImplementsOwnership == Spec => ImplementsOwnership
<1>1. Init => Ownership!Init
    BY DEF Init, Ownership!Init, RegisteredKeys, HeldBy, ReleasedPools, GonePools, Live
<1>2. IInv /\ [Next]_vars => [Ownership!Next]_(Ownership!vars)
    BY StepImplements DEF AbsStep, Ownership!vars
<1> QED
    BY <1>1, <1>2, Invariance, PTL DEF Spec, ImplementsOwnership, Ownership!Spec

=============================================================================
