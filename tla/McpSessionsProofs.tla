--------------------------- MODULE McpSessionsProofs ---------------------------
(***************************************************************************)
(* TLAPS proofs about MCP sessions, the cleanup of callers and shutdown.   *)
(***************************************************************************)
EXTENDS McpSessions, FiniteSetTheorems, TLAPS

-----------------------------------------------------------------------------
(* The inductive invariant.  Its heart is CleanupClosesSessions: an open     *)
(* session has a caller with a token, a callback that is still to close it,  *)
(* or came too late for either.                                             *)

\* Requests and the history of late sessions name sessions that exist
SessionsKnown ==
    /\ \A r \in Reqs : req[r].sid # None => sess[req[r].sid].pc # "free"
    /\ \A s \in late : sess[s].pc # "free"

ClosesCounted == \A s \in Sessions : /\ closes[s] <= 1
                                     /\ sess[s].pc \in {"free", "open"} => closes[s] = 0

\* A callback that nothing overtook belongs to a caller without a token
CleanupsPlaced ==
    \A t, u \in Tokens : token[t] = "sessions" /\ token[u] = "held" => KeyOf[u] # KeyOf[t]

ShutdownPlaced ==
    /\ down \in {"server", "closed"} => TokensIn({"draining"}) = {}
    /\ down = "closed" => Quiet
    /\ exit = 0 => down = "closed"

IInv ==
    /\ TypeOK /\ ActiveExact /\ PoolsFollowTokens
    /\ SessionsKnown /\ ClosesCounted /\ CleanupClosesSessions /\ CleanupsPlaced /\ ShutdownPlaced

-----------------------------------------------------------------------------
(* Sessions, requests and loops, field by field *)

SessionRecord == [pc: {"open", "closing", "gone"}, key: Keys, active: 0..Cardinality(Reqs)]

\* A request that is being classified, one without a session and one with one
Probing == [pc: {"probing"}, tok: Tokens, key: Keys, sid: {None}]
Roaming == [pc: {"connecting", "running"}, tok: {None}, key: Keys, sid: {None}]
Seated  == [pc: {"handling", "streaming", "deleting"}, tok: {None}, key: Keys, sid: Sessions]

LEMMA SessionTypes ==
    ASSUME TypeOK, NEW s \in Sessions
    PROVE  /\ sess[s].pc = "free" => sess[s] = Unborn
           /\ sess[s].pc # "free" =>
                 /\ sess[s] \in SessionRecord
                 /\ sess[s].pc \in {"open", "closing", "gone"}
                 /\ sess[s].key \in Keys
                 /\ sess[s].active \in 0..Cardinality(Reqs)
BY DEF TypeOK, SessionRecord, Unborn

LEMMA RequestTypes ==
    ASSUME TypeOK, NEW r \in Reqs
    PROVE  /\ req[r].pc = "idle" <=> req[r] = Idle
           /\ req[r].pc = "probing" =>
                 req[r] \in Probing /\ req[r].key \in Keys /\ req[r].tok \in Tokens /\ req[r].sid = None
           /\ req[r].pc \in {"connecting", "running"} =>
                 req[r] \in Roaming /\ req[r].key \in Keys /\ req[r].sid = None
           /\ req[r].pc \in {"handling", "streaming", "deleting"} =>
                 req[r] \in Seated /\ req[r].key \in Keys /\ req[r].sid \in Sessions
           /\ \/ req[r].pc = "idle"
              \/ req[r].pc = "probing"
              \/ req[r].pc \in {"connecting", "running"}
              \/ req[r].pc \in {"handling", "streaming", "deleting"}
BY DEF TypeOK, Idle, Probing, Roaming, Seated

LEMMA LoopTypes ==
    ASSUME TypeOK, NEW l \in Loops
    PROVE  /\ loop[l] \in [todo: SUBSET Sessions, cur: Sessions \cup {None}]
           /\ \A S \in SUBSET Sessions :
                 /\ [loop[l] EXCEPT !.todo = S]
                       \in [todo: SUBSET Sessions, cur: Sessions \cup {None}]
                 /\ [loop[l] EXCEPT !.todo = S].todo = S
           /\ /\ [loop[l] EXCEPT !.cur = None]
                       \in [todo: SUBSET Sessions, cur: Sessions \cup {None}]
              /\ [loop[l] EXCEPT !.cur = None].todo = loop[l].todo
BY DEF TypeOK

LEMMA ReqsCounted ==
    ASSUME NEW R \in SUBSET Reqs
    PROVE  IsFiniteSet(R) /\ Cardinality(R) \in 0..Cardinality(Reqs) /\ Cardinality(Reqs) \in Nat
BY ReqsAssumption, FS_CardinalityType, FS_Subset

-----------------------------------------------------------------------------
(* What a step does to sessions *)

\* The part of closeSession before its awaits
LEMMA CloseStarts ==
    ASSUME TypeOK, NEW s \in Open, StartClose(s)
    PROVE  /\ sess' \in [Sessions -> {Unborn} \cup SessionRecord]
           /\ \A t \in Sessions : t # s => sess'[t] = sess[t]
           /\ sess'[s].pc = "closing" /\ sess'[s].key = sess[s].key
           /\ sess'[s].active = sess[s].active
           /\ closes' \in [Sessions -> Nat]
           /\ \A t \in Sessions : closes'[t] = IF t = s THEN closes[t] + 1 ELSE closes[t]
<1>1. /\ s \in Sessions /\ sess[s] \in SessionRecord
      /\ sess \in [Sessions -> {Unborn} \cup SessionRecord]
      /\ closes \in [Sessions -> Nat]
    BY SessionTypes DEF Open, TypeOK, SessionRecord
<1> DEFINE x == [sess[s] EXCEPT !.pc = "closing"]
<1>2. sess' = [sess EXCEPT ![s] = x]
    BY DEF StartClose
<1>3. closes' = [closes EXCEPT ![s] = closes[s] + 1]
    BY DEF StartClose
<1>4. /\ x \in SessionRecord /\ x.pc = "closing"
      /\ x.key = sess[s].key /\ x.active = sess[s].active
    BY <1>1 DEF SessionRecord
<1> HIDE DEF x
<1> QED
    BY <1>1, <1>2, <1>3, <1>4

\* A request more or less on a session that exists
LEMMA CountChanges ==
    ASSUME TypeOK, NEW s \in InMap, NEW n \in 0..Cardinality(Reqs),
           sess' = [sess EXCEPT ![s].active = n]
    PROVE  /\ sess' \in [Sessions -> {Unborn} \cup SessionRecord]
           /\ \A t \in Sessions : t # s => sess'[t] = sess[t]
           /\ sess'[s].pc = sess[s].pc /\ sess'[s].key = sess[s].key
           /\ sess'[s].active = n
<1>1. /\ s \in Sessions /\ sess[s] \in SessionRecord
      /\ sess \in [Sessions -> {Unborn} \cup SessionRecord]
    BY SessionTypes DEF InMap, TypeOK, SessionRecord
<1> DEFINE x == [sess[s] EXCEPT !.active = n]
<1>2. sess' = [sess EXCEPT ![s] = x]
    OBVIOUS
<1>3. /\ x \in SessionRecord /\ x.pc = sess[s].pc
      /\ x.key = sess[s].key /\ x.active = n
    BY <1>1 DEF SessionRecord
<1> HIDE DEF x
<1> QED
    BY <1>1, <1>2, <1>3

-----------------------------------------------------------------------------
(* What a step does to requests *)

RequestRecord == {Idle} \cup Probing \cup Roaming \cup Seated

LEMMA RequestEnds ==
    ASSUME TypeOK, NEW r \in Reqs, req' = [req EXCEPT ![r] = Idle]
    PROVE  /\ req' \in [Reqs -> RequestRecord]
           /\ \A q \in Reqs : q # r => req'[q] = req[q]
           /\ req'[r] = Idle
BY DEF TypeOK, RequestRecord, Probing, Roaming, Seated

LEMMA RequestGoes ==
    ASSUME TypeOK, NEW r \in Reqs, req[r].pc = "probing", NEW p, NEW s, Goes(r, p, s),
           \/ p \in {"connecting", "running"} /\ s = None
           \/ p \in {"handling", "streaming", "deleting"} /\ s \in Sessions
    PROVE  /\ req' \in [Reqs -> RequestRecord]
           /\ \A q \in Reqs : q # r => req'[q] = req[q]
           /\ req'[r].pc = p /\ req'[r].key = req[r].key /\ req'[r].sid = s
<1>1. req[r] \in Probing /\ req \in [Reqs -> RequestRecord]
    BY RequestTypes DEF TypeOK, RequestRecord, Probing, Roaming, Seated
<1> DEFINE x == [req[r] EXCEPT !.pc = p, !.tok = None, !.sid = s]
<1>2. req' = [req EXCEPT ![r] = x]
    BY <1>1 DEF Goes
<1>3. x \in Roaming \cup Seated /\ x.pc = p /\ x.key = req[r].key /\ x.sid = s
    BY <1>1 DEF Probing, Roaming, Seated
<1> HIDE DEF x
<1> QED
    BY <1>1, <1>2, <1>3 DEF RequestRecord

LEMMA RequestConnects ==
    ASSUME TypeOK, NEW r \in Reqs, req[r].pc = "connecting",
           req' = [req EXCEPT ![r].pc = "running"]
    PROVE  /\ req' \in [Reqs -> RequestRecord]
           /\ \A q \in Reqs : q # r => req'[q] = req[q]
           /\ req'[r].pc = "running" /\ req'[r].sid = None
<1>1. req[r] \in Roaming /\ req[r].sid = None /\ req \in [Reqs -> RequestRecord]
    BY RequestTypes DEF TypeOK, RequestRecord, Probing, Roaming, Seated
<1> DEFINE x == [req[r] EXCEPT !.pc = "running"]
<1>2. req' = [req EXCEPT ![r] = x]
    OBVIOUS
<1>3. x \in Roaming /\ x.pc = "running" /\ x.sid = None
    BY <1>1 DEF Roaming
<1> HIDE DEF x
<1> QED
    BY <1>1, <1>2, <1>3 DEF RequestRecord

LEMMA RequestArrives ==
    ASSUME TypeOK, NEW r \in Reqs, Arrive(r)
    PROVE  /\ req' \in [Reqs -> RequestRecord]
           /\ \A q \in Reqs : q # r => req'[q] = req[q]
           /\ req'[r].pc = "probing" /\ req'[r].sid = None
<1>1. PICK t \in Tokens :
         req' = [req EXCEPT ![r] = [pc |-> "probing", tok |-> t, key |-> KeyOf[t], sid |-> None]]
    BY DEF Arrive, TokensIn
<1>2. [pc |-> "probing", tok |-> t, key |-> KeyOf[t], sid |-> None] \in Probing
    BY TokensAssumption DEF Probing
<1>3. req \in [Reqs -> RequestRecord]
    BY DEF TypeOK, RequestRecord, Probing, Roaming, Seated
<1> QED
    BY <1>1, <1>2, <1>3 DEF RequestRecord

-----------------------------------------------------------------------------
(* Requests of a session are counted *)

Handlers(s) == {r \in Reqs : req[r].pc = "handling" /\ req[r].sid = s}

LEMMA HandlersCounted ==
    ASSUME NEW s \in Sessions
    PROVE  /\ IsFiniteSet(Handlers(s)) /\ Cardinality(Reqs) \in Nat
           /\ Cardinality(Handlers(s)) \in 0..Cardinality(Reqs)
BY ReqsCounted DEF Handlers

LEMMA HandlersKept ==
    ASSUME ActiveExact,
           \A s \in Sessions : s \in InMap' => s \in InMap /\ sess'[s].active = sess[s].active,
           \A r \in Reqs : /\ req'[r].pc = "handling" <=> req[r].pc = "handling"
                           /\ req[r].pc = "handling" => req'[r].sid = req[r].sid
    PROVE  ActiveExact'
<1>1. \A s \in Sessions : Handlers(s)' = Handlers(s)
    BY DEF Handlers
<1>2. InMap' \subseteq Sessions
    BY DEF InMap
<1> QED
    BY <1>1, <1>2 DEF ActiveExact, Handlers

\* One request more on an open session, and one less on one that is not gone
LEMMA PostCounts ==
    ASSUME TypeOK, ActiveExact, NEW r \in Reqs, NEW s \in Sessions, Post(r, s)
    PROVE  /\ ActiveExact'
           /\ sess' \in [Sessions -> {Unborn} \cup SessionRecord]
           /\ req' \in [Reqs -> RequestRecord]
<1> DEFINE n == sess[s].active + 1
<1>1. /\ req[r].pc = "probing" /\ s \in Open /\ s \in InMap
      /\ sess' = [sess EXCEPT ![s].active = n]
      /\ Goes(r, "handling", s)
    BY DEF Post, Owned, Open, InMap
<1>2. /\ req' \in [Reqs -> RequestRecord]
      /\ \A q \in Reqs : q # r => req'[q] = req[q]
      /\ req'[r].pc = "handling" /\ req'[r].sid = s
    BY <1>1, RequestGoes
<1>3. Handlers(s)' = Handlers(s) \cup {r} /\ r \notin Handlers(s)
    BY <1>1, <1>2 DEF Handlers
<1>4. /\ Cardinality(Handlers(s)') = n
      /\ n \in 0..Cardinality(Reqs)
    <2>1. sess[s].active = Cardinality(Handlers(s))
        BY <1>1 DEF ActiveExact, Handlers
    <2>2. Cardinality(Handlers(s)') = Cardinality(Handlers(s)) + 1
        BY <1>3, HandlersCounted, FS_AddElement
    <2>3. Cardinality(Handlers(s)') \in 0..Cardinality(Reqs)
        BY ReqsCounted DEF Handlers
    <2> QED
        BY <2>1, <2>2, <2>3
<1> HIDE DEF n
<1>5. /\ sess' \in [Sessions -> {Unborn} \cup SessionRecord]
      /\ \A t \in Sessions : t # s => sess'[t] = sess[t]
      /\ sess'[s].pc = sess[s].pc /\ sess'[s].active = n
    BY <1>1, <1>4, CountChanges
<1>6. \A t \in Sessions : t # s => Handlers(t)' = Handlers(t)
    BY <1>1, <1>2 DEF Handlers
<1>7. \A t \in InMap : sess[t].active = Cardinality(Handlers(t))
    BY DEF ActiveExact, Handlers
<1>8. \A t \in InMap' : t \in InMap /\ sess'[t].active = Cardinality(Handlers(t)')
    BY <1>1, <1>4, <1>5, <1>6, <1>7 DEF InMap
<1> QED
    BY <1>2, <1>5, <1>8 DEF ActiveExact, Handlers

LEMMA AnswerCounts ==
    ASSUME TypeOK, ActiveExact, NEW r \in Reqs, Answered(r)
    PROVE  /\ ActiveExact'
           /\ sess' \in [Sessions -> {Unborn} \cup SessionRecord]
           /\ req' \in [Reqs -> RequestRecord]
           /\ \A t \in Sessions : sess'[t].pc = sess[t].pc /\ sess'[t].key = sess[t].key
<1>1. /\ req' \in [Reqs -> RequestRecord]
      /\ \A q \in Reqs : q # r => req'[q] = req[q]
      /\ req'[r] = Idle
    BY RequestEnds DEF Answered
<1>2. sess \in [Sessions -> {Unborn} \cup SessionRecord]
    BY DEF TypeOK, SessionRecord
<1>3. CASE req[r].pc = "handling" /\ Counted(req[r].sid)
    <2>1. PICK s \in Sessions : s = req[r].sid
        BY <1>3, RequestTypes
    <2> DEFINE n == sess[s].active - 1
    <2>2. /\ s \in InMap
          /\ sess' = [sess EXCEPT ![s].active = n]
          /\ sess[s].active \in 0..Cardinality(Reqs) /\ sess[s].active > 0
        BY <1>3, <2>1, SessionTypes DEF Answered, Counted, InMap
    <2>3. n \in 0..Cardinality(Reqs)
        BY <2>2, ReqsCounted
    <2>4. Handlers(s)' = Handlers(s) \ {r} /\ r \in Handlers(s)
        BY <1>1, <1>3, <2>1 DEF Handlers, Idle
    <2>5. \A t \in InMap : sess[t].active = Cardinality(Handlers(t))
        BY DEF ActiveExact, Handlers
    <2>6. Cardinality(Handlers(s)') = n
        BY <2>2, <2>4, <2>5, HandlersCounted, FS_RemoveElement
    <2> HIDE DEF n
    <2>7. /\ sess' \in [Sessions -> {Unborn} \cup SessionRecord]
          /\ \A t \in Sessions : t # s => sess'[t] = sess[t]
          /\ sess'[s].pc = sess[s].pc /\ sess'[s].key = sess[s].key /\ sess'[s].active = n
        BY <2>2, <2>3, CountChanges
    <2>8. \A t \in Sessions : t # s => Handlers(t)' = Handlers(t)
        BY <1>1, <1>3, <2>1 DEF Handlers, Idle
    <2>9. \A t \in InMap' : t \in InMap /\ sess'[t].active = Cardinality(Handlers(t)')
        BY <2>2, <2>5, <2>6, <2>7, <2>8 DEF InMap
    <2> QED
        BY <1>1, <2>7, <2>9 DEF ActiveExact, Handlers
<1>4. CASE ~(req[r].pc = "handling" /\ Counted(req[r].sid))
    <2>1. UNCHANGED sess
        BY <1>4 DEF Answered
    <2>2. \A t \in InMap : r \notin Handlers(t)
        <3> SUFFICES ASSUME NEW t \in InMap, r \in Handlers(t) PROVE FALSE
            OBVIOUS
        <3>1. t \in Sessions /\ Handlers(t) # {} /\ sess[t].active = Cardinality(Handlers(t))
            BY DEF InMap, ActiveExact, Handlers
        <3>2. Cardinality(Handlers(t)) \in Nat \ {0}
            BY <3>1, HandlersCounted, FS_EmptySet
        <3> QED
            BY <1>4, <3>1, <3>2 DEF Counted, Handlers
    <2>3. \A t \in InMap : Handlers(t)' = Handlers(t)
        BY <1>1, <2>2 DEF Handlers, Idle
    <2>4. InMap' = InMap
        BY <2>1 DEF InMap
    <2> QED
        BY <1>1, <1>2, <2>1, <2>3, <2>4 DEF ActiveExact, Handlers
<1> QED
    BY <1>3, <1>4

\* A session that starts has no requests yet
LEMMA ConnectCounts ==
    ASSUME TypeOK, ActiveExact, SessionsKnown, NEW r \in Reqs, Connected(r)
    PROVE  /\ ActiveExact'
           /\ sess' \in [Sessions -> {Unborn} \cup SessionRecord]
           /\ req' \in [Reqs -> RequestRecord]
           /\ \E s \in Sessions :
                 /\ sess[s].pc = "free" /\ sess'[s].pc = "open" /\ sess'[s].key = req[r].key
                 /\ late' = IF req[r].key \in HeldKeys THEN late ELSE late \cup {s}
                 /\ \A t \in Sessions : t # s => sess'[t] = sess[t]
<1>1. PICK s \in Sessions :
         /\ sess[s] = Unborn
         /\ sess' = [sess EXCEPT ![s] = [pc |-> "open", key |-> req[r].key, active |-> 0]]
         /\ late' = IF req[r].key \in HeldKeys THEN late ELSE late \cup {s}
    BY DEF Connected
<1>2. /\ req' \in [Reqs -> RequestRecord]
      /\ \A q \in Reqs : q # r => req'[q] = req[q]
      /\ req[r].pc = "connecting" /\ req'[r].pc = "running" /\ req[r].key \in Keys
    BY RequestConnects, RequestTypes DEF Connected
<1>3. [pc |-> "open", key |-> req[r].key, active |-> 0] \in SessionRecord
    BY <1>2, ReqsCounted DEF SessionRecord
<1>4. /\ sess' \in [Sessions -> {Unborn} \cup SessionRecord]
      /\ \A t \in Sessions : t # s => sess'[t] = sess[t]
      /\ sess'[s].pc = "open" /\ sess'[s].key = req[r].key /\ sess'[s].active = 0
      /\ sess[s].pc = "free"
    BY <1>1, <1>3 DEF TypeOK, SessionRecord, Unborn
<1>5. \A t \in Sessions : Handlers(t)' = Handlers(t)
    BY <1>2 DEF Handlers
<1>6. Handlers(s) = {}
    BY <1>4, NoneAssumption DEF SessionsKnown, Handlers
<1>7. \A t \in InMap' : t \in Sessions /\ sess'[t].active = Cardinality(Handlers(t)')
    <2> SUFFICES ASSUME NEW t \in InMap'
                 PROVE  t \in Sessions /\ sess'[t].active = Cardinality(Handlers(t)')
        OBVIOUS
    <2>1. CASE t = s
        BY <1>4, <1>5, <1>6, <2>1, FS_EmptySet DEF InMap
    <2>2. CASE t # s
        <3>1. t \in InMap
            BY <1>4, <2>2 DEF InMap
        <3>2. sess[t].active = Cardinality(Handlers(t))
            BY <3>1 DEF ActiveExact, Handlers
        <3> QED
            BY <1>4, <1>5, <2>2, <3>1, <3>2 DEF InMap
    <2> QED
        BY <2>1, <2>2
<1> QED
    BY <1>1, <1>2, <1>4, <1>7 DEF ActiveExact, Handlers

\* A session whose transport and server have closed
LEMMA CloseEndCounts ==
    ASSUME TypeOK, ActiveExact, NEW s \in Sessions, CloseEnds(s)
    PROVE  /\ ActiveExact'
           /\ sess' \in [Sessions -> {Unborn} \cup SessionRecord]
           /\ req' \in [Reqs -> RequestRecord]
           /\ \A t \in Sessions : t # s => sess'[t] = sess[t]
           /\ sess[s].pc = "closing" /\ sess'[s].pc = "gone" /\ sess'[s].key = sess[s].key
           /\ \A r \in Reqs : req'[r] = req[r] \/ req'[r] = Idle
<1>1. sess[s].pc = "closing" /\ sess[s].key \in Keys
    BY SessionTypes DEF CloseEnds
<1>2. [pc |-> "gone", key |-> sess[s].key, active |-> 0] \in SessionRecord
    BY <1>1, ReqsCounted DEF SessionRecord
<1>3. /\ sess' \in [Sessions -> {Unborn} \cup SessionRecord]
      /\ \A t \in Sessions : t # s => sess'[t] = sess[t]
      /\ sess'[s].pc = "gone" /\ sess'[s].key = sess[s].key
    BY <1>1, <1>2 DEF TypeOK, SessionRecord, CloseEnds
<1>4. /\ req' \in [Reqs -> RequestRecord]
      /\ \A r \in Reqs : req'[r] = req[r] \/ (req'[r] = Idle /\ req[r].pc = "deleting")
    BY DEF CloseEnds, TypeOK, RequestRecord, Probing, Roaming, Seated
<1>5. ActiveExact'
    BY <1>3, <1>4, HandlersKept DEF InMap, Idle
<1> QED
    BY <1>1, <1>3, <1>4, <1>5

\* Starting to close a session keeps its count
LEMMA CloseStartCounts ==
    ASSUME TypeOK, ActiveExact, NEW s \in Open, StartClose(s),
           \A r \in Reqs : /\ req'[r].pc = "handling" <=> req[r].pc = "handling"
                           /\ req[r].pc = "handling" => req'[r].sid = req[r].sid
    PROVE  ActiveExact'
<1>1. s \in Sessions /\ s \in InMap
    BY DEF Open, InMap
<1> QED
    BY <1>1, CloseStarts, HandlersKept DEF InMap

LEMMA CountStep ==
    TypeOK /\ ActiveExact /\ SessionsKnown /\ [Next]_vars
    => /\ ActiveExact'
       /\ sess' \in [Sessions -> {Unborn} \cup SessionRecord]
       /\ req' \in [Reqs -> RequestRecord]
<1> DEFINE Goal == /\ ActiveExact'
                   /\ sess' \in [Sessions -> {Unborn} \cup SessionRecord]
                   /\ req' \in [Reqs -> RequestRecord]
<1> SUFFICES ASSUME TypeOK, ActiveExact, SessionsKnown, [Next]_vars PROVE Goal
    OBVIOUS
<1>0. /\ sess \in [Sessions -> {Unborn} \cup SessionRecord]
      /\ req \in [Reqs -> RequestRecord]
    BY DEF TypeOK, SessionRecord, RequestRecord, Probing, Roaming, Seated
<1>1. CASE UNCHANGED <<sess, req>>
    <2>1. ActiveExact'
        BY <1>1, HandlersKept DEF InMap
    <2> QED
        BY <1>0, <1>1, <2>1
<1>2. ASSUME NEW r \in Reqs, UNCHANGED sess, req[r].pc # "handling",
             req' \in [Reqs -> RequestRecord], req'[r].pc # "handling",
             \A q \in Reqs : q # r => req'[q] = req[q]
      PROVE  Goal
    <2>1. ActiveExact'
        BY <1>2, HandlersKept DEF InMap
    <2> QED
        BY <1>0, <1>2, <2>1
<1>3. ASSUME NEW r \in Reqs, Arrive(r) PROVE Goal
    <2>1. req[r].pc # "handling" /\ UNCHANGED sess
        BY <1>3 DEF Arrive, Idle, sessionVars
    <2> QED
        BY <1>2, <1>3, <2>1, RequestArrives
<1>4. ASSUME NEW r \in Reqs, Stateless(r) \/ Refuse(r) \/ Initialize(r) \/ ConnectFails(r)
      PROVE  Goal
    <2>1. /\ UNCHANGED sess /\ req[r].pc \in {"probing", "connecting"}
          /\ \/ req' = [req EXCEPT ![r] = Idle]
             \/ /\ req[r].pc = "probing"
                /\ Goes(r, "connecting", None) \/ Goes(r, "running", None)
        BY <1>4 DEF Stateless, Refuse, Initialize, ConnectFails, sessionVars
    <2>2. /\ req' \in [Reqs -> RequestRecord]
          /\ \A q \in Reqs : q # r => req'[q] = req[q]
          /\ req'[r].pc # "handling"
        BY <2>1, RequestEnds, RequestGoes DEF Idle
    <2> QED
        BY <1>2, <2>1, <2>2
<1>5. ASSUME NEW r \in Reqs, NEW s \in Sessions, Get(r, s) PROVE Goal
    <2>1. /\ UNCHANGED sess /\ req[r].pc = "probing"
          /\ Goes(r, "streaming", s)
        BY <1>5 DEF Get
    <2> QED
        BY <1>2, <2>1, RequestGoes
<1>6. ASSUME NEW r \in Reqs, NEW s \in Sessions, Post(r, s) PROVE Goal
    BY <1>6, PostCounts
<1>7. ASSUME NEW r \in Reqs, NEW s \in Sessions, Delete(r, s) PROVE Goal
    <2>1. /\ s \in Open /\ StartClose(s) /\ req[r].pc = "probing"
          /\ Goes(r, "deleting", s)
        BY <1>7 DEF Delete, Owned
    <2>2. /\ req' \in [Reqs -> RequestRecord]
          /\ \A q \in Reqs : q # r => req'[q] = req[q]
          /\ req'[r].pc = "deleting"
        BY <2>1, RequestGoes
    <2> QED
        BY <2>1, <2>2, CloseStarts, CloseStartCounts
<1>8. ASSUME NEW r \in Reqs, Connected(r) PROVE Goal
    BY <1>8, ConnectCounts
<1>9. ASSUME NEW r \in Reqs, Answered(r) PROVE Goal
    BY <1>9, AnswerCounts
<1>10. ASSUME NEW l \in Loops, LoopNext(l) PROVE Goal
    <2>1. UNCHANGED req /\ (UNCHANGED sess \/ \E s \in Open : StartClose(s))
        BY <1>10 DEF LoopNext, MayClose
    <2> QED
        BY <1>0, <1>1, <2>1, CloseStarts, CloseStartCounts
<1>11. ASSUME NEW s \in Sessions, CloseEnds(s) PROVE Goal
    BY <1>11, CloseEndCounts
<1> HIDE DEF Goal
<1> QED
    BY <1>1, <1>3, <1>4, <1>5, <1>6, <1>7, <1>8, <1>9, <1>10, <1>11
    DEF Next, RequestNext, Settles, TokenNext, SessionNext, LifeNext, vars, sessionVars,
        GoStale, Sweep, SignIn, EndToken, CleanupAgain, CleanupPool, CleanupEnds, DrainNext, Signal, ShutSessions,
        ShutTokens, ShutServer, ServerClosed, Finish, Deadline

\* A session keeps its caller; one that opens has a caller with a token or is
\* late; and it is closed once
LEMMA SessionStep ==
    TypeOK /\ ActiveExact /\ SessionsKnown /\ ClosesCounted /\ [Next]_vars
    => /\ \A s \in Sessions : sess[s].pc # "free" =>
             sess'[s].pc # "free" /\ sess'[s].key = sess[s].key
       /\ \A s \in Sessions : sess'[s].pc = "open" =>
             \/ sess[s].pc = "open"
             \/ sess'[s].key \in Keys /\ sess'[s].key \in HeldKeys /\ UNCHANGED token
             \/ s \in late'
       /\ late \subseteq late' /\ late' \subseteq Sessions
       /\ \A s \in late' : s \in late \/ sess'[s].pc # "free"
       /\ ClosesCounted'
       /\ closes' \in [Sessions -> Nat]
<1> DEFINE Goal ==
          /\ \A s \in Sessions : sess[s].pc # "free" =>
                sess'[s].pc # "free" /\ sess'[s].key = sess[s].key
          /\ \A s \in Sessions : sess'[s].pc = "open" =>
                \/ sess[s].pc = "open"
                \/ sess'[s].key \in Keys /\ sess'[s].key \in HeldKeys /\ UNCHANGED token
                \/ s \in late'
          /\ late \subseteq late' /\ late' \subseteq Sessions
          /\ \A s \in late' : s \in late \/ sess'[s].pc # "free"
          /\ ClosesCounted'
          /\ closes' \in [Sessions -> Nat]
<1> SUFFICES ASSUME TypeOK, ActiveExact, SessionsKnown, ClosesCounted, [Next]_vars PROVE Goal
    OBVIOUS
<1>0. closes \in [Sessions -> Nat] /\ late \subseteq Sessions
    BY DEF TypeOK
<1>1. ASSUME UNCHANGED <<closes, late>>,
             \A s \in Sessions : sess'[s].pc = sess[s].pc /\ sess'[s].key = sess[s].key
      PROVE  Goal
    BY <1>0, <1>1 DEF ClosesCounted
<1>2. CASE UNCHANGED <<sess, closes, late>>
    BY <1>1, <1>2
<1>3. ASSUME NEW s \in Open, StartClose(s), UNCHANGED late PROVE Goal
    <2>1. s \in Sessions /\ sess[s].pc = "open"
        BY DEF Open
    <2> QED
        BY <1>0, <1>3, <2>1, CloseStarts DEF ClosesCounted
<1>4. ASSUME NEW r \in Reqs, NEW s \in Sessions, Post(r, s) PROVE Goal
    <2> DEFINE n == sess[s].active + 1
    <2>1. /\ s \in InMap /\ UNCHANGED <<closes, late>>
          /\ sess' = [sess EXCEPT ![s].active = n]
        BY <1>4 DEF Post, Owned, Open, InMap
    <2>2. sess' \in [Sessions -> {Unborn} \cup SessionRecord]
        BY <1>4, PostCounts
    <2>3. \A t \in Sessions : sess'[t].pc = sess[t].pc /\ sess'[t].key = sess[t].key
        BY <2>1 DEF TypeOK
    <2> QED
        BY <1>1, <2>1, <2>3
<1>5. ASSUME NEW r \in Reqs, NEW s \in Sessions, Delete(r, s) PROVE Goal
    BY <1>3, <1>5 DEF Delete, Owned
<1>6. ASSUME NEW r \in Reqs, Connected(r) PROVE Goal
    <2>1. /\ UNCHANGED <<token, closes>> /\ req[r].key \in Keys
          /\ late' = late \/ \E t \in Sessions : late' = late \cup {t}
        BY <1>6, RequestTypes DEF Connected, tokenVars
    <2> QED
        BY <1>0, <1>6, <2>1, ConnectCounts DEF ClosesCounted
<1>7. ASSUME NEW r \in Reqs, Answered(r) PROVE Goal
    BY <1>1, <1>7, AnswerCounts DEF Answered
<1>8. ASSUME NEW l \in Loops, LoopNext(l) PROVE Goal
    BY <1>2, <1>3, <1>8 DEF LoopNext, MayClose
<1>9. ASSUME NEW s \in Sessions, CloseEnds(s) PROVE Goal
    <2>1. UNCHANGED <<closes, late>>
        BY <1>9 DEF CloseEnds
    <2> QED
        BY <1>0, <1>9, <2>1, CloseEndCounts DEF ClosesCounted
<1> HIDE DEF Goal
<1> QED
    BY <1>2, <1>4, <1>5, <1>6, <1>7, <1>8, <1>9
    DEF Next, RequestNext, Settles, TokenNext, SessionNext, LifeNext, vars, sessionVars,
        Arrive, Stateless, Refuse, Get, Initialize, ConnectFails,
        GoStale, Sweep, SignIn, EndToken, CleanupAgain, CleanupPool, CleanupEnds, DrainNext, Signal, ShutSessions,
        ShutTokens, ShutServer, ServerClosed, Finish, Deadline

-----------------------------------------------------------------------------
(* Loops, tokens and the steps of shutdown *)

LoopRecord == [todo: SUBSET Sessions, cur: Sessions \cup {None}]

\* A loop that gets sessions to close
LEMMA LoopStarts ==
    ASSUME TypeOK, NEW l \in Loops, NEW S \in SUBSET Sessions,
           loop' = [loop EXCEPT ![l].todo = S]
    PROVE  /\ loop' \in [Loops -> LoopRecord]
           /\ \A m \in Loops : m # l => loop'[m] = loop[m]
           /\ loop'[l].todo = S
<1>1. loop \in [Loops -> LoopRecord] /\ loop[l] \in LoopRecord
    BY DEF TypeOK, LoopRecord
<1> DEFINE x == [loop[l] EXCEPT !.todo = S]
<1>2. loop' = [loop EXCEPT ![l] = x]
    OBVIOUS
<1>3. x \in LoopRecord /\ x.todo = S
    BY <1>1 DEF LoopRecord
<1> HIDE DEF x
<1> QED
    BY <1>1, <1>2, <1>3

\* One turn of a loop takes a session that is not open afterwards
LEMMA LoopTurns ==
    ASSUME TypeOK, NEW l \in Loops, LoopNext(l)
    PROVE  /\ loop' \in [Loops -> LoopRecord]
           /\ \A m \in Loops : m # l => loop'[m] = loop[m]
           /\ loop'[l].todo \subseteq loop[l].todo
           /\ \A s \in loop[l].todo : sess'[s].pc = "open" => s \in loop'[l].todo
<1>1. loop \in [Loops -> LoopRecord] /\ loop[l] \in LoopRecord
    BY DEF TypeOK, LoopRecord
<1>2. PICK s \in loop[l].todo :
         IF MayClose(s)
         THEN /\ StartClose(s)
              /\ loop' = [loop EXCEPT ![l] = [todo |-> @.todo \ {s}, cur |-> s]]
         ELSE /\ loop' = [loop EXCEPT ![l].todo = @ \ {s}]
              /\ UNCHANGED <<sess, closes>>
    BY DEF LoopNext
<1>3. s \in Sessions
    BY <1>1, <1>2 DEF LoopRecord
<1>4. sess'[s].pc # "open"
    BY <1>2, <1>3, CloseStarts DEF MayClose, Open
<1>5. /\ loop' \in [Loops -> LoopRecord]
      /\ \A m \in Loops : m # l => loop'[m] = loop[m]
      /\ loop'[l].todo = loop[l].todo \ {s}
    <2>1. CASE MayClose(s)
        <3> DEFINE x == [todo |-> loop[l].todo \ {s}, cur |-> s]
        <3>1. loop' = [loop EXCEPT ![l] = x]
            BY <1>2, <2>1
        <3>2. x \in LoopRecord /\ x.todo = loop[l].todo \ {s}
            BY <1>1, <1>3 DEF LoopRecord
        <3> HIDE DEF x
        <3> QED
            BY <1>1, <3>1, <3>2
    <2>2. CASE ~MayClose(s)
        <3> DEFINE S == loop[l].todo \ {s}
        <3>1. loop' = [loop EXCEPT ![l].todo = S]
            BY <1>2, <2>2
        <3>2. S \in SUBSET Sessions
            BY <1>1 DEF LoopRecord
        <3> HIDE DEF S
        <3>3. /\ loop' \in [Loops -> LoopRecord]
              /\ \A m \in Loops : m # l => loop'[m] = loop[m]
              /\ loop'[l].todo = S
            BY <3>1, <3>2, LoopStarts
        <3> QED
            BY <3>3 DEF S
    <2> QED
        BY <2>1, <2>2
<1> QED
    BY <1>4, <1>5

LEMMA LoopsReleased ==
    ASSUME TypeOK, NEW s \in Sessions, CloseEnds(s)
    PROVE  /\ loop' \in [Loops -> LoopRecord]
           /\ \A l \in Loops : loop'[l].todo = loop[l].todo
<1>1. \A l \in Loops : /\ loop[l] \in LoopRecord
                       /\ [loop[l] EXCEPT !.cur = None] \in LoopRecord
                       /\ [loop[l] EXCEPT !.cur = None].todo = loop[l].todo
    BY DEF TypeOK, LoopRecord
<1> QED
    BY <1>1 DEF CloseEnds

TokenStates == {"none", "held", "draining", "sessions", "overtaken", "pool", "done"}

\* The callback of a token returns when the caller has another one, or takes
\* the sessions the caller has
LEMMA CleanupStarts ==
    ASSUME TypeOK, NEW t \in Tokens, StartCleanup(t)
    PROVE  /\ loop' \in [Loops -> LoopRecord]
           /\ \A m \in Loops : m # t => loop'[m] = loop[m]
           /\ token' \in [Tokens -> TokenStates]
           /\ \A u \in Tokens : u # t => token'[u] = token[u]
           /\ \/ /\ HasGrant(t) /\ token'[t] = "done" /\ loop' = loop
                 /\ \E u \in Tokens : u # t /\ token[u] = "held" /\ KeyOf[u] = KeyOf[t]
              \/ /\ ~HasGrant(t) /\ token'[t] = "sessions" /\ loop'[t].todo = OfKey(KeyOf[t])
                 /\ \A u \in Tokens : u # t /\ token[u] = "held" => KeyOf[u] # KeyOf[t]
<1>0. /\ t \in Loops /\ token \in [Tokens -> TokenStates]
      /\ loop \in [Loops -> LoopRecord]
    BY DEF Loops, TypeOK, TokenStates, LoopRecord
<1>1. CASE HasGrant(t)
    <2>1. loop' = loop /\ token' = [token EXCEPT ![t] = "done"]
        BY <1>1 DEF StartCleanup
    <2>2. \E u \in Tokens : u # t /\ token[u] = "held" /\ KeyOf[u] = KeyOf[t]
        BY <1>1 DEF HasGrant, TokensIn
    <2> QED
        BY <1>0, <1>1, <2>1, <2>2 DEF TokenStates
<1>2. CASE ~HasGrant(t)
    <2>1. PICK S \in SUBSET Sessions : S = OfKey(KeyOf[t])
        BY DEF OfKey, InMap
    <2>2. loop' = [loop EXCEPT ![t].todo = S] /\ token' = [token EXCEPT ![t] = "sessions"]
        BY <1>2, <2>1 DEF StartCleanup
    <2>3. \A u \in Tokens : u # t /\ token[u] = "held" => KeyOf[u] # KeyOf[t]
        BY <1>2 DEF HasGrant, TokensIn
    <2>4. /\ loop' \in [Loops -> LoopRecord]
          /\ \A m \in Loops : m # t => loop'[m] = loop[m]
          /\ loop'[t].todo = S
        BY <1>0, <2>2, LoopStarts
    <2> QED
        BY <1>0, <1>2, <2>1, <2>2, <2>3, <2>4 DEF TokenStates
<1> QED
    BY <1>1, <1>2

\* A loop keeps the sessions it has to close while they are open, and a callback
\* that starts again takes those that it still had
LEMMA LoopStep ==
    TypeOK /\ [Next]_vars
    => /\ loop' \in [Loops -> LoopRecord]
       /\ \A t \in Tokens : \A s \in loop[t].todo :
             sess[s].pc = "open" /\ sess[s].key = KeyOf[t] /\ sess'[s].pc = "open"
             => s \in loop'[t].todo
<1> DEFINE Goal ==
          /\ loop' \in [Loops -> LoopRecord]
          /\ \A t \in Tokens : \A s \in loop[t].todo :
                sess[s].pc = "open" /\ sess[s].key = KeyOf[t] /\ sess'[s].pc = "open"
                => s \in loop'[t].todo
<1> SUFFICES ASSUME TypeOK, [Next]_vars PROVE Goal
    OBVIOUS
<1>0. /\ loop \in [Loops -> LoopRecord] /\ Tokens \subseteq Loops
      /\ \A t \in Tokens : t # "sweep" /\ t # "shutdown" /\ loop[t].todo \subseteq Sessions
      /\ "sweep" \in Loops /\ "shutdown" \in Loops
    BY LoopAssumption DEF TypeOK, LoopRecord, Loops
<1>1. CASE UNCHANGED loop
    BY <1>0, <1>1
<1>2. ASSUME NEW l \in Loops, LoopNext(l) PROVE Goal
    BY <1>0, <1>2, LoopTurns
<1>3. ASSUME NEW s \in Sessions, CloseEnds(s) PROVE Goal
    BY <1>0, <1>3, LoopsReleased
<1>4. CASE Sweep
    <2>1. StaleSessions \in SUBSET Sessions
        BY DEF StaleSessions, Open
    <2> QED
        BY <1>0, <1>4, <2>1, LoopStarts DEF Sweep
<1>5. CASE ShutSessions
    <2>1. InMap \in SUBSET Sessions
        BY DEF InMap
    <2> QED
        BY <1>0, <1>5, <2>1, LoopStarts DEF ShutSessions
<1>6. ASSUME NEW t \in Tokens, EndToken(t) \/ CleanupAgain(t) \/ DrainNext(t) PROVE Goal
    <2>1. StartCleanup(t)
        BY <1>6 DEF EndToken, CleanupAgain, DrainNext
    <2>2. \A s \in Sessions : sess[s].pc = "open" /\ sess[s].key = KeyOf[t] => s \in OfKey(KeyOf[t])
        BY DEF OfKey, InMap
    <2> QED
        BY <1>0, <2>1, <2>2, CleanupStarts
<1> HIDE DEF Goal
<1> QED
    BY <1>1, <1>2, <1>3, <1>4, <1>5, <1>6
    DEF Next, RequestNext, Settles, TokenNext, SessionNext, LifeNext, vars, sessionVars,
        Arrive, Stateless, Refuse, Get, Post, Delete, Initialize, Connected, ConnectFails,
        Answered, GoStale, SignIn, CleanupPool, CleanupEnds, Signal, ShutTokens, ShutServer,
        ServerClosed, Finish, Deadline

\* What a sign-in does to the tokens
LEMMA TokenIssued ==
    ASSUME TypeOK, NEW t \in Tokens, SignIn(t)
    PROVE  /\ token' \in [Tokens -> TokenStates]
           /\ token'[t] = "held"
           /\ \A u \in Tokens : u # t =>
                 \/ token'[u] = token[u] /\ (token[u] = "sessions" => KeyOf[u] # KeyOf[t])
                 \/ token[u] = "sessions" /\ token'[u] = "overtaken"
BY DEF SignIn, TypeOK, TokenStates

\* A caller keeps a token, or the callback of the last one takes the sessions
\* there are then; and a callback asks for other tokens before it goes on
LEMMA TokenStep ==
    TypeOK /\ CleanupsPlaced /\ [Next]_vars
    => /\ token' \in [Tokens -> TokenStates] /\ turn' \in Tokens \cup {None}
       /\ \A t \in Tokens : token[t] \in {"held", "draining"} =>
             \/ \E u \in Tokens : token'[u] \in {"held", "draining"} /\ KeyOf[u] = KeyOf[t]
             \/ OfKey(KeyOf[t]) \subseteq loop'[t].todo
       /\ CleanupsPlaced'
<1> DEFINE Goal ==
          /\ token' \in [Tokens -> TokenStates] /\ turn' \in Tokens \cup {None}
          /\ \A t \in Tokens : token[t] \in {"held", "draining"} =>
                \/ \E u \in Tokens : token'[u] \in {"held", "draining"} /\ KeyOf[u] = KeyOf[t]
                \/ OfKey(KeyOf[t]) \subseteq loop'[t].todo
          /\ CleanupsPlaced'
<1> SUFFICES ASSUME TypeOK, CleanupsPlaced, [Next]_vars PROVE Goal
    OBVIOUS
<1>0. /\ token \in [Tokens -> TokenStates] /\ turn \in Tokens \cup {None}
      /\ \A t, u \in Tokens : token[t] = "sessions" /\ token[u] = "held" => KeyOf[u] # KeyOf[t]
    BY DEF TypeOK, TokenStates, CleanupsPlaced
<1>1. CASE UNCHANGED tokenVars
    BY <1>0, <1>1 DEF tokenVars, CleanupsPlaced
<1>2. ASSUME NEW t \in Tokens, SignIn(t) PROVE Goal
    <2>1. turn' = turn
        BY <1>2 DEF SignIn
    <2> QED
        BY <1>0, <1>2, <2>1, TokenIssued DEF CleanupsPlaced
<1>3. ASSUME NEW t \in Tokens, EndToken(t) \/ CleanupAgain(t) \/ DrainNext(t) PROVE Goal
    <2>1. StartCleanup(t) /\ turn' \in Tokens \cup {None}
        BY <1>0, <1>3 DEF EndToken, CleanupAgain, DrainNext
    <2>2. \A u, v \in Tokens : token'[u] = "sessions" /\ token'[v] = "held" => KeyOf[v] # KeyOf[u]
        BY <1>0, <2>1, CleanupStarts
    <2> QED
        BY <1>0, <2>1, <2>2, CleanupStarts DEF CleanupsPlaced
<1>4. ASSUME NEW t \in Tokens, CleanupPool(t) \/ CleanupEnds(t) PROVE Goal
    <2>1. /\ token' \in [Tokens -> TokenStates] /\ turn' \in Tokens \cup {None}
          /\ \A u \in Tokens : u # t => token'[u] = token[u]
          /\ token[t] \notin {"held", "draining"} /\ token'[t] \in {"pool", "done"}
        BY <1>0, <1>4 DEF CleanupPool, CleanupEnds, TokenStates
    <2> QED
        BY <1>0, <2>1 DEF CleanupsPlaced
<1>5. CASE ShutTokens
    <2>1. /\ token' \in [Tokens -> TokenStates] /\ turn' = turn
          /\ \A u \in Tokens : token'[u] = IF token[u] = "held" THEN "draining" ELSE token[u]
        BY <1>0, <1>5 DEF ShutTokens, TokenStates
    <2> QED
        BY <1>0, <2>1 DEF CleanupsPlaced
<1> HIDE DEF Goal
<1> QED
    BY <1>1, <1>2, <1>3, <1>4, <1>5
    DEF Next, RequestNext, Settles, TokenNext, SessionNext, LifeNext, vars, sessionVars,
        tokenVars, Arrive, Stateless, Refuse, Get, Post, Delete, Initialize, Connected,
        ConnectFails, Answered, LoopNext, CloseEnds, Sweep, GoStale, Signal, ShutSessions,
        ShutServer, ServerClosed, Finish, Deadline

\* A server that has closed has no requests, and gets none
LEMMA StaysQuiet ==
    ASSUME TypeOK, down = "closed", Quiet, [Next]_vars
    PROVE  Quiet'
<1> USE DEF Quiet, Idle
<1>1. CASE UNCHANGED req
    BY <1>1
<1>2. ASSUME NEW r \in Reqs, RequestNext(r) PROVE FALSE
    BY <1>2 DEF RequestNext, Settles, Arrive, Stateless, Refuse, Get, Post, Delete,
                Initialize, Connected, ConnectFails, Answered
<1>3. ASSUME NEW s \in Sessions, CloseEnds(s) PROVE Quiet'
    <2>1. \A r \in Reqs : req'[r] = req[r] \/ req'[r] = Idle
        BY <1>3 DEF CloseEnds
    <2> QED
        BY <2>1
<1> QED
    BY <1>1, <1>2, <1>3
    DEF Next, TokenNext, SessionNext, LifeNext, vars, sessionVars, LoopNext, GoStale, Sweep,
        SignIn, EndToken, CleanupAgain, CleanupPool, CleanupEnds, DrainNext, Signal, ShutSessions, ShutTokens,
        ShutServer, ServerClosed, Finish, Deadline

LEMMA ShutdownStep ==
    TypeOK /\ ShutdownPlaced /\ [Next]_vars
    => /\ ShutdownPlaced'
       /\ down' \in {"up", "handler", "sessions", "tokens", "server", "closed"}
       /\ exit' \in {None, 0, 1}
<1> DEFINE Goal ==
          /\ ShutdownPlaced'
          /\ down' \in {"up", "handler", "sessions", "tokens", "server", "closed"}
          /\ exit' \in {None, 0, 1}
<1> SUFFICES ASSUME TypeOK, ShutdownPlaced, [Next]_vars PROVE Goal
    OBVIOUS
<1>0. /\ down \in {"up", "handler", "sessions", "tokens", "server", "closed"}
      /\ exit \in {None, 0, 1}
      /\ down = "closed" => Quiet'
    BY StaysQuiet DEF TypeOK, ShutdownPlaced
<1>1. CASE UNCHANGED <<token, lifeVars>>
    BY <1>0, <1>1 DEF ShutdownPlaced, lifeVars, TokensIn
<1>2. ASSUME NEW t \in Tokens, TokenNext(t) PROVE Goal
    <2>1. UNCHANGED lifeVars
        BY <1>2 DEF TokenNext, SignIn, EndToken, CleanupAgain, CleanupPool, CleanupEnds,
                    DrainNext, lifeVars
    <2>2. \A u \in Tokens : token'[u] = "draining" => token[u] = "draining"
        <3>1. CASE SignIn(t)
            BY <3>1, TokenIssued
        <3>2. CASE EndToken(t) \/ CleanupAgain(t) \/ DrainNext(t)
            BY <3>2, CleanupStarts DEF EndToken, CleanupAgain, DrainNext
        <3>3. CASE CleanupPool(t) \/ CleanupEnds(t)
            BY <3>3 DEF CleanupPool, CleanupEnds, TypeOK
        <3> QED
            BY <1>2, <3>1, <3>2, <3>3 DEF TokenNext
    <2> QED
        BY <1>0, <2>1, <2>2 DEF ShutdownPlaced, lifeVars, TokensIn
<1>3. CASE Signal \/ ShutSessions
    BY <1>0, <1>3 DEF ShutdownPlaced, tokenVars, Signal, ShutSessions
<1>4. CASE ShutTokens \/ ShutServer
    BY <1>0, <1>4 DEF ShutdownPlaced, tokenVars, ShutTokens, ShutServer, TokensIn
<1>5. CASE ServerClosed
    <2>1. Quiet'
        BY <1>5 DEF ServerClosed, Quiet
    <2> QED
        BY <1>0, <1>5, <2>1 DEF ShutdownPlaced, tokenVars, ServerClosed, TokensIn
<1>6. CASE Finish \/ Deadline
    <2>1. exit' = 0 => down = "closed"
        BY <1>6 DEF Finish, Deadline
    <2> QED
        BY <1>0, <1>6, <2>1 DEF ShutdownPlaced, tokenVars, Finish, Deadline, TokensIn
<1> HIDE DEF Goal
<1> QED
    BY <1>1, <1>2, <1>3, <1>4, <1>5, <1>6
    DEF Next, RequestNext, Settles, TokenNext, SessionNext, LifeNext, vars, sessionVars,
        tokenVars, lifeVars, Arrive, Stateless, Refuse, Get, Post, Delete, Initialize,
        Connected, ConnectFails, Answered, LoopNext, CloseEnds, Sweep, GoStale

-----------------------------------------------------------------------------
(* The pools of callers *)

\* Pools that are registered have a caller with a token, or an initialize
LEMMA PoolsRegistered ==
    TypeOK /\ [Next]_vars
    => /\ pooled' \subseteq Keys /\ taken' \subseteq Keys
       /\ \A k \in pooled' : \/ k \in pooled
                             \/ \E t \in Tokens : token'[t] = "held" /\ KeyOf[t] = k
                             \/ \E r \in Reqs : req'[r].pc = "connecting" /\ req'[r].key = k
<1> DEFINE Goal ==
          /\ pooled' \subseteq Keys /\ taken' \subseteq Keys
          /\ \A k \in pooled' : \/ k \in pooled
                                \/ \E t \in Tokens : token'[t] = "held" /\ KeyOf[t] = k
                                \/ \E r \in Reqs : req'[r].pc = "connecting" /\ req'[r].key = k
<1> SUFFICES ASSUME TypeOK, [Next]_vars PROVE Goal
    OBVIOUS
<1>0. /\ pooled \subseteq Keys /\ taken \subseteq Keys /\ HeldKeys \subseteq Keys
      /\ \A t \in Tokens : KeyOf[t] \in Keys
    BY TokensAssumption DEF TypeOK, HeldKeys, KeysOf, TokensIn
<1>1. ASSUME pooled' \subseteq pooled, taken' \subseteq taken \cup HeldKeys PROVE Goal
    BY <1>0, <1>1
<1>2. ASSUME NEW r \in Reqs, Stateless(r) PROVE Goal
    <2>1. CASE token[req[r].tok] = "held"
        <3>1. req[r].tok \in Tokens /\ token' = token
            BY <1>2, RequestTypes DEF Stateless, tokenVars
        <3>2. pooled' = pooled \cup {KeyOf[req[r].tok]} /\ taken' \subseteq taken
            BY <1>2, <2>1 DEF Stateless, RegisterPool
        <3> QED
            BY <1>0, <2>1, <3>1, <3>2
    <2>2. CASE token[req[r].tok] # "held"
        BY <1>1, <1>2, <2>2 DEF Stateless, poolVars
    <2> QED
        BY <2>1, <2>2
<1>3. ASSUME NEW r \in Reqs, Initialize(r) PROVE Goal
    <2>1. /\ req'[r].pc = "connecting" /\ req'[r].key = req[r].key /\ req[r].key \in Keys
          /\ pooled' = pooled \cup {req[r].key} /\ taken' = taken \ {req[r].key}
        BY <1>3, RequestGoes, RequestTypes DEF Initialize, RegisterPool
    <2> QED
        BY <1>0, <2>1
<1>4. ASSUME NEW t \in Tokens, SignIn(t) PROVE Goal
    <2>1. /\ pooled' = pooled \cup {KeyOf[t]} \/ pooled' = pooled
          /\ taken' \subseteq taken
        BY <1>4 DEF SignIn, RegisterPool, poolVars
    <2> QED
        BY <1>0, <1>4, <2>1, TokenIssued
<1>5. ASSUME NEW t \in Tokens, CleanupPool(t) PROVE Goal
    <2>1. pooled' \subseteq pooled /\ taken' \subseteq taken \cup HeldKeys
        BY <1>5 DEF CleanupPool, DropPool
    <2> QED
        BY <1>1, <2>1
<1> HIDE DEF Goal
<1> QED
    BY <1>1, <1>2, <1>3, <1>4, <1>5
    DEF Next, RequestNext, Settles, TokenNext, SessionNext, LifeNext, vars, poolVars,
        Arrive, Refuse, Get, Post, Delete, Connected, ConnectFails, DropPool, Answered,
        LoopNext, CloseEnds, Sweep, GoStale, EndToken, CleanupAgain, CleanupEnds, DrainNext,
        Signal, ShutSessions, ShutTokens, ShutServer, ServerClosed, Finish, Deadline

\* Whoever has a token keeps the pools, or a failed initialize took them, or a
\* callback that was overtaken by a sign-in
LEMMA TokensPooled ==
    ASSUME TypeOK, CleanupsPlaced, [Next]_vars,
           down \notin {"server", "closed"} => HeldKeys \subseteq pooled \cup taken
    PROVE  down' \notin {"server", "closed"} => HeldKeys' \subseteq pooled' \cup taken'
<1> DEFINE Goal == down' \notin {"server", "closed"} =>
                       \A t \in Tokens : token'[t] = "held" => KeyOf[t] \in pooled' \cup taken'
<1> SUFFICES Goal
    BY DEF HeldKeys, KeysOf, TokensIn
<1>0. /\ down \notin {"server", "closed"} =>
             \A t \in Tokens : token[t] = "held" => KeyOf[t] \in pooled \cup taken
      /\ token \in [Tokens -> TokenStates]
    BY DEF HeldKeys, KeysOf, TokensIn, TypeOK, TokenStates
<1>1. ASSUME UNCHANGED <<token, pooled, taken>>,
             down' = down \/ down' \in {"server", "closed"} \/ down \notin {"server", "closed"}
      PROVE  Goal
    BY <1>0, <1>1
<1>2. ASSUME NEW r \in Reqs, Stateless(r) \/ Initialize(r) PROVE Goal
    <2>1. /\ token' = token /\ down' = down
          /\ UNCHANGED <<pooled, taken>> \/ \E k : RegisterPool(k)
        BY <1>2 DEF Stateless, Initialize, tokenVars, lifeVars, poolVars
    <2> QED
        BY <1>0, <2>1 DEF RegisterPool
<1>3. ASSUME NEW r \in Reqs, ConnectFails(r) PROVE Goal
    <2>1. /\ token' = token /\ down' = down
          /\ pooled' = pooled \ {req[r].key} /\ taken' = taken \cup ({req[r].key} \cap HeldKeys)
        BY <1>3 DEF ConnectFails, DropPool, tokenVars, lifeVars
    <2> QED
        BY <1>0, <2>1 DEF HeldKeys, KeysOf, TokensIn
<1>4. ASSUME NEW t \in Tokens, SignIn(t) PROVE Goal
    <2>1. /\ down' = down
          /\ RegisterPool(KeyOf[t]) \/ down = "server"
        BY <1>4 DEF SignIn, lifeVars
    <2>2. token'[t] = "held" /\ \A u \in Tokens : u # t /\ token'[u] = "held" => token[u] = "held"
        BY <1>4, TokenIssued
    <2> QED
        BY <1>0, <2>1, <2>2 DEF RegisterPool
<1>5. ASSUME NEW t \in Tokens, EndToken(t) PROVE Goal
    <2>1. /\ StartCleanup(t) /\ UNCHANGED <<down, pooled>>
          /\ taken' = IF HasGrant(t) THEN taken ELSE taken \ {KeyOf[t]}
        BY <1>5 DEF EndToken, lifeVars
    <2> QED
        BY <1>0, <2>1, CleanupStarts
<1>6. ASSUME NEW t \in Tokens, CleanupAgain(t) \/ DrainNext(t) PROVE Goal
    <2>1. StartCleanup(t) /\ UNCHANGED <<down, pooled, taken>>
        BY <1>6 DEF CleanupAgain, DrainNext, lifeVars, poolVars
    <2> QED
        BY <1>0, <2>1, CleanupStarts
<1>7. ASSUME NEW t \in Tokens, CleanupPool(t) PROVE Goal
    <2>1. /\ down' = down /\ pooled' = pooled \ {KeyOf[t]}
          /\ token' = [token EXCEPT ![t] = "pool"]
          /\ \/ token[t] = "sessions" /\ taken' = taken
             \/ token[t] = "overtaken" /\ taken' = taken \cup ({KeyOf[t]} \cap HeldKeys)
        BY <1>7 DEF CleanupPool, DropPool, lifeVars
    <2>2. \A u \in Tokens : token'[u] = "held" => u # t /\ token[u] = "held"
        BY <1>0, <2>1
    <2>3. \A u \in Tokens : token[u] = "held" => KeyOf[u] \in HeldKeys
        BY DEF HeldKeys, KeysOf, TokensIn
    <2>4. CASE token[t] = "sessions"
        <3>1. \A u \in Tokens : token[u] = "held" => KeyOf[u] # KeyOf[t]
            BY <2>4 DEF CleanupsPlaced
        <3> QED
            BY <1>0, <2>1, <2>2, <2>4, <3>1
    <2>5. CASE token[t] = "overtaken"
        BY <1>0, <2>1, <2>2, <2>3, <2>5
    <2> QED
        BY <2>1, <2>4, <2>5
<1>8. ASSUME NEW t \in Tokens, CleanupEnds(t) PROVE Goal
    BY <1>0, <1>8 DEF CleanupEnds, lifeVars, poolVars
<1>9. CASE ShutTokens
    BY <1>0, <1>9 DEF ShutTokens
<1>10. CASE ShutServer
    BY <1>10 DEF ShutServer
<1> HIDE DEF Goal
<1> QED
    BY <1>1, <1>2, <1>3, <1>4, <1>5, <1>6, <1>7, <1>8, <1>9, <1>10
    DEF Next, RequestNext, Settles, TokenNext, SessionNext, LifeNext, vars, sessionVars,
        poolVars, tokenVars, lifeVars, Arrive, Refuse, Get, Post, Delete, Connected, Answered, LoopNext,
        CloseEnds, Sweep, GoStale, Signal, ShutSessions, ServerClosed, Finish, Deadline

\* Tokens of a caller that explain why it has pools
Covering == {"held", "draining", "sessions", "overtaken"}

\* They stay until the callback closes the pools
LEMMA CoverKept ==
    ASSUME TypeOK, [Next]_vars, NEW t \in Tokens, token[t] \in Covering, KeyOf[t] \in pooled'
    PROVE  \E u \in Tokens : token'[u] \in Covering /\ KeyOf[u] = KeyOf[t]
<1> USE DEF Covering
<1> DEFINE Goal == \E u \in Tokens : token'[u] \in Covering /\ KeyOf[u] = KeyOf[t]
<1>1. CASE UNCHANGED token
    BY <1>1
<1>2. ASSUME NEW u \in Tokens, SignIn(u) PROVE Goal
    BY <1>2, TokenIssued
<1>3. ASSUME NEW u \in Tokens, EndToken(u) \/ CleanupAgain(u) \/ DrainNext(u) PROVE Goal
    BY <1>3, CleanupStarts DEF EndToken, CleanupAgain, DrainNext
<1>4. ASSUME NEW u \in Tokens, CleanupPool(u) \/ CleanupEnds(u) PROVE Goal
    <2>1. u # t
        BY <1>4 DEF CleanupPool, CleanupEnds, DropPool
    <2> QED
        BY <1>4, <2>1 DEF CleanupPool, CleanupEnds, TypeOK
<1>5. CASE ShutTokens
    BY <1>5 DEF ShutTokens
<1>6. CASE UNCHANGED vars
    BY <1>1, <1>6 DEF vars, tokenVars
<1>7. ASSUME NEW r \in Reqs, RequestNext(r) PROVE Goal
    <2>1. UNCHANGED token
        BY <1>7 DEF RequestNext, Settles, tokenVars, Arrive, Stateless, Refuse, Get, Post,
                    Delete, Initialize, Connected, ConnectFails, Answered
    <2> QED
        BY <1>1, <2>1
<1>8. ASSUME NEW u \in Tokens, TokenNext(u) PROVE Goal
    BY <1>2, <1>3, <1>4, <1>8 DEF TokenNext
<1>9. CASE SessionNext
    BY <1>1, <1>9 DEF SessionNext, tokenVars, LoopNext, CloseEnds, Sweep, GoStale
<1>10. CASE LifeNext
    BY <1>1, <1>5, <1>10 DEF LifeNext, tokenVars, Signal, ShutSessions, ShutServer,
                             ServerClosed, Finish, Deadline
<1> QED
    <2>1. Next \/ UNCHANGED vars
        OBVIOUS
    <2> QED
        BY <1>6, <1>7, <1>8, <1>9, <1>10, <2>1, Zenon DEF Next

\* An initialize goes on until it is connected or fails
LEMMA InitializeGoesOn ==
    ASSUME TypeOK, [Next]_vars, NEW r \in Reqs, req[r].pc = "connecting",
           req'[r] # req[r]
    PROVE  Connected(r) \/ ConnectFails(r)
<1>1. ASSUME NEW q \in Reqs, Arrive(q) PROVE FALSE
    BY <1>1, RequestArrives DEF Arrive, Idle
<1>2. ASSUME NEW q \in Reqs, Stateless(q) \/ Refuse(q) \/ Initialize(q) PROVE FALSE
    BY <1>2, RequestEnds, RequestGoes DEF Stateless, Refuse, Initialize
<1>3. ASSUME NEW q \in Reqs, NEW s \in Sessions, Get(q, s) \/ Post(q, s) \/ Delete(q, s)
      PROVE  FALSE
    BY <1>3, RequestGoes DEF Get, Post, Delete
<1>4. ASSUME NEW q \in Reqs, Connected(q) \/ ConnectFails(q) PROVE q = r
    BY <1>4, RequestEnds, RequestConnects DEF Connected, ConnectFails
<1>5. ASSUME NEW q \in Reqs, Answered(q) PROVE FALSE
    BY <1>5, RequestEnds DEF Answered
<1>6. ASSUME NEW s \in Sessions, CloseEnds(s) PROVE FALSE
    BY <1>6 DEF CloseEnds, TypeOK
<1> QED
    BY <1>1, <1>2, <1>3, <1>4, <1>5, <1>6
    DEF Next, RequestNext, Settles, TokenNext, SessionNext, LifeNext, vars, LoopNext, Sweep,
        GoStale, SignIn, EndToken, CleanupAgain, CleanupPool, CleanupEnds, DrainNext, Signal, ShutSessions,
        ShutTokens, ShutServer, ServerClosed, Finish, Deadline

-----------------------------------------------------------------------------
(* The steps of the invariant *)

LEMMA SeatsKnown ==
    ASSUME TypeOK, [Next]_vars, NEW r \in Reqs, req'[r].sid # None, req'[r].sid # req[r].sid
    PROVE  req'[r].sid \in Open
<1>1. CASE UNCHANGED req
    BY <1>1
<1>2. ASSUME NEW q \in Reqs, Arrive(q) PROVE req'[r].sid \in Open
    BY <1>2, RequestArrives
<1>3. ASSUME NEW q \in Reqs, Stateless(q) \/ Refuse(q) \/ Initialize(q) \/ Connected(q)
                             \/ ConnectFails(q) \/ Answered(q)
      PROVE  req'[r].sid \in Open
    BY <1>3, RequestEnds, RequestGoes, RequestConnects
    DEF Stateless, Refuse, Initialize, Connected, ConnectFails, Answered, Idle
<1>4. ASSUME NEW q \in Reqs, NEW s \in Sessions, Get(q, s) \/ Post(q, s) \/ Delete(q, s)
      PROVE  req'[r].sid \in Open
    BY <1>4, RequestGoes DEF Get, Post, Delete, Owned
<1>5. ASSUME NEW s \in Sessions, CloseEnds(s) PROVE req'[r].sid \in Open
    BY <1>5 DEF CloseEnds, TypeOK, Idle
<1> QED
    BY <1>1, <1>2, <1>3, <1>4, <1>5
    DEF Next, RequestNext, Settles, TokenNext, SessionNext, LifeNext, vars, LoopNext, Sweep,
        GoStale, SignIn, EndToken, CleanupAgain, CleanupPool, CleanupEnds, DrainNext, Signal, ShutSessions,
        ShutTokens, ShutServer, ServerClosed, Finish, Deadline

LEMMA StaleStep == TypeOK /\ [Next]_vars => stale' \subseteq Sessions
BY DEF TypeOK, Open, Next, RequestNext, Settles, TokenNext, SessionNext, LifeNext, vars,
       sessionVars, Arrive, Stateless, Refuse, Get, Post, Delete, Initialize, Connected,
       ConnectFails, Answered, LoopNext, CloseEnds, Sweep, GoStale, SignIn, EndToken,
       CleanupAgain, CleanupPool, CleanupEnds, DrainNext, Signal, ShutSessions, ShutTokens, ShutServer, ServerClosed,
       Finish, Deadline

LEMMA PoolStep ==
    IInv /\ [Next]_vars => PoolsFollowTokens'
<1> SUFFICES ASSUME IInv, [Next]_vars PROVE PoolsFollowTokens'
    OBVIOUS
<1>0. /\ TypeOK /\ ActiveExact /\ PoolsFollowTokens /\ SessionsKnown /\ ClosesCounted
      /\ CleanupsPlaced /\ ShutdownPlaced
    BY DEF IInv
<1>1. down' \notin {"server", "closed"} => HeldKeys' \subseteq pooled' \cup taken'
    <2>1. down \notin {"server", "closed"} => HeldKeys \subseteq pooled \cup taken
        BY <1>0 DEF PoolsFollowTokens
    <2> QED
        BY <1>0, <2>1, TokensPooled
<1>2. ASSUME NEW s \in late PROVE s \in late' /\ sess'[s].key = sess[s].key
    BY <1>0, SessionStep DEF SessionsKnown, TypeOK
<1> DEFINE Covered(k) == \E t \in Tokens : token[t] \in Covering /\ KeyOf[t] = k
<1>3. ASSUME NEW k \in pooled'
      PROVE  \/ Covered(k)'
             \/ \E r \in Reqs : req'[r].pc = "connecting" /\ req'[r].key = k
             \/ \E s \in late' : sess'[s].key = k
    <2>1. CASE Covered(k)
        BY <1>0, <1>3, <2>1, CoverKept
    <2>2. ASSUME NEW r \in Reqs, req[r].pc = "connecting", req[r].key = k
          PROVE  \/ Covered(k)'
                 \/ \E q \in Reqs : req'[q].pc = "connecting" /\ req'[q].key = k
                 \/ \E s \in late' : sess'[s].key = k
        <3>1. CASE req'[r] = req[r]
            BY <2>2, <3>1
        <3>2. CASE Connected(r)
            <4>1. token' = token
                BY <3>2 DEF Connected, tokenVars
            <4>2. CASE k \in HeldKeys
                BY <4>1, <4>2 DEF HeldKeys, KeysOf, TokensIn, Covering
            <4>3. CASE k \notin HeldKeys
                BY <1>0, <2>2, <3>2, <4>3, ConnectCounts
            <4> QED
                BY <4>2, <4>3
        <3>3. CASE ConnectFails(r)
            BY <1>3, <2>2, <3>3 DEF ConnectFails, DropPool
        <3> QED
            BY <1>0, <2>2, <3>1, <3>2, <3>3, InitializeGoesOn
    <2>3. ASSUME NEW s \in late, sess[s].key = k PROVE \E t \in late' : sess'[t].key = k
        BY <1>2, <2>3
    <2>4. CASE k \in pooled
        <3>1. \/ Covered(k)
              \/ \E r \in Reqs : req[r].pc = "connecting" /\ req[r].key = k
              \/ \E s \in late : sess[s].key = k
            BY <1>0, <2>4 DEF PoolsFollowTokens, KeysOf, TokensIn, Covering
        <3> QED
            BY <2>1, <2>2, <2>3, <3>1
    <2>5. CASE \E t \in Tokens : token'[t] = "held" /\ KeyOf[t] = k
        BY <2>5 DEF Covering
    <2> QED
        BY <1>0, <1>3, <2>4, <2>5, PoolsRegistered
<1> QED
    BY <1>1, <1>3 DEF PoolsFollowTokens, KeysOf, TokensIn, Covering

LEMMA OpenStep ==
    IInv /\ [Next]_vars => CleanupClosesSessions'
<1> DEFINE Accounted(s) ==
          \/ s \in late
          \/ \E t \in Tokens : token[t] \in {"held", "draining"} /\ KeyOf[t] = sess[s].key
          \/ \E t \in Tokens : KeyOf[t] = sess[s].key /\ s \in loop[t].todo
<1> SUFFICES ASSUME IInv, [Next]_vars, NEW s \in Open' PROVE Accounted(s)'
    BY DEF CleanupClosesSessions, KeysOf, TokensIn
<1>0. /\ TypeOK /\ ActiveExact /\ SessionsKnown /\ ClosesCounted /\ CleanupsPlaced
      /\ s \in Sessions /\ sess'[s].pc = "open"
    BY DEF IInv, Open
<1>1. CASE sess[s].pc = "open"
    <2>1. sess'[s].key = sess[s].key
        BY <1>0, <1>1, SessionStep
    <2>2. ASSUME NEW t \in Tokens, token[t] \in {"held", "draining"}, KeyOf[t] = sess[s].key
          PROVE  Accounted(s)'
        <3>1. s \in OfKey(KeyOf[t])
            BY <1>0, <1>1, <2>2 DEF OfKey, InMap
        <3> QED
            BY <1>0, <2>1, <2>2, <3>1, TokenStep
    <2>3. ASSUME NEW t \in Tokens, KeyOf[t] = sess[s].key, s \in loop[t].todo
          PROVE  Accounted(s)'
        BY <1>0, <1>1, <2>1, <2>3, LoopStep
    <2>4. CASE s \in late
        BY <1>0, <2>4, SessionStep
    <2>5. Accounted(s)
        BY <1>0, <1>1 DEF IInv, CleanupClosesSessions, KeysOf, TokensIn, Open
    <2> QED
        BY <2>2, <2>3, <2>4, <2>5
<1>2. CASE sess[s].pc # "open"
    <2>1. CASE s \in late'
        BY <2>1
    <2>2. CASE sess'[s].key \in HeldKeys /\ UNCHANGED token
        BY <2>2 DEF HeldKeys, KeysOf, TokensIn
    <2> QED
        BY <1>0, <1>2, <2>1, <2>2, SessionStep
<1> QED
    BY <1>1, <1>2

LEMMA IInvInit == Init => IInv
<1> SUFFICES ASSUME Init PROVE IInv
    OBVIOUS
<1>1. TypeOK
    BY DEF Init, TypeOK, Idle, Unborn, Done, Loops
<1>2. InMap = {} /\ Open = {}
    BY DEF Init, InMap, Open, Unborn
<1>3. ActiveExact /\ CleanupClosesSessions
    BY <1>2 DEF ActiveExact, CleanupClosesSessions
<1>4. PoolsFollowTokens
    BY DEF Init, PoolsFollowTokens, HeldKeys, KeysOf, TokensIn
<1>5. ClosesCounted /\ CleanupsPlaced
    BY DEF Init, ClosesCounted, CleanupsPlaced
<1>6. ShutdownPlaced
    BY NoneAssumption DEF Init, ShutdownPlaced
<1>7. SessionsKnown
    BY DEF Init, SessionsKnown, Idle
<1> QED
    BY <1>1, <1>3, <1>4, <1>5, <1>6, <1>7 DEF IInv

LEMMA IInvStep == IInv /\ [Next]_vars => IInv'
<1> SUFFICES ASSUME IInv, [Next]_vars PROVE IInv'
    OBVIOUS
<1>0. /\ TypeOK /\ ActiveExact /\ PoolsFollowTokens /\ SessionsKnown /\ ClosesCounted
      /\ CleanupsPlaced /\ ShutdownPlaced
    BY DEF IInv
<1>1. /\ ActiveExact' /\ ClosesCounted' /\ ShutdownPlaced' /\ PoolsFollowTokens'
      /\ CleanupClosesSessions'
    BY <1>0, CountStep, SessionStep, ShutdownStep, PoolStep, OpenStep
<1>2. TypeOK'
    <2>1. sess' \in [Sessions -> {Unborn} \cup SessionRecord] /\ req' \in [Reqs -> RequestRecord]
        BY <1>0, CountStep
    <2>2. late' \subseteq Sessions /\ closes' \in [Sessions -> Nat] /\ stale' \subseteq Sessions
        BY <1>0, SessionStep, StaleStep
    <2>3. token' \in [Tokens -> TokenStates] /\ turn' \in Tokens \cup {None}
        BY <1>0, TokenStep
    <2>4. /\ down' \in {"up", "handler", "sessions", "tokens", "server", "closed"}
          /\ exit' \in {None, 0, 1}
        BY <1>0, ShutdownStep
    <2>5. pooled' \subseteq Keys /\ taken' \subseteq Keys /\ loop' \in [Loops -> LoopRecord]
        BY <1>0, PoolsRegistered, LoopStep
    <2> QED
        BY <2>1, <2>2, <2>3, <2>4, <2>5
        DEF TypeOK, SessionRecord, RequestRecord, Probing, Roaming, Seated, LoopRecord, TokenStates
<1>3. CleanupsPlaced'
    BY <1>0, TokenStep
<1>4. SessionsKnown'
    <2>1. ASSUME NEW r \in Reqs, req'[r].sid # None
          PROVE  sess'[req'[r].sid].pc # "free"
        <3>1. PICK s \in Sessions : s = req'[r].sid
            BY <1>2, <2>1 DEF TypeOK, Idle
        <3>2. sess[s].pc # "free"
            BY <1>0, <2>1, <3>1, SeatsKnown DEF SessionsKnown, Open
        <3> QED
            BY <1>0, <3>1, <3>2, SessionStep
    <2>2. ASSUME NEW s \in late' PROVE sess'[s].pc # "free"
        BY <1>0, SessionStep DEF SessionsKnown, TypeOK
    <2> QED
        BY <2>1, <2>2 DEF SessionsKnown
<1> QED
    BY <1>1, <1>2, <1>3, <1>4 DEF IInv

\* Every reachable state satisfies the inductive invariant
THEOREM Invariance == Spec => []IInv
BY IInvInit, IInvStep, PTL DEF Spec

-----------------------------------------------------------------------------
\* The number a session keeps of its requests in flight is exact, while it is
\* open and while it closes, and closeSession closes it at most once, whether
\* a DELETE, the stale sweep, the end of its token or shutdown wants it.
THEOREM RequestsCounted == Spec => []SessionsAccounted
<1>1. IInv => SessionsAccounted
    BY DEF IInv, SessionsAccounted, ClosesCounted, ClosedOnce
<1> QED
    BY <1>1, Invariance, PTL

\* Every open session belongs to a caller with a token, or a callback of the
\* caller has yet to come to it, or its initialize came too late for that:
\* whichever of the caller's tokens end, overlap and are issued again.
THEOREM CleanupIsComplete == Spec => []CleanupClosesSessions
<1>1. IInv => CleanupClosesSessions
    BY DEF IInv
<1> QED
    BY <1>1, Invariance, PTL

\* Until shutdown closes all pools, whoever has a token has pools, unless a
\* failed initialize took them or a callback that a sign-in overtook; and pools
\* outlive the tokens only as far as a callback or an initialize that was let
\* in before explains.
THEOREM PoolsAreTheTokens == Spec => []PoolsFollowTokens
<1>1. IInv => PoolsFollowTokens
    BY DEF IInv
<1> QED
    BY <1>1, Invariance, PTL

\* A process that exits with 0 has answered every request and closed every
\* session but the late ones, those a callback of their caller was closing, and
\* those of a token issued after TokenManager.shutdown.
THEOREM CleanExitHolds == Spec => []CleanExit
<1>1. ASSUME IInv PROVE CleanExit
    <2>1. SUFFICES ASSUME exit = 0
                   PROVE  /\ \A r \in Reqs : req[r] = Idle
                          /\ \A s \in Open :
                                \/ s \in late
                                \/ sess[s].key \in HeldKeys
                                \/ \E t \in Tokens : KeyOf[t] = sess[s].key /\ s \in loop[t].todo
        BY DEF CleanExit
    <2>2. Quiet /\ \A t \in Tokens : token[t] # "draining"
        BY <1>1, <2>1 DEF IInv, ShutdownPlaced, TokensIn
    <2>3. KeysOf(TokensIn({"held", "draining"})) \subseteq HeldKeys
        BY <2>2 DEF HeldKeys, KeysOf, TokensIn
    <2> QED
        BY <1>1, <2>2, <2>3 DEF IInv, CleanupClosesSessions, Quiet
<1> QED
    BY <1>1, Invariance, PTL

=============================================================================
