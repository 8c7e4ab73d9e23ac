---------------------------- MODULE JobPoolProofs -----------------------------
(***************************************************************************)
(* TLAPS proofs about the Mapepire job pool.                               *)
(***************************************************************************)
EXTENDS JobPool, FiniteSetTheorems, SequenceTheorems, TLAPS

-----------------------------------------------------------------------------
(* The inductive invariant.  That a job of the pool runs nothing its caller  *)
(* gave up rests on where requests are: on the job of their call's slot,     *)
(* which is up, once the call has sent them; and a call may give its slot    *)
(* back with the request still there only when the cancel has worked.        *)

Waiting == {"q-wait", "c-wait"}

RequestsPlaced ==
    /\ \A s \in Slots : job[s] # "up" => queue[s] = <<>>
    /\ \A s \in Slots, c \in Calls :
          c \in ToSet(queue[s]) => on[c] = s /\ pc[c] \notin Waiting \cup {"idle"}

CancelsPlaced ==
    \A c \in Calls : /\ cancel[c] # "no" => on[c] # None
                     /\ pc[c] = "q-grace" => cancel[c] = "worked"

IInv == JobsAccounted /\ RequestsPlaced /\ CancelsPlaced

-----------------------------------------------------------------------------
(* Queues *)

LEMMA QueueContents ==
    ASSUME NEW q \in Seq(Calls)
    PROVE  /\ ToSet(q) \subseteq Calls
           /\ ToSet(<<>>) = {}
           /\ q # <<>> => /\ Tail(q) \in Seq(Calls)
                          /\ ToSet(Tail(q)) \subseteq ToSet(q)
                          /\ Head(q) \in ToSet(q)
           /\ \A c \in Calls : /\ Append(q, c) \in Seq(Calls)
                               /\ ToSet(Append(q, c)) = ToSet(q) \cup {c}
<1>1. ToSet(q) \subseteq Calls /\ ToSet(<<>>) = {}
    BY DEF ToSet
<1>2. ASSUME q # <<>>
      PROVE  /\ Tail(q) \in Seq(Calls)
             /\ ToSet(Tail(q)) \subseteq ToSet(q)
             /\ Head(q) \in ToSet(q)
    BY <1>2 DEF ToSet
<1>3. ASSUME NEW c \in Calls
      PROVE  Append(q, c) \in Seq(Calls) /\ ToSet(Append(q, c)) = ToSet(q) \cup {c}
    <2>1. \A i \in 1..Len(q) : Append(q, c)[i] = q[i]
        OBVIOUS
    <2>2. Append(q, c)[Len(q) + 1] = c /\ Len(Append(q, c)) = Len(q) + 1
        OBVIOUS
    <2>3. Append(q, c) \in Seq(Calls)
        OBVIOUS
    <2> QED
        BY <2>1, <2>2, <2>3 DEF ToSet
<1> QED
    BY <1>1, <1>2, <1>3

-----------------------------------------------------------------------------
(* Counting the calls of a slot *)

Holders(s) == {c \in Calls : pc[c] \in Holding /\ on[c] = s}

LEMMA CallsCounted ==
    ASSUME NEW C \in SUBSET Calls
    PROVE  /\ IsFiniteSet(C)
           /\ Cardinality(C) \in 0..Cardinality(Calls)
           /\ Cardinality(Calls) \in Nat
BY CallsAssumption, FS_CardinalityType, FS_Subset

LEMMA HoldersCounted ==
    ASSUME NEW s \in Slots
    PROVE  /\ IsFiniteSet(Holders(s))
           /\ Cardinality(Holders(s)) \in 0..Cardinality(Calls)
           /\ Cardinality(Calls) \in Nat
BY CallsCounted DEF Holders

\* A call that stays where it is, or moves between the places where calls have
\* a slot, or between those where they have none, changes no count
LEMMA CountKept ==
    ASSUME ActiveExact, UNCHANGED <<on, active>>,
           \A c \in Calls : pc'[c] \in Holding <=> pc[c] \in Holding
    PROVE  ActiveExact'
<1>1. \A s \in Slots : Holders(s)' = Holders(s)
    BY DEF Holders
<1> QED
    BY <1>1 DEF ActiveExact, Holders

LEMMA CountUp ==
    ASSUME TypeOK, ActiveExact, NEW c \in Calls, NEW s \in Slots, NEW where \in Waiting,
           pc[c] = "idle", TakeSlot(c, s, where)
    PROVE  ActiveExact' /\ active' \in [Slots -> Int]
<1>1. /\ \A d \in Calls : pc'[d] = IF d = c THEN where ELSE pc[d]
      /\ \A d \in Calls : on'[d] = IF d = c THEN s ELSE on[d]
      /\ \A r \in Slots : active'[r] = IF r = s THEN active[s] + 1 ELSE active[r]
    BY DEF TakeSlot, TypeOK
<1>2. pc[c] \notin Holding /\ where \in Holding
    BY DEF Holding, Waiting
<1>3. Holders(s)' = Holders(s) \cup {c} /\ c \notin Holders(s)
    BY <1>1, <1>2 DEF Holders
<1>4. \A r \in Slots : r # s => Holders(r)' = Holders(r)
    BY <1>1, <1>2 DEF Holders
<1>5. Cardinality(Holders(s)') = Cardinality(Holders(s)) + 1
    BY <1>3, HoldersCounted, FS_AddElement
<1>6. \A r \in Slots : active'[r] = Cardinality(Holders(r)')
    BY <1>1, <1>4, <1>5 DEF ActiveExact, Holders
<1>7. active' \in [Slots -> Int]
    BY HoldersCounted DEF TakeSlot, TypeOK
<1> QED
    BY <1>6, <1>7 DEF ActiveExact, Holders

LEMMA CountDown ==
    ASSUME TypeOK, ActiveExact, NEW c \in Calls, pc[c] \in Holding, Release(c),
           UNCHANGED on
    PROVE  ActiveExact' /\ active' \in [Slots -> Int] /\ on[c] \in Slots
<1>0. on[c] \in Slots
    BY DEF TypeOK
<1>1. /\ \A d \in Calls : pc'[d] = IF d = c THEN "done" ELSE pc[d]
      /\ \A r \in Slots : active'[r] = IF r = on[c] THEN active[r] - 1 ELSE active[r]
    BY <1>0 DEF Release, TypeOK
<1>2. "done" \notin Holding
    BY DEF Holding
<1>3. Holders(on[c])' = Holders(on[c]) \ {c} /\ c \in Holders(on[c])
    BY <1>1, <1>2 DEF Holders
<1>4. \A r \in Slots : r # on[c] => Holders(r)' = Holders(r)
    BY <1>1, <1>2 DEF Holders
<1>5. Cardinality(Holders(on[c])') = Cardinality(Holders(on[c])) - 1
    BY <1>0, <1>3, HoldersCounted, FS_RemoveElement
<1>6. \A r \in Slots : active'[r] = Cardinality(Holders(r)')
    BY <1>0, <1>1, <1>4, <1>5 DEF ActiveExact, Holders
<1>7. active' \in [Slots -> Int]
    BY <1>0, HoldersCounted DEF Release, TypeOK
<1> QED
    BY <1>0, <1>6, <1>7 DEF ActiveExact, Holders

\* A slot's count is the number of calls that have it, after every step
LEMMA ActiveStep ==
    TypeOK /\ ActiveExact /\ [Next]_vars
    => ActiveExact' /\ active' \in [Slots -> 0..Cardinality(Calls)]
<1> SUFFICES ASSUME TypeOK, ActiveExact, [Next]_vars
             PROVE  ActiveExact' /\ active' \in [Slots -> Int]
    <2>1. ASSUME ActiveExact', active' \in [Slots -> Int]
          PROVE  active' \in [Slots -> 0..Cardinality(Calls)]
        <3>1. \A s \in Slots : active'[s] \in 0..Cardinality(Calls)
            BY <2>1, CallsCounted DEF ActiveExact
        <3> QED
            BY <2>1, <3>1
    <2> QED
        BY <2>1
<1>0. active \in [Slots -> Int]
    BY HoldersCounted DEF TypeOK
<1>1. CASE UNCHANGED <<pc, on, active>>
    BY <1>0, <1>1, CountKept
<1>2. ASSUME NEW c \in Calls, NEW s \in Slots, Query(c, s) \/ OpenCursor(c, s)
      PROVE  ActiveExact' /\ active' \in [Slots -> Int]
    BY <1>2, CountUp DEF Query, OpenCursor, Waiting
<1>3. ASSUME NEW c \in Calls, pc[c] \in Holding, Keep(c) \/ Drop(c), UNCHANGED on
      PROVE  ActiveExact' /\ active' \in [Slots -> Int]
    BY <1>3, CountDown DEF Keep, Drop
<1>4. ASSUME NEW c \in Calls, NEW x, pc' = [pc EXCEPT ![c] = x],
             x \in Holding <=> pc[c] \in Holding, UNCHANGED <<on, active>>
      PROVE  ActiveExact' /\ active' \in [Slots -> Int]
    <2>1. \A d \in Calls : pc'[d] \in Holding <=> pc[d] \in Holding
        BY <1>4 DEF TypeOK
    <2> QED
        BY <1>0, <1>4, <2>1, CountKept
<1> USE DEF Holding
<1>5. ASSUME NEW c \in Calls, Refuse(c) PROVE ActiveExact' /\ active' \in [Slots -> Int]
    BY <1>4, <1>5 DEF Refuse
<1>6. ASSUME NEW c \in Calls, NoJob(c) \/ Return(c) \/ Fail(c) \/ CancelFails(c)
                              \/ GraceEnds(c) \/ OpenAborted(c) \/ CursorClosed(c)
      PROVE  ActiveExact' /\ active' \in [Slots -> Int]
    BY <1>3, <1>6 DEF NoJob, Return, Fail, CancelFails, GraceEnds, OpenAborted, CursorClosed
<1>7. ASSUME NEW c \in Calls, Send(c) PROVE ActiveExact' /\ active' \in [Slots -> Int]
    BY <1>4, <1>7 DEF Send
<1>8. ASSUME NEW c \in Calls, QueryTimeout(c) \/ CancelWorks(c) \/ Batch(c) \/ NextBatch(c)
      PROVE  ActiveExact' /\ active' \in [Slots -> Int]
    BY <1>4, <1>8 DEF QueryTimeout, CancelWorks, Batch, NextBatch
<1>9. ASSUME NEW c \in Calls, CloseCursor(c) PROVE ActiveExact' /\ active' \in [Slots -> Int]
    BY <1>3, <1>4, <1>9 DEF CloseCursor
<1> QED
    BY <1>1, <1>2, <1>5, <1>6, <1>7, <1>8, <1>9
    DEF Next, vars, StartOk, StartFails, Answer, FetchMore, JobDies, TransportDies, Sweep,
        Close, FetchTimeout, Abort, AbortWorks, AbortFails

-----------------------------------------------------------------------------
(* Where requests are *)

Started(c) == pc[c] \notin Waiting \cup {"idle"}
Sending(c) == Started(c) /\ pc[c] # "done"

\* Jobs that end, and what is left on the others
LEMMA EndedJobs ==
    ASSUME TypeOK, NEW S, Ended(S)
    PROVE  /\ \A s \in Slots : job'[s] = IF s \in S /\ job[s] = "up" THEN "ended" ELSE job[s]
           /\ \A s \in Slots : queue'[s] = IF s \in S THEN <<>> ELSE queue[s]
           /\ job' \in [Slots -> {"none", "starting", "up", "ended", "failed"}]
           /\ queue' \in [Slots -> Seq(Calls)]
BY DEF Ended, TypeOK

\* A call that has begun keeps its slot, and one that has sent a request never
\* waits for its job again
LEMMA CallsGoOn ==
    ASSUME TypeOK, [Next]_vars
    PROVE  /\ \A c \in Calls : pc[c] # "idle" => on'[c] = on[c]
           /\ \A c \in Calls : Started(c) => Started(c)'
<1> USE DEF TypeOK, Started, Waiting
<1>1. CASE UNCHANGED <<pc, on>>
    BY <1>1
<1>2. ASSUME NEW c \in Calls, NEW s \in Slots, Query(c, s) \/ OpenCursor(c, s)
      PROVE  /\ \A d \in Calls : pc[d] # "idle" => on'[d] = on[d]
             /\ \A d \in Calls : Started(d) => Started(d)'
    BY <1>2 DEF Query, OpenCursor, TakeSlot
<1>3. ASSUME NEW c \in Calls, Refuse(c) \/ Keep(c) \/ Drop(c), UNCHANGED on
      PROVE  \A d \in Calls : Started(d) => Started(d)'
    BY <1>3 DEF Refuse, Keep, Drop, Release
<1>4. ASSUME NEW c \in Calls, Send(c) \/ QueryTimeout(c) \/ CancelWorks(c) \/ Batch(c)
                              \/ NextBatch(c)
      PROVE  /\ UNCHANGED on
             /\ \A d \in Calls : Started(d) => Started(d)'
    BY <1>4 DEF Send, QueryTimeout, CancelWorks, Batch, NextBatch
<1>5. ASSUME NEW c \in Calls, CloseCursor(c)
      PROVE  /\ UNCHANGED on
             /\ \A d \in Calls : Started(d) => Started(d)'
    BY <1>3, <1>5 DEF CloseCursor
<1>6. ASSUME NEW c \in Calls, Refuse(c) \/ NoJob(c) \/ Return(c) \/ Fail(c) \/ CancelFails(c)
                              \/ GraceEnds(c) \/ OpenAborted(c) \/ CursorClosed(c)
      PROVE  UNCHANGED on /\ \A d \in Calls : Started(d) => Started(d)'
    BY <1>3, <1>6 DEF Refuse, NoJob, Return, Fail, CancelFails, GraceEnds, OpenAborted,
                      CursorClosed
<1> QED
    BY <1>1, <1>2, <1>4, <1>5, <1>6
    DEF Next, vars, StartOk, StartFails, Answer, FetchMore, JobDies, TransportDies, Sweep,
        Close, FetchTimeout, Abort, AbortWorks, AbortFails

\* A job is sent requests by the calls that have its slot, while it is up, and
\* a job that is not up has none
LEMMA QueueStep ==
    ASSUME TypeOK, RequestsPlaced, CancelsPlaced, [Next]_vars
    PROVE  /\ queue' \in [Slots -> Seq(Calls)]
           /\ \A s \in Slots, c \in Calls : c \in ToSet(queue'[s]) =>
                 \/ c \in ToSet(queue[s])
                 \/ on[c] = s /\ pc[c] # "idle" /\ Sending(c)'
           /\ \A s \in Slots : job'[s] # "up" => queue'[s] = <<>>
<1> DEFINE Sent == \A s \in Slots, c \in Calls : c \in ToSet(queue'[s]) =>
                      \/ c \in ToSet(queue[s])
                      \/ on[c] = s /\ pc[c] # "idle" /\ Sending(c)'
           Settled == \A s \in Slots : job'[s] # "up" => queue'[s] = <<>>
           Typed == queue' \in [Slots -> Seq(Calls)]
           Goal == Typed /\ Sent /\ Settled
<1> SUFFICES Goal
    OBVIOUS
<1>0. /\ queue \in [Slots -> Seq(Calls)]
      /\ \A s \in Slots : queue[s] \in Seq(Calls)
      /\ \A s \in Slots : job[s] # "up" => queue[s] = <<>>
      /\ ToSet(<<>>) = {}
    BY QueueContents DEF TypeOK, RequestsPlaced, ToSet
<1>1. CASE UNCHANGED queue /\ \A s \in Slots : job[s] = "up" => job'[s] = "up"
    BY <1>0, <1>1
<1>2. ASSUME NEW S, Ended(S) PROVE Goal
    BY <1>0, <1>2, EndedJobs
<1>3. ASSUME NEW s \in Slots, queue[s] # <<>>, queue' = [queue EXCEPT ![s] = Tail(@)],
             UNCHANGED job
      PROVE  Goal
    <2>1. Tail(queue[s]) \in Seq(Calls) /\ ToSet(Tail(queue[s])) \subseteq ToSet(queue[s])
        BY <1>0, <1>3, QueueContents
    <2>2. \A r \in Slots : queue'[r] = IF r = s THEN Tail(queue[s]) ELSE queue[r]
        BY <1>0, <1>3
    <2>3. Typed
        BY <1>0, <1>3, <2>1
    <2>4. Sent
        BY <2>1, <2>2
    <2>5. Settled
        BY <1>0, <1>3, <2>2
    <2> QED
        BY <2>3, <2>4, <2>5
<1>4. ASSUME NEW c \in Calls, on[c] \in Slots, pc[c] # "idle", Sending(c)', Usable(on[c]),
             queue' = [queue EXCEPT ![on[c]] = Append(@, c)], UNCHANGED job
      PROVE  Goal
    <2>1. /\ Append(queue[on[c]], c) \in Seq(Calls)
          /\ ToSet(Append(queue[on[c]], c)) = ToSet(queue[on[c]]) \cup {c}
        BY <1>0, <1>4, QueueContents
    <2>2. \A r \in Slots : queue'[r] = IF r = on[c] THEN Append(queue[on[c]], c) ELSE queue[r]
        BY <1>0, <1>4
    <2>3. Typed
        BY <1>0, <1>4, <2>1
    <2>4. Sent
        BY <1>4, <2>1, <2>2
    <2>5. Settled
        BY <1>0, <1>4, <2>2 DEF Usable
    <2> QED
        BY <2>3, <2>4, <2>5
<1>5. ASSUME NEW s \in Slots, StartOk(s) \/ StartFails(s) PROVE Goal
    BY <1>0, <1>1, <1>5 DEF StartOk, StartFails, TypeOK
<1>6. ASSUME NEW s \in Slots, Answer(s) PROVE Goal
    BY <1>3, <1>6 DEF Answer
<1>7. ASSUME NEW s \in Slots, FetchMore(s) PROVE Goal
    <2> DEFINE tail == Tail(queue[s])
               head == Head(queue[s])
    <2>1. queue[s] # <<>> /\ queue' = [queue EXCEPT ![s] = Append(tail, head)] /\ job' = job
        BY <1>7 DEF FetchMore
    <2>2. /\ tail \in Seq(Calls) /\ head \in Calls
          /\ ToSet(tail) \subseteq ToSet(queue[s]) /\ head \in ToSet(queue[s])
        BY <1>0, <2>1, QueueContents
    <2> HIDE DEF tail, head
    <2>3. Append(tail, head) \in Seq(Calls) /\ ToSet(Append(tail, head)) = ToSet(tail) \cup {head}
        BY <2>2, QueueContents
    <2>4. \A r \in Slots : queue'[r] = IF r = s THEN Append(tail, head) ELSE queue[r]
        BY <1>0, <2>1
    <2>5. Typed
        BY <1>0, <2>1, <2>3
    <2>6. Sent
        BY <2>2, <2>3, <2>4
    <2>7. Settled
        BY <1>0, <2>1, <2>4
    <2> QED
        BY <2>5, <2>6, <2>7
<1>8. ASSUME NEW s \in Slots, JobDies(s) PROVE Goal
    BY <1>2, <1>8 DEF JobDies
<1>9. CASE TransportDies
    BY <1>2, <1>9 DEF TransportDies
<1>10. ASSUME NEW S \in SUBSET Slots, Sweep(S) PROVE Goal
    BY <1>2, <1>10 DEF Sweep
<1>11. CASE Close
    BY <1>2, <1>11 DEF Close
<1>12. ASSUME NEW c \in Calls, NEW s \in Slots, Query(c, s) \/ OpenCursor(c, s) PROVE Goal
    <2>1. UNCHANGED queue /\ (TakeSlot(c, s, "q-wait") \/ TakeSlot(c, s, "c-wait"))
        BY <1>12 DEF Query, OpenCursor
    <2>2. s \in slots \/ job[s] = "none"
        BY <1>12 DEF Query, OpenCursor, Pick, Free, Startable, LeastBusy
    <2>3. \A r \in Slots : job[r] = "up" => job'[r] = "up"
        BY <2>1, <2>2 DEF TakeSlot, TypeOK
    <2> QED
        BY <1>1, <1>12, <2>3 DEF Query, OpenCursor
<1>13. ASSUME NEW c \in Calls, NoJob(c) \/ Return(c) \/ GraceEnds(c) \/ CursorClosed(c)
       PROVE  Goal
    BY <1>1, <1>13 DEF NoJob, Return, GraceEnds, CursorClosed, Keep
<1>14. ASSUME NEW c \in Calls, Send(c) PROVE Goal
    <2>1. on[c] \in Slots /\ pc[c] # "idle" /\ Sending(c)'
        BY <1>14 DEF Send, TypeOK, Holding, Sending, Started, Waiting
    <2> QED
        BY <1>1, <1>4, <1>14, <2>1 DEF Send
<1>15. ASSUME NEW c \in Calls, Fail(c) \/ CancelFails(c) PROVE Goal
    BY <1>2, <1>15 DEF Fail, CancelFails, Drop
<1>16. ASSUME NEW c \in Calls, CancelWorks(c) \/ AbortWorks(c) PROVE Goal
    <2>1. on[c] \in Slots /\ CancelSql(c) /\ UNCHANGED job
        BY <1>16 DEF CancelWorks, AbortWorks, CancelSql, CancelsPlaced, TypeOK
    <2> QED
        BY <1>1, <1>3, <2>1 DEF CancelSql
<1>17. ASSUME NEW c \in Calls, NextBatch(c) PROVE Goal
    <2>1. on[c] \in Slots /\ pc[c] # "idle" /\ Sending(c)'
        BY <1>17 DEF NextBatch, TypeOK, Holding, Sending, Started, Waiting
    <2> QED
        BY <1>4, <1>17, <2>1 DEF NextBatch
<1>18. ASSUME NEW c \in Calls, OpenAborted(c) PROVE Goal
    BY <1>1, <1>2, <1>18 DEF OpenAborted, Keep, Drop
<1>19. ASSUME NEW c \in Calls, CloseCursor(c) PROVE Goal
    <2>1. on[c] \in Slots /\ pc[c] # "idle"
        BY <1>19 DEF CloseCursor, TypeOK, Holding
    <2>2. CASE Drop(c) \/ Keep(c)
        BY <1>1, <1>2, <2>2 DEF Keep, Drop
    <2>3. CASE /\ Usable(on[c])
               /\ pc' = [pc EXCEPT ![c] = "c-closing"]
               /\ queue' = [queue EXCEPT ![on[c]] = Append(@, c)]
               /\ UNCHANGED <<slots, job, active>>
        <3>1. Sending(c)'
            BY <2>3 DEF TypeOK, Sending, Started, Waiting
        <3> QED
            BY <1>4, <2>1, <2>3, <3>1
    <2> QED
        BY <1>19, <2>2, <2>3 DEF CloseCursor
<1>20. CASE UNCHANGED <<queue, job>>
    BY <1>1, <1>20
<1> HIDE DEF Goal
<1> QED
    BY <1>5, <1>6, <1>7, <1>8, <1>9, <1>10, <1>11, <1>12, <1>13, <1>14, <1>15, <1>16,
       <1>17, <1>18, <1>19, <1>20
    DEF Next, vars, Refuse, QueryTimeout, Batch, FetchTimeout, Abort, AbortFails

LEMMA RequestsStep ==
    TypeOK /\ RequestsPlaced /\ CancelsPlaced /\ [Next]_vars => RequestsPlaced'
<1> SUFFICES ASSUME TypeOK, RequestsPlaced, CancelsPlaced, [Next]_vars
             PROVE  RequestsPlaced'
    OBVIOUS
<1>1. \A s \in Slots : job'[s] # "up" => queue'[s] = <<>>
    BY QueueStep
<1>2. ASSUME NEW s \in Slots, NEW c \in Calls, c \in ToSet(queue'[s])
      PROVE  on'[c] = s /\ Started(c)'
    <2>1. CASE c \in ToSet(queue[s])
        <3>1. on[c] = s /\ Started(c)
            BY <2>1 DEF RequestsPlaced, Started
        <3> QED
            BY <3>1, CallsGoOn DEF Started
    <2>2. CASE on[c] = s /\ pc[c] # "idle" /\ Sending(c)'
        BY <2>2, CallsGoOn DEF Sending
    <2> QED
        BY <1>2, <2>1, <2>2, QueueStep
<1> QED
    BY <1>1, <1>2 DEF RequestsPlaced, Started

-----------------------------------------------------------------------------
(* Jobs and the pool *)

LEMMA TypeInit == Init => TypeOK
<1>1. Cardinality(Calls) \in Nat
    BY CallsAssumption, FS_CardinalityType
<1>2. ASSUME Init
      PROVE  /\ active \in [Slots -> 0..Cardinality(Calls)]
             /\ queue \in [Slots -> Seq(Calls)]
    BY <1>1, <1>2 DEF Init
<1>3. ASSUME Init
      PROVE  /\ pc \in [Calls -> Holding \cup {"idle", "done"}]
             /\ \A c \in Calls : pc[c] \notin Holding
    BY <1>3 DEF Init, Holding
<1> QED
    BY <1>2, <1>3 DEF Init, TypeOK

\* A job that is up is in the pool, the pool holds jobs that were started, and
\* no more than maxJobs of them
LEMMA PoolStep ==
    TypeOK /\ NoLostJob /\ CapKept /\ [Next]_vars
    => /\ slots' \subseteq {s \in Slots : job'[s] # "none"}
       /\ job' \in [Slots -> {"none", "starting", "up", "ended", "failed"}]
       /\ NoLostJob'
       /\ CapKept'
       /\ \A s \in slots' : s \in slots \/ job[s] = "none"
<1> DEFINE Goal == /\ slots' \subseteq {s \in Slots : job'[s] # "none"}
                   /\ job' \in [Slots -> {"none", "starting", "up", "ended", "failed"}]
                   /\ NoLostJob'
                   /\ CapKept'
                   /\ \A s \in slots' : s \in slots \/ job[s] = "none"
<1> SUFFICES ASSUME TypeOK, NoLostJob, CapKept, [Next]_vars PROVE Goal
    OBVIOUS
<1>0. /\ job \in [Slots -> {"none", "starting", "up", "ended", "failed"}]
      /\ slots \subseteq Slots /\ IsFiniteSet(slots) /\ Cardinality(slots) \in Nat
      /\ \A s \in slots : job[s] # "none"
    BY SlotsAssumption, FS_Subset, FS_CardinalityType DEF TypeOK
<1>1. ASSUME slots' \subseteq slots PROVE CapKept'
    BY <1>0, <1>1, FS_Subset, FS_CardinalityType, MaxJobsAssumption DEF CapKept
<1>2. CASE UNCHANGED <<slots, job>>
    BY <1>0, <1>1, <1>2 DEF NoLostJob
<1>3. ASSUME NEW s \in Slots, StartOk(s) PROVE Goal
    BY <1>0, <1>1, <1>3 DEF StartOk, NoLostJob
<1>4. ASSUME NEW s \in Slots, StartFails(s) PROVE Goal
    BY <1>0, <1>1, <1>4 DEF StartFails, NoLostJob
<1>5. ASSUME NEW S, Ended(S), slots' \subseteq slots, slots \ slots' \subseteq S
      PROVE  Goal
    BY <1>0, <1>1, <1>5, EndedJobs DEF NoLostJob
<1>6. ASSUME NEW s \in Slots, JobDies(s) PROVE Goal
    BY <1>5, <1>6 DEF JobDies
<1>7. CASE TransportDies
    BY <1>0, <1>5, <1>7 DEF TransportDies
<1>8. ASSUME NEW S \in SUBSET Slots, Sweep(S) PROVE Goal
    BY <1>5, <1>8 DEF Sweep
<1>9. CASE Close
    BY <1>5, <1>9 DEF Close
<1>10. ASSUME NEW c \in Calls, NEW s \in Slots, Query(c, s) \/ OpenCursor(c, s) PROVE Goal
    <2>1. s \in slots \/ (job[s] = "none" /\ Cardinality(slots) < MaxJobs)
        BY <1>10 DEF Query, OpenCursor, Pick, Free, Startable, LeastBusy
    <2>2. IF s \in slots THEN UNCHANGED <<slots, job>>
          ELSE slots' = slots \cup {s} /\ job' = [job EXCEPT ![s] = "starting"]
        BY <1>10 DEF Query, OpenCursor, TakeSlot
    <2>3. CASE s \in slots
        BY <1>2, <2>2, <2>3
    <2>4. CASE s \notin slots
        <3>1. Cardinality(slots') = Cardinality(slots) + 1
            BY <1>0, <2>2, <2>4, FS_AddElement
        <3>2. CapKept'
            BY <1>0, <2>1, <2>4, <3>1, MaxJobsAssumption DEF CapKept
        <3> QED
            BY <1>0, <2>1, <2>2, <2>4, <3>2 DEF NoLostJob
    <2> QED
        BY <2>3, <2>4
<1>11. ASSUME NEW c \in Calls, Fail(c) \/ CancelFails(c) PROVE Goal
    BY <1>5, <1>11 DEF Fail, CancelFails, Drop
<1>12. ASSUME NEW c \in Calls, OpenAborted(c) PROVE Goal
    BY <1>2, <1>5, <1>12 DEF OpenAborted, Keep, Drop
<1>13. ASSUME NEW c \in Calls, CloseCursor(c) PROVE Goal
    BY <1>2, <1>5, <1>13 DEF CloseCursor, Keep, Drop
<1> HIDE DEF Goal
<1> QED
    BY <1>2, <1>3, <1>4, <1>6, <1>7, <1>8, <1>9, <1>10, <1>11, <1>12, <1>13
    DEF Next, vars, Answer, FetchMore, Refuse, NoJob, Send, Return, QueryTimeout, CancelWorks,
        CancelSql, GraceEnds, Batch, NextBatch, FetchTimeout, Abort, AbortWorks, AbortFails,
        CursorClosed, Keep

LEMMA CallTypes ==
    TypeOK /\ [Next]_vars
    => /\ closed' \in BOOLEAN
       /\ pc' \in [Calls -> Holding \cup {"idle", "done"}]
       /\ on' \in [Calls -> Slots \cup {None}]
       /\ \A c \in Calls : pc'[c] \in Holding => on'[c] # None
       /\ spoiled' \in [Calls -> BOOLEAN]
       /\ cancel' \in [Calls -> {"no", "sent", "worked", "failed"}]
<1> DEFINE Goal == /\ closed' \in BOOLEAN
                   /\ pc' \in [Calls -> Holding \cup {"idle", "done"}]
                   /\ on' \in [Calls -> Slots \cup {None}]
                   /\ \A c \in Calls : pc'[c] \in Holding => on'[c] # None
                   /\ spoiled' \in [Calls -> BOOLEAN]
                   /\ cancel' \in [Calls -> {"no", "sent", "worked", "failed"}]
<1> SUFFICES ASSUME TypeOK, [Next]_vars PROVE Goal
    OBVIOUS
<1>0. /\ closed \in BOOLEAN
      /\ pc \in [Calls -> Holding \cup {"idle", "done"}]
      /\ on \in [Calls -> Slots \cup {None}]
      /\ \A c \in Calls : pc[c] \in Holding => on[c] # None
      /\ spoiled \in [Calls -> BOOLEAN]
      /\ cancel \in [Calls -> {"no", "sent", "worked", "failed"}]
    BY DEF TypeOK
<1> USE <1>0 DEF Holding
<1>1. CASE UNCHANGED <<pc, on>> /\ UNCHANGED <<spoiled, cancel>> /\ closed' \in BOOLEAN
    BY <1>1
<1>2. ASSUME NEW c \in Calls, NEW s \in Slots, Query(c, s) \/ OpenCursor(c, s) PROVE Goal
    BY <1>2, SlotsAssumption DEF Query, OpenCursor, TakeSlot
<1>3. ASSUME NEW c \in Calls, NEW x, pc' = [pc EXCEPT ![c] = x], UNCHANGED <<closed, on>>,
             x \in Holding \cup {"done"}, x \in Holding => pc[c] \in Holding,
             spoiled' \in [Calls -> BOOLEAN],
             cancel' \in [Calls -> {"no", "sent", "worked", "failed"}]
      PROVE  Goal
    BY <1>3
<1>4. ASSUME NEW c \in Calls, Refuse(c) \/ NoJob(c) \/ Return(c) \/ Fail(c) \/ CancelFails(c)
                              \/ GraceEnds(c) \/ OpenAborted(c) \/ CursorClosed(c)
      PROVE  Goal
    <2>1. pc' = [pc EXCEPT ![c] = "done"] /\ UNCHANGED <<closed, on, spoiled>>
        BY <1>4 DEF Refuse, NoJob, Return, Fail, CancelFails, GraceEnds, OpenAborted,
                    CursorClosed, Keep, Drop, Release
    <2>2. cancel' = cancel \/ cancel' = [cancel EXCEPT ![c] = "failed"]
        BY <1>4 DEF Refuse, NoJob, Return, Fail, CancelFails, GraceEnds, OpenAborted,
                    CursorClosed
    <2> QED
        BY <1>3, <2>1, <2>2
<1>5. ASSUME NEW c \in Calls, Send(c) \/ Batch(c) \/ NextBatch(c) PROVE Goal
    BY <1>3, <1>5 DEF Send, Batch, NextBatch
<1>6. ASSUME NEW c \in Calls, QueryTimeout(c) PROVE Goal
    BY <1>3, <1>6 DEF QueryTimeout
<1>7. ASSUME NEW c \in Calls, CancelWorks(c) PROVE Goal
    BY <1>3, <1>7 DEF CancelWorks, CancelSql
<1>8. ASSUME NEW c \in Calls, CloseCursor(c) PROVE Goal
    BY <1>3, <1>8 DEF CloseCursor, Keep, Drop, Release
<1>9. ASSUME NEW c \in Calls, FetchTimeout(c) \/ Abort(c) \/ AbortWorks(c) \/ AbortFails(c)
      PROVE  Goal
    BY <1>9 DEF FetchTimeout, Abort, AbortWorks, AbortFails, CancelSql
<1>10. CASE Close
    BY <1>1, <1>10 DEF Close
<1> HIDE DEF Goal
<1> QED
    BY <1>1, <1>2, <1>4, <1>5, <1>6, <1>7, <1>8, <1>9, <1>10
    DEF Next, vars, StartOk, StartFails, Answer, FetchMore, JobDies, TransportDies, Sweep

-----------------------------------------------------------------------------
(* Requests whose call is over *)

\* A cancel that has worked stays so, and the grace begins with it
LEMMA CancelStep ==
    TypeOK /\ CancelsPlaced /\ [Next]_vars
    => /\ CancelsPlaced'
       /\ \A c \in Calls : pc[c] \in {"q-grace", "done"} /\ cancel[c] = "worked"
                           => cancel'[c] = "worked"
<1> DEFINE Goal == /\ CancelsPlaced'
                   /\ \A c \in Calls : pc[c] \in {"q-grace", "done"} /\ cancel[c] = "worked"
                                       => cancel'[c] = "worked"
<1> SUFFICES ASSUME TypeOK, CancelsPlaced, [Next]_vars PROVE Goal
    OBVIOUS
<1>0. /\ pc \in [Calls -> Holding \cup {"idle", "done"}]
      /\ on \in [Calls -> Slots \cup {None}]
      /\ \A c \in Calls : pc[c] \in Holding => on[c] # None
      /\ cancel \in [Calls -> {"no", "sent", "worked", "failed"}]
    BY DEF TypeOK
<1> USE <1>0 DEF Holding, CancelsPlaced
<1>1. CASE UNCHANGED <<pc, on, cancel>>
    BY <1>1
<1>2. ASSUME NEW c \in Calls, NEW s \in Slots, Query(c, s) \/ OpenCursor(c, s) PROVE Goal
    BY <1>2, SlotsAssumption DEF Query, OpenCursor, TakeSlot
<1>3. ASSUME NEW c \in Calls, NEW x, pc' = [pc EXCEPT ![c] = x], UNCHANGED <<on, cancel>>,
             x # "q-grace"
      PROVE  Goal
    BY <1>3
<1>4. ASSUME NEW c \in Calls, Refuse(c) \/ NoJob(c) \/ Return(c) \/ Fail(c) \/ GraceEnds(c)
                              \/ OpenAborted(c) \/ CursorClosed(c)
      PROVE  Goal
    <2>1. pc' = [pc EXCEPT ![c] = "done"] /\ UNCHANGED <<on, cancel>>
        BY <1>4 DEF Refuse, NoJob, Return, Fail, GraceEnds, OpenAborted, CursorClosed,
                    Keep, Drop, Release
    <2> QED
        BY <1>3, <2>1
<1>5. ASSUME NEW c \in Calls, Send(c) \/ Batch(c) \/ NextBatch(c) PROVE Goal
    BY <1>3, <1>5 DEF Send, Batch, NextBatch
<1>6. ASSUME NEW c \in Calls, QueryTimeout(c) \/ CancelFails(c) PROVE Goal
    BY <1>6 DEF QueryTimeout, CancelFails, Drop, Release
<1>7. ASSUME NEW c \in Calls, CancelWorks(c) PROVE Goal
    BY <1>7 DEF CancelWorks, CancelSql
<1>8. ASSUME NEW c \in Calls, CloseCursor(c) PROVE Goal
    BY <1>3, <1>8 DEF CloseCursor, Keep, Drop, Release
<1>9. ASSUME NEW c \in Calls, Abort(c) \/ AbortWorks(c) \/ AbortFails(c) PROVE Goal
    BY <1>9 DEF Abort, AbortWorks, AbortFails, CancelSql
<1> HIDE DEF Goal
<1> QED
    BY <1>1, <1>2, <1>4, <1>5, <1>6, <1>7, <1>8, <1>9
    DEF Next, vars, StartOk, StartFails, Answer, FetchMore, JobDies, TransportDies, Sweep,
        Close, FetchTimeout

\* A call ends with its request still on a job of the pool only in its grace
LEMMA EndingCalls ==
    ASSUME TypeOK, RequestsPlaced, [Next]_vars, NEW c \in Calls, pc'[c] = "done",
           pc[c] # "done", on[c] \in slots', on[c] \in Slots, c \in ToSet(queue[on[c]])
    PROVE  pc[c] = "q-grace"
<1>0. /\ pc \in [Calls -> Holding \cup {"idle", "done"}]
      /\ pc[c] \notin Waiting \cup {"idle"}
      /\ Pending(c)
    BY SlotsAssumption DEF TypeOK, RequestsPlaced, Pending
<1> USE <1>0
<1>1. CASE UNCHANGED pc
    BY <1>1
<1>2. ASSUME NEW d \in Calls, NEW x, pc' = [pc EXCEPT ![d] = x], x # "done" PROVE FALSE
    BY <1>2
<1>3. ASSUME NEW d \in Calls, Release(d) PROVE d = c
    BY <1>3 DEF Release
<1>4. ASSUME NEW d \in Calls, Drop(d) PROVE FALSE
    BY <1>3, <1>4 DEF Drop
<1>5. ASSUME NEW d \in Calls, Keep(d), ~Pending(d) \/ pc[d] \in Waiting PROVE FALSE
    BY <1>3, <1>5 DEF Keep
<1>6. ASSUME NEW d \in Calls, NEW s \in Slots, Query(d, s) \/ OpenCursor(d, s) PROVE FALSE
    BY <1>2, <1>6 DEF Query, OpenCursor, TakeSlot
<1>7. ASSUME NEW d \in Calls, Refuse(d) PROVE FALSE
    BY <1>7 DEF Refuse
<1>8. ASSUME NEW d \in Calls, NoJob(d) \/ Return(d) \/ CursorClosed(d) PROVE FALSE
    BY <1>5, <1>8 DEF NoJob, Return, CursorClosed, Waiting
<1>9. ASSUME NEW d \in Calls, OpenAborted(d) PROVE FALSE
    BY <1>4, <1>5, <1>9 DEF OpenAborted, Waiting
<1>10. ASSUME NEW d \in Calls, Fail(d) \/ CancelFails(d) PROVE FALSE
    BY <1>4, <1>10 DEF Fail, CancelFails
<1>11. ASSUME NEW d \in Calls, GraceEnds(d) PROVE pc[c] = "q-grace"
    BY <1>3, <1>11 DEF GraceEnds, Keep
<1>12. ASSUME NEW d \in Calls, CloseCursor(d) PROVE FALSE
    BY <1>2, <1>4, <1>5, <1>12 DEF CloseCursor
<1>13. ASSUME NEW d \in Calls, Send(d) \/ QueryTimeout(d) \/ CancelWorks(d) \/ Batch(d)
                               \/ NextBatch(d)
       PROVE  FALSE
    BY <1>2, <1>13 DEF Send, QueryTimeout, CancelWorks, Batch, NextBatch
<1> QED
    BY <1>1, <1>6, <1>7, <1>8, <1>9, <1>10, <1>11, <1>12, <1>13
    DEF Next, vars, StartOk, StartFails, Answer, FetchMore, JobDies, TransportDies, Sweep,
        Close, FetchTimeout, Abort, AbortWorks, AbortFails

LEMMA NoOrphanStep ==
    TypeOK /\ NoOrphanRequest /\ RequestsPlaced /\ CancelsPlaced /\ NoLostJob /\ CapKept
    /\ [Next]_vars => NoOrphanRequest'
<1> SUFFICES ASSUME TypeOK, NoOrphanRequest, RequestsPlaced, CancelsPlaced, NoLostJob,
                    CapKept, [Next]_vars,
                    NEW s \in slots', NEW c \in Calls, c \in ToSet(queue'[s]), pc'[c] = "done"
             PROVE  cancel'[c] = "worked"
    BY DEF NoOrphanRequest
<1>1. s \in Slots /\ (s \in slots \/ job[s] = "none")
    BY PoolStep
<1>2. c \in ToSet(queue[s])
    BY <1>1, QueueStep DEF Sending
<1>3. on[c] = s /\ s \in slots
    <2>1. queue[s] # <<>>
        BY <1>2 DEF ToSet
    <2> QED
        BY <1>1, <1>2, <2>1 DEF RequestsPlaced
<1>4. CASE pc[c] = "done"
    BY <1>2, <1>3, <1>4, CancelStep DEF NoOrphanRequest
<1>5. CASE pc[c] # "done"
    <2>1. pc[c] = "q-grace"
        BY <1>1, <1>2, <1>3, <1>5, EndingCalls
    <2> QED
        BY <2>1, CancelStep DEF CancelsPlaced
<1> QED
    BY <1>4, <1>5

-----------------------------------------------------------------------------
LEMMA IInvInit == Init => IInv
<1> SUFFICES ASSUME Init PROVE IInv
    OBVIOUS
<1>1. TypeOK
    BY TypeInit
<1>2. NoLostJob /\ CancelsPlaced
    BY DEF Init, NoLostJob, CancelsPlaced
<1>3. ActiveExact
    <2>1. \A s \in Slots : {c \in Calls : pc[c] \in Holding /\ on[c] = s} = {}
        BY DEF Init, Holding
    <2> QED
        BY <2>1, FS_EmptySet DEF Init, ActiveExact
<1>4. CapKept
    BY MaxJobsAssumption, FS_EmptySet DEF Init, CapKept
<1>5. \A s \in Slots : queue[s] = <<>> /\ ToSet(queue[s]) = {}
    BY DEF Init, ToSet
<1>6. NoOrphanRequest /\ RequestsPlaced
    BY <1>1, <1>5 DEF TypeOK, NoOrphanRequest, RequestsPlaced
<1> QED
    BY <1>1, <1>2, <1>3, <1>4, <1>6 DEF IInv, JobsAccounted

LEMMA IInvStep == IInv /\ [Next]_vars => IInv'
<1> SUFFICES ASSUME IInv, [Next]_vars PROVE IInv'
    OBVIOUS
<1>1. /\ TypeOK /\ NoLostJob /\ ActiveExact /\ CapKept /\ NoOrphanRequest
      /\ RequestsPlaced /\ CancelsPlaced
    BY DEF IInv, JobsAccounted
<1>2. TypeOK'
    BY <1>1, CallTypes, PoolStep, ActiveStep, QueueStep DEF TypeOK
<1>3. NoLostJob' /\ CapKept'
    BY <1>1, PoolStep
<1>4. ActiveExact'
    BY <1>1, ActiveStep
<1>5. RequestsPlaced' /\ CancelsPlaced'
    BY <1>1, RequestsStep, CancelStep
<1>6. NoOrphanRequest'
    BY <1>1, NoOrphanStep
<1> QED
    BY <1>2, <1>3, <1>4, <1>5, <1>6 DEF IInv, JobsAccounted

\* Every reachable state satisfies the inductive invariant
THEOREM Invariance == Spec => []IInv
BY IInvInit, IInvStep, PTL DEF Spec

\* However starts, time limits, drops, sweeps and the loss of the connection
\* are ordered, a job that is up is in the pool, each slot's count is exactly
\* the calls that have it, the pool keeps to maxJobs, and a job of the pool
\* runs nothing its caller gave up unless the cancel of it has worked.
THEOREM JobsAreAccounted == Spec => []JobsAccounted
<1>1. IInv => JobsAccounted
    BY DEF IInv
<1> QED
    BY <1>1, Invariance, PTL

-----------------------------------------------------------------------------
(* The refinement of SharedJobs: taking a slot is Get, and every way a call   *)
(* can end is GiveBack or Refuse.  That the idle jobs of the code are those   *)
(* nobody has, and its least busy the one fewest calls have, is ActiveExact.  *)

LEMMA JobTypes ==
    ASSUME TypeOK
    PROVE  /\ slots \subseteq Slots /\ IsFiniteSet(slots) /\ Cardinality(slots) \in Nat
           /\ \A s \in slots : job[s] # "none"
           /\ Gone = {s \in Slots : job[s] # "none" /\ s \notin slots}
           /\ pc \in [Calls -> Holding \cup {"idle", "done"}]
           /\ on \in [Calls -> Slots \cup {None}]
           /\ \A s \in Slots : UsersOf[s] = Holders(s)
BY SlotsAssumption, FS_Subset, FS_CardinalityType DEF TypeOK, Gone, UsersOf, Holders

\* The code's count of a slot is the number of its users
LEMMA UsersCounted ==
    ASSUME IInv, NEW s \in Slots
    PROVE  /\ active[s] = Cardinality(UsersOf[s]) /\ active[s] \in Nat
           /\ active[s] = 0 <=> UsersOf[s] = {}
<1>1. TypeOK /\ active[s] = Cardinality(Holders(s))
    BY DEF IInv, JobsAccounted, ActiveExact, Holders
<1>2. IsFiniteSet(Holders(s)) /\ Cardinality(Holders(s)) \in Nat
    BY HoldersCounted
<1> QED
    BY <1>1, <1>2, JobTypes, FS_EmptySet

SameStarts == \A s \in Slots : job'[s] = "none" <=> job[s] = "none"

LEMMA JobsStutter ==
    ASSUME UNCHANGED <<closed, slots, on>>, SameStarts,
           \A c \in Calls : /\ pc'[c] \in Holding <=> pc[c] \in Holding
                            /\ pc'[c] = "done" <=> pc[c] = "done"
    PROVE  UNCHANGED Jobs!vars
<1>1. Gone' = Gone /\ Over' = Over
    BY DEF SameStarts, Gone, Over
<1>2. UsersOf' = UsersOf
    <2>1. \A s \in Slots : {c \in Calls : pc'[c] \in Holding /\ on'[c] = s}
                            = {c \in Calls : pc[c] \in Holding /\ on[c] = s}
        OBVIOUS
    <2> QED
        BY <2>1 DEF UsersOf
<1> QED
    BY <1>1, <1>2 DEF Jobs!vars

\* Jobs that leave the pool are gone
LEMMA JobsWithdrawn ==
    ASSUME TypeOK, SameStarts, NEW S \in SUBSET slots, slots' = slots \ S
    PROVE  Jobs!Withdraw(S)
BY JobTypes DEF SameStarts, Gone, Jobs!Withdraw

LEMMA SameCalls ==
    ASSUME UNCHANGED <<pc, on>>
    PROVE  UNCHANGED <<UsersOf, Over>>
BY DEF UsersOf, Over

\* Any way to end a call that has a job
LEMMA CallGivesBack ==
    ASSUME TypeOK, NEW c \in Calls, pc[c] \in Holding, Keep(c) \/ Drop(c),
           UNCHANGED <<closed, on>>
    PROVE  Jobs!Next
<1> DEFINE s == on[c]
<1>1. s \in Slots /\ s # None
    BY SlotsAssumption DEF TypeOK
<1>2. pc' = [pc EXCEPT ![c] = "done"] /\ pc' \in [Calls -> Holding \cup {"idle", "done"}]
    BY JobTypes DEF Keep, Drop, Release
<1>3. SameStarts /\ (slots' = slots \/ slots' = slots \ {s})
    BY EndedJobs DEF Keep, Drop, SameStarts
<1>4. PICK S \in SUBSET ({s} \cap slots) : slots' = slots \ S
    <2>1. CASE slots' = slots
        <3>1. {} \in SUBSET ({s} \cap slots) /\ slots' = slots \ {}
            BY <2>1
        <3> QED
            BY <3>1, Zenon
    <2>2. CASE slots' = slots \ {s}
        <3>1. {s} \cap slots \in SUBSET ({s} \cap slots) /\ slots' = slots \ ({s} \cap slots)
            BY <2>2
        <3> QED
            BY <3>1, Zenon
    <2> QED
        BY <1>3, <2>1, <2>2, Zenon
<1>5. Jobs!Withdraw(S)
    BY <1>3, <1>4, JobsWithdrawn
<1>6. c \in UsersOf[s] /\ Over' = Over \cup {c}
    BY <1>1, <1>2, JobTypes DEF Holders, Over
<1>7. UsersOf' = [UsersOf EXCEPT ![s] = UsersOf[s] \ {c}]
    <2>1. \A t \in Slots : {d \in Calls : pc'[d] \in Holding /\ on'[d] = t}
              = IF t = s THEN {d \in Calls : pc[d] \in Holding /\ on[d] = t} \ {c}
                ELSE {d \in Calls : pc[d] \in Holding /\ on[d] = t}
        BY <1>2, JobTypes DEF Holding
    <2>2. UsersOf' = [t \in Slots |-> IF t = s THEN UsersOf[s] \ {c} ELSE UsersOf[t]]
        BY <1>1, <2>1 DEF UsersOf
    <2>3. UsersOf = [t \in Slots |-> UsersOf[t]]
        BY DEF UsersOf
    <2> HIDE DEF s
    <2> QED
        BY <1>1, <2>2, <2>3
<1> HIDE DEF s
<1>8. Jobs!GiveBack(c, s)
    BY <1>4, <1>5, <1>6, <1>7 DEF Jobs!GiveBack
<1> QED
    BY <1>1, <1>8 DEF Jobs!Next

LEMMA SameCardinality == \A S : Jobs!Cardinality(S) = Cardinality(S)
BY Zenon DEF Jobs!Cardinality, Cardinality

\* A call that gets a slot gets a job by the rules
LEMMA CallGets ==
    ASSUME IInv, NEW c \in Calls, NEW s \in Slots, Query(c, s) \/ OpenCursor(c, s)
    PROVE  Jobs!Get(c, s)
<1>0. TypeOK
    BY DEF IInv, JobsAccounted
<1> DEFINE Taken == \/ s \in Free
                    \/ Free = {} /\ Cardinality(slots) < MaxJobs /\ job[s] = "none"
                    \/ Free = {} /\ ~(Cardinality(slots) < MaxJobs) /\ s \in LeastBusy
<1>1. /\ pc[c] = "idle" /\ ~closed /\ UNCHANGED closed /\ Taken
      /\ TakeSlot(c, s, "q-wait") \/ TakeSlot(c, s, "c-wait")
    BY DEF Query, OpenCursor, Pick, Startable
<1>2. PICK w \in Waiting : TakeSlot(c, s, w)
    BY <1>1 DEF Waiting
<1>3. /\ \A d \in Calls : pc'[d] = IF d = c THEN w ELSE pc[d]
      /\ \A d \in Calls : on'[d] = IF d = c THEN s ELSE on[d]
      /\ w \in Holding /\ "idle" \notin Holding /\ w # "done"
    BY <1>0, <1>2, JobTypes DEF TakeSlot, Waiting, Holding
<1>4. UsersOf' = [UsersOf EXCEPT ![s] = UsersOf[s] \cup {c}]
    <2>1. \A t \in Slots : {d \in Calls : pc'[d] \in Holding /\ on'[d] = t}
              = IF t = s THEN {d \in Calls : pc[d] \in Holding /\ on[d] = t} \cup {c}
                ELSE {d \in Calls : pc[d] \in Holding /\ on[d] = t}
        BY <1>1, <1>3
    <2> QED
        BY <2>1 DEF UsersOf
<1>5. Over' = Over /\ c \notin Over /\ \A t \in Slots : c \notin UsersOf[t]
    BY <1>0, <1>1, <1>3, JobTypes DEF Over, Holders
<1>6. /\ \A t \in slots : t \in Free <=> UsersOf[t] = {}
      /\ Free = {} => Jobs!AllBusy
      /\ Free \subseteq slots
    BY <1>0, JobTypes, UsersCounted DEF Free, Jobs!AllBusy
<1>7. Gone' = Gone /\ IF s \in slots THEN slots' = slots ELSE slots' = slots \cup {s}
    <2>1. s \in slots \/ job[s] = "none"
        BY <1>1, <1>6 DEF LeastBusy
    <2>2. CASE s \in slots
        BY <1>2, <2>2 DEF TakeSlot, Gone
    <2>3. CASE s \notin slots
        <3>1. slots' = slots \cup {s} /\ job' = [job EXCEPT ![s] = "starting"]
            BY <1>2, <2>3 DEF TakeSlot
        <3>2. \A t \in Slots : t # s => job'[t] = job[t]
            BY <1>0, <3>1 DEF TypeOK
        <3> QED
            BY <2>1, <2>3, <3>1, <3>2 DEF Gone
    <2> QED
        BY <2>2, <2>3
<1>8. CASE s \in Free
    BY <1>1, <1>4, <1>5, <1>6, <1>7, <1>8 DEF Jobs!Get, Jobs!Waits
<1>9. CASE Free = {} /\ Cardinality(slots) < MaxJobs /\ job[s] = "none"
    <2>1. s \in Slots \ (slots \cup Gone)
        BY <1>0, <1>9, JobTypes
    <2> QED
        BY <1>1, <1>4, <1>5, <1>6, <1>7, <1>9, <2>1, SameCardinality DEF Jobs!Get, Jobs!Waits
<1>10. CASE Free = {} /\ ~(Cardinality(slots) < MaxJobs) /\ s \in LeastBusy
    <2>1. s \in slots /\ Cardinality(slots) >= MaxJobs
        BY <1>0, <1>10, JobTypes, MaxJobsAssumption DEF LeastBusy
    <2>2. \A t \in slots : Cardinality(UsersOf[s]) <= Cardinality(UsersOf[t])
        BY <1>0, <1>10, JobTypes, UsersCounted DEF LeastBusy
    <2> QED
        BY <1>1, <1>4, <1>5, <1>6, <1>7, <1>10, <2>1, <2>2, SameCardinality
        DEF Jobs!Get, Jobs!Waits
<1> QED
    BY <1>1, <1>8, <1>9, <1>10

LEMMA JobsFollow == IInv /\ [Next]_vars => [Jobs!Next]_Jobs!vars
<1> SUFFICES ASSUME IInv, [Next]_vars PROVE [Jobs!Next]_Jobs!vars
    OBVIOUS
<1>0. TypeOK
    BY DEF IInv, JobsAccounted
<1>1. CASE UNCHANGED <<closed, slots, job, pc, on>>
    BY <1>1, JobsStutter DEF SameStarts
<1>2. ASSUME NEW s \in Slots, StartOk(s) \/ JobDies(s) PROVE UNCHANGED Jobs!vars
    <2>1. SameStarts
        BY <1>0, <1>2, EndedJobs DEF StartOk, JobDies, Usable, SameStarts, TypeOK
    <2> QED
        BY <1>2, <2>1, JobsStutter DEF StartOk, JobDies
<1>3. ASSUME NEW s \in Slots, StartFails(s) PROVE [Jobs!Next]_Jobs!vars
    <2>1. /\ SameStarts /\ UNCHANGED <<closed, pc, on>> /\ slots' = slots \ {s}
        BY <1>0, <1>3 DEF StartFails, SameStarts, TypeOK
    <2>2. CASE s \in slots
        <3>1. Jobs!Withdraw({s})
            BY <1>0, <2>1, <2>2, JobsWithdrawn
        <3>2. Jobs!Retire({s})
            BY <2>1, <2>2, <3>1, SameCalls DEF Jobs!Retire
        <3> QED
            BY <3>2 DEF Jobs!Next
    <2>3. CASE s \notin slots
        BY <2>1, <2>3, JobsStutter
    <2> QED
        BY <2>2, <2>3
<1>4. ASSUME NEW S \in SUBSET Slots, Sweep(S) PROVE Jobs!Next
    <2>1. /\ SameStarts /\ UNCHANGED <<closed, pc, on>> /\ slots' = slots \ S
          /\ S \subseteq Free
        BY <1>0, <1>4, EndedJobs DEF Sweep, SameStarts
    <2>2. S \subseteq slots /\ \A s \in S : UsersOf[s] = {}
        BY <1>0, <2>1, JobTypes, UsersCounted DEF Free
    <2>3. Jobs!Withdraw(S)
        BY <1>0, <2>1, <2>2, JobsWithdrawn
    <2>4. Jobs!Retire(S)
        BY <2>1, <2>2, <2>3, SameCalls DEF Jobs!Retire
    <2> QED
        BY <2>4 DEF Jobs!Next
<1>5. CASE TransportDies \/ Close
    <2>1. /\ SameStarts /\ UNCHANGED <<pc, on>> /\ slots' = slots \ slots
          /\ closed' \in {closed, TRUE}
        BY <1>0, <1>5, EndedJobs DEF TransportDies, Close, SameStarts
    <2>2. Jobs!Withdraw(slots)
        BY <1>0, <2>1, JobsWithdrawn
    <2>3. Jobs!LoseAll
        BY <2>1, <2>2, SameCalls DEF Jobs!LoseAll
    <2> QED
        BY <2>3 DEF Jobs!Next
<1>6. ASSUME NEW c \in Calls, NEW s \in Slots, Query(c, s) \/ OpenCursor(c, s) PROVE Jobs!Next
    BY <1>6, CallGets DEF Jobs!Next
<1>7. ASSUME NEW c \in Calls, Refuse(c) PROVE Jobs!Next
    <2>1. /\ UNCHANGED <<closed, slots, job, on>> /\ pc[c] = "idle"
          /\ \A d \in Calls : pc'[d] = IF d = c THEN "done" ELSE pc[d]
        BY <1>0, <1>7, JobTypes DEF Refuse
    <2>2. Over' = Over \cup {c} /\ c \notin Over /\ \A s \in Slots : c \notin UsersOf[s]
        BY <1>0, <2>1, JobTypes DEF Over, Holders, Holding
    <2>3. UsersOf' = UsersOf /\ Gone' = Gone
        <3>1. \A s \in Slots : {d \in Calls : pc'[d] \in Holding /\ on'[d] = s}
                                = {d \in Calls : pc[d] \in Holding /\ on[d] = s}
            BY <2>1 DEF Holding
        <3> QED
            BY <2>1, <3>1 DEF UsersOf, Gone
    <2>4. Jobs!Refuse(c)
        BY <2>1, <2>2, <2>3 DEF Jobs!Refuse, Jobs!Waits
    <2> QED
        BY <2>4 DEF Jobs!Next
<1>8. ASSUME NEW c \in Calls, NEW x, UNCHANGED <<closed, slots, job, on>>,
             pc' = [pc EXCEPT ![c] = x], pc[c] \in Holding, x \in Holding
      PROVE  UNCHANGED Jobs!vars
    <2>1. \A d \in Calls : /\ pc'[d] \in Holding <=> pc[d] \in Holding
                           /\ pc'[d] = "done" <=> pc[d] = "done"
        BY <1>0, <1>8, JobTypes DEF Holding
    <2> QED
        BY <1>8, <2>1, JobsStutter DEF SameStarts
<1>9. ASSUME NEW c \in Calls, Send(c) \/ QueryTimeout(c) \/ CancelWorks(c) \/ Batch(c)
                              \/ NextBatch(c)
      PROVE  UNCHANGED Jobs!vars
    BY <1>8, <1>9 DEF Send, QueryTimeout, CancelWorks, Batch, NextBatch, Holding
<1>10. ASSUME NEW c \in Calls, NoJob(c) \/ Return(c) \/ Fail(c) \/ CancelFails(c)
                               \/ GraceEnds(c) \/ OpenAborted(c) \/ CursorClosed(c)
       PROVE  Jobs!Next
    BY <1>0, <1>10, CallGivesBack
    DEF NoJob, Return, Fail, CancelFails, GraceEnds, OpenAborted, CursorClosed, Holding
<1>11. ASSUME NEW c \in Calls, CloseCursor(c) PROVE [Jobs!Next]_Jobs!vars
    <2>1. pc[c] \in Holding /\ UNCHANGED <<closed, on>>
        BY <1>11 DEF CloseCursor, Holding
    <2>2. CASE Keep(c) \/ Drop(c)
        BY <1>0, <2>1, <2>2, CallGivesBack
    <2>3. CASE pc' = [pc EXCEPT ![c] = "c-closing"] /\ UNCHANGED <<slots, job>>
        BY <1>8, <2>1, <2>3 DEF Holding
    <2> QED
        BY <1>11, <2>2, <2>3 DEF CloseCursor
<1> QED
    BY <1>1, <1>2, <1>3, <1>4, <1>5, <1>6, <1>7, <1>9, <1>10, <1>11
    DEF Next, vars, Answer, FetchMore, FetchTimeout, Abort, AbortWorks, AbortFails

\* The Mapepire pool implements SharedJobs: whatever the order of starts, time
\* limits, cancels, drops, sweeps and the loss of the connection, a call gets an
\* idle job before a new one and shares the least busy only when all are in
\* use, has it until it ends, and no call gets a job that was dropped, retired
\* or lost, or one of a closed pool.
THEOREM PoolImplementsSharedJobs == Spec => ImplementsSharedJobs
<1>1. Init => Jobs!Init
    BY DEF Init, Jobs!Init, Gone, UsersOf, Over, Holding
<1>2. Spec => Jobs!Init /\ [][Jobs!Next]_Jobs!vars
    BY <1>1, Invariance, JobsFollow, PTL DEF Spec
<1> QED
    BY <1>2 DEF ImplementsSharedJobs, Jobs!Spec

=============================================================================
