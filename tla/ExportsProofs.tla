----------------------------- MODULE ExportsProofs -----------------------------
(***************************************************************************)
(* TLAPS proofs about query exports.                                       *)
(***************************************************************************)
EXTENDS Exports, FiniteSetTheorems, TLAPS

-----------------------------------------------------------------------------
(* The inductive invariant.  The limits need the sizes of files under way.   *)
(* The bytes on disk stay bounded because a running export holds MaxBytes of *)
(* reservation and may go over by Overshoot once: when it ends, its place    *)
(* takes the excess along, and the next export begins only when what is      *)
(* stored by then leaves room.  The links need the downloads started to be   *)
(* counted by their requests, and the cursor of an export that is over was   *)
(* closed because, until then, an export whose deadline has not passed holds *)
(* whatever cursor is open.                                                  *)

SizesBelow ==
    \A e \in Ids : /\ pc[e] \in {"idle", "opening", "checking", "reading"} => size[e] < MaxBytes
                   /\ pc[e] = "closing" => size[e] <= MaxBytes + BatchBytes - 1

\* The registered files of exports that have given their reservation back
Settled == {e \in entries : pc[e] = "done"}

RoomAccounted ==
    Ready => Bytes(Settled, size) + MaxBytes * running
               <= DirMaxBytes + (MaxConcurrent - running) * Overshoot

LinksCounted ==
    /\ \A e \in entries : pc[e] \in {"finished", "done"} /\ downloads[e] < MaxDownloads
    /\ \A e \in Ids : /\ downloads[e] = Cardinality({d \in Readers : reader[d].id = e})
                      /\ downloads[e] > 0 => pc[e] \in {"finished", "done"}

\* No file of a link is about to go: what is being deleted is of exports that
\* are over, and a request that deletes its file has taken the link away
LinksHaveFiles ==
    /\ entries \subseteq final \ unlinking
    /\ \A e \in unlinking : pc[e] \in {"finished", "done"}
    /\ \A d \in Readers : reader[d].last => reader[d].id \notin entries

CursorsHeld ==
    \A e \in Ids : e \notin aborted =>
        /\ pc[e] = "idle" => cursor[e] = "none"
        /\ cursor[e] = "opening" <=> pc[e] = "opening"
        /\ cursor[e] = "open" => e \in held /\ pc[e] \notin {"finished", "done"}

IInv == /\ TypeOK /\ SlotsAccounted /\ FilesAccounted
        /\ SizesBelow /\ RoomAccounted /\ LinksCounted /\ LinksHaveFiles /\ CursorsHeld

-----------------------------------------------------------------------------
(* Counting exports, bytes and requests *)

LEMMA ExportsCounted ==
    ASSUME NEW E \in SUBSET Ids
    PROVE  IsFiniteSet(E) /\ Cardinality(E) \in Nat
BY FiniteAssumption, FS_Subset, FS_CardinalityType

LEMMA BytesNumbers ==
    /\ Overshoot \in Nat /\ FileBytes \in Nat /\ FileBytes = MaxBytes + Overshoot
    /\ {MaxBytes, MaxConcurrent, DirMaxBytes} \subseteq Nat
BY LimitsAssumption DEF Overshoot, FileBytes

\* The bytes of some files are at most the longest file for each
\* The bytes of some files are at most the longest file for each
LEMMA BytesBound ==
    ASSUME NEW E \in SUBSET Ids, NEW s
    PROVE  /\ IsFiniteSet({b \in E \X (1..FileBytes) : b[2] <= s[b[1]]})
           /\ Bytes(E, s) \in Nat
           /\ Bytes(E, s) <= Cardinality(E) * FileBytes
<1> DEFINE B == {b \in E \X (1..FileBytes) : b[2] <= s[b[1]]}
<1>1. /\ IsFiniteSet(E) /\ IsFiniteSet(1..FileBytes) /\ Cardinality(1..FileBytes) = FileBytes
      /\ Cardinality(E) \in Nat /\ FileBytes \in Nat
    <2>1. FileBytes \in Nat /\ FileBytes \in Int /\ 1 \in Int
        BY BytesNumbers
    <2>2. /\ IsFiniteSet(1..FileBytes)
          /\ Cardinality(1..FileBytes) = IF 1 > FileBytes THEN 0 ELSE FileBytes - 1 + 1
        BY <2>1, FS_Interval, Zenon
    <2>3. Cardinality(1..FileBytes) = FileBytes
        BY <2>1, <2>2
    <2> QED
        BY <2>1, <2>2, <2>3, ExportsCounted, Zenon
<1>2. /\ IsFiniteSet(E \X (1..FileBytes))
      /\ Cardinality(E \X (1..FileBytes)) = Cardinality(E) * FileBytes
    BY <1>1, FS_Product, Zenon
<1>3. B \subseteq E \X (1..FileBytes)
    OBVIOUS
<1> HIDE DEF B
<1>4. IsFiniteSet(B) /\ Cardinality(B) <= Cardinality(E \X (1..FileBytes))
    BY <1>2, <1>3, FS_Subset, Zenon
<1>5. Cardinality(B) \in Nat
    BY <1>4, FS_CardinalityType, Zenon
<1>6. Bytes(E, s) = Cardinality(B)
    BY Zenon DEF Bytes, B
<1>7. Cardinality(B) <= Cardinality(E) * FileBytes
    BY <1>2, <1>4
<1>8. IsFiniteSet({b \in E \X (1..FileBytes) : b[2] <= s[b[1]]})
    BY <1>4, Zenon DEF B
<1> QED
    BY <1>5, <1>6, <1>7, <1>8, Zenon

\* Fewer files take no more bytes, and more files no more than both parts
LEMMA BytesOfParts ==
    ASSUME NEW E \in SUBSET Ids, NEW F \in SUBSET Ids, NEW s
    PROVE  /\ E \subseteq F => Bytes(E, s) <= Bytes(F, s)
           /\ Bytes(E \cup F, s) <= Bytes(E, s) + Bytes(F, s)
<1> DEFINE B(S) == {b \in S \X (1..FileBytes) : b[2] <= s[b[1]]}
<1>1. /\ IsFiniteSet(B(E)) /\ IsFiniteSet(B(F))
      /\ Bytes(E, s) = Cardinality(B(E)) /\ Bytes(F, s) = Cardinality(B(F))
      /\ Bytes(E \cup F, s) = Cardinality(B(E \cup F))
    BY BytesBound, Zenon DEF Bytes
<1>2. E \subseteq F => B(E) \subseteq B(F)
    OBVIOUS
<1>3. B(E \cup F) = B(E) \cup B(F)
    OBVIOUS
<1> HIDE DEF B
<1>4. E \subseteq F => Cardinality(B(E)) <= Cardinality(B(F))
    BY <1>1, <1>2, FS_Subset, Zenon
<1>5. Cardinality(B(E) \cup B(F))
        = Cardinality(B(E)) + Cardinality(B(F)) - Cardinality(B(E) \cap B(F))
    BY <1>1, FS_Union, Zenon
<1>6. /\ Cardinality(B(E)) \in Nat /\ Cardinality(B(F)) \in Nat
      /\ Cardinality(B(E) \cap B(F)) \in Nat
    <2>1. B(E) \cap B(F) \subseteq B(E)
        BY Zenon
    <2>2. IsFiniteSet(B(E) \cap B(F))
        BY <1>1, <2>1, FS_Subset, Zenon
    <2> QED
        BY <1>1, <2>2, FS_CardinalityType, Zenon
<1>7. Cardinality(B(E) \cup B(F)) <= Cardinality(B(E)) + Cardinality(B(F))
    BY <1>5, <1>6
<1> QED
    BY <1>1, <1>3, <1>4, <1>7, Zenon

\* The bytes depend on the sizes of these files only
LEMMA BytesKept ==
    ASSUME NEW E \in SUBSET Ids, NEW s, NEW t, \A e \in E : s[e] = t[e]
    PROVE  Bytes(E, s) = Bytes(E, t)
<1>1. {b \in E \X (1..FileBytes) : b[2] <= s[b[1]]} = {b \in E \X (1..FileBytes) : b[2] <= t[b[1]]}
    OBVIOUS
<1> QED
    BY <1>1, Zenon DEF Bytes

LEMMA StoredBytesType == TypeOK => StoredBytes \in Nat
BY BytesBound DEF TypeOK, StoredBytes

LEMMA RunningCounted == IsFiniteSet(Running) /\ Cardinality(Running) \in Nat
BY ExportsCounted DEF Running

\* The states in which an export holds its place
Places == {"opening", "checking", "reading", "closing", "failed", "finished"}

-----------------------------------------------------------------------------
(* Where an export stands *)

\* Steps of one export, but for taking and giving back its place
Works(e) == \/ Refuse(e) \/ Deadline(e) \/ CursorOpens(e) \/ CursorFails(e) \/ GraceEnds(e)
            \/ StartFile(e) \/ Batch(e) \/ LastBatch(e) \/ Fail(e) \/ Complete(e)

LEMMA WorkKeepsPlace ==
    ASSUME TypeOK, NEW e \in Ids, Works(e)
    PROVE  /\ pc' \in [Ids -> Places \cup {"idle", "done"}]
           /\ \A f \in Ids : f # e => pc'[f] = pc[f]
           /\ pc'[e] \in Places <=> pc[e] \in Places
           /\ pc[e] \in {"finished", "done"} => pc'[e] = pc[e]
           /\ UNCHANGED <<phase, running, reserved>>
<1>0. pc \in [Ids -> Places \cup {"idle", "done"}]
    BY DEF TypeOK, Places
<1>1. CASE Refuse(e)
    BY <1>0, <1>1 DEF Refuse, store, Places
<1>2. CASE Deadline(e)
    BY <1>0, <1>2 DEF Deadline, store, Places
<1>3. CASE CursorOpens(e) \/ CursorFails(e) \/ GraceEnds(e)
    BY <1>0, <1>3 DEF CursorOpens, CursorFails, GraceEnds, store, Places
<1>4. CASE StartFile(e) \/ LastBatch(e) \/ Fail(e) \/ Complete(e)
    BY <1>0, <1>4 DEF StartFile, LastBatch, Fail, Complete, store, Places
<1>5. CASE Batch(e)
    BY <1>0, <1>5 DEF Batch, store, Places
<1> QED
    BY <1>1, <1>2, <1>3, <1>4, <1>5 DEF Works

\* Steps of the registry and its readers leave the exports alone
Serves == \/ \E e \in Ids : Expire(e) \/ Unlink(e) \/ \E d \in Readers : Take(d, e)
          \/ \E d \in Readers : OpenFile(d) \/ EndDownload(d)
          \/ Sweep \/ Close

LEMMA ServiceLeavesExports ==
    Serves => UNCHANGED tool /\ (Ready' => Ready)
BY DEF Serves, Expire, Unlink, Take, OpenFile, EndDownload, Sweep, Close, tool, Ready

LEMMA NextCases ==
    [Next]_vars => \/ UNCHANGED vars
                   \/ \E e \in Ids : Begin(e) \/ Works(e) \/ Finally(e)
                   \/ Serves \/ CloseEnd \/ Restart
BY DEF Next, Works, Serves

-----------------------------------------------------------------------------
(* Places and reservations *)

LEMMA SlotsStep ==
    TypeOK /\ SlotsAccounted /\ [Next]_vars
    => /\ SlotsAccounted'
       /\ running' \in Int /\ reserved' \in Int
       /\ Ready' => running' \in 0..MaxConcurrent /\ reserved' \in 0..DirMaxBytes
       /\ pc' \in [Ids -> Places \cup {"idle", "done"}]
<1> DEFINE Goal ==
          /\ SlotsAccounted'
          /\ running' \in Int /\ reserved' \in Int
          /\ Ready' => running' \in 0..MaxConcurrent /\ reserved' \in 0..DirMaxBytes
          /\ pc' \in [Ids -> Places \cup {"idle", "done"}]
<1> SUFFICES ASSUME TypeOK, SlotsAccounted, [Next]_vars PROVE Goal
    OBVIOUS
<1>0. /\ pc \in [Ids -> Places \cup {"idle", "done"}]
      /\ running \in Int /\ reserved \in Int
      /\ Ready => running \in 0..MaxConcurrent /\ reserved \in 0..DirMaxBytes
      /\ Ready => running = Cardinality(Running) /\ reserved = MaxBytes * running
      /\ \A e \in Ids : e \in Running <=> pc[e] \in Places
      /\ {MaxConcurrent, MaxBytes, DirMaxBytes} \subseteq Nat \ {0}
    BY LimitsAssumption DEF TypeOK, Places, SlotsAccounted, Running
<1>1. ASSUME UNCHANGED <<running, reserved>>, Ready' => Ready,
             pc' \in [Ids -> Places \cup {"idle", "done"}],
             \A e \in Ids : pc'[e] \in Places <=> pc[e] \in Places
      PROVE  Goal
    <2>1. Running' = Running
        BY <1>0, <1>1 DEF Running, Places
    <2> QED
        BY <1>0, <1>1, <2>1 DEF SlotsAccounted
<1>2. CASE UNCHANGED vars
    BY <1>0, <1>1, <1>2 DEF vars, Ready
<1>3. ASSUME NEW e \in Ids, Begin(e) PROVE Goal
    <2>1. /\ Ready /\ running < MaxConcurrent /\ running' = running + 1
          /\ StoredBytes + reserved + MaxBytes <= DirMaxBytes
          /\ reserved' = reserved + MaxBytes
          /\ pc[e] = "idle" /\ pc' = [pc EXCEPT ![e] = "opening"]
        BY <1>3 DEF Begin
    <2>2. running' \in 0..MaxConcurrent /\ reserved' \in 0..DirMaxBytes
        BY <1>0, <2>1, StoredBytesType
    <2>3. Running' = Running \cup {e} /\ e \notin Running
        BY <1>0, <2>1 DEF Running
    <2>4. running' = Cardinality(Running')
        BY <1>0, <2>1, <2>3, RunningCounted, FS_AddElement
    <2>5. reserved' = MaxBytes * running'
        BY <1>0, <2>1
    <2>6. pc' \in [Ids -> Places \cup {"idle", "done"}]
        BY <1>0, <2>1 DEF Places
    <2> QED
        BY <2>2, <2>4, <2>5, <2>6 DEF SlotsAccounted
<1>4. ASSUME NEW e \in Ids, Works(e) PROVE Goal
    BY <1>1, <1>4, WorkKeepsPlace DEF Ready
<1>5. ASSUME NEW e \in Ids, Finally(e) PROVE Goal
    <2>1. /\ pc[e] \in Places /\ pc' = [pc EXCEPT ![e] = "done"] /\ UNCHANGED phase
          /\ running' = running - 1 /\ reserved' = reserved - MaxBytes
        BY <1>5 DEF Finally, Places
    <2>2. Running' = Running \ {e} /\ e \in Running
        BY <1>0, <2>1 DEF Running, Places
    <2>3. Cardinality(Running') = Cardinality(Running) - 1 /\ Cardinality(Running') \in Nat
        BY <2>2, RunningCounted, ExportsCounted, FS_RemoveElement DEF Running
    <2>4. pc' \in [Ids -> Places \cup {"idle", "done"}]
        BY <1>0, <2>1
    <2>5. ASSUME Ready'
          PROVE  /\ running' = Cardinality(Running') /\ reserved' = MaxBytes * running'
                 /\ running' \in 0..MaxConcurrent /\ reserved' \in 0..DirMaxBytes
        <3>1. Ready
            BY <2>1, <2>5 DEF Ready
        <3>2. running' = Cardinality(Running') /\ running' \in 0..MaxConcurrent
            BY <1>0, <2>1, <2>3, <3>1
        <3>3. reserved' = MaxBytes * running'
            BY <1>0, <2>1, <3>1
        <3>4. MaxBytes * running' \in Nat
            BY <1>0, <3>2
        <3> QED
            BY <1>0, <2>1, <3>1, <3>2, <3>3, <3>4
    <2> QED
        BY <1>0, <2>1, <2>4, <2>5 DEF SlotsAccounted
<1>6. CASE Serves
    BY <1>0, <1>1, <1>6, ServiceLeavesExports DEF tool
<1>7. CASE CloseEnd
    <2>1. ~Ready' /\ running' = 0 /\ reserved' = 0 /\ UNCHANGED pc
        BY <1>7 DEF CloseEnd, Ready
    <2> QED
        BY <1>0, <2>1 DEF SlotsAccounted
<1>8. CASE Restart
    <2>1. running' = 0 /\ reserved' = 0
          /\ pc' = [e \in Ids |-> IF pc[e] = "idle" THEN "idle" ELSE "done"]
        BY <1>8 DEF Restart
    <2>2. Running' = {}
        BY <2>1 DEF Running
    <2> QED
        BY <1>0, <2>1, <2>2, FS_EmptySet DEF SlotsAccounted
<1> HIDE DEF Goal
<1> QED
    BY <1>2, <1>3, <1>4, <1>5, <1>6, <1>7, <1>8, NextCases

-----------------------------------------------------------------------------
(* Sizes, cursors and deadlines *)

LEMMA SizesStep ==
    TypeOK /\ SizesBelow /\ [Next]_vars => SizesBelow' /\ size' \in [Ids -> 0..FileBytes]
<1> DEFINE Goal == SizesBelow' /\ size' \in [Ids -> 0..FileBytes]
<1> SUFFICES ASSUME TypeOK, SizesBelow, [Next]_vars PROVE Goal
    OBVIOUS
<1>0. /\ pc \in [Ids -> {"idle", "opening", "checking", "reading", "closing", "failed",
                         "finished", "done"}]
      /\ size \in [Ids -> 0..FileBytes] /\ MaxBytes \in Nat \ {0}
      /\ BatchBytes \in Nat \ {0} /\ TailBytes \in Nat
      /\ FileBytes = MaxBytes + BatchBytes - 1 + TailBytes
    BY LimitsAssumption DEF TypeOK, FileBytes, Overshoot
<1> USE <1>0 DEF SizesBelow
<1>1. ASSUME NEW e \in Ids, Batch(e) PROVE Goal
    <2>1. PICK n \in 0..BatchBytes : size' = [size EXCEPT ![e] = size[e] + n]
        BY <1>1 DEF Batch
    <2>2. /\ size[e] < MaxBytes /\ size'[e] = size[e] + n /\ size'[e] \in 0..FileBytes
          /\ size'[e] <= MaxBytes + BatchBytes - 1
        BY <1>1, <2>1 DEF Batch
    <2>3. pc' = IF size'[e] >= MaxBytes THEN [pc EXCEPT ![e] = "closing"] ELSE pc
        BY <1>1 DEF Batch
    <2> QED
        BY <2>1, <2>2, <2>3
<1>2. ASSUME NEW e \in Ids, Complete(e) PROVE Goal
    <2>1. PICK n \in 0..TailBytes : size' = [size EXCEPT ![e] = size[e] + n]
        BY <1>2 DEF Complete
    <2>2. size[e] <= MaxBytes + BatchBytes - 1 /\ size[e] + n \in 0..FileBytes
        BY <1>2, <2>1 DEF Complete
    <2>3. pc' = [pc EXCEPT ![e] = "finished"]
        BY <1>2 DEF Complete
    <2> QED
        BY <2>1, <2>2, <2>3
<1>3. ASSUME UNCHANGED size,
             \A e \in Ids : pc'[e] \in {"idle", "opening", "checking", "reading"}
                            => pc[e] \in {"idle", "opening", "checking", "reading"},
             \A e \in Ids : pc'[e] = "closing" => pc[e] \in {"closing", "reading"}
      PROVE  Goal
    BY <1>3
<1>4. ASSUME NEW e \in Ids,
             Begin(e) \/ (Works(e) /\ ~Batch(e) /\ ~Complete(e)) \/ Finally(e)
      PROVE  Goal
    BY <1>3, <1>4 DEF Begin, Works, Refuse, Deadline, CursorOpens, CursorFails, GraceEnds,
                      StartFile, LastBatch, Fail, Finally
<1>5. CASE UNCHANGED <<size, pc>>
    BY <1>3, <1>5
<1>6. CASE Serves
    BY <1>5, <1>6, ServiceLeavesExports DEF tool
<1>7. CASE Restart
    BY <1>3, <1>7 DEF Restart
<1> HIDE DEF Goal
<1> QED
    BY <1>1, <1>2, <1>4, <1>5, <1>6, <1>7, NextCases DEF vars, CloseEnd

LEMMA CursorsStep ==
    TypeOK /\ CursorsHeld /\ [Next]_vars
    => /\ CursorsHeld'
       /\ held' \subseteq Ids /\ aborted' \subseteq Ids /\ aborted \subseteq aborted'
       /\ cursor' \in [Ids -> {"none", "opening", "open", "closed"}]
<1> DEFINE Goal == /\ CursorsHeld'
                   /\ held' \subseteq Ids /\ aborted' \subseteq Ids /\ aborted \subseteq aborted'
                   /\ cursor' \in [Ids -> {"none", "opening", "open", "closed"}]
<1> SUFFICES ASSUME TypeOK, CursorsHeld, [Next]_vars PROVE Goal
    OBVIOUS
<1>0. /\ pc \in [Ids -> {"idle", "opening", "checking", "reading", "closing", "failed",
                         "finished", "done"}]
      /\ held \subseteq Ids /\ aborted \subseteq Ids
      /\ cursor \in [Ids -> {"none", "opening", "open", "closed"}]
    BY DEF TypeOK
<1> USE <1>0 DEF CursorsHeld
<1>1. CASE UNCHANGED <<pc, cursor, held, aborted>>
    BY <1>1
<1>2. ASSUME NEW e \in Ids, Begin(e) PROVE Goal
    BY <1>2 DEF Begin
<1>3. ASSUME NEW e \in Ids, Refuse(e) \/ Deadline(e) PROVE Goal
    BY <1>3 DEF Refuse, Deadline
<1>4. ASSUME NEW e \in Ids, CursorOpens(e) PROVE Goal
    BY <1>4 DEF CursorOpens
<1>5. ASSUME NEW e \in Ids, CursorFails(e) \/ GraceEnds(e) PROVE Goal
    BY <1>5 DEF CursorFails, GraceEnds
<1>6. ASSUME NEW e \in Ids, StartFile(e) \/ Batch(e) \/ LastBatch(e) \/ Fail(e) PROVE Goal
    BY <1>6 DEF StartFile, Batch, LastBatch, Fail
<1>7. ASSUME NEW e \in Ids, Complete(e) \/ Finally(e) PROVE Goal
    BY <1>7 DEF Complete, Finally
<1>8. CASE Serves
    BY <1>1, <1>8, ServiceLeavesExports DEF tool
<1>9. CASE Restart
    BY <1>9 DEF Restart
<1> HIDE DEF Goal
<1> QED
    BY <1>1, <1>2, <1>3, <1>4, <1>5, <1>6, <1>7, <1>8, <1>9, NextCases DEF vars, Works, CloseEnd

-----------------------------------------------------------------------------
(* Links and their requests *)

ReaderRecord == [pc: {"opening", "sending", "failed", "done"}, id: Ids, last: BOOLEAN]

Requests(e) == {d \in Readers : reader[d].id = e}

LEMMA RequestsCounted ==
    ASSUME NEW e \in Ids
    PROVE  IsFiniteSet(Requests(e)) /\ Cardinality(Requests(e)) \in Nat
BY FiniteAssumption, FS_Subset, FS_CardinalityType DEF Requests

LEMMA ReaderTypes ==
    ASSUME TypeOK, NEW d \in Readers
    PROVE  /\ reader[d].pc = "idle" <=> reader[d] = NoRead
           /\ reader[d].pc # "idle" => reader[d] \in ReaderRecord
           /\ reader[d] = NoRead => reader[d].id = None /\ ~reader[d].last
BY DEF TypeOK, NoRead, ReaderRecord

\* A request goes on with the link it took
LEMMA ReaderMoves ==
    ASSUME TypeOK, NEW d \in Readers, reader[d].pc # "idle",
           NEW p \in {"opening", "sending", "failed", "done"},
           reader' = [reader EXCEPT ![d].pc = p]
    PROVE  /\ reader' \in [Readers -> {NoRead} \cup ReaderRecord]
           /\ \A c \in Readers : c # d => reader'[c] = reader[c]
           /\ reader'[d].pc = p /\ reader'[d].id = reader[d].id
           /\ reader'[d].last = reader[d].last
<1>1. reader[d] \in ReaderRecord /\ reader \in [Readers -> {NoRead} \cup ReaderRecord]
    BY ReaderTypes DEF TypeOK, ReaderRecord
<1> DEFINE x == [reader[d] EXCEPT !.pc = p]
<1>2. reader' = [reader EXCEPT ![d] = x]
    OBVIOUS
<1>3. x \in ReaderRecord /\ x.pc = p /\ x.id = reader[d].id /\ x.last = reader[d].last
    BY <1>1 DEF ReaderRecord
<1> HIDE DEF x
<1> QED
    BY <1>1, <1>2, <1>3

\* What becomes of the requests when the process ends
LEMMA ReadersEnd ==
    ASSUME TypeOK, Restart
    PROVE  /\ reader' \in [Readers -> {NoRead} \cup ReaderRecord]
           /\ \A d \in Readers : reader'[d].id = reader[d].id
<1>1. reader' = [d \in Readers |-> IF reader[d] = NoRead THEN NoRead
                                   ELSE [reader[d] EXCEPT !.pc = "done"]]
    BY DEF Restart
<1>2. ASSUME NEW d \in Readers
      PROVE  reader'[d] \in {NoRead} \cup ReaderRecord /\ reader'[d].id = reader[d].id
    <2>1. CASE reader[d] = NoRead
        BY <1>1, <2>1
    <2>2. CASE reader[d] # NoRead
        <3>1. reader[d] \in ReaderRecord
            BY <2>2, ReaderTypes
        <3>2. /\ [reader[d] EXCEPT !.pc = "done"] \in ReaderRecord
              /\ [reader[d] EXCEPT !.pc = "done"].id = reader[d].id
            BY <3>1 DEF ReaderRecord
        <3> QED
            BY <1>1, <2>2, <3>2
    <2> QED
        BY <2>1, <2>2
<1> QED
    BY <1>1, <1>2

\* takeExport counts the download, and the last one takes the link away
LEMMA TakeCounts ==
    ASSUME TypeOK, NEW d \in Readers, NEW e \in Ids, Take(d, e)
    PROVE  /\ reader[d].pc = "idle" /\ e \in entries
           /\ downloads' = [downloads EXCEPT ![e] = downloads[e] + 1]
           /\ entries' = IF downloads[e] + 1 >= MaxDownloads THEN entries \ {e} ELSE entries
           /\ reader' \in [Readers -> {NoRead} \cup ReaderRecord]
           /\ \A c \in Readers : c # d => reader'[c] = reader[c]
           /\ reader'[d].pc = "opening" /\ reader'[d].id = e
           /\ reader'[d].last <=> downloads[e] + 1 >= MaxDownloads
<1> DEFINE n == downloads[e] + 1
<1>0. PICK b \in BOOLEAN : b = (n >= MaxDownloads)
    <2>1. (n >= MaxDownloads) \in BOOLEAN
        OBVIOUS
    <2> QED
        BY <2>1, Zenon
<1> DEFINE x == [pc |-> "opening", id |-> e, last |-> b]
<1>1. /\ downloads \in [Ids -> 0..MaxDownloads] /\ MaxDownloads \in Nat
      /\ reader \in [Readers -> {NoRead} \cup ReaderRecord]
    BY LimitsAssumption DEF TypeOK, ReaderRecord
<1>2. downloads' = [downloads EXCEPT ![e] = n] /\ downloads'[e] = n
    BY <1>1 DEF Take
<1>3. /\ reader[d].pc = "idle" /\ e \in entries
      /\ entries' = IF n >= MaxDownloads THEN entries \ {e} ELSE entries
      /\ reader' = [reader EXCEPT ![d] = x]
    BY <1>0, <1>2 DEF Take
<1>4. x \in ReaderRecord /\ x.pc = "opening" /\ x.id = e /\ x.last = b
    BY DEF ReaderRecord
<1> HIDE DEF x
<1> QED
    BY <1>0, <1>1, <1>2, <1>3, <1>4

LEMMA LinksStep ==
    TypeOK /\ LinksCounted /\ [Next]_vars
    => /\ LinksCounted'
       /\ entries' \subseteq Ids
       /\ downloads' \in [Ids -> 0..MaxDownloads]
       /\ reader' \in [Readers -> {NoRead} \cup ReaderRecord]
<1> DEFINE Goal == /\ LinksCounted'
                   /\ entries' \subseteq Ids
                   /\ downloads' \in [Ids -> 0..MaxDownloads]
                   /\ reader' \in [Readers -> {NoRead} \cup ReaderRecord]
<1> SUFFICES ASSUME TypeOK, LinksCounted, [Next]_vars PROVE Goal
    OBVIOUS
<1>0. /\ pc \in [Ids -> {"idle", "opening", "checking", "reading", "closing", "failed",
                         "finished", "done"}]
      /\ entries \subseteq Ids /\ downloads \in [Ids -> 0..MaxDownloads]
      /\ reader \in [Readers -> {NoRead} \cup ReaderRecord]
      /\ MaxDownloads \in Nat \ {0}
      /\ \A e \in entries : pc[e] \in {"finished", "done"} /\ downloads[e] < MaxDownloads
      /\ \A e \in Ids : /\ downloads[e] = Cardinality(Requests(e))
                        /\ downloads[e] > 0 => pc[e] \in {"finished", "done"}
    BY LimitsAssumption DEF TypeOK, LinksCounted, ReaderRecord, Requests
<1>1. ASSUME UNCHANGED downloads, entries' \subseteq entries,
             reader' \in [Readers -> {NoRead} \cup ReaderRecord],
             \A d \in Readers : reader'[d].id = reader[d].id,
             \A e \in Ids : pc[e] \in {"finished", "done"} => pc'[e] \in {"finished", "done"}
      PROVE  Goal
    <2>1. \A e \in Ids : Requests(e)' = Requests(e)
        BY <1>1 DEF Requests
    <2> QED
        BY <1>0, <1>1, <2>1 DEF LinksCounted, Requests
<1>2. CASE UNCHANGED <<downloads, entries, reader, pc>>
    BY <1>0, <1>1, <1>2
<1>3. ASSUME NEW e \in Ids, Begin(e) \/ (Works(e) /\ ~Complete(e)) \/ Finally(e) PROVE Goal
    <2>1. UNCHANGED <<downloads, entries, reader>>
        BY <1>3 DEF Begin, Works, Refuse, Deadline, CursorOpens, CursorFails, GraceEnds,
                    StartFile, Batch, LastBatch, Fail, Finally, store
    <2>2. \A f \in Ids : pc[f] \in {"finished", "done"} => pc'[f] \in {"finished", "done"}
        <3>1. CASE Works(e)
            BY <3>1, WorkKeepsPlace
        <3>2. CASE Begin(e) \/ Finally(e)
            BY <1>0, <3>2 DEF Begin, Finally
        <3> QED
            BY <1>3, <3>1, <3>2
    <2> QED
        BY <1>0, <1>1, <2>1, <2>2
<1>4. ASSUME NEW e \in Ids, Complete(e) PROVE Goal
    <2>1. /\ UNCHANGED <<downloads, reader>> /\ entries' = entries \cup {e}
          /\ pc[e] = "closing" /\ pc' = [pc EXCEPT ![e] = "finished"]
        BY <1>4 DEF Complete
    <2>2. \A f \in Ids : Requests(f)' = Requests(f)
        BY <2>1 DEF Requests
    <2>3. \A f \in entries' : pc'[f] \in {"finished", "done"} /\ downloads'[f] < MaxDownloads
        BY <1>0, <2>1
    <2>4. \A f \in Ids : /\ downloads'[f] = Cardinality(Requests(f)')
                         /\ downloads'[f] > 0 => pc'[f] \in {"finished", "done"}
        BY <1>0, <2>1, <2>2
    <2> QED
        BY <1>0, <2>1, <2>3, <2>4 DEF LinksCounted, Requests
<1>5. ASSUME NEW d \in Readers, NEW e \in Ids, Take(d, e) PROVE Goal
    <2>1. UNCHANGED pc /\ reader[d].id \notin Ids
        BY <1>5, ReaderTypes, LimitsAssumption DEF Take, tool
    <2>2. Requests(e)' = Requests(e) \cup {d} /\ d \notin Requests(e)
        BY <1>5, <2>1, TakeCounts DEF Requests
    <2>3. \A f \in Ids : f # e => Requests(f)' = Requests(f)
        BY <1>5, <2>1, TakeCounts DEF Requests
    <2>4. Cardinality(Requests(e)') = downloads[e] + 1
        BY <1>0, <2>2, RequestsCounted, FS_AddElement
    <2>5. /\ downloads' = [downloads EXCEPT ![e] = downloads[e] + 1]
          /\ downloads[e] < MaxDownloads /\ downloads[e] \in 0..MaxDownloads
          /\ pc[e] \in {"finished", "done"}
        BY <1>0, <1>5, TakeCounts
    <2>6. downloads' \in [Ids -> 0..MaxDownloads]
        BY <1>0, <2>5
    <2>7. \A f \in Ids : /\ downloads'[f] = Cardinality(Requests(f)')
                         /\ downloads'[f] > 0 => pc'[f] \in {"finished", "done"}
        BY <1>0, <2>1, <2>3, <2>4, <2>5
    <2>8. \A f \in entries' : f \in entries /\ pc'[f] \in {"finished", "done"}
                              /\ downloads'[f] < MaxDownloads
        BY <1>0, <1>5, <2>1, <2>5, TakeCounts
    <2>9. reader' \in [Readers -> {NoRead} \cup ReaderRecord]
        BY <1>5, TakeCounts
    <2> QED
        BY <1>0, <2>6, <2>7, <2>8, <2>9 DEF LinksCounted, Requests
<1>6. ASSUME NEW d \in Readers, OpenFile(d) \/ EndDownload(d) PROVE Goal
    <2>1. /\ UNCHANGED <<downloads, entries, pc>> /\ reader[d].pc # "idle"
          /\ \/ reader' = [reader EXCEPT ![d].pc = "sending"]
             \/ reader' = [reader EXCEPT ![d].pc = "failed"]
             \/ reader' = [reader EXCEPT ![d].pc = "done"]
        BY <1>6 DEF OpenFile, EndDownload, tool
    <2>2. /\ reader' \in [Readers -> {NoRead} \cup ReaderRecord]
          /\ \A c \in Readers : reader'[c].id = reader[c].id
        BY <2>1, ReaderMoves
    <2> QED
        BY <1>1, <2>1, <2>2
<1>7. CASE Sweep \/ Close
    BY <1>0, <1>1, <1>7 DEF Sweep, Close, tool
<1>8. ASSUME NEW e \in Ids, Expire(e) \/ Unlink(e) PROVE Goal
    BY <1>2, <1>8 DEF Expire, Unlink, tool
<1>9. CASE Restart
    <2>1. /\ UNCHANGED downloads /\ entries' = {}
          /\ pc' = [e \in Ids |-> IF pc[e] = "idle" THEN "idle" ELSE "done"]
        BY <1>9 DEF Restart
    <2> QED
        BY <1>0, <1>1, <1>9, <2>1, ReadersEnd
<1> HIDE DEF Goal
<1> QED
    BY <1>2, <1>3, <1>4, <1>5, <1>6, <1>7, <1>8, <1>9, NextCases
    DEF vars, Serves, CloseEnd

-----------------------------------------------------------------------------
(* Files *)

\* A finished file is in the registry, about to be deleted, or being sent for
\* the last time
Kept(e) ==
    \/ e \in entries \cup unlinking
    \/ \E d \in Readers : /\ reader[d].id = e
                          /\ reader[d].last
                          /\ reader[d].pc \in {"opening", "sending", "failed"}

FilesKept ==
    /\ part \subseteq Running
    /\ Ready => \A e \in final : Kept(e)

LEMMA FilesStep ==
    TypeOK /\ FilesKept /\ [Next]_vars
    => /\ FilesKept'
       /\ phase' \in {"open", "closing", "closed"}
       /\ closing' \subseteq Ids /\ expired' \subseteq Ids /\ unlinking' \subseteq Ids
       /\ part' \subseteq Ids /\ final' \subseteq Ids
<1> DEFINE Goal ==
          /\ FilesKept'
          /\ phase' \in {"open", "closing", "closed"}
          /\ closing' \subseteq Ids /\ expired' \subseteq Ids /\ unlinking' \subseteq Ids
          /\ part' \subseteq Ids /\ final' \subseteq Ids
<1> SUFFICES ASSUME TypeOK, FilesKept, [Next]_vars PROVE Goal
    OBVIOUS
<1>0. /\ phase \in {"open", "closing", "closed"} /\ entries \subseteq Ids
      /\ closing \subseteq Ids /\ expired \subseteq Ids /\ unlinking \subseteq Ids
      /\ part \subseteq Ids /\ final \subseteq Ids
      /\ \A e \in part : pc[e] \notin {"idle", "done"}
      /\ Ready => \A e \in final : Kept(e)
    BY DEF TypeOK, FilesKept, Running, Kept
<1>1. ASSUME part' \subseteq Ids, \A e \in part' : pc'[e] \notin {"idle", "done"},
             phase' \in {"open", "closing", "closed"},
             closing' \subseteq Ids, expired' \subseteq Ids, unlinking' \subseteq Ids,
             final' \subseteq Ids, Ready' => \A e \in final' : Kept(e)'
      PROVE  Goal
    BY <1>1 DEF FilesKept, Running, Kept
<1>2. ASSUME UNCHANGED store, part' \subseteq part \cup (Running' \cap Ids),
             \A e \in part' \cap part : pc'[e] \notin {"idle", "done"}
      PROVE  Goal
    <2>1. Ready' => \A e \in final' : Kept(e)'
        BY <1>0, <1>2 DEF store, Ready, Kept
    <2>2. part' \subseteq Ids /\ \A e \in part' : pc'[e] \notin {"idle", "done"}
        BY <1>0, <1>2 DEF Running
    <2> QED
        BY <1>0, <1>1, <1>2, <2>1, <2>2 DEF store
<1>3. CASE UNCHANGED vars
    BY <1>0, <1>2, <1>3 DEF vars, store
<1>4. ASSUME NEW e \in Ids, Works(e) /\ ~Complete(e) PROVE Goal
    <2>1. UNCHANGED store /\ (part' = part \/ (part' = part \cup {e} /\ pc'[e] = "reading"))
        BY <1>0, <1>4 DEF Works, Refuse, Deadline, CursorOpens, CursorFails, GraceEnds,
                    StartFile, Batch, LastBatch, Fail, TypeOK
    <2>2. \A f \in part : pc'[f] \notin {"idle", "done"}
        BY <1>0, <1>4, WorkKeepsPlace DEF TypeOK, Places
    <2> QED
        BY <1>2, <2>1, <2>2 DEF Running
<1>5. ASSUME NEW e \in Ids, Complete(e) PROVE Goal
    <2>1. /\ UNCHANGED <<phase, closing, expired, unlinking, reader>>
          /\ part' = part \ {e} /\ final' = final \cup {e} /\ entries' = entries \cup {e}
        BY <1>5 DEF Complete
    <2>2. \A f \in part' : pc'[f] \notin {"idle", "done"}
        BY <1>0, <1>5 DEF Complete, TypeOK
    <2>3. Ready' => \A f \in final' : Kept(f)'
        BY <1>0, <2>1 DEF Ready, Kept
    <2> QED
        BY <1>0, <1>1, <2>1, <2>2, <2>3
<1>6. ASSUME NEW e \in Ids, Begin(e) \/ Finally(e) PROVE Goal
    <2>1. /\ UNCHANGED <<phase, closing, entries, expired, unlinking, final, reader>>
          /\ part' \subseteq part
        BY <1>6 DEF Begin, Finally
    <2>2. \A f \in part' : pc'[f] \notin {"idle", "done"}
        BY <1>0, <1>6 DEF Begin, Finally, TypeOK
    <2>3. Ready' => \A f \in final' : Kept(f)'
        BY <1>0, <2>1 DEF Ready, Kept
    <2> QED
        BY <1>0, <1>1, <2>1, <2>2, <2>3
<1>7. ASSUME UNCHANGED tool, phase' \in {"open", "closing", "closed"}, Ready' => Ready,
             closing' \subseteq Ids, expired' \subseteq Ids, unlinking' \subseteq Ids,
             final' \subseteq final, \A e \in final' : Kept(e) => Kept(e)'
      PROVE  Goal
    BY <1>0, <1>1, <1>7 DEF tool
<1>8. ASSUME NEW e \in Ids, Expire(e) PROVE Goal
    BY <1>0, <1>7, <1>8 DEF Expire, Ready, Kept
<1>9. ASSUME NEW d \in Readers, NEW e \in Ids, Take(d, e) PROVE Goal
    <2>1. UNCHANGED <<tool, phase, closing, expired, unlinking, final>>
        BY <1>9 DEF Take
    <2>2. \A f \in final' : Kept(f) => Kept(f)'
        BY <1>9, <2>1, TakeCounts DEF Kept
    <2> QED
        BY <1>0, <1>7, <2>1, <2>2 DEF Ready
<1>10. ASSUME NEW d \in Readers, OpenFile(d) PROVE Goal
    <2>1. /\ UNCHANGED <<tool, phase, closing, entries, expired, unlinking, final>>
          /\ reader[d].pc = "opening"
          /\ \/ reader' = [reader EXCEPT ![d].pc = "sending"]
             \/ reader' = [reader EXCEPT ![d].pc = "failed"]
        BY <1>10 DEF OpenFile
    <2>2. \A f \in final' : Kept(f) => Kept(f)'
        BY <2>1, ReaderMoves DEF Kept
    <2> QED
        BY <1>0, <1>7, <2>1, <2>2 DEF Ready
<1>11. ASSUME NEW d \in Readers, EndDownload(d) PROVE Goal
    <2>1. /\ UNCHANGED <<tool, phase, closing, entries, expired, unlinking>>
          /\ reader[d].pc # "idle"
          /\ reader' = [reader EXCEPT ![d].pc = "done"]
          /\ final' = IF reader[d].last THEN final \ {reader[d].id} ELSE final
        BY <1>11 DEF EndDownload
    <2>2. \A f \in final' : Kept(f) => Kept(f)'
        BY <2>1, ReaderMoves DEF Kept
    <2> QED
        BY <1>0, <1>7, <2>1, <2>2 DEF Ready
<1>12. CASE Sweep
    BY <1>0, <1>7, <1>12 DEF Sweep, Ready, Kept
<1>13. ASSUME NEW e \in Ids, Unlink(e) PROVE Goal
    BY <1>0, <1>7, <1>13 DEF Unlink, Ready, Kept
<1>14. CASE Close
    BY <1>0, <1>7, <1>14 DEF Close, Ready, Kept
<1>15. CASE CloseEnd
    <2>1. /\ ~Ready' /\ phase' = "closed"
          /\ UNCHANGED <<closing, expired, unlinking, part, final, pc>>
        BY <1>15 DEF CloseEnd, Ready
    <2> QED
        BY <1>0, <1>1, <2>1
<1>16. CASE Restart
    BY <1>0, <1>1, <1>16 DEF Restart
<1> HIDE DEF Goal
<1> QED
    BY <1>3, <1>4, <1>5, <1>6, <1>8, <1>9, <1>10, <1>11, <1>12, <1>13, <1>14, <1>15,
       <1>16, NextCases DEF Serves

-----------------------------------------------------------------------------
(* Links and their files *)

LEMMA LinkedStep ==
    TypeOK /\ LinksCounted /\ LinksHaveFiles /\ [Next]_vars => LinksHaveFiles'
<1> SUFFICES ASSUME TypeOK, LinksCounted, LinksHaveFiles, [Next]_vars PROVE LinksHaveFiles'
    OBVIOUS
<1>0. /\ pc \in [Ids -> {"idle", "opening", "checking", "reading", "closing", "failed",
                         "finished", "done"}]
      /\ entries \subseteq Ids /\ unlinking \subseteq Ids
      /\ entries \subseteq final \ unlinking
      /\ \A e \in unlinking : pc[e] \in {"finished", "done"}
      /\ \A d \in Readers : reader[d].last => reader[d].id \notin entries
      /\ \A e \in entries : pc[e] \in {"finished", "done"}
    BY DEF TypeOK, LinksCounted, LinksHaveFiles
<1>1. ASSUME entries' \subseteq entries, unlinking' \subseteq unlinking,
             \A e \in entries' : e \in final',
             \A e \in Ids : pc[e] \in {"finished", "done"} => pc'[e] \in {"finished", "done"},
             \A d \in Readers : reader'[d].last => reader[d].last /\ reader'[d].id = reader[d].id
      PROVE  LinksHaveFiles'
    BY <1>0, <1>1 DEF LinksHaveFiles
<1>2. CASE UNCHANGED <<entries, unlinking, final, pc, reader>>
    BY <1>0, <1>1, <1>2
<1>3. ASSUME NEW e \in Ids, Begin(e) \/ (Works(e) /\ ~Complete(e)) \/ Finally(e)
      PROVE  LinksHaveFiles'
    <2>1. UNCHANGED <<entries, unlinking, final, reader>>
        BY <1>3 DEF Begin, Works, Refuse, Deadline, CursorOpens, CursorFails, GraceEnds,
                    StartFile, Batch, LastBatch, Fail, Finally, store
    <2>2. \A f \in Ids : pc[f] \in {"finished", "done"} => pc'[f] \in {"finished", "done"}
        <3>1. CASE Works(e)
            BY <3>1, WorkKeepsPlace
        <3>2. CASE Begin(e) \/ Finally(e)
            BY <1>0, <3>2 DEF Begin, Finally
        <3> QED
            BY <1>3, <3>1, <3>2
    <2> QED
        BY <1>0, <1>1, <2>1, <2>2
<1>4. ASSUME NEW e \in Ids, Complete(e) PROVE LinksHaveFiles'
    <2>1. /\ UNCHANGED <<unlinking, reader>>
          /\ entries' = entries \cup {e} /\ final' = final \cup {e}
          /\ pc[e] = "closing" /\ pc' = [pc EXCEPT ![e] = "finished"]
        BY <1>4 DEF Complete
    <2>2. \A d \in Readers : reader[d].id # e
        <3>1. downloads[e] = Cardinality(Requests(e)) /\ ~(downloads[e] > 0)
            BY <2>1 DEF LinksCounted, Requests
        <3>2. Requests(e) = {}
            BY <3>1, RequestsCounted, FS_EmptySet
        <3> QED
            BY <3>2 DEF Requests
    <2> QED
        BY <1>0, <2>1, <2>2 DEF LinksHaveFiles
<1>5. ASSUME NEW d \in Readers, NEW e \in Ids, Take(d, e) PROVE LinksHaveFiles'
    <2>1. UNCHANGED <<pc, unlinking, final>>
        BY <1>5 DEF Take, tool
    <2>2. /\ entries' = IF downloads[e] + 1 >= MaxDownloads THEN entries \ {e} ELSE entries
          /\ \A c \in Readers : c # d => reader'[c] = reader[c]
          /\ reader'[d].id = e /\ (reader'[d].last <=> downloads[e] + 1 >= MaxDownloads)
        BY <1>5, TakeCounts
    <2> QED
        BY <1>0, <2>1, <2>2 DEF LinksHaveFiles
<1>6. ASSUME NEW d \in Readers, OpenFile(d) \/ EndDownload(d) PROVE LinksHaveFiles'
    <2>1. /\ UNCHANGED <<entries, unlinking, pc>> /\ reader[d].pc # "idle"
          /\ \/ reader' = [reader EXCEPT ![d].pc = "sending"]
             \/ reader' = [reader EXCEPT ![d].pc = "failed"]
             \/ reader' = [reader EXCEPT ![d].pc = "done"]
          /\ final' = final \/ (reader[d].last /\ final' = final \ {reader[d].id})
        BY <1>6 DEF OpenFile, EndDownload, tool
    <2>2. \A c \in Readers : reader'[c].id = reader[c].id /\ reader'[c].last = reader[c].last
        BY <2>1, ReaderMoves
    <2> QED
        BY <1>0, <1>1, <2>1, <2>2
<1>7. CASE Sweep \/ Close
    BY <1>0, <1>7 DEF Sweep, Close, tool, LinksHaveFiles
<1>8. ASSUME NEW e \in Ids, Expire(e) \/ Unlink(e) PROVE LinksHaveFiles'
    BY <1>0, <1>1, <1>8 DEF Expire, Unlink, tool
<1>9. CASE Restart
    BY <1>9 DEF Restart, LinksHaveFiles
<1> QED
    BY <1>2, <1>3, <1>4, <1>5, <1>6, <1>7, <1>8, <1>9, NextCases
    DEF vars, Serves, CloseEnd

-----------------------------------------------------------------------------
(* Bytes on disk *)

LEMMA RoomStep ==
    TypeOK /\ SlotsAccounted /\ LinksCounted /\ RoomAccounted /\ [Next]_vars => RoomAccounted'
<1> DEFINE Goal == Bytes(Settled', size') + MaxBytes * running'
                     <= DirMaxBytes + (MaxConcurrent - running') * Overshoot
<1> SUFFICES ASSUME TypeOK, SlotsAccounted, LinksCounted, RoomAccounted, [Next]_vars, Ready'
             PROVE  Goal
    BY DEF RoomAccounted
<1>0. /\ pc \in [Ids -> {"idle", "opening", "checking", "reading", "closing", "failed",
                         "finished", "done"}]
      /\ size \in [Ids -> 0..FileBytes] /\ entries \subseteq Ids /\ Settled \in SUBSET Ids
      /\ \A e \in entries : pc[e] \in {"finished", "done"}
      /\ Ready => /\ running \in 0..MaxConcurrent /\ reserved = MaxBytes * running
                  /\ Bytes(Settled, size) + MaxBytes * running
                       <= DirMaxBytes + (MaxConcurrent - running) * Overshoot
      /\ Bytes(Settled, size) \in Nat
    BY BytesBound DEF TypeOK, SlotsAccounted, LinksCounted, RoomAccounted, Settled
<1>1. ASSUME UNCHANGED running, Ready, Settled' \subseteq Settled,
             \A e \in Settled' : size'[e] = size[e]
      PROVE  Goal
    <2>1. Settled' \in SUBSET Ids
        BY <1>0, <1>1
    <2>2. Bytes(Settled', size') = Bytes(Settled', size) /\ Bytes(Settled', size) \in Nat
        BY <1>1, <2>1, BytesKept, BytesBound
    <2>3. Bytes(Settled', size) <= Bytes(Settled, size)
        BY <1>0, <1>1, <2>1, BytesOfParts
    <2> QED
        BY <1>0, <1>1, <2>2, <2>3, BytesNumbers
<1>2. CASE UNCHANGED vars
    BY <1>1, <1>2 DEF vars, Settled, Ready
<1>3. ASSUME NEW e \in Ids, Begin(e) PROVE Goal
    <2>1. /\ Ready /\ running < MaxConcurrent /\ running' = running + 1
          /\ StoredBytes + reserved + MaxBytes <= DirMaxBytes
          /\ UNCHANGED <<entries, size>>
          /\ pc[e] = "idle" /\ pc' = [pc EXCEPT ![e] = "opening"]
        BY <1>3 DEF Begin
    <2>2. Settled' = Settled
        BY <1>0, <2>1 DEF Settled
    <2>3. Bytes(Settled, size) <= StoredBytes /\ StoredBytes \in Nat
        BY <1>0, BytesOfParts, StoredBytesType DEF Settled, StoredBytes
    <2>4. /\ MaxConcurrent - running' \in Nat
          /\ (MaxConcurrent - running') * Overshoot \in Nat
          /\ MaxBytes * running' = MaxBytes * running + MaxBytes
          /\ MaxBytes * running \in Nat
        BY <1>0, <2>1, BytesNumbers
    <2> QED
        BY <1>0, <2>1, <2>2, <2>3, <2>4, BytesNumbers
<1>4. ASSUME NEW e \in Ids, Works(e) PROVE Goal
    <2>1. /\ UNCHANGED <<phase, running>>
          /\ \A f \in Ids : f # e => pc'[f] = pc[f]
          /\ pc'[e] = "done" => pc[e] \in {"idle", "done"}
        BY <1>0, <1>4, WorkKeepsPlace DEF Places
    <2>2. /\ entries' \subseteq entries \cup {e}
          /\ pc'[e] = "done" => UNCHANGED <<entries, size>>
          /\ \A f \in Ids : f # e => size'[f] = size[f]
        BY <1>0, <1>4 DEF Works, Refuse, Deadline, CursorOpens, CursorFails, GraceEnds,
                    StartFile, Batch, LastBatch, Fail, Complete, store
    <2>3. Settled' \subseteq Settled /\ \A f \in Settled' : size'[f] = size[f]
        BY <1>0, <2>1, <2>2 DEF Settled
    <2> QED
        BY <1>1, <2>1, <2>3 DEF Ready
<1>5. ASSUME NEW e \in Ids, Finally(e) PROVE Goal
    <2>1. /\ Ready /\ UNCHANGED <<entries, size>> /\ running' = running - 1
          /\ pc' = [pc EXCEPT ![e] = "done"]
        BY <1>5 DEF Finally, Ready
    <2>2. Settled' \subseteq Settled \cup {e} /\ Settled' \in SUBSET Ids
        BY <1>0, <2>1 DEF Settled
    <2>3. Bytes(Settled', size) <= Bytes(Settled \cup {e}, size)
        BY <1>0, <2>2, BytesOfParts
    <2>4. Bytes(Settled \cup {e}, size) <= Bytes(Settled, size) + Bytes({e}, size)
        BY <1>0, BytesOfParts
    <2>5. Bytes({e}, size) <= FileBytes
        <3>1. Cardinality({e}) = 1
            BY FS_Singleton, Zenon
        <3>2. Bytes({e}, size) <= Cardinality({e}) * FileBytes
            BY BytesBound
        <3> QED
            BY <3>1, <3>2, BytesNumbers
    <2>6. /\ Bytes(Settled', size) \in Nat /\ Bytes(Settled \cup {e}, size) \in Nat
          /\ Bytes({e}, size) \in Nat
        BY <1>0, <2>2, BytesBound
    <2>7. /\ MaxBytes * running' = MaxBytes * running - MaxBytes
          /\ MaxBytes * running \in Nat /\ (MaxConcurrent - running) * Overshoot \in Nat
        BY <1>0, <2>1, BytesNumbers
    <2>8. (MaxConcurrent - running') * Overshoot
            = (MaxConcurrent - running) * Overshoot + Overshoot
        <3>1. MaxConcurrent - running' = (MaxConcurrent - running) + 1
            BY <1>0, <2>1, BytesNumbers
        <3>2. (MaxConcurrent - running) \in Int
            BY <1>0, <2>1, BytesNumbers
        <3> QED
            BY <3>1, <3>2, BytesNumbers
    <2> QED
        BY <1>0, <2>1, <2>3, <2>4, <2>5, <2>6, <2>7, <2>8, BytesNumbers
<1>6. CASE Serves
    <2>1. UNCHANGED <<running, size, pc>> /\ Ready
        BY <1>6, ServiceLeavesExports DEF tool
    <2>2. entries' \subseteq entries
        BY <1>6 DEF Serves, Expire, Unlink, Take, OpenFile, EndDownload, Sweep, Close
    <2> QED
        BY <1>1, <2>1, <2>2 DEF Settled
<1>7. CASE CloseEnd
    BY <1>7 DEF CloseEnd, Ready
<1>8. CASE Restart
    <2>1. Settled' = {} /\ running' = 0
        BY <1>8 DEF Restart, Settled
    <2>2. Bytes({}, size') = 0
        BY FS_EmptySet DEF Bytes
    <2>3. MaxConcurrent * Overshoot \in Nat /\ MaxBytes * 0 = 0 /\ MaxConcurrent - 0 = MaxConcurrent
        BY BytesNumbers
    <2> QED
        BY <2>1, <2>2, <2>3, BytesNumbers
<1> HIDE DEF Goal
<1> QED
    BY <1>2, <1>3, <1>4, <1>5, <1>6, <1>7, <1>8, NextCases

\* A file on disk or under way belongs to an export that is settled or running
LEMMA StorageFollows ==
    TypeOK /\ SlotsAccounted /\ FilesAccounted /\ LinksCounted /\ RoomAccounted
    => StorageBounded
<1> SUFFICES ASSUME TypeOK, SlotsAccounted, FilesAccounted, LinksCounted, RoomAccounted, Ready
             PROVE  Bytes(entries \cup part, size) <= DirMaxBytes + MaxConcurrent * Overshoot
    BY DEF StorageBounded
<1>1. /\ Settled \in SUBSET Ids /\ Running \in SUBSET Ids /\ entries \cup part \in SUBSET Ids
      /\ entries \cup part \subseteq Settled \cup Running
    BY DEF TypeOK, FilesAccounted, LinksCounted, Settled, Running
<1>2. /\ Bytes(entries \cup part, size) <= Bytes(Settled \cup Running, size)
      /\ Bytes(Settled \cup Running, size) <= Bytes(Settled, size) + Bytes(Running, size)
    BY <1>1, BytesOfParts
<1>3. /\ running = Cardinality(Running) /\ running \in 0..MaxConcurrent
      /\ Bytes(Settled, size) + MaxBytes * running
           <= DirMaxBytes + (MaxConcurrent - running) * Overshoot
    BY DEF TypeOK, SlotsAccounted, RoomAccounted
<1>4. Bytes(Running, size) <= running * FileBytes
    BY <1>1, <1>3, BytesBound
<1>5. /\ Bytes(entries \cup part, size) \in Nat /\ Bytes(Settled \cup Running, size) \in Nat
      /\ Bytes(Settled, size) \in Nat /\ Bytes(Running, size) \in Nat
    BY <1>1, BytesBound
<1>6. /\ running * FileBytes = MaxBytes * running + running * Overshoot
      /\ (MaxConcurrent - running) * Overshoot = MaxConcurrent * Overshoot - running * Overshoot
      /\ {running * Overshoot, MaxConcurrent * Overshoot, MaxBytes * running} \subseteq Nat
    BY <1>3, BytesNumbers
<1> QED
    BY <1>2, <1>3, <1>4, <1>5, <1>6, BytesNumbers

-----------------------------------------------------------------------------
LEMMA IInvInit == Init => IInv
<1> SUFFICES ASSUME Init PROVE IInv
    OBVIOUS
<1>1. /\ {MaxConcurrent, MaxBytes, DirMaxBytes, MaxDownloads} \subseteq Nat \ {0}
      /\ FileBytes \in Nat /\ Overshoot \in Nat
    BY LimitsAssumption, BytesNumbers
<1>2. TypeOK
    BY <1>1 DEF Init, TypeOK
<1>3. Running = {} /\ Settled = {} /\ \A e \in Ids : {d \in Readers : reader[d].id = e} = {}
    BY LimitsAssumption DEF Init, Running, Settled, NoRead
<1>4. SlotsAccounted /\ FilesAccounted /\ LinksHaveFiles
    BY <1>1, <1>3, FS_EmptySet
    DEF Init, SlotsAccounted, FilesAccounted, LinksHaveFiles, NoRead
<1>5. LinksCounted
    BY <1>1, <1>3, FS_EmptySet DEF Init, LinksCounted
<1>6. RoomAccounted
    <2>1. Bytes({}, size) = 0
        BY FS_EmptySet DEF Bytes
    <2>2. running = 0 /\ MaxConcurrent * Overshoot \in Nat
        BY <1>1 DEF Init
    <2> QED
        BY <1>1, <1>3, <2>1, <2>2 DEF RoomAccounted
<1>7. SizesBelow /\ CursorsHeld
    BY <1>1 DEF Init, SizesBelow, CursorsHeld
<1> QED
    BY <1>2, <1>4, <1>5, <1>6, <1>7 DEF IInv

LEMMA IInvStep == IInv /\ [Next]_vars => IInv'
<1> SUFFICES ASSUME IInv, [Next]_vars PROVE IInv'
    OBVIOUS
<1>1. /\ TypeOK /\ SlotsAccounted /\ FilesKept /\ SizesBelow /\ RoomAccounted
      /\ LinksCounted /\ LinksHaveFiles /\ CursorsHeld
    BY DEF IInv, FilesAccounted, FilesKept, Kept
<1>2. /\ SlotsAccounted' /\ FilesKept' /\ SizesBelow' /\ RoomAccounted'
      /\ LinksCounted' /\ LinksHaveFiles' /\ CursorsHeld'
    BY <1>1, SlotsStep, FilesStep, SizesStep, RoomStep, LinksStep, LinkedStep, CursorsStep
<1>3. TypeOK'
    BY <1>1, SlotsStep, FilesStep, SizesStep, LinksStep, CursorsStep
    DEF TypeOK, Places, ReaderRecord
<1>4. FilesAccounted'
    BY <1>2 DEF FilesAccounted, FilesKept, Kept, LinksHaveFiles
<1> QED
    BY <1>2, <1>3, <1>4 DEF IInv

\* Every reachable state satisfies the inductive invariant
THEOREM Invariance == Spec => []IInv
BY IInvInit, IInvStep, PTL DEF Spec

\* However exports, deadlines, downloads, sweeps, the close of the store and
\* restarts interleave, every running export holds one place and one
\* reservation, the files stay within EXPORT_DIR_MAX_BYTES but for what
\* MaxConcurrent exports may write past EXPORT_MAX_BYTES, no file is forgotten,
\* and no link gives more downloads than EXPORT_MAX_DOWNLOADS.
THEOREM PlacesFilesAndLinks == Spec => []ExportsAccounted
<1>1. IInv => ExportsAccounted
    <2>1. TypeOK /\ LinksCounted => DownloadsBounded
        BY LimitsAssumption DEF TypeOK, LinksCounted, DownloadsBounded
    <2> QED
        BY <2>1, StorageFollows DEF IInv, ExportsAccounted
<1> QED
    BY <1>1, Invariance, PTL

\* An export that ends before its deadline leaves no cursor open.
THEOREM CursorsClosed == Spec => []CursorClosedInTime
<1>1. IInv => CursorClosedInTime
    BY DEF IInv, TypeOK, CursorsHeld, CursorClosedInTime
<1> QED
    BY <1>1, Invariance, PTL

-----------------------------------------------------------------------------
(* The refinement of ExportLinks: an export that completes publishes its link,*)
(* a request that takes a link starts a download, and whatever else happens   *)
(* to exports and files ends links or is no step at all.                      *)

LEMMA LinkTypes ==
    ASSUME IInv
    PROVE  /\ \A e \in entries : pc[e] \in {"finished", "done"}
           /\ entries \subseteq Ids /\ Over \subseteq Ids
           /\ \A e \in entries : e \notin Over
           /\ downloads \in [Ids -> 0..MaxDownloads] /\ MaxDownloads \in Nat
BY LimitsAssumption DEF IInv, TypeOK, LinksCounted, Over

\* Links that go, and exports that end without one
LEMMA LinksEnd ==
    ASSUME IInv, UNCHANGED downloads, entries' \subseteq entries,
           \A e \in Ids : pc[e] \in {"finished", "done"} => pc'[e] \in {"finished", "done"}
    PROVE  Links!Next
<1> DEFINE S == Over' \ Over
<1>1. S \subseteq Ids /\ \A e \in Over : e \in Over'
    BY DEF Over
<1>2. Over' = Over \cup S
    BY <1>1
<1>3. entries' = entries \ S
    BY LinkTypes DEF Over
<1> HIDE DEF S
<1>4. Links!End(S)
    BY <1>2, <1>3 DEF Links!End
<1> QED
    BY <1>1, <1>4 DEF Links!Next

LEMMA LinksInit == Init => Links!Init
BY DEF Init, Links!Init, Over

LEMMA LinksFollow == IInv /\ [Next]_vars => [Links!Next]_Links!vars
<1> SUFFICES ASSUME IInv, [Next]_vars PROVE [Links!Next]_Links!vars
    OBVIOUS
<1>0. TypeOK
    BY DEF IInv
<1>1. CASE UNCHANGED <<entries, downloads, pc>>
    BY <1>1 DEF Links!vars, Over
<1>2. ASSUME NEW e \in Ids, Complete(e) PROVE Links!Next
    <2>1. /\ UNCHANGED downloads /\ entries' = entries \cup {e}
          /\ pc[e] = "closing" /\ pc' = [pc EXCEPT ![e] = "finished"]
        BY <1>2 DEF Complete
    <2>2. e \notin entries \cup Over /\ Over' = Over
        BY <1>0, <2>1, LinkTypes DEF Over, TypeOK
    <2>3. Links!Publish(e)
        BY <2>1, <2>2 DEF Links!Publish
    <2> QED
        BY <2>3 DEF Links!Next
<1>3. ASSUME NEW d \in Readers, NEW e \in Ids, Take(d, e) PROVE Links!Next
    <2>1. /\ UNCHANGED pc /\ e \in entries
          /\ downloads' = [downloads EXCEPT ![e] = downloads[e] + 1]
          /\ entries' = IF downloads[e] + 1 >= MaxDownloads THEN entries \ {e} ELSE entries
        BY <1>0, <1>3, TakeCounts DEF Take, tool
    <2>2. downloads'[e] = downloads[e] + 1 /\ downloads[e] + 1 \in Nat
        BY <2>1, LinkTypes
    <2>3. Over' = IF downloads[e] + 1 >= MaxDownloads THEN Over \cup {e} ELSE Over
        BY <2>1, LinkTypes DEF Over
    <2>4. downloads'[e] < MaxDownloads <=> ~(downloads[e] + 1 >= MaxDownloads)
        BY <2>2, LinkTypes
    <2>5. Links!Download(e)
        BY <2>1, <2>3, <2>4 DEF Links!Download
    <2> QED
        BY <2>5 DEF Links!Next
<1>4. ASSUME NEW e \in Ids, Begin(e) \/ (Works(e) /\ ~Complete(e)) \/ Finally(e) PROVE Links!Next
    <2>1. UNCHANGED <<downloads, entries>>
        BY <1>4 DEF Begin, Works, Refuse, Deadline, CursorOpens, CursorFails, GraceEnds,
                    StartFile, Batch, LastBatch, Fail, Finally, store
    <2>2. \A f \in Ids : pc[f] \in {"finished", "done"} => pc'[f] \in {"finished", "done"}
        <3>1. CASE Works(e)
            BY <1>0, <3>1, WorkKeepsPlace
        <3>2. CASE Begin(e) \/ Finally(e)
            BY <1>0, <3>2 DEF Begin, Finally, TypeOK
        <3> QED
            BY <1>4, <3>1, <3>2
    <2> QED
        BY <2>1, <2>2, LinksEnd
<1>5. CASE Sweep \/ Close
    BY <1>5, LinksEnd DEF Sweep, Close, tool
<1>6. CASE Restart
    BY <1>6, LinksEnd DEF Restart
<1>7. CASE CloseEnd \/ \E e \in Ids : Expire(e) \/ Unlink(e)
    BY <1>1, <1>7 DEF CloseEnd, Expire, Unlink, tool
<1>8. CASE \E d \in Readers : OpenFile(d) \/ EndDownload(d)
    BY <1>1, <1>8 DEF OpenFile, EndDownload, tool
<1> QED
    BY <1>1, <1>2, <1>3, <1>4, <1>5, <1>6, <1>7, <1>8, NextCases DEF vars, Serves

\* The store implements ExportLinks: the link of an export is published once at
\* most, starts EXPORT_MAX_DOWNLOADS downloads at most, and once it is used up,
\* has expired or is gone with the store, nothing brings it back.
THEOREM StoreImplementsLinks == Spec => ImplementsLinks
<1>1. Spec => Links!Init /\ [][Links!Next]_Links!vars
    BY Invariance, LinksInit, LinksFollow, PTL DEF Spec
<1> QED
    BY <1>1 DEF ImplementsLinks, Links!Spec

=============================================================================
