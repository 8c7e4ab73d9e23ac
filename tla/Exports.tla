------------------------------ MODULE Exports --------------------------------
(***************************************************************************)
(* Query exports: export_query (src/tools/exportQuery.ts), the export store *)
(* (src/export/store.ts), download links (src/export/download.ts) and what  *)
(* they need of a row cursor (openQueryCursor in src/db/connection.ts).     *)
(*                                                                         *)
(* A byte count is a small number, and a deadline, an expiry or a fault may  *)
(* come at any moment.  Left out: what is written (masking, formats,         *)
(* samples, warnings), the checks before a slot is taken, and the caps on    *)
(* rows and on bytes before compression, which end an export the way         *)
(* LastBatch does.                                                           *)
(***************************************************************************)
EXTENDS Integers, FiniteSets

CONSTANTS
    Ids,            \* exports, by id; each is run once
    Readers,        \* download requests, each made once
    MaxConcurrent,  \* EXPORT_MAX_CONCURRENT
    MaxBytes,       \* EXPORT_MAX_BYTES
    DirMaxBytes,    \* EXPORT_DIR_MAX_BYTES
    MaxDownloads,   \* EXPORT_MAX_DOWNLOADS
    BatchBytes,     \* most bytes a batch adds to its file, the header with the first
    TailBytes,      \* most bytes that come after the last batch
    None

ASSUME LimitsAssumption ==
    /\ {MaxConcurrent, MaxBytes, DirMaxBytes, MaxDownloads, BatchBytes} \subseteq Nat \ {0}
    /\ TailBytes \in Nat
    /\ None \notin Ids
ASSUME FiniteAssumption == IsFiniteSet(Ids) /\ IsFiniteSet(Readers)

VARIABLES
    phase,      \* "closed" once config is unset, "closing" while closeExportStore waits
    closing,    \* the exports whose files it waits for
    running,    \* running
    reserved,   \* reservedBytes
    entries,    \* the registry
    expired,    \* entries past expiresAt
    unlinking,  \* exports whose file the sweep or the close has yet to unlink
    part,       \* part files on disk
    final,      \* finished files on disk
    size,       \* bytes written for each export
    pc,         \* where exportQueryTool is
    held,       \* exports whose cursor exportQueryTool holds
    cursor,     \* the cursor of each export, as its driver has it
    aborted,    \* exports past their deadline
    downloads,  \* downloads started, per export
    reader      \* the download requests

vars == <<phase, closing, running, reserved, entries, expired, unlinking, part, final,
          size, pc, held, cursor, aborted, downloads, reader>>

store == <<phase, closing, running, reserved, entries, expired, unlinking, final,
           downloads, reader>>

\* isExportStoreReady
Ready == phase # "closed"

\* The export stops after the batch that reaches MaxBytes: what its file may have
\* beyond them, and the longest file
Overshoot == BatchBytes - 1 + TailBytes
FileBytes == MaxBytes + Overshoot

NoRead == [pc |-> "idle", id |-> None, last |-> FALSE]

TypeOK ==
    /\ phase \in {"open", "closing", "closed"}
    /\ closing \subseteq Ids
    /\ running \in Int
    /\ reserved \in Int
    /\ Ready => running \in 0..MaxConcurrent /\ reserved \in 0..DirMaxBytes
    /\ entries \subseteq Ids
    /\ expired \subseteq Ids
    /\ unlinking \subseteq Ids
    /\ part \subseteq Ids
    /\ final \subseteq Ids
    /\ size \in [Ids -> 0..FileBytes]
    /\ pc \in [Ids -> {"idle", "opening", "checking", "reading", "closing", "failed",
                       "finished", "done"}]
    /\ held \subseteq Ids
    /\ cursor \in [Ids -> {"none", "opening", "open", "closed"}]
    /\ aborted \subseteq Ids
    /\ downloads \in [Ids -> 0..MaxDownloads]
    /\ reader \in [Readers -> {NoRead} \cup
                     [pc: {"opening", "sending", "failed", "done"}, id: Ids, last: BOOLEAN]]

Init ==
    /\ phase = "open"
    /\ closing = {}
    /\ running = 0
    /\ reserved = 0
    /\ entries = {}
    /\ expired = {}
    /\ unlinking = {}
    /\ part = {}
    /\ final = {}
    /\ size = [e \in Ids |-> 0]
    /\ pc = [e \in Ids |-> "idle"]
    /\ held = {}
    /\ cursor = [e \in Ids |-> "none"]
    /\ aborted = {}
    /\ downloads = [e \in Ids |-> 0]
    /\ reader = [d \in Readers |-> NoRead]

Running     == {e \in Ids : pc[e] \notin {"idle", "done"}}

\* The bytes of some files of these sizes, counted one by one
Bytes(files, sizes) == Cardinality({b \in files \X (1..FileBytes) : b[2] <= sizes[b[1]]})

\* storedBytes: the bytes of the files in the registry
StoredBytes == Bytes(entries, size)

-----------------------------------------------------------------------------
(***************************************************************************)
(* export_query                                                            *)
(***************************************************************************)

\* beginExport takes a slot, and the cursor is being opened
Begin(e) ==
    /\ pc[e] = "idle"
    /\ Ready
    /\ running < MaxConcurrent
    /\ StoredBytes + reserved + MaxBytes <= DirMaxBytes
    /\ running' = running + 1
    /\ reserved' = reserved + MaxBytes
    /\ pc' = [pc EXCEPT ![e] = "opening"]
    /\ cursor' = [cursor EXCEPT ![e] = "opening"]
    /\ UNCHANGED <<phase, closing, entries, expired, unlinking, part, final, size, held,
                   aborted, downloads, reader>>

\* beginExport refuses
Refuse(e) ==
    /\ pc[e] = "idle"
    /\ ~Ready \/ running >= MaxConcurrent
         \/ StoredBytes + reserved + MaxBytes > DirMaxBytes
    /\ pc' = [pc EXCEPT ![e] = "done"]
    /\ UNCHANGED <<store, part, size, held, cursor, aborted>>

\* EXPORT_TIMEOUT passes: the statement is told to stop
Deadline(e) ==
    /\ pc[e] \in {"opening", "checking", "reading", "closing"}
    /\ aborted' = aborted \cup {e}
    /\ UNCHANGED <<store, part, size, pc, held, cursor>>

\* The driver has the cursor.  beforeDeadline passes it on, unless the deadline
\* is over; once the grace is over too, nobody listens.
CursorOpens(e) ==
    /\ cursor[e] = "opening"
    /\ cursor' = [cursor EXCEPT ![e] = "open"]
    /\ IF pc[e] # "opening" THEN UNCHANGED <<pc, held>>
       ELSE IF e \in aborted
       THEN pc' = [pc EXCEPT ![e] = "failed"] /\ UNCHANGED held
       ELSE pc' = [pc EXCEPT ![e] = "checking"] /\ held' = held \cup {e}
    /\ UNCHANGED <<store, part, size, aborted>>

\* The driver could not open it, or the abort came first
CursorFails(e) ==
    /\ cursor[e] = "opening"
    /\ cursor' = [cursor EXCEPT ![e] = "closed"]
    /\ pc' = IF pc[e] = "opening" THEN [pc EXCEPT ![e] = "failed"] ELSE pc
    /\ UNCHANGED <<store, part, size, held, aborted>>

\* Mutant: the deadline has no grace of its own
GraceEndsNever(e) ==
    /\ pc[e] = "reading"
    /\ e \in aborted
    /\ pc' = [pc EXCEPT ![e] = "failed"]
    /\ UNCHANGED <<store, part, size, held, cursor, aborted>>

\* beforeDeadline: the driver has not answered CANCEL_GRACE_MS after the abort
GraceEnds(e) ==
    /\ pc[e] \in {"opening", "reading"}
    /\ e \in aborted
    /\ pc' = [pc EXCEPT ![e] = "failed"]
    /\ UNCHANGED <<store, part, size, held, cursor, aborted>>

\* The columns are accepted, and the writer creates the part file
StartFile(e) ==
    /\ pc[e] = "checking"
    /\ pc' = [pc EXCEPT ![e] = "reading"]
    /\ part' = part \cup {e}
    /\ UNCHANGED <<store, size, held, cursor, aborted>>

\* A batch is written; at the size cap the export stops
Batch(e) ==
    /\ pc[e] = "reading"
    /\ e \notin aborted
    /\ \E n \in 0..BatchBytes : size' = [size EXCEPT ![e] = @ + n]
    /\ pc' = IF size'[e] >= MaxBytes THEN [pc EXCEPT ![e] = "closing"] ELSE pc
    /\ UNCHANGED <<store, part, held, cursor, aborted>>

\* No more rows
LastBatch(e) ==
    /\ pc[e] = "reading"
    /\ e \notin aborted
    /\ pc' = [pc EXCEPT ![e] = "closing"]
    /\ UNCHANGED <<store, part, size, held, cursor, aborted>>

\* Columns that may not be exported, a failed fetch or write
Fail(e) ==
    /\ pc[e] \in {"checking", "reading", "closing"}
    /\ pc' = [pc EXCEPT ![e] = "failed"]
    /\ UNCHANGED <<store, part, size, held, cursor, aborted>>

\* The cursor is closed, the file finished, renamed and registered
Complete(e) ==
    /\ pc[e] = "closing"
    /\ \E n \in 0..TailBytes : size' = [size EXCEPT ![e] = @ + n]
    /\ pc' = [pc EXCEPT ![e] = "finished"]
    /\ cursor' = [cursor EXCEPT ![e] = "closed"]
    /\ held' = held \ {e}
    /\ part' = part \ {e}
    /\ final' = final \cup {e}
    /\ entries' = entries \cup {e}
    /\ UNCHANGED <<phase, closing, running, reserved, expired, unlinking, aborted,
                   downloads, reader>>

\* Mutant: the cursor is closed by a finished export only
FinallyLeavingCursor(e) ==
    /\ pc[e] \in {"failed", "finished"}
    /\ pc' = [pc EXCEPT ![e] = "done"]
    /\ held' = held \ {e}
    /\ part' = part \ {e}
    /\ running' = running - 1
    /\ reserved' = reserved - MaxBytes
    /\ UNCHANGED <<phase, closing, entries, expired, unlinking, final, size, cursor,
                   aborted, downloads, reader>>

\* The finally of exportQueryTool: the cursor it holds is closed, the slot given
\* back, and the part file goes.  Its awaits are one step, since nothing else
\* reads that cursor or that file.
Finally(e) ==
    /\ pc[e] \in {"failed", "finished"}
    /\ pc' = [pc EXCEPT ![e] = "done"]
    /\ cursor' = IF e \in held THEN [cursor EXCEPT ![e] = "closed"] ELSE cursor
    /\ held' = held \ {e}
    /\ part' = part \ {e}
    /\ running' = running - 1
    /\ reserved' = reserved - MaxBytes
    /\ UNCHANGED <<phase, closing, entries, expired, unlinking, final, size, aborted,
                   downloads, reader>>

-----------------------------------------------------------------------------
(***************************************************************************)
(* Downloads and expiry                                                    *)
(***************************************************************************)

tool == <<running, reserved, part, size, pc, held, cursor, aborted>>

\* expiresAt passes
Expire(e) ==
    /\ e \in entries \ expired
    /\ expired' = expired \cup {e}
    /\ UNCHANGED <<tool, phase, closing, entries, unlinking, final, downloads, reader>>

\* GET /exports/:id, takeExport: the last allowed download removes the link
Take(d, e) ==
    /\ reader[d].pc = "idle"
    /\ Ready
    /\ e \in entries \ expired
    /\ downloads' = [downloads EXCEPT ![e] = @ + 1]
    /\ LET last == downloads'[e] >= MaxDownloads IN
         /\ entries' = IF last THEN entries \ {e} ELSE entries
         /\ reader' = [reader EXCEPT ![d] = [pc |-> "opening", id |-> e, last |-> last]]
    /\ UNCHANGED <<tool, phase, closing, expired, unlinking, final>>

\* The file is opened, or it is gone
OpenFile(d) ==
    /\ reader[d].pc = "opening"
    /\ reader' = [reader EXCEPT ![d].pc =
                     IF reader[d].id \in final THEN "sending" ELSE "failed"]
    /\ UNCHANGED <<tool, phase, closing, entries, expired, unlinking, final, downloads>>

\* The response is closed, whether or not the download completed
EndDownload(d) ==
    /\ reader[d].pc \in {"opening", "sending", "failed"}
    /\ reader' = [reader EXCEPT ![d].pc = "done"]
    /\ final' = IF reader[d].last THEN final \ {reader[d].id} ELSE final
    /\ UNCHANGED <<tool, phase, closing, entries, expired, unlinking, downloads>>

\* Mutant: the file of an expired export is forgotten with it
SweepForgetting ==
    /\ entries \cap expired # {}
    /\ entries' = entries \ expired
    /\ UNCHANGED <<tool, phase, closing, expired, unlinking, final, downloads, reader>>

\* sweepExpired
Sweep ==
    /\ phase = "open"
    /\ entries \cap expired # {}
    /\ entries' = entries \ expired
    /\ unlinking' = unlinking \cup (entries \cap expired)
    /\ UNCHANGED <<tool, phase, closing, expired, final, downloads, reader>>

\* A file the sweep or the close deletes is gone
Unlink(e) ==
    /\ e \in unlinking
    /\ unlinking' = unlinking \ {e}
    /\ final' = final \ {e}
    /\ UNCHANGED <<tool, phase, closing, entries, expired, downloads, reader>>

\* closeExportStore stops the sweep and deletes the files of the registry
Close ==
    /\ phase = "open"
    /\ phase' = "closing"
    /\ closing' = entries
    /\ unlinking' = unlinking \cup entries
    /\ entries' = {}
    /\ UNCHANGED <<tool, expired, final, downloads, reader>>

\* They are gone, and the store is closed.  Exports may have begun or completed
\* since, and go on.
CloseEnd ==
    /\ phase = "closing"
    /\ closing \cap unlinking = {}
    /\ phase' = "closed"
    /\ running' = 0
    /\ reserved' = 0
    /\ UNCHANGED <<closing, entries, expired, unlinking, part, final, size, pc, held,
                   cursor, aborted, downloads, reader>>

\* The process ends, at any moment; initExportStore of the next one deletes
\* the export files it finds
Restart ==
    /\ phase' = "open"
    /\ closing' = {}
    /\ running' = 0
    /\ reserved' = 0
    /\ entries' = {}
    /\ unlinking' = {}
    /\ part' = {}
    /\ final' = {}
    /\ pc' = [e \in Ids |-> IF pc[e] = "idle" THEN "idle" ELSE "done"]
    /\ held' = {}
    /\ cursor' = [e \in Ids |-> IF cursor[e] = "none" THEN "none" ELSE "closed"]
    /\ reader' = [d \in Readers |->
                    IF reader[d] = NoRead THEN NoRead ELSE [reader[d] EXCEPT !.pc = "done"]]
    /\ UNCHANGED <<expired, size, aborted, downloads>>

-----------------------------------------------------------------------------
Next ==
    \/ \E e \in Ids : Begin(e)
    \/ \E e \in Ids : Refuse(e)
    \/ \E e \in Ids : Deadline(e)
    \/ \E e \in Ids : CursorOpens(e)
    \/ \E e \in Ids : CursorFails(e)
    \/ \E e \in Ids : GraceEnds(e)
    \/ \E e \in Ids : StartFile(e)
    \/ \E e \in Ids : Batch(e)
    \/ \E e \in Ids : LastBatch(e)
    \/ \E e \in Ids : Fail(e)
    \/ \E e \in Ids : Complete(e)
    \/ \E e \in Ids : Finally(e)
    \/ \E e \in Ids : Expire(e)
    \/ \E d \in Readers, e \in Ids : Take(d, e)
    \/ \E d \in Readers : OpenFile(d)
    \/ \E d \in Readers : EndDownload(d)
    \/ Sweep
    \/ \E e \in Ids : Unlink(e)
    \/ Close
    \/ CloseEnd
    \/ Restart

Spec == Init /\ [][Next]_vars

\* The deadline's timer and its grace fire, the tool's own steps and the close of
\* a cursor settle; opening a cursor or reading a batch may never be answered,
\* and a client may never end its download.
Fairness ==
    /\ \A e \in Ids : /\ WF_vars(e \notin aborted /\ Deadline(e))
                      /\ WF_vars(GraceEnds(e))
                      /\ WF_vars(StartFile(e))
                      /\ WF_vars(Complete(e) \/ (pc[e] = "closing" /\ Fail(e)))
                      /\ WF_vars(Finally(e))

FairSpec == Spec /\ Fairness

-----------------------------------------------------------------------------
(***************************************************************************)
(* Properties                                                              *)
(***************************************************************************)

\* The limits count what runs: while the store is open, every export that has
\* begun and not ended holds one place and one reservation, no other does.
SlotsAccounted ==
    Ready => /\ running = Cardinality(Running)
             /\ reserved = MaxBytes * running

\* A link that works has its file, which no sweep, close or last download
\* deletes under it.  And no file is forgotten: while the store is open, a
\* finished file is in the registry, about to be deleted, or being sent for the
\* last time, and a part file belongs to a running export.
FilesAccounted ==
    /\ part \subseteq Running
    /\ entries \subseteq final
    /\ Ready => \A e \in final :
         \/ e \in entries \cup unlinking
         \/ \E d \in Readers : /\ reader[d].id = e
                               /\ reader[d].last
                               /\ reader[d].pc \in {"opening", "sending", "failed"}

\* A link gives no more downloads than EXPORT_MAX_DOWNLOADS, however many
\* requests race for it.
DownloadsBounded ==
    \A e \in Ids : Cardinality({d \in Readers : reader[d].id = e}) <= MaxDownloads

\* The registered files and those being written take no more than
\* EXPORT_DIR_MAX_BYTES, but for what each export that can run at a time writes
\* before it sees that it has reached EXPORT_MAX_BYTES.
StorageBounded ==
    Ready => Bytes(entries \cup part, size) <= DirMaxBytes + MaxConcurrent * Overshoot

\* Places, bytes, files and links are accounted for
ExportsAccounted ==
    TypeOK /\ SlotsAccounted /\ StorageBounded /\ FilesAccounted /\ DownloadsBounded

\* An export that ends before its deadline leaves no cursor open
CursorClosedInTime ==
    \A e \in Ids : pc[e] = "done" /\ e \notin aborted => cursor[e] \in {"none", "closed"}

\* With a driver that never opens the cursor or never answers a read, an export
\* ends at its deadline.
ExportsEnd == \A e \in Ids : pc[e] = "opening" ~> pc[e] = "done"

\* The store implements ExportLinks: a link is published when its export is
\* complete, and is over when the export has ended and is not in the registry.
\* So no order of downloads, sweeps, closes and restarts brings a link back.
Over == {e \in Ids : pc[e] \in {"finished", "done"} /\ e \notin entries}

Links == INSTANCE ExportLinks WITH live <- entries, started <- downloads, over <- Over

ImplementsLinks == Links!Spec

\* "The cursor holds one connection or job until it is closed, so the caller
\* must close it in a `finally`" (connection.ts): when exportQueryTool is over,
\* its cursor is closed or the driver is still opening it.  The code does not
\* keep this.
CursorReleased == \A e \in Ids : pc[e] = "done" => cursor[e] # "open"

=============================================================================
