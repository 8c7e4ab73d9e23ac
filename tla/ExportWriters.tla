----------------------------- MODULE ExportWriters -----------------------------
(* One export file being written: the CSV or XLSX writer, the sink below it and *)
(* the stream that opens, buffers, writes and fails in its own time. Pieces     *)
(* stand for the header and the batches of rows, numbered as they are given;    *)
(* the end of an XLSX file is one more. Compression may hold pieces back.       *)
(* Files: src/export/writer.ts, src/export/csv.ts, src/export/xlsx.ts           *)
EXTENDS Naturals, Sequences

CONSTANTS
    MaxPieces,      \* bound
    HighWater       \* pieces at which the stream's buffer counts as full

ASSUME WritersAssumption == MaxPieces \in Nat /\ HighWater \in Nat \ {0}

VARIABLES
    fileFormat,
    writerCall,     \* the exporter's call of the writer
    given,          \* pieces given to the writer
    compressor,     \* XlsxWriter.sheet, zip: pieces it has not passed on
    chunks,         \* chunks whose write() is not through, in their order
    draining,       \* the first of them waits for 'drain'
    rejected,       \* XlsxWriter.written is rejected, or CsvWriter's write
    stream,
    streamEnded,    \* stream.end() was called
    buffer,         \* pieces in the stream's buffer
    written         \* pieces in the file

writerVars == <<fileFormat, writerCall, given, compressor, chunks, draining, rejected,
                stream, streamEnded, buffer, written>>
callVars == <<fileFormat, given, compressor>>
streamVars == <<stream, streamEnded, buffer, written>>

(* "failing" is a destroyed stream whose error is not told yet, "failed" one    *)
(* that has emitted it: FileSink.failure is set, and the stream is closed.      *)
WritersTypeOK ==
    /\ fileFormat \in {"csv", "xlsx"}
    /\ writerCall \in {"none", "write", "ready", "flush", "end", "finished", "refused", "abort", "closing", "aborted"}
    /\ given \in 0..MaxPieces + 1
    /\ compressor \in Seq(1..MaxPieces + 1)
    /\ \A i \in DOMAIN chunks : chunks[i] \in Seq(1..MaxPieces + 1)
    /\ {draining, rejected, streamEnded} \subseteq BOOLEAN
    /\ stream \in {"opening", "open", "failing", "failed", "finished", "closed"}
    /\ buffer \in Seq(1..MaxPieces + 1) /\ written \in Seq(1..MaxPieces + 1)

WritersInit ==
    /\ fileFormat \in {"csv", "xlsx"}
    /\ writerCall = "none"
    /\ given = 0
    /\ compressor = <<>> /\ chunks = <<>>
    /\ draining = FALSE /\ rejected = FALSE
    /\ stream = "opening" /\ streamEnded = FALSE
    /\ buffer = <<>> /\ written = <<>>

-----------------------------------------------------------------------------
(* The writer *)

(* fflate passes on as much as it likes of what it was given, all at the end,   *)
(* while push() runs; CSV has nothing to hold back.                             *)
Push(final) ==
    /\ given' = given + 1
    /\ LET held == Append(compressor, given + 1)
       IN  \E n \in 0..Len(held) :
              /\ final \/ fileFormat = "csv" => n = Len(held)
              /\ compressor' = SubSeq(held, n + 1, Len(held))
              /\ chunks' = IF n = 0 THEN chunks ELSE Append(chunks, SubSeq(held, 1, n))
    /\ UNCHANGED <<fileFormat, draining, rejected, streamVars>>

(* writeHeader(), then writeRows() *)
WritePiece ==
    /\ writerCall \in {"none", "ready"}
    /\ given < MaxPieces
    /\ writerCall' = "write"
    /\ Push(FALSE)

(* flush() *)
Flushed(from, to) ==
    /\ writerCall = from
    /\ chunks = <<>>
    /\ writerCall' = IF rejected THEN "refused" ELSE to
    /\ UNCHANGED <<callVars, chunks, draining, rejected, streamVars>>

PieceWritten == Flushed("write", "ready")

Finish ==
    /\ writerCall = "ready"
    /\ IF fileFormat = "csv"
       THEN /\ writerCall' = "end"
            /\ UNCHANGED <<callVars, chunks, draining, rejected, streamVars>>
       ELSE /\ writerCall' = "flush"
            /\ Push(TRUE)

EndFlushed == Flushed("flush", "end")

(* A call was refused, or the exporter gave up between two: the rows failed,    *)
(* its time was over, or a sheet would have too many rows.                      *)
AbortFile ==
    /\ writerCall \in {"ready", "refused"}
    /\ writerCall' = "abort"
    /\ UNCHANGED <<callVars, chunks, draining, rejected, streamVars>>

-----------------------------------------------------------------------------
(* FileSink *)

(* Mutant: a stream that has failed is written to all the same *)
SinkWriteUnchecked ==
    /\ chunks # <<>> /\ ~draining
    /\ stream \in {"open", "failing", "failed"}
    /\ LET held == buffer \o Head(chunks)
       IN  /\ buffer' = IF stream = "open" THEN held ELSE buffer
           /\ IF stream = "open" /\ Len(held) < HighWater
              THEN chunks' = Tail(chunks) /\ UNCHANGED draining
              ELSE draining' = TRUE /\ UNCHANGED chunks
           /\ UNCHANGED rejected
    /\ UNCHANGED <<callVars, writerCall, stream, streamEnded, written>>

(* write(), once the file is open. A stream that fails just now takes nothing   *)
(* and answers false too. After a failure the writes chained to it are skipped. *)
SinkWrite ==
    /\ chunks # <<>> /\ ~draining
    /\ \/ /\ stream = "failed"
          /\ rejected' = TRUE
          /\ chunks' = <<>>
          /\ UNCHANGED <<draining, buffer>>
       \/ /\ stream \in {"open", "failing"}
          /\ LET held == buffer \o Head(chunks)
             IN  /\ buffer' = IF stream = "open" THEN held ELSE buffer
                 /\ IF stream = "open" /\ Len(held) < HighWater
                    THEN chunks' = Tail(chunks) /\ UNCHANGED draining
                    ELSE draining' = TRUE /\ UNCHANGED chunks
          /\ UNCHANGED rejected
    /\ UNCHANGED <<callVars, writerCall, stream, streamEnded, written>>

Drain ==
    /\ draining
    /\ stream = "open" /\ buffer = <<>>
    /\ draining' = FALSE
    /\ chunks' = Tail(chunks)
    /\ UNCHANGED <<callVars, writerCall, rejected, streamVars>>

(* end() *)
SinkEnd ==
    /\ writerCall = "end" /\ ~streamEnded /\ stream # "opening"
    /\ IF stream = "failed"
       THEN writerCall' = "refused" /\ UNCHANGED streamEnded
       ELSE streamEnded' = TRUE /\ UNCHANGED writerCall
    /\ UNCHANGED <<callVars, chunks, draining, rejected, stream, buffer, written>>

(* destroy(), after the writes under way; a closed stream needs nothing *)
SinkDestroy ==
    /\ writerCall = "abort"
    /\ chunks = <<>>
    /\ writerCall' = IF stream = "failed" THEN "aborted" ELSE "closing"
    /\ UNCHANGED <<callVars, chunks, draining, rejected, streamVars>>

-----------------------------------------------------------------------------
(* The stream *)

Opened ==
    /\ stream = "opening" /\ writerCall # "closing"
    /\ stream' \in {"open", "failed"}
    /\ UNCHANGED <<callVars, writerCall, chunks, draining, rejected, streamEnded, buffer, written>>

DiskTakes ==
    /\ stream = "open" /\ buffer # <<>> /\ writerCall # "closing"
    /\ \E n \in 1..Len(buffer) :
          /\ written' = written \o SubSeq(buffer, 1, n)
          /\ buffer' = SubSeq(buffer, n + 1, Len(buffer))
    /\ UNCHANGED <<callVars, writerCall, chunks, draining, rejected, stream, streamEnded>>

(* The disk is full, for one: the stream destroys itself, and tells it when the *)
(* file is closed.                                                              *)
DiskFails ==
    /\ stream = "open" /\ buffer # <<>> /\ writerCall # "closing"
    /\ stream' = "failing"
    /\ buffer' = <<>>
    /\ UNCHANGED <<callVars, writerCall, chunks, draining, rejected, streamEnded, written>>

(* 'error' refuses whoever waits for 'drain', 'finish' or, caught, for 'close' *)
ErrorTold ==
    /\ stream = "failing"
    /\ stream' = "failed"
    /\ draining' = FALSE
    /\ rejected' = (rejected \/ draining)
    /\ chunks' = IF draining THEN <<>> ELSE chunks
    /\ writerCall' = CASE writerCall = "end" /\ streamEnded -> "refused"
                       [] writerCall = "closing" -> "aborted"
                       [] OTHER -> writerCall
    /\ UNCHANGED <<callVars, streamEnded, buffer, written>>

StreamFinishes ==
    /\ streamEnded /\ stream = "open" /\ buffer = <<>>
    /\ stream' = "finished"
    /\ writerCall' = "finished"
    /\ UNCHANGED <<callVars, chunks, draining, rejected, streamEnded, buffer, written>>

StreamCloses ==
    /\ writerCall = "closing" /\ stream \in {"opening", "open"}
    /\ stream' = "closed"
    /\ buffer' = <<>>
    /\ writerCall' = "aborted"
    /\ UNCHANGED <<callVars, chunks, draining, rejected, streamEnded, written>>

WritersNext ==
    \/ WritePiece \/ PieceWritten \/ Finish \/ EndFlushed \/ AbortFile
    \/ SinkWrite \/ Drain \/ SinkEnd \/ SinkDestroy
    \/ Opened \/ DiskTakes \/ DiskFails \/ ErrorTold \/ StreamFinishes \/ StreamCloses

WritersSpec == WritersInit /\ [][WritersNext]_writerVars

-----------------------------------------------------------------------------
(* Properties *)

(* The file holds the pieces in their order, and all of them when the writer    *)
(* says it is finished, however the stream buffered them and whenever it        *)
(* failed. A caller that may go on has left no write behind and less than a     *)
(* full buffer, and nothing is lost unless the stream has failed. Who waits for *)
(* the stream is told: 'drain' and 'finish' are awaited only while they can     *)
(* come, or the error can. An aborted file is closed.                           *)
FileIsWhole ==
    /\ WritersTypeOK
    /\ written = [i \in 1..Len(written) |-> i]
    /\ writerCall = "finished" => Len(written) = given
    /\ writerCall = "ready" =>
          /\ chunks = <<>> /\ Len(buffer) < HighWater
          /\ stream \notin {"failing", "failed"} =>
                Len(written) + Len(buffer) + Len(compressor) = given
    /\ draining => stream \in {"open", "failing"}
    /\ writerCall = "end" /\ streamEnded => stream \in {"open", "failing"}
    /\ writerCall = "aborted" => stream \in {"failed", "closed"}

=============================================================================
