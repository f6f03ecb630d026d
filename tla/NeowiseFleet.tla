---------------------------- MODULE NeowiseFleet ----------------------------
(***************************************************************************)
(* neowise_benchmark: Locust workers that stream a public dataset into one *)
(* table (neowise/user.py), each its own stride over every year's files    *)
(* (neowise/dataset.py).  Nothing coordinates them: that no row is sent by *)
(* two workers, or twice by one, rests on the stride and on each worker's  *)
(* cursor, through files that cannot be read, streams that are recreated   *)
(* and users that Locust starts again.                                     *)
(*                                                                         *)
(* A worker runs one user.  A step is one call that does I/O, with the     *)
(* bookkeeping up to the next.  A file is <<year, position in the year's   *)
(* list>>, a row <<file, position in the file>>; how it is encoded is left *)
(* out, and so is the .part file: a file is there once it was renamed.     *)
(***************************************************************************)
EXTENDS Integers, Sequences, FiniteSets

CONSTANTS
  NumWorkers,       \* Locust's -w
  TOTAL_WORKERS,    \* the stride
  Files,            \* NEOWISE_YEARS: for each year, the rows of each file
  FilesPerYear,     \* FILES_PER_K0 * NUM_K0
  BATCH_SIZE,
  STREAMS_PER_USER,
  Bundled,          \* file_list.txt.gz has every year: S3 is not listed
  MaxFaults         \* bound: calls to S3, the reader or the SDK that raise

(* config.py: TOTAL_WORKERS must equal the number of workers; more workers *)
(* than that would share files, fewer leave files to nobody.               *)
FleetAssumption ==
  /\ NumWorkers \in Nat \ {0}
  /\ TOTAL_WORKERS \in Nat /\ NumWorkers <= TOTAL_WORKERS
  /\ Files \in Seq(Seq(Nat))
  /\ FilesPerYear \in Nat
  /\ BATCH_SIZE \in Nat \ {0}
  /\ STREAMS_PER_USER \in Nat \ {0}
  /\ Bundled \in BOOLEAN
  /\ MaxFaults \in Nat

Worker == 0 .. NumWorkers - 1
Stream == 0 .. STREAMS_PER_USER - 1
Year == 1 .. Len(Files)
File == UNION {{y} \X (0 .. Len(Files[y]) - 1) : y \in Year}
NumRows(f) == Files[f[1]][f[2] + 1]
Row == UNION {{f} \X (0 .. NumRows(f) - 1) : f \in File}
RowsOf(f, from, to) == {<<f, r>> : r \in from .. to - 1}

VARIABLES
  phase,      \* of the user: "new", "starting", "running", "stopping", "stopped", "dead"
  loop,       \* in the data loop: "file" (_advance_to_next_file), "batch" (_load_next_batch)
              \* or "task" (neither)
  exhausted,  \* self._exhausted
  year_idx,   \* self._year_idx + 1
  listed,     \* the year whose keys self._current_year_keys holds, or 0
  file_idx,   \* self._file_idx
  open,       \* self.parquet_file, or <<0, 0>>
  yielded,    \* rows of it self.batch_iter has yielded
  loaded,     \* len(self.current_rows): the last rows that were yielded
  row_index,  \* self.row_index
  stream_idx, \* self._stream_idx % STREAMS_PER_USER
  accepts,    \* streams that accept rows
  inflight,   \* rows each stream has taken and not acknowledged
  closing,    \* the next stream on_stop flushes
  sends,      \* how often ingest_record_nowait took each row
  committed,  \* rows the server acknowledged
  orphaned,   \* rows of a stream that failed, or was replaced, unacknowledged
  skipped,    \* rows of a year, file or batch that could not be read
  faults

cursorVars == <<exhausted, year_idx, listed, file_idx, open, yielded, loaded, row_index>>
streamVars == <<stream_idx, accepts, inflight, closing>>
rowVars == <<sends, committed, orphaned>>
fleetVars == <<phase, loop, cursorVars, streamVars, rowVars, skipped, faults>>

FleetTypeOK ==
  /\ phase \in [Worker -> {"new", "starting", "running", "stopping", "stopped", "dead"}]
  /\ loop \in [Worker -> {"file", "batch", "task"}]
  /\ exhausted \in [Worker -> BOOLEAN]
  /\ year_idx \in [Worker -> 0 .. Len(Files) + 1]
  /\ listed \in [Worker -> 0 .. Len(Files)]
  /\ file_idx \in [Worker -> Nat]
  /\ open \in [Worker -> File \union {<<0, 0>>}]
  /\ yielded \in [Worker -> Nat]
  /\ loaded \in [Worker -> Nat]
  /\ row_index \in [Worker -> Nat]
  /\ stream_idx \in [Worker -> Stream]
  /\ accepts \in [Worker -> [Stream -> BOOLEAN]]
  /\ inflight \in [Worker -> [Stream -> SUBSET Row]]
  /\ closing \in [Worker -> 0 .. STREAMS_PER_USER]
  /\ sends \in [Row -> Nat]
  /\ committed \subseteq Row /\ orphaned \subseteq Row /\ skipped \subseteq Row
  /\ faults \in 0 .. MaxFaults

NoStreams == [i \in Stream |-> FALSE]
NoRows == [i \in Stream |-> {}]

FleetInit ==
  /\ phase = [w \in Worker |-> "new"]
  /\ loop = [w \in Worker |-> "task"]
  /\ exhausted = [w \in Worker |-> FALSE]
  /\ year_idx = [w \in Worker |-> 0] /\ listed = [w \in Worker |-> 0]
  /\ file_idx = [w \in Worker |-> 0]
  /\ open = [w \in Worker |-> <<0, 0>>] /\ yielded = [w \in Worker |-> 0]
  /\ loaded = [w \in Worker |-> 0] /\ row_index = [w \in Worker |-> 0]
  /\ stream_idx = [w \in Worker |-> 0] /\ closing = [w \in Worker |-> 0]
  /\ accepts = [w \in Worker |-> NoStreams] /\ inflight = [w \in Worker |-> NoRows]
  /\ sends = [r \in Row |-> 0]
  /\ committed = {} /\ orphaned = {} /\ skipped = {}
  /\ faults = 0
------------------------------------------------------------------------------
(* dataset.py: the plan                                                    *)

(* plan_year_for_worker: every TOTAL_WORKERS-th file of the year's list,   *)
(* which is the same on every worker, at most FilesPerYear of them.        *)
Key(w, y, k) == <<y, (w % TOTAL_WORKERS) + k * TOTAL_WORKERS>>

HasKey(w, y, k) == y \in Year /\ k < FilesPerYear /\ Key(w, y, k) \in File

Slice(w, y) == {Key(w, y, k) : k \in {k \in 0 .. FilesPerYear - 1 : HasKey(w, y, k)}}

RowsIn(S) == {r \in Row : r[1] \in S}
------------------------------------------------------------------------------
(* user.py: the data loop                                                  *)

Set(f, w, v) == f' = [f EXCEPT ![w] = v]

Fine == UNCHANGED faults
Fault == faults < MaxFaults /\ faults' = faults + 1

(* The loop ends: back in ingest_row, or in on_start to create streams.    *)
Return(w) == Set(loop, w, "task") /\ UNCHANGED phase

(* Locust logs what a task raises and runs the next one; what on_start     *)
(* raises ends the user.                                                   *)
Raise(w) ==
  /\ Set(loop, w, "task")
  /\ Set(phase, w, IF phase[w] = "starting" THEN "dead" ELSE phase[w])

Looping(w, where) == phase[w] \in {"starting", "running"} /\ loop[w] = where

(* Faulty NextYear: the years start over.                                  *)
NextYear_Wraps(w) ==
  /\ Looping(w, "file") /\ ~exhausted[w]
  /\ ~HasKey(w, listed[w], file_idx[w])
  /\ Set(year_idx, w, IF year_idx[w] >= Len(Files) THEN 1 ELSE year_idx[w] + 1)
  /\ Set(listed, w, year_idx'[w]) /\ Set(file_idx, w, 0)
  /\ Fine
  /\ UNCHANGED <<phase, loop, exhausted, open, yielded, loaded, row_index, streamVars, rowVars,
                 skipped>>

(* _advance_to_next_year, when the year's keys are used up.  A listing that*)
(* raises leaves the old keys behind, all used: that year is never tried   *)
(* again.                                                                  *)
NextYear(w) ==
  /\ Looping(w, "file") /\ ~exhausted[w]
  /\ ~HasKey(w, listed[w], file_idx[w])
  /\ Set(year_idx, w, year_idx[w] + 1)
  /\ \/ /\ year_idx[w] + 1 > Len(Files)
        /\ Set(exhausted, w, TRUE)
        /\ Return(w) /\ Fine
        /\ UNCHANGED <<listed, file_idx, skipped>>
     \/ /\ year_idx[w] + 1 <= Len(Files)
        /\ Set(listed, w, year_idx[w] + 1) /\ Set(file_idx, w, 0)
        /\ Fine
        /\ UNCHANGED <<phase, loop, exhausted, skipped>>
     \/ /\ year_idx[w] + 1 <= Len(Files) /\ ~Bundled
        /\ Fault /\ Raise(w)
        /\ skipped' = skipped \union RowsIn(Slice(w, year_idx[w] + 1))
        /\ UNCHANGED <<exhausted, listed, file_idx>>
  /\ UNCHANGED <<open, yielded, loaded, row_index, streamVars, rowVars>>

(* The next file, downloaded unless it is there.  The index has moved when *)
(* the download raises: the file is passed over.                           *)
OpenFile(w) ==
  /\ Looping(w, "file") /\ ~exhausted[w]
  /\ HasKey(w, listed[w], file_idx[w])
  /\ Set(file_idx, w, file_idx[w] + 1)
  /\ LET key == Key(w, listed[w], file_idx[w]) IN
     \/ /\ Set(open, w, key) /\ Set(yielded, w, 0)
        /\ Set(loop, w, "batch")
        /\ Fine
        /\ UNCHANGED <<phase, skipped>>
     \/ /\ Fault /\ Raise(w)
        /\ skipped' = skipped \union RowsIn({key})
        /\ UNCHANGED <<open, yielded>>
  /\ UNCHANGED <<exhausted, year_idx, listed, loaded, row_index, streamVars, rowVars>>

(* _load_next_batch: the rows go first, row_index only moves with new ones.*)
(* Batches end with the file's row groups too.  A reader that raised is at *)
(* its end; a batch that cannot be encoded is gone.                        *)
LoadBatch(w) ==
  /\ Looping(w, "batch")
  /\ \/ \E n \in 1 .. BATCH_SIZE :
          /\ yielded[w] + n <= NumRows(open[w])
          /\ Set(yielded, w, yielded[w] + n)
          /\ \/ /\ Set(loaded, w, n) /\ Set(row_index, w, 0)
                /\ Return(w) /\ Fine
                /\ UNCHANGED skipped
             \/ /\ Set(loaded, w, 0) /\ UNCHANGED row_index
                /\ Raise(w) /\ Fault
                /\ skipped' = skipped \union RowsOf(open[w], yielded[w], yielded[w] + n)
     \/ /\ yielded[w] < NumRows(open[w])
        /\ Set(yielded, w, NumRows(open[w]))
        /\ Set(loaded, w, 0) /\ UNCHANGED row_index
        /\ Raise(w) /\ Fault
        /\ skipped' = skipped \union RowsOf(open[w], yielded[w], NumRows(open[w]))
     \/ /\ yielded[w] = NumRows(open[w]) \* StopIteration
        /\ Set(loaded, w, 0) /\ Set(loop, w, "file")
        /\ Fine
        /\ UNCHANGED <<phase, yielded, row_index, skipped>>
  /\ UNCHANGED <<exhausted, year_idx, listed, file_idx, open, streamVars, rowVars>>
------------------------------------------------------------------------------
(* user.py: the user                                                       *)

(* on_start: the first batch, then the streams.                            *)
Start(w) ==
  /\ phase[w] = "new"
  /\ Set(phase, w, "starting") /\ Set(loop, w, "file")
  /\ UNCHANGED <<cursorVars, streamVars, rowVars, skipped, faults>>

CreateStreams(w) ==
  /\ phase[w] = "starting" /\ loop[w] = "task"
  /\ \/ /\ Set(accepts, w, [i \in Stream |-> TRUE]) /\ Set(phase, w, "running")
        /\ Fine
     \/ /\ Set(phase, w, "dead") /\ Fault
        /\ UNCHANGED accepts
  /\ UNCHANGED <<loop, cursorVars, stream_idx, inflight, closing, rowVars, skipped>>

InTask(w) == phase[w] = "running" /\ loop[w] = "task" /\ ~exhausted[w]

(* ingest_row with no row left: _load_next_batch comes first.              *)
NeedBatch(w) ==
  /\ InTask(w) /\ row_index[w] >= loaded[w]
  /\ Set(loop, w, "batch")
  /\ UNCHANGED <<phase, cursorVars, streamVars, rowVars, skipped, faults>>

CurrentRow(w) == <<open[w], yielded[w] - loaded[w] + row_index[w]>>

(* ingest_row: the streams in turn.  The row stays the next one when the   *)
(* stream raises; the stream is replaced, and what it had taken with it.   *)
IngestRow(w) ==
  /\ InTask(w) /\ row_index[w] < loaded[w]
  /\ Set(stream_idx, w, (stream_idx[w] + 1) % STREAMS_PER_USER)
  /\ LET i == stream_idx[w] IN
     \/ /\ accepts[w][i] /\ Fine
        /\ sends' = [sends EXCEPT ![CurrentRow(w)] = @ + 1]
        /\ inflight' = [inflight EXCEPT ![w][i] = @ \union {CurrentRow(w)}]
        /\ Set(row_index, w, row_index[w] + 1)
        /\ UNCHANGED <<accepts, orphaned>>
     \/ /\ IF accepts[w][i] THEN Fault ELSE Fine
        /\ accepts' = [accepts EXCEPT ![w][i] = TRUE]
        /\ orphaned' = orphaned \union inflight[w][i]
        /\ inflight' = [inflight EXCEPT ![w][i] = {}]
        /\ UNCHANGED <<sends, row_index>>
     \/ /\ Fault \* _recreate_stream: the stream that raised stays
        /\ UNCHANGED <<accepts, orphaned, inflight, sends, row_index>>
  /\ UNCHANGED <<phase, loop, exhausted, year_idx, listed, file_idx, open, yielded, loaded,
                 closing, committed, skipped>>

(* Locust ends the user, wherever it is: on_stop.  A user that was still   *)
(* starting has no streams to flush.                                       *)
Stop(w) ==
  /\ phase[w] \in {"starting", "running"}
  /\ Set(phase, w, IF phase[w] = "running" THEN "stopping" ELSE "stopped")
  /\ Set(loop, w, "task")
  /\ UNCHANGED <<cursorVars, streamVars, rowVars, skipped, faults>>

(* flush() and close(), stream by stream; one that raises leaves its rows  *)
(* unacknowledged and the others their turn.                               *)
CloseStream(w) ==
  /\ phase[w] = "stopping"
  /\ LET i == closing[w] IN
     /\ \/ /\ accepts[w][i] /\ Fine
           /\ committed' = committed \union inflight[w][i] /\ UNCHANGED orphaned
        \/ /\ IF accepts[w][i] THEN Fault ELSE Fine
           /\ orphaned' = orphaned \union inflight[w][i] /\ UNCHANGED committed
     /\ inflight' = [inflight EXCEPT ![w][i] = {}]
     /\ Set(closing, w, i + 1)
     /\ Set(phase, w, IF i + 1 = STREAMS_PER_USER THEN "stopped" ELSE "stopping")
  /\ UNCHANGED <<loop, cursorVars, stream_idx, accepts, sends, skipped>>

(* Locust spawns a user in place of the one that died, which reads its     *)
(* slice from the start.                                                   *)
Respawn(w) ==
  /\ phase[w] = "dead"
  /\ Set(phase, w, "new") /\ Set(loop, w, "task")
  /\ Set(exhausted, w, FALSE)
  /\ Set(year_idx, w, 0) /\ Set(listed, w, 0) /\ Set(file_idx, w, 0)
  /\ Set(open, w, <<0, 0>>) /\ Set(yielded, w, 0) /\ Set(loaded, w, 0) /\ Set(row_index, w, 0)
  /\ skipped' = skipped \ RowsIn(UNION {Slice(w, y) : y \in Year})
  /\ UNCHANGED <<streamVars, rowVars, faults>>
------------------------------------------------------------------------------
(* The SDK behind a stream: rows are acknowledged, or the stream fails for *)
(* good with rows it has not sent.                                         *)
Acknowledge(w, i) ==
  /\ inflight[w][i] # {} /\ accepts[w][i] /\ phase[w] \in {"running", "stopping"}
  /\ \E r \in inflight[w][i] :
       /\ inflight' = [inflight EXCEPT ![w][i] = @ \ {r}]
       /\ committed' = committed \union {r}
  /\ UNCHANGED <<phase, loop, cursorVars, stream_idx, accepts, closing, sends, orphaned, skipped,
                 faults>>

StreamFails(w, i) ==
  /\ accepts[w][i] /\ phase[w] = "running" /\ Fault
  /\ accepts' = [accepts EXCEPT ![w][i] = FALSE]
  /\ orphaned' = orphaned \union inflight[w][i]
  /\ inflight' = [inflight EXCEPT ![w][i] = {}]
  /\ UNCHANGED <<phase, loop, cursorVars, stream_idx, closing, sends, committed, skipped>>

FleetNext ==
  \E w \in Worker :
    \/ Start(w) \/ CreateStreams(w) \/ NextYear(w) \/ OpenFile(w) \/ LoadBatch(w)
    \/ NeedBatch(w) \/ IngestRow(w) \/ Stop(w) \/ CloseStream(w) \/ Respawn(w)
    \/ \E i \in Stream : Acknowledge(w, i) \/ StreamFails(w, i)

FleetSpec == FleetInit /\ [][FleetNext]_fleetVars
------------------------------------------------------------------------------
(* A row counts at most once, whoever sends it and how often a stream is   *)
(* replaced or a user started again; and a row that was sent is on its     *)
(* way, acknowledged, or went down with its stream.                        *)
SentOnce ==
  /\ \A r \in Row : sends[r] <= 1
  /\ \A r \in Row : sends[r] = 1 <=>
       \/ r \in committed \/ r \in orphaned
       \/ \E w \in Worker : \E i \in Stream : r \in inflight[w][i]

(* A worker goes idle only when every row of its slice was sent, or was in *)
(* something that could not be read; and never sends what it skipped.      *)
IdleIsDone ==
  /\ \A w \in Worker : exhausted[w] =>
       \A y \in Year : \A r \in RowsIn(Slice(w, y)) : sends[r] = 1 \/ r \in skipped
  /\ \A r \in skipped : sends[r] = 0

(* A fleet of the size it was planned for leaves no file to nobody.        *)
FleetCovers ==
  /\ NumWorkers = TOTAL_WORKERS
  /\ \A y \in Year : Len(Files[y]) <= FilesPerYear * TOTAL_WORKERS
  /\ \A w \in Worker : exhausted[w]
  => \A r \in Row : sends[r] = 1 \/ r \in skipped

(* on_stop leaves no row in a stream: each was flushed, or raised.         *)
StopFlushes == \A w \in Worker : phase[w] = "stopped" => inflight[w] = NoRows

FleetSound == FleetTypeOK /\ SentOnce /\ IdleIsDone /\ FleetCovers /\ StopFlushes
==============================================================================
