---------------------------- MODULE Backpressure ----------------------------
(***************************************************************************)
(* core/backpressure.py, with the two ways the bridge uses it: _on_record  *)
(* tries the memory queue and falls back to a task that runs enqueue();    *)
(* batch processors ("consumers") run dequeue() under wait_for.            *)
(*                                                                         *)
(* A step runs from one await that really suspends to the next: writing a  *)
(* spool file, reading one, and writing the .error file beside a file that *)
(* was moved to the DLQ.  Everything between is one step, as on the event  *)
(* loop.  A record spends its life as a number, given in order of arrival; *)
(* a spool file holds one record and is named after it.  Sizes are counted *)
(* in files (an .error file, and what a write that raised left behind, are *)
(* taken to weigh nothing).                                                *)
(***************************************************************************)
EXTENDS Naturals, Sequences, FiniteSets

CONSTANTS
  NumRecords,   \* bound: how many records arrive
  Consumers,    \* batch processors
  MaxQueue,     \* memory_queue.max_size
  SpoolEnabled, \* disk_spool.enabled
  MaxSpool,     \* disk_spool.max_size_mb, in files
  DropPolicies, \* memory_queue.drop_policy, the values considered
  MaxCancels,   \* bound: timeouts and cancellations that hit a suspended dequeue
  MaxRestarts   \* bound: restarts of the process

Record == 1 .. NumRecords

ASSUME BackpressureAssumption ==
  /\ NumRecords \in Nat
  /\ MaxQueue \in Nat \ {0}  \* asyncio.Queue(0) has no limit
  /\ SpoolEnabled \in BOOLEAN
  /\ MaxSpool \in Nat
  /\ DropPolicies \subseteq {"oldest", "newest", "reject"}
  /\ MaxCancels \in Nat
  /\ MaxRestarts \in Nat

VARIABLES
  drop_policy,  \* self.drop_policy, set once
  next,         \* the next record to arrive
  memory,       \* self.memory_queue
  tasks,        \* records whose _enqueue_record task has not run yet
  writing,      \* records being written to a spool file
  spool_files,  \* self.spool_files
  disk,         \* complete spool files in spool_dir
  dlq,          \* spool files moved to dlq_dir
  cpc,          \* where each consumer's dequeue() is suspended
  cfile,        \* the spool file it works on
  taken,        \* records dequeue() returned, in order
  lost,         \* records dropped, refused, or lost with an exception
  metrics,      \* self.metrics
  interrupted,  \* a move to the DLQ was cut short after its rename
  peak,         \* the most tasks that were ever writing at once
  cancels, restarts

queueVars    == <<drop_policy, next, memory, tasks>>
spoolVars    == <<writing, spool_files, disk, dlq>>
consumerVars == <<cpc, cfile>>
ghosts       == <<interrupted, peak>>
faults       == <<cancels, restarts>>
vars == <<queueVars, spoolVars, consumerVars, taken, lost, metrics,
          ghosts, faults>>

Metrics == {"enqueued", "dequeued", "spooled", "dropped", "dlq"}
Elems(s) == {s[i] : i \in DOMAIN s}
SpoolSize == Cardinality(disk \union dlq)
Count(m) == metrics' = [metrics EXCEPT ![m] = @ + 1]

TypeOK ==
  /\ drop_policy \in DropPolicies
  /\ next \in 1 .. NumRecords + 1
  /\ memory \in Seq(Record) /\ Len(memory) <= MaxQueue
  /\ tasks \subseteq Record
  /\ writing \subseteq Record
  /\ spool_files \in Seq(Record)
  /\ disk \subseteq Record
  /\ dlq \subseteq Record
  /\ cpc \in [Consumers -> {"idle", "reading", "moving"}]
  /\ cfile \in [Consumers -> Record \union {0}]
  /\ taken \in Seq(Record)
  /\ lost \subseteq Record
  /\ metrics \in [Metrics -> Nat]
  /\ interrupted \in BOOLEAN
  /\ peak \in Nat
  /\ cancels \in 0 .. MaxCancels
  /\ restarts \in 0 .. MaxRestarts

Init ==
  /\ drop_policy \in DropPolicies
  /\ next = 1
  /\ memory = << >> /\ tasks = {}
  /\ writing = {} /\ spool_files = << >> /\ disk = {} /\ dlq = {}
  /\ cpc = [c \in Consumers |-> "idle"]
  /\ cfile = [c \in Consumers |-> 0]
  /\ taken = << >> /\ lost = {}
  /\ metrics = [m \in Metrics |-> 0]
  /\ interrupted = FALSE /\ peak = 0
  /\ cancels = 0 /\ restarts = 0
------------------------------------------------------------------------------
(* Producers *)

MemoryFull == Len(memory) >= MaxQueue

PutNowait(r) ==
  /\ ~MemoryFull
  /\ memory' = Append(memory, r)
  /\ Count("enqueued")

(* _on_record: straight into the memory queue, or a task of its own. *)
OnRecord ==
  /\ next <= NumRecords
  /\ next' = next + 1
  /\ \/ PutNowait(next) /\ UNCHANGED tasks
     \/ MemoryFull /\ tasks' = tasks \union {next} /\ UNCHANGED <<memory, metrics>>
  /\ UNCHANGED <<drop_policy, spoolVars, consumerVars, taken, lost, ghosts, faults>>

(* _handle_full_queue.  Nothing runs between put_nowait's QueueFull and    *)
(* here, so the queue is still full and the "oldest" policy's two calls    *)
(* cannot raise.  A refused or dropped record is gone.                     *)
HandleFullQueue(r) ==
  \/ /\ drop_policy = "oldest"
     /\ memory' = Append(Tail(memory), r)
     /\ lost' = lost \union {Head(memory)}
     /\ metrics' = [metrics EXCEPT !["dropped"] = @ + 1, !["enqueued"] = @ + 1]
  \/ /\ drop_policy = "newest"
     /\ lost' = lost \union {r}
     /\ Count("dropped")
     /\ UNCHANGED memory
  \/ /\ drop_policy = "reject" \* ValueError ends the task, nobody counts it
     /\ lost' = lost \union {r}
     /\ UNCHANGED <<memory, metrics>>

(* Faulty SpoolHasRoom: the limit itself still counts as room. *)
SpoolHasRoom_AtLimit == SpoolEnabled /\ SpoolSize <= MaxSpool

SpoolHasRoom == SpoolEnabled /\ SpoolSize < MaxSpool

(* enqueue(), up to its end or to the first await on a spool file. *)
Enqueue(r) ==
  /\ r \in tasks
  /\ tasks' = tasks \ {r}
  /\ \/ PutNowait(r) /\ UNCHANGED <<writing, lost, peak>>
     \/ /\ MemoryFull /\ SpoolHasRoom
        /\ writing' = writing \union {r}
        /\ peak' = IF Cardinality(writing') > peak THEN Cardinality(writing') ELSE peak
        /\ UNCHANGED <<memory, metrics, lost>>
     \/ /\ MemoryFull /\ ~SpoolHasRoom
        /\ HandleFullQueue(r)
        /\ UNCHANGED <<writing, peak>>
  /\ UNCHANGED <<drop_policy, next, spool_files, disk, dlq, consumerVars, taken, interrupted, faults>>

(* Faulty SpoolWritten: the newest file is listed first. *)
SpoolWritten_First(r) ==
  /\ r \in writing
  /\ writing' = writing \ {r}
  /\ disk' = disk \union {r}
  /\ spool_files' = <<r>> \o spool_files
  /\ Count("spooled")
  /\ UNCHANGED <<queueVars, dlq, consumerVars, taken, lost, ghosts, faults>>

(* The spool file is complete; only now is it appended to spool_files. *)
SpoolWritten(r) ==
  /\ r \in writing
  /\ writing' = writing \ {r}
  /\ disk' = disk \union {r}
  /\ spool_files' = Append(spool_files, r)
  /\ Count("spooled")
  /\ UNCHANGED <<queueVars, dlq, consumerVars, taken, lost, ghosts, faults>>

(* Faulty SpoolWriteFails: the file was listed before it was written, and  *)
(* stays.                                                                  *)
SpoolWriteFails_Listed(r) ==
  /\ r \in writing
  /\ writing' = writing \ {r}
  /\ lost' = lost \union {r}
  /\ disk' = disk \union {r}
  /\ spool_files' = Append(spool_files, r)
  /\ UNCHANGED <<queueVars, dlq, consumerVars, taken, metrics, ghosts, faults>>

(* Serialising or writing raised: the exception ends the task, uncounted. *)
SpoolWriteFails(r) ==
  /\ r \in writing
  /\ writing' = writing \ {r}
  /\ lost' = lost \union {r}
  /\ UNCHANGED <<queueVars, spool_files, disk, dlq, consumerVars, taken, metrics,
                 ghosts, faults>>
------------------------------------------------------------------------------
(* Consumers *)

Suspend(c, where, r) ==
  /\ cpc' = [cpc EXCEPT ![c] = where]
  /\ cfile' = [cfile EXCEPT ![c] = r]

Resume(c) == Suspend(c, "idle", 0)

DequeueMemory(c) ==
  /\ cpc[c] = "idle"
  /\ memory # << >>
  /\ memory' = Tail(memory)
  /\ taken' = Append(taken, Head(memory))
  /\ Count("dequeued")
  /\ UNCHANGED <<drop_policy, next, tasks, spoolVars, consumerVars, lost, ghosts, faults>>

(* Only an empty memory queue lets the spool be read; the first file stays *)
(* in spool_files while it is.                                             *)
StartLoad(c) ==
  /\ cpc[c] = "idle"
  /\ memory = << >>
  /\ SpoolEnabled /\ spool_files # << >>
  /\ Suspend(c, "reading", Head(spool_files))
  /\ UNCHANGED <<queueVars, spoolVars, taken, lost, metrics, ghosts, faults>>

(* Read and decoded; unlink and pop(0) follow without an await. *)
LoadDone(c) ==
  /\ cpc[c] = "reading"
  /\ cfile[c] \in disk
  /\ disk' = disk \ {cfile[c]}
  /\ spool_files' = Tail(spool_files)
  /\ taken' = Append(taken, cfile[c])
  /\ Resume(c)
  /\ UNCHANGED <<queueVars, writing, dlq, lost, metrics, ghosts, faults>>

(* Faulty LoadFails: a file that cannot be read stays where it is. *)
LoadFails_LeavesFile(c) ==
  /\ cpc[c] = "reading"
  /\ Resume(c)
  /\ UNCHANGED <<queueVars, spoolVars, taken, lost, metrics, ghosts, faults>>

(* The file cannot be read, decrypted, parsed, or (another consumer had    *)
(* it) unlinked.  It is renamed into the DLQ, and the .error file is begun *)
(* -- or it is gone, and rename's exception leaves dequeue().              *)
LoadFails(c) ==
  /\ cpc[c] = "reading"
  /\ \/ /\ cfile[c] \in disk
        /\ disk' = disk \ {cfile[c]}
        /\ dlq' = dlq \union {cfile[c]}
        /\ Suspend(c, "moving", cfile[c])
     \/ /\ cfile[c] \notin disk
        /\ Resume(c)
        /\ UNCHANGED <<disk, dlq>>
  /\ UNCHANGED <<queueVars, writing, spool_files, taken, lost, metrics, ghosts, faults>>

(* The .error file is written: pop(0), whatever the first file is now. *)
MoveDone(c) ==
  /\ cpc[c] = "moving"
  /\ spool_files' = Tail(spool_files)
  /\ Count("dlq")
  /\ Resume(c)
  /\ UNCHANGED <<queueVars, writing, disk, dlq, taken, lost, ghosts, faults>>

(* wait_for's timeout or the task's cancellation hits a suspended          *)
(* dequeue(), or writing the .error file raises: pop(0) is skipped.        *)
Cancel(c) ==
  /\ cpc[c] # "idle"
  /\ cancels < MaxCancels
  /\ cancels' = cancels + 1
  /\ interrupted' = (interrupted \/ cpc[c] = "moving")
  /\ Resume(c)
  /\ UNCHANGED <<queueVars, spoolVars, taken, lost, metrics, peak, restarts>>
------------------------------------------------------------------------------
(* The process dies and is started again: __init__ makes an empty queue    *)
(* and an empty spool_files, and does not look into spool_dir.             *)
Restart ==
  /\ restarts < MaxRestarts
  /\ restarts' = restarts + 1
  /\ lost' = lost \union Elems(memory) \union tasks \union writing
  /\ memory' = << >> /\ tasks' = {}
  /\ writing' = {} /\ spool_files' = << >>
  /\ cpc' = [c \in Consumers |-> "idle"]
  /\ cfile' = [c \in Consumers |-> 0]
  /\ metrics' = [m \in Metrics |-> 0]
  /\ interrupted' = FALSE
  /\ UNCHANGED <<drop_policy, next, disk, dlq, taken, peak, cancels>>

Load(c) == LoadDone(c) \/ LoadFails(c)

Next ==
  \/ OnRecord
  \/ \E r \in Record : Enqueue(r) \/ SpoolWritten(r) \/ SpoolWriteFails(r)
  \/ \E c \in Consumers :
       DequeueMemory(c) \/ StartLoad(c) \/ Load(c) \/ MoveDone(c) \/ Cancel(c)
  \/ Restart

(* The event loop runs every task; file operations end; the processors     *)
(* keep calling dequeue().  A failing read may fail every time.            *)
Fairness ==
  /\ \A r \in Record : WF_vars(Enqueue(r)) /\ WF_vars(SpoolWritten(r) \/ SpoolWriteFails(r))
  /\ \A c \in Consumers : /\ WF_vars(DequeueMemory(c) \/ StartLoad(c))
                          /\ WF_vars(Load(c)) /\ WF_vars(MoveDone(c))

Spec == Init /\ [][Next]_vars /\ Fairness
------------------------------------------------------------------------------
(* No record is lost without trace or handled twice: each one that arrived *)
(* is in exactly one place -- a waiting task, the memory queue, a spool    *)
(* file being written, on disk, in the DLQ, returned by dequeue(), or      *)
(* given up -- and in a queue at most once, whatever two consumers reading *)
(* the same spool file, cancellations and restarts do.                     *)
Places == <<tasks, Elems(memory), writing, disk, dlq, Elems(taken), lost>>

NoRepeats(s) == \A i, j \in DOMAIN s : s[i] = s[j] => i = j

OnePlace ==
  /\ \A r \in 1 .. next - 1 : \E p \in DOMAIN Places : r \in Places[p]
  /\ \A p, q \in DOMAIN Places : p # q => Places[p] \intersect Places[q] = {}
  /\ NoRepeats(memory) /\ NoRepeats(taken)

(* spool_files and the directory agree: only the first entry may name a    *)
(* file that is not in spool_dir, and then it is in the DLQ; and until the *)
(* process is restarted every file in spool_dir is listed.                 *)
SpoolIndexed ==
  /\ NoRepeats(spool_files)
  /\ \A i \in DOMAIN spool_files :
       spool_files[i] \in disk \/ (i = 1 /\ spool_files[i] \in dlq)
  /\ restarts = 0 => disk \subseteq Elems(spool_files)

(* pop(0) never removes another file than the one just loaded or moved,    *)
(* although the list may change during the read, and nobody else is moving *)
(* the same file.                                                          *)
PopsOwnFile ==
  \A c \in Consumers :
    /\ cpc[c] = "moving" => /\ spool_files # << >> /\ Head(spool_files) = cfile[c]
                            /\ \A d \in Consumers : cpc[d] = "moving" => d = c
    /\ cpc[c] = "reading" /\ cfile[c] \in disk =>
         spool_files # << >> /\ Head(spool_files) = cfile[c]

Mover == \E c \in Consumers : cpc[c] = "moving"

(* The first spool file was moved away and nobody will pop it: every       *)
(* dequeue() that gets to the spool from now on raises.                    *)
Wedged == spool_files # << >> /\ Head(spool_files) \in dlq /\ ~Mover

(* The spool is wedged by nothing but an interrupted move to the DLQ. *)
WedgedOnlyByInterruption == Wedged => interrupted

(* The spool through reads that race, moves that fail and restarts.        *)
SpoolSound ==
  TypeOK /\ OnePlace /\ SpoolIndexed /\ PopsOwnFile /\ WedgedOnlyByInterruption

(* The size limit is checked before the await and not reserved, so tasks   *)
(* that write at the same time overshoot it, by less than their number.    *)
OvershootBounded ==
  IF peak = 0
  THEN SpoolSize = 0 /\ writing = {}
  ELSE SpoolSize + Cardinality(writing) < MaxSpool + peak

(* The manager is a RecordBuffer: a record is returned by dequeue() at     *)
(* most once, and never after it was given up.                             *)
GivenUp == lost \union dlq \union (disk \ Elems(spool_files))

Fate(r) == IF r >= next THEN "new"
           ELSE IF r \in Elems(taken) THEN "taken"
           ELSE IF r \in GivenUp THEN "given_up"
           ELSE "held"

Buffer == INSTANCE RecordBuffer WITH fate <- [r \in Record |-> Fate(r)]

ImplementsBuffer == Buffer!Spec

(* A record that was accepted is eventually returned or given up, unless   *)
(* the spool is wedged.                                                    *)
HeldRecordLeaves ==
  \A r \in Record : []<>(Fate(r) # "held" \/ Wedged)
==============================================================================
