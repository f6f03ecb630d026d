---------------------------- MODULE BatchPipeline ----------------------------
(***************************************************************************)
(* core/unified_bridge.py, the data path: records from the protocol        *)
(* clients go into one RecordBuffer (the promise Backpressure keeps), one  *)
(* batch processor per ZeroBus target takes them out, gathers a batch and  *)
(* calls send_batch on its client.  stop() and stop_zerobus() end the      *)
(* processors by cancelling them.                                          *)
(*                                                                         *)
(* send_batch is used by its contract (ZeroBusClient): True means every    *)
(* record was handed over, False that some prefix may have been.           *)
(***************************************************************************)
EXTENDS Naturals, Sequences

CONSTANTS
  Records,     \* records that arrive
  Targets,     \* ZeroBus targets, one client and one processor each
  TargetOf,    \* the target configured for each record's source
  Rejectable,  \* records no target table accepts
  BatchSize,   \* batch.max_records
  MaxStops     \* bound: calls of stop_zerobus

PipelineAssumption ==
  /\ TargetOf \in [Records -> Targets]
  /\ Rejectable \subseteq Records
  /\ BatchSize \in Nat \ {0}
  /\ MaxStops \in Nat

VARIABLES
  fate,      \* RecordBuffer's variable: where the buffer has each record
  proc,      \* each processor: "none", "loop", "send", "asleep", "final", "done"
  batch,     \* its local batch
  stored,    \* pairs <<record, target>> handed over to the service
  dropped,   \* records that left with a cancelled or failed processor step
  shutdown,  \* self._shutdown
  stops

pipelineVars == <<fate, proc, batch, stored, dropped, shutdown, stops>>

Buffer == INSTANCE RecordBuffer WITH Record <- Records

Elems(s) == {s[i] : i \in DOMAIN s}
Batched == UNION {Elems(batch[t]) : t \in Targets}

PipelineTypeOK ==
  /\ Buffer!TypeOK
  /\ proc \in [Targets -> {"none", "loop", "send", "asleep", "final", "done"}]
  /\ batch \in [Targets -> Seq(Records)]
  /\ \A t \in Targets : proc[t] \in {"send", "final"} => batch[t] # << >>
  /\ stored \subseteq Records \X Targets
  /\ dropped \subseteq Records
  /\ shutdown \in BOOLEAN
  /\ stops \in 0 .. MaxStops

(* The bridge after start_infra.  A target whose client could not connect  *)
(* is skipped: it has no processor, and nothing connects it later.         *)
PipelineInit ==
  /\ Buffer!Init
  /\ proc \in [Targets -> {"none", "loop"}]
  /\ batch = [t \in Targets |-> << >>]
  /\ stored = {} /\ dropped = {}
  /\ shutdown = FALSE /\ stops = 0
------------------------------------------------------------------------------
(* A record reaches the buffer, or the buffer gives one up. *)
Arrive(r) == Buffer!Arrive(r) /\ UNCHANGED <<proc, batch, stored, dropped, shutdown, stops>>
Discard(r) == Buffer!GiveUp({r}) /\ UNCHANGED <<proc, batch, stored, dropped, shutdown, stops>>

(* The flush decision at the end of an iteration: the batch is full, or    *)
(* batch_timeout_sec has passed (which the model leaves open).             *)
FlushOrLoop(t, b) ==
  \/ b # << >> /\ proc' = [proc EXCEPT ![t] = "send"]
  \/ Len(b) < BatchSize /\ proc' = [proc EXCEPT ![t] = "loop"]

(* dequeue() returns a record, of whatever source. *)
Dequeue(t, r) ==
  /\ proc[t] = "loop" /\ ~shutdown
  /\ Buffer!Take(r)
  /\ batch' = [batch EXCEPT ![t] = Append(@, r)]
  /\ FlushOrLoop(t, batch'[t])
  /\ UNCHANGED <<stored, dropped, shutdown, stops>>

(* The record cannot be converted: the handler logs, the record is gone. *)
ConvertFails(t, r) ==
  /\ proc[t] = "loop" /\ ~shutdown
  /\ Buffer!Take(r)
  /\ dropped' = dropped \union {r}
  /\ UNCHANGED <<proc, batch, stored, shutdown, stops>>

(* dequeue() returns None, or does not return within a second. *)
DequeueNothing(t) ==
  /\ proc[t] = "loop" /\ ~shutdown
  /\ FlushOrLoop(t, batch[t])
  /\ UNCHANGED <<fate, batch, stored, dropped, shutdown, stops>>

HandOver(t, n) == stored' = stored \union {<<batch[t][i], t>> : i \in 1 .. n}

(* An attempt of send_batch hands records over one by one; it may fail, or *)
(* be cancelled, after any of them.                                        *)
SendPart(t) ==
  /\ proc[t] \in {"send", "final"}
  /\ \E n \in 1 .. Len(batch[t]) - 1 :
       /\ \A i \in 1 .. n : batch[t][i] \notin Rejectable
       /\ HandOver(t, n)
  /\ UNCHANGED <<fate, proc, batch, dropped, shutdown, stops>>

SendTrue(t) ==
  /\ proc[t] \in {"send", "final"}
  /\ Elems(batch[t]) \intersect Rejectable = {}
  /\ HandOver(t, Len(batch[t]))
  /\ batch' = [batch EXCEPT ![t] = << >>]
  /\ proc' = [proc EXCEPT ![t] = IF @ = "send" THEN "loop" ELSE "done"]
  /\ UNCHANGED <<fate, dropped, shutdown, stops>>

(* Faulty SendFalse: the batch is cleared whatever send_batch says.        *)
SendFalse_Clears(t) ==
  /\ proc[t] = "send"
  /\ proc' = [proc EXCEPT ![t] = "asleep"]
  /\ batch' = [batch EXCEPT ![t] = << >>]
  /\ UNCHANGED <<fate, stored, dropped, shutdown, stops>>

(* Faulty SendFalse: a failed send ends the processor.                     *)
SendFalse_Ends(t) ==
  /\ proc[t] = "send"
  /\ proc' = [proc EXCEPT ![t] = "done"]
  /\ UNCHANGED <<fate, batch, stored, dropped, shutdown, stops>>

(* Retries used up, schema error, or circuit open: the batch is kept and   *)
(* tried again after 5 seconds.                                            *)
SendFalse(t) ==
  /\ proc[t] = "send"
  /\ proc' = [proc EXCEPT ![t] = "asleep"]
  /\ UNCHANGED <<fate, batch, stored, dropped, shutdown, stops>>

(* The final flush does not look at its result. *)
FinalSendFalse(t) ==
  /\ proc[t] = "final"
  /\ proc' = [proc EXCEPT ![t] = "done"]
  /\ batch' = [batch EXCEPT ![t] = << >>]
  /\ dropped' = dropped \union Elems(batch[t])
  /\ UNCHANGED <<fate, stored, shutdown, stops>>

WakeUp(t) ==
  /\ proc[t] = "asleep"
  /\ proc' = [proc EXCEPT ![t] = "loop"]
  /\ UNCHANGED <<fate, batch, stored, dropped, shutdown, stops>>

(* The loop head sees _shutdown: the remaining records are flushed. *)
LeaveLoop(t) ==
  /\ proc[t] = "loop" /\ shutdown
  /\ proc' = [proc EXCEPT ![t] = IF batch[t] # << >> THEN "final" ELSE "done"]
  /\ UNCHANGED <<fate, batch, stored, dropped, shutdown, stops>>
------------------------------------------------------------------------------
(* stop() first sets the flag and waits for the protocol clients; the      *)
(* processors run on meanwhile ...                                         *)
StopFlag ==
  /\ ~shutdown
  /\ shutdown' = TRUE
  /\ UNCHANGED <<fate, proc, batch, stored, dropped, stops>>

(* Cancelled at its await, a processor unwinds past its final flush. *)
CancelAll(outcome) ==
  /\ proc' = [t \in Targets |-> IF proc[t] \in {"none", "done"} THEN proc[t] ELSE outcome]
  /\ batch' = [t \in Targets |-> << >>]
  /\ dropped' = dropped \union Batched

(* ... then it cancels those that are still running. *)
StopCancel ==
  /\ shutdown
  /\ \E t \in Targets : proc[t] \notin {"none", "done"}
  /\ CancelAll("done")
  /\ UNCHANGED <<fate, stored, shutdown, stops>>

StopZeroBus ==
  /\ ~shutdown
  /\ stops < MaxStops
  /\ stops' = stops + 1
  /\ \E t \in Targets : proc[t] # "none"
  /\ CancelAll("none")
  /\ UNCHANGED <<fate, stored, shutdown>>

(* start_zerobus() does nothing while there is a client; otherwise it      *)
(* starts a processor for each target it can connect.                      *)
StartZeroBus ==
  /\ ~shutdown
  /\ \A t \in Targets : proc[t] = "none"
  /\ \E connected \in SUBSET Targets :
       proc' = [t \in Targets |-> IF t \in connected THEN "loop" ELSE "none"]
  /\ UNCHANGED <<fate, batch, stored, dropped, shutdown, stops>>

Flush(t) == DequeueNothing(t) /\ proc'[t] = "send"

Processor(t) ==
  \/ (\E r \in Records : Dequeue(t, r) \/ ConvertFails(t, r)) \/ DequeueNothing(t)
  \/ SendPart(t) \/ SendTrue(t) \/ SendFalse(t) \/ FinalSendFalse(t)
  \/ WakeUp(t) \/ LeaveLoop(t)

PipelineNext ==
  \/ \E r \in Records : Arrive(r) \/ Discard(r)
  \/ \E t \in Targets : Processor(t)
  \/ StopFlag \/ StopCancel \/ StopZeroBus \/ StartZeroBus

(* Processors keep running.  dequeue() finds a record that stays in the    *)
(* buffer (Backpressure's HeldRecordLeaves), the batch timeout passes,     *)
(* send_batch returns (ZeroBusClient's CallReturns), and a service that is *)
(* up long enough takes a valid batch at last (its BreakerRecovers).       *)
(* Nothing obliges anybody to start or stop anything.                      *)
PipelineFairness ==
  \A t \in Targets :
    /\ WF_pipelineVars(\E r \in Records : Dequeue(t, r))
    /\ WF_pipelineVars(Flush(t)) /\ WF_pipelineVars(WakeUp(t)) /\ WF_pipelineVars(LeaveLoop(t))
    /\ WF_pipelineVars(SendTrue(t) \/ SendFalse(t) \/ FinalSendFalse(t)) /\ SF_pipelineVars(SendTrue(t))

PipelineSpec == PipelineInit /\ [][PipelineNext]_pipelineVars /\ PipelineFairness
------------------------------------------------------------------------------
(* A record the buffer handed out is in one processor's batch, was handed  *)
(* to a service, or was dropped with a processor step that said so: a      *)
(* failed send never empties the batch, a successful one never empties     *)
(* more than it sent.                                                      *)
TakenIsAccountedFor ==
  \A r \in Records : fate[r] = "taken" =>
    r \in Batched \union dropped \/ \E t \in Targets : <<r, t>> \in stored

(* No record the buffer handed out is forgotten by the processors: a send  *)
(* that fails keeps its batch, one that succeeds empties what it sent.     *)
PipelineSound == PipelineTypeOK /\ TakenIsAccountedFor

Stored(r) == \E t \in Targets : <<r, t>> \in stored

Stopped == shutdown \/ \A t \in Targets : proc[t] = "none"

(* A processor keeps a batch with such a record, and tries it, for ever. *)
Poisoned(t) == Elems(batch[t]) \intersect Rejectable # {}

(* As long as one processor runs and no batch is poisoned, the pipeline    *)
(* delivers every record that the buffer does not give up and that it can  *)
(* convert, whichever sends fail in between.                               *)
RecordsAreDelivered ==
  []<>(\/ Stopped \/ \E t \in Targets : Poisoned(t)
       \/ \A r \in Records : fate[r] \in {"new", "given_up"} \/ Stored(r) \/ r \in dropped)

(* "Per-source ZeroBus targets (route different sources to different       *)
(* tables)": a record only reaches the target of its source.               *)
SourcesAreRouted == \A p \in stored : p[2] = TargetOf[p[1]]
==============================================================================
