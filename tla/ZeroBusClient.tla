---------------------------- MODULE ZeroBusClient ----------------------------
(***************************************************************************)
(* core/zerobus_client.py: one ZeroBusClient whose send_batch is run by    *)
(* one or more asyncio tasks ("callers").  A step runs from one suspension *)
(* point (create_stream, ingest_record, stream.close, sleep) to the next.  *)
(*                                                                         *)
(* The SDK and the service behind it are external: "up" says whether the   *)
(* service works, and the server may close an open stream while it is      *)
(* down.  A caller that is cancelled (the bridge cancels batch             *)
(* processors) leaves send_batch at its await, recording nothing.          *)
(***************************************************************************)
EXTENDS CircuitBreaker, Sequences

CONSTANTS
  Callers,     \* tasks that call send_batch
  Records,     \* records, abstract
  Rejectable,  \* records that do not match the table's schema
  MaxBatch,    \* bound: longest batch considered
  MaxRetries,  \* retry.max_attempts
  MaxCancels   \* bound: cancellations considered

ASSUME ClientAssumption ==
  /\ Rejectable \subseteq Records
  /\ MaxBatch \in Nat \ {0}
  /\ MaxRetries \in Nat \ {0}
  /\ MaxCancels \in Nat

VARIABLES
  cb,       \* self.circuit_breaker
  stream,   \* self._stream: "none", "open", or "closed" by the server unnoticed
  up,       \* the service accepts streams and records
  pc,       \* where each caller is suspended
  attempt,  \* its attempt, counted from 1
  batch,    \* its batch
  pos,      \* the position in the batch it hands to the SDK next
  landed,   \* per position, how often this call handed the record over
  result,   \* how its last send_batch ended
  cancels,  \* cancellations so far
  trials    \* successes recorded since the circuit last changed to (half-)open

callVars == <<pc, attempt, batch, pos, landed, result>>
vars     == <<cb, trials, up, cancels, stream, callVars>>

Batches == UNION { [1 .. n -> Records] : n \in 1 .. MaxBatch }

TypeOK ==
  /\ cb \in Breaker
  /\ stream \in {"none", "open", "closed"}
  /\ up \in BOOLEAN
  /\ pc \in [Callers -> {"idle", "connect", "ingest", "closing", "sleep"}]
  /\ attempt \in [Callers -> 1 .. MaxRetries]
  /\ batch \in [Callers -> Seq(Records)]
  /\ pos \in [Callers -> 1 .. MaxBatch]
  /\ landed \in [Callers -> [1 .. MaxBatch -> 0 .. MaxRetries]]
  /\ result \in [Callers -> {"none", "sent", "failed", "rejected", "cancelled"}]
  /\ cancels \in 0 .. MaxCancels
  /\ trials \in 0 .. HalfOpenMaxCalls

(* The bridge connects a client before it keeps it; a client never         *)
(* connected starts without a stream.                                      *)
Init ==
  /\ cb = NewBreaker
  /\ stream \in {"none", "open"}
  /\ up = TRUE
  /\ pc = [c \in Callers |-> "idle"]
  /\ attempt = [c \in Callers |-> 1]
  /\ batch = [c \in Callers |-> << >>]
  /\ pos = [c \in Callers |-> 1]
  /\ landed = [c \in Callers |-> [i \in 1 .. MaxBatch |-> 0]]
  /\ result = [c \in Callers |-> "none"]
  /\ cancels = 0
  /\ trials = 0
------------------------------------------------------------------------------
(* Faulty StartAttempt: a retry goes on behind the record that failed. *)
StartAttempt_SkipsFailed(c) ==
  /\ pc' = [pc EXCEPT ![c] = IF stream = "none" THEN "connect" ELSE "ingest"]
  /\ pos' = [pos EXCEPT ![c] =
               IF pc[c] = "sleep" /\ @ < Len(batch[c]) THEN @ + 1 ELSE 1]

(* The head of the retry loop: connect if there is no stream, else go on   *)
(* with the first record.                                                  *)
StartAttempt(c) ==
  /\ pc' = [pc EXCEPT ![c] = IF stream = "none" THEN "connect" ELSE "ingest"]
  /\ pos' = [pos EXCEPT ![c] = 1]

Return(c, outcome) ==
  /\ pc' = [pc EXCEPT ![c] = "idle"]
  /\ result' = [result EXCEPT ![c] = outcome]

(* Faulty AttemptFailed: one attempt too many. *)
AttemptFailed_OneTooMany(c, retriable) ==
  /\ cb' = RecordFailure(cb)
  /\ trials' = 0
  /\ IF retriable /\ attempt[c] <= MaxRetries
     THEN pc' = [pc EXCEPT ![c] = "sleep"] /\ UNCHANGED result
     ELSE Return(c, "failed")
  /\ UNCHANGED <<up, cancels, attempt, batch, pos, landed>>

(* The end of the except block: record the failure, then give up on a      *)
(* schema error or on the last attempt, else back off.                     *)
AttemptFailed(c, retriable) ==
  /\ cb' = RecordFailure(cb)
  /\ trials' = 0
  /\ IF retriable /\ attempt[c] < MaxRetries
     THEN pc' = [pc EXCEPT ![c] = "sleep"] /\ UNCHANGED result
     ELSE Return(c, "failed")
  /\ UNCHANGED <<up, cancels, attempt, batch, pos, landed>>

(* send_batch is called: the breaker is asked once, before the retry loop. *)
Call(c, b) ==
  /\ pc[c] = "idle"
  /\ cb' = AfterCanExecute(cb)
  /\ trials' = IF cb.state = "open" /\ cb'.state = "half_open" THEN 0 ELSE trials
  /\ batch' = [batch EXCEPT ![c] = b]
  /\ landed' = [landed EXCEPT ![c] = [i \in 1 .. MaxBatch |-> 0]]
  /\ attempt' = [attempt EXCEPT ![c] = 1]
  /\ IF CanExecute(cb)
     THEN StartAttempt(c) /\ result' = [result EXCEPT ![c] = "none"]
     ELSE Return(c, "rejected") /\ UNCHANGED pos
  /\ UNCHANGED <<stream, up, cancels>>

(* create_stream returns; a stream another caller opened meanwhile is      *)
(* overwritten, never closed.                                              *)
Connect(c) ==
  /\ pc[c] = "connect"
  /\ up
  /\ stream' = "open"
  /\ pc' = [pc EXCEPT ![c] = "ingest"]
  /\ UNCHANGED <<cb, trials, up, cancels, attempt, batch, pos, landed, result>>

ConnectFails(c) ==
  /\ pc[c] = "connect"
  /\ ~up
  /\ \E retriable \in BOOLEAN : AttemptFailed(c, retriable)
  /\ UNCHANGED stream

(* The SDK takes one record; after the last one the call succeeds.         *)
Ingest(c) ==
  /\ pc[c] = "ingest"
  /\ stream = "open" /\ up
  /\ batch[c][pos[c]] \notin Rejectable
  /\ landed' = [landed EXCEPT ![c][pos[c]] = @ + 1]
  /\ IF pos[c] < Len(batch[c])
     THEN /\ pos' = [pos EXCEPT ![c] = @ + 1]
          /\ UNCHANGED <<cb, trials, pc, result>>
     ELSE /\ cb' = RecordSuccess(cb)
          /\ trials' = IF trials < HalfOpenMaxCalls THEN trials + 1 ELSE trials
          /\ Return(c, "sent")
          /\ UNCHANGED pos
  /\ UNCHANGED <<stream, up, cancels, attempt, batch>>

(* A schema error, an outage, or no stream at all (another caller dropped  *)
(* it: None has no ingest_record).                                         *)
IngestFails(c) ==
  /\ pc[c] = "ingest"
  /\ \/ stream = "open" /\ batch[c][pos[c]] \in Rejectable /\ AttemptFailed(c, FALSE)
     \/ stream = "open" /\ ~up /\ AttemptFailed(c, TRUE)
     \/ stream = "none" /\ AttemptFailed(c, TRUE)
  /\ UNCHANGED stream

(* "Cannot ingest records after stream is closed": the stream is closed on *)
(* this side first, which suspends the caller once more.                   *)
IngestOnClosedStream(c) ==
  /\ pc[c] = "ingest"
  /\ stream = "closed"
  /\ pc' = [pc EXCEPT ![c] = "closing"]
  /\ UNCHANGED <<cb, trials, up, cancels, stream, attempt, batch, pos, landed, result>>

(* stream.close() returned or raised; either way self._stream becomes      *)
(* None, whatever another caller put there meanwhile.                      *)
StreamDropped(c) ==
  /\ pc[c] = "closing"
  /\ stream' = "none"
  /\ AttemptFailed(c, TRUE)

(* The backoff sleep ends.  The breaker is not asked again. *)
Retry(c) ==
  /\ pc[c] = "sleep"
  /\ attempt' = [attempt EXCEPT ![c] = @ + 1]
  /\ StartAttempt(c)
  /\ UNCHANGED <<cb, trials, up, cancels, stream, batch, landed, result>>

(* The caller's task is cancelled at its await. *)
Cancel(c) ==
  /\ pc[c] # "idle"
  /\ cancels < MaxCancels
  /\ cancels' = cancels + 1
  /\ Return(c, "cancelled")
  /\ UNCHANGED <<cb, trials, up, stream, attempt, batch, pos, landed>>

(* close(), which the bridge calls once its batch processors are gone. *)
Close ==
  /\ \A c \in Callers : pc[c] = "idle"
  /\ stream # "none"
  /\ stream' = "none"
  /\ UNCHANGED <<cb, trials, up, cancels, callVars>>
------------------------------------------------------------------------------
(* The service and the clock. *)
Outage  == up /\ up' = FALSE /\ UNCHANGED <<cb, trials, cancels, stream, callVars>>
Restore == ~up /\ up' = TRUE /\ UNCHANGED <<cb, trials, cancels, stream, callVars>>

ServerCloses ==
  /\ ~up
  /\ stream = "open"
  /\ stream' = "closed"
  /\ UNCHANGED <<cb, trials, up, cancels, callVars>>

Tick ==
  /\ cb.failed /\ cb.age < TimeoutTicks
  /\ cb' = Elapse(cb)
  /\ UNCHANGED <<trials, up, cancels, stream, callVars>>

Proceed(c) ==
  \/ Connect(c) \/ ConnectFails(c)
  \/ Ingest(c) \/ IngestFails(c) \/ IngestOnClosedStream(c)
  \/ StreamDropped(c)
  \/ Retry(c)

Next ==
  \/ \E c \in Callers : (\E b \in Batches : Call(c, b)) \/ Proceed(c) \/ Cancel(c)
  \/ Close
  \/ Outage \/ Restore \/ ServerCloses \/ Tick

(* The event loop resumes every suspended call (the SDK's calls return or  *)
(* raise), batch processors call again, and the clock advances.            *)
Fairness ==
  /\ \A c \in Callers : /\ WF_vars(Proceed(c))
                        /\ WF_vars(\E b \in Batches : Call(c, b))
  /\ WF_vars(Tick)

Spec == Init /\ [][Next]_vars /\ Fairness
------------------------------------------------------------------------------
(* The breaker never reaches a state it cannot leave: see                  *)
(* BreakerConsistent.                                                      *)
CircuitConsistent == BreakerConsistent(cb)

(* send_batch returns True only if every record of the batch was handed to *)
(* the SDK during that very call, whatever other callers did to the shared *)
(* stream between its records.                                             *)
TrueMeansHandedOver ==
  \A c \in Callers : result[c] = "sent" =>
    \A i \in 1 .. Len(batch[c]) : landed[c][i] >= 1

(* Retries start over at the first record, so what the table may hold more *)
(* than once is a prefix of the batch, and never more often than attempts  *)
(* were made.                                                              *)
RetriesRepeatAPrefix ==
  \A c \in Callers : \A i \in 1 .. Len(batch[c]) :
    /\ landed[c][i] <= attempt[c]
    /\ i > 1 => landed[c][i] <= landed[c][i - 1]

(* A tripped circuit closes again only on as many successful test calls in *)
(* a row as half_open_max_calls says, made since it went half-open:        *)
(* neither earlier successes nor successes of retries that ran on while it *)
(* was open count.                                                         *)
RecoveryIsEarned ==
  [][cb.state # "closed" /\ cb'.state = "closed" => trials' >= HalfOpenMaxCalls]_vars

(* Every send_batch returns: the retry loop is bounded.                    *)
CallReturns == \A c \in Callers : []<>(pc[c] = "idle")

(* Once the service is up for good and every batch under way fits the      *)
(* table, the circuit ends up closed for good, whatever happened before:   *)
(* in particular retries that failed while it was open, and cancelled test *)
(* calls.                                                                  *)
WellFormed(c) == \A i \in 1 .. Len(batch[c]) : batch[c][i] \notin Rejectable

BreakerRecovers ==
  <>[](up /\ \A c \in Callers : WellFormed(c)) => <>[](cb.state = "closed")
==============================================================================
