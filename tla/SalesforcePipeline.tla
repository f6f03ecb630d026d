--------------------------- MODULE SalesforcePipeline ---------------------------
(***************************************************************************)
(* The Go program that streams Salesforce change events into a table:      *)
(* pipeline.Run and the goroutines it starts.  The subscriber keeps a      *)
(* stream open and retries; of each stream, one goroutine sends            *)
(* FetchRequests and one receives, and the latter blocks on the bounded    *)
(* event channel, which the forwarder empties.  The first of them that     *)
(* fails, or a signal, cancels the context all others watch.               *)
(*                                                                         *)
(* As in SalesforceSubscriber, an event is its place in the stream and a   *)
(* replay id is the number of an event.  MaxRetries has its default, 0,    *)
(* which means no limit.                                                   *)
(***************************************************************************)
EXTENDS Naturals, FiniteSets, SequencesExt

CONSTANTS
  MaxEvents,        \* bound: events published
  BatchSize,        \* BatchSize
  MaxWant,          \* the server's limit on events asked for
  EventChannelSize, \* EventChannelSize
  CacheSize,        \* entries of the DedupCache
  MaxFaults,        \* bound: failures
  MaxStarts         \* bound: starts of the process

ASSUME PipelineAssumption ==
  /\ {MaxFaults, MaxStarts} \subseteq Nat
  /\ {MaxEvents, BatchSize, MaxWant, EventChannelSize, CacheSize} \subseteq Nat \ {0}

Event == 1 .. MaxEvents
Latest == [type |-> "LATEST", id |-> 0]
Earliest == [type |-> "EARLIEST", id |-> 0]
Custom(e) == [type |-> "CUSTOM", id |-> e]
Code == {"InvalidArgument", "Unauthenticated", "Unavailable", "ResourceExhausted", "other"}

VARIABLES
  published,  \* events Salesforce has published
  rows,       \* rows of the table
  inflight,   \* records the ZeroBus stream has taken and not made durable
  backfill,   \* BackfillHistorical
  up,         \* the process runs
  cancelled,  \* gctx is done
  sub,        \* SubscriberClient.Run: waiting, streaming, backoff, returned
  replay,     \* currentReplayType, currentReplayID
  cursor,     \* the server's position in the open stream
  want,       \* events the server has been asked for and not sent
  broken,     \* the code the stream ended with, "none" while it is up
  last,       \* lastReplayID of this stream, 0 if none
  batch,      \* events of the response the receiver is working on
  flow,       \* flowCh holds a token
  seen,       \* the DedupCache, least recently used first
  eventCh,    \* eventCh
  fwd,        \* Forwarder.Run: starting, ready, sleeping, returned
  held,       \* event in the retry loop of Forwarder.Run, 0 if none
  stream,     \* the forwarder has a stream
  faults,     \* history: failures so far
  starts,     \* history: starts so far
  lost,       \* history: events given up, skipped or never decoded
  fatal       \* history: a retryable error of a stream ended the process

salesforce == <<published, cursor, want, broken>>
zerobus == <<rows, inflight, stream>>
receiver == <<last, batch, flow, seen>>
forwarder == <<fwd, held>>
process == <<backfill, up, starts>>
vars == <<salesforce, zerobus, receiver, forwarder, process, cancelled, sub, replay, eventCh,
          faults, lost, fatal>>

TypeOK ==
  /\ published \in 0 .. MaxEvents /\ cursor \in 0 .. MaxEvents /\ want \in 0 .. MaxWant
  /\ broken \in Code \union {"none"}
  /\ {rows, inflight, batch, seen, eventCh} \subseteq Seq(Event)
  /\ Len(eventCh) <= EventChannelSize /\ Len(seen) <= CacheSize
  /\ {backfill, up, cancelled, flow, stream, fatal} \subseteq BOOLEAN
  /\ sub \in {"waiting", "streaming", "backoff", "returned"}
  /\ fwd \in {"starting", "ready", "sleeping", "returned"}
  /\ replay \in {Latest, Earliest} \union {Custom(e) : e \in Event}
  /\ {last, held} \subseteq 0 .. MaxEvents
  /\ faults \in 0 .. MaxFaults /\ starts \in 0 .. MaxStarts /\ lost \subseteq Event

Init ==
  /\ published \in 0 .. 1 /\ rows = <<>> /\ inflight = <<>> /\ backfill \in BOOLEAN
  /\ up = FALSE /\ cancelled = FALSE /\ sub = "waiting" /\ replay = Latest
  /\ cursor = 0 /\ want = 0 /\ broken = "none" /\ last = 0 /\ batch = <<>> /\ flow = FALSE
  /\ seen = <<>> /\ eventCh = <<>> /\ fwd = "starting" /\ held = 0 /\ stream = FALSE
  /\ faults = 0 /\ starts = 0 /\ lost = {} /\ fatal = FALSE

Fault == faults < MaxFaults /\ faults' = faults + 1

(* The process is gone: of the records in flight the first n were durable. *)
Gone ==
  /\ \E n \in 0 .. Len(inflight) : rows' = rows \o SubSeq(inflight, 1, n)
  /\ inflight' = <<>> /\ up' = FALSE /\ cancelled' = FALSE
  /\ sub' = "waiting" /\ fwd' = "starting" /\ held' = 0 /\ stream' = FALSE
  /\ cursor' = 0 /\ want' = 0 /\ broken' = "none" /\ last' = 0 /\ batch' = <<>> /\ flow' = FALSE
  /\ seen' = <<>> /\ eventCh' = <<>> /\ replay' = Latest
  /\ UNCHANGED <<published, backfill, starts, faults, lost, fatal>>
------------------------------------------------------------------------------
Fresh == IF backfill THEN Earliest ELSE Latest

(* GetSubscriptionParams: a query that fails, or is not done in time,      *)
(* counts as a table that does not exist or has no rows.                   *)
SubscriptionParams(failed) ==
  IF failed \/ rows = <<>> THEN Fresh ELSE Custom(Last(rows))

Start ==
  /\ ~up /\ starts < MaxStarts /\ starts' = starts + 1 /\ up' = TRUE
  /\ \/ replay' = SubscriptionParams(FALSE) /\ UNCHANGED faults
     \/ replay' = SubscriptionParams(TRUE) /\ Fault
  /\ UNCHANGED <<salesforce, zerobus, receiver, forwarder, backfill, cancelled, sub, eventCh,
                 lost, fatal>>

(* A signal cancels the context.                                           *)
Signal ==
  /\ up /\ ~cancelled /\ cancelled' = TRUE
  /\ UNCHANGED <<salesforce, zerobus, receiver, forwarder, process, sub, replay, eventCh,
                 faults, lost, fatal>>

Crash == up /\ Gone

(* g.Wait() returns once all goroutines of the group have; those of a      *)
(* stream are none of them.  Run closes the stream and the process ends.   *)
Finish == up /\ cancelled /\ sub = "returned" /\ fwd = "returned" /\ Gone
------------------------------------------------------------------------------
(* subscribe opens a stream, once the forwarder is ready, and sends the    *)
(* initial FetchRequest.                                                   *)
Underway == ToSet(batch) \union ToSet(eventCh) \union {held} \union ToSet(inflight) \union ToSet(rows)

Open ==
  /\ up /\ sub \in {"waiting", "backoff"} /\ (sub = "waiting" => stream)
  /\ sub' = "streaming"
  /\ cursor' = CASE replay.type = "LATEST" -> published
                 [] replay.type = "EARLIEST" -> 0
                 [] OTHER -> replay.id
  /\ lost' = IF replay.type = "LATEST" THEN lost \union ((1 .. published) \ Underway) ELSE lost
  /\ want' = IF BatchSize > MaxWant THEN MaxWant ELSE BatchSize
  /\ broken' = "none" /\ last' = 0 /\ flow' = FALSE
  /\ UNCHANGED <<published, zerobus, batch, seen, forwarder, process, cancelled, replay, eventCh,
                 faults, fatal>>

(* sendFetchRequests: a token of the receiver, or the timeout.             *)
Fetch ==
  /\ up /\ sub = "streaming" /\ broken = "none" /\ ~cancelled
  /\ flow \/ want = 0
  /\ flow' = FALSE
  /\ want' = IF want + BatchSize > MaxWant THEN MaxWant ELSE want + BatchSize
  /\ UNCHANGED <<published, cursor, broken, zerobus, last, batch, seen, forwarder, process, cancelled,
                 sub, replay, eventCh, faults, lost, fatal>>

(* The receiver gets a response with k events.                             *)
Receive ==
  /\ up /\ sub = "streaming" /\ broken = "none" /\ batch = <<>>
  /\ \E k \in 1 .. want :
       /\ cursor + k <= published
       /\ cursor' = cursor + k /\ want' = want - k /\ last' = cursor + k
       /\ batch' = [i \in 1 .. k |-> cursor + i]
  /\ UNCHANGED <<published, broken, zerobus, flow, seen, forwarder, process, cancelled, sub, replay,
                 eventCh, faults, lost, fatal>>

Keepalive ==
  /\ up /\ sub = "streaming" /\ broken = "none" /\ batch = <<>> /\ want > 0 /\ cursor = published
  /\ last' = IF cursor = 0 THEN last ELSE cursor
  /\ flow' = TRUE
  /\ UNCHANGED <<salesforce, zerobus, batch, seen, forwarder, process, cancelled, sub, replay, eventCh,
                 faults, lost, fatal>>

(* The receiver is done with an event; after the last one it leaves a      *)
(* token in flowCh.                                                        *)
Done ==
  /\ batch' = Tail(batch) /\ flow' = (flow \/ Len(batch) = 1) /\ last' = Head(batch)
  /\ UNCHANGED <<salesforce, zerobus, forwarder, process, cancelled, sub, replay, fatal>>

(* Add of the LRU cache.                                                   *)
Added(cache, e) == Append(IF Len(cache) < CacheSize THEN cache ELSE Tail(cache), e)

Duplicate ==
  /\ up /\ batch # <<>> /\ Head(batch) \in ToSet(seen)
  /\ Done
  /\ UNCHANGED <<seen, eventCh, faults, lost>>

(* decodeEvent fails, be it only because the schema cannot be fetched now. *)
DecodeFails ==
  /\ up /\ batch # <<>> /\ Head(batch) \notin ToSet(seen) /\ Fault
  /\ seen' = Added(seen, Head(batch)) /\ lost' = lost \union {Head(batch)}
  /\ Done
  /\ UNCHANGED eventCh

(* It blocks as long as the channel is full.                               *)
Queue ==
  /\ up /\ batch # <<>> /\ Head(batch) \notin ToSet(seen)
  /\ Len(eventCh) < EventChannelSize
  /\ seen' = Added(seen, Head(batch)) /\ eventCh' = Append(eventCh, Head(batch))
  /\ Done
  /\ UNCHANGED <<faults, lost>>

(* With the context done, select may choose that: the event is dropped,    *)
(* and break leaves the select only, so the next event has its turn.       *)
QueueCancelled ==
  /\ up /\ batch # <<>> /\ Head(batch) \notin ToSet(seen) /\ cancelled
  /\ seen' = Added(seen, Head(batch)) /\ lost' = lost \union {Head(batch)}
  /\ Done
  /\ UNCHANGED <<eventCh, faults>>
------------------------------------------------------------------------------
(* Salesforce ends the stream with an error.                               *)
Break ==
  /\ up /\ sub = "streaming" /\ broken = "none" /\ Fault
  /\ broken' \in Code
  /\ broken' = "InvalidArgument" => replay.type = "CUSTOM" /\ last = 0
  /\ UNCHANGED <<published, cursor, want, zerobus, receiver, forwarder, process, cancelled, sub, replay,
                 eventCh, lost, fatal>>

Retryable(code) == code # "other"

(* Faulty version: what the server has sent is not what was processed. *)
RetryStrategy_FromCursor(code) ==
  CASE code = "InvalidArgument" -> Latest
    [] code = "Unauthenticated" -> replay
    [] OTHER -> IF published = 0 THEN replay ELSE Custom(published)

(* determineRetryStrategy.                                                 *)
RetryStrategy(code) ==
  CASE code = "InvalidArgument" -> Latest
    [] code = "Unauthenticated" -> replay
    [] code \notin {"InvalidArgument", "Unauthenticated"} /\ last # 0 -> Custom(last)
    [] code = "ResourceExhausted" /\ last = 0 -> Latest
    [] OTHER -> replay

(* The receiver sees the error when it asks for the next response.         *)
ReceiveFails ==
  /\ up /\ sub = "streaming" /\ broken # "none" /\ batch = <<>> /\ ~cancelled
  /\ IF Retryable(broken) THEN sub' = "backoff" /\ replay' = RetryStrategy(broken) /\ UNCHANGED cancelled
                          ELSE sub' = "returned" /\ cancelled' = TRUE /\ UNCHANGED replay
  /\ UNCHANGED <<salesforce, zerobus, receiver, forwarder, process, eventCh, faults, lost, fatal>>

(* The sender sees io.EOF, which carries no code and is not retried: with  *)
(* a token to use, or at its timeout while the receiver is blocked.        *)
SendFails ==
  /\ up /\ sub = "streaming" /\ broken # "none" /\ (flow \/ batch # <<>>) /\ ~cancelled
  /\ sub' = "returned" /\ cancelled' = TRUE
  /\ fatal' = (fatal \/ Retryable(broken))
  /\ UNCHANGED <<salesforce, zerobus, receiver, forwarder, process, replay, eventCh, faults, lost>>

(* Faulty version: the wait for the forwarder does not watch the context. *)
SubscriberCancelled_OnceReady ==
  /\ up /\ cancelled /\ sub \in {"streaming", "backoff"} /\ sub' = "returned"
  /\ UNCHANGED <<salesforce, zerobus, receiver, forwarder, process, cancelled, replay, eventCh,
                 faults, lost, fatal>>

(* Wherever Run of the subscriber is, it watches the context.              *)
SubscriberCancelled ==
  /\ up /\ cancelled /\ sub # "returned" /\ sub' = "returned"
  /\ UNCHANGED <<salesforce, zerobus, receiver, forwarder, process, cancelled, replay, eventCh,
                 faults, lost, fatal>>
------------------------------------------------------------------------------
(* initializeStream; the subscriber waits for it.                          *)
ForwarderReady ==
  /\ up /\ fwd = "starting"
  /\ \/ fwd' = "ready" /\ stream' = TRUE /\ UNCHANGED <<cancelled, faults>>
     \/ fwd' = "returned" /\ cancelled' = TRUE /\ Fault /\ UNCHANGED stream
  /\ UNCHANGED <<salesforce, rows, inflight, receiver, held, process, sub, replay, eventCh,
                 lost, fatal>>

Take ==
  /\ up /\ fwd = "ready" /\ held = 0 /\ eventCh # <<>>
  /\ held' = Head(eventCh) /\ eventCh' = Tail(eventCh)
  /\ UNCHANGED <<salesforce, zerobus, receiver, fwd, process, cancelled, sub, replay,
                 faults, lost, fatal>>

Forward ==
  /\ up /\ fwd = "ready" /\ held # 0
  /\ held' = 0 /\ stream' = TRUE /\ inflight' = Append(inflight, held)
  /\ UNCHANGED <<salesforce, rows, receiver, fwd, process, cancelled, sub, replay, eventCh,
                 faults, lost, fatal>>

(* The stream is closed, with whatever it could not make durable.          *)
CloseStream ==
  \E n \in 0 .. Len(inflight) :
    /\ rows' = rows \o SubSeq(inflight, 1, n)
    /\ lost' = lost \union ToSet(SubSeq(inflight, n + 1, Len(inflight)))

(* The record is refused and a new stream takes it.                        *)
ForwardRecreates ==
  /\ up /\ fwd = "ready" /\ held # 0 /\ stream /\ Fault
  /\ CloseStream /\ held' = 0 /\ inflight' = <<held>>
  /\ UNCHANGED <<salesforce, stream, receiver, fwd, process, cancelled, sub, replay, eventCh, fatal>>

(* No stream can be made, or the new one refuses the record as well: the   *)
(* event is kept and tried again.                                          *)
ForwardFails ==
  /\ up /\ fwd = "ready" /\ held # 0 /\ Fault
  /\ CloseStream /\ inflight' = <<>>
  /\ fwd' = "sleeping" /\ stream' = FALSE
  /\ UNCHANGED <<salesforce, receiver, held, process, cancelled, sub, replay, eventCh, fatal>>

(* Faulty version: the event is kept until the pipeline is cancelled. *)
SleepEnds_OnlyCancelled ==
  /\ up /\ fwd = "sleeping" /\ cancelled /\ fwd' = "returned"
  /\ UNCHANGED <<salesforce, zerobus, receiver, held, process, cancelled, sub, replay, eventCh,
                 faults, lost, fatal>>

(* backoff.Sleep: time passes, or the context is done.                     *)
SleepEnds ==
  /\ up /\ fwd = "sleeping"
  /\ fwd' = "ready" \/ (cancelled /\ fwd' = "returned")
  /\ UNCHANGED <<salesforce, zerobus, receiver, held, process, cancelled, sub, replay, eventCh,
                 faults, lost, fatal>>

ForwarderCancelled ==
  /\ up /\ fwd = "ready" /\ held = 0 /\ cancelled /\ fwd' = "returned"
  /\ UNCHANGED <<salesforce, zerobus, receiver, held, process, cancelled, sub, replay, eventCh,
                 faults, lost, fatal>>

Durable ==
  /\ inflight # <<>> /\ rows' = Append(rows, Head(inflight)) /\ inflight' = Tail(inflight)
  /\ UNCHANGED <<salesforce, stream, receiver, forwarder, process, cancelled, sub, replay, eventCh,
                 faults, lost, fatal>>

Publish ==
  /\ published < MaxEvents /\ published' = published + 1
  /\ UNCHANGED <<cursor, want, broken, zerobus, receiver, forwarder, process, cancelled, sub, replay,
                 eventCh, faults, lost, fatal>>

Next ==
  \/ Start \/ Signal \/ Crash \/ Finish \/ Open \/ Fetch \/ Receive \/ Keepalive
  \/ Duplicate \/ DecodeFails \/ Queue \/ QueueCancelled
  \/ Break \/ ReceiveFails \/ SendFails \/ SubscriberCancelled
  \/ ForwarderReady \/ Take \/ Forward \/ ForwardRecreates \/ ForwardFails \/ SleepEnds
  \/ ForwarderCancelled \/ Durable \/ Publish

(* Goroutines run, sleeps and timeouts end, and the services answer, or    *)
(* fail, what they are asked.  No service fails for ever, and select is    *)
(* not unfair to the context.                                              *)
Fairness ==
  /\ WF_vars(Finish) /\ WF_vars(Open) /\ WF_vars(Fetch) /\ WF_vars(Receive)
  /\ WF_vars(Duplicate \/ DecodeFails \/ Queue \/ QueueCancelled)
  /\ WF_vars(ReceiveFails \/ SendFails) /\ WF_vars(SubscriberCancelled)
  /\ WF_vars(ForwarderReady) /\ WF_vars(Take) /\ WF_vars(Forward \/ ForwardRecreates \/ ForwardFails)
  /\ WF_vars(SleepEnds) /\ WF_vars(ForwarderCancelled) /\ WF_vars(Durable)

Spec == Init /\ [][Next]_vars /\ Fairness
------------------------------------------------------------------------------
(* Whatever breaks, is sent twice or is started again: an event older than *)
(* a row is a row itself, on its way, or was given up where the code does. *)
Gapless ==
  \A e, f \in Event : e < f /\ f \in ToSet(rows) => e \in Underway \union lost

(* Whatever the three goroutines do: types, and no hole in the table.      *)
PipelineSound == TypeOK /\ Gapless

(* However full the channel, whatever the forwarder waits for and whoever  *)
(* failed: once the context is cancelled, the process ends.                *)
ShutdownCompletes == []<>(~cancelled \/ ~up)

(* Once Salesforce is quiet, every event gets into the table or is given   *)
(* up, as long as the process runs.                                        *)
Delivered ==
  []<>(1 .. published \subseteq ToSet(rows) \union lost \/ ~up)

(* client.go, line 117: "It retries on transient errors with configurable/ *)
(* unlimited retries."                                                     *)
TransientErrorsAreRetried == ~fatal
=================================================================================
