-------------------------- MODULE SalesforceSubscriber --------------------------
(***************************************************************************)
(* The Python client that streams Salesforce change events into a table:   *)
(* SalesforceZerobus.start() and what it starts.  The main thread          *)
(* subscribes and runs the callback; a generator, in a thread of gRPC's,   *)
(* asks for more events when the flow controller lets it; a third thread   *)
(* creates the table, looks up where to resume, and forwards what the      *)
(* callback queued.  The process may stop or die, and be started again.    *)
(*                                                                         *)
(* Events are numbered in the order in which Salesforce published them,    *)
(* and a replay id is the number of an event.                              *)
(***************************************************************************)
EXTENDS FlowController, FiniteSets, SequencesExt

CONSTANTS
  MaxEvents,    \* bound: events published
  BatchSize,    \* batch_size: events asked for by one FetchRequest
  MaxWant,      \* the server's limit on events asked for
  CacheSize,    \* _max_event_ids_cache
  MaxRetries,   \* max_retries
  MaxFaults,    \* bound: failures of streams, queries and events
  MaxStarts,    \* bound: starts of the process
  MaxPermits    \* bound: permits, which the code does not limit

ASSUME SubscriberAssumption ==
  /\ {MaxWant, MaxRetries, MaxFaults, MaxStarts} \subseteq Nat
  /\ {MaxEvents, BatchSize, MaxPermits} \subseteq Nat \ {0}
  /\ CacheSize \in Nat \ {0, 1}  \* of a cache of one, half is nothing

Event == 1 .. MaxEvents
Latest == [type |-> "LATEST", id |-> 0]
Earliest == [type |-> "EARLIEST", id |-> 0]
Custom(e) == [type |-> "CUSTOM", id |-> e]

VARIABLES
  published,  \* events Salesforce has published
  cursor,     \* the server's position in the stream, -1 before the first FetchRequest
  want,       \* events the server has been asked for and not sent
  table,      \* rows of the Delta table; <<0>> if there is no table
  inflight,   \* records the ZeroBus stream has taken and not made durable
  backfill,   \* backfill_historical
  pc,         \* main thread: down, starting, subscribed, backoff, stopping
  replay,     \* current_replay_type, current_replay_id
  original,   \* original_replay_type, original_replay_id
  last,       \* last_processed_replay_id; 0 for None
  attempt,    \* attempt
  fc,         \* the flow controller
  waiting,    \* the generator of this stream is blocked in acquire()
  stale,      \* generators of dead streams still blocked in acquire()
  seen,       \* _processed_event_ids
  queue,      \* event_queue
  setup,      \* the third thread: tables, replay, stream, looping, dead
  fetched,    \* _cached_replay_id once _replay_id_fetched, -1 before
  stream,     \* the forwarder has a stream
  faults,     \* history: failures so far
  starts,     \* history: starts so far
  lost,       \* history: events given up, skipped or never decoded
  taken,      \* history: events queued since the start
  repeated    \* history: an event was queued twice since the start

server == <<published, cursor, want>>
subscription == <<replay, original, last, attempt, fc, waiting, stale, seen>>
forwarder == <<setup, fetched, stream>>
history == <<faults, starts, lost, taken, repeated>>
vars == <<server, table, inflight, backfill, pc, subscription, queue, forwarder, history>>

NoTable == <<0>>
Rows == IF table = NoTable THEN <<>> ELSE table

TypeOK ==
  /\ published \in 0 .. MaxEvents /\ cursor \in -1 .. MaxEvents /\ want \in 0 .. MaxWant
  /\ table \in Seq(Event) \union {NoTable} /\ inflight \in Seq(Event) /\ backfill \in BOOLEAN
  /\ pc \in {"down", "starting", "subscribed", "backoff", "stopping"}
  /\ {replay, original} \subseteq {Latest, Earliest} \union {Custom(e) : e \in Event}
  /\ last \in 0 .. MaxEvents /\ attempt \in 0 .. MaxRetries + 1
  /\ fc \in Controller(MaxPermits + 1) /\ waiting \in BOOLEAN /\ stale \in 0 .. MaxFaults
  /\ seen \subseteq Event /\ Cardinality(seen) <= CacheSize
  /\ queue \in Seq(Event)
  /\ setup \in {"off", "tables", "replay", "stream", "looping", "dead"}
  /\ fetched \in -1 .. MaxEvents /\ stream \in BOOLEAN
  /\ faults \in 0 .. MaxFaults /\ starts \in 0 .. MaxStarts
  /\ lost \subseteq Event /\ taken \subseteq Event /\ repeated \in BOOLEAN

Init ==
  /\ published \in 0 .. 1 /\ cursor = -1 /\ want = 0
  /\ table \in {NoTable, <<>>} /\ inflight = <<>> /\ backfill \in BOOLEAN
  /\ pc = "down" /\ replay = Latest /\ original = Latest /\ last = 0 /\ attempt = 0
  /\ fc = NewController /\ waiting = FALSE /\ stale = 0 /\ seen = {} /\ queue = <<>>
  /\ setup = "off" /\ fetched = -1 /\ stream = FALSE
  /\ faults = 0 /\ starts = 0 /\ lost = {} /\ taken = {} /\ repeated = FALSE

Fault == faults < MaxFaults /\ faults' = faults + 1
------------------------------------------------------------------------------
(* What only the process keeps.                                            *)
Volatile ==
  /\ fc' = NewController /\ seen' = {} /\ queue' = <<>>
  /\ last' = 0 /\ attempt' = 0 /\ waiting' = FALSE /\ stale' = 0
  /\ fetched' = -1 /\ stream' = FALSE
  /\ taken' = {} /\ repeated' = FALSE

(* start() makes the components anew and starts the third thread.          *)
Start ==
  /\ pc = "down" /\ starts < MaxStarts
  /\ starts' = starts + 1 /\ pc' = "starting" /\ setup' = "tables"
  /\ Volatile
  /\ UNCHANGED <<server, table, inflight, backfill, replay, original, faults, lost>>

(* The process ends, after start() cleaned up or without: of the records   *)
(* the ZeroBus stream has taken, the first n get into the table.           *)
End ==
  /\ pc # "down" /\ pc' = "down" /\ setup' = "off"
  /\ \E n \in 0 .. Len(inflight) : table' = table \o SubSeq(inflight, 1, n)
  /\ inflight' = <<>> /\ cursor' = -1 /\ want' = 0
  /\ replay' = Latest /\ original' = Latest
  /\ Volatile
  /\ UNCHANGED <<published, backfill, faults, starts, lost>>

(* Interrupted, start() sets running to FALSE: nothing is received or      *)
(* taken from the queue any more.                                          *)
Stop ==
  /\ pc \in {"starting", "subscribed", "backoff"} /\ pc' = "stopping"
  /\ waiting' = FALSE /\ cursor' = -1 /\ want' = 0
  /\ UNCHANGED <<published, table, inflight, backfill, replay, original, last, attempt, fc, stale,
                 seen, queue, forwarder, history>>

(* get_last_replay_id: the row with the latest timestamp.  Rows forwarded  *)
(* in the same millisecond have the same one; 0 stands for None.           *)
LastReplayIds ==
  IF Rows = <<>> THEN {0}
  ELSE {Rows[i] : i \in {Len(Rows), IF Len(Rows) > 1 THEN Len(Rows) - 1 ELSE Len(Rows)}}

Resume(id) == IF id # 0 THEN Custom(id) ELSE IF backfill THEN Earliest ELSE Latest

(* get_subscription_params of the third thread: it creates the table if a  *)
(* query does not show that there is one.                                  *)
CreateTable ==
  /\ setup = "tables" /\ setup' = "replay"
  /\ \/ table' = (IF table = NoTable THEN <<>> ELSE table) /\ UNCHANGED faults
     \/ Fault /\ UNCHANGED table
  /\ UNCHANGED <<server, inflight, backfill, pc, subscription, queue, fetched, stream,
                 starts, lost, taken, repeated>>

(* initialize_replay_recovery: a query that fails counts as no rows.       *)
FetchReplayId ==
  /\ setup = "replay" /\ setup' = "stream"
  /\ \/ fetched' \in LastReplayIds /\ UNCHANGED faults
     \/ Fault /\ fetched' = 0
  /\ UNCHANGED <<server, table, inflight, backfill, pc, subscription, queue, stream,
                 starts, lost, taken, repeated>>

(* initialize_stream: if it fails, as it does without a table, the thread  *)
(* dies and forwards nothing.                                              *)
OpenStream ==
  /\ setup = "stream"
  /\ \/ table # NoTable /\ stream' = TRUE /\ setup' = "looping" /\ UNCHANGED faults
     \/ setup' = "dead" /\ UNCHANGED stream /\ (IF table = NoTable THEN UNCHANGED faults ELSE Fault)
  /\ UNCHANGED <<server, table, inflight, backfill, pc, subscription, queue, fetched,
                 starts, lost, taken, repeated>>

(* get_subscription_params of the main thread, two seconds after it        *)
(* started the other: with no table (yet), from LATEST.                    *)
SubscriptionParams ==
  IF table = NoTable THEN {Latest}
  ELSE {Resume(id) : id \in IF fetched # -1 THEN {fetched} ELSE LastReplayIds}

Subscribe ==
  /\ pc = "starting" /\ pc' = "subscribed"
  /\ \/ replay' \in SubscriptionParams /\ UNCHANGED faults
     \/ Fault /\ replay' = Latest
     \/ Fault /\ replay' = Resume(0) /\ table # NoTable /\ fetched = -1
  /\ original' = replay' /\ waiting' = TRUE /\ cursor' = -1 /\ want' = 0
  /\ UNCHANGED <<published, table, inflight, backfill, last, attempt, fc, stale, seen, queue,
                 forwarder, starts, lost, taken, repeated>>
------------------------------------------------------------------------------
(* What is on its way from the subscription to the table.                  *)
Underway == ToSet(queue) \union ToSet(inflight) \union ToSet(Rows)

(* A FetchRequest reaches the server; the first one places the cursor.     *)
Fetch ==
  /\ want' = IF want + BatchSize > MaxWant THEN MaxWant ELSE want + BatchSize
  /\ IF cursor # -1 THEN UNCHANGED <<cursor, lost>>
     ELSE /\ cursor' = CASE replay.type = "LATEST" -> published
                         [] replay.type = "EARLIEST" -> 0
                         [] OTHER -> replay.id
          /\ lost' = IF replay.type = "LATEST" THEN lost \union ((1 .. published) \ Underway)
                                               ELSE lost
  /\ UNCHANGED <<published, table, inflight, backfill, pc, replay, original, last, attempt,
                 waiting, stale, seen, queue, forwarder, faults, starts, taken, repeated>>

(* fetch_req_stream gets a permit and yields a FetchRequest.               *)
FetchOnPermit ==
  /\ pc = "subscribed" /\ waiting /\ CanAcquire(fc)
  /\ fc' = Acquired(fc)
  /\ Fetch

(* Faulty version: acquire() waits without a timeout. *)
FetchOnTimeout_Never == waiting /\ FALSE /\ Fetch

(* It got none for timeout_seconds: it yields a FetchRequest all the same, *)
(* because by then that long has passed since the last one.                *)
FetchOnTimeout ==
  /\ pc = "subscribed" /\ waiting /\ ~CanAcquire(fc)
  /\ fc' = TimedOut(fc)
  /\ Fetch

(* The generator of a stream that is gone waits on, with the same          *)
(* controller; what it acquires is lost.                                   *)
StaleAcquire ==
  /\ stale > 0 /\ stale' = stale - 1
  /\ fc' = IF CanAcquire(fc) THEN Acquired(fc) ELSE TimedOut(fc)
  /\ UNCHANGED <<server, table, inflight, backfill, pc, replay, original, last, attempt,
                 waiting, seen, queue, forwarder, history>>
------------------------------------------------------------------------------
(* _mark_event_processed: a full cache loses half its entries, any half.   *)
Marked(s, e) ==
  LET kept == IF Cardinality(s) < CacheSize THEN {s}
              ELSE kSubset(Cardinality(s) - Cardinality(s) \div 2, s)
  IN  {k \union {e} : k \in kept}

(* replay_tracking_callback on the k events after n: the cache before the  *)
(* first of them and after each.                                           *)
Deduplicate(s, n, k) ==
  {cache \in [0 .. k -> SUBSET Event] :
     /\ cache[0] = s
     /\ \A i \in 1 .. k :
          cache[i] \in IF n + i \in cache[i - 1] THEN {cache[i - 1]}
                      ELSE Marked(cache[i - 1], n + i)}

(* Faulty version: a duplicate ends the loop. *)
Fresh_UpToDuplicate(cache, n, k) ==
  {n + i : i \in {i \in 1 .. k : \A j \in 1 .. i : n + j \notin cache[j - 1]}}

(* The events it passes on: those it did not find in the cache.            *)
Fresh(cache, n, k) == {n + i : i \in {i \in 1 .. k : n + i \notin cache[i - 1]}}

(* _salesforce_event_callback puts the events of S on the queue, in order. *)
Queued(S) ==
  {queue \o q : q \in {q \in [1 .. Cardinality(S) -> S] :
                        ToSet(q) = S /\ \A i, j \in DOMAIN q : i < j => q[i] < q[j]}}

(* A response with k events: those that are new are queued, but for those  *)
(* that cannot be decoded.  The callback is not called, and no permit is   *)
(* released, if none is new.                                               *)
Receive ==
  /\ pc = "subscribed" /\ cursor # -1
  /\ \E k \in 1 .. want :
       /\ cursor + k <= published
       /\ cursor' = cursor + k /\ want' = want - k
       /\ \E cache \in Deduplicate(seen, cursor, k) :
          LET fresh == Fresh(cache, cursor, k) IN
          \E bad \in {{}} \union {{e} : e \in fresh} :
            /\ IF bad = {} THEN UNCHANGED faults ELSE Fault
            /\ last' = IF fresh = {} THEN cursor + k ELSE Max(fresh)
            /\ seen' = cache[k]
            /\ queue' \in Queued(fresh \ bad)
            /\ lost' = lost \union bad
            /\ taken' = taken \union fresh
            /\ repeated' = (repeated \/ fresh \intersect taken # {})
            /\ fc' = IF fresh # {} /\ want - k = 0 THEN Released(fc) ELSE fc
  /\ UNCHANGED <<published, table, inflight, backfill, pc, replay, original, attempt, waiting, stale,
                 forwarder, starts>>

(* A response without events always releases a permit.                     *)
Keepalive ==
  /\ pc = "subscribed" /\ cursor = published /\ want > 0
  /\ fc.permits < MaxPermits
  /\ last' = IF cursor = 0 THEN last ELSE cursor
  /\ fc' = Released(fc)
  /\ UNCHANGED <<server, table, inflight, backfill, pc, replay, original, attempt, waiting, stale,
                 seen, queue, forwarder, history>>

(* _determine_retry_strategy and what subscribe does after an error that   *)
(* is no RpcError, for the codes that are retried.                         *)
RetryStrategy(code) ==
  CASE code = "invalid replay id" -> Latest
    [] code = "unauthenticated" -> original
    [] code = "unexpected" -> replay
    [] code = "exhausted" /\ last = 0 -> Latest
    [] code = "temporary" /\ last = 0 -> original
    [] OTHER -> Custom(last)

(* The stream breaks.  attempt counts the failures since the start: it is  *)
(* never set back, and after the last one subscribe() raises.              *)
StreamFails ==
  /\ pc = "subscribed" /\ Fault
  /\ \E code \in {"invalid replay id", "unauthenticated", "unexpected", "exhausted", "temporary"} :
       /\ code = "invalid replay id" => cursor = -1 /\ replay.type = "CUSTOM"
       /\ replay' = RetryStrategy(code)
  /\ attempt' = attempt + 1
  /\ pc' = IF attempt < MaxRetries THEN "backoff" ELSE "stopping"
  /\ waiting' = FALSE /\ stale' = stale + 1
  /\ cursor' = -1 /\ want' = 0
  /\ UNCHANGED <<published, table, inflight, backfill, original, last, fc, seen, queue, forwarder,
                 starts, lost, taken, repeated>>

(* An error that is not retried, or the end of the stream.                 *)
StreamEnds ==
  /\ pc = "subscribed" /\ Fault
  /\ pc' = "stopping" /\ waiting' = FALSE /\ stale' = stale + 1
  /\ cursor' = -1 /\ want' = 0
  /\ UNCHANGED <<published, table, inflight, backfill, replay, original, last, attempt, fc, seen,
                 queue, forwarder, starts, lost, taken, repeated>>

Retry ==
  /\ pc = "backoff" /\ pc' = "subscribed" /\ waiting' = TRUE
  /\ UNCHANGED <<server, table, inflight, backfill, replay, original, last, attempt, fc, stale, seen,
                 queue, forwarder, history>>
------------------------------------------------------------------------------
(* _process_event_queue forwards the next event, as long as it runs.  What *)
(* forward_event raises is logged, and the event is forgotten.             *)
Take ==
  /\ setup = "looping" /\ pc # "stopping" /\ queue # <<>> /\ queue' = Tail(queue)
  /\ UNCHANGED <<server, backfill, pc, subscription, setup, fetched, starts, taken, repeated>>

GivenUp == lost' = lost \union {Head(queue)}

(* forward_event makes a stream if there is none.  After a ZerobusException *)
(* recreate_stream keeps what the stream had not made durable, and the     *)
(* event is sent again.                                                    *)
Forward ==
  /\ Take
  /\ UNCHANGED faults \/ (stream /\ Fault)
  /\ stream' = TRUE
  /\ inflight' = Append(inflight, Head(queue))
  /\ UNCHANGED <<table, lost>>

(* No stream could be made, or an error that is no ZerobusException.       *)
ForwardFails ==
  /\ Take /\ Fault /\ GivenUp
  /\ UNCHANGED <<table, inflight, stream>>

(* A ZerobusException, and recreate_stream or the second attempt fails as  *)
(* well: the stream is dropped, with what it still held.                   *)
ForwardDrops ==
  /\ Take /\ Fault /\ stream /\ stream' = FALSE
  /\ \E n \in 0 .. Len(inflight) :
       /\ table' = table \o SubSeq(inflight, 1, n)
       /\ lost' = lost \union {Head(queue)} \union ToSet(SubSeq(inflight, n + 1, Len(inflight)))
  /\ inflight' = <<>>

(* A record becomes a row.                                                 *)
Durable ==
  /\ inflight # <<>> /\ stream
  /\ table' = Append(table, Head(inflight)) /\ inflight' = Tail(inflight)
  /\ UNCHANGED <<server, backfill, pc, subscription, queue, forwarder, history>>

Publish ==
  /\ published < MaxEvents /\ published' = published + 1
  /\ UNCHANGED <<cursor, want, table, inflight, backfill, pc, subscription, queue, forwarder, history>>

Next ==
  \/ Start \/ End \/ Stop \/ CreateTable \/ FetchReplayId \/ OpenStream \/ Subscribe
  \/ FetchOnPermit \/ FetchOnTimeout \/ StaleAcquire
  \/ Receive \/ Keepalive \/ StreamFails \/ StreamEnds \/ Retry
  \/ Forward \/ ForwardFails \/ ForwardDrops
  \/ Durable \/ Publish

(* Threads run, sleeps and timeouts end, the services answer or fail, and  *)
(* what the server was asked for and has, it sends.  Nothing makes         *)
(* Salesforce publish, nothing starts the process or stops it.             *)
Fairness ==
  /\ WF_vars(CreateTable) /\ WF_vars(FetchReplayId) /\ WF_vars(OpenStream) /\ WF_vars(Subscribe)
  /\ WF_vars(FetchOnPermit \/ FetchOnTimeout) /\ WF_vars(StaleAcquire)
  /\ WF_vars(Receive) /\ WF_vars(Retry)
  /\ WF_vars(Forward \/ ForwardFails \/ ForwardDrops)
  /\ WF_vars(Durable)

Spec == Init /\ [][Next]_vars /\ Fairness
------------------------------------------------------------------------------
(* Whatever breaks, is repeated, comes twice or is started again: there is *)
(* no hole in the table.  An event older than a row is a row itself, or on *)
(* its way, or was given up where the code says so.                        *)
Gapless ==
  \A e, f \in Event : e < f /\ f \in ToSet(Rows) => e \in Underway \union lost

(* An event the server sends again is not queued again, as long as all     *)
(* events queued since the start fit into the cache.                       *)
OnceWhileCached == repeated => Cardinality(taken) > CacheSize

(* Both, of every start of the process.                                   *)
SubscriberSound == TypeOK /\ Gapless /\ OnceWhileCached

(* Once Salesforce is quiet, the table catches up: as long as the process  *)
(* runs and its third thread came up, every event gets into the table or   *)
(* is given up.  No batch of duplicates, no lost permit and no generator   *)
(* of a dead stream stalls it.                                             *)
Delivered ==
  []<>(1 .. published \subseteq ToSet(Rows) \union lost \/ pc \in {"down", "stopping"} \/ setup = "dead")
=================================================================================
