--------------------- MODULE SalesforceSubscriber_proofs ---------------------
(***************************************************************************)
(* Proofs that the Python client leaves no hole in the table and queues    *)
(* nothing twice that it can remember, for any number of events, any cache *)
(* of two or more, any number of retries, failures and starts, wherever    *)
(* its three threads are when something breaks.                            *)
(***************************************************************************)
EXTENDS SalesforceSubscriber, SequenceTheorems, FiniteSetTheorems, WellFoundedInduction, TLAPS

INSTANCE EventOrder  \* InOrder and its lemmas

(* How far each event has got, from the last place to the first.           *)
AtTable == lost \union ToSet(Rows)
AtServer == AtTable \union ToSet(inflight)
Received == AtServer \union ToSet(queue)

(* What keeps counters within their types: every generator left behind     *)
(* stands for a failure, and the server is asked for events by a permit.   *)
Limits ==
  /\ stale <= faults
  /\ pc \in {"starting", "subscribed", "backoff"} => attempt <= MaxRetries
  /\ want > 0 => fc.permits <= MaxPermits

(* Nothing is forwarded, or on its way, before there is a table.           *)
TableFirst ==
  /\ pc = "down" => setup = "off" /\ queue = <<>> /\ inflight = <<>>
  /\ setup = "looping" \/ inflight # <<>> => table # NoTable

(* The stages hold the events in order: what a crash or a dropped stream   *)
(* takes is never older than what is further.                              *)
StagesInOrder ==
  /\ InOrder(Rows, lost)
  /\ InOrder(inflight, AtTable)
  /\ InOrder(queue, AtServer)

(* Every place from which a subscription may go on is behind what was      *)
(* received.                                                               *)
ResumesInTime ==
  /\ \A e \in Event :
       \/ e <= cursor \/ e <= last \/ e <= fetched
       \/ e <= replay.id \/ e <= original.id
       => e \in Received
  /\ taken \subseteq Received

(* A cache that never had to forget holds everything that was queued.      *)
CacheRemembers ==
  /\ seen \subseteq taken
  /\ Cardinality(taken) <= CacheSize => seen = taken /\ ~repeated

IInv == TypeOK /\ Limits /\ TableFirst /\ StagesInOrder /\ ResumesInTime /\ CacheRemembers
-----------------------------------------------------------------------------
LEMMA Numbers ==
  /\ MaxEvents \in Nat /\ MaxEvents > 0 /\ BatchSize \in Nat /\ BatchSize > 0
  /\ MaxPermits \in Nat /\ MaxPermits > 0 /\ CacheSize \in Nat /\ CacheSize > 1
  /\ MaxWant \in Nat /\ MaxRetries \in Nat /\ MaxFaults \in Nat /\ MaxStarts \in Nat
  /\ MaxTimeouts \in Nat /\ MaxTimeouts > 0
BY SubscriberAssumption, TimeoutsAssumption

LEMMA Events == \A e \in Event : e \in Nat /\ e > 0 /\ e <= MaxEvents /\ ~(e <= 0) /\ ~(e <= -1)
BY Numbers DEF Event

LEMMA Bounds ==
  /\ -1 \in -1 .. MaxEvents /\ 0 \in -1 .. MaxEvents /\ 0 \in 0 .. MaxEvents /\ 0 \in 0 .. MaxWant
  /\ 0 \in 0 .. MaxFaults /\ 0 \in 0 .. MaxStarts /\ 0 \in 0 .. MaxRetries + 1
  /\ \A e \in Event : e \in 0 .. MaxEvents /\ e \in -1 .. MaxEvents
BY Numbers, Events

(* The table as a sequence of events.                                      *)
LEMMA RowsFacts ==
  ASSUME TypeOK
  PROVE  /\ Rows \in Seq(Event)
         /\ table # NoTable => table \in Seq(Event) /\ Rows = table
<1>1. table \in Seq(Event) \/ table = NoTable
  BY DEF TypeOK
<1> QED BY <1>1 DEF Rows

LEMMA TableIsNotNone ==
  ASSUME NEW t \in Seq(Event)
  PROVE  t # NoTable
<1> SUFFICES ASSUME t = NoTable PROVE FALSE
  OBVIOUS
<1>1. Len(t) = 1 /\ t[1] = 0
  BY DEF NoTable
<1>2. t[1] \in Event
  BY <1>1, ElementOfSeq
<1> QED BY <1>1, <1>2, Events

(* A position from which a subscription starts.                            *)
Position == {Latest, Earliest} \union {Custom(e) : e \in Event}

LEMMA PositionFacts ==
  /\ Latest \in Position /\ Earliest \in Position /\ Latest.id = 0 /\ Earliest.id = 0
  /\ Latest.type = "LATEST" /\ Earliest.type = "EARLIEST"
  /\ \A e \in Event : Custom(e) \in Position /\ Custom(e).id = e
  /\ \A p \in Position : p.id \in 0 .. MaxEvents
<1>1. Latest.id = 0 /\ Earliest.id = 0 /\ \A e \in Event : Custom(e).id = e
  BY DEF Latest, Earliest, Custom
<1>2. ASSUME NEW p \in Position PROVE p.id \in 0 .. MaxEvents
  <2>1. p.id = 0 \/ p.id \in Event
    BY <1>1, <1>2 DEF Position
  <2> QED BY <2>1, Events, Numbers
<1> QED BY <1>1, <1>2 DEF Position, Latest, Earliest

LEMMA FaultsBounded ==
  ASSUME TypeOK, UNCHANGED faults \/ Fault
  PROVE  faults' \in 0 .. MaxFaults /\ faults <= faults'
BY Numbers DEF TypeOK, Fault

(* Nothing moves, and no place to go on from is further than it was.       *)
LEMMA QuietSafe ==
  ASSUME IInv, TypeOK', Limits', TableFirst', Rows' = Rows,
         UNCHANGED <<inflight, queue, lost, seen, taken, repeated>>,
         \A e \in Event :
           \/ e <= cursor' \/ e <= last' \/ e <= fetched'
           \/ e <= replay'.id \/ e <= original'.id
           => e \in Received
  PROVE  IInv'
<1>1. AtTable' = AtTable /\ AtServer' = AtServer /\ Received' = Received
  BY DEF AtTable, AtServer, Received
<1>2. StagesInOrder'
  BY <1>1 DEF IInv, StagesInOrder
<1>3. ResumesInTime'
  BY <1>1 DEF IInv, ResumesInTime
<1>4. CacheRemembers'
  BY DEF IInv, CacheRemembers
<1> QED BY <1>2, <1>3, <1>4 DEF IInv
-----------------------------------------------------------------------------
(* The threads without the events.                                         *)

LEMMA StopSafe ==
  ASSUME IInv, Stop
  PROVE  IInv'
<1>1. /\ UNCHANGED <<table, inflight, queue, lost, seen, taken, repeated, last, fetched, replay,
                     original, setup, stale, faults, fc>>
      /\ cursor' = -1 /\ want' = 0 /\ pc' = "stopping"
  BY DEF Stop, forwarder, history
<1>2. TypeOK'
  BY <1>1, Bounds DEF IInv, TypeOK, Stop, forwarder, history
<1>3. Limits' /\ TableFirst'
  BY <1>1 DEF IInv, Limits, TableFirst
<1>4. Rows' = Rows
  BY <1>1 DEF Rows
<1> QED BY <1>1, <1>2, <1>3, <1>4, Events, QuietSafe DEF IInv, ResumesInTime

LEMMA RetrySafe ==
  ASSUME IInv, Retry
  PROVE  IInv'
<1>1. /\ UNCHANGED <<table, inflight, queue, lost, seen, taken, repeated, last, fetched, replay,
                     original, setup, stale, faults, cursor, want, fc, attempt>>
      /\ pc = "backoff" /\ pc' = "subscribed"
  BY DEF Retry, server, forwarder, history
<1>2. TypeOK'
  BY <1>1 DEF IInv, TypeOK, Retry, server, forwarder, history
<1>3. Limits' /\ TableFirst'
  BY <1>1 DEF IInv, Limits, TableFirst
<1>4. Rows' = Rows
  BY <1>1 DEF Rows
<1> QED BY <1>1, <1>2, <1>3, <1>4, QuietSafe DEF IInv, ResumesInTime

LEMMA StreamEndsSafe ==
  ASSUME IInv, StreamEnds
  PROVE  IInv'
<1>1. /\ UNCHANGED <<table, inflight, queue, lost, seen, taken, repeated, last, fetched, replay,
                     original, setup, fc>>
      /\ cursor' = -1 /\ want' = 0 /\ pc' = "stopping" /\ stale' = stale + 1
      /\ faults < MaxFaults /\ faults' = faults + 1
  BY DEF StreamEnds, Fault, forwarder
<1>2. stale' \in 0 .. MaxFaults /\ faults' \in 0 .. MaxFaults /\ stale' <= faults'
  BY <1>1, Numbers DEF IInv, TypeOK, Limits
<1>3. TypeOK'
  BY <1>1, <1>2, Bounds DEF IInv, TypeOK, StreamEnds, forwarder
<1>4. Limits' /\ TableFirst'
  BY <1>1, <1>2 DEF IInv, Limits, TableFirst
<1>5. Rows' = Rows
  BY <1>1 DEF Rows
<1> QED BY <1>1, <1>3, <1>4, <1>5, Events, QuietSafe DEF IInv, ResumesInTime

LEMMA StreamFailsSafe ==
  ASSUME IInv, StreamFails
  PROVE  IInv'
<1>1. /\ UNCHANGED <<table, inflight, queue, lost, seen, taken, repeated, last, fetched,
                     original, setup, fc>>
      /\ cursor' = -1 /\ want' = 0 /\ stale' = stale + 1 /\ attempt' = attempt + 1
      /\ pc = "subscribed" /\ pc' = (IF attempt < MaxRetries THEN "backoff" ELSE "stopping")
      /\ faults < MaxFaults /\ faults' = faults + 1
  BY DEF StreamFails, Fault, forwarder
<1>2. /\ stale' \in 0 .. MaxFaults /\ faults' \in 0 .. MaxFaults /\ stale' <= faults'
      /\ attempt' \in 0 .. MaxRetries + 1
      /\ pc' = "stopping" \/ (pc' = "backoff" /\ attempt' <= MaxRetries)
  <2>1. stale' \in 0 .. MaxFaults /\ faults' \in 0 .. MaxFaults /\ stale' <= faults'
    BY <1>1, Numbers DEF IInv, TypeOK, Limits
  <2>2. attempt <= MaxRetries /\ attempt \in Nat
    BY <1>1, Numbers DEF IInv, TypeOK, Limits
  <2>3. attempt' \in 0 .. MaxRetries + 1 /\ (attempt < MaxRetries => attempt' <= MaxRetries)
    BY <1>1, <2>2, Numbers
  <2> QED BY <1>1, <2>1, <2>3
<1>3. replay' \in {Latest, original, replay} \/ (last # 0 /\ replay' = Custom(last))
  <2>1. PICK code \in {"invalid replay id", "unauthenticated", "unexpected", "exhausted",
                       "temporary"} : replay' = RetryStrategy(code)
    BY DEF StreamFails
  <2>2. \/ RetryStrategy(code) \in {Latest, original, replay}
        \/ last # 0 /\ RetryStrategy(code) = Custom(last)
    BY DEF RetryStrategy
  <2> QED BY <2>1, <2>2
<1>4. /\ replay' \in Position
      /\ replay'.id \in {0, original.id, replay.id, last}
  <2>1. replay \in Position /\ original \in Position
    BY DEF IInv, TypeOK, Position
  <2>2. last # 0 => last \in Event
    BY Numbers DEF IInv, TypeOK, Event
  <2> QED BY <1>3, <2>1, <2>2, PositionFacts
<1>5. TypeOK'
  <2>1. UNCHANGED <<published, backfill, starts, stream>> /\ waiting' = FALSE
    BY DEF StreamFails, forwarder
  <2> QED BY <1>1, <1>2, <1>4, <2>1, Bounds DEF IInv, TypeOK, Position
<1>6. Limits' /\ TableFirst'
  BY <1>1, <1>2 DEF IInv, Limits, TableFirst
<1>7. Rows' = Rows
  BY <1>1 DEF Rows
<1> QED BY <1>1, <1>4, <1>5, <1>6, <1>7, Events, QuietSafe DEF IInv, ResumesInTime

LEMMA CreateTableSafe ==
  ASSUME IInv, CreateTable
  PROVE  IInv'
<1>1. /\ UNCHANGED <<inflight, queue, lost, seen, taken, repeated, last, fetched, replay,
                     original, stale, cursor, want, fc, attempt, pc>>
      /\ setup = "tables" /\ setup' = "replay"
      /\ table' \in {table, IF table = NoTable THEN <<>> ELSE table}
      /\ UNCHANGED faults \/ Fault
  BY DEF CreateTable, server, subscription
<1>2. faults' \in 0 .. MaxFaults /\ faults <= faults'
  BY <1>1, FaultsBounded DEF IInv
<1>3. Rows' = Rows /\ table' \in Seq(Event) \union {NoTable} /\ (table # NoTable => table' = table)
  <2>1. table \in Seq(Event) \union {NoTable}
    BY DEF IInv, TypeOK
  <2>2. <<>> \in Seq(Event)
    OBVIOUS
  <2>3. <<>> # NoTable
    BY <2>2, TableIsNotNone
  <2> QED BY <1>1, <2>1, <2>2, <2>3 DEF Rows
<1>4. TypeOK'
  <2>1. UNCHANGED <<server, inflight, backfill, pc, subscription, queue, fetched, stream,
                    starts, lost, taken, repeated>>
    BY DEF CreateTable
  <2>2. setup' \in {"off", "tables", "replay", "stream", "looping", "dead"}
    BY <1>1
  <2> QED BY <1>2, <1>3, <2>1, <2>2 DEF IInv, TypeOK, server, subscription
<1>5. Limits'
  BY <1>1, <1>2, Numbers DEF IInv, Limits, TypeOK
<1>6. TableFirst'
  BY <1>1, <1>3 DEF IInv, TableFirst
<1> QED BY <1>1, <1>3, <1>4, <1>5, <1>6, QuietSafe DEF IInv, ResumesInTime

(* The row that comes last, or the one before it, and all older events     *)
(* are in the table or were given up.                                      *)
LEMMA ResumeFacts ==
  ASSUME IInv, NEW id \in LastReplayIds
  PROVE  /\ id \in 0 .. MaxEvents
         /\ \A e \in Event : e <= id => e \in Received
<1>1. Rows \in Seq(Event)
  BY RowsFacts DEF IInv
<1>2. CASE Rows = <<>>
  BY <1>2, Bounds, Events DEF LastReplayIds
<1>3. CASE Rows # <<>>
  <2>1. Len(Rows) \in Nat /\ Len(Rows) > 0
    BY <1>1, <1>3
  <2>2. PICK i \in {Len(Rows), IF Len(Rows) > 1 THEN Len(Rows) - 1 ELSE Len(Rows)} : id = Rows[i]
    BY <1>3 DEF LastReplayIds
  <2>3. i \in 1 .. Len(Rows)
    BY <2>1, <2>2
  <2>4. id \in Event /\ id \in ToSet(Rows)
    BY <1>1, <2>2, <2>3, SeqFacts
  <2>5. \A e \in Event : e < id => e \in AtTable
    <3> SUFFICES ASSUME NEW e \in Event, e < id, e \notin lost PROVE e \in ToSet(Rows)
      BY DEF AtTable
    <3>1. PICK j \in 1 .. i - 1 : Rows[j] = e
      BY <2>2, <2>3 DEF IInv, StagesInOrder, InOrder
    <3>2. j \in 1 .. Len(Rows)
      BY <2>1, <2>3
    <3> QED BY <1>1, <3>1, <3>2, SeqFacts
  <2>6. \A e \in Event : e <= id => e < id \/ e = id
    BY <2>4, Events
  <2> QED BY <2>4, <2>5, <2>6, Bounds DEF Received, AtServer, AtTable
<1> QED BY <1>2, <1>3


LEMMA FetchReplayIdSafe ==
  ASSUME IInv, FetchReplayId
  PROVE  IInv'
<1>1. /\ UNCHANGED <<table, inflight, queue, lost, seen, taken, repeated, last, replay,
                     original, stale, cursor, want, fc, attempt, pc>>
      /\ setup = "replay" /\ setup' = "stream"
      /\ fetched' \in LastReplayIds \union {0}
      /\ UNCHANGED faults \/ Fault
  BY DEF FetchReplayId, server, subscription
<1>2. faults' \in 0 .. MaxFaults /\ faults <= faults'
  BY <1>1, FaultsBounded DEF IInv
<1>3. fetched' \in 0 .. MaxEvents /\ \A e \in Event : e <= fetched' => e \in Received
  BY <1>1, ResumeFacts, Bounds, Events
<1>4. TypeOK'
  <2>1. UNCHANGED <<server, table, inflight, backfill, pc, subscription, queue, stream,
                    starts, lost, taken, repeated>>
    BY DEF FetchReplayId
  <2>2. fetched' \in -1 .. MaxEvents
    BY <1>3, Numbers
  <2> QED BY <1>1, <1>2, <2>1, <2>2 DEF IInv, TypeOK, server, subscription
<1>5. Limits'
  BY <1>1, <1>2, Numbers DEF IInv, Limits, TypeOK
<1>6. TableFirst'
  BY <1>1 DEF IInv, TableFirst
<1>7. Rows' = Rows
  BY <1>1 DEF Rows
<1> QED BY <1>1, <1>3, <1>4, <1>5, <1>6, <1>7, QuietSafe DEF IInv, ResumesInTime

LEMMA OpenStreamSafe ==
  ASSUME IInv, OpenStream
  PROVE  IInv'
<1>1. /\ UNCHANGED <<table, inflight, queue, lost, seen, taken, repeated, last, fetched, replay,
                     original, stale, cursor, want, fc, attempt, pc>>
      /\ setup = "stream" /\ setup' \in {"looping", "dead"}
      /\ setup' = "looping" => table # NoTable
      /\ stream' \in {stream, TRUE}
      /\ UNCHANGED faults \/ Fault
  BY DEF OpenStream, server, subscription
<1>2. faults' \in 0 .. MaxFaults /\ faults <= faults'
  BY <1>1, FaultsBounded DEF IInv
<1>3. TypeOK'
  <2>1. UNCHANGED <<server, table, inflight, backfill, pc, subscription, queue, fetched,
                    starts, lost, taken, repeated>>
    BY DEF OpenStream
  <2> QED BY <1>1, <1>2, <2>1 DEF IInv, TypeOK, server, subscription
<1>4. Limits'
  BY <1>1, <1>2, Numbers DEF IInv, Limits, TypeOK
<1>5. TableFirst'
  BY <1>1 DEF IInv, TableFirst
<1>6. Rows' = Rows
  BY <1>1 DEF Rows
<1> QED BY <1>1, <1>3, <1>4, <1>5, <1>6, QuietSafe DEF IInv, ResumesInTime

LEMMA SubscribeSafe ==
  ASSUME IInv, Subscribe
  PROVE  IInv'
<1>1. /\ UNCHANGED <<table, inflight, queue, lost, seen, taken, repeated, last, fetched,
                     stale, fc, attempt, setup>>
      /\ pc = "starting" /\ pc' = "subscribed"
      /\ cursor' = -1 /\ want' = 0 /\ original' = replay'
      /\ UNCHANGED faults \/ Fault
  BY DEF Subscribe, forwarder
<1>2. faults' \in 0 .. MaxFaults /\ faults <= faults'
  BY <1>1, FaultsBounded DEF IInv
<1>3. \/ replay' \in {Latest, Earliest}
      \/ \E id \in LastReplayIds \union {fetched} : id # 0 /\ id # -1 /\ replay' = Custom(id)
  <2>1. \A id : Resume(id) \in {Latest, Earliest} \/ (id # 0 /\ Resume(id) = Custom(id))
    BY DEF Resume
  <2>2. CASE replay' \in SubscriptionParams
    <3>1. CASE table = NoTable
      BY <2>2, <3>1 DEF SubscriptionParams
    <3>2. CASE table # NoTable
      <4>1. PICK id \in IF fetched # -1 THEN {fetched} ELSE LastReplayIds : replay' = Resume(id)
        BY <2>2, <3>2 DEF SubscriptionParams
      <4>2. id # -1
        BY <4>1, ResumeFacts, Numbers
      <4> QED BY <2>1, <4>1, <4>2
    <3> QED BY <3>1, <3>2
  <2>3. CASE replay' = Latest \/ replay' = Resume(0)
    BY <2>1, <2>3
  <2> QED BY <2>2, <2>3 DEF Subscribe
<1>4. /\ replay' \in Position
      /\ \A e \in Event : e <= replay'.id => e \in Received
  <2>1. CASE replay' \in {Latest, Earliest}
    BY <2>1, PositionFacts, Events
  <2>2. CASE replay' \notin {Latest, Earliest}
    <3>1. PICK id \in LastReplayIds \union {fetched} : id # 0 /\ id # -1 /\ replay' = Custom(id)
      BY <1>3, <2>2
    <3>2. id \in -1 .. MaxEvents /\ \A e \in Event : e <= id => e \in Received
      <4>1. CASE id \in LastReplayIds
        BY <4>1, ResumeFacts, Numbers
      <4>2. CASE id = fetched
        BY <4>2 DEF IInv, TypeOK, ResumesInTime
      <4> QED BY <3>1, <4>1, <4>2
    <3>3. id \in Event
      BY <3>1, <3>2, Numbers DEF Event
    <3> QED BY <3>1, <3>2, <3>3, PositionFacts
  <2> QED BY <2>1, <2>2
<1>5. TypeOK'
  <2>1. UNCHANGED <<published, backfill, starts, stream>> /\ waiting' = TRUE
    BY DEF Subscribe, forwarder
  <2> QED BY <1>1, <1>2, <1>4, <2>1, Bounds DEF IInv, TypeOK, Position
<1>6. Limits'
  <2>1. stale' <= faults'
    BY <1>1, <1>2, Numbers DEF IInv, Limits, TypeOK
  <2> QED BY <1>1, <2>1 DEF IInv, Limits
<1>7. TableFirst'
  BY <1>1 DEF IInv, TableFirst
<1>8. Rows' = Rows
  BY <1>1 DEF Rows
<1> QED BY <1>1, <1>4, <1>5, <1>6, <1>7, <1>8, Events, QuietSafe DEF IInv, ResumesInTime

(* What a generator does with the controller leaves room for one release.  *)
LEMMA PermitFacts ==
  ASSUME TypeOK
  PROVE  /\ CanAcquire(fc) => Acquired(fc) \in Controller(MaxPermits + 1) /\ Acquired(fc).permits <= MaxPermits
         /\ ~CanAcquire(fc) => TimedOut(fc) \in Controller(MaxPermits + 1) /\ TimedOut(fc).permits <= MaxPermits
         /\ fc.permits <= MaxPermits => Released(fc) \in Controller(MaxPermits + 1)
<1>1. /\ fc \in [permits : 0 .. MaxPermits + 1, timeouts : 0 .. MaxTimeouts - 1]
      /\ fc.permits \in 0 .. MaxPermits + 1 /\ fc.timeouts \in 0 .. MaxTimeouts - 1
  BY DEF TypeOK, Controller
<1>2. ASSUME CanAcquire(fc)
      PROVE  Acquired(fc) \in Controller(MaxPermits + 1) /\ Acquired(fc).permits <= MaxPermits
  <2>1. fc.permits - 1 \in 0 .. MaxPermits + 1 /\ fc.permits - 1 <= MaxPermits /\ 0 \in 0 .. MaxTimeouts - 1
    BY <1>1, <1>2, Numbers DEF CanAcquire
  <2>2. Acquired(fc) \in Controller(MaxPermits + 1) /\ Acquired(fc).permits = fc.permits - 1
    BY <2>1 DEF Acquired, Controller
  <2> QED BY <2>1, <2>2
<1>3. ASSUME ~CanAcquire(fc)
      PROVE  TimedOut(fc) \in Controller(MaxPermits + 1) /\ TimedOut(fc).permits <= MaxPermits
  <2>1. fc.permits = 0
    BY <1>1, <1>3, Numbers DEF CanAcquire
  <2>2. CASE Recovers(fc)
    <3>1. 1 \in 0 .. MaxPermits + 1 /\ 0 \in 0 .. MaxTimeouts - 1 /\ 1 <= MaxPermits
      BY Numbers
    <3>2. TimedOut(fc) = [permits |-> 1, timeouts |-> 0]
      BY <2>1, <2>2 DEF TimedOut
    <3> QED BY <3>1, <3>2 DEF Controller
  <2>3. CASE ~Recovers(fc)
    <3>1. fc.timeouts + 1 \in 0 .. MaxTimeouts - 1 /\ 0 <= MaxPermits
      BY <1>1, <2>3, Numbers DEF Recovers
    <3>2. TimedOut(fc) = [fc EXCEPT !.timeouts = fc.timeouts + 1]
      BY <2>3 DEF TimedOut
    <3>3. TimedOut(fc) \in Controller(MaxPermits + 1) /\ TimedOut(fc).permits = fc.permits
      BY <1>1, <3>1, <3>2 DEF Controller
    <3> QED BY <2>1, <3>1, <3>3
  <2> QED BY <2>2, <2>3
<1>4. ASSUME fc.permits <= MaxPermits PROVE Released(fc) \in Controller(MaxPermits + 1)
  <2>1. fc.permits + 1 \in 0 .. MaxPermits + 1
    BY <1>1, <1>4, Numbers
  <2> QED BY <1>1, <2>1 DEF Released, Controller
<1> QED BY <1>2, <1>3, <1>4

LEMMA StaleAcquireSafe ==
  ASSUME IInv, StaleAcquire
  PROVE  IInv'
<1>1. /\ UNCHANGED <<table, inflight, queue, lost, seen, taken, repeated, last, fetched, replay,
                     original, setup, cursor, want, attempt, pc, faults>>
      /\ stale > 0 /\ stale' = stale - 1
      /\ fc' = (IF CanAcquire(fc) THEN Acquired(fc) ELSE TimedOut(fc))
  BY DEF StaleAcquire, server, forwarder, history
<1>2. fc' \in Controller(MaxPermits + 1) /\ fc'.permits <= MaxPermits
  BY <1>1, PermitFacts DEF IInv
<1>3. stale' \in 0 .. MaxFaults /\ stale' <= faults'
  BY <1>1, Numbers DEF IInv, TypeOK, Limits
<1>4. TypeOK'
  <2>1. UNCHANGED <<server, table, inflight, backfill, pc, replay, original, last, attempt,
                    waiting, seen, queue, forwarder, history>>
    BY DEF StaleAcquire
  <2> QED BY <1>2, <1>3, <2>1 DEF IInv, TypeOK, server, forwarder, history
<1>5. Limits' /\ TableFirst'
  BY <1>1, <1>2, <1>3 DEF IInv, Limits, TableFirst
<1>6. Rows' = Rows
  BY <1>1 DEF Rows
<1> QED BY <1>1, <1>4, <1>5, <1>6, QuietSafe DEF IInv, ResumesInTime

LEMMA KeepaliveSafe ==
  ASSUME IInv, Keepalive
  PROVE  IInv'
<1>1. /\ UNCHANGED <<table, inflight, queue, lost, seen, taken, repeated, fetched, replay,
                     original, setup, cursor, want, attempt, pc, faults, stale>>
      /\ cursor = published /\ fc.permits < MaxPermits
      /\ last' \in {last, cursor} /\ fc' = Released(fc)
  BY DEF Keepalive, server, forwarder, history
<1>2. fc' \in Controller(MaxPermits + 1) /\ fc'.permits <= MaxPermits
  <2>1. fc.permits \in Nat /\ fc.permits + 1 <= MaxPermits /\ fc.permits <= MaxPermits
    BY <1>1, Numbers DEF IInv, TypeOK, Controller
  <2>2. fc'.permits = fc.permits + 1
    BY <1>1 DEF Released, IInv, TypeOK, Controller
  <2> QED BY <1>1, <2>1, <2>2, PermitFacts DEF IInv
<1>3. TypeOK'
  <2>1. UNCHANGED <<server, table, inflight, backfill, pc, replay, original, attempt, waiting,
                    stale, seen, queue, forwarder, history>>
    BY DEF Keepalive
  <2>2. last' \in 0 .. MaxEvents
    BY <1>1 DEF IInv, TypeOK
  <2> QED BY <1>2, <2>1, <2>2 DEF IInv, TypeOK, server, forwarder, history
<1>4. Limits' /\ TableFirst'
  BY <1>1, <1>2 DEF IInv, Limits, TableFirst
<1>5. Rows' = Rows
  BY <1>1 DEF Rows
<1> QED BY <1>1, <1>3, <1>4, <1>5, QuietSafe DEF IInv, ResumesInTime

LEMMA PublishSafe ==
  ASSUME IInv, Publish
  PROVE  IInv'
<1>1. /\ UNCHANGED <<table, inflight, queue, lost, seen, taken, repeated, fetched, replay, last,
                     original, setup, cursor, want, attempt, pc, faults, stale, fc>>
  BY DEF Publish, subscription, forwarder, history
<1>2. TypeOK'
  <2>1. UNCHANGED <<cursor, want, table, inflight, backfill, pc, subscription, queue, forwarder,
                    history>>
    BY DEF Publish
  <2>2. published' \in 0 .. MaxEvents
    BY Numbers DEF Publish, IInv, TypeOK
  <2> QED BY <2>1, <2>2 DEF IInv, TypeOK, subscription, forwarder, history
<1>3. Limits' /\ TableFirst'
  BY <1>1 DEF IInv, Limits, TableFirst
<1>4. Rows' = Rows
  BY <1>1 DEF Rows
<1> QED BY <1>1, <1>2, <1>3, <1>4, QuietSafe DEF IInv, ResumesInTime

(* A request places the server at the resume position; from LATEST, what   *)
(* has not been received yet is given up.                                  *)
LEMMA FetchSafe ==
  ASSUME IInv, Fetch, fc' \in Controller(MaxPermits + 1), fc'.permits <= MaxPermits
  PROVE  IInv'
<1>1. UNCHANGED <<table, inflight, queue, seen, taken, repeated, fetched, replay, last,
                  original, setup, attempt, pc, faults, stale>>
  BY DEF Fetch, forwarder
<1>2. /\ want' \in 0 .. MaxWant
      /\ \/ UNCHANGED <<cursor, lost>>
         \/ /\ replay.type = "LATEST" /\ cursor' = published
            /\ lost' = lost \union ((1 .. published) \ Underway)
         \/ replay.type # "LATEST" /\ cursor' \in {0, replay.id} /\ lost' = lost
  <2>1. want' \in 0 .. MaxWant
    <3>1. want \in Nat /\ want' = (IF want + BatchSize > MaxWant THEN MaxWant ELSE want + BatchSize)
      BY DEF Fetch, IInv, TypeOK
    <3> QED BY <3>1, Numbers
  <2>2. CASE cursor # -1
    BY <2>1, <2>2 DEF Fetch
  <2>3. CASE cursor = -1
    <3>1. CASE replay.type = "LATEST"
      BY <2>1, <2>3, <3>1 DEF Fetch
    <3>2. CASE replay.type # "LATEST"
      BY <2>1, <2>3, <3>2 DEF Fetch
    <3> QED BY <3>1, <3>2
  <2> QED BY <2>2, <2>3
<1>3. lost \subseteq lost' /\ lost' \subseteq Event
  <2>1. 1 .. published \subseteq Event /\ lost \subseteq Event
    BY Numbers DEF IInv, TypeOK, Event
  <2> QED BY <1>2, <2>1
<1>4. cursor' \in -1 .. MaxEvents
  <2>1. replay \in Position /\ published \in 0 .. MaxEvents /\ cursor \in -1 .. MaxEvents
    BY DEF IInv, TypeOK, Position
  <2> QED BY <1>2, <2>1, PositionFacts, Numbers
<1>5. TypeOK'
  <2>1. UNCHANGED <<published, table, inflight, backfill, pc, replay, original, last, attempt,
                    waiting, stale, seen, queue, forwarder, faults, starts, taken, repeated>>
    BY DEF Fetch
  <2> QED BY <1>2, <1>3, <1>4, <2>1 DEF IInv, TypeOK, forwarder
<1>6. Limits' /\ TableFirst'
  BY <1>1 DEF IInv, Limits, TableFirst
<1>7. Rows' = Rows
  BY <1>1 DEF Rows
<1>8. /\ AtTable \subseteq AtTable' /\ AtServer \subseteq AtServer' /\ Received \subseteq Received'
  BY <1>1, <1>3, <1>7 DEF AtTable, AtServer, Received
<1>9. StagesInOrder'
  BY <1>1, <1>3, <1>7, <1>8, InOrderMonotone DEF IInv, StagesInOrder
<1>10. ASSUME NEW e \in Event, e <= cursor' PROVE e \in Received'
  <2>1. CASE UNCHANGED <<cursor, lost>>
    BY <1>8, <1>10, <2>1 DEF IInv, ResumesInTime
  <2>2. CASE cursor' = published /\ lost' = lost \union ((1 .. published) \ Underway)
    <3>1. e \in 1 .. published
      BY <1>10, <2>2, Events DEF IInv, TypeOK
    <3>2. Underway \subseteq Received /\ lost' \subseteq Received'
      BY DEF Underway, AtTable, AtServer, Received
    <3> QED BY <1>8, <2>2, <3>1, <3>2
  <2>3. CASE cursor' \in {0, replay.id}
    BY <1>8, <1>10, <2>3, Events DEF IInv, ResumesInTime
  <2> QED BY <1>2, <2>1, <2>2, <2>3
<1>11. ResumesInTime'
  BY <1>1, <1>8, <1>10 DEF IInv, ResumesInTime
<1>12. CacheRemembers'
  BY <1>1 DEF IInv, CacheRemembers
<1> QED BY <1>5, <1>6, <1>9, <1>11, <1>12 DEF IInv
-----------------------------------------------------------------------------
(* Starts and ends.                                                        *)

(* A new process: what is left is the table, without a hole.               *)
LEMMA FreshSafe ==
  ASSUME TypeOK', Limits', TableFirst', Volatile, inflight' = <<>>, InOrder(Rows', lost'),
         \A e \in Event :
           e <= cursor' \/ e <= replay'.id \/ e <= original'.id => e \in Received'
  PROVE  IInv'
<1>1. /\ queue' = <<>> /\ seen' = {} /\ taken' = {} /\ repeated' = FALSE
      /\ last' = 0 /\ fetched' = -1
  BY DEF Volatile
<1>2. StagesInOrder'
  BY <1>1, EmptyFacts DEF StagesInOrder
<1>3. ResumesInTime'
  BY <1>1, Events DEF ResumesInTime
<1>4. CacheRemembers'
  BY <1>1 DEF CacheRemembers
<1> QED BY <1>2, <1>3, <1>4 DEF IInv

LEMMA VolatileFacts ==
  ASSUME Volatile
  PROVE  /\ fc' \in Controller(MaxPermits + 1) /\ seen' \subseteq Event
         /\ Cardinality(seen') <= CacheSize /\ queue' \in Seq(Event)
         /\ last' \in 0 .. MaxEvents /\ attempt' \in 0 .. MaxRetries + 1
         /\ waiting' \in BOOLEAN /\ stale' \in 0 .. MaxFaults
         /\ fetched' \in -1 .. MaxEvents /\ stream' \in BOOLEAN
         /\ taken' \subseteq Event /\ repeated' \in BOOLEAN
<1>1. fc' \in Controller(MaxPermits + 1)
  <2>1. 1 \in 0 .. MaxPermits + 1 /\ 0 \in 0 .. MaxTimeouts - 1
    BY Numbers
  <2> QED BY <2>1 DEF Volatile, NewController, Controller
<1>2. Cardinality({}) <= CacheSize
  BY FS_EmptySet, Numbers
<1>3. <<>> \in Seq(Event)
  OBVIOUS
<1>4. /\ waiting' \in BOOLEAN /\ stream' \in BOOLEAN /\ repeated' \in BOOLEAN
  BY DEF Volatile
<1>5. /\ last' \in 0 .. MaxEvents /\ attempt' \in 0 .. MaxRetries + 1 /\ stale' \in 0 .. MaxFaults
      /\ fetched' \in -1 .. MaxEvents
  BY Bounds DEF Volatile
<1>6. seen' \subseteq Event /\ Cardinality(seen') <= CacheSize /\ queue' \in Seq(Event)
      /\ taken' \subseteq Event
  BY <1>2, <1>3 DEF Volatile
<1> QED BY <1>1, <1>4, <1>5, <1>6

LEMMA StartSafe ==
  ASSUME IInv, Start
  PROVE  IInv'
<1>1. /\ pc = "down" /\ pc' = "starting" /\ setup' = "tables" /\ Volatile
      /\ UNCHANGED <<published, cursor, want, table, inflight, backfill, replay, original, faults,
                     lost>>
      /\ starts < MaxStarts /\ starts' = starts + 1
  BY DEF Start, server
<1>2. inflight = <<>> /\ queue = <<>> /\ queue' = <<>> /\ Rows' = Rows
  BY <1>1 DEF IInv, TableFirst, Rows, Volatile
<1>3. TypeOK'
  <2>1. starts' \in 0 .. MaxStarts
    BY <1>1, Numbers DEF IInv, TypeOK
  <2> QED BY <1>1, <2>1, VolatileFacts DEF IInv, TypeOK
<1>4. Limits'
  <2>1. attempt' = 0 /\ stale' = 0 /\ fc'.permits = 1
    BY <1>1 DEF Volatile, NewController
  <2> QED BY <1>1, <2>1, Numbers DEF Limits, IInv, TypeOK
<1>5. TableFirst'
  BY <1>1, <1>2 DEF TableFirst
<1>6. InOrder(Rows', lost')
  BY <1>1, <1>2 DEF IInv, StagesInOrder
<1>7. Received' = Received
  BY <1>1, <1>2 DEF Received, AtServer, AtTable
<1> QED BY <1>1, <1>2, <1>3, <1>4, <1>5, <1>6, <1>7, FreshSafe DEF IInv, ResumesInTime

(* What becomes of the records of a stream that ends: the first n are      *)
(* rows, and the table is as it was if there were none.                    *)
LEMMA CutFacts ==
  ASSUME IInv, NEW n \in 0 .. Len(inflight), table' = table \o SubSeq(inflight, 1, n)
  PROVE  /\ table' \in Seq(Event) \union {NoTable}
         /\ table # NoTable => table' # NoTable
         /\ Rows' \in Seq(Event) /\ InOrder(Rows', lost)
         /\ ToSet(Rows') = ToSet(Rows) \union ToSet(SubSeq(inflight, 1, n))
         /\ ToSet(SubSeq(inflight, n + 1, Len(inflight))) \subseteq Event
         /\ ToSet(inflight) = ToSet(SubSeq(inflight, 1, n))
                              \union ToSet(SubSeq(inflight, n + 1, Len(inflight)))
<1>1. inflight \in Seq(Event)
  BY DEF IInv, TypeOK
<1>2. InOrder(Rows, lost) /\ InOrder(inflight, lost \union ToSet(Rows)) /\ Rows \in Seq(Event)
  BY RowsFacts DEF IInv, StagesInOrder, AtTable
<1>3. CASE table # NoTable
  <2>1. table \in Seq(Event) /\ Rows = table
    BY <1>3, RowsFacts DEF IInv
  <2>2. table' \in Seq(Event) /\ InOrder(table', lost)
        /\ ToSet(table') = ToSet(table) \union ToSet(SubSeq(inflight, 1, n))
        /\ ToSet(SubSeq(inflight, n + 1, Len(inflight))) \subseteq Event
        /\ ToSet(inflight) = ToSet(SubSeq(inflight, 1, n))
                             \union ToSet(SubSeq(inflight, n + 1, Len(inflight)))
    BY <1>1, <1>2, <2>1, InOrderCut
  <2>3. table' # NoTable
    BY <2>2, TableIsNotNone
  <2>4. Rows' = table'
    BY <2>3 DEF Rows
  <2> QED BY <2>1, <2>2, <2>3, <2>4
<1>4. CASE table = NoTable
  <2>1. inflight = <<>>
    BY <1>4 DEF IInv, TableFirst
  <2>2. n = 0 /\ SubSeq(inflight, 1, n) = <<>> /\ SubSeq(inflight, n + 1, Len(inflight)) = <<>>
    BY <2>1
  <2>3. NoTable \o <<>> = NoTable
    BY DEF NoTable
  <2>4. table' = table /\ Rows' = Rows
    BY <1>4, <2>2, <2>3 DEF Rows
  <2> QED BY <1>2, <1>4, <2>1, <2>2, <2>4, EmptyFacts
<1> QED BY <1>3, <1>4

(* The process ends: what the table lacks then is nowhere.                 *)
LEMMA EndSafe ==
  ASSUME IInv, End
  PROVE  IInv'
<1>1. PICK n \in 0 .. Len(inflight) : table' = table \o SubSeq(inflight, 1, n)
  BY DEF End
<1>2. /\ pc' = "down" /\ setup' = "off" /\ inflight' = <<>> /\ cursor' = -1 /\ want' = 0
      /\ replay' = Latest /\ original' = Latest /\ Volatile
      /\ UNCHANGED <<published, backfill, faults, starts, lost>>
  BY DEF End
<1>3. table' \in Seq(Event) \union {NoTable} /\ InOrder(Rows', lost)
  BY <1>1, CutFacts
<1>4. <<>> \in Seq(Event)
  OBVIOUS
<1>5. TypeOK'
  BY <1>2, <1>3, <1>4, VolatileFacts, Bounds DEF IInv, TypeOK
<1>6. Limits'
  <2>1. attempt' = 0 /\ stale' = 0
    BY <1>2 DEF Volatile
  <2> QED BY <1>2, <2>1, Numbers DEF Limits, IInv, TypeOK
<1>7. TableFirst'
  BY <1>2 DEF TableFirst, Volatile
<1> QED BY <1>2, <1>3, <1>5, <1>6, <1>7, FreshSafe, PositionFacts, Events
-----------------------------------------------------------------------------
(* The forwarder.                                                          *)

(* Events move on, or are given up, and none is lost sight of.             *)
LEMMA MovedOn ==
  ASSUME IInv, TypeOK', TableFirst', UNCHANGED faults \/ Fault,
         UNCHANGED <<cursor, want, pc, replay, original, last, attempt, fc, stale, seen, fetched,
                     taken, repeated>>,
         InOrder(Rows', lost'), InOrder(inflight', AtTable'), InOrder(queue', AtServer'),
         Received \subseteq Received'
  PROVE  IInv'
<1>1. Limits'
  <2>1. faults <= faults'
    BY FaultsBounded DEF IInv
  <2>2. stale' <= faults'
    BY <2>1, Numbers DEF IInv, Limits, TypeOK
  <2> QED BY <2>2 DEF IInv, Limits
<1>2. StagesInOrder'
  BY DEF StagesInOrder
<1>3. ResumesInTime'
  BY DEF IInv, ResumesInTime
<1>4. CacheRemembers'
  BY DEF IInv, CacheRemembers
<1> QED BY <1>1, <1>2, <1>3, <1>4 DEF IInv

LEMMA TakeFacts ==
  ASSUME IInv, Take
  PROVE  /\ UNCHANGED <<published, cursor, want, backfill, pc, replay, original, last, attempt, fc,
                        waiting, stale, seen, setup, fetched, starts, taken, repeated>>
         /\ setup = "looping" /\ pc # "down" /\ table # NoTable
         /\ queue # <<>> /\ queue \in Seq(Event) /\ queue' = Tail(queue) /\ queue' \in Seq(Event)
         /\ Head(queue) \in Event
         /\ ToSet(queue) = {Head(queue)} \union ToSet(queue')
         /\ InOrder(queue', AtServer \union {Head(queue)})
         /\ \A e \in Event : e < Head(queue) => e \in AtServer
<1>1. queue \in Seq(Event) /\ queue # <<>> /\ InOrder(queue, AtServer)
  BY DEF Take, IInv, TypeOK, StagesInOrder
<1>2. setup = "looping" /\ pc # "down" /\ table # NoTable
  BY DEF Take, IInv, TableFirst
<1>3. queue' = Tail(queue)
  BY DEF Take
<1> QED BY <1>1, <1>2, <1>3, TailFacts, InOrderTail DEF Take, server, subscription

LEMMA ForwardSafe ==
  ASSUME IInv, Forward
  PROVE  IInv'
<1>1. /\ Take /\ inflight' = Append(inflight, Head(queue)) /\ UNCHANGED <<table, lost>>
      /\ stream' = TRUE /\ (UNCHANGED faults \/ Fault)
  BY DEF Forward
<1>2. inflight \in Seq(Event) /\ InOrder(inflight, AtTable)
  BY DEF IInv, TypeOK, StagesInOrder
<1>3. /\ inflight' \in Seq(Event) /\ ToSet(inflight') = ToSet(inflight) \union {Head(queue)}
  BY <1>1, <1>2, TakeFacts, AppendFacts
<1>4. InOrder(inflight', AtTable)
  BY <1>1, <1>2, TakeFacts, InOrderAppend DEF AtServer
<1>5. Rows' = Rows
  BY <1>1 DEF Rows
<1>6. AtTable' = AtTable /\ AtServer' = AtServer \union {Head(queue)}
  BY <1>1, <1>3, <1>5 DEF AtTable, AtServer
<1>7. Received' = Received
  BY <1>1, <1>6, TakeFacts DEF Received
<1>8. TypeOK'
  <2>1. faults' \in 0 .. MaxFaults
    BY <1>1, FaultsBounded DEF IInv
  <2> QED BY <1>1, <1>3, <2>1, TakeFacts DEF IInv, TypeOK
<1>9. TableFirst'
  BY <1>1, TakeFacts DEF TableFirst
<1>10. InOrder(Rows', lost')
  BY <1>1, <1>5 DEF IInv, StagesInOrder
<1>11. InOrder(queue', AtServer')
  BY <1>1, <1>6, TakeFacts
<1> QED BY <1>1, <1>4, <1>6, <1>7, <1>8, <1>9, <1>10, <1>11, TakeFacts, MovedOn

LEMMA ForwardFailsSafe ==
  ASSUME IInv, ForwardFails
  PROVE  IInv'
<1>1. /\ Take /\ Fault /\ lost' = lost \union {Head(queue)}
      /\ UNCHANGED <<table, inflight, stream>>
  BY DEF ForwardFails, GivenUp
<1>2. Rows' = Rows
  BY <1>1 DEF Rows
<1>3. AtTable' = AtTable \union {Head(queue)} /\ AtServer' = AtServer \union {Head(queue)}
  BY <1>1, <1>2 DEF AtTable, AtServer
<1>4. Received' = Received
  BY <1>1, <1>3, TakeFacts DEF Received
<1>5. TypeOK'
  <2>1. faults' \in 0 .. MaxFaults /\ lost' \subseteq Event
    BY <1>1, FaultsBounded, TakeFacts DEF IInv, TypeOK
  <2> QED BY <1>1, <2>1, TakeFacts DEF IInv, TypeOK
<1>6. TableFirst'
  BY <1>1, TakeFacts DEF TableFirst
<1>7. InOrder(Rows', lost') /\ InOrder(inflight', AtTable')
  BY <1>1, <1>2, <1>3, InOrderMonotone DEF IInv, StagesInOrder
<1>8. InOrder(queue', AtServer')
  BY <1>1, <1>3, TakeFacts
<1> QED BY <1>1, <1>4, <1>5, <1>6, <1>7, <1>8, TakeFacts, MovedOn

LEMMA ForwardDropsSafe ==
  ASSUME IInv, ForwardDrops
  PROVE  IInv'
<1>1. Take /\ Fault /\ stream' = FALSE /\ inflight' = <<>>
  BY DEF ForwardDrops
<1>2. PICK n \in 0 .. Len(inflight) :
        /\ table' = table \o SubSeq(inflight, 1, n)
        /\ lost' = lost \union {Head(queue)} \union ToSet(SubSeq(inflight, n + 1, Len(inflight)))
  BY DEF ForwardDrops
<1>3. /\ table' \in Seq(Event) \union {NoTable} /\ table' # NoTable
      /\ InOrder(Rows', lost)
      /\ ToSet(Rows') = ToSet(Rows) \union ToSet(SubSeq(inflight, 1, n))
      /\ ToSet(SubSeq(inflight, n + 1, Len(inflight))) \subseteq Event
      /\ ToSet(inflight) = ToSet(SubSeq(inflight, 1, n))
                           \union ToSet(SubSeq(inflight, n + 1, Len(inflight)))
  BY <1>1, <1>2, CutFacts, TakeFacts
<1>4. AtTable' = AtServer \union {Head(queue)} /\ AtServer' = AtServer \union {Head(queue)}
  BY <1>1, <1>2, <1>3, EmptyFacts DEF AtTable, AtServer
<1>5. Received' = Received
  BY <1>1, <1>4, TakeFacts DEF Received
<1>6. TypeOK'
  <2>1. faults' \in 0 .. MaxFaults /\ lost' \subseteq Event
    BY <1>1, <1>2, <1>3, FaultsBounded, TakeFacts DEF IInv, TypeOK
  <2>2. inflight' \in Seq(Event)
    BY <1>1
  <2> QED BY <1>1, <1>3, <2>1, <2>2, TakeFacts DEF IInv, TypeOK
<1>7. TableFirst'
  BY <1>1, <1>3, TakeFacts DEF TableFirst
<1>8. InOrder(Rows', lost') /\ InOrder(inflight', AtTable')
  BY <1>1, <1>2, <1>3, EmptyFacts, InOrderMonotone
<1>9. InOrder(queue', AtServer')
  BY <1>1, <1>4, TakeFacts
<1> QED BY <1>1, <1>5, <1>6, <1>7, <1>8, <1>9, TakeFacts, MovedOn

LEMMA DurableSafe ==
  ASSUME IInv, Durable
  PROVE  IInv'
<1>1. /\ inflight # <<>> /\ table' = Append(table, Head(inflight)) /\ inflight' = Tail(inflight)
      /\ UNCHANGED <<published, cursor, want, backfill, pc, replay, original, last, attempt, fc,
                     waiting, stale, seen, queue, setup, fetched, stream, faults, starts, lost,
                     taken, repeated>>
  BY DEF Durable, server, subscription, forwarder, history
<1>2. /\ inflight \in Seq(Event) /\ InOrder(inflight, AtTable)
      /\ table \in Seq(Event) /\ Rows = table /\ InOrder(table, lost)
  BY <1>1, RowsFacts DEF IInv, TypeOK, TableFirst, StagesInOrder
<1>3. /\ Head(inflight) \in Event /\ inflight' \in Seq(Event)
      /\ ToSet(inflight) = {Head(inflight)} \union ToSet(inflight')
      /\ InOrder(inflight', AtTable \union {Head(inflight)})
      /\ \A e \in Event : e < Head(inflight) => e \in AtTable
  BY <1>1, <1>2, TailFacts, InOrderTail
<1>4. /\ table' \in Seq(Event) /\ ToSet(table') = ToSet(table) \union {Head(inflight)}
      /\ InOrder(table', lost)
  BY <1>1, <1>2, <1>3, AppendFacts, InOrderAppend DEF AtTable
<1>5. table' # NoTable
  BY <1>4, TableIsNotNone
<1>6. Rows' = table'
  BY <1>5 DEF Rows
<1>7. AtTable' = AtTable \union {Head(inflight)}
  BY <1>1, <1>2, <1>4, <1>6 DEF AtTable
<1>8. AtServer' = AtServer /\ Received' = Received
  BY <1>1, <1>3, <1>7 DEF AtServer, Received
<1>9. TypeOK'
  BY <1>1, <1>3, <1>4 DEF IInv, TypeOK
<1>10. TableFirst'
  BY <1>1, <1>5 DEF IInv, TableFirst
<1>11. InOrder(Rows', lost') /\ InOrder(inflight', AtTable')
  BY <1>1, <1>3, <1>4, <1>6, <1>7
<1>12. InOrder(queue', AtServer')
  BY <1>1, <1>8 DEF IInv, StagesInOrder
<1> QED BY <1>1, <1>8, <1>9, <1>10, <1>11, <1>12, MovedOn
-----------------------------------------------------------------------------
(* The cache.                                                              *)

(* Induction along the events of a response is by the first that fails.    *)
LEMMA LeastNat ==
  ASSUME NEW S, S \subseteq Nat, S # {}
  PROVE  \E m \in S : \A i \in S : m <= i
<1>1. IsWellFoundedOn({p \in Nat \X Nat : p[1] < p[2]}, Nat)
  BY NatLessThanWellFounded DEF OpToRel
<1> DEFINE R == {p \in Nat \X Nat : p[1] < p[2]}
<1>2. PICK m \in S : \A i \in S : ~(<<i, m>> \in R)
  <2> HIDE DEF R
  <2>1. IsWellFoundedOn(R, Nat)
    BY <1>1 DEF R
  <2> QED BY <2>1, WFMin
<1>3. \A i \in S : i \in Nat /\ m \in Nat /\ ~(i < m)
  BY <1>2
<1> QED BY <1>3

LEMMA EventsAreFinite ==
  \A S : S \subseteq Event => IsFiniteSet(S) /\ Cardinality(S) \in Nat
<1> SUFFICES ASSUME NEW S, S \subseteq Event PROVE IsFiniteSet(S) /\ Cardinality(S) \in Nat
  OBVIOUS
<1>1. IsFiniteSet(Event)
  <2>1. MaxEvents \in Int /\ 1 \in Int
    BY Numbers
  <2> QED BY <2>1, FS_Interval DEF Event
<1> QED BY <1>1, FS_Subset, FS_CardinalityType

LEMMA MaxFacts ==
  ASSUME NEW S, S \subseteq Event, S # {}
  PROVE  Max(S) \in S
<1> DEFINE D == {MaxEvents - x : x \in S}
<1>1. D \subseteq Nat /\ D # {}
  BY Events, Numbers
<1>2. PICK m \in D : \A d \in D : m <= d
  <2> HIDE DEF D
  <2> QED BY <1>1, LeastNat
<1>3. PICK x \in S : m = MaxEvents - x
  BY <1>2
<1>4. \A y \in S : x >= y
  BY <1>2, <1>3, Events, Numbers
<1> QED BY <1>4 DEF Max

(* An event joins the cache, which forgets others only when it is full.    *)
LEMMA MarkedFacts ==
  ASSUME NEW s, s \subseteq Event, Cardinality(s) <= CacheSize, NEW e \in Event, e \notin s,
         NEW t \in Marked(s, e)
  PROVE  /\ t \subseteq s \union {e} /\ Cardinality(t) <= CacheSize
         /\ Cardinality(s) < CacheSize => t = s \union {e}
<1>1. IsFiniteSet(s) /\ Cardinality(s) \in Nat
  BY EventsAreFinite
<1>2. CASE Cardinality(s) < CacheSize
  <2>1. t = s \union {e}
    BY <1>2 DEF Marked
  <2>2. Cardinality(t) = Cardinality(s) + 1
    BY <1>1, <2>1, FS_AddElement
  <2> QED BY <1>1, <1>2, <2>1, <2>2, Numbers
<1>3. CASE ~(Cardinality(s) < CacheSize)
  <2> DEFINE m == Cardinality(s) - Cardinality(s) \div 2
  <2>1. m <= CacheSize - 1 /\ m \in Nat
    BY <1>1, <1>3, Numbers
  <2>2. PICK u \in kSubset(m, s) : t = u \union {e}
    BY <1>3 DEF Marked
  <2> HIDE DEF m
  <2>3. u \subseteq s /\ Cardinality(u) = m
    BY <2>2 DEF kSubset
  <2>4. IsFiniteSet(u)
    BY <2>3, EventsAreFinite
  <2>5. Cardinality(t) \in {m, m + 1}
    BY <2>2, <2>3, <2>4, FS_AddElement
  <2>6. Cardinality(t) \in Nat
    BY <2>2, <2>4, FS_AddElement, FS_CardinalityType
  <2> QED BY <1>3, <2>1, <2>2, <2>3, <2>5, <2>6, Numbers
<1> QED BY <1>2, <1>3

LEMMA FreshFacts ==
  ASSUME NEW cache, NEW n \in Nat, NEW i \in Nat
  PROVE  /\ Fresh(cache, n, 0) = {}
         /\ Fresh(cache, n, i) \subseteq n + 1 .. n + i
BY DEF Fresh

LEMMA FreshStep ==
  ASSUME NEW cache, NEW n \in Nat, NEW i \in Nat, NEW j \in Nat, j = i + 1
  PROVE  /\ n + j \in cache[i] => Fresh(cache, n, j) = Fresh(cache, n, i)
         /\ n + j \notin cache[i] => Fresh(cache, n, j) = Fresh(cache, n, i) \union {n + j}
<1>1. \A x : x \in Fresh(cache, n, i) <=> \E m \in 1 .. i : x = n + m /\ n + m \notin cache[m - 1]
  BY DEF Fresh
<1>2. \A x : x \in Fresh(cache, n, j) <=> \E m \in 1 .. j : x = n + m /\ n + m \notin cache[m - 1]
  BY DEF Fresh
<1>3. \A m \in 1 .. j : m \in 1 .. i \/ m = j
  OBVIOUS
<1>4. j \in 1 .. j /\ j - 1 = i /\ \A m \in 1 .. i : m \in 1 .. j
  OBVIOUS
<1>5. \A x : x \in Fresh(cache, n, j) <=> x \in Fresh(cache, n, i) \/ (x = n + j /\ n + j \notin cache[i])
  <2> SUFFICES ASSUME NEW x
               PROVE  x \in Fresh(cache, n, j) <=>
                      x \in Fresh(cache, n, i) \/ (x = n + j /\ n + j \notin cache[i])
    OBVIOUS
  <2> QED BY <1>1, <1>2, <1>3, <1>4
<1> QED BY <1>5

(* The cache along a response: nothing but what it held and what is fresh, *)
(* and all of it as long as everything fits.                               *)
LEMMA TrailFacts ==
  ASSUME NEW s, s \subseteq Event, Cardinality(s) <= CacheSize,
         NEW n \in Nat, NEW k \in Nat, n + k <= MaxEvents,
         NEW cache \in Deduplicate(s, n, k), NEW i \in 0 .. k
  PROVE  /\ cache[i] \subseteq Event /\ Cardinality(cache[i]) <= CacheSize
         /\ cache[i] \subseteq s \union Fresh(cache, n, i)
         /\ Cardinality(s \union Fresh(cache, n, k)) <= CacheSize =>
              cache[i] = s \union Fresh(cache, n, i)
<1> DEFINE Good(j) ==
      /\ cache[j] \subseteq Event /\ Cardinality(cache[j]) <= CacheSize
      /\ cache[j] \subseteq s \union Fresh(cache, n, j)
      /\ Cardinality(s \union Fresh(cache, n, k)) <= CacheSize =>
           cache[j] = s \union Fresh(cache, n, j)
<1>1. /\ cache[0] = s
      /\ \A j \in 1 .. k :
           cache[j] \in IF n + j \in cache[j - 1] THEN {cache[j - 1]}
                        ELSE Marked(cache[j - 1], n + j)
  BY DEF Deduplicate
<1>2. Good(0)
  BY <1>1, FreshFacts
<1>3. ASSUME NEW j \in 0 .. k - 1, NEW l \in 1 .. k, l = j + 1, Good(j) PROVE Good(l)
  <2>1. j \in Nat /\ l \in Nat /\ l - 1 = j /\ n + l \in Event
    BY <1>3, Numbers DEF Event
  <2>2. cache[l] \in IF n + l \in cache[j] THEN {cache[j]} ELSE Marked(cache[j], n + l)
    BY <1>1, <2>1
  <2>3. CASE n + l \in cache[j]
    <3>1. cache[l] = cache[j]
      BY <2>2, <2>3
    <3>2. Fresh(cache, n, l) = Fresh(cache, n, j)
      BY <1>3, <2>1, <2>3, FreshStep
    <3> QED BY <1>3, <3>1, <3>2
  <2>4. CASE n + l \notin cache[j]
    <3>1. cache[l] \in Marked(cache[j], n + l)
      BY <2>2, <2>4
    <3>2. Fresh(cache, n, l) = Fresh(cache, n, j) \union {n + l}
      BY <1>3, <2>1, <2>4, FreshStep
    <3>3. /\ cache[l] \subseteq cache[j] \union {n + l}
          /\ Cardinality(cache[l]) <= CacheSize
          /\ Cardinality(cache[j]) < CacheSize => cache[l] = cache[j] \union {n + l}
      BY <1>3, <2>1, <2>4, <3>1, MarkedFacts
    <3>4. ASSUME Cardinality(s \union Fresh(cache, n, k)) <= CacheSize
          PROVE  Cardinality(cache[j]) < CacheSize
      <4> DEFINE all == s \union Fresh(cache, n, k)
      <4>1. Fresh(cache, n, k) \subseteq Event
        <5>1. n + 1 .. n + k \subseteq Event
          BY Numbers DEF Event
        <5> QED BY <5>1, FreshFacts
      <4>2. all \subseteq Event
        BY <4>1
      <4>3. Fresh(cache, n, j) \subseteq Fresh(cache, n, k) /\ n + l \in Fresh(cache, n, k)
        <5>1. \A x \in 1 .. j : x \in 1 .. k
          BY <2>1
        <5> QED BY <2>1, <2>4, <5>1 DEF Fresh
      <4>4. cache[j] \subseteq all \ {n + l} /\ n + l \in all
        BY <1>3, <2>4, <4>3
      <4> HIDE DEF all
      <4>5. IsFiniteSet(all) /\ Cardinality(all) \in Nat
        BY <4>2, EventsAreFinite
      <4>6. IsFiniteSet(all \ {n + l}) /\ Cardinality(all \ {n + l}) = Cardinality(all) - 1
        BY <4>4, <4>5, FS_RemoveElement
      <4>7. Cardinality(cache[j]) <= Cardinality(all) - 1
        BY <4>4, <4>6, FS_Subset
      <4>8. Cardinality(cache[j]) \in Nat
        BY <1>3, EventsAreFinite
      <4>9. Cardinality(all) <= CacheSize
        BY <3>4 DEF all
      <4> QED BY <4>5, <4>7, <4>8, <4>9, Numbers
    <3>5. cache[l] \subseteq Event
      BY <1>3, <2>1, <3>3
    <3>6. cache[l] \subseteq s \union Fresh(cache, n, l)
      BY <1>3, <3>2, <3>3
    <3>7. ASSUME Cardinality(s \union Fresh(cache, n, k)) <= CacheSize
          PROVE  cache[l] = s \union Fresh(cache, n, l)
      BY <1>3, <3>2, <3>3, <3>4, <3>7
    <3> QED BY <3>3, <3>5, <3>6, <3>7
  <2> QED BY <2>3, <2>4
<1> HIDE DEF Good
<1>4. \A j \in 0 .. k : Good(j)
  <2> SUFFICES ASSUME \E j \in 0 .. k : ~Good(j) PROVE FALSE
    OBVIOUS
  <2> DEFINE B == {j \in 0 .. k : ~Good(j)}
  <2>1. B \subseteq Nat /\ B # {}
    OBVIOUS
  <2>2. PICK m \in B : \A j \in B : m <= j
    <3> HIDE DEF B
    <3> QED BY <2>1, LeastNat
  <2>3. m \in 0 .. k /\ ~Good(m) /\ m # 0
    BY <1>2, <2>2
  <2>4. PICK j \in 0 .. k - 1 : m = j + 1 /\ m \in 1 .. k /\ j \in 0 .. k /\ ~(m <= j)
    <3>1. m - 1 \in 0 .. k - 1 /\ m = (m - 1) + 1 /\ m \in 1 .. k /\ m - 1 \in 0 .. k
          /\ ~(m <= m - 1)
      BY <2>3
    <3> QED BY <3>1
  <2>5. Good(j)
    BY <2>2, <2>4
  <2> QED BY <1>3, <2>3, <2>4, <2>5
<1> QED BY <1>4 DEF Good

(* What a response brings: with what was received before, it leaves out    *)
(* nothing up to its last event.                                           *)
LEMMA ResponseFacts ==
  ASSUME IInv, cursor # -1, NEW k \in 1 .. want, cursor + k <= published,
         NEW cache \in Deduplicate(seen, cursor, k)
  PROVE  /\ cursor \in Nat /\ k \in Nat /\ cursor + k \in 0 .. MaxEvents
         /\ Fresh(cache, cursor, k) \subseteq Event
         /\ \A e \in Event : e <= cursor + k => e \in Received \union Fresh(cache, cursor, k)
         /\ cache[k] \subseteq Event /\ Cardinality(cache[k]) <= CacheSize
         /\ cache[k] \subseteq taken \union Fresh(cache, cursor, k)
         /\ Cardinality(taken \union Fresh(cache, cursor, k)) <= CacheSize =>
              /\ cache[k] = taken \union Fresh(cache, cursor, k)
              /\ Fresh(cache, cursor, k) \intersect taken = {} /\ ~repeated
<1> DEFINE fresh == Fresh(cache, cursor, k)
<1>1. /\ cursor \in Nat /\ k \in Nat /\ k > 0 /\ cursor + k \in 0 .. MaxEvents
      /\ cursor + k <= MaxEvents
  <2>1. cursor \in -1 .. MaxEvents /\ published \in 0 .. MaxEvents /\ want \in 0 .. MaxWant
    BY DEF IInv, TypeOK
  <2> QED BY <2>1, Numbers
<1>2. seen \subseteq Event /\ Cardinality(seen) <= CacheSize /\ seen \subseteq taken
      /\ taken \subseteq Event
  BY DEF IInv, TypeOK, CacheRemembers
<1>3. fresh \subseteq Event
  <2>1. cursor + 1 .. cursor + k \subseteq Event
    BY <1>1, Numbers DEF Event
  <2> QED BY <1>1, <2>1, FreshFacts
<1>4. \A i \in 0 .. k :
        /\ cache[i] \subseteq Event /\ Cardinality(cache[i]) <= CacheSize
        /\ cache[i] \subseteq seen \union Fresh(cache, cursor, i)
        /\ Cardinality(seen \union fresh) <= CacheSize =>
             cache[i] = seen \union Fresh(cache, cursor, i)
  BY <1>1, <1>2, TrailFacts
<1>5. \A i \in 0 .. k : Fresh(cache, cursor, i) \subseteq fresh
  <2> SUFFICES ASSUME NEW i \in 0 .. k PROVE Fresh(cache, cursor, i) \subseteq fresh
    OBVIOUS
  <2>1. \A j \in 1 .. i : j \in 1 .. k
    BY <1>1
  <2> QED BY <2>1 DEF Fresh
<1>6. \A i \in 1 .. k : i - 1 \in 0 .. k /\ (cursor + i \in cache[i - 1] \/ cursor + i \in fresh)
  BY <1>1 DEF Fresh
<1>7. ASSUME NEW e \in Event, e <= cursor + k PROVE e \in Received \union fresh
  <2>1. CASE e <= cursor
    BY <2>1 DEF IInv, ResumesInTime
  <2>2. CASE ~(e <= cursor)
    <3>1. PICK i \in 1 .. k : e = cursor + i
      <4>1. e - cursor \in 1 .. k /\ e = cursor + (e - cursor)
        BY <1>1, <1>7, <2>2, Events
      <4> QED BY <4>1
    <3>2. e \in cache[i - 1] \/ e \in fresh
      BY <1>6, <3>1
    <3>3. cache[i - 1] \subseteq taken \union fresh
      <4>1. i - 1 \in 0 .. k
        BY <1>6
      <4> QED BY <1>2, <1>4, <1>5, <4>1
    <3>4. taken \subseteq Received
      BY DEF IInv, ResumesInTime
    <3> QED BY <3>2, <3>3, <3>4
  <2> QED BY <2>1, <2>2
<1>8. k \in 0 .. k
  BY <1>1
<1>9. cache[k] \subseteq Event /\ Cardinality(cache[k]) <= CacheSize
      /\ cache[k] \subseteq taken \union fresh
  BY <1>2, <1>4, <1>8
<1>10. ASSUME Cardinality(taken \union fresh) <= CacheSize
       PROVE  cache[k] = taken \union fresh /\ fresh \intersect taken = {} /\ ~repeated
  <2>1. Cardinality(taken) <= CacheSize
    <3>1. IsFiniteSet(taken \union fresh) /\ Cardinality(taken \union fresh) \in Nat
          /\ Cardinality(taken) \in Nat
      BY <1>2, <1>3, EventsAreFinite
    <3>2. Cardinality(taken) <= Cardinality(taken \union fresh)
      BY <3>1, FS_Subset
    <3> QED BY <1>10, <3>1, <3>2, Numbers
  <2>2. seen = taken /\ ~repeated
    BY <2>1 DEF IInv, CacheRemembers
  <2>3. \A i \in 0 .. k : cache[i] = taken \union Fresh(cache, cursor, i)
    BY <1>4, <1>10, <2>2
  <2>4. ASSUME NEW e \in fresh PROVE e \notin taken
    <3>1. PICK i \in 1 .. k : e = cursor + i /\ cursor + i \notin cache[i - 1]
      BY <2>4 DEF Fresh
    <3>2. i - 1 \in 0 .. k
      BY <1>6
    <3> QED BY <2>3, <3>1, <3>2
  <2> QED BY <1>8, <2>2, <2>3, <2>4
<1> QED BY <1>1, <1>3, <1>7, <1>9, <1>10

(* Events put on the queue, oldest first.                                  *)
LEMMA QueuedFacts ==
  ASSUME NEW S, S \subseteq Event, NEW D, NEW r \in Queued(S),
         queue \in Seq(Event), InOrder(queue, D),
         \A e \in Event : \A f \in S : e < f => e \in D \union ToSet(queue) \union S
  PROVE  /\ r \in Seq(Event) /\ ToSet(r) = ToSet(queue) \union S
         /\ InOrder(r, D)
<1>1. Cardinality(S) \in Nat
  BY EventsAreFinite
<1>2. PICK q \in [1 .. Cardinality(S) -> S] :
        /\ r = queue \o q /\ ToSet(q) = S
        /\ \A i, j \in DOMAIN q : i < j => q[i] < q[j]
  BY DEF Queued
<1>3. q \in Seq(Event) /\ Len(q) = Cardinality(S) /\ DOMAIN q = 1 .. Len(q)
  BY <1>1, <1>2, IsASeq, LenProperties
<1>4. InOrder(q, D \union ToSet(queue))
  <2> SUFFICES ASSUME NEW i \in 1 .. Len(q), NEW e \in Event, e < q[i], e \notin D \union ToSet(queue)
               PROVE  \E j \in 1 .. i - 1 : q[j] = e
    BY DEF InOrder
  <2>1. q[i] \in S
    BY <1>2, <1>3, SeqFacts
  <2>2. e \in ToSet(q)
    BY <1>2, <2>1
  <2>3. PICK j \in 1 .. Len(q) : q[j] = e
    BY <1>3, <2>2, SeqFacts
  <2>4. ~(i <= j)
    <3>1. CASE i = j
      BY <2>3, <3>1, Events
    <3>2. CASE i < j
      <4>1. q[i] < e
        BY <1>2, <1>3, <2>3, <3>2
      <4> QED BY <2>1, <4>1, Events
    <3> QED BY <1>3, <3>1, <3>2
  <2> QED BY <1>3, <2>3, <2>4
<1>5. r \in Seq(Event) /\ InOrder(r, D) /\ ToSet(r) = ToSet(queue) \union ToSet(q)
  BY <1>2, <1>3, <1>4, InOrderConcat
<1> QED BY <1>2, <1>5

LEMMA ReceiveSafe ==
  ASSUME IInv, Receive
  PROVE  IInv'
<1>1. /\ pc = "subscribed" /\ cursor # -1
      /\ UNCHANGED <<published, table, inflight, backfill, pc, replay, original, attempt, waiting,
                     stale, setup, fetched, stream, starts>>
  BY DEF Receive, forwarder
<1>2. PICK k \in 1 .. want :
        /\ cursor + k <= published
        /\ cursor' = cursor + k /\ want' = want - k
        /\ \E cache \in Deduplicate(seen, cursor, k) :
           LET fresh == Fresh(cache, cursor, k) IN
           \E bad \in {{}} \union {{e} : e \in fresh} :
             /\ IF bad = {} THEN UNCHANGED faults ELSE Fault
             /\ last' = IF fresh = {} THEN cursor + k ELSE Max(fresh)
             /\ seen' = cache[k]
             /\ queue' \in Queued(fresh \ bad)
             /\ lost' = lost \union bad
             /\ taken' = taken \union fresh
             /\ repeated' = (repeated \/ fresh \intersect taken # {})
             /\ fc' = IF fresh # {} /\ want - k = 0 THEN Released(fc) ELSE fc
  BY DEF Receive
<1>3. PICK cache \in Deduplicate(seen, cursor, k) :
        LET fresh == Fresh(cache, cursor, k) IN
        \E bad \in {{}} \union {{e} : e \in fresh} :
          /\ IF bad = {} THEN UNCHANGED faults ELSE Fault
          /\ last' = IF fresh = {} THEN cursor + k ELSE Max(fresh)
          /\ seen' = cache[k]
          /\ queue' \in Queued(fresh \ bad)
          /\ lost' = lost \union bad
          /\ taken' = taken \union fresh
          /\ repeated' = (repeated \/ fresh \intersect taken # {})
          /\ fc' = IF fresh # {} /\ want - k = 0 THEN Released(fc) ELSE fc
  BY <1>2
<1>4. PICK fresh : fresh = Fresh(cache, cursor, k)
  OBVIOUS
<1>5. PICK bad \in {{}} \union {{e} : e \in fresh} :
        /\ UNCHANGED faults \/ Fault
        /\ last' = IF fresh = {} THEN cursor + k ELSE Max(fresh)
        /\ seen' = cache[k]
        /\ queue' \in Queued(fresh \ bad)
        /\ lost' = lost \union bad
        /\ taken' = taken \union fresh
        /\ repeated' = (repeated \/ fresh \intersect taken # {})
        /\ fc' = IF fresh # {} /\ want - k = 0 THEN Released(fc) ELSE fc
  BY <1>3, <1>4
<1>6. /\ cursor \in Nat /\ k \in Nat /\ cursor + k \in 0 .. MaxEvents
      /\ fresh \subseteq Event
      /\ \A e \in Event : e <= cursor + k => e \in Received \union fresh
      /\ cache[k] \subseteq Event /\ Cardinality(cache[k]) <= CacheSize
      /\ cache[k] \subseteq taken \union fresh
      /\ Cardinality(taken \union fresh) <= CacheSize =>
           cache[k] = taken \union fresh /\ fresh \intersect taken = {} /\ ~repeated
  BY <1>1, <1>2, <1>4, ResponseFacts
<1>7. bad \subseteq fresh
  BY <1>5
<1>8. \A f \in fresh : f <= cursor + k
  <2>1. fresh \subseteq cursor + 1 .. cursor + k
    BY <1>4, <1>6, FreshFacts
  <2> QED BY <1>6, <2>1
<1>9. Rows' = Rows /\ lost \subseteq lost' /\ lost' \subseteq Event
  BY <1>1, <1>5, <1>6, <1>7 DEF Rows, IInv, TypeOK
<1>10. /\ AtTable \subseteq AtTable' /\ AtServer' = AtServer \union bad
  BY <1>1, <1>5, <1>9 DEF AtTable, AtServer
<1>11. /\ queue' \in Seq(Event) /\ ToSet(queue') = ToSet(queue) \union (fresh \ bad)
       /\ InOrder(queue', AtServer')
  <2>1. queue \in Seq(Event) /\ InOrder(queue, AtServer')
    BY <1>10, InOrderMonotone DEF IInv, TypeOK, StagesInOrder
  <2>2. fresh \ bad \subseteq Event /\ queue' \in Queued(fresh \ bad)
    BY <1>5, <1>6
  <2>3. ASSUME NEW e \in Event, NEW f \in fresh \ bad, e < f
        PROVE  e \in AtServer' \union ToSet(queue) \union (fresh \ bad)
    <3>1. e <= cursor + k
      BY <1>6, <1>8, <2>3, Events
    <3>2. e \in Received \union fresh
      BY <1>6, <3>1
    <3> QED BY <1>10, <3>2 DEF Received
  <2> QED BY <2>1, <2>2, <2>3, QueuedFacts
<1>12. Received' = Received \union fresh
  BY <1>7, <1>10, <1>11 DEF Received
<1>13. last' <= cursor + k /\ last' \in 0 .. MaxEvents
  <2>1. CASE fresh = {}
    BY <1>5, <1>6, <2>1
  <2>2. CASE fresh # {}
    <3>1. last' \in fresh
      BY <1>5, <1>6, <2>2, MaxFacts
    <3> QED BY <1>6, <1>8, <3>1, Bounds
  <2> QED BY <2>1, <2>2
<1>14. want' \in 0 .. MaxWant /\ want > 0 /\ fc.permits <= MaxPermits
  <2>1. want \in 0 .. MaxWant
    BY DEF IInv, TypeOK
  <2>2. want' \in 0 .. MaxWant /\ want > 0
    BY <1>2, <1>6, <2>1, Numbers
  <2> QED BY <2>2 DEF IInv, Limits
<1>15. fc' \in Controller(MaxPermits + 1) /\ (want' > 0 => fc'.permits <= MaxPermits)
  <2>1. fc \in Controller(MaxPermits + 1) /\ fc' \in {fc, Released(fc)}
        /\ (fc' = fc \/ want' = 0)
    BY <1>2, <1>5 DEF IInv, TypeOK
  <2>2. Released(fc) \in Controller(MaxPermits + 1)
    BY <1>14, PermitFacts DEF IInv
  <2> QED BY <1>14, <2>1, <2>2
<1>16. TypeOK'
  <2>1. faults' \in 0 .. MaxFaults
    BY <1>5, FaultsBounded DEF IInv
  <2>2. cursor' \in -1 .. MaxEvents
    BY <1>2, <1>6
  <2>3. seen' \subseteq Event /\ Cardinality(seen') <= CacheSize /\ taken' \subseteq Event
    BY <1>5, <1>6 DEF IInv, TypeOK
  <2>4. repeated' \in BOOLEAN
    BY <1>5
  <2> QED BY <1>1, <1>9, <1>11, <1>13, <1>14, <1>15, <2>1, <2>2, <2>3, <2>4 DEF IInv, TypeOK
<1>17. Limits'
  <2>1. stale' <= faults'
    <3>1. faults <= faults'
      BY <1>5, FaultsBounded DEF IInv
    <3> QED BY <1>1, <3>1, <1>16, Numbers DEF IInv, Limits, TypeOK
  <2> QED BY <1>1, <1>15, <2>1 DEF IInv, Limits
<1>18. TableFirst'
  BY <1>1 DEF IInv, TableFirst
<1>19. StagesInOrder'
  <2>1. InOrder(Rows', lost')
    BY <1>9, InOrderMonotone DEF IInv, StagesInOrder
  <2>2. InOrder(inflight', AtTable')
    BY <1>1, <1>10, InOrderMonotone DEF IInv, StagesInOrder
  <2> QED BY <1>11, <2>1, <2>2 DEF StagesInOrder
<1>20. ResumesInTime'
  <2>1. ASSUME NEW e \in Event, e <= cursor' \/ e <= last' PROVE e \in Received'
    <3>1. e <= cursor + k
      BY <1>2, <1>6, <1>13, <2>1, Events
    <3> QED BY <1>6, <1>12, <3>1
  <2>2. taken' \subseteq Received'
    BY <1>5, <1>12 DEF IInv, ResumesInTime
  <2> QED BY <1>1, <1>12, <2>1, <2>2 DEF IInv, ResumesInTime
<1>21. CacheRemembers'
  <2>1. seen' = cache[k] /\ taken' = taken \union fresh
    BY <1>5
  <2>2. fresh \intersect taken = {} /\ ~repeated => ~repeated'
    BY <1>5
  <2> QED BY <1>6, <2>1, <2>2 DEF CacheRemembers
<1> QED BY <1>16, <1>17, <1>18, <1>19, <1>20, <1>21 DEF IInv
-----------------------------------------------------------------------------
LEMMA InvariantInit == Init => IInv
<1> SUFFICES ASSUME Init PROVE IInv
  OBVIOUS
<1>1. TypeOK
  <2>1. published \in 0 .. MaxEvents /\ cursor \in -1 .. MaxEvents /\ want \in 0 .. MaxWant
        /\ last \in 0 .. MaxEvents /\ attempt \in 0 .. MaxRetries + 1 /\ stale \in 0 .. MaxFaults
        /\ fetched \in -1 .. MaxEvents /\ faults \in 0 .. MaxFaults /\ starts \in 0 .. MaxStarts
    BY Numbers, Bounds DEF Init
  <2>2. fc \in Controller(MaxPermits + 1)
    <3>1. 1 \in 0 .. MaxPermits + 1 /\ 0 \in 0 .. MaxTimeouts - 1
      BY Numbers
    <3> QED BY <3>1 DEF Init, NewController, Controller
  <2>3. Cardinality({}) <= CacheSize /\ <<>> \in Seq(Event)
    BY FS_EmptySet, Numbers
  <2> QED BY <2>1, <2>2, <2>3 DEF Init, TypeOK
<1>2. Limits
  BY Numbers DEF Init, Limits
<1>3. TableFirst
  BY DEF Init, TableFirst
<1>4. Rows = <<>>
  BY DEF Init, Rows
<1>5. StagesInOrder
  BY <1>4, EmptyFacts DEF Init, StagesInOrder
<1>6. ResumesInTime
  BY Events, PositionFacts DEF Init, ResumesInTime
<1>7. CacheRemembers
  BY DEF Init, CacheRemembers
<1> QED BY <1>1, <1>2, <1>3, <1>5, <1>6, <1>7 DEF IInv

LEMMA InvariantStep == IInv /\ [Next]_vars => IInv'
<1> SUFFICES ASSUME IInv, [Next]_vars PROVE IInv'
  OBVIOUS
<1>1. ASSUME FetchOnPermit \/ FetchOnTimeout PROVE IInv'
  <2>1. fc' \in Controller(MaxPermits + 1) /\ fc'.permits <= MaxPermits /\ Fetch
    BY <1>1, PermitFacts DEF FetchOnPermit, FetchOnTimeout, IInv
  <2> QED BY <2>1, FetchSafe
<1>2. CASE Next
  BY <1>1, <1>2, StartSafe, EndSafe, StopSafe, CreateTableSafe, FetchReplayIdSafe, OpenStreamSafe,
     SubscribeSafe, StaleAcquireSafe, ReceiveSafe, KeepaliveSafe, StreamFailsSafe, StreamEndsSafe,
     RetrySafe, ForwardSafe, ForwardFailsSafe, ForwardDropsSafe, DurableSafe, PublishSafe DEF Next
<1>3. CASE UNCHANGED vars
  <2>1. UNCHANGED <<published, cursor, want, table, inflight, backfill, pc, replay, original, last,
                    attempt, fc, waiting, stale, seen, queue, setup, fetched, stream, faults, starts,
                    lost, taken, repeated>>
    BY <1>3 DEF vars, server, subscription, forwarder, history
  <2>2. TypeOK' /\ Limits' /\ TableFirst'
    BY <2>1 DEF IInv, TypeOK, Limits, TableFirst
  <2>3. Rows' = Rows
    BY <2>1 DEF Rows
  <2> QED BY <2>1, <2>2, <2>3, QuietSafe DEF IInv, ResumesInTime
<1> QED BY <1>2, <1>3

(* At every moment of every run the stages hold the events in order, every *)
(* place a subscription may go on from is behind what was received, and    *)
(* the cache has forgotten nothing as long as everything fits.             *)
THEOREM SubscriberInvariant == Spec => []IInv
<1> QED BY InvariantInit, InvariantStep, PTL DEF Spec

LEMMA InvariantIsSound == IInv => SubscriberSound
<1> SUFFICES ASSUME IInv PROVE SubscriberSound
  OBVIOUS
<1>1. Gapless
  <2> SUFFICES ASSUME NEW e \in Event, NEW f \in Event, e < f, f \in ToSet(Rows)
               PROVE  e \in Underway \union lost
    BY DEF Gapless
  <2>1. Rows \in Seq(Event)
    BY RowsFacts DEF IInv
  <2>2. PICK i \in 1 .. Len(Rows) : Rows[i] = f
    BY <2>1, SeqFacts
  <2>3. e \in lost \/ \E j \in 1 .. i - 1 : Rows[j] = e
    BY <2>2 DEF IInv, StagesInOrder, InOrder
  <2>4. \A j \in 1 .. i - 1 : j \in 1 .. Len(Rows)
    BY <2>1
  <2>5. e \in lost \/ e \in ToSet(Rows)
    BY <2>1, <2>3, <2>4, SeqFacts
  <2> QED BY <2>5 DEF Underway
<1>2. OnceWhileCached
  <2>1. Cardinality(taken) \in Nat
    BY EventsAreFinite DEF IInv, TypeOK
  <2>2. repeated => ~(Cardinality(taken) <= CacheSize)
    BY DEF IInv, CacheRemembers
  <2> QED BY <2>1, <2>2, Numbers DEF OnceWhileCached
<1> QED BY <1>1, <1>2 DEF IInv, SubscriberSound

(* There is no hole in the table, and nothing the cache can remember is    *)
(* queued twice: whatever breaks, is sent twice, or is started again.      *)
THEOREM SubscriberCorrect == Spec => []SubscriberSound
<1> QED BY SubscriberInvariant, InvariantIsSound, PTL
==============================================================================
