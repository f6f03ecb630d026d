---------------------- MODULE SalesforcePipeline_proofs ----------------------
(***************************************************************************)
(* Proofs that the Go pipeline leaves no hole in the table, for any number *)
(* of events, any channel and any cache, whatever fails, wherever a        *)
(* goroutine is when it does, and however often the process is started     *)
(* again.                                                                  *)
(***************************************************************************)
EXTENDS SalesforcePipeline, SequenceTheorems, TLAPS

INSTANCE EventOrder  \* InOrder and its lemmas

(* How far each event has got, from the last place to the first.           *)
AtTable == lost \union ToSet(rows)
AtServer == AtTable \union ToSet(inflight)
AtForwarder == AtServer \union {held}
AtChannel == AtForwarder \union ToSet(eventCh)
Received == AtChannel \union ToSet(batch)

(* The stages hold the events in order: what may be lost in a crash or     *)
(* dropped with a stream is never older than what is further.              *)
StagesInOrder ==
  /\ InOrder(rows, lost)
  /\ InOrder(inflight, AtTable)
  /\ held # 0 => \A e \in Event : e < held => e \in AtServer
  /\ InOrder(eventCh, AtForwarder)
  /\ InOrder(batch, AtChannel)

(* Every place from which a stream may go on is behind what was received,  *)
(* and what the cache remembers has left the receiver.                     *)
ResumesInTime ==
  /\ \A e \in Event : e <= cursor \/ e <= last \/ e <= replay.id => e \in Received
  /\ ToSet(seen) \subseteq AtChannel

IInv == TypeOK /\ StagesInOrder /\ ResumesInTime
-----------------------------------------------------------------------------
LEMMA Numbers ==
  /\ MaxEvents \in Nat /\ MaxEvents > 0 /\ MaxFaults \in Nat /\ MaxStarts \in Nat
  /\ BatchSize \in Nat /\ MaxWant \in Nat /\ EventChannelSize \in Nat /\ CacheSize \in Nat
  /\ CacheSize > 0
BY PipelineAssumption

LEMMA ReplayIds ==
  ASSUME TypeOK
  PROVE  replay.id \in 0 .. MaxEvents
BY Numbers DEF TypeOK, Latest, Earliest, Custom, Event

LEMMA FaultsBounded ==
  ASSUME TypeOK, UNCHANGED faults \/ Fault
  PROVE  faults' \in 0 .. MaxFaults
<1>1. faults \in 0 .. MaxFaults /\ MaxFaults \in Nat
  BY Numbers DEF TypeOK
<1>2. faults' = faults \/ (faults < MaxFaults /\ faults' = faults + 1)
  BY DEF Fault
<1> QED BY <1>1, <1>2

(* Nothing moves, and no place to go on from is further than it was.       *)
LEMMA QuietSafe ==
  ASSUME IInv, TypeOK', UNCHANGED <<rows, inflight, held, eventCh, batch, seen, lost>>,
         \A e \in Event : e <= cursor' \/ e <= last' \/ e <= replay'.id =>
           e <= cursor \/ e <= last \/ e <= replay.id
  PROVE  IInv'
<1>1. StagesInOrder'
  BY DEF IInv, StagesInOrder, AtTable, AtServer, AtForwarder, AtChannel
<1>2. ResumesInTime'
  BY DEF IInv, ResumesInTime, AtTable, AtServer, AtForwarder, AtChannel, Received
<1> QED BY <1>1, <1>2 DEF IInv

LEMMA StartSafe ==
  ASSUME IInv, Start
  PROVE  IInv'
<1>1. /\ UNCHANGED <<rows, inflight, held, eventCh, batch, seen, lost, cursor, last>>
      /\ \E failed \in BOOLEAN : replay' = SubscriptionParams(failed)
  BY DEF Start, salesforce, zerobus, receiver, forwarder
<1>2. rows # <<>> => /\ Last(rows) \in Event
                     /\ \A e \in Event : e <= Last(rows) => e \in Received
  <2> SUFFICES ASSUME rows # <<>>
               PROVE  /\ Last(rows) \in Event
                      /\ \A e \in Event : e <= Last(rows) => e \in Received
    OBVIOUS
  <2>1. rows \in Seq(Event) /\ Len(rows) \in Nat /\ Len(rows) > 0 /\ Last(rows) = rows[Len(rows)]
    BY DEF IInv, TypeOK, Last
  <2>2. Len(rows) \in 1 .. Len(rows)
    BY <2>1
  <2>3. Last(rows) \in Event /\ Last(rows) \in ToSet(rows)
    BY <2>1, <2>2, SeqFacts
  <2>4. \A e \in Event : e < Last(rows) => e \in lost \union ToSet(rows)
    <3> SUFFICES ASSUME NEW e \in Event, e < Last(rows), e \notin lost
                 PROVE  e \in ToSet(rows)
      OBVIOUS
    <3>1. PICK j \in 1 .. Len(rows) - 1 : rows[j] = e
      BY <2>1, <2>2 DEF IInv, StagesInOrder, InOrder
    <3>2. j \in 1 .. Len(rows)
      BY <2>1
    <3> QED BY <2>1, <3>1, <3>2, SeqFacts
  <2>5. \A e \in Event : e <= Last(rows) => e < Last(rows) \/ e = Last(rows)
    BY <2>3, Numbers DEF Event
  <2> QED BY <2>3, <2>4, <2>5 DEF Received, AtChannel, AtForwarder, AtServer, AtTable
<1>3. /\ replay' \in {Latest, Earliest} \union {Custom(e) : e \in Event}
      /\ \A e \in Event : e <= replay'.id => e \in Received
  <2>1. \/ replay' \in {Latest, Earliest}
        \/ rows # <<>> /\ replay' = Custom(Last(rows))
    BY <1>1 DEF SubscriptionParams, Fresh
  <2>2. CASE replay' \in {Latest, Earliest}
    <3>1. replay'.id = 0
      BY <2>2 DEF Latest, Earliest
    <3>2. \A e \in Event : ~(e <= 0)
      BY Numbers DEF Event
    <3> QED BY <2>2, <3>1, <3>2
  <2>3. CASE rows # <<>> /\ replay' = Custom(Last(rows))
    <3>1. replay'.id = Last(rows)
      BY <2>3 DEF Custom
    <3> QED BY <1>2, <2>3, <3>1
  <2> QED BY <2>1, <2>2, <2>3
<1>4. TypeOK'
  <2>1. up' = TRUE /\ starts' \in 0 .. MaxStarts
    BY Numbers DEF Start, IInv, TypeOK
  <2>2. faults' \in 0 .. MaxFaults
    BY FaultsBounded DEF Start, IInv
  <2> QED BY <1>3, <2>1, <2>2
          DEF IInv, TypeOK, Start, salesforce, zerobus, receiver, forwarder
<1>5. StagesInOrder'
  BY <1>1 DEF IInv, StagesInOrder, AtTable, AtServer, AtForwarder, AtChannel
<1>6. ResumesInTime'
  BY <1>1, <1>3 DEF IInv, ResumesInTime, AtTable, AtServer, AtForwarder, AtChannel, Received
<1> QED BY <1>4, <1>5, <1>6 DEF IInv

LEMMA SubscriberSafe ==
  ASSUME IInv, Signal \/ Fetch \/ Break \/ SendFails \/ SubscriberCancelled
               \/ ForwarderReady \/ SleepEnds \/ ForwarderCancelled \/ Publish
  PROVE  IInv'
<1>1. UNCHANGED <<rows, inflight, held, eventCh, batch, seen, lost, cursor, last, replay>>
  BY DEF Signal, Fetch, Break, SendFails, SubscriberCancelled, ForwarderReady, SleepEnds,
         ForwarderCancelled, Publish, salesforce, zerobus, receiver, forwarder
<1>2. TypeOK'
  <2>1. CASE Signal \/ SendFails \/ SubscriberCancelled
    BY <2>1 DEF IInv, TypeOK, Signal, SendFails, SubscriberCancelled,
                salesforce, zerobus, receiver, forwarder, process
  <2>2. CASE Fetch
    <3>1. want' \in 0 .. MaxWant
      BY <2>2, Numbers DEF IInv, TypeOK, Fetch
    <3> QED BY <2>2, <3>1 DEF IInv, TypeOK, Fetch, zerobus, forwarder, process
  <2>3. CASE Break
    <3>1. broken' \in Code /\ faults' \in 0 .. MaxFaults
      BY <2>3, FaultsBounded DEF IInv, Break
    <3> QED BY <2>3, <3>1 DEF IInv, TypeOK, Break, zerobus, receiver, forwarder, process
  <2>4. CASE ForwarderReady
    <3>1. faults' \in 0 .. MaxFaults
      BY <2>4, FaultsBounded DEF IInv, ForwarderReady
    <3>2. /\ stream' \in BOOLEAN /\ cancelled' \in BOOLEAN
          /\ fwd' \in {"starting", "ready", "sleeping", "returned"}
      BY <2>4 DEF IInv, TypeOK, ForwarderReady
    <3> QED BY <2>4, <3>1, <3>2 DEF IInv, TypeOK, ForwarderReady, salesforce, receiver, process
  <2>5. CASE SleepEnds \/ ForwarderCancelled
    BY <2>5 DEF IInv, TypeOK, SleepEnds, ForwarderCancelled,
                salesforce, zerobus, receiver, process
  <2>6. CASE Publish
    <3>1. published \in 0 .. MaxEvents /\ MaxEvents \in Nat
      BY Numbers DEF IInv, TypeOK
    <3>2. published < MaxEvents /\ published' = published + 1
      BY <2>6 DEF Publish
    <3>3. published' \in 0 .. MaxEvents
      BY <3>1, <3>2
    <3> QED BY <2>6, <3>3 DEF IInv, TypeOK, Publish, zerobus, receiver, forwarder, process
  <2> QED BY <2>1, <2>2, <2>3, <2>4, <2>5, <2>6
<1> QED BY <1>1, <1>2, QuietSafe

LEMMA KeepaliveSafe ==
  ASSUME IInv, Keepalive
  PROVE  IInv'
<1>1. /\ UNCHANGED <<rows, inflight, held, eventCh, batch, seen, lost, cursor, replay>>
      /\ last' \in {last, cursor}
  BY DEF Keepalive, salesforce, zerobus, forwarder
<1>2. TypeOK'
  BY <1>1 DEF IInv, TypeOK, Keepalive, salesforce, zerobus, forwarder, process
<1> QED BY <1>1, <1>2, QuietSafe

LEMMA ReceiveFailsSafe ==
  ASSUME IInv, ReceiveFails
  PROVE  IInv'
<1>1. /\ UNCHANGED <<rows, inflight, held, eventCh, batch, seen, lost, cursor, last>>
      /\ replay' \in {Latest, replay} \/ (last # 0 /\ replay' = Custom(last))
  BY DEF ReceiveFails, RetryStrategy, salesforce, zerobus, receiver, forwarder
<1>2. replay' \in {Latest, Earliest} \union {Custom(e) : e \in Event}
  <2>1. last # 0 => last \in Event
    BY Numbers DEF IInv, TypeOK, Event
  <2> QED BY <1>1, <2>1 DEF IInv, TypeOK
<1>3. replay'.id \in {0, replay.id, last}
  BY <1>1 DEF Latest, Custom
<1>4. TypeOK'
  BY <1>2 DEF IInv, TypeOK, ReceiveFails, salesforce, zerobus, receiver, forwarder, process
<1>5. \A e \in Event : e <= replay'.id => e <= last \/ e <= replay.id
  BY <1>3, Numbers DEF Event
<1> QED BY <1>1, <1>4, <1>5, QuietSafe

(* A crash, or the end: what is gone is never older than a row.            *)
LEMMA GoneSafe ==
  ASSUME IInv, Gone
  PROVE  IInv'
<1>1. PICK n \in 0 .. Len(inflight) : rows' = rows \o SubSeq(inflight, 1, n)
  BY DEF Gone
<1>2. rows \in Seq(Event) /\ inflight \in Seq(Event) /\ InOrder(rows, lost)
      /\ InOrder(inflight, lost \union ToSet(rows))
  BY DEF IInv, TypeOK, StagesInOrder, AtTable
<1>3. rows' \in Seq(Event) /\ InOrder(rows', lost)
  BY <1>1, <1>2, InOrderCut
<1>4. /\ inflight' = <<>> /\ held' = 0 /\ eventCh' = <<>> /\ batch' = <<>> /\ seen' = <<>>
      /\ lost' = lost /\ cursor' = 0 /\ last' = 0 /\ replay' = Latest
  BY DEF Gone
<1>5. TypeOK'
  <2>1. <<>> \in Seq(Event) /\ Len(<<>>) = 0 /\ 0 \in 0 .. MaxEvents /\ 0 \in 0 .. MaxWant
        /\ 0 <= EventChannelSize /\ 0 <= CacheSize
    BY Numbers
  <2> QED BY <1>3, <2>1 DEF IInv, TypeOK, Gone
<1>6. StagesInOrder'
  BY <1>3, <1>4, EmptyFacts DEF StagesInOrder
<1>7. ResumesInTime'
  <2>1. \A e \in Event : ~(e <= 0)
    BY Numbers DEF Event
  <2>2. replay'.id = 0
    BY <1>4 DEF Latest
  <2> QED BY <1>4, <2>1, <2>2, EmptyFacts DEF ResumesInTime
<1> QED BY <1>5, <1>6, <1>7 DEF IInv

(* Events that are given up when a stream opens at the newest one.         *)
LEMMA OpenSafe ==
  ASSUME IInv, Open
  PROVE  IInv'
<1>1. UNCHANGED <<rows, inflight, held, eventCh, batch, seen, replay>> /\ last' = 0
  BY DEF Open, zerobus, forwarder
<1>2. lost \subseteq lost' /\ lost' \subseteq Event
  <2>1. 1 .. published \subseteq Event /\ lost \subseteq Event
    BY Numbers DEF IInv, TypeOK, Event
  <2> QED BY <2>1 DEF Open
<1>3. cursor' \in 0 .. MaxEvents
  BY ReplayIds, Numbers DEF Open, IInv, TypeOK
<1>4. TypeOK'
  <2>1. want' \in 0 .. MaxWant /\ 0 \in 0 .. MaxEvents
    BY Numbers DEF Open
  <2> QED BY <1>1, <1>2, <1>3, <2>1 DEF IInv, TypeOK, Open, zerobus, forwarder, process
<1>5. /\ AtTable \subseteq AtTable' /\ AtServer \subseteq AtServer'
      /\ AtForwarder \subseteq AtForwarder' /\ AtChannel \subseteq AtChannel'
      /\ Received \subseteq Received'
  BY <1>1, <1>2 DEF AtTable, AtServer, AtForwarder, AtChannel, Received
<1>6. StagesInOrder'
  BY <1>1, <1>2, <1>5, InOrderMonotone DEF IInv, StagesInOrder
<1>7. ASSUME NEW e \in Event, e <= cursor' PROVE e \in Received'
  <2>1. CASE replay.type = "LATEST"
    <3>1. e \in 1 .. published
      BY <1>7, <2>1, Numbers DEF Open, IInv, TypeOK, Event
    <3>2. e \in Underway \union lost'
      BY <2>1, <3>1 DEF Open
    <3>3. Underway \subseteq Received'
      BY <1>1 DEF Underway, AtTable, AtServer, AtForwarder, AtChannel, Received
    <3>4. lost' \subseteq Received'
      BY DEF AtTable, AtServer, AtForwarder, AtChannel, Received
    <3> QED BY <3>2, <3>3, <3>4
  <2>2. CASE replay.type = "EARLIEST"
    <3>1. cursor' = 0
      BY <2>2 DEF Open
    <3> QED BY <1>7, <3>1, Numbers DEF Event
  <2>3. CASE replay.type \notin {"LATEST", "EARLIEST"}
    <3>1. cursor' = replay.id
      BY <2>3 DEF Open
    <3> QED BY <1>5, <1>7, <3>1 DEF IInv, ResumesInTime
  <2> QED BY <2>1, <2>2, <2>3
<1>8. ResumesInTime'
  <2>1. \A e \in Event : ~(e <= 0)
    BY Numbers DEF Event
  <2> QED BY <1>1, <1>5, <1>7, <2>1 DEF IInv, ResumesInTime
<1> QED BY <1>4, <1>6, <1>8 DEF IInv

(* The receiver gets events that follow the last it got.                   *)
LEMMA ReceiveSafe ==
  ASSUME IInv, Receive
  PROVE  IInv'
<1>1. PICK k \in 1 .. want :
        /\ cursor + k <= published
        /\ cursor' = cursor + k /\ want' = want - k /\ last' = cursor + k
        /\ batch' = [i \in 1 .. k |-> cursor + i]
  BY DEF Receive
<1>2. /\ batch = <<>>
      /\ UNCHANGED <<rows, inflight, held, eventCh, seen, replay, lost>>
  BY DEF Receive, zerobus, forwarder
<1>3. /\ k \in Nat /\ k >= 1 /\ k <= want /\ want \in 0 .. MaxWant
      /\ cursor \in 0 .. MaxEvents /\ published \in 0 .. MaxEvents /\ MaxEvents \in Nat
      /\ MaxWant \in Nat
  BY Numbers DEF IInv, TypeOK
<1>4. /\ batch' \in Seq(Event) /\ Len(batch') = k
      /\ \A i \in 1 .. k : batch'[i] = cursor + i
  <2>1. \A i \in 1 .. k : cursor + i \in Event
    BY <1>1, <1>3 DEF Event
  <2> QED BY <1>1, <1>3, <2>1, IsASeq, LenProperties
<1>5. TypeOK'
  <2>1. cursor' \in 0 .. MaxEvents /\ want' \in 0 .. MaxWant /\ last' \in 0 .. MaxEvents
    BY <1>1, <1>3
  <2> QED BY <1>2, <1>4, <2>1 DEF IInv, TypeOK, Receive, zerobus, forwarder, process
<1>6. \A e \in Event : e <= cursor => e \in AtChannel
  BY <1>2, EmptyFacts DEF IInv, ResumesInTime, Received
<1>7. AtTable' = AtTable /\ AtServer' = AtServer /\ AtForwarder' = AtForwarder
      /\ AtChannel' = AtChannel
  BY <1>2 DEF AtTable, AtServer, AtForwarder, AtChannel
<1>8. InOrder(batch', AtChannel')
  <2> SUFFICES ASSUME NEW i \in 1 .. k, NEW e \in Event, e < cursor + i, e \notin AtChannel
               PROVE  \E j \in 1 .. i - 1 : batch'[j] = e
    BY <1>4, <1>7 DEF InOrder
  <2>1. e - cursor \in 1 .. i - 1 /\ e - cursor \in 1 .. k
    BY <1>3, <1>6 DEF Event
  <2>2. batch'[e - cursor] = cursor + (e - cursor)
    BY <1>4, <2>1
  <2>3. cursor + (e - cursor) = e
    BY <1>3 DEF Event
  <2> QED BY <2>1, <2>2, <2>3
<1>9. StagesInOrder'
  BY <1>2, <1>7, <1>8 DEF IInv, StagesInOrder
<1>10. \A e \in Event : e <= cursor + k => e \in Received'
  <2> SUFFICES ASSUME NEW e \in Event, e <= cursor + k, ~(e <= cursor)
               PROVE  e \in ToSet(batch')
    BY <1>6, <1>7 DEF Received
  <2>1. e - cursor \in 1 .. k /\ cursor + (e - cursor) = e
    BY <1>3 DEF Event
  <2> QED BY <1>4, <2>1, SeqFacts
<1>11. \A e \in Event : e <= replay'.id => e \in Received'
  BY <1>2, <1>7, EmptyFacts DEF IInv, ResumesInTime, Received
<1>12. ResumesInTime'
  BY <1>1, <1>2, <1>7, <1>10, <1>11 DEF IInv, ResumesInTime
<1> QED BY <1>5, <1>9, <1>12 DEF IInv

(* The cache, and what the receiver is done with.                          *)
LEMMA AddedFacts ==
  ASSUME TypeOK, NEW e \in Event
  PROVE  /\ Added(seen, e) \in Seq(Event) /\ Len(Added(seen, e)) <= CacheSize
         /\ ToSet(Added(seen, e)) \subseteq ToSet(seen) \union {e}
<1> DEFINE kept == IF Len(seen) < CacheSize THEN seen ELSE Tail(seen)
<1>1. seen \in Seq(Event) /\ Len(seen) <= CacheSize /\ Len(seen) \in Nat
      /\ CacheSize \in Nat /\ CacheSize > 0
  BY Numbers DEF TypeOK
<1>2. kept \in Seq(Event) /\ Len(kept) < CacheSize /\ ToSet(kept) \subseteq ToSet(seen)
  <2>1. CASE Len(seen) < CacheSize
    BY <1>1, <2>1
  <2>2. CASE ~(Len(seen) < CacheSize)
    <3>1. seen # <<>>
      BY <1>1, <2>2
    <3> QED BY <1>1, <2>2, <3>1, TailFacts
  <2> QED BY <2>1, <2>2
<1>3. Added(seen, e) = Append(kept, e)
  BY DEF Added
<1> HIDE DEF kept
<1>4. Len(Append(kept, e)) = Len(kept) + 1
  BY <1>2
<1> QED BY <1>1, <1>2, <1>3, <1>4, AppendFacts

(* The receiver is done with the oldest event of its batch, which is in    *)
(* the channel, was given up, or had left the receiver before.             *)
LEMMA DoneSafe ==
  ASSUME IInv, batch # <<>>, Done,
         seen' = seen \/ seen' = Added(seen, Head(batch)),
         lost' = lost \/ lost' = lost \union {Head(batch)},
         \/ eventCh' = eventCh
         \/ eventCh' = Append(eventCh, Head(batch)) /\ Len(eventCh) < EventChannelSize,
         Head(batch) \in lost' \union ToSet(eventCh') \union ToSet(seen),
         UNCHANGED faults \/ Fault
  PROVE  IInv'
<1> DEFINE x == Head(batch)
<1>1. /\ batch' = Tail(batch) /\ last' = x
      /\ UNCHANGED <<published, cursor, want, broken, rows, inflight, stream, fwd, held, backfill,
                     up, starts, cancelled, sub, replay, fatal>>
      /\ flow' = (flow \/ Len(batch) = 1)
  BY DEF Done, salesforce, zerobus, forwarder, process
<1>2. /\ batch \in Seq(Event) /\ eventCh \in Seq(Event) /\ seen \in Seq(Event)
      /\ lost \subseteq Event
  BY DEF IInv, TypeOK
<1>3. /\ x \in Event /\ Tail(batch) \in Seq(Event)
      /\ ToSet(batch) = {x} \union ToSet(Tail(batch))
  BY <1>2, TailFacts
<1>4. /\ InOrder(Tail(batch), AtChannel \union {x})
      /\ \A e \in Event : e < x => e \in AtChannel
  BY <1>2, InOrderTail DEF IInv, StagesInOrder
<1> HIDE DEF x
<1>5. /\ seen' \in Seq(Event) /\ Len(seen') <= CacheSize
      /\ ToSet(seen') \subseteq ToSet(seen) \union {x}

  <2>1. CASE seen' = seen
    BY <1>2, <2>1 DEF IInv, TypeOK
  <2>2. CASE seen' = Added(seen, x)
    BY <1>3, <2>2, AddedFacts DEF IInv
  <2> QED BY <2>1, <2>2 DEF x
<1>6. /\ eventCh' \in Seq(Event) /\ Len(eventCh') <= EventChannelSize
      /\ ToSet(eventCh) \subseteq ToSet(eventCh')
      /\ InOrder(eventCh', AtForwarder)
  <2>1. CASE eventCh' = eventCh
    BY <1>2, <2>1 DEF IInv, TypeOK, StagesInOrder
  <2>2. CASE eventCh' = Append(eventCh, x) /\ Len(eventCh) < EventChannelSize
    <3>1. Len(eventCh') <= EventChannelSize
      BY <1>2, <2>2, Numbers
    <3>2. InOrder(eventCh', AtForwarder)
      BY <1>2, <1>3, <1>4, <2>2, InOrderAppend DEF IInv, StagesInOrder, AtChannel
    <3> QED BY <1>2, <1>3, <2>2, <3>1, <3>2, AppendFacts
  <2> QED BY <2>1, <2>2 DEF x
<1>7. lost \subseteq lost' /\ lost' \subseteq Event
  BY <1>2, <1>3 DEF x
<1>8. /\ AtTable \subseteq AtTable' /\ AtServer \subseteq AtServer'
      /\ AtForwarder \subseteq AtForwarder' /\ AtChannel \subseteq AtChannel'
  BY <1>1, <1>6, <1>7 DEF AtTable, AtServer, AtForwarder, AtChannel
<1>9. x \in AtChannel'
  <2>1. x \in lost' => x \in AtChannel'
    BY DEF AtTable, AtServer, AtForwarder, AtChannel
  <2>2. x \in ToSet(eventCh') => x \in AtChannel'
    BY DEF AtChannel
  <2>3. x \in ToSet(seen) => x \in AtChannel'
    BY <1>8 DEF IInv, ResumesInTime
  <2> QED BY <2>1, <2>2, <2>3 DEF x
<1>10. TypeOK'
  <2>1. faults' \in 0 .. MaxFaults
    BY FaultsBounded DEF IInv
  <2>2. last' \in 0 .. MaxEvents
    BY <1>1, <1>3, Numbers DEF Event
  <2>3. flow' \in BOOLEAN
    BY <1>1
  <2> QED BY <1>1, <1>3, <1>5, <1>6, <1>7, <2>1, <2>2, <2>3 DEF IInv, TypeOK
<1>11. StagesInOrder'
  <2>1. InOrder(rows', lost') /\ InOrder(inflight', AtTable')
    BY <1>1, <1>7, <1>8, InOrderMonotone DEF IInv, StagesInOrder
  <2>2. held' # 0 => \A e \in Event : e < held' => e \in AtServer'
    BY <1>1, <1>8 DEF IInv, StagesInOrder
  <2>3. InOrder(eventCh', AtForwarder')
    BY <1>6, <1>8, InOrderMonotone
  <2>4. InOrder(batch', AtChannel')
    <3>1. AtChannel \union {x} \subseteq AtChannel'
      BY <1>8, <1>9
    <3> QED BY <1>1, <1>4, <3>1, InOrderMonotone
  <2> QED BY <2>1, <2>2, <2>3, <2>4 DEF StagesInOrder
<1>12. ResumesInTime'
  <2>1. Received \subseteq Received'
    BY <1>1, <1>3, <1>8, <1>9 DEF Received
  <2>2. \A e \in Event : e <= x => e \in Received'
    <3>1. \A e \in Event : e <= x => e < x \/ e = x
      BY <1>3, Numbers DEF Event
    <3> QED BY <1>4, <1>8, <1>9, <3>1 DEF Received
  <2>3. ToSet(seen') \subseteq AtChannel'
    BY <1>5, <1>8, <1>9 DEF IInv, ResumesInTime
  <2> QED BY <1>1, <2>1, <2>2, <2>3 DEF IInv, ResumesInTime
<1> QED BY <1>10, <1>11, <1>12 DEF IInv

LEMMA ReceiverSafe ==
  ASSUME IInv, Duplicate \/ DecodeFails \/ Queue \/ QueueCancelled
  PROVE  IInv'
<1>1. CASE Duplicate
  BY <1>1, DoneSafe DEF Duplicate
<1>2. CASE DecodeFails
  BY <1>2, DoneSafe DEF DecodeFails
<1>3. CASE Queue
  <2>1. Head(batch) \in ToSet(eventCh')
    BY <1>3, TailFacts, AppendFacts DEF Queue, IInv, TypeOK
  <2> QED BY <1>3, <2>1, DoneSafe DEF Queue
<1>4. CASE QueueCancelled
  BY <1>4, DoneSafe DEF QueueCancelled
<1> QED BY <1>1, <1>2, <1>3, <1>4
-----------------------------------------------------------------------------
(* Events go on between the channel and the table, and none is forgotten.  *)
LEMMA MovedOn ==
  ASSUME IInv, TypeOK', UNCHANGED <<cursor, last, replay, batch, seen>>,
         InOrder(rows', lost'), InOrder(inflight', AtTable'),
         held' # 0 => \A e \in Event : e < held' => e \in AtServer',
         InOrder(eventCh', AtForwarder'),
         \A e \in Event : e \in AtChannel => e \in AtChannel'
  PROVE  IInv'
<1>1. ToSet(seen) \subseteq Event /\ ToSet(batch) \subseteq Event
  BY SeqFacts DEF IInv, TypeOK
<1>2. InOrder(batch', AtChannel')
  BY InOrderMonotone DEF IInv, StagesInOrder
<1>3. StagesInOrder'
  BY <1>2 DEF StagesInOrder
<1>4. ResumesInTime'
  BY <1>1 DEF IInv, ResumesInTime, Received
<1> QED BY <1>3, <1>4 DEF IInv

LEMMA TakeSafe ==
  ASSUME IInv, Take
  PROVE  IInv'
<1>1. /\ held = 0 /\ eventCh # <<>> /\ held' = Head(eventCh) /\ eventCh' = Tail(eventCh)
      /\ UNCHANGED <<rows, inflight, lost, cursor, last, replay, batch, seen>>
  BY DEF Take, salesforce, zerobus, receiver
<1>2. /\ eventCh \in Seq(Event) /\ Len(eventCh) <= EventChannelSize
  BY DEF IInv, TypeOK
<1>3. /\ held' \in Event /\ eventCh' \in Seq(Event)
      /\ ToSet(eventCh) = {held'} \union ToSet(eventCh') /\ Len(eventCh') <= EventChannelSize
  BY <1>1, <1>2, TailFacts, Numbers
<1>4. TypeOK'
  <2>1. held' \in 0 .. MaxEvents
    BY <1>3, Numbers DEF Event
  <2> QED BY <1>3, <2>1 DEF IInv, TypeOK, Take, salesforce, zerobus, receiver, process
<1>5. /\ InOrder(eventCh', AtForwarder \union {held'})
      /\ \A e \in Event : e < held' => e \in AtForwarder
  BY <1>1, <1>2, InOrderTail DEF IInv, StagesInOrder
<1>6. \A e \in Event : e # 0
  BY DEF Event
<1>7. AtServer' = AtServer /\ AtTable' = AtTable
  BY <1>1 DEF AtServer, AtTable
<1>8. \A e \in Event : (e \in AtForwarder <=> e \in AtServer)
                       /\ (e \in AtForwarder' <=> e \in AtForwarder \union {held'})
  BY <1>1, <1>6, <1>7 DEF AtForwarder
<1>9. InOrder(eventCh', AtForwarder')
  BY <1>5, <1>8, InOrderMonotone
<1>10. \A e \in Event : e \in AtChannel => e \in AtChannel'
  BY <1>3, <1>8 DEF AtChannel
<1>11. InOrder(rows', lost') /\ InOrder(inflight', AtTable')
  BY <1>1, <1>7 DEF IInv, StagesInOrder
<1>12. \A e \in Event : e < held' => e \in AtServer'
  BY <1>5, <1>7, <1>8
<1> QED BY <1>1, <1>4, <1>9, <1>10, <1>11, <1>12, MovedOn

LEMMA ForwardSafe ==
  ASSUME IInv, Forward
  PROVE  IInv'
<1>1. /\ held # 0 /\ held' = 0 /\ inflight' = Append(inflight, held)
      /\ UNCHANGED <<rows, eventCh, lost, cursor, last, replay, batch, seen>>
  BY DEF Forward, salesforce, receiver
<1>2. inflight \in Seq(Event) /\ held \in Event
  BY <1>1, Numbers DEF IInv, TypeOK, Event
<1>3. inflight' \in Seq(Event) /\ ToSet(inflight') = ToSet(inflight) \union {held}
  BY <1>1, <1>2, AppendFacts
<1>4. TypeOK'
  <2>1. held' \in 0 .. MaxEvents
    BY <1>1, Numbers
  <2> QED BY <1>3, <2>1 DEF IInv, TypeOK, Forward, salesforce, receiver, process
<1>5. AtTable' = AtTable
  BY <1>1 DEF AtTable
<1>6. InOrder(inflight', AtTable')
  BY <1>1, <1>2, <1>5, InOrderAppend DEF IInv, StagesInOrder, AtServer
<1>7. AtServer' = AtForwarder /\ AtForwarder \subseteq AtForwarder'
  BY <1>3, <1>5 DEF AtServer, AtForwarder
<1>8. InOrder(eventCh', AtForwarder')
  BY <1>1, <1>7, InOrderMonotone DEF IInv, StagesInOrder
<1>9. AtChannel \subseteq AtChannel'
  BY <1>1, <1>7 DEF AtChannel
<1>10. InOrder(rows', lost')
  BY <1>1 DEF IInv, StagesInOrder
<1> QED BY <1>1, <1>4, <1>6, <1>8, <1>9, <1>10, MovedOn

(* A stream that is closed: its oldest records are rows, the rest was      *)
(* given up.                                                               *)
LEMMA CloseStreamFacts ==
  ASSUME IInv, CloseStream
  PROVE  /\ rows' \in Seq(Event) /\ lost' \subseteq Event
         /\ InOrder(rows', lost') /\ AtTable' = AtServer
<1>1. PICK n \in 0 .. Len(inflight) :
        /\ rows' = rows \o SubSeq(inflight, 1, n)
        /\ lost' = lost \union ToSet(SubSeq(inflight, n + 1, Len(inflight)))
  BY DEF CloseStream
<1>2. /\ rows \in Seq(Event) /\ inflight \in Seq(Event) /\ lost \subseteq Event
      /\ InOrder(rows, lost) /\ InOrder(inflight, lost \union ToSet(rows))
  BY DEF IInv, TypeOK, StagesInOrder, AtTable
<1>3. /\ rows' \in Seq(Event) /\ InOrder(rows', lost)
      /\ ToSet(rows') = ToSet(rows) \union ToSet(SubSeq(inflight, 1, n))
      /\ ToSet(SubSeq(inflight, n + 1, Len(inflight))) \subseteq Event
      /\ ToSet(inflight) = ToSet(SubSeq(inflight, 1, n))
                           \union ToSet(SubSeq(inflight, n + 1, Len(inflight)))
  BY <1>1, <1>2, InOrderCut
<1>4. InOrder(rows', lost')
  BY <1>1, <1>3, InOrderMonotone
<1>5. AtTable' = AtServer
  BY <1>1, <1>3 DEF AtTable, AtServer
<1> QED BY <1>1, <1>2, <1>3, <1>4, <1>5

LEMMA ForwardRecreatesSafe ==
  ASSUME IInv, ForwardRecreates
  PROVE  IInv'
<1>1. /\ held # 0 /\ CloseStream /\ held' = 0 /\ inflight' = <<held>> /\ Fault
      /\ UNCHANGED <<eventCh, cursor, last, replay, batch, seen>>
  BY DEF ForwardRecreates, salesforce, receiver
<1>2. held \in Event
  BY <1>1, Numbers DEF IInv, TypeOK, Event
<1>3. /\ rows' \in Seq(Event) /\ lost' \subseteq Event
      /\ InOrder(rows', lost') /\ AtTable' = AtServer
  BY <1>1, CloseStreamFacts
<1>4. inflight' \in Seq(Event) /\ ToSet(inflight') = {held}
      /\ Len(inflight') = 1 /\ inflight'[1] = held
  <2>1. <<held>> \in Seq(Event) /\ Len(<<held>>) = 1 /\ <<held>>[1] = held
    BY <1>2
  <2>2. \A x : x \in ToSet(inflight') <=> \E i \in 1 .. 1 : inflight'[i] = x
    <3>1. PICK s \in Seq(Event) : s = inflight'
      BY <1>1, <2>1
    <3>2. \A x : x \in ToSet(s) <=> \E i \in 1 .. Len(s) : s[i] = x
      BY SeqFacts
    <3> QED BY <1>1, <2>1, <3>1, <3>2
  <2> QED BY <1>1, <2>1, <2>2
<1>5. TypeOK'
  <2>1. held' \in 0 .. MaxEvents /\ faults' \in 0 .. MaxFaults
    BY <1>1, FaultsBounded, Numbers DEF IInv
  <2> QED BY <1>3, <1>4, <2>1
          DEF IInv, TypeOK, ForwardRecreates, salesforce, receiver, process
<1>6. InOrder(inflight', AtTable')
  <2>1. \A e \in Event : e < held => e \in AtServer
    BY <1>1 DEF IInv, StagesInOrder
  <2> QED BY <1>3, <1>4, <2>1 DEF InOrder
<1>7. AtServer' = AtForwarder /\ AtForwarder \subseteq AtForwarder'
  BY <1>3, <1>4 DEF AtServer, AtForwarder
<1>8. InOrder(eventCh', AtForwarder')
  BY <1>1, <1>7, InOrderMonotone DEF IInv, StagesInOrder
<1>9. AtChannel \subseteq AtChannel'
  BY <1>1, <1>7 DEF AtChannel
<1> QED BY <1>1, <1>3, <1>5, <1>6, <1>8, <1>9, MovedOn

LEMMA ForwardFailsSafe ==
  ASSUME IInv, ForwardFails
  PROVE  IInv'
<1>1. /\ CloseStream /\ inflight' = <<>> /\ Fault
      /\ UNCHANGED <<held, eventCh, cursor, last, replay, batch, seen>>
  BY DEF ForwardFails, salesforce, receiver
<1>2. /\ rows' \in Seq(Event) /\ lost' \subseteq Event
      /\ InOrder(rows', lost') /\ AtTable' = AtServer
  BY <1>1, CloseStreamFacts
<1>3. inflight' \in Seq(Event) /\ ToSet(inflight') = {} /\ InOrder(inflight', AtTable')
  BY <1>1, EmptyFacts
<1>4. TypeOK'
  <2>1. faults' \in 0 .. MaxFaults
    BY <1>1, FaultsBounded DEF IInv
  <2> QED BY <1>2, <1>3, <2>1
          DEF IInv, TypeOK, ForwardFails, salesforce, receiver, process
<1>5. AtServer' = AtServer /\ AtForwarder' = AtForwarder /\ AtChannel' = AtChannel
  BY <1>1, <1>2, <1>3 DEF AtServer, AtForwarder, AtChannel
<1>6. InOrder(eventCh', AtForwarder')
      /\ (held' # 0 => \A e \in Event : e < held' => e \in AtServer')
  BY <1>1, <1>5 DEF IInv, StagesInOrder
<1> QED BY <1>1, <1>2, <1>3, <1>4, <1>5, <1>6, MovedOn

LEMMA DurableSafe ==
  ASSUME IInv, Durable
  PROVE  IInv'
<1>1. /\ inflight # <<>> /\ rows' = Append(rows, Head(inflight)) /\ inflight' = Tail(inflight)
      /\ UNCHANGED <<held, eventCh, lost, cursor, last, replay, batch, seen>>
  BY DEF Durable, salesforce, receiver, forwarder
<1>2. inflight \in Seq(Event) /\ rows \in Seq(Event)
  BY DEF IInv, TypeOK
<1>3. /\ Head(inflight) \in Event /\ inflight' \in Seq(Event)
      /\ ToSet(inflight) = {Head(inflight)} \union ToSet(inflight')
  BY <1>1, <1>2, TailFacts
<1>4. rows' \in Seq(Event) /\ ToSet(rows') = ToSet(rows) \union {Head(inflight)}
  BY <1>1, <1>2, <1>3, AppendFacts
<1>5. TypeOK'
  BY <1>3, <1>4 DEF IInv, TypeOK, Durable, salesforce, receiver, forwarder, process
<1>6. /\ InOrder(inflight', AtTable \union {Head(inflight)})
      /\ \A e \in Event : e < Head(inflight) => e \in AtTable
  BY <1>1, <1>2, InOrderTail DEF IInv, StagesInOrder
<1>7. InOrder(rows', lost')
  BY <1>1, <1>2, <1>3, <1>6, InOrderAppend DEF IInv, StagesInOrder, AtTable
<1>8. AtTable' = AtTable \union {Head(inflight)}
  BY <1>1, <1>4 DEF AtTable
<1>9. AtServer' = AtServer /\ AtForwarder' = AtForwarder /\ AtChannel' = AtChannel
  BY <1>1, <1>3, <1>8 DEF AtServer, AtForwarder, AtChannel
<1>10. InOrder(eventCh', AtForwarder')
       /\ (held' # 0 => \A e \in Event : e < held' => e \in AtServer')
  BY <1>1, <1>9 DEF IInv, StagesInOrder
<1>11. InOrder(inflight', AtTable')
  BY <1>6, <1>8
<1> QED BY <1>1, <1>5, <1>7, <1>9, <1>10, <1>11, MovedOn
-----------------------------------------------------------------------------
LEMMA InvariantInit == Init => IInv
<1> SUFFICES ASSUME Init PROVE IInv
  OBVIOUS
<1>1. TypeOK
  <2>1. <<>> \in Seq(Event) /\ Len(<<>>) = 0 /\ 0 \in 0 .. MaxEvents /\ 0 \in 0 .. MaxWant
        /\ 0 <= EventChannelSize /\ 0 <= CacheSize /\ 0 \in 0 .. MaxFaults /\ 0 \in 0 .. MaxStarts
    BY Numbers
  <2>2. published \in 0 .. MaxEvents
    BY Numbers DEF Init
  <2> QED BY <2>1, <2>2 DEF Init, TypeOK
<1>2. StagesInOrder
  BY EmptyFacts DEF Init, StagesInOrder
<1>3. ResumesInTime
  <2>1. \A e \in Event : ~(e <= 0)
    BY Numbers DEF Event
  <2>2. replay.id = 0
    BY DEF Init, Latest
  <2> QED BY <2>1, <2>2, EmptyFacts DEF Init, ResumesInTime
<1> QED BY <1>1, <1>2, <1>3 DEF IInv

LEMMA InvariantStep == IInv /\ [Next]_vars => IInv'
<1> SUFFICES ASSUME IInv, [Next]_vars PROVE IInv'
  OBVIOUS
<1>1. CASE Next
  <2>1. CASE Crash \/ Finish
    BY <2>1, GoneSafe DEF Crash, Finish
  <2> QED BY <1>1, <2>1, StartSafe, SubscriberSafe, KeepaliveSafe, ReceiveFailsSafe, OpenSafe,
             ReceiveSafe, ReceiverSafe, TakeSafe, ForwardSafe, ForwardRecreatesSafe,
             ForwardFailsSafe, DurableSafe DEF Next
<1>2. CASE UNCHANGED vars
  <2>1. TypeOK'
    BY <1>2 DEF IInv, TypeOK, vars, salesforce, zerobus, receiver, forwarder, process
  <2> QED BY <1>2, <2>1, QuietSafe DEF vars, salesforce, zerobus, receiver, forwarder
<1> QED BY <1>1, <1>2

(* The stages hold the events in order, and every place a stream may go on *)
(* from is behind what was received, at every moment of every run.         *)
THEOREM PipelineInvariant == Spec => []IInv
<1> QED BY InvariantInit, InvariantStep, PTL DEF Spec

LEMMA InvariantIsSound == IInv => PipelineSound
<1> SUFFICES ASSUME IInv, NEW e \in Event, NEW f \in Event, e < f, f \in ToSet(rows)
             PROVE  e \in Underway \union lost
  BY DEF IInv, PipelineSound, Gapless
<1>1. rows \in Seq(Event)
  BY DEF IInv, TypeOK
<1>2. PICK i \in 1 .. Len(rows) : rows[i] = f
  BY <1>1, SeqFacts
<1>3. e \in lost \/ \E j \in 1 .. i - 1 : rows[j] = e
  BY <1>2 DEF IInv, StagesInOrder, InOrder
<1>4. \A j \in 1 .. i - 1 : j \in 1 .. Len(rows)
  BY <1>1
<1>5. e \in lost \/ e \in ToSet(rows)
  BY <1>1, <1>3, <1>4, SeqFacts
<1> QED BY <1>5 DEF Underway

(* There is no hole in the table: whatever breaks, is sent twice or is     *)
(* started again, an event older than a row is a row itself, on its way,   *)
(* or was given up where the code does.                                    *)
THEOREM PipelineCorrect == Spec => []PipelineSound
<1> QED BY PipelineInvariant, InvariantIsSound, PTL
==============================================================================
