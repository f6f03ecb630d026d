-------------------------------- MODULE Field ---------------------------------
(***************************************************************************)
(* The collectors and simulators around the bridge, in one model: the      *)
(* regatta and its weather station, the OPC-UA relay and the direct OPC-UA *)
(* client, the tags a protocol client reads, and discovery. They share no  *)
(* state, so each behaviour follows one of them, the "part".               *)
(***************************************************************************)
EXTENDS Regatta, Discovery, Integers

CONSTANTS
  Circle, Base, Variation, MinSpeed, MaxSpeed, SpeedRate,     \* of Weather
  DirectionRate, Shifts, SpeedChanges, GustIncreases, GustDuration, Stability,
  SpeedThreshold, DirectionThreshold, TokenLife,
  RelayLines, RelayPolls, RelayBatch, MaxRetries, RelayFaults, \* of OpcuaRelay
  DirectLines, DirectPolls, DirectBatch, DirectFaults,        \* of OpcuaDirect
  TagSources, TagValues, Nothing, TagBatch, TagChanges,       \* of TagStream
  TagFaults, Lower, Matches

VARIABLES
  part,
  speed, direction, event, inState, target, gust, posted, table, token, due,
  poller, r_backup, queue, unacked, agent, r_durable, r_unread, r_polled, r_lost, expired,
  r_faults,
  client, d_backup, d_durable, d_polled, d_lost, d_unread, d_faults,
  source, enabled, plant, notified, position, answers, last, got, named, filed, t_changes,
  t_faults

windVars == <<speed, direction, event, inState, target, gust, posted, table, token, due>>
relayVars ==
  <<poller, r_backup, queue, unacked, agent, r_durable, r_unread, r_polled, r_lost,
    expired, r_faults>>
directVars == <<client, d_backup, d_durable, d_polled, d_lost, d_unread, d_faults>>
tagVars ==
  <<source, enabled, plant, notified, position, answers, last, got, named, filed,
    t_changes, t_faults>>
field == <<part, regattaVars, windVars, relayVars, directVars, tagVars, discoveryVars>>

W == INSTANCE Weather
R == INSTANCE OpcuaRelay WITH
       backup <- r_backup, durable <- r_durable, unread <- r_unread,
       polled <- r_polled, lost <- r_lost, faults <- r_faults,
       Lines <- RelayLines, MaxPolls <- RelayPolls, BatchSize <- RelayBatch,
       MaxFaults <- RelayFaults
D == INSTANCE OpcuaDirect WITH
       backup <- d_backup, durable <- d_durable, polled <- d_polled, lost <- d_lost,
       unread <- d_unread, faults <- d_faults,
       Lines <- DirectLines, MaxPolls <- DirectPolls, BatchSize <- DirectBatch,
       MaxFaults <- DirectFaults
T == INSTANCE TagStream WITH
       changes <- t_changes, faults <- t_faults,
       Sources <- TagSources, Values <- TagValues, BatchSize <- TagBatch,
       MaxChanges <- TagChanges, MaxFaults <- TagFaults

FieldAssumption ==
  /\ RegattaAssumption /\ DiscoveryAssumption
  /\ W!WeatherAssumption /\ R!RelayAssumption /\ D!DirectAssumption
  /\ T!StreamAssumption

ASSUME FieldAssumption

(* The parts that are not followed stay in one initial state.              *)
FieldInit ==
  /\ part \in {"regatta", "weather", "relay", "direct", "tags", "discovery"}
  /\ Init /\ W!Init /\ R!Init /\ D!Init /\ T!Init /\ DiscoveryInit
  /\ part # "weather" => direction = Base
  /\ part # "tags" => /\ source = CHOOSE s \in TagSources : TRUE
                      /\ enabled
                      /\ plant = [i \in T!Items |-> CHOOSE v \in TagValues : TRUE]
  /\ part # "discovery" => up = [e \in Endpoints |-> "reachable"]

Race(act) ==
  /\ part = "regatta" /\ act
  /\ UNCHANGED <<part, windVars, relayVars, directVars, tagVars, discoveryVars>>
Wind(act) ==
  /\ part = "weather" /\ act
  /\ UNCHANGED <<part, regattaVars, relayVars, directVars, tagVars, discoveryVars>>
Relay(act) ==
  /\ part = "relay" /\ act
  /\ UNCHANGED <<part, regattaVars, windVars, directVars, tagVars, discoveryVars>>
Direct(act) ==
  /\ part = "direct" /\ act
  /\ UNCHANGED <<part, regattaVars, windVars, relayVars, tagVars, discoveryVars>>
Tags(act) ==
  /\ part = "tags" /\ act
  /\ UNCHANGED <<part, regattaVars, windVars, relayVars, directVars, discoveryVars>>
Scanner(act) ==
  /\ part = "discovery" /\ act
  /\ UNCHANGED <<part, regattaVars, windVars, relayVars, directVars, tagVars>>

FieldNext ==
  \/ Race(Step)
  \/ \E b \in Boats : Race(SendTelemetry(b))
  \/ Race(SendFails) \/ Race(Sleep) \/ Race(EndRace)
  \/ Wind(W!Stays)
  \/ \E p \in W!Passages, d \in W!EitherWay(Shifts), s \in W!EitherWay(SpeedChanges) :
       Wind(W!StartShift(p, d, s))
  \/ \E i \in GustIncreases : Wind(W!StartSuddenGust(i))
  \/ \/ Wind(W!UpdateTransition) \/ Wind(W!UpdateGust)
  \/ Wind(W!NothingToEmit) \/ Wind(W!Posts) \/ Wind(W!PostFails)
  \/ Relay(R!PollLines) \/ Relay(R!Connect) \/ Relay(R!ConnectFails)
  \/ Relay(R!DrainNext) \/ Relay(R!DrainFails) \/ Relay(R!DrainEnds)
  \/ Relay(R!DrainUnreadable) \/ Relay(R!PublishNext) \/ Relay(R!PublishFails)
  \/ Relay(R!PublishRaises) \/ Relay(R!PublishEnds) \/ Relay(R!PollerStops)
  \/ Relay(R!PollerStarts) \/ Relay(R!Get) \/ Relay(R!BatchDrained)
  \/ Relay(R!IngestBatch) \/ Relay(R!IngestFails) \/ Relay(R!Ack) \/ Relay(R!Nack)
  \/ Relay(R!ConnectionLost) \/ Relay(R!Reconnect) \/ Relay(R!AgentStops)
  \/ Relay(R!AgentStarts) \/ Relay(R!Expire)
  \/ Direct(D!PollLines) \/ Direct(D!DrainBackup) \/ Direct(D!Truncate)
  \/ Direct(D!DrainUnreadable) \/ Direct(D!DrainFails) \/ Direct(D!IngestBatch)
  \/ Direct(D!IngestFails) \/ Direct(D!IngestRaises) \/ Direct(D!Stop)
  \/ Direct(D!Start)
  \/ \E i \in T!Items, v \in TagValues : Tags(T!Change(i, v))
  \/ \E i \in T!Items : Tags(T!Garble(i))
  \/ \E i \in T!Items : Tags(T!ReadOne(i))
  \/ Tags(T!HandleMessage) \/ Tags(T!OnDataChange) \/ Tags(T!PollRegister)
  \/ Tags(T!BatchRead) \/ Tags(T!IntervalEnds)
  \/ Scanner(Start)
  \/ \E s \in Triggered : Scanner(TriggerDiscoveryScan(s))
  \/ \E s \in Scans, p \in Protocols : Scanner(Probe(s, p))
  \/ \E s \in Scans, p \in Protocols : Scanner(CacheBatch(s, p))
  \/ \E s \in Scans : Scanner(ScanEnds(s))
  \/ \E e \in Endpoints : Scanner(Change(e))
  \/ Scanner(IntervalEnds) \/ Scanner(Stop)

(* Loops and processes go on.  The parts share no state, so one fairness   *)
(* condition stands for one process of each of them.                       *)
ScanGoesOn(s) ==
  Scanner(ScanEnds(s) \/ \E p \in Protocols : Probe(s, p) \/ CacheBatch(s, p))
FirstProcess ==
  \/ Race(Step \/ Sleep \/ \E b \in Boats : SendTelemetry(b)) \/ Wind(W!Next)
  \/ Relay(R!PollerStep) \/ Tags(T!Client)
  \/ Direct(D!PollLines \/ D!DrainBackup \/ D!Truncate \/ D!IngestBatch \/ D!Start)
  \/ ScanGoesOn(Loop) \/ Scanner(IntervalEnds)
SecondProcess == Relay(R!Get) \/ \E s \in Triggered : ScanGoesOn(s)
ThirdProcess == Relay(R!AgentStep)

(* A request that is tried again and again succeeds in the end, and a      *)
(* batch of records gets old enough to be sent.                            *)
Succeeds == Wind(W!Posts) \/ Direct(D!PollLines /\ client'.at # "polling")

FieldSpec ==
  /\ FieldInit /\ [][FieldNext]_field
  /\ WF_field(FirstProcess) /\ WF_field(SecondProcess) /\ WF_field(ThirdProcess)
  /\ SF_field(Succeeds)
-----------------------------------------------------------------------------
(* The race is decided by the boats' ways, the wind stays in its band, no  *)
(* record vanishes between the poll and ZeroBus, the filter remembers what *)
(* the receiver has of a variable that has its path for itself.            *)
FieldSound ==
  /\ RegattaSound /\ W!WeatherSound /\ R!RelaySound /\ D!DirectSound
  /\ T!StreamSound /\ DiscoveryTypeOK

(* Crews get over a shift of the wind, and shifts and gusts end.           *)
ManoeuvresEnd == CrewAdapts /\ (part = "weather" => W!EventsEnd)

(* Records in a backup file or in the broker reach ZeroBus, with the relay *)
(* and with the direct client.                                             *)
BackupsEmpty == R!RecordsArrive /\ D!BackupDrains

(* The table catches up with the plant, and the cache of servers with the  *)
(* network.                                                                *)
ViewsCatchUp == T!ReceiverCatchesUp /\ CacheCatchesUp

(* "Generate unique tag ID": variables that a client's normalizer keeps    *)
(* apart are kept apart by the bridge.                                     *)
TagsStayApart == T!TagsStayApart
===============================================================================
