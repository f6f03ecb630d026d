------------------------------- MODULE Delivery -------------------------------
(***************************************************************************)
(* What a record passes on its way to a table, in one model: the lifecycle *)
(* of a protocol client, the compression of readings, the batch processors,*)
(* and the ZeroBusClient of one of them; and the other producer of the     *)
(* repository that runs for hours, the fleet of the benchmark.  They keep  *)
(* state of their own and rely on each other by contract only, so each     *)
(* behaviour follows one of them, the "part".                              *)
(***************************************************************************)
EXTENDS NumericCompression, BatchPipeline, ClientLifecycle, NeowiseFleet

CONSTANTS
  Callers, Sent, Malformed, MaxBatch, MaxRetries, MaxCancels,  \* of ZeroBusClient
  FailureThreshold, TimeoutTicks, HalfOpenMaxCalls

VARIABLES
  part,
  cb, stream, c_up, c_pc, attempt, c_batch, pos, landed, result, cancels, trials

senderVars == <<cb, stream, c_up, c_pc, attempt, c_batch, pos, landed, result, cancels, trials>>
delivery == <<part, vars, senderVars, pipelineVars, lifecycleVars, fleetVars>>

C == INSTANCE ZeroBusClient WITH
       up <- c_up, pc <- c_pc, batch <- c_batch, Records <- Sent, Rejectable <- Malformed

DeliveryAssumption ==
  PipelineAssumption /\ LifecycleAssumption /\ FleetAssumption /\ C!ClientAssumption /\ C!BreakerAssumption

ASSUME DeliveryAssumption

(* The parts that are not followed stay in one initial state. *)
DeliveryInit ==
  /\ part \in {"compression", "sender", "pipeline", "lifecycle", "fleet"}
  /\ Init /\ C!Init /\ PipelineInit /\ LifecycleInit /\ FleetInit
  /\ part # "compression" => policy = CHOOSE p \in Policies : TRUE
  /\ part # "sender" => stream = "none"
  /\ part # "pipeline" => \A t \in Targets : proc[t] = "none"
  /\ part # "lifecycle" => up /\ protocol = CHOOSE p \in Protocols : TRUE

InCompression(act) ==
  part = "compression" /\ act /\ UNCHANGED <<part, senderVars, pipelineVars, lifecycleVars, fleetVars>>
InSender(act) ==
  part = "sender" /\ act /\ UNCHANGED <<part, vars, pipelineVars, lifecycleVars, fleetVars>>
InPipeline(act) ==
  part = "pipeline" /\ act /\ UNCHANGED <<part, vars, senderVars, lifecycleVars, fleetVars>>
InLifecycle(act) ==
  part = "lifecycle" /\ act /\ UNCHANGED <<part, vars, senderVars, pipelineVars, fleetVars>>
InFleet(act) ==
  part = "fleet" /\ act /\ UNCHANGED <<part, vars, senderVars, pipelineVars, lifecycleVars>>

DeliveryNext ==
  \/ \E t \in 0 .. Horizon, v \in Values : InCompression(Apply(t, v))
  \/ \E c \in Callers :
       \/ \E b \in C!Batches : InSender(C!Call(c, b))
       \/ InSender(C!Connect(c)) \/ InSender(C!ConnectFails(c)) \/ InSender(C!Ingest(c))
       \/ InSender(C!IngestFails(c)) \/ InSender(C!IngestOnClosedStream(c))
       \/ InSender(C!StreamDropped(c)) \/ InSender(C!Retry(c)) \/ InSender(C!Cancel(c))
  \/ InSender(C!Close) \/ InSender(C!Outage) \/ InSender(C!Restore)
  \/ InSender(C!ServerCloses) \/ InSender(C!Tick)
  \/ \E r \in Records : InPipeline(Arrive(r)) \/ InPipeline(Discard(r))
  \/ \E t \in Targets :
       \/ \E r \in Records : InPipeline(Dequeue(t, r)) \/ InPipeline(ConvertFails(t, r))
       \/ InPipeline(DequeueNothing(t)) \/ InPipeline(SendPart(t)) \/ InPipeline(SendTrue(t))
       \/ InPipeline(SendFalse(t)) \/ InPipeline(FinalSendFalse(t))
       \/ InPipeline(WakeUp(t)) \/ InPipeline(LeaveLoop(t))
  \/ InPipeline(StopFlag) \/ InPipeline(StopCancel)
  \/ InPipeline(StopZeroBus) \/ InPipeline(StartZeroBus)
  \/ InLifecycle(Connected) \/ InLifecycle(ConnectFails) \/ InLifecycle(SetUp)
  \/ InLifecycle(StopSeen) \/ InLifecycle(PollReads) \/ InLifecycle(PollReadsNothing)
  \/ InLifecycle(MessagesEnd) \/ InLifecycle(HoldEnds) \/ InLifecycle(Closed)
  \/ InLifecycle(CleanedUp) \/ InLifecycle(Reconnect)
  \/ InLifecycle(StopBridge) \/ InLifecycle(StopDisconnected) \/ InLifecycle(StopJoined)
  \/ InLifecycle(GoesDown) \/ InLifecycle(ComesUp)
  \/ \E w \in Worker :
       \/ InFleet(Start(w)) \/ InFleet(CreateStreams(w)) \/ InFleet(NextYear(w))
       \/ InFleet(OpenFile(w)) \/ InFleet(LoadBatch(w)) \/ InFleet(NeedBatch(w))
       \/ InFleet(IngestRow(w)) \/ InFleet(CloseStream(w)) \/ InFleet(Respawn(w))
       \/ InFleet(Stop(w))
       \/ \E i \in Stream : InFleet(Acknowledge(w, i)) \/ InFleet(StreamFails(w, i))

(* The fairness that each module states.  As a behaviour follows one part, *)
(* what the parts ask of different steps can be asked of their disjunction,*)
(* and so can what a part asks of steps that exclude each other.           *)
Processing(t) ==
  WakeUp(t) \/ LeaveLoop(t) \/ SendTrue(t) \/ SendFalse(t) \/ FinalSendFalse(t)

DeliveryFairness ==
  /\ \A c \in Callers : WF_delivery(InSender(C!Proceed(c) \/ \E b \in C!Batches : C!Call(c, b)))
  /\ WF_delivery(InSender(C!Tick) \/ InLifecycle(Lifecycle))
  /\ WF_delivery(InLifecycle(Stopper))
  /\ \A t \in Targets :
       /\ WF_delivery(InPipeline(Processing(t)))
       /\ WF_delivery(InPipeline(\E r \in Records : Dequeue(t, r)))
       /\ WF_delivery(InPipeline(Flush(t)))
       /\ SF_delivery(InPipeline(SendTrue(t)))

DeliverySpec == DeliveryInit /\ [][DeliveryNext]_delivery /\ DeliveryFairness
-----------------------------------------------------------------------------
(* Every part keeps what it promises. *)
DeliverySound ==
  /\ AnchorIsSent /\ SilenceIsBounded /\ ReceiverIsClose
  /\ PipelineSound /\ LifecycleSound /\ FleetSound

(* Every send_batch returns, and a service that stays up gets its circuit  *)
(* closed for good.                                                        *)
SenderRecovers == C!CallReturns /\ C!BreakerRecovers

(* A client does not collect over a dead connection for ever, and stop()   *)
(* comes to its end.                                                       *)
ClientsNoticeAndStop == DeadConnectionNoticed /\ StopCompletes
=============================================================================
