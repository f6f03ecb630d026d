--------------------------- MODULE Delivery_proofs ---------------------------
(***************************************************************************)
(* Proofs about the parts of Delivery, and about all of them in it:        *)
(*   - the batch processors account for every record they take, for every  *)
(*     set of records and targets, every batch size and number of stops;   *)
(*   - stop() leaves no connection open, for every kind of client, every   *)
(*     limit of the backoff and every number of empty polls;               *)
(*   - the receiver of a compressed tag stays near it, for every policy,   *)
(*     every deviation and every sequence of samples, and a door that      *)
(*     closes leaves no sample off the line by twice the deviation;        *)
(*   - the fleet of the benchmark sends each row once and passes over none *)
(*     it could read, for every number of workers up to the stride, every  *)
(*     list of files, every batch size and number of streams, and every    *)
(*     order of failures, stops and restarts.                              *)
(***************************************************************************)
EXTENDS Delivery, SequenceTheorems, TLAPS

-----------------------------------------------------------------------------
(* BatchPipeline                                                           *)

(* A batch with one more record. *)
LEMMA AppendElems ==
  ASSUME NEW s \in Seq(Records), NEW r \in Records
  PROVE  /\ Append(s, r) \in Seq(Records) /\ Append(s, r) # << >>
         /\ Elems(Append(s, r)) = Elems(s) \union {r}
<1>1. DOMAIN s = 1 .. Len(s) /\ Len(s) \in Nat
  OBVIOUS
<1>2. DOMAIN Append(s, r) = 1 .. Len(s) + 1
  OBVIOUS
<1>3. /\ Append(s, r) \in Seq(Records) /\ Append(s, r) # << >>
      /\ \A i \in 1 .. Len(s) : Append(s, r)[i] = s[i]
      /\ Append(s, r)[Len(s) + 1] = r
  BY AppendProperties
<1> QED BY <1>1, <1>2, <1>3 DEF Elems

(* The records of a batch are records, and an empty one has none. *)
LEMMA ElemsType ==
  /\ \A s \in Seq(Records) : Elems(s) \subseteq Records
  /\ Elems(<< >>) = {}
BY DEF Elems

(* A step accounts for what the buffer hands out when it accounts for what *)
(* is new there and for what leaves a batch, and forgets nothing that was  *)
(* stored or dropped.                                                      *)
LEMMA AccountIsKept ==
  ASSUME TakenIsAccountedFor,
         stored \subseteq stored', dropped \subseteq dropped',
         \A r \in Records : fate'[r] = "taken" /\ fate[r] # "taken" =>
            r \in Batched' \union dropped',
         \A t \in Targets : \A r \in Elems(batch[t]) :
            r \in Batched' \union dropped' \/ \E u \in Targets : <<r, u>> \in stored'
  PROVE  TakenIsAccountedFor'
<1> SUFFICES ASSUME NEW r \in Records, fate'[r] = "taken"
             PROVE  r \in Batched' \union dropped' \/ \E t \in Targets : <<r, t>> \in stored'
  BY DEF TakenIsAccountedFor
<1>1. CASE fate[r] = "taken"
  <2>1. r \in Batched \/ r \in dropped \/ \E t \in Targets : <<r, t>> \in stored
    BY <1>1 DEF TakenIsAccountedFor
  <2>2. CASE r \in Batched
    <3>1. PICK t \in Targets : r \in Elems(batch[t])
      BY <2>2 DEF Batched
    <3> QED BY <3>1
  <2> QED BY <2>1, <2>2
<1> QED BY <1>1
-----------------------------------------------------------------------------
(* What the buffer does with a record keeps its type. *)
LEMMA BufferSteps ==
  ASSUME Buffer!TypeOK, NEW r \in Records
  PROVE  /\ Buffer!Arrive(r) => Buffer!TypeOK' /\ \A q \in Records : fate'[q] = "taken" => fate[q] = "taken"
         /\ Buffer!GiveUp({r}) => Buffer!TypeOK' /\ \A q \in Records : fate'[q] = "taken" => fate[q] = "taken"
         /\ Buffer!Take(r) => Buffer!TypeOK' /\ \A q \in Records \ {r} : fate'[q] = fate[q]
BY DEF Buffer!TypeOK, Buffer!Fates, Buffer!Arrive, Buffer!GiveUp, Buffer!Take

(* The decision at the end of an iteration: a processor sends what it has. *)
LEMMA Decision ==
  ASSUME NEW t \in Targets, NEW b \in Seq(Records),
         proc \in [Targets -> {"none", "loop", "send", "asleep", "final", "done"}],
         FlushOrLoop(t, b)
  PROVE  /\ proc' \in [Targets -> {"none", "loop", "send", "asleep", "final", "done"}]
         /\ \A u \in Targets \ {t} : proc'[u] = proc[u]
         /\ proc'[t] \in {"send", "final"} => b # << >>
BY DEF FlushOrLoop

(* Cancelling the processors empties their batches into what is dropped. *)
LEMMA CancelKeeps ==
  ASSUME PipelineTypeOK, TakenIsAccountedFor, NEW ends \in {"none", "done"},
         CancelAll(ends), UNCHANGED <<fate, stored, shutdown>>, stops' \in 0 .. MaxStops
  PROVE  PipelineSound'
<1>1. PipelineTypeOK'
  <2>1. Batched \subseteq Records
    BY ElemsType DEF PipelineTypeOK, Batched
  <2> QED BY <2>1 DEF PipelineTypeOK, CancelAll, Buffer!TypeOK
<1>2. TakenIsAccountedFor'
  <2>1. \A t \in Targets : \A r \in Elems(batch[t]) : r \in dropped'
    BY DEF CancelAll, Batched
  <2> QED BY <2>1, AccountIsKept DEF CancelAll
<1> QED BY <1>1, <1>2 DEF PipelineSound

(* Types and the account of what was handed out are one inductive          *)
(* invariant: a batch that is being sent is never empty because nothing    *)
(* but the end of the send empties it.                                     *)
THEOREM PipelineStep ==
  ASSUME PipelineAssumption
  PROVE  PipelineSound /\ [PipelineNext]_pipelineVars => PipelineSound'
<1> SUFFICES ASSUME PipelineTypeOK, TakenIsAccountedFor, [PipelineNext]_pipelineVars
             PROVE  PipelineSound'
  BY DEF PipelineSound
<1> USE DEF PipelineSound
<1>1. ASSUME NEW r \in Records, Arrive(r) \/ Discard(r)
      PROVE  PipelineSound'
  <2>1. PipelineTypeOK'
    BY <1>1, BufferSteps DEF PipelineTypeOK, Arrive, Discard
  <2>2. Batched' = Batched
    BY <1>1 DEF Arrive, Discard, Batched
  <2>3. TakenIsAccountedFor'
    <3>1. \A q \in Records : fate'[q] = "taken" => fate[q] = "taken"
      BY <1>1, BufferSteps DEF Arrive, Discard, PipelineTypeOK
    <3> QED BY <1>1, <2>2, <3>1, AccountIsKept DEF Arrive, Discard, Batched
  <2> QED BY <2>1, <2>3
<1>2. ASSUME NEW t \in Targets, NEW r \in Records, Dequeue(t, r)
      PROVE  PipelineSound'
  <2>1. /\ batch' = [batch EXCEPT ![t] = Append(batch[t], r)] /\ batch[t] \in Seq(Records)
        /\ batch' \in [Targets -> Seq(Records)]
        /\ \A u \in Targets : Elems(batch[u]) \subseteq Elems(batch'[u])
        /\ r \in Elems(batch'[t]) /\ batch'[t] \in Seq(Records)
    BY <1>2, AppendElems DEF PipelineTypeOK, Dequeue
  <2>2. PipelineTypeOK'
    BY <1>2, <2>1, BufferSteps, Decision DEF PipelineTypeOK, Dequeue
  <2>3. TakenIsAccountedFor'
    <3>1. Batched \union {r} \subseteq Batched'
      BY <2>1 DEF Batched
    <3>2. \A q \in Records \ {r} : fate'[q] = fate[q]
      BY <1>2, BufferSteps DEF Dequeue, PipelineTypeOK
    <3> QED BY <1>2, <3>1, <3>2, AccountIsKept DEF Dequeue, Batched
  <2> QED BY <2>2, <2>3
<1>3. ASSUME NEW t \in Targets, NEW r \in Records, ConvertFails(t, r)
      PROVE  PipelineSound'
  <2>1. PipelineTypeOK'
    BY <1>3, BufferSteps DEF PipelineTypeOK, ConvertFails
  <2>2. \A q \in Records \ {r} : fate'[q] = fate[q]
    BY <1>3, BufferSteps DEF ConvertFails, PipelineTypeOK
  <2>3. TakenIsAccountedFor'
    BY <1>3, <2>2, AccountIsKept DEF ConvertFails, Batched
  <2> QED BY <2>1, <2>3
<1>4. ASSUME NEW t \in Targets, DequeueNothing(t)
      PROVE  PipelineSound'
  <2>1. PipelineTypeOK'
    BY <1>4, Decision DEF PipelineTypeOK, DequeueNothing, Buffer!TypeOK
  <2>2. TakenIsAccountedFor'
    BY <1>4, AccountIsKept DEF DequeueNothing, Batched
  <2> QED BY <2>1, <2>2
<1>5. ASSUME NEW t \in Targets, SendPart(t)
      PROVE  PipelineSound'
  <2>1. PICK n \in 1 .. Len(batch[t]) - 1 : HandOver(t, n)
    BY <1>5 DEF SendPart
  <2>2. {<<batch[t][i], t>> : i \in 1 .. n} \subseteq Records \X Targets
    BY <2>1 DEF PipelineTypeOK
  <2>3. PipelineTypeOK'
    BY <1>5, <2>1, <2>2 DEF PipelineTypeOK, SendPart, HandOver, Buffer!TypeOK
  <2>4. TakenIsAccountedFor'
    BY <1>5, <2>1, AccountIsKept DEF SendPart, HandOver, Batched
  <2> QED BY <2>3, <2>4
<1>6. ASSUME NEW t \in Targets, SendTrue(t)
      PROVE  PipelineSound'
  <2>1. \A i \in 1 .. Len(batch[t]) : <<batch[t][i], t>> \in Records \X Targets
    BY DEF PipelineTypeOK
  <2>2. PipelineTypeOK'
    BY <1>6, <2>1 DEF PipelineTypeOK, SendTrue, HandOver, Buffer!TypeOK
  <2>3. \A u \in Targets : \A r \in Elems(batch[u]) : r \in Batched' \/ <<r, t>> \in stored'
    <3> SUFFICES ASSUME NEW u \in Targets, NEW r \in Elems(batch[u])
                 PROVE  r \in Batched' \/ <<r, t>> \in stored'
      OBVIOUS
    <3>1. CASE u = t
      <4>1. DOMAIN batch[t] = 1 .. Len(batch[t])
        BY DEF PipelineTypeOK
      <4> QED BY <1>6, <3>1, <4>1 DEF Elems, SendTrue, HandOver
    <3>2. CASE u # t
      <4>1. batch'[u] = batch[u]
        BY <1>6, <3>2 DEF SendTrue, PipelineTypeOK
      <4> QED BY <4>1 DEF Batched
    <3> QED BY <3>1, <3>2
  <2>4. TakenIsAccountedFor'
    BY <1>6, <2>3, AccountIsKept DEF SendTrue, HandOver
  <2> QED BY <2>2, <2>4
<1>7. ASSUME NEW t \in Targets, SendFalse(t) \/ WakeUp(t) \/ LeaveLoop(t)
      PROVE  PipelineSound'
  <2>1. PipelineTypeOK'
    BY <1>7 DEF PipelineTypeOK, SendFalse, WakeUp, LeaveLoop, Buffer!TypeOK
  <2>2. TakenIsAccountedFor'
    BY <1>7, AccountIsKept DEF SendFalse, WakeUp, LeaveLoop, Batched
  <2> QED BY <2>1, <2>2
<1>8. ASSUME NEW t \in Targets, FinalSendFalse(t)
      PROVE  PipelineSound'
  <2>1. PipelineTypeOK'
    BY <1>8, ElemsType DEF PipelineTypeOK, FinalSendFalse, Buffer!TypeOK
  <2>2. \A u \in Targets : \A r \in Elems(batch[u]) : r \in Batched' \union dropped'
    <3> SUFFICES ASSUME NEW u \in Targets, NEW r \in Elems(batch[u])
                 PROVE  r \in Batched' \union dropped'
      OBVIOUS
    <3>1. CASE u # t
      <4>1. batch'[u] = batch[u]
        BY <1>8, <3>1 DEF FinalSendFalse, PipelineTypeOK
      <4> QED BY <4>1 DEF Batched
    <3> QED BY <1>8, <3>1 DEF FinalSendFalse
  <2>3. TakenIsAccountedFor'
    BY <1>8, <2>2, AccountIsKept DEF FinalSendFalse
  <2> QED BY <2>1, <2>3
<1>9. CASE StopFlag
  <2>1. PipelineTypeOK'
    BY <1>9 DEF PipelineTypeOK, StopFlag, Buffer!TypeOK
  <2>2. TakenIsAccountedFor'
    BY <1>9, AccountIsKept DEF StopFlag, Batched
  <2> QED BY <2>1, <2>2
<1>10. CASE StopCancel
  BY <1>10, CancelKeeps DEF StopCancel, PipelineTypeOK
<1>11. CASE StopZeroBus
  BY <1>11, CancelKeeps, PipelineAssumption DEF StopZeroBus, PipelineTypeOK, PipelineAssumption
<1>12. CASE StartZeroBus
  <2>1. PipelineTypeOK'
    BY <1>12 DEF PipelineTypeOK, StartZeroBus, Buffer!TypeOK
  <2>2. TakenIsAccountedFor'
    BY <1>12, AccountIsKept DEF StartZeroBus, Batched
  <2> QED BY <2>1, <2>2
<1>13. CASE UNCHANGED pipelineVars
  <2>1. PipelineTypeOK'
    BY <1>13 DEF PipelineTypeOK, pipelineVars, Buffer!TypeOK
  <2>2. TakenIsAccountedFor'
    BY <1>13, AccountIsKept DEF pipelineVars, Batched
  <2> QED BY <2>1, <2>2
<1> QED BY <1>1, <1>2, <1>3, <1>4, <1>5, <1>6, <1>7, <1>8, <1>9, <1>10, <1>11, <1>12, <1>13
        DEF PipelineNext, Processor

(* What every step keeps holds throughout, whatever the fairness. *)
LEMMA PipelineRuns ==
  ASSUME PipelineAssumption
  PROVE  PipelineInit /\ [][PipelineNext]_pipelineVars => []PipelineSound
<1>1. PipelineInit => PipelineSound
  <2> SUFFICES ASSUME PipelineInit PROVE PipelineTypeOK /\ TakenIsAccountedFor
    BY DEF PipelineSound
  <2>1. Buffer!TypeOK /\ TakenIsAccountedFor
    BY DEF PipelineInit, TakenIsAccountedFor, Buffer!Init, Buffer!TypeOK, Buffer!Fates
  <2>2. /\ proc \in [Targets -> {"none", "loop", "send", "asleep", "final", "done"}]
        /\ \A t \in Targets : proc[t] \notin {"send", "final"}
    BY DEF PipelineInit
  <2>3. batch \in [Targets -> Seq(Records)] /\ stops \in 0 .. MaxStops
    BY PipelineAssumption DEF PipelineInit, PipelineAssumption
  <2> QED BY <2>1, <2>2, <2>3 DEF PipelineInit, PipelineTypeOK
<1>2. PipelineSound /\ [PipelineNext]_pipelineVars => PipelineSound'
  BY PipelineAssumption, PipelineStep
<1> QED BY <1>1, <1>2, PTL

(* No record the buffer handed out is forgotten: it is in a processor's    *)
(* batch, was handed to a service, or was dropped by a step that said so,  *)
(* however sends, stops and restarts of the delivery side interleave.      *)
THEOREM PipelineCorrect ==
  ASSUME PipelineAssumption
  PROVE  PipelineSpec => []PipelineSound
BY PipelineAssumption, PipelineRuns, PTL DEF PipelineSpec

-----------------------------------------------------------------------------
(* ClientLifecycle                                                         *)

(* A task that sleeps between two attempts, or has ended, has no live      *)
(* connection: only connect() makes one, and every way out of what follows *)
(* it closes the client or finds it dead.                                  *)
QuietIsDisconnected == pc \in {"backoff", "ended"} => client # "live"

(* stop() is done only after the task has ended, and an ended task stays   *)
(* ended.                                                                  *)
DoneIsEnded == stopper = "done" => pc = "ended"

(* A connect() without a client object is one that stop() was early for,   *)
(* and nothing else can leave a session behind.                            *)
StraysAreCaught ==
  /\ pc = "connect" => client \in {"none", "connecting"}
  /\ pc = "connect" /\ client = "none" => caught
  /\ stray => caught

LifecycleInv == LifecycleTypeOK /\ QuietIsDisconnected /\ DoneIsEnded /\ StraysAreCaught

Pcs == {"connect", "setup", "collect", "hold", "closing", "cleanup", "backoff", "ended"}
-----------------------------------------------------------------------------
(* The except block leaves a client that needs disconnect() to "cleanup",  *)
(* so what it lets go to sleep or end is not live.                         *)
LEMMA FailedIsQuiet ==
  ASSUME NEW held \in {"none", "connecting", "live", "dead"}, Failed(held),
         stopEvt \in BOOLEAN, shut \in BOOLEAN, HasStop \/ held # "live"
  PROVE  /\ pc' \in Pcs \ {"connect", "setup", "collect", "hold", "closing"}
         /\ client' = held /\ stopEvt' \in BOOLEAN
         /\ pc' \in {"backoff", "ended"} => client' # "live"
BY DEF Failed, EndOrBackOff, Pcs

(* An ended task has no step left, and every other step of the task keeps  *)
(* what a quiet task has.                                                  *)
LEMMA TaskStep ==
  ASSUME LifecycleAssumption, LifecycleInv, Lifecycle
  PROVE  /\ LifecycleTypeOK' /\ QuietIsDisconnected' /\ StraysAreCaught'
         /\ pc # "ended" /\ UNCHANGED <<stopper, shut>>
<1> USE DEF LifecycleTypeOK, QuietIsDisconnected, StraysAreCaught, sessionVars
<1>t. LifecycleTypeOK /\ QuietIsDisconnected /\ StraysAreCaught
  BY DEF LifecycleInv
<1>1. CASE Connected
  BY <1>1, <1>t, FailedIsQuiet DEF Connected, Pcs
<1>2. CASE ConnectFails
  BY <1>2, <1>t, FailedIsQuiet DEF ConnectFails, Pcs
<1>3. CASE SetUp
  <2>1. found' \in BOOLEAN /\ zero' \in 0 .. ZeroPolls - 1
    BY <1>3, <1>t, LifecycleAssumption DEF SetUp, LifecycleAssumption
  <2>2. CASE protocol = "opcua_poll" \/ client = "live"
    BY <1>3, <1>t, <2>1, <2>2 DEF SetUp
  <2>3. CASE ~(protocol = "opcua_poll" \/ client = "live")
    BY <1>3, <1>t, <2>1, <2>3, FailedIsQuiet DEF SetUp, Pcs
  <2> QED BY <2>2, <2>3
<1>4. CASE StopSeen
  BY <1>4, <1>t DEF StopSeen
<1>5. CASE PollReads
  BY <1>5, <1>t, LifecycleAssumption DEF PollReads, LifecycleAssumption
<1>6. CASE PollReadsNothing
  <2>1. CASE zero + 1 >= ZeroPolls
    BY <1>6, <1>t, <2>1, FailedIsQuiet DEF PollReadsNothing, HasStop, Pcs
  <2>2. CASE ~(zero + 1 >= ZeroPolls)
    BY <1>6, <1>t, <2>2, LifecycleAssumption DEF PollReadsNothing, LifecycleAssumption
  <2> QED BY <2>1, <2>2
<1>7. CASE MessagesEnd
  BY <1>7, <1>t, FailedIsQuiet DEF MessagesEnd, Pcs
<1>8. CASE HoldEnds
  BY <1>8, <1>t DEF HoldEnds
<1>9. CASE Closed
  BY <1>9, <1>t DEF Closed
<1>10. CASE CleanedUp
  BY <1>10, <1>t DEF CleanedUp, EndOrBackOff
<1>11. CASE Reconnect
  BY <1>11, <1>t, LifecycleAssumption DEF Reconnect, LoopHead, LifecycleAssumption
<1> QED BY <1>1, <1>2, <1>3, <1>4, <1>5, <1>6, <1>7, <1>8, <1>9, <1>10, <1>11
        DEF Lifecycle

(* The invariant holds at first and through every step of the lifecycle,   *)
(* of stop() and of the device.                                            *)
LEMMA LifecycleRuns ==
  ASSUME LifecycleAssumption
  PROVE  LifecycleInit /\ [][LifecycleNext]_lifecycleVars => []LifecycleInv
<1>1. LifecycleInit => LifecycleInv
  <2> SUFFICES ASSUME LifecycleInit
               PROVE LifecycleTypeOK /\ QuietIsDisconnected /\ DoneIsEnded /\ StraysAreCaught
    BY DEF LifecycleInv
  <2>1. 0 \in 0 .. ZeroPolls - 1 /\ 0 \in 0 .. DelayLevels
    BY LifecycleAssumption DEF LifecycleAssumption
  <2> QED BY <2>1 DEF LifecycleInit, LifecycleTypeOK, QuietIsDisconnected, DoneIsEnded,
                      StraysAreCaught
<1>2. LifecycleInv /\ [LifecycleNext]_lifecycleVars => LifecycleInv'
  <2> SUFFICES ASSUME LifecycleInv, [LifecycleNext]_lifecycleVars PROVE LifecycleInv'
    OBVIOUS
  <2> USE DEF LifecycleInv, LifecycleTypeOK, QuietIsDisconnected, DoneIsEnded, StraysAreCaught,
              sessionVars
  <2>1. CASE Lifecycle
    <3>1. LifecycleTypeOK' /\ QuietIsDisconnected' /\ StraysAreCaught' /\ pc # "ended" /\ UNCHANGED stopper
      BY <2>1, LifecycleAssumption, TaskStep
    <3> QED BY <3>1
  <2>2. CASE StopBridge
    BY <2>2 DEF StopBridge, HasStop
  <2>3. CASE StopDisconnected
    BY <2>3 DEF StopDisconnected
  <2>4. CASE StopJoined
    BY <2>4 DEF StopJoined
  <2>5. CASE GoesDown
    BY <2>5 DEF GoesDown
  <2>6. CASE ComesUp
    BY <2>6 DEF ComesUp
  <2>7. CASE UNCHANGED lifecycleVars
    BY <2>7 DEF lifecycleVars
  <2> QED BY <2>1, <2>2, <2>3, <2>4, <2>5, <2>6, <2>7 DEF LifecycleNext, Stopper
<1> QED BY <1>1, <1>2, PTL

THEOREM LifecycleInvariant ==
  ASSUME LifecycleAssumption
  PROVE  LifecycleSpec => []LifecycleInv
BY LifecycleAssumption, LifecycleRuns, PTL DEF LifecycleSpec

(* The invariant is more than what is promised. *)
LEMMA LifecycleIsSound == LifecycleInv => LifecycleSound
BY DEF LifecycleInv, QuietIsDisconnected, DoneIsEnded, StraysAreCaught, LifecycleSound,
       StoppedIsDisconnected, SessionsAreHeld

(* When stop() has returned no client object is connected, wherever        *)
(* connect(), the cleanup after a failure and stop()'s own disconnect()    *)
(* had met; and a session that no client object leads to is left by        *)
(* nothing but a connect() that stop() had taken the client from.          *)
THEOREM LifecycleCorrect ==
  ASSUME LifecycleAssumption
  PROVE  LifecycleSpec => []LifecycleSound
BY LifecycleAssumption, LifecycleInvariant, LifecycleIsSound, PTL
-----------------------------------------------------------------------------
(* NumericCompression                                                      *)

IntPoint == [t : Int, v : Int]
State == [initialized : BOOLEAN, anchor : IntPoint, prev : IntPoint,
          lower_slope : Int \X Int, upper_slope : Int \X Int, last_emit : Int]

Unnarrowed(s) == s.lower_slope = MinusInfinity /\ s.upper_slope = PlusInfinity

(* The door hangs on the point sent last, and no sample seen since is      *)
(* older; one that was seen at all is what keeps a fresh door from closing *)
(* on its own anchor.                                                      *)
DoorInv ==
  sdt.initialized =>
    /\ AnchorIsSent
    /\ sdt.prev # NoPoint
    /\ sent.t <= sdt.prev.t
    /\ sent.t = sdt.prev.t => Unnarrowed(sdt)

CompressionInv ==
  /\ policy \in Policies
  /\ sdt \in State
  /\ sent \in IntPoint
  /\ last \in Int /\ got = last
  /\ received \in Nat
  /\ DoorInv
  /\ ReceiverIsClose

------------------------------------------------------------------------------
(* What a policy consists of. *)
LEMMA PolicyType ==
  ASSUME policy \in Policies
  PROVE  Deviation \in Int /\ policy.deadband \in Int /\ MaxInterval \in Nat /\ MinInterval \in Nat
BY PolicyAssumption DEF PolicyAssumption, Policy, Deviation, MaxInterval, MinInterval

(* A sample is a point; the door of its own keeps its type. *)
LEMMA HungType ==
  ASSUME NEW p \in IntPoint
  PROVE  /\ Hung(p) \in State /\ Hung(p).initialized /\ Unnarrowed(Hung(p))
         /\ Hung(p).anchor = p /\ Hung(p).prev = p /\ Hung(p).last_emit = p.t
BY DEF Hung, State, IntPoint, Unnarrowed, MinusInfinity, PlusInfinity

(* Narrowing the door moves neither its anchor nor what time is measured   *)
(* from.                                                                   *)
LEMMA NarrowType ==
  ASSUME NEW s \in State, NEW p \in IntPoint, policy \in Policies
  PROVE  /\ Narrow(s, p) \in State
         /\ Narrow(s, p).initialized = s.initialized
         /\ Narrow(s, p).anchor = s.anchor /\ Narrow(s, p).prev = p
         /\ Narrow(s, p).last_emit = s.last_emit
         /\ Narrow(s, p).lower_slope = Steeper(s.lower_slope, Low(s, p))
         /\ Narrow(s, p).upper_slope = Flatter(s.upper_slope, High(s, p))
<1> DEFINE lo == Steeper(s.lower_slope, Low(s, p))
           hi == Flatter(s.upper_slope, High(s, p))
<1>1. Low(s, p) \in Int \X Int /\ High(s, p) \in Int \X Int
  BY PolicyType DEF Low, High, State, IntPoint
<1>2. lo \in Int \X Int /\ hi \in Int \X Int
  BY <1>1 DEF Steeper, Flatter, State
<1>3. Narrow(s, p) = [s EXCEPT !.prev = p, !.lower_slope = lo, !.upper_slope = hi]
  BY DEF Narrow, State
<1> HIDE DEF lo, hi
<1>4. /\ Narrow(s, p) \in State
      /\ Narrow(s, p).initialized = s.initialized
      /\ Narrow(s, p).anchor = s.anchor /\ Narrow(s, p).prev = p
      /\ Narrow(s, p).last_emit = s.last_emit
      /\ Narrow(s, p).lower_slope = lo /\ Narrow(s, p).upper_slope = hi
  BY <1>2, <1>3 DEF State
<1> QED BY <1>4 DEF lo, hi

(* A door that has taken in no sample does not close on the first one.     *)
LEMMA FreshDoorStaysOpen ==
  ASSUME NEW s \in State, NEW p \in IntPoint, policy \in Policies,
         Unnarrowed(s), p.t > s.anchor.t, Deviation > 0
  PROVE  ~Less(Narrow(s, p).upper_slope, Narrow(s, p).lower_slope)
<1> DEFINE x == p.v - s.anchor.v
           d == p.t - s.anchor.t
<1>1. x \in Int /\ d \in Int /\ d > 0 /\ Deviation \in Int
  BY PolicyType DEF State, IntPoint
<1>2. Low(s, p) = <<x - Deviation, d>> /\ High(s, p) = <<x + Deviation, d>>
  BY DEF Low, High
<1> HIDE DEF x, d
<1>3. Narrow(s, p).lower_slope = <<x - Deviation, d>>
  <2>1. Less(MinusInfinity, <<x - Deviation, d>>)
    BY <1>1 DEF Less, MinusInfinity
  <2> QED BY <1>2, <2>1, NarrowType DEF Unnarrowed, Steeper
<1>4. Narrow(s, p).upper_slope = <<x + Deviation, d>>
  <2>1. Less(<<x + Deviation, d>>, PlusInfinity)
    BY <1>1 DEF Less, PlusInfinity
  <2> QED BY <1>2, <2>1, NarrowType DEF Unnarrowed, Flatter
<1>5. ~((x + Deviation) * d < (x - Deviation) * d)
  <2>1. Deviation * d > 0
    BY <1>1
  <2>2. (x + Deviation) * d = x * d + Deviation * d
    BY <1>1
  <2>3. (x - Deviation) * d = x * d - Deviation * d
    BY <1>1
  <2>4. x * d \in Int /\ Deviation * d \in Int
    BY <1>1
  <2> QED BY <2>1, <2>2, <2>3, <2>4
<1> QED BY <1>3, <1>4, <1>5 DEF Less

(* What offer returns, by outcome. *)
LEMMA OfferCases ==
  ASSUME NEW p \in IntPoint, policy \in Policies, sdt \in State, sent \in IntPoint,
         DoorInv, Deviation > 0
  PROVE  LET out == Offer(sdt, p) IN
         /\ out.sdt \in State /\ out.sdt.initialized
         /\ \/ /\ out.outcome \in {"first", "reset", "forced"}
               /\ out.emit = p /\ out.sdt = Hung(p)
               /\ out.outcome = "forced" => p.t > sent.t
            \/ /\ out.outcome \in {"suppressed", "inside"}
               /\ sdt.initialized /\ out.emit = NoPoint
               /\ out.sdt.anchor = sent /\ out.sdt.last_emit = sent.t
               /\ out.sdt.prev = p /\ p.t > sent.t
               /\ out.outcome = "suppressed" => p.t - sent.t < MinInterval
               /\ out.outcome = "inside" => (MaxInterval > 0 => p.t - sent.t < MaxInterval)
            \/ /\ out.outcome = "closed"
               /\ sdt.initialized /\ out.emit = sdt.prev
               /\ out.sdt.anchor = sdt.prev /\ out.sdt.last_emit = sdt.prev.t
               /\ out.sdt.prev = p /\ p.t > sdt.prev.t /\ sdt.prev.t > sent.t
               /\ MaxInterval > 0 => p.t - sent.t < MaxInterval
<1> DEFINE out == Offer(sdt, p)
           door == Narrow(sdt, p)
<1>a. MaxInterval \in Nat /\ MinInterval \in Nat
  BY PolicyType
<1>b. /\ p.t \in Int /\ sent.t \in Int /\ sdt.prev.t \in Int /\ sdt.last_emit \in Int
      /\ sdt.prev \in IntPoint
  BY DEF State, IntPoint
<1>1. CASE ~sdt.initialized
  <2>1. out = [sdt |-> Hung(p), outcome |-> "first", emit |-> p]
    BY <1>1 DEF Offer
  <2> QED BY <2>1, HungType
<1>2. CASE sdt.initialized
  <2>1. /\ sdt.anchor = sent /\ sdt.last_emit = sent.t /\ sent.t <= sdt.prev.t
        /\ sent.t = sdt.prev.t => Unnarrowed(sdt)
    BY <1>2 DEF DoorInv, AnchorIsSent
  <2>2. CASE OutOfOrder(sdt, p)
    <3>1. out = [sdt |-> Hung(p), outcome |-> "reset", emit |-> p]
      BY <1>2, <2>2 DEF Offer
    <3> QED BY <3>1, HungType
  <2>3. CASE ~OutOfOrder(sdt, p)
    <3>1. p.t > sdt.prev.t /\ p.t > sent.t
      BY <1>b, <2>1, <2>3 DEF OutOfOrder
    <3>2. CASE TooSoon(sdt, p)
      <4>1. out = [sdt |-> [sdt EXCEPT !.prev = p], outcome |-> "suppressed", emit |-> NoPoint]
        BY <1>2, <2>3, <3>2 DEF Offer
      <4>2. p.t - sent.t < MinInterval
        BY <2>1, <3>2 DEF TooSoon
      <4>3. /\ out.sdt \in State /\ out.sdt.initialized /\ out.sdt.prev = p
            /\ out.sdt.anchor = sdt.anchor /\ out.sdt.last_emit = sdt.last_emit
        BY <1>2, <4>1 DEF State
      <4> QED BY <1>2, <2>1, <3>1, <4>1, <4>2, <4>3
    <3>3. CASE ~TooSoon(sdt, p) /\ TooLong(sdt, p)
      <4>1. out = [sdt |-> Hung(p), outcome |-> "forced", emit |-> p]
        BY <1>2, <2>3, <3>3 DEF Offer
      <4> QED BY <3>1, <4>1, HungType
    <3>4. CASE ~TooSoon(sdt, p) /\ ~TooLong(sdt, p)
      <4>1. MaxInterval > 0 => p.t - sent.t < MaxInterval
        BY <1>a, <1>b, <2>1, <3>4 DEF TooLong
      <4>2. CASE Less(door.upper_slope, door.lower_slope)
        <5>1. out = [sdt |-> Rehang(sdt, p), outcome |-> "closed", emit |-> sdt.prev]
          BY <1>2, <2>3, <3>4, <4>2 DEF Offer
        <5>2. sdt.prev.t > sent.t
          BY <1>b, <2>1, <3>1, <4>2, FreshDoorStaysOpen
        <5>3. /\ Rehang(sdt, p) \in State /\ Rehang(sdt, p).initialized
              /\ Rehang(sdt, p).anchor = sdt.prev /\ Rehang(sdt, p).prev = p
              /\ Rehang(sdt, p).last_emit = sdt.prev.t
          BY ZenonT(60), <1>b, HungType, NarrowType DEF Rehang
        <5> QED BY <1>2, <3>1, <4>1, <5>1, <5>2, <5>3
      <4>3. CASE ~Less(door.upper_slope, door.lower_slope)
        <5>1. out = [sdt |-> door, outcome |-> "inside", emit |-> NoPoint]
          BY <1>2, <2>3, <3>4, <4>3 DEF Offer
        <5>2. /\ door \in State /\ door.initialized /\ door.prev = p
              /\ door.anchor = sdt.anchor /\ door.last_emit = sdt.last_emit
          BY <1>2, NarrowType
        <5> QED BY <1>2, <2>1, <3>1, <4>1, <5>1, <5>2
      <4> QED BY <4>2, <4>3
    <3> QED BY <3>2, <3>3, <3>4
  <2> QED BY <2>2, <2>3
<1> QED BY <1>1, <1>2
------------------------------------------------------------------------------
(* What changes when a sample is received.                                 *)
LEMMA ReceiveType ==
  ASSUME NEW t \in 0 .. Horizon, NEW v \in Values
  PROVE  [t |-> t, v |-> v] \in IntPoint /\ v \in Int /\ t \in Int
BY PolicyAssumption DEF PolicyAssumption, IntPoint

(* A sample outside SDT: the receiver has its value, or one as good.       *)
LEMMA FilterStep ==
  ASSUME CompressionInv, NEW t \in 0 .. Horizon, NEW v \in Values,
         Apply(t, v), ~BySdt(v)
  PROVE  CompressionInv'
<1>1. v \in Int /\ last \in Int /\ received \in Nat /\ policy.deadband \in Int
  BY ReceiveType, PolicyType DEF CompressionInv
<1>2. /\ received' = received + 1 /\ sample'.v = v /\ policy' = policy
      /\ IF Passes(v) THEN last' = v ELSE last' = last
      /\ got' = last'
      /\ UNCHANGED <<sdt, segment, sent>>
  BY DEF Apply, Filter, CompressionInv
<1>3. DoorInv'
  BY <1>2 DEF CompressionInv, DoorInv, AnchorIsSent, Unnarrowed, MinusInfinity, PlusInfinity
<1>4. ReceiverIsClose'
  <2>1. CASE last' = v
    BY <1>2, <2>1 DEF ReceiverIsClose
  <2>2. CASE last' # v
    <3>1. last' = last /\ ~Passes(v) /\ last # v
      BY <1>2, <2>2
    <3>2. v \notin NonNumeric /\ policy.mode = "deadband" /\ ~Meaningful(v)
      BY <3>1 DEF Passes, Changed
    <3>3. /\ last \notin NonNumeric
          /\ ~((IF last > v THEN last - v ELSE v - last) > (IF policy.deadband > 0 THEN policy.deadband ELSE 0))
      BY <3>1, <3>2 DEF Meaningful, Changed
    <3>4. Distance(last, v) <= policy.deadband
      BY <1>1, <3>1, <3>3 DEF Distance
    <3>5. Distance(last', sample'.v) <= policy.deadband /\ {last', sample'.v} \intersect NonNumeric = {}
      BY <1>2, <3>1, <3>2, <3>3, <3>4
    <3> QED BY <1>2, <3>2, <3>5 DEF ReceiverIsClose
  <2> QED BY <2>1, <2>2
<1> QED BY <1>1, <1>2, <1>3, <1>4 DEF CompressionInv

(* A numeric sample under SDT. *)
LEMMA TrendStep ==
  ASSUME CompressionInv, NEW t \in 0 .. Horizon, NEW v \in Values,
         Apply(t, v), BySdt(v)
  PROVE  CompressionInv'
<1> DEFINE p == [t |-> t, v |-> v]
           out == Offer(sdt, p)
<1>1. p \in IntPoint /\ Deviation > 0 /\ policy.mode = "sdt"
  BY ReceiveType DEF BySdt
<1>2. received' = received + 1 /\ policy' = policy /\ Trend(p)
  BY DEF Apply
<1>3. /\ sdt' = out.sdt
      /\ IF out.emit = NoPoint THEN UNCHANGED <<last, sent, got>>
                               ELSE last' = out.emit.v /\ sent' = out.emit /\ got' = last'
  BY <1>2 DEF Trend
<1>4. NoPoint.v = Nothing /\ NoPoint \in IntPoint
  BY PolicyAssumption DEF PolicyAssumption, NoPoint, IntPoint
<1> HIDE DEF p
<1>5. got' = last' /\ policy \in Policies /\ sdt \in State /\ sent \in IntPoint /\ last \in Int /\ received \in Nat /\ DoorInv
  BY <1>3 DEF CompressionInv
<1>6. p # NoPoint
  BY <1>4, PolicyAssumption DEF PolicyAssumption, p
<1>7. /\ out.sdt \in State /\ out.sdt.initialized
      /\ \/ /\ out.emit = p /\ out.sdt = Hung(p)
         \/ /\ out.emit = NoPoint /\ out.sdt.anchor = sent /\ out.sdt.last_emit = sent.t
            /\ out.sdt.prev = p /\ p.t > sent.t
         \/ /\ sdt.initialized /\ out.emit = sdt.prev
            /\ out.sdt.anchor = sdt.prev /\ out.sdt.last_emit = sdt.prev.t
            /\ out.sdt.prev = p /\ p.t > sdt.prev.t
  BY <1>1, <1>5, OfferCases
<1> HIDE DEF out
<1>8. p.t \in Int /\ sent.t \in Int /\ sdt.prev.t \in Int /\ sdt.prev \in IntPoint
  BY <1>1, <1>5 DEF State, IntPoint
<1>9. DoorInv' /\ sent' \in IntPoint /\ last' \in Int
  <2>1. CASE out.emit = p /\ out.sdt = Hung(p)
    <3>1. sent' = p /\ last' = p.v /\ sdt' = Hung(p)
      BY <1>3, <1>6, <2>1
    <3>2. /\ sdt'.anchor = p /\ sdt'.prev = p /\ sdt'.last_emit = p.t
          /\ sdt'.lower_slope = MinusInfinity /\ sdt'.upper_slope = PlusInfinity
      BY <1>1, <3>1, HungType DEF Unnarrowed
    <3> QED BY <1>1, <1>6, <1>8, <3>1, <3>2
            DEF DoorInv, AnchorIsSent, Unnarrowed, IntPoint, MinusInfinity, PlusInfinity, NoPoint
  <2>2. CASE /\ out.emit = NoPoint /\ out.sdt.anchor = sent /\ out.sdt.last_emit = sent.t
             /\ out.sdt.prev = p /\ p.t > sent.t
    <3>1. sdt' = out.sdt /\ last' = last /\ sent' = sent
      BY <1>3, <2>2
    <3>2. sent' \in IntPoint /\ last' \in Int
      BY <1>5, <3>1
    <3> QED BY <1>6, <1>8, <2>2, <3>1, <3>2 DEF DoorInv, AnchorIsSent, NoPoint
  <2>3. CASE /\ sdt.initialized /\ out.emit = sdt.prev
             /\ out.sdt.anchor = sdt.prev /\ out.sdt.last_emit = sdt.prev.t
             /\ out.sdt.prev = p /\ p.t > sdt.prev.t
    <3>1. sdt.prev # NoPoint
      BY <1>5, <2>3 DEF DoorInv
    <3>2. sent' = sdt.prev /\ last' = sdt.prev.v
      BY <1>3, <2>3, <3>1
    <3>3. last' \in Int
      BY <1>8, <3>2 DEF IntPoint
    <3> QED BY <1>3, <1>6, <1>8, <2>3, <3>2, <3>3 DEF DoorInv, AnchorIsSent, NoPoint
  <2> QED BY <1>7, <2>1, <2>2, <2>3
<1>10. ReceiverIsClose'
  BY <1>1, <1>2 DEF ReceiverIsClose, Deviation
<1> QED BY <1>2, <1>3, <1>5, <1>7, <1>9, <1>10 DEF CompressionInv

(* Nothing has been received, and the door is not hung.                    *)
THEOREM InitInv == Init => CompressionInv
<1>1. NoPoint \in IntPoint /\ Nothing \in Int
  BY PolicyAssumption DEF PolicyAssumption, NoPoint, IntPoint
<1>2. NoState \in State /\ ~NoState.initialized
  BY <1>1 DEF NoState, State, MinusInfinity, PlusInfinity
<1> QED BY <1>1, <1>2 DEF Init, CompressionInv, DoorInv, ReceiverIsClose

(* Every sample leaves the invariant as it was.                            *)
THEOREM NextInv == CompressionInv /\ [Next]_vars => CompressionInv'
<1> SUFFICES ASSUME CompressionInv, [Next]_vars PROVE CompressionInv'
  OBVIOUS
<1>1. CASE Next
  <2>1. PICK t \in 0 .. Horizon, v \in Values : Apply(t, v)
    BY <1>1 DEF Next
  <2> QED BY <2>1, FilterStep, TrendStep
<1>2. CASE UNCHANGED vars
  BY <1>2 DEF vars, CompressionInv, DoorInv, AnchorIsSent, ReceiverIsClose, Unnarrowed,
              Deviation, MinusInfinity, PlusInfinity, NoPoint
<1> QED BY <1>1, <1>2

(* Every reachable state is one CompressionInv describes.                            *)
THEOREM CompressionInvariant == Spec => []CompressionInv
BY InitInv, NextInv, PTL DEF Spec

(* The swinging door always hangs on the last point the receiver got:      *)
(* what offer() compares with is never a point that was withheld.          *)
THEOREM AnchorSent == Spec => []AnchorIsSent
<1>1. CompressionInv => AnchorIsSent
  BY DEF CompressionInv, DoorInv, AnchorIsSent
<1> QED BY <1>1, CompressionInvariant, PTL

(* In every mode but SDT the receiver's value is the tag's or within the   *)
(* deadband of it, after any number of small changes.                      *)
THEOREM ReceiverClose == Spec => []ReceiverIsClose
<1>1. CompressionInv => ReceiverIsClose
  BY DEF CompressionInv
<1> QED BY <1>1, CompressionInvariant, PTL

(* A tag that keeps reporting is never held back for the maximum interval, *)
(* unless the minimum interval, which is looked at first, is the longer.   *)
THEOREM SilenceBounded == Spec => []SilenceIsBounded
<1>1. Init => SilenceIsBounded
  BY DEF Init, SilenceIsBounded, NoState
<1>2. CompressionInv /\ SilenceIsBounded /\ [Next]_vars => SilenceIsBounded'
  <2>0. CASE UNCHANGED vars
    BY <2>0 DEF SilenceIsBounded, vars, MaxInterval, MinInterval
  <2> SUFFICES ASSUME CompressionInv, SilenceIsBounded, Next, MaxInterval > 0,
                      MinInterval <= MaxInterval, policy' = policy, sdt'.initialized
               PROVE  sdt'.prev.t - sent'.t < MaxInterval
    BY <2>0 DEF SilenceIsBounded, Next, Apply, MaxInterval, MinInterval
  <2>1. PICK t \in 0 .. Horizon, v \in Values : Apply(t, v)
    BY DEF Next
  <2>2. CASE ~BySdt(v)
    BY <2>1, <2>2 DEF Apply, Filter, SilenceIsBounded
  <2>3. CASE BySdt(v)
    <3> DEFINE p == [t |-> t, v |-> v]
               out == Offer(sdt, p)
    <3>1. p \in IntPoint /\ policy \in Policies /\ Deviation > 0 /\ sdt \in State /\ sent \in IntPoint /\ DoorInv
      BY <2>3, ReceiveType DEF BySdt, CompressionInv
    <3>2. /\ sdt' = out.sdt
          /\ IF out.emit = NoPoint THEN UNCHANGED sent ELSE sent' = out.emit
      BY <2>1, <2>3 DEF Apply, Trend
    <3>3. p # NoPoint /\ MinInterval \in Nat /\ MaxInterval \in Nat
      BY <3>1, PolicyType, PolicyAssumption DEF PolicyAssumption, NoPoint
    <3> HIDE DEF p
    <3>4. \/ out.emit = p /\ out.sdt = Hung(p)
          \/ /\ out.emit = NoPoint /\ out.sdt.prev = p
             /\ p.t - sent.t < MinInterval \/ p.t - sent.t < MaxInterval
          \/ /\ sdt.initialized /\ out.emit = sdt.prev /\ out.sdt.prev = p
             /\ sdt.prev.t > sent.t /\ p.t - sent.t < MaxInterval
      BY <3>1, OfferCases
    <3> HIDE DEF out
    <3>5. p.t \in Int /\ sent.t \in Int /\ sdt.prev.t \in Int
      BY <3>1 DEF State, IntPoint
    <3>6. sdt.initialized => sdt.prev # NoPoint
      BY <3>1 DEF DoorInv
    <3>7. CASE out.emit = p /\ out.sdt = Hung(p)
      <4>1. sdt'.prev = p /\ sent' = p
        BY <3>1, <3>2, <3>3, <3>7, HungType
      <4> QED BY <3>5, <4>1
    <3>8. CASE out.emit # p \/ out.sdt # Hung(p)
      BY <3>2, <3>3, <3>4, <3>5, <3>6, <3>8
    <3> QED BY <3>7, <3>8
  <2> QED BY <2>2, <2>3
<1> QED BY <1>1, <1>2, CompressionInvariant, PTL DEF Spec

(* A closing door, and one forced by the maximum interval, emit a point    *)
(* later than the last: only samples that came out of order go back.       *)
THEOREM InOrder == Spec => EmittedInOrder
<1> DEFINE Step == outcome' \in {"closed", "forced"} => sent'.t > sent.t
<1>1. CompressionInv /\ [Next]_vars => [Step]_vars
  <2> SUFFICES ASSUME CompressionInv, Next, outcome' \in {"closed", "forced"} PROVE sent'.t > sent.t
    BY DEF Step
  <2>1. PICK t \in 0 .. Horizon, v \in Values : Apply(t, v)
    BY DEF Next
  <2> DEFINE p == [t |-> t, v |-> v]
             out == Offer(sdt, p)
  <2>2. BySdt(v)
    BY <2>1 DEF Apply, Filter
  <2>3. p \in IntPoint /\ policy \in Policies /\ Deviation > 0 /\ sdt \in State /\ sent \in IntPoint /\ DoorInv
    BY <2>2, ReceiveType DEF BySdt, CompressionInv
  <2>4. /\ outcome' = out.outcome
        /\ IF out.emit = NoPoint THEN UNCHANGED sent ELSE sent' = out.emit
    BY <2>1, <2>2 DEF Apply, Trend
  <2>5. p # NoPoint
    BY PolicyAssumption DEF PolicyAssumption, NoPoint
  <2> HIDE DEF p
  <2>6. \/ out.outcome = "forced" /\ out.emit = p /\ p.t > sent.t
        \/ /\ out.outcome = "closed" /\ sdt.initialized
           /\ out.emit = sdt.prev /\ sdt.prev.t > sent.t
    BY <2>3, <2>4, OfferCases
  <2> HIDE DEF out
  <2>7. sdt.initialized => sdt.prev # NoPoint
    BY <2>3 DEF DoorInv
  <2> QED BY <2>4, <2>5, <2>6, <2>7
<1>2. [][Step]_vars => EmittedInOrder
  BY PTL DEF EmittedInOrder
<1> QED BY <1>1, CompressionInvariant, PTL DEF Spec, EmittedInOrder
------------------------------------------------------------------------------
(* The curve: fractions with positive denominators, multiplied out.        *)

LEMMA ScaleUp ==
  ASSUME NEW x \in Int, NEW y \in Int, NEW c \in Int, c > 0, x <= y
  PROVE  x * c <= y * c
<1>1. (y - x) * c >= 0
  OBVIOUS
<1>2. (y - x) * c = y * c - x * c
  OBVIOUS
<1>3. x * c \in Int /\ y * c \in Int
  OBVIOUS
<1> QED BY <1>1, <1>2, <1>3

LEMMA ScaleDown ==
  ASSUME NEW x \in Int, NEW y \in Int, NEW c \in Int, c > 0, x * c <= y * c
  PROVE  x <= y
<1> SUFFICES ASSUME x > y PROVE FALSE
  OBVIOUS
<1>1. (x - y) * c > 0
  OBVIOUS
<1>2. (x - y) * c = x * c - y * c
  OBVIOUS
<1>3. x * c \in Int /\ y * c \in Int
  OBVIOUS
<1> QED BY <1>1, <1>2, <1>3

AtMost(f, g) == f[1] * g[2] <= g[1] * f[2]

Fraction == {f \in Int \X Int : f[2] > 0}

(* The order of fractions is transitive. *)
LEMMA AtMostTransitive ==
  ASSUME NEW f \in Fraction, NEW g \in Fraction, NEW h \in Fraction,
         AtMost(f, g), AtMost(g, h)
  PROVE  AtMost(f, h)
<1>1. PICK a \in Int, b \in Int : f = <<a, b>> /\ b > 0
  BY DEF Fraction
<1>2. PICK c \in Int, d \in Int : g = <<c, d>> /\ d > 0
  BY DEF Fraction
<1>3. PICK m \in Int, n \in Int : h = <<m, n>> /\ n > 0
  BY DEF Fraction
<1>4. a * d <= c * b /\ c * n <= m * d
  BY <1>1, <1>2, <1>3 DEF AtMost
<1>5. a * d \in Int /\ c * b \in Int /\ c * n \in Int /\ m * d \in Int /\ a * n \in Int /\ m * b \in Int
  BY <1>1, <1>2, <1>3
<1>6. (a * d) * n <= (c * b) * n
  BY <1>1, <1>2, <1>3, <1>4, <1>5, ScaleUp
<1>7. (c * n) * b <= (m * d) * b
  BY <1>1, <1>2, <1>3, <1>4, <1>5, ScaleUp
<1>8. (c * b) * n = (c * n) * b /\ (a * d) * n = (a * n) * d /\ (m * d) * b = (m * b) * d
  BY <1>1, <1>2, <1>3
<1>9. (a * n) * d \in Int /\ (m * b) * d \in Int /\ (c * n) * b \in Int
  BY <1>1, <1>2, <1>3, <1>5
<1>10. (a * n) * d <= (m * b) * d
  BY <1>6, <1>7, <1>8, <1>9
<1>11. a * n <= m * b
  BY <1>2, <1>5, <1>10, ScaleDown
<1> QED BY <1>1, <1>3, <1>11 DEF AtMost

(* What Steeper and Flatter choose is on the right side of both.           *)
LEMMA Chosen ==
  ASSUME NEW f \in Fraction, NEW g \in Fraction
  PROVE  /\ Steeper(f, g) \in Fraction /\ AtMost(f, Steeper(f, g)) /\ AtMost(g, Steeper(f, g))
         /\ Flatter(f, g) \in Fraction /\ AtMost(Flatter(f, g), f) /\ AtMost(Flatter(f, g), g)
<1>1. PICK a \in Int, b \in Int : f = <<a, b>> /\ b > 0
  BY DEF Fraction
<1>2. PICK c \in Int, d \in Int : g = <<c, d>> /\ d > 0
  BY DEF Fraction
<1>3. a * d \in Int /\ c * b \in Int /\ a * b \in Int /\ c * d \in Int
  BY <1>1, <1>2
<1>4. Less(f, g) <=> a * d < c * b
  BY <1>1, <1>2 DEF Less
<1>5. Less(g, f) <=> c * b < a * d
  BY <1>1, <1>2 DEF Less
<1>6. (AtMost(f, g) <=> a * d <= c * b) /\ (AtMost(g, f) <=> c * b <= a * d)
  BY <1>1, <1>2 DEF AtMost
<1>7. AtMost(f, f) /\ AtMost(g, g)
  BY <1>1, <1>2, <1>3 DEF AtMost
<1> QED BY <1>3, <1>4, <1>5, <1>6, <1>7 DEF Steeper, Flatter

(* The samples seq holds a door open, none of them outside of it.          *)
Admits(s, q) ==
  /\ s.anchor.t < q.t /\ q.t <= s.prev.t
  /\ AtMost(Low(s, q), s.lower_slope) /\ AtMost(s.upper_slope, High(s, q))

Holds(s, seq) ==
  \/ seq = <<>> /\ Unnarrowed(s)
  \/ /\ s.lower_slope \in Fraction /\ s.upper_slope \in Fraction
     /\ AtMost(s.lower_slope, s.upper_slope)
     /\ s.prev \in Points(seq)
     /\ \A q \in Points(seq) : Admits(s, q)

LEMMA Edges ==
  ASSUME NEW s \in State, NEW q \in IntPoint, policy \in Policies, s.anchor.t < q.t
  PROVE  Low(s, q) \in Fraction /\ High(s, q) \in Fraction
BY PolicyType DEF Low, High, State, IntPoint, Fraction

LEMMA PointsAppended ==
  ASSUME NEW seq \in Seq(IntPoint), NEW p \in IntPoint
  PROVE  Points(Append(seq, p)) = Points(seq) \union {p}
<1> DEFINE more == Append(seq, p)
<1>1. /\ DOMAIN seq = 1 .. Len(seq) /\ DOMAIN more = 1 .. Len(seq) + 1 /\ Len(seq) \in Nat
      /\ \A i \in 1 .. Len(seq) : more[i] = seq[i]
      /\ more[Len(seq) + 1] = p
  OBVIOUS
<1> HIDE DEF more
<1>2. ASSUME NEW i \in DOMAIN more PROVE more[i] \in Points(seq) \union {p}
  BY <1>1 DEF Points
<1>3. ASSUME NEW i \in DOMAIN seq PROVE seq[i] \in Points(more)
  <2>1. i \in DOMAIN more /\ more[i] = seq[i]
    BY <1>1
  <2> QED BY <2>1 DEF Points
<1>4. p \in Points(more)
  <2>1. Len(seq) + 1 \in DOMAIN more
    BY <1>1
  <2> QED BY <1>1, <2>1 DEF Points
<1>5. Points(more) = Points(seq) \union {p}
  BY <1>2, <1>3, <1>4 DEF Points
<1> QED BY <1>5 DEF more

(* A sample that does not close the door is admitted, and the samples      *)
(* before stay.                                                            *)
LEMMA NarrowHolds ==
  ASSUME NEW s \in State, NEW seq \in Seq(IntPoint), NEW p \in IntPoint, policy \in Policies,
         Holds(s, seq), s.anchor.t < p.t, s.prev.t < p.t,
         ~Less(Narrow(s, p).upper_slope, Narrow(s, p).lower_slope)
  PROVE  Holds(Narrow(s, p), Append(seq, p))
<1> DEFINE door == Narrow(s, p)
<1>1. /\ door \in State /\ door.anchor = s.anchor /\ door.prev = p
      /\ door.lower_slope = Steeper(s.lower_slope, Low(s, p))
      /\ door.upper_slope = Flatter(s.upper_slope, High(s, p))
  BY NarrowType
<1>2. Low(s, p) \in Fraction /\ High(s, p) \in Fraction
  BY Edges
<1>3. Points(Append(seq, p)) = Points(seq) \union {p}
  BY PointsAppended
<1>4. \A q \in Points(seq) : q \in IntPoint
  BY DEF Points
<1>5. \A q \in IntPoint : Low(door, q) = Low(s, q) /\ High(door, q) = High(s, q)
  BY <1>1 DEF Low, High
<1> HIDE DEF door
<1>6. ASSUME door.lower_slope \in Fraction, door.upper_slope \in Fraction
      PROVE  AtMost(door.lower_slope, door.upper_slope)
  <2>1. PICK a \in Int, b \in Int : door.lower_slope = <<a, b>>
    BY <1>6 DEF Fraction
  <2>2. PICK c \in Int, d \in Int : door.upper_slope = <<c, d>>
    BY <1>6 DEF Fraction
  <2>3. ~(c * b < a * d)
    BY <2>1, <2>2 DEF Less, door
  <2>4. c * b \in Int /\ a * d \in Int
    OBVIOUS
  <2> QED BY <2>1, <2>2, <2>3, <2>4 DEF AtMost
<1>7. CASE seq = <<>> /\ Unnarrowed(s)
  <2>1. door.lower_slope = Low(s, p) /\ door.upper_slope = High(s, p)
    <3>1. PICK a \in Int, b \in Int : Low(s, p) = <<a, b>> /\ b > 0
      BY <1>2 DEF Fraction
    <3>2. PICK c \in Int, d \in Int : High(s, p) = <<c, d>> /\ d > 0
      BY <1>2 DEF Fraction
    <3>3. Less(MinusInfinity, Low(s, p)) /\ Less(High(s, p), PlusInfinity)
      BY <3>1, <3>2 DEF Less, MinusInfinity, PlusInfinity
    <3> QED BY <1>1, <1>7, <3>3 DEF Steeper, Flatter, Unnarrowed
  <2>2. AtMost(Low(s, p), Low(s, p)) /\ AtMost(High(s, p), High(s, p))
    BY <1>2, Chosen DEF Steeper, Flatter
  <2>3. Points(seq) = {}
    BY <1>7 DEF Points
  <2>4. p.t \in Int /\ p.t <= p.t
    BY DEF IntPoint
  <2>5. Admits(door, p)
    BY <1>1, <1>5, <2>1, <2>2, <2>4 DEF Admits
  <2> QED BY <1>1, <1>2, <1>3, <1>6, <2>1, <2>3, <2>5 DEF Holds, door
<1>8. CASE /\ s.lower_slope \in Fraction /\ s.upper_slope \in Fraction
           /\ \A q \in Points(seq) : Admits(s, q)
  <2>1. /\ door.lower_slope \in Fraction /\ door.upper_slope \in Fraction
        /\ AtMost(s.lower_slope, door.lower_slope) /\ AtMost(Low(s, p), door.lower_slope)
        /\ AtMost(door.upper_slope, s.upper_slope) /\ AtMost(door.upper_slope, High(s, p))
    BY <1>1, <1>2, <1>8, Chosen
  <2>2. p.t \in Int /\ p.t <= p.t
    BY DEF IntPoint
  <2>3. Admits(door, p)
    BY <1>1, <1>5, <2>1, <2>2 DEF Admits
  <2>4. ASSUME NEW q \in Points(seq) PROVE Admits(door, q)
    <3>1. q \in IntPoint /\ Admits(s, q)
      BY <1>4, <1>8
    <3>2. Low(s, q) \in Fraction /\ High(s, q) \in Fraction
      BY <3>1, Edges DEF Admits
    <3>3. AtMost(Low(s, q), door.lower_slope)
      BY <1>8, <2>1, <3>1, <3>2, AtMostTransitive DEF Admits
    <3>4. AtMost(door.upper_slope, High(s, q))
      BY <1>8, <2>1, <3>1, <3>2, AtMostTransitive DEF Admits
    <3>5. s.anchor.t < q.t /\ q.t <= p.t
      BY <3>1 DEF Admits, IntPoint, State
    <3> QED BY <1>1, <1>5, <3>1, <3>3, <3>4, <3>5 DEF Admits
  <2> QED BY <1>1, <1>3, <1>6, <2>1, <2>3, <2>4 DEF Holds, door
<1> QED BY <1>7, <1>8 DEF Holds

(* A line from the anchor to the last sample stays close to all of them.   *)
LEMMA LineIsClose ==
  ASSUME NEW s \in State, NEW seq \in Seq(IntPoint), policy \in Policies, Deviation > 0,
         Holds(s, seq), NEW q \in Points(seq)
  PROVE  OffLine(s.anchor, s.prev, q) <= 2 * Deviation * (s.prev.t - s.anchor.t)
<1>1. /\ s.lower_slope \in Fraction /\ s.upper_slope \in Fraction
      /\ AtMost(s.lower_slope, s.upper_slope)
      /\ Admits(s, s.prev) /\ Admits(s, q)
  BY DEF Holds, Points
<1>2. /\ q \in IntPoint /\ s.prev \in IntPoint /\ s.anchor \in IntPoint
      /\ Deviation \in Int
  BY PolicyType DEF Points, State
<1>3. /\ Low(s, q) \in Fraction /\ High(s, q) \in Fraction
      /\ Low(s, s.prev) \in Fraction /\ High(s, s.prev) \in Fraction
  BY <1>1, <1>2, Edges DEF Admits
<1>4. AtMost(Low(s, q), High(s, s.prev)) /\ AtMost(Low(s, s.prev), High(s, q))
  <2>1. AtMost(Low(s, q), s.upper_slope) /\ AtMost(Low(s, s.prev), s.upper_slope)
    BY <1>1, <1>3, AtMostTransitive DEF Admits
  <2> QED BY <1>1, <1>3, <2>1, AtMostTransitive DEF Admits
<1> DEFINE w == q.v - s.anchor.v
           x == q.t - s.anchor.t
           v == s.prev.v - s.anchor.v
           y == s.prev.t - s.anchor.t
           dev == Deviation
<1>5. w \in Int /\ x \in Int /\ v \in Int /\ y \in Int /\ dev \in Int /\ 0 < x /\ x <= y
  BY <1>1, <1>2 DEF Admits, IntPoint
<1>6. (w - dev) * y <= (v + dev) * x /\ (v - dev) * x <= (w + dev) * y
  BY <1>4 DEF AtMost, Low, High
<1>7. OffLine(s.anchor, s.prev, q) = Distance(v * x, w * y)
  <2>1. PICK a1 \in Int, a2 \in Int : a1 = s.anchor.v /\ a2 = s.anchor.t
    BY <1>2 DEF IntPoint
  <2>2. PICK b1 \in Int, b2 \in Int : b1 = s.prev.v /\ b2 = s.prev.t
    BY <1>2 DEF IntPoint
  <2>3. PICK q1 \in Int, q2 \in Int : q1 = q.v /\ q2 = q.t
    BY <1>2 DEF IntPoint
  <2>4. (b1 - a1) * (q2 - a2) + a1 * (b2 - a2) - q1 * (b2 - a2)
          = (b1 - a1) * (q2 - a2) - (q1 - a1) * (b2 - a2)
    OBVIOUS
  <2>5. /\ (b1 - a1) * (q2 - a2) + a1 * (b2 - a2) \in Int /\ q1 * (b2 - a2) \in Int
        /\ (b1 - a1) * (q2 - a2) \in Int /\ (q1 - a1) * (b2 - a2) \in Int
    OBVIOUS
  <2>6. Distance((b1 - a1) * (q2 - a2) + a1 * (b2 - a2), q1 * (b2 - a2))
          = Distance((b1 - a1) * (q2 - a2), (q1 - a1) * (b2 - a2))
    BY <2>4, <2>5 DEF Distance
  <2> QED BY <2>1, <2>2, <2>3, <2>6 DEF OffLine
<1> HIDE DEF w, x, v, y, dev
<1>8. /\ v * x \in Int /\ w * y \in Int /\ dev * x \in Int /\ dev * y \in Int
      /\ dev * x <= dev * y
  <2>1. x * dev <= y * dev
    BY <1>5, ScaleUp DEF dev
  <2>2. x * dev = dev * x /\ y * dev = dev * y
    BY <1>5
  <2> QED BY <1>5, <2>1, <2>2
<1>9. /\ (w - dev) * y = w * y - dev * y /\ (v + dev) * x = v * x + dev * x
      /\ (v - dev) * x = v * x - dev * x /\ (w + dev) * y = w * y + dev * y
  BY <1>5
<1>10. Distance(v * x, w * y) <= 2 * (dev * y)
  BY <1>6, <1>8, <1>9 DEF Distance
<1>11. 2 * dev * y = 2 * (dev * y)
  BY <1>5
<1> QED BY <1>7, <1>10, <1>11 DEF dev, y

(* Without a minimum interval every sample since the last point emitted    *)
(* went through the door.                                                  *)
CurveInv ==
  /\ segment \in Seq(IntPoint)
  /\ ~sdt.initialized => segment = <<>>
  /\ sdt.initialized /\ MinInterval = 0 => Holds(sdt, segment)

LEMMA HungHolds ==
  ASSUME NEW p \in IntPoint
  PROVE  Holds(Hung(p), <<>>)
BY HungType DEF Holds

(* The door after a sample holds the samples after the point emitted last. *)
LEMMA OfferHolds ==
  ASSUME NEW p \in IntPoint, policy \in Policies, sdt \in State, sent \in IntPoint,
         DoorInv, Deviation > 0, MinInterval = 0, CurveInv
  PROVE  LET out == Offer(sdt, p) IN
         \/ out.emit = p /\ Holds(out.sdt, <<>>) /\ out.outcome # "closed"
         \/ out.emit = NoPoint /\ Holds(out.sdt, Append(segment, p)) /\ out.outcome # "closed"
         \/ /\ out.emit = sdt.prev /\ sdt.initialized /\ out.outcome = "closed"
            /\ Holds(out.sdt, <<p>>)
<1> DEFINE out == Offer(sdt, p)
           door == Narrow(sdt, p)
<1>1. /\ p.t \in Int /\ sent.t \in Int /\ sdt.prev.t \in Int /\ sdt.prev \in IntPoint
      /\ segment \in Seq(IntPoint)
  BY DEF State, IntPoint, CurveInv
<1>2. CASE ~sdt.initialized
  <2>1. out = [sdt |-> Hung(p), outcome |-> "first", emit |-> p]
    BY <1>2 DEF Offer
  <2> QED BY <2>1, HungHolds
<1>3. CASE sdt.initialized /\ OutOfOrder(sdt, p)
  <2>1. out = [sdt |-> Hung(p), outcome |-> "reset", emit |-> p]
    BY <1>3 DEF Offer
  <2> QED BY <2>1, HungHolds
<1>4. CASE sdt.initialized /\ ~OutOfOrder(sdt, p)
  <2>1. sdt.anchor = sent /\ sdt.prev.t < p.t /\ sent.t < p.t /\ Holds(sdt, segment)
    BY <1>1, <1>4 DEF OutOfOrder, DoorInv, AnchorIsSent, CurveInv
  <2>2. ~TooSoon(sdt, p)
    BY DEF TooSoon
  <2>3. CASE TooLong(sdt, p)
    <3>1. out = [sdt |-> Hung(p), outcome |-> "forced", emit |-> p]
      BY <1>4, <2>2, <2>3 DEF Offer
    <3> QED BY <3>1, HungHolds
  <2>4. CASE ~TooLong(sdt, p) /\ Less(door.upper_slope, door.lower_slope)
    <3>1. out = [sdt |-> Rehang(sdt, p), outcome |-> "closed", emit |-> sdt.prev]
      BY <1>4, <2>2, <2>4 DEF Offer
    <3> DEFINE hung == Hung(sdt.prev)
    <3>2. /\ hung \in State /\ Unnarrowed(hung) /\ Holds(hung, <<>>)
          /\ hung.anchor = sdt.prev /\ hung.prev = sdt.prev
      BY <1>1, HungType, HungHolds
    <3>3. Rehang(sdt, p) = Narrow(hung, p)
      BY DEF Rehang
    <3> HIDE DEF hung
    <3>4. ~Less(Narrow(hung, p).upper_slope, Narrow(hung, p).lower_slope)
      BY <1>1, <2>1, <3>2, FreshDoorStaysOpen
    <3>5. Holds(Narrow(hung, p), Append(<<>>, p))
      <4>1. <<>> \in Seq(IntPoint)
        OBVIOUS
      <4> QED BY <2>1, <3>2, <3>4, <4>1, NarrowHolds
    <3>6. Append(<<>>, p) = <<p>>
      OBVIOUS
    <3> QED BY <1>4, <3>1, <3>3, <3>5, <3>6
  <2>5. CASE ~TooLong(sdt, p) /\ ~Less(door.upper_slope, door.lower_slope)
    <3>1. out = [sdt |-> door, outcome |-> "inside", emit |-> NoPoint]
      BY <1>4, <2>2, <2>5 DEF Offer
    <3>2. Holds(door, Append(segment, p))
      BY <1>1, <2>1, <2>5, NarrowHolds
    <3> QED BY <3>1, <3>2
  <2> QED BY <2>3, <2>4, <2>5
<1> QED BY <1>2, <1>3, <1>4

(* What is true of a door under this policy is true of it under the next.  *)
LEMMA HoldsOn ==
  ASSUME policy' = policy, Holds(sdt', segment')
  PROVE  Holds(sdt, segment)'
BY DEF Holds, Admits, Low, High, Deviation

LEMMA CurveStep ==
  ASSUME CompressionInv, CurveInv, Next
  PROVE  /\ CurveInv'
         /\ outcome' = "closed" /\ MinInterval = 0 =>
              \A q \in Points(segment) :
                OffLine(sent, sent', q) <= 2 * Deviation * (sent'.t - sent.t)
<1>1. PICK t \in 0 .. Horizon, v \in Values : Apply(t, v)
  BY DEF Next
<1>2. policy' = policy /\ MinInterval' = MinInterval
  BY <1>1 DEF Apply, MinInterval
<1>3. CASE ~BySdt(v)
  <2>1. sdt' = sdt /\ segment' = segment /\ outcome' # "closed"
    BY <1>1, <1>3 DEF Apply, Filter
  <2>2. sdt.initialized /\ MinInterval = 0 => Holds(sdt', segment')
    BY <2>1 DEF CurveInv
  <2> QED BY <1>2, <2>1, <2>2, HoldsOn DEF CurveInv
<1>4. CASE BySdt(v)
  <2> DEFINE p == [t |-> t, v |-> v]
             out == Offer(sdt, p)
  <2>1. /\ p \in IntPoint /\ policy \in Policies /\ Deviation > 0 /\ sdt \in State
        /\ sent \in IntPoint /\ DoorInv
    BY <1>4, ReceiveType DEF BySdt, CompressionInv
  <2>2. /\ sdt' = out.sdt /\ outcome' = out.outcome
        /\ IF out.emit = NoPoint
           THEN UNCHANGED sent /\ segment' = Append(segment, p)
           ELSE /\ sent' = out.emit
                /\ segment' = IF out.outcome = "closed" THEN <<p>> ELSE <<>>
    BY <1>1, <1>4 DEF Apply, Trend
  <2>3. p # NoPoint /\ (sdt.initialized => sdt.prev # NoPoint)
    BY <2>1, PolicyAssumption DEF PolicyAssumption, NoPoint, DoorInv
  <2> HIDE DEF p
  <2>4. out.sdt.initialized
    BY <2>1, OfferCases
  <2>5. MinInterval = 0 =>
          \/ out.emit = p /\ Holds(out.sdt, <<>>) /\ out.outcome # "closed"
          \/ out.emit = NoPoint /\ Holds(out.sdt, Append(segment, p)) /\ out.outcome # "closed"
          \/ /\ out.emit = sdt.prev /\ sdt.initialized /\ out.outcome = "closed"
             /\ Holds(out.sdt, <<p>>)
    BY <2>1, OfferHolds
  <2> HIDE DEF out
  <2>6. segment \in Seq(IntPoint) /\ (MinInterval = 0 /\ sdt.initialized => Holds(sdt, segment))
    BY DEF CurveInv
  <2>7. segment' \in Seq(IntPoint)
    <3>1. Append(segment, p) \in Seq(IntPoint) /\ <<p>> \in Seq(IntPoint)
            /\ <<>> \in Seq(IntPoint)
      BY <2>1, <2>6
    <3>2. segment' \in {Append(segment, p), <<p>>, <<>>}
      BY <2>2
    <3> QED BY <3>1, <3>2
  <2>8. MinInterval = 0 => Holds(sdt', segment')
    BY <2>2, <2>3, <2>5
  <2>9. CurveInv'
    BY <1>2, <2>2, <2>4, <2>7, <2>8, HoldsOn DEF CurveInv
  <2>10. ASSUME outcome' = "closed", MinInterval = 0, NEW q \in Points(segment)
         PROVE  OffLine(sent, sent', q) <= 2 * Deviation * (sent'.t - sent.t)
    <3>1. sdt.initialized /\ sent' = sdt.prev /\ sdt.anchor = sent
      BY <2>1, <2>2, <2>3, <2>5, <2>10 DEF DoorInv, AnchorIsSent
    <3>2. Holds(sdt, segment)
      BY <2>6, <2>10, <3>1
    <3>3. OffLine(sdt.anchor, sdt.prev, q) <= 2 * Deviation * (sdt.prev.t - sdt.anchor.t)
      BY <2>1, <2>6, <2>10, <3>2, LineIsClose
    <3> QED BY <3>1, <3>3
  <2> QED BY <2>9, <2>10
<1> QED BY <1>3, <1>4

(* When a door closes, no sample since the last point is off the line to   *)
(* the new one by twice the deviation, for every deviation and every       *)
(* sequence of samples (core/numeric_compression.py).                      *)
THEOREM ClosingKeeps == Spec => ClosingKeepsTheCurve
<1>1. Init => CurveInv
  BY DEF Init, CurveInv, NoState
<1>2. CompressionInv /\ CurveInv /\ [Next]_vars =>
        /\ CurveInv'
        /\ [outcome' = "closed" /\ MinInterval = 0 =>
               \A p \in Points(segment) :
                 OffLine(sent, sent', p) <= 2 * Deviation * (sent'.t - sent.t)]_vars
  <2> SUFFICES ASSUME CompressionInv, CurveInv, [Next]_vars
               PROVE  /\ CurveInv'
                      /\ [outcome' = "closed" /\ MinInterval = 0 =>
                             \A p \in Points(segment) :
                               OffLine(sent, sent', p) <= 2 * Deviation * (sent'.t - sent.t)]_vars
    OBVIOUS
  <2>1. CASE Next
    BY <2>1, CurveStep
  <2>2. CASE UNCHANGED vars
    <3>1. policy' = policy /\ sdt' = sdt /\ segment' = segment /\ MinInterval' = MinInterval
      BY <2>2 DEF vars, MinInterval
    <3>2. sdt.initialized /\ MinInterval = 0 => Holds(sdt', segment')
      BY <3>1 DEF CurveInv
    <3>3. CurveInv'
      BY <3>1, <3>2, HoldsOn DEF CurveInv
    <3> QED BY <2>2, <3>3
  <2> QED BY <2>1, <2>2
<1> QED BY <1>1, <1>2, CompressionInvariant, PTL DEF Spec, ClosingKeepsTheCurve
-----------------------------------------------------------------------------
(* NeowiseFleet                                                            *)


(* Multiples of the stride do not meet.                                    *)
LEMMA StridesApart ==
  ASSUME NEW T \in Nat, NEW a \in 0 .. T - 1, NEW b \in 0 .. T - 1,
         NEW k \in Nat, NEW j \in Nat, a + k * T = b + j * T
  PROVE  a = b /\ k = j
<1>1. CASE k = j
  BY <1>1, SMT
<1>2. CASE k < j
  <2>1. (k + 1) * T <= j * T
    BY <1>2, SMT
  <2> QED BY <2>1, SMT
<1>3. CASE j < k
  <2>1. (j + 1) * T <= k * T
    BY <1>3, SMT
  <2> QED BY <2>1, SMT
<1> QED BY <1>1, <1>2, <1>3

(* Every position is a remainder and a multiple of the stride.             *)
LEMMA StridesCover ==
  ASSUME NEW T \in Nat \ {0}, NEW p \in Nat, NEW n \in Nat, p < n * T
  PROVE  /\ p % T \in 0 .. T - 1 /\ p \div T \in Nat /\ p \div T < n
         /\ p = (p % T) + (p \div T) * T
<1>1. p % T \in 0 .. T - 1 /\ p \div T \in Nat /\ p = (p % T) + (p \div T) * T
  OBVIOUS
<1>2. p \div T < n
  <2> SUFFICES ASSUME n <= p \div T PROVE FALSE
    BY <1>1
  <2>1. n * T <= (p \div T) * T
    BY <1>1, SMT
  <2> QED BY <2>1, <1>1, SMT
<1> QED BY <1>1, <1>2
-----------------------------------------------------------------------------
(* A file is a year and a position in its list, a row a file and a         *)
(* position in it.                                                         *)
LEMMA FileIs ==
  \A f : f \in File <=> /\ f = <<f[1], f[2]>> /\ f[1] \in Year
                        /\ f[2] \in 0 .. Len(Files[f[1]]) - 1
BY DEF File

LEMMA RowIs ==
  \A r : r \in Row <=> /\ r = <<r[1], r[2]>> /\ r[1] \in File
                       /\ r[2] \in 0 .. NumRows(r[1]) - 1
BY DEF Row

LEMMA FileTypes ==
  ASSUME FleetAssumption
  PROVE  /\ <<0, 0>> \notin File
         /\ \A f \in File : NumRows(f) \in Nat
         /\ \A y \in Year : Len(Files[y]) \in Nat
<1>1. <<0, 0>> \notin File
  BY FileIs DEF Year
<1>2. \A y \in Year : Files[y] \in Seq(Nat)
  BY DEF FleetAssumption, Year
<1>3. \A f \in File : NumRows(f) \in Nat
  <2> SUFFICES ASSUME NEW f \in File PROVE NumRows(f) \in Nat
    OBVIOUS
  <2>1. f[1] \in Year /\ f[2] \in 0 .. Len(Files[f[1]]) - 1
    BY FileIs
  <2>2. Files[f[1]] \in Seq(Nat) /\ f[2] + 1 \in 1 .. Len(Files[f[1]])
    BY <2>1, <1>2
  <2> QED BY <2>2 DEF NumRows
<1> QED BY <1>1, <1>2, <1>3

(* The k-th file of a worker.                                              *)
LEMMA KeyIs ==
  ASSUME FleetAssumption, NEW w \in Worker, NEW y, NEW k \in Nat
  PROVE  Key(w, y, k) = <<y, w + k * TOTAL_WORKERS>> /\ w \in 0 .. TOTAL_WORKERS - 1
<1>1. w \in 0 .. TOTAL_WORKERS - 1 /\ TOTAL_WORKERS \in Nat
  BY DEF FleetAssumption, Worker
<1>2. w % TOTAL_WORKERS = w
  BY <1>1
<1> QED BY <1>1, <1>2 DEF Key

(* No file is in the plan of two workers, or twice in the plan of one.     *)
LEMMA KeysApart ==
  ASSUME FleetAssumption, NEW w \in Worker, NEW v \in Worker, NEW y, NEW z,
         NEW k \in Nat, NEW j \in Nat, Key(w, y, k) = Key(v, z, j)
  PROVE  w = v /\ y = z /\ k = j
<1>1. y = z /\ w + k * TOTAL_WORKERS = v + j * TOTAL_WORKERS
  BY KeyIs
<1>2. /\ w \in 0 .. TOTAL_WORKERS - 1 /\ v \in 0 .. TOTAL_WORKERS - 1
      /\ TOTAL_WORKERS \in Nat
  BY KeyIs DEF FleetAssumption
<1>3. w = v /\ k = j
  BY <1>1, <1>2, StridesApart
<1> QED BY <1>1, <1>3

(* The files of a worker are numbered without gaps.                        *)
LEMMA KeysBelow ==
  ASSUME FleetAssumption, NEW w \in Worker, NEW y, NEW k \in Nat, NEW j \in Nat,
         HasKey(w, y, k), j <= k
  PROVE  HasKey(w, y, j)
<1>1. y \in Year /\ k < FilesPerYear /\ Key(w, y, k) \in File
  BY DEF HasKey
<1>2. w + k * TOTAL_WORKERS \in 0 .. Len(Files[y]) - 1
  BY <1>1, KeyIs, FileIs
<1>3. j * TOTAL_WORKERS \in Nat /\ k * TOTAL_WORKERS \in Nat
      /\ j * TOTAL_WORKERS <= k * TOTAL_WORKERS
  BY SMT DEF FleetAssumption
<1>4. w \in Nat /\ Len(Files[y]) \in Nat
  BY <1>1, FileTypes DEF Worker
<1>5. w + j * TOTAL_WORKERS \in 0 .. Len(Files[y]) - 1
  BY <1>2, <1>3, <1>4
<1>6. Key(w, y, j) \in File
  <2>1. Key(w, y, j) = <<y, w + j * TOTAL_WORKERS>>
    BY KeyIs
  <2> QED BY <2>1, <1>1, <1>5, FileIs
<1>7. j < FilesPerYear
  BY <1>1 DEF FleetAssumption
<1> QED BY <1>1, <1>6, <1>7 DEF HasKey

(* A worker's slice of a year.                                             *)
LEMMA SliceIs ==
  ASSUME FleetAssumption, NEW w \in Worker, NEW y, NEW f
  PROVE  f \in Slice(w, y) <=> \E k \in Nat : HasKey(w, y, k) /\ f = Key(w, y, k)
<1>1. \A k \in Nat : HasKey(w, y, k) => k \in 0 .. FilesPerYear - 1
  BY DEF HasKey, FleetAssumption
<1> QED BY <1>1 DEF Slice, FleetAssumption
-----------------------------------------------------------------------------
(* The k-th file of a year is behind the cursor.  A year whose listing     *)
(* failed is behind it as a whole: year_idx has moved, listed has not.     *)
Reached(w, y, k) == y <= year_idx[w] /\ (y = listed[w] => k < file_idx[w])

(* The position in its file of the row that a worker sends next.           *)
NextRow(w) ==
  yielded[w] - loaded[w] + (IF row_index[w] < loaded[w] THEN row_index[w] ELSE loaded[w])

(* The rows a worker is past.                                              *)
Behind(w, r) ==
  \E y \in Year, k \in Nat :
    /\ HasKey(w, y, k) /\ r[1] = Key(w, y, k) /\ Reached(w, y, k)
    /\ r[1] = open[w] => r[2] < NextRow(w)

NotOpen == <<0, 0>>

(* The file that is open is one of the worker's own, and behind the cursor.*)
OpenInv(w) ==
  open[w] # NotOpen =>
    /\ \E k \in Nat : /\ HasKey(w, open[w][1], k) /\ open[w] = Key(w, open[w][1], k)
                      /\ Reached(w, open[w][1], k)
    /\ open[w][1] <= listed[w]
    /\ yielded[w] <= NumRows(open[w])

(* Where a cursor can be: the loop looks for a file only when the open one *)
(* is used up, loads a batch only when the last one is, and ends only      *)
(* behind the last file.                                                   *)
CursorInv(w) ==
  /\ listed[w] <= year_idx[w]
  /\ exhausted[w] <=> year_idx[w] = Len(Files) + 1
  /\ OpenInv(w)
  /\ open[w] = NotOpen => yielded[w] = 0
  /\ loaded[w] <= yielded[w]
  /\ loop[w] = "file" \/ exhausted[w] =>
       loaded[w] = 0 /\ (open[w] # NotOpen => yielded[w] = NumRows(open[w]))
  /\ loop[w] = "batch" => loaded[w] <= row_index[w]
  /\ loop[w] # "task" => ~exhausted[w] /\ phase[w] \in {"starting", "running"}
  /\ phase[w] = "running" \/ (phase[w] = "starting" /\ loop[w] # "file") =>
       exhausted[w] \/ open[w] # NotOpen
  /\ exhausted[w] => ~HasKey(w, listed[w], file_idx[w])
  /\ phase[w] = "new" => year_idx[w] = 0 /\ open[w] = NotOpen

(* Only a user that runs has rows in its streams, and one that stops has   *)
(* emptied those before the next to close.                                 *)
StreamInv(w) ==
  /\ phase[w] \in {"new", "starting", "dead", "stopped"} => inflight[w] = NoRows
  /\ phase[w] \in {"new", "starting", "dead", "running"} => closing[w] = 0
  /\ phase[w] = "stopping" =>
       /\ closing[w] < STREAMS_PER_USER
       /\ \A i \in 0 .. closing[w] - 1 : inflight[w][i] = {}

(* A row that was sent or skipped is behind its worker, and no other is;   *)
(* and a user that may be started again has sent nothing.                  *)
RowInv ==
  \A r \in Row :
    /\ sends[r] = 0 \/ (sends[r] = 1 /\ r \notin skipped)
    /\ (sends[r] = 1 \/ r \in skipped) <=> \E w \in Worker : Behind(w, r)
    /\ \A w \in Worker :
         phase[w] \in {"new", "starting", "dead"} /\ Behind(w, r) => sends[r] = 0

Whereabouts ==
  \A r \in Row : sends[r] = 1 <=>
    \/ r \in committed \/ r \in orphaned
    \/ \E w \in Worker : \E i \in Stream : r \in inflight[w][i]

IInv ==
  /\ FleetTypeOK
  /\ \A w \in Worker : CursorInv(w) /\ StreamInv(w)
  /\ RowInv /\ Whereabouts
-----------------------------------------------------------------------------
(* A row is behind one worker at most.                                     *)
LEMMA OneOwner ==
  ASSUME FleetAssumption, NEW w \in Worker, NEW v \in Worker, NEW r, Behind(w, r), Behind(v, r)
  PROVE  w = v
<1>1. PICK y \in Year, k \in Nat : r[1] = Key(w, y, k)
  BY DEF Behind
<1>2. PICK z \in Year, j \in Nat : r[1] = Key(v, z, j)
  BY DEF Behind
<1>3. Key(w, y, k) = Key(v, z, j)
  BY <1>1, <1>2
<1> QED BY <1>3, KeysApart

(* The cursor of another worker stays where it is.                         *)
Same(v) ==
  /\ phase'[v] = phase[v] /\ loop'[v] = loop[v] /\ exhausted'[v] = exhausted[v]
  /\ year_idx'[v] = year_idx[v] /\ listed'[v] = listed[v] /\ file_idx'[v] = file_idx[v]
  /\ open'[v] = open[v] /\ yielded'[v] = yielded[v] /\ loaded'[v] = loaded[v]
  /\ row_index'[v] = row_index[v]

LEMMA SameCursor ==
  ASSUME NEW v, Same(v)
  PROVE  (CursorInv(v) => CursorInv(v)') /\ \A r : Behind(v, r)' <=> Behind(v, r)
<1>1. \A r : Behind(v, r)' <=> Behind(v, r)
  BY DEF Same, Behind, Reached, NextRow
<1>2. CursorInv(v) => CursorInv(v)'
  BY DEF Same, CursorInv, OpenInv, Reached
<1> QED BY <1>1, <1>2

LEMMA SameStreams ==
  ASSUME NEW v, StreamInv(v), phase'[v] = phase[v], closing'[v] = closing[v],
         inflight'[v] = inflight[v]
  PROVE  StreamInv(v)'
BY DEF StreamInv

(* The cursor passes rows that are skipped, or none at all.                *)
LEMMA RowsPassed ==
  ASSUME FleetAssumption, RowInv, NEW w \in Worker, NEW D \in SUBSET Row,
         \A v \in Worker : \A r \in Row : Behind(v, r)' <=> Behind(v, r) \/ (v = w /\ r \in D),
         \A r \in D : ~Behind(w, r) /\ \A v \in Worker : ~Behind(v, r),
         sends' = sends, skipped' = skipped \union D,
         \A v \in Worker : phase'[v] \in {"new", "starting", "dead"} =>
            phase[v] \in {"new", "starting", "dead"}
  PROVE  RowInv'
<1> SUFFICES ASSUME NEW r \in Row
             PROVE  /\ sends'[r] = 0 \/ (sends'[r] = 1 /\ r \notin skipped')
                    /\ (sends'[r] = 1 \/ r \in skipped') <=> \E v \in Worker : Behind(v, r)'
                    /\ \A v \in Worker :
                         phase'[v] \in {"new", "starting", "dead"} /\ Behind(v, r)' => sends'[r] = 0
  BY DEF RowInv
<1>1. CASE r \in D
  <2>1. sends[r] = 0 /\ r \notin skipped
    BY <1>1 DEF RowInv
  <2> QED BY <2>1, <1>1
<1>2. CASE r \notin D
  <2>1. \A v \in Worker : Behind(v, r)' <=> Behind(v, r)
    BY <1>2
  <2>2. r \in skipped' <=> r \in skipped
    BY <1>2
  <2> QED BY <2>1, <2>2 DEF RowInv
<1> QED BY <1>1, <1>2

LEMMA FaultsBounded ==
  ASSUME FleetAssumption, FleetTypeOK
  PROVE  (Fine \/ Fault) => faults' \in 0 .. MaxFaults
BY DEF FleetAssumption, FleetTypeOK, Fine, Fault

LEMMA Counters ==
  ASSUME FleetAssumption, FleetTypeOK, NEW v \in Worker
  PROVE  /\ Len(Files) \in Nat /\ STREAMS_PER_USER \in Nat /\ STREAMS_PER_USER > 0
         /\ year_idx[v] \in Nat /\ year_idx[v] <= Len(Files) + 1
         /\ listed[v] \in Nat /\ listed[v] <= Len(Files)
         /\ file_idx[v] \in Nat /\ yielded[v] \in Nat /\ loaded[v] \in Nat
         /\ row_index[v] \in Nat
         /\ closing[v] \in Nat /\ closing[v] <= STREAMS_PER_USER
         /\ open[v] = NotOpen \/ open[v] \in File
<1>1. Len(Files) \in Nat /\ STREAMS_PER_USER \in Nat \ {0}
  BY DEF FleetAssumption
<1>2. /\ year_idx[v] \in 0 .. Len(Files) + 1 /\ listed[v] \in 0 .. Len(Files)
      /\ closing[v] \in 0 .. STREAMS_PER_USER
      /\ file_idx[v] \in Nat /\ yielded[v] \in Nat /\ loaded[v] \in Nat
      /\ row_index[v] \in Nat /\ open[v] \in File \union {<<0, 0>>}
  BY DEF FleetTypeOK
<1> QED BY <1>1, <1>2 DEF NotOpen
-----------------------------------------------------------------------------
LEMMA StartSafe ==
  ASSUME FleetAssumption, IInv, NEW w \in Worker, Start(w)
  PROVE  IInv'
<1>1. FleetTypeOK'
  BY DEF IInv, FleetTypeOK, Start, Set, cursorVars, streamVars, rowVars
<1>2. \A v \in Worker \ {w} : Same(v)
  BY DEF IInv, FleetTypeOK, Start, Set, cursorVars, Same
<1>3. \A v \in Worker : \A r : Behind(v, r)' <=> Behind(v, r)
  BY DEF Start, cursorVars, Behind, Reached, NextRow
<1>4. phase[w] = "new" /\ phase'[w] = "starting" /\ loop'[w] = "file"
  BY DEF IInv, FleetTypeOK, Start, Set
<1>5. CursorInv(w)'
  <2>1. CursorInv(w) /\ UNCHANGED cursorVars
    BY DEF IInv, Start
  <2>2. ~exhausted[w] /\ open[w] = NotOpen /\ yielded[w] = 0 /\ loaded[w] = 0
    BY <2>1, <1>4 DEF CursorInv, OpenInv, IInv, FleetTypeOK, FleetAssumption
  <2> QED BY <2>1, <2>2, <1>4 DEF CursorInv, OpenInv, cursorVars, Reached
<1>6. \A v \in Worker : StreamInv(v)'
  BY <1>2, <1>4, SameStreams DEF IInv, Start, streamVars, StreamInv, Same
<1>7. RowInv'
  BY <1>2, <1>3, <1>4 DEF IInv, Start, rowVars, RowInv, Same
<1>8. Whereabouts'
  BY DEF IInv, Whereabouts, Start, rowVars, streamVars
<1> QED BY <1>1, <1>2, <1>5, <1>6, <1>7, <1>8, SameCursor DEF IInv

LEMMA CreateStreamsSafe ==
  ASSUME FleetAssumption, IInv, NEW w \in Worker, CreateStreams(w)
  PROVE  IInv'
<1>1. FleetTypeOK'
  <2>1. accepts' \in [Worker -> [Stream -> BOOLEAN]]
    <3>1. \/ accepts' = [accepts EXCEPT ![w] = [i \in Stream |-> TRUE]]
          \/ accepts' = accepts
      BY DEF CreateStreams, Set
    <3>2. accepts \in [Worker -> [Stream -> BOOLEAN]]
      BY DEF IInv, FleetTypeOK
    <3>3. [i \in Stream |-> TRUE] \in [Stream -> BOOLEAN]
      OBVIOUS
    <3> QED BY <3>1, <3>2, <3>3
  <2>3. faults' \in 0 .. MaxFaults
    BY FaultsBounded DEF IInv, CreateStreams
  <2>2. phase' \in [Worker -> {"new", "starting", "running", "stopping", "stopped", "dead"}]
    BY DEF IInv, FleetTypeOK, CreateStreams, Set
  <2> QED BY <2>1, <2>2, <2>3 DEF IInv, FleetTypeOK, CreateStreams, cursorVars, rowVars
<1>2. \A v \in Worker \ {w} : Same(v)
  BY DEF IInv, FleetTypeOK, CreateStreams, Set, cursorVars, Same
<1>3. \A v \in Worker : \A r : Behind(v, r)' <=> Behind(v, r)
  BY DEF CreateStreams, cursorVars, Behind, Reached, NextRow
<1>4. phase[w] = "starting" /\ loop[w] = "task" /\ phase'[w] \in {"running", "dead"}
  BY DEF IInv, FleetTypeOK, CreateStreams, Set
<1>5. CursorInv(w)'
  BY <1>4 DEF CursorInv, OpenInv, CreateStreams, cursorVars, Reached, IInv
<1>6. \A v \in Worker : StreamInv(v)'
  BY <1>2, <1>4, SameStreams DEF IInv, CreateStreams, StreamInv, Same
<1>7. RowInv'
  BY <1>2, <1>3, <1>4 DEF IInv, CreateStreams, rowVars, RowInv, Same
<1>8. Whereabouts'
  BY DEF IInv, Whereabouts, CreateStreams, rowVars
<1> QED BY <1>1, <1>2, <1>5, <1>6, <1>7, <1>8, SameCursor DEF IInv

LEMMA NeedBatchSafe ==
  ASSUME FleetAssumption, IInv, NEW w \in Worker, NeedBatch(w)
  PROVE  IInv'
<1>1. FleetTypeOK'
  BY DEF IInv, FleetTypeOK, NeedBatch, Set, cursorVars, streamVars, rowVars
<1>2. \A v \in Worker \ {w} : Same(v)
  BY DEF IInv, FleetTypeOK, NeedBatch, Set, cursorVars, Same
<1>3. \A v \in Worker : \A r : Behind(v, r)' <=> Behind(v, r)
  BY DEF NeedBatch, cursorVars, Behind, Reached, NextRow
<1>4. /\ phase[w] = "running" /\ loop[w] = "task" /\ loop'[w] = "batch" /\ ~exhausted[w]
      /\ row_index[w] >= loaded[w] /\ UNCHANGED <<phase, cursorVars>>
  BY DEF IInv, FleetTypeOK, NeedBatch, InTask, Set
<1>5. CursorInv(w)'
  <2>1. loaded[w] <= row_index[w]
    BY <1>4 DEF IInv, FleetTypeOK
  <2>2. CursorInv(w)
    BY DEF IInv
  <2> QED BY <1>4, <2>1, <2>2 DEF CursorInv, OpenInv, cursorVars, Reached
<1>6. \A v \in Worker : StreamInv(v)'
  BY DEF IInv, NeedBatch, streamVars, StreamInv
<1>7. RowInv'
  BY <1>3 DEF IInv, NeedBatch, rowVars, RowInv
<1>8. Whereabouts'
  BY DEF IInv, Whereabouts, NeedBatch, rowVars, streamVars
<1> QED BY <1>1, <1>2, <1>5, <1>6, <1>7, <1>8, SameCursor DEF IInv

LEMMA StopSafe ==
  ASSUME FleetAssumption, IInv, NEW w \in Worker, Stop(w)
  PROVE  IInv'
<1>1. FleetTypeOK'
  BY DEF IInv, FleetTypeOK, Stop, Set, cursorVars, streamVars, rowVars
<1>2. \A v \in Worker \ {w} : Same(v)
  BY DEF IInv, FleetTypeOK, Stop, Set, cursorVars, Same
<1>3. \A v \in Worker : \A r : Behind(v, r)' <=> Behind(v, r)
  BY DEF Stop, cursorVars, Behind, Reached, NextRow
<1>4. /\ loop'[w] = "task" /\ UNCHANGED cursorVars
      /\ \/ phase[w] = "running" /\ phase'[w] = "stopping"
         \/ phase[w] = "starting" /\ phase'[w] = "stopped"
  BY DEF IInv, FleetTypeOK, Stop, Set
<1>5. CursorInv(w)'
  <2>1. CursorInv(w)
    BY DEF IInv
  <2> QED BY <1>4, <2>1 DEF CursorInv, OpenInv, cursorVars, Reached
<1>6. \A v \in Worker : StreamInv(v)'
  <2>1. StreamInv(w)'
    BY <1>4 DEF IInv, Stop, streamVars, StreamInv, FleetAssumption
  <2> QED BY <1>2, <2>1, SameStreams DEF IInv, Stop, streamVars, Same
<1>7. RowInv'
  BY <1>2, <1>3, <1>4 DEF IInv, Stop, rowVars, RowInv, Same
<1>8. Whereabouts'
  BY DEF IInv, Whereabouts, Stop, rowVars, streamVars
<1> QED BY <1>1, <1>2, <1>5, <1>6, <1>7, <1>8, SameCursor DEF IInv
-----------------------------------------------------------------------------
(* Nothing a stream does moves a cursor.                                   *)
LEMMA CursorsStay ==
  ASSUME FleetAssumption, IInv, UNCHANGED <<phase, loop, cursorVars, sends, skipped>>
  PROVE  (\A v \in Worker : CursorInv(v)') /\ RowInv'
<1>1. \A v \in Worker : Same(v)
  BY DEF cursorVars, Same
<1>2. \A v \in Worker : CursorInv(v)' /\ \A r : Behind(v, r)' <=> Behind(v, r)
  BY <1>1, SameCursor DEF IInv
<1> QED BY <1>2 DEF IInv, RowInv

LEMMA AcknowledgeSafe ==
  ASSUME FleetAssumption, IInv, NEW w \in Worker, NEW i \in Stream, Acknowledge(w, i)
  PROVE  IInv'
<1>1. PICK r \in inflight[w][i] : /\ inflight' = [inflight EXCEPT ![w][i] = @ \ {r}]
                                  /\ committed' = committed \union {r}
  BY DEF Acknowledge
<1>2. inflight \in [Worker -> [Stream -> SUBSET Row]] /\ r \in Row
  BY DEF IInv, FleetTypeOK
<1>3. /\ inflight' \in [Worker -> [Stream -> SUBSET Row]]
      /\ \A v \in Worker : \A j \in Stream :
           inflight'[v][j] = IF v = w /\ j = i THEN inflight[v][j] \ {r} ELSE inflight[v][j]
  BY <1>1, <1>2
<1>4. FleetTypeOK'
  BY <1>1, <1>2, <1>3 DEF IInv, FleetTypeOK, Acknowledge, cursorVars
<1>5. \A v \in Worker : StreamInv(v)'
  <2> SUFFICES ASSUME NEW v \in Worker PROVE StreamInv(v)'
    OBVIOUS
  <2>1. StreamInv(v) /\ UNCHANGED <<phase, closing>> /\ phase[w] \in {"running", "stopping"}
    BY DEF IInv, Acknowledge
  <2>2. CASE v = w
    <3>1. phase[v] = "stopping" => \A j \in 0 .. closing[v] - 1 : inflight'[v][j] = {}
      <4> SUFFICES ASSUME phase[v] = "stopping", NEW j \in 0 .. closing[v] - 1
                   PROVE  inflight'[v][j] = {}
        OBVIOUS
      <4>1. closing[v] \in Nat /\ closing[v] < STREAMS_PER_USER /\ inflight[v][j] = {}
        BY <2>1, Counters DEF StreamInv, IInv
      <4>2. j \in Stream
        BY <4>1, Counters DEF Stream, IInv
      <4> QED BY <4>1, <4>2, <1>3
    <3> QED BY <2>1, <2>2, <3>1 DEF StreamInv
  <2>3. CASE v # w
    BY <1>1, <1>2, <2>1, <2>3 DEF StreamInv
  <2> QED BY <2>2, <2>3
<1>6. Whereabouts'
  BY <1>1, <1>2, <1>3 DEF IInv, Whereabouts, Acknowledge
<1> QED BY <1>4, <1>5, <1>6, CursorsStay DEF IInv, Acknowledge

LEMMA StreamFailsSafe ==
  ASSUME FleetAssumption, IInv, NEW w \in Worker, NEW i \in Stream, StreamFails(w, i)
  PROVE  IInv'
<1>1. /\ inflight' = [inflight EXCEPT ![w][i] = {}]
      /\ orphaned' = orphaned \union inflight[w][i]
  BY DEF StreamFails
<1>2. inflight \in [Worker -> [Stream -> SUBSET Row]]
  BY DEF IInv, FleetTypeOK
<1>3. /\ inflight' \in [Worker -> [Stream -> SUBSET Row]]
      /\ \A v \in Worker : \A j \in Stream :
           inflight'[v][j] = IF v = w /\ j = i THEN {} ELSE inflight[v][j]
  BY <1>1, <1>2
<1>4. FleetTypeOK'
  <2>1. accepts' \in [Worker -> [Stream -> BOOLEAN]] /\ faults' \in 0 .. MaxFaults
    BY FaultsBounded DEF IInv, FleetTypeOK, StreamFails
  <2>2. orphaned' \subseteq Row
    BY <1>1, <1>2 DEF IInv, FleetTypeOK
  <2> QED BY <1>3, <2>1, <2>2 DEF IInv, FleetTypeOK, StreamFails, cursorVars
<1>5. \A v \in Worker : StreamInv(v)'
  <2> SUFFICES ASSUME NEW v \in Worker PROVE StreamInv(v)'
    OBVIOUS
  <2>1. StreamInv(v) /\ UNCHANGED <<phase, closing>> /\ phase[w] = "running"
    BY DEF IInv, StreamFails
  <2> QED BY <1>1, <1>2, <2>1 DEF StreamInv
<1>6. Whereabouts'
  BY <1>1, <1>2, <1>3 DEF IInv, Whereabouts, StreamFails
<1> QED BY <1>4, <1>5, <1>6, CursorsStay DEF IInv, StreamFails

LEMMA CloseStreamSafe ==
  ASSUME FleetAssumption, IInv, NEW w \in Worker, CloseStream(w)
  PROVE  IInv'
<1> DEFINE i == closing[w]
<1>1. /\ phase[w] = "stopping" /\ inflight' = [inflight EXCEPT ![w][i] = {}]
      /\ closing' = [closing EXCEPT ![w] = i + 1]
      /\ phase' = [phase EXCEPT ![w] = IF i + 1 = STREAMS_PER_USER THEN "stopped" ELSE "stopping"]
      /\ \/ committed' = committed \union inflight[w][i] /\ orphaned' = orphaned
         \/ orphaned' = orphaned \union inflight[w][i] /\ committed' = committed
      /\ Fine \/ Fault
      /\ UNCHANGED <<loop, cursorVars, stream_idx, accepts, sends, skipped>>
  BY DEF CloseStream, Set
<1>2. /\ inflight \in [Worker -> [Stream -> SUBSET Row]]
      /\ closing \in [Worker -> 0 .. STREAMS_PER_USER]
      /\ phase \in [Worker -> {"new", "starting", "running", "stopping", "stopped", "dead"}]
  BY DEF IInv, FleetTypeOK
<1>3. i \in Nat /\ i < STREAMS_PER_USER /\ STREAMS_PER_USER \in Nat /\ i \in Stream
  <2>1. i \in Nat /\ i < STREAMS_PER_USER /\ STREAMS_PER_USER \in Nat
    BY <1>1, Counters DEF IInv, StreamInv
  <2> QED BY <2>1 DEF Stream
<1>4. /\ inflight' \in [Worker -> [Stream -> SUBSET Row]]
      /\ \A v \in Worker : \A j \in Stream :
           inflight'[v][j] = IF v = w /\ j = i THEN {} ELSE inflight[v][j]
  BY <1>1, <1>2, <1>3
<1>5. FleetTypeOK'
  <2>1. closing' \in [Worker -> 0 .. STREAMS_PER_USER]
    BY <1>1, <1>2, <1>3
  <2>2. faults' \in 0 .. MaxFaults
    BY <1>1, FaultsBounded DEF IInv
  <2>3. inflight[w][i] \subseteq Row
    BY <1>2, <1>3
  <2>4. phase' \in [Worker -> {"new", "starting", "running", "stopping", "stopped", "dead"}]
    BY <1>1, <1>2
  <2> QED BY <1>1, <1>4, <2>1, <2>2, <2>3, <2>4 DEF IInv, FleetTypeOK, cursorVars
<1>6. \A v \in Worker \ {w} : Same(v)
  BY <1>1, <1>2 DEF cursorVars, Same
<1>7. CursorInv(w)'
  <2>1. CursorInv(w) /\ phase'[w] \in {"stopping", "stopped"}
    BY <1>1, <1>2 DEF IInv
  <2> QED BY <1>1, <2>1 DEF CursorInv, OpenInv, cursorVars, Reached
<1>8. \A v \in Worker : StreamInv(v)'
  <2>1. StreamInv(w)'
    <3>1. \A j \in 0 .. i : inflight'[w][j] = {}
      <4> SUFFICES ASSUME NEW j \in 0 .. i PROVE inflight'[w][j] = {}
        OBVIOUS
      <4>1. j \in Stream /\ (j # i => j \in 0 .. i - 1)
        BY <1>3 DEF Stream
      <4>2. j # i => inflight[w][j] = {}
        BY <1>1, <4>1 DEF IInv, StreamInv
      <4> QED BY <1>4, <4>1, <4>2
    <3>2. closing'[w] = i + 1 /\ closing'[w] - 1 = i
      BY <1>1, <1>2, <1>3
    <3>3. CASE i + 1 = STREAMS_PER_USER
      <4>1. phase'[w] = "stopped"
        BY <1>1, <1>2, <3>3
      <4>2. \A j \in Stream : inflight'[w][j] = {}
        BY <1>3, <3>1, <3>3 DEF Stream
      <4>3. inflight'[w] = NoRows
        BY <1>4, <4>2 DEF NoRows
      <4> QED BY <4>1, <4>3 DEF StreamInv
    <3>4. CASE i + 1 # STREAMS_PER_USER
      <4>1. phase'[w] = "stopping" /\ i + 1 < STREAMS_PER_USER
        BY <1>1, <1>2, <1>3, <3>4
      <4>2. \A j \in 0 .. closing'[w] - 1 : inflight'[w][j] = {}
        BY <3>1, <3>2
      <4>3. closing'[w] < STREAMS_PER_USER
        BY <3>2, <4>1
      <4> QED BY <4>1, <4>2, <4>3 DEF StreamInv
    <3> QED BY <3>3, <3>4
  <2> QED BY <1>1, <1>2, <2>1, <1>6, SameStreams DEF IInv, Same
<1>9. RowInv'
  <2>1. \A v \in Worker : \A r : Behind(v, r)' <=> Behind(v, r)
    BY <1>1 DEF cursorVars, Behind, Reached, NextRow
  <2>2. \A v \in Worker : phase'[v] \in {"new", "starting", "dead"} => phase'[v] = phase[v]
    BY <1>1, <1>2
  <2> QED BY <1>1, <2>1, <2>2 DEF IInv, RowInv
<1>10. Whereabouts'
  <2> SUFFICES ASSUME NEW r \in Row
               PROVE  sends'[r] = 1 <=>
                        \/ r \in committed' \/ r \in orphaned'
                        \/ \E v \in Worker : \E j \in Stream : r \in inflight'[v][j]
    BY DEF Whereabouts
  <2>1. sends'[r] = 1 <=> \/ r \in committed \/ r \in orphaned
                         \/ \E v \in Worker : \E j \in Stream : r \in inflight[v][j]
    BY <1>1 DEF IInv, Whereabouts
  <2>2. CASE r \in inflight[w][i]
    BY <1>1, <1>3, <2>1, <2>2
  <2>3. CASE r \notin inflight[w][i]
    <3>1. \A v \in Worker : \A j \in Stream : r \in inflight'[v][j] <=> r \in inflight[v][j]
      BY <1>4, <2>3
    <3> QED BY <1>1, <2>1, <2>3, <3>1
  <2> QED BY <2>2, <2>3
<1> QED BY <1>5, <1>6, <1>7, <1>8, <1>9, <1>10, SameCursor DEF IInv
-----------------------------------------------------------------------------
(* What raises in on_start ends a user that has sent nothing.              *)
LEMMA ReadingSafe ==
  ASSUME FleetAssumption, IInv, NEW w \in Worker, UNCHANGED <<streamVars, rowVars>>,
         UNCHANGED phase \/ Raise(w)
  PROVE  /\ \A v \in Worker : StreamInv(v)'
         /\ Whereabouts'
         /\ \A v \in Worker : phase'[v] \in {"new", "starting", "dead"} =>
              phase[v] \in {"new", "starting", "dead"}
         /\ phase' \in [Worker -> {"new", "starting", "running", "stopping", "stopped", "dead"}]
         /\ \A v \in Worker \ {w} : phase'[v] = phase[v]
<1>1. phase \in [Worker -> {"new", "starting", "running", "stopping", "stopped", "dead"}]
  BY DEF IInv, FleetTypeOK
<1>2. /\ phase' \in [Worker -> {"new", "starting", "running", "stopping", "stopped", "dead"}]
      /\ \A v \in Worker : \/ phase'[v] = phase[v]
                           \/ v = w /\ phase[v] = "starting" /\ phase'[v] = "dead"
  BY <1>1 DEF Raise, Set
<1>3. \A v \in Worker : StreamInv(v)'
  BY <1>2 DEF IInv, StreamInv, streamVars
<1>4. Whereabouts'
  BY DEF IInv, Whereabouts, rowVars, streamVars
<1> QED BY <1>2, <1>3, <1>4

(* The rows of a worker, while the file that is open and the place in it   *)
(* stay as they are.                                                       *)
LEMMA BehindByReached ==
  ASSUME FleetAssumption, IInv, NEW w \in Worker,
         UNCHANGED <<open, yielded, loaded, row_index>>, NEW D \in SUBSET Row,
         \A y \in Year, k \in Nat : HasKey(w, y, k) /\ Reached(w, y, k) => Reached(w, y, k)',
         \A y \in Year, k \in Nat : HasKey(w, y, k) /\ Reached(w, y, k)' /\ ~Reached(w, y, k) =>
            Key(w, y, k) # open[w] /\ \A r \in Row : r[1] = Key(w, y, k) => r \in D,
         \A r \in D : \E y \in Year, k \in Nat :
            HasKey(w, y, k) /\ Reached(w, y, k)' /\ ~Reached(w, y, k) /\ r[1] = Key(w, y, k)
  PROVE  /\ \A r \in Row : Behind(w, r)' <=> Behind(w, r) \/ r \in D
         /\ \A r \in D : \A v \in Worker : ~Behind(v, r)
<1>1. NextRow(w)' = NextRow(w)
  BY DEF NextRow
<1>2. \A r \in Row : Behind(w, r) => Behind(w, r)'
  BY <1>1 DEF Behind
<1>3. \A r \in D : Behind(w, r)'
  <2> SUFFICES ASSUME NEW r \in D PROVE Behind(w, r)'
    OBVIOUS
  <2>1. PICK y \in Year, k \in Nat :
          HasKey(w, y, k) /\ Reached(w, y, k)' /\ ~Reached(w, y, k) /\ r[1] = Key(w, y, k)
    OBVIOUS
  <2>2. r[1] # open'[w]
    BY <2>1
  <2> QED BY <2>1, <2>2 DEF Behind, HasKey, Key
<1>4. \A r \in Row : Behind(w, r)' => Behind(w, r) \/ r \in D
  <2> SUFFICES ASSUME NEW r \in Row, Behind(w, r)' PROVE Behind(w, r) \/ r \in D
    OBVIOUS
  <2>1. PICK y \in Year, k \in Nat :
          /\ HasKey(w, y, k) /\ r[1] = Key(w, y, k) /\ Reached(w, y, k)'
          /\ r[1] = open[w] => r[2] < NextRow(w)
    BY <1>1 DEF Behind, HasKey, Key
  <2>2. CASE Reached(w, y, k)
    BY <2>1, <2>2 DEF Behind
  <2>3. CASE ~Reached(w, y, k)
    BY <2>1, <2>3
  <2> QED BY <2>2, <2>3
<1>5. \A r \in D : \A v \in Worker : ~Behind(v, r)
  <2> SUFFICES ASSUME NEW r \in D, NEW v \in Worker, Behind(v, r) PROVE FALSE
    OBVIOUS
  <2>1. PICK y \in Year, k \in Nat :
          HasKey(w, y, k) /\ ~Reached(w, y, k) /\ r[1] = Key(w, y, k)
    OBVIOUS
  <2>2. PICK z \in Year, j \in Nat : r[1] = Key(v, z, j) /\ Reached(v, z, j)
    BY DEF Behind
  <2>3. Key(w, y, k) = Key(v, z, j)
    BY <2>1, <2>2
  <2>4. w = v /\ y = z /\ k = j
    BY <2>3, KeysApart
  <2> QED BY <2>1, <2>2, <2>4
<1> QED BY <1>2, <1>3, <1>4, <1>5

(* The cursor of a worker that reads, and what of it has changed.          *)
LEMMA ReaderIs ==
  ASSUME FleetAssumption, IInv, NEW w \in Worker, Looping(w, "file"), ~exhausted[w]
  PROVE  /\ year_idx[w] <= Len(Files) /\ listed[w] <= year_idx[w] /\ loaded[w] = 0
         /\ open[w] # NotOpen => yielded[w] = NumRows(open[w]) /\ open[w][1] <= listed[w]
         /\ phase[w] \in {"starting", "running"} /\ loop[w] = "file" /\ CursorInv(w)
<1>1. CursorInv(w) /\ phase[w] \in {"starting", "running"} /\ loop[w] = "file"
  BY DEF IInv, Looping
<1> QED BY <1>1, Counters DEF IInv, CursorInv, OpenInv

LEMMA OpenStays ==
  ASSUME NEW w \in Worker, CursorInv(w), UNCHANGED <<open, yielded>>,
         open[w] # NotOpen => open[w][1] <= listed'[w],
         \A y \in Year, k \in Nat : HasKey(w, y, k) /\ Reached(w, y, k) => Reached(w, y, k)'
  PROVE  OpenInv(w)'
<1> SUFFICES ASSUME open[w] # NotOpen
             PROVE  \E k \in Nat : /\ HasKey(w, open[w][1], k) /\ open[w] = Key(w, open[w][1], k)
                                   /\ Reached(w, open[w][1], k)'
  BY DEF OpenInv, CursorInv, HasKey, Key
<1> DEFINE y == open[w][1]
<1>1. PICK k \in Nat : HasKey(w, y, k) /\ open[w] = Key(w, y, k) /\ Reached(w, y, k)
  BY DEF OpenInv, CursorInv
<1>2. y \in Year
  BY <1>1 DEF HasKey
<1> QED BY <1>1, <1>2

LEMMA NextYearMoves ==
  ASSUME FleetAssumption, IInv, NEW w \in Worker, NextYear(w)
  PROVE  \E D \in SUBSET Row :
           /\ skipped' = skipped \union D
           /\ \A r \in Row : Behind(w, r)' <=> Behind(w, r) \/ r \in D
           /\ \A r \in D : \A v \in Worker : ~Behind(v, r)
           /\ CursorInv(w)'
<1>1. /\ Looping(w, "file") /\ ~exhausted[w] /\ ~HasKey(w, listed[w], file_idx[w])
      /\ year_idx' = [year_idx EXCEPT ![w] = year_idx[w] + 1]
      /\ UNCHANGED <<open, yielded, loaded, row_index>>
  BY DEF NextYear, Set
<1>2. /\ year_idx[w] <= Len(Files) /\ listed[w] <= year_idx[w] /\ loaded[w] = 0
      /\ open[w] # NotOpen => yielded[w] = NumRows(open[w]) /\ open[w][1] <= listed[w]
      /\ phase[w] \in {"starting", "running"} /\ loop[w] = "file" /\ CursorInv(w)
  BY <1>1, ReaderIs
<1>3. /\ year_idx[w] \in Nat /\ listed[w] \in Nat /\ file_idx[w] \in Nat /\ Len(Files) \in Nat
      /\ open[w] = NotOpen \/ open[w] \in File
  BY Counters DEF IInv
<1>4. year_idx'[w] = year_idx[w] + 1
  BY <1>1 DEF IInv, FleetTypeOK
<1>5. \A k \in Nat : HasKey(w, listed[w], k) => k < file_idx[w]
  BY <1>1, <1>3, KeysBelow
<1>6. CASE /\ year_idx[w] + 1 > Len(Files)
           /\ exhausted' = [exhausted EXCEPT ![w] = TRUE]
           /\ Return(w)
           /\ UNCHANGED <<listed, file_idx, skipped>>
  <2>1. year_idx[w] = Len(Files)
    BY <1>2, <1>3, <1>6
  <2>2. \A y \in Year, k \in Nat : Reached(w, y, k)' <=> Reached(w, y, k)
    BY <1>4, <1>6, <2>1 DEF Reached, Year
  <2>3. \A r \in Row : Behind(w, r)' <=> Behind(w, r)
    BY <1>1, <2>2 DEF Behind, NextRow, HasKey, Key
  <2>4. exhausted'[w] /\ loop'[w] = "task" /\ phase' = phase
    BY <1>6 DEF IInv, FleetTypeOK, Return, Set
  <2>5. CursorInv(w)'
    <3>1. OpenInv(w)'
      BY <1>1, <1>2, <1>6, <2>2, OpenStays
    <3>2. ~HasKey(w, listed'[w], file_idx'[w]) /\ listed'[w] <= year_idx'[w]
      BY <1>1, <1>2, <1>3, <1>4, <1>6
    <3> QED BY <1>1, <1>2, <1>4, <2>1, <2>4, <3>1, <3>2 DEF CursorInv
  <2>6. /\ {} \in SUBSET Row /\ skipped' = skipped \union {}
        /\ \A r \in Row : Behind(w, r)' <=> Behind(w, r) \/ r \in {}
    BY <1>6, <2>3
  <2> QED BY <2>5, <2>6
<1>7. CASE /\ year_idx[w] + 1 <= Len(Files)
           /\ listed' = [listed EXCEPT ![w] = year_idx[w] + 1]
           /\ file_idx' = [file_idx EXCEPT ![w] = 0]
           /\ UNCHANGED <<phase, loop, exhausted, skipped>>
  <2>1. listed'[w] = year_idx[w] + 1 /\ file_idx'[w] = 0
    BY <1>7 DEF IInv, FleetTypeOK
  <2>2. \A y \in Year, k \in Nat : HasKey(w, y, k) => (Reached(w, y, k)' <=> Reached(w, y, k))
    BY <1>2, <1>3, <1>4, <1>5, <2>1 DEF Reached, Year
  <2>3. \A r \in Row : Behind(w, r)' <=> Behind(w, r)
    BY <1>1, <2>2 DEF Behind, NextRow, HasKey, Key
  <2>4. CursorInv(w)'
    <3>1. OpenInv(w)'
      <4>1. open[w] # NotOpen => open[w][1] \in Year
        BY <1>3, FileIs
      <4>2. open[w] # NotOpen => open[w][1] <= listed'[w]
        BY <1>2, <1>3, <2>1, <4>1 DEF Year
      <4> QED BY <1>1, <1>2, <2>2, <4>2, OpenStays
    <3>3. listed'[w] <= year_idx'[w] /\ year_idx'[w] # Len(Files) + 1 /\ year_idx'[w] # 0
      BY <1>3, <1>4, <1>7, <2>1
    <3> QED BY <1>1, <1>2, <1>7, <3>1, <3>3 DEF CursorInv
  <2> QED BY <1>7, <2>3, <2>4
<1>8. CASE /\ year_idx[w] + 1 <= Len(Files) /\ Raise(w)
           /\ skipped' = skipped \union RowsIn(Slice(w, year_idx[w] + 1))
           /\ UNCHANGED <<exhausted, listed, file_idx>>
  <2> DEFINE z == year_idx[w] + 1
             D == RowsIn(Slice(w, z))
  <2>1. z \in Year /\ D \in SUBSET Row
    BY <1>3, <1>8 DEF Year, RowsIn
  <2>2. \A y \in Year, k \in Nat :
          Reached(w, y, k)' <=> Reached(w, y, k) \/ y = z
    BY <1>2, <1>3, <1>4, <1>8 DEF Reached, Year
  <2>3. \A k \in Nat : ~Reached(w, z, k)
    BY <1>3 DEF Reached
  <2>4. \A k \in Nat : Key(w, z, k) # open[w]
    <3>1. NotOpen[1] = 0
      BY DEF NotOpen
    <3>2. open[w][1] # z
      <4>1. open[w] # NotOpen => open[w][1] \in Year
        BY <1>3, FileIs
      <4> QED BY <1>2, <1>3, <3>1, <4>1 DEF Year
    <3> QED BY <3>2 DEF Key
  <2>5. \A r \in Row : r \in D <=> \E k \in Nat : HasKey(w, z, k) /\ r[1] = Key(w, z, k)
    BY SliceIs DEF RowsIn
  <2>6. /\ \A r \in Row : Behind(w, r)' <=> Behind(w, r) \/ r \in D
        /\ \A r \in D : \A v \in Worker : ~Behind(v, r)
    <3>1. \A y \in Year, k \in Nat : HasKey(w, y, k) /\ Reached(w, y, k) => Reached(w, y, k)'
      BY <2>2
    <3>2. \A y \in Year, k \in Nat : HasKey(w, y, k) /\ Reached(w, y, k)' /\ ~Reached(w, y, k) =>
            Key(w, y, k) # open[w] /\ \A r \in Row : r[1] = Key(w, y, k) => r \in D
      BY <2>2, <2>4, <2>5
    <3>3. \A r \in D : \E y \in Year, k \in Nat :
            HasKey(w, y, k) /\ Reached(w, y, k)' /\ ~Reached(w, y, k) /\ r[1] = Key(w, y, k)
      BY <2>1, <2>2, <2>3, <2>5
    <3> HIDE DEF D
    <3> QED BY <1>1, <2>1, <3>1, <3>2, <3>3, BehindByReached
  <2>7. loop'[w] = "task" /\ phase'[w] \in {phase[w], "dead"}
    BY <1>8, <1>2 DEF IInv, FleetTypeOK, Raise, Set
  <2>8. CursorInv(w)'
    <3>1. OpenInv(w)'
      BY <1>1, <1>2, <1>8, <2>2, OpenStays
    <3>2. listed'[w] <= year_idx'[w] /\ year_idx'[w] # Len(Files) + 1 /\ ~exhausted'[w]
      BY <1>1, <1>2, <1>3, <1>4, <1>8
    <3>3. phase'[w] = "running" => open[w] # NotOpen
      <4>1. phase'[w] = "running" => phase[w] = "running"
        BY <1>2, <2>7
      <4> QED BY <1>1, <1>2, <4>1 DEF CursorInv
    <3>4. phase'[w] # "new" /\ ~(phase'[w] = "starting")
      BY <1>8, <1>2 DEF IInv, FleetTypeOK, Raise, Set
    <3> QED BY <1>1, <1>2, <1>8, <2>7, <3>1, <3>2, <3>3, <3>4 DEF CursorInv
  <2> QED BY <1>8, <2>1, <2>6, <2>8
<1> QED BY <1>6, <1>7, <1>8 DEF NextYear, Set

(* A call that reads on, and where it leaves the cursor.                   *)
LEMMA ReadingOn ==
  ASSUME FleetAssumption, IInv, NEW w \in Worker, FleetTypeOK',
         UNCHANGED <<streamVars, rowVars>>, UNCHANGED phase \/ Raise(w),
         \A v \in Worker \ {w} : Same(v),
         \E D \in SUBSET Row :
           /\ skipped' = skipped \union D
           /\ \A r \in Row : Behind(w, r)' <=> Behind(w, r) \/ r \in D
           /\ \A r \in D : \A v \in Worker : ~Behind(v, r)
           /\ CursorInv(w)'
  PROVE  IInv'
<1>1. PICK D \in SUBSET Row :
        /\ skipped' = skipped \union D
        /\ \A r \in Row : Behind(w, r)' <=> Behind(w, r) \/ r \in D
        /\ \A r \in D : \A v \in Worker : ~Behind(v, r)
        /\ CursorInv(w)'
  OBVIOUS
<1>2. /\ \A v \in Worker : StreamInv(v)'
      /\ Whereabouts'
      /\ \A v \in Worker : phase'[v] \in {"new", "starting", "dead"} =>
           phase[v] \in {"new", "starting", "dead"}
  BY ReadingSafe
<1>3. RowInv'
  <2>1. \A v \in Worker : \A r \in Row : Behind(v, r)' <=> Behind(v, r) \/ (v = w /\ r \in D)
    BY <1>1, SameCursor
  <2>2. \A r \in D : ~Behind(w, r) /\ \A v \in Worker : ~Behind(v, r)
    BY <1>1
  <2> QED BY <1>1, <1>2, <2>1, <2>2, RowsPassed DEF IInv, rowVars
<1> QED BY <1>1, <1>2, <1>3, SameCursor DEF IInv

LEMMA NextYearSafe ==
  ASSUME FleetAssumption, IInv, NEW w \in Worker, NextYear(w)
  PROVE  IInv'
<1>1. /\ UNCHANGED <<open, yielded, loaded, row_index, streamVars, rowVars>>
      /\ UNCHANGED phase \/ Raise(w)
      /\ year_idx' = [year_idx EXCEPT ![w] = year_idx[w] + 1]
      /\ exhausted' = exhausted \/ exhausted' = [exhausted EXCEPT ![w] = TRUE]
      /\ \/ listed' = listed
         \/ /\ listed' = [listed EXCEPT ![w] = year_idx[w] + 1]
            /\ year_idx[w] + 1 <= Len(Files)
      /\ file_idx' = file_idx \/ file_idx' = [file_idx EXCEPT ![w] = 0]
      /\ loop' = loop \/ loop' = [loop EXCEPT ![w] = "task"]
      /\ Looping(w, "file") /\ ~exhausted[w]
      /\ Fine \/ Fault
  BY DEF NextYear, Set, Return, Raise
<1>2. \A v \in Worker \ {w} : Same(v)
  BY ZenonT(60), <1>1, ReadingSafe DEF IInv, FleetTypeOK, Same
<1>3. FleetTypeOK'
  <2>1. year_idx[w] + 1 \in 0 .. Len(Files) + 1
    BY <1>1, Counters, ReaderIs DEF IInv
  <2>2. year_idx' \in [Worker -> 0 .. Len(Files) + 1]
    BY <1>1, <2>1 DEF IInv, FleetTypeOK
  <2>3. listed' \in [Worker -> 0 .. Len(Files)]
    <3>1. year_idx[w] + 1 <= Len(Files) => year_idx[w] + 1 \in 0 .. Len(Files)
      BY Counters DEF IInv
    <3>2. listed \in [Worker -> 0 .. Len(Files)]
      BY DEF IInv, FleetTypeOK
    <3> QED BY <1>1, <3>1, <3>2
  <2>4. file_idx' \in [Worker -> Nat]
    <3>1. file_idx \in [Worker -> Nat]
      BY DEF IInv, FleetTypeOK
    <3> QED BY <1>1, <3>1
  <2>5. exhausted' \in [Worker -> BOOLEAN] /\ loop' \in [Worker -> {"file", "batch", "task"}]
    BY <1>1 DEF IInv, FleetTypeOK
  <2>6. skipped' \subseteq Row
    BY NextYearMoves DEF IInv, FleetTypeOK
  <2>7. faults' \in 0 .. MaxFaults
    BY <1>1, FaultsBounded DEF IInv
  <2>8. phase' \in [Worker -> {"new", "starting", "running", "stopping", "stopped", "dead"}]
    BY <1>1, ReadingSafe
  <2> QED BY <1>1, <2>2, <2>3, <2>4, <2>5, <2>6, <2>7, <2>8
          DEF IInv, FleetTypeOK, streamVars, rowVars
<1> QED BY <1>1, <1>2, <1>3, NextYearMoves, ReadingOn

LEMMA OpenFileMoves ==
  ASSUME FleetAssumption, IInv, NEW w \in Worker, OpenFile(w)
  PROVE  \E D \in SUBSET Row :
           /\ skipped' = skipped \union D
           /\ \A r \in Row : Behind(w, r)' <=> Behind(w, r) \/ r \in D
           /\ \A r \in D : \A v \in Worker : ~Behind(v, r)
           /\ CursorInv(w)'
<1>0. PICK y0 \in Nat, k0 \in Nat : y0 = listed[w] /\ k0 = file_idx[w]
  BY Counters DEF IInv
<1> DEFINE key == Key(w, y0, k0)
<1>1. /\ Looping(w, "file") /\ ~exhausted[w] /\ HasKey(w, y0, k0)
      /\ file_idx' = [file_idx EXCEPT ![w] = k0 + 1]
      /\ UNCHANGED <<exhausted, year_idx, listed, loaded, row_index>>
  BY <1>0 DEF OpenFile, Set
<1>2. /\ year_idx[w] <= Len(Files) /\ y0 <= year_idx[w] /\ loaded[w] = 0
      /\ open[w] # NotOpen => yielded[w] = NumRows(open[w]) /\ open[w][1] <= y0
      /\ phase[w] \in {"starting", "running"} /\ loop[w] = "file" /\ CursorInv(w)
  BY <1>0, <1>1, ReaderIs
<1>3. /\ year_idx[w] \in Nat /\ y0 \in Nat /\ k0 \in Nat /\ Len(Files) \in Nat
      /\ open[w] = NotOpen \/ open[w] \in File
      /\ row_index[w] \in Nat
  BY <1>0, Counters DEF IInv
<1>4. file_idx'[w] = k0 + 1
  BY <1>1 DEF IInv, FleetTypeOK
<1>5. y0 \in Year /\ key \in File /\ key # NotOpen /\ key[1] = y0
  BY <1>1, FileTypes DEF HasKey, NotOpen, Key
<1>6. \A y \in Year, k \in Nat : Reached(w, y, k)' <=> Reached(w, y, k) \/ (y = y0 /\ k = k0)
  BY <1>0, <1>1, <1>2, <1>3, <1>4 DEF Reached
<1>7. ~Reached(w, y0, k0)
  BY <1>0, <1>3 DEF Reached
<1>8. \A y \in Year, k \in Nat : Key(w, y, k) = key => y = y0 /\ k = k0
  BY <1>3, KeysApart
<1>9. CASE /\ open' = [open EXCEPT ![w] = key] /\ yielded' = [yielded EXCEPT ![w] = 0]
           /\ loop' = [loop EXCEPT ![w] = "batch"]
           /\ UNCHANGED <<phase, skipped>>
  <2>1. open'[w] = key /\ yielded'[w] = 0 /\ loop'[w] = "batch"
    BY <1>9 DEF IInv, FleetTypeOK
  <2>2. NextRow(w)' = 0
    BY <1>1, <1>2, <1>3, <2>1 DEF NextRow
  <2>3. ASSUME NEW r \in Row PROVE Behind(w, r)' <=> Behind(w, r)
    <3>1. r[1] = open[w] => r[2] < NextRow(w)
      <4> SUFFICES ASSUME r[1] = open[w] PROVE r[2] < NextRow(w)
        OBVIOUS
      <4>1. r[1] \in File /\ r[2] \in 0 .. NumRows(r[1]) - 1 /\ NumRows(r[1]) \in Nat
        BY RowIs, FileTypes
      <4>2. open[w] # NotOpen
        BY <4>1, FileTypes DEF NotOpen
      <4>3. NextRow(w) = NumRows(open[w])
        BY <1>2, <1>3, <4>1, <4>2 DEF NextRow
      <4> QED BY <4>1, <4>3
    <3>2. r[2] \in Nat
      BY RowIs
    <3>3. Behind(w, r)' => Behind(w, r)
      <4> SUFFICES ASSUME Behind(w, r)' PROVE Behind(w, r)
        OBVIOUS
      <4>1. PICK y \in Year, k \in Nat :
              /\ HasKey(w, y, k) /\ r[1] = Key(w, y, k) /\ Reached(w, y, k)'
              /\ r[1] = key => r[2] < 0
        BY <2>1, <2>2 DEF Behind, HasKey, Key
      <4>2. r[1] # key
        BY <3>2, <4>1
      <4>3. Reached(w, y, k)
        BY <1>6, <4>1, <4>2
      <4> QED BY <3>1, <4>1, <4>3 DEF Behind
    <3>4. Behind(w, r) => Behind(w, r)'
      <4> SUFFICES ASSUME Behind(w, r) PROVE Behind(w, r)'
        OBVIOUS
      <4>1. PICK y \in Year, k \in Nat :
              HasKey(w, y, k) /\ r[1] = Key(w, y, k) /\ Reached(w, y, k)
        BY DEF Behind
      <4>2. r[1] # key
        BY <1>7, <1>8, <4>1
      <4>3. Reached(w, y, k)'
        BY <1>6, <4>1
      <4> QED BY <2>1, <4>1, <4>2, <4>3 DEF Behind, HasKey, Key
    <3> QED BY <3>3, <3>4
  <2>4. CursorInv(w)'
    <3>1. Reached(w, y0, k0)'
      BY <1>5, <1>3, <1>6
    <3>2. OpenInv(w)'
      <4>1. yielded'[w] <= NumRows(key)
        BY <1>5, <2>1, FileTypes
      <4> QED BY <1>0, <1>1, <1>3, <1>5, <2>1, <3>1, <4>1 DEF OpenInv, HasKey, Key
    <3> QED BY <1>0, <1>1, <1>2, <1>3, <1>5, <1>9, <2>1, <3>2 DEF CursorInv
  <2>5. {} \in SUBSET Row /\ skipped' = skipped \union {}
    BY <1>9
  <2> QED BY <2>3, <2>4, <2>5
<1>10. CASE /\ Raise(w) /\ skipped' = skipped \union RowsIn({key})
            /\ UNCHANGED <<open, yielded>>
  <2> DEFINE D == RowsIn({key})
  <2>1. D \in SUBSET Row /\ \A r \in Row : r \in D <=> r[1] = key
    BY DEF RowsIn
  <2>2. key # open[w]
    <3>1. CASE open[w] = NotOpen
      BY <1>5, <3>1
    <3>2. CASE open[w] # NotOpen
      <4>1. PICK k \in Nat : /\ HasKey(w, open[w][1], k) /\ open[w] = Key(w, open[w][1], k)
                             /\ Reached(w, open[w][1], k)
        BY <1>2, <3>2 DEF CursorInv, OpenInv
      <4>2. open[w][1] \in Year
        BY <4>1 DEF HasKey
      <4> QED BY <1>7, <1>8, <4>1, <4>2
    <3> QED BY <3>1, <3>2
  <2>3. /\ \A r \in Row : Behind(w, r)' <=> Behind(w, r) \/ r \in D
        /\ \A r \in D : \A v \in Worker : ~Behind(v, r)
    <3>1. \A y \in Year, k \in Nat : HasKey(w, y, k) /\ Reached(w, y, k) => Reached(w, y, k)'
      BY <1>6
    <3>2. \A y \in Year, k \in Nat : HasKey(w, y, k) /\ Reached(w, y, k)' /\ ~Reached(w, y, k) =>
            Key(w, y, k) # open[w] /\ \A r \in Row : r[1] = Key(w, y, k) => r \in D
      BY <1>6, <2>1, <2>2
    <3>3. \A r \in D : \E y \in Year, k \in Nat :
            HasKey(w, y, k) /\ Reached(w, y, k)' /\ ~Reached(w, y, k) /\ r[1] = Key(w, y, k)
      <4>1. Reached(w, y0, k0)'
        BY <1>5, <1>3, <1>6
      <4> QED BY <1>1, <1>3, <1>5, <1>7, <2>1, <4>1
    <3> HIDE DEF D
    <3> QED BY <1>1, <1>10, <2>1, <3>1, <3>2, <3>3, BehindByReached
  <2>4. loop'[w] = "task" /\ phase'[w] = IF phase[w] = "starting" THEN "dead" ELSE phase[w]
    BY <1>10 DEF IInv, FleetTypeOK, Raise, Set
  <2>5. CursorInv(w)'
    <3>1. OpenInv(w)'
      BY <1>0, <1>1, <1>2, <1>6, <1>10, OpenStays
    <3>2. phase'[w] = "running" => open[w] # NotOpen
      BY <1>1, <1>2, <2>4 DEF CursorInv
    <3> QED BY <1>0, <1>1, <1>2, <1>10, <2>4, <3>1, <3>2 DEF CursorInv
  <2> QED BY <1>10, <2>1, <2>3, <2>5
<1> QED BY <1>0, <1>9, <1>10 DEF OpenFile, Set

LEMMA OpenFileSafe ==
  ASSUME FleetAssumption, IInv, NEW w \in Worker, OpenFile(w)
  PROVE  IInv'
<1> DEFINE key == Key(w, listed[w], file_idx[w])
<1>1. /\ UNCHANGED <<exhausted, year_idx, listed, loaded, row_index, streamVars, rowVars>>
      /\ UNCHANGED phase \/ Raise(w)
      /\ file_idx' = [file_idx EXCEPT ![w] = file_idx[w] + 1]
      /\ open' = open \/ open' = [open EXCEPT ![w] = key]
      /\ yielded' = yielded \/ yielded' = [yielded EXCEPT ![w] = 0]
      /\ loop' = [loop EXCEPT ![w] = "batch"] \/ loop' = [loop EXCEPT ![w] = "task"]
      /\ key \in File
      /\ Fine \/ Fault
  BY DEF OpenFile, Set, Raise, HasKey
<1>2. \A v \in Worker \ {w} : Same(v)
  <2>1. \A v \in Worker \ {w} : phase'[v] = phase[v]
    BY <1>1, ReadingSafe
  <2>2. \A v \in Worker \ {w} : open'[v] = open[v]
    BY <1>1 DEF IInv, FleetTypeOK
  <2>3. \A v \in Worker \ {w} : yielded'[v] = yielded[v]
    BY <1>1 DEF IInv, FleetTypeOK
  <2>4. \A v \in Worker \ {w} : file_idx'[v] = file_idx[v] /\ loop'[v] = loop[v]
    BY <1>1 DEF IInv, FleetTypeOK
  <2> QED BY <1>1, <2>1, <2>2, <2>3, <2>4 DEF Same
<1>3. FleetTypeOK'
  <2>1. file_idx' \in [Worker -> Nat]
    <3>1. file_idx \in [Worker -> Nat] /\ file_idx[w] + 1 \in Nat
      BY DEF IInv, FleetTypeOK
    <3> QED BY <1>1, <3>1
  <2>2. yielded' \in [Worker -> Nat]
    <3>1. yielded \in [Worker -> Nat]
      BY DEF IInv, FleetTypeOK
    <3> QED BY <1>1, <3>1
  <2>3. open' \in [Worker -> File \union {<<0, 0>>}]
    <3>1. open \in [Worker -> File \union {<<0, 0>>}]
      BY DEF IInv, FleetTypeOK
    <3> HIDE DEF key
    <3> QED BY <1>1, <3>1
  <2>4. loop' \in [Worker -> {"file", "batch", "task"}]
    BY <1>1 DEF IInv, FleetTypeOK
  <2>5. skipped' \subseteq Row
    BY OpenFileMoves DEF IInv, FleetTypeOK
  <2>6. faults' \in 0 .. MaxFaults
    BY <1>1, FaultsBounded DEF IInv
  <2>7. phase' \in [Worker -> {"new", "starting", "running", "stopping", "stopped", "dead"}]
    BY <1>1, ReadingSafe
  <2> QED BY <1>1, <2>1, <2>2, <2>3, <2>4, <2>5, <2>6, <2>7
          DEF IInv, FleetTypeOK, streamVars, rowVars
<1> QED BY <1>1, <1>2, <1>3, OpenFileMoves, ReadingOn
-----------------------------------------------------------------------------
(* The rows of a worker when it moves on in the file that is open.         *)
LEMMA BehindByRow ==
  ASSUME FleetAssumption, IInv, NEW w \in Worker, open[w] # NotOpen,
         UNCHANGED <<year_idx, listed, file_idx>>, open'[w] = open[w],
         NEW a \in Nat, NEW b \in Nat, a <= b, b <= NumRows(open[w]),
         NextRow(w) = a, NextRow(w)' = b
  PROVE  /\ RowsOf(open[w], a, b) \in SUBSET Row
         /\ \A r \in Row : Behind(w, r)' <=> Behind(w, r) \/ r \in RowsOf(open[w], a, b)
         /\ \A r \in RowsOf(open[w], a, b) : \A v \in Worker : ~Behind(v, r)
<1>1. open[w] \in File /\ NumRows(open[w]) \in Nat
  BY Counters, FileTypes DEF IInv
<1>2. PICK y \in Year, k \in Nat : HasKey(w, y, k) /\ open[w] = Key(w, y, k) /\ Reached(w, y, k)
  BY DEF IInv, CursorInv, OpenInv, HasKey
<1>3. \A z \in Year, j \in Nat : Reached(w, z, j)' <=> Reached(w, z, j)
  BY DEF Reached
<1>4. \A r \in Row : r \in RowsOf(open[w], a, b) <=> r[1] = open[w] /\ a <= r[2] /\ r[2] < b
  <2> SUFFICES ASSUME NEW r \in Row
               PROVE  r \in RowsOf(open[w], a, b) <=> r[1] = open[w] /\ a <= r[2] /\ r[2] < b
    OBVIOUS
  <2>1. r = <<r[1], r[2]>> /\ r[1] \in File /\ r[2] \in 0 .. NumRows(r[1]) - 1
        /\ NumRows(r[1]) \in Nat
    BY RowIs, FileTypes
  <2>2. CASE r \in RowsOf(open[w], a, b)
    <3>1. PICK q \in a .. b - 1 : r = <<open[w], q>>
      BY <2>2 DEF RowsOf
    <3> QED BY <2>1, <2>2, <3>1
  <2>3. CASE r[1] = open[w] /\ a <= r[2] /\ r[2] < b
    <3>1. r[2] \in a .. b - 1
      BY <2>1, <2>3
    <3> QED BY <2>1, <2>3, <3>1 DEF RowsOf
  <2> QED BY <2>2, <2>3
<1>5. RowsOf(open[w], a, b) \in SUBSET Row
  <2> SUFFICES ASSUME NEW q \in a .. b - 1 PROVE <<open[w], q>> \in Row
    BY DEF RowsOf
  <2>1. q \in 0 .. NumRows(open[w]) - 1
    BY <1>1
  <2> QED BY <1>1, <2>1, RowIs
<1>6. ASSUME NEW r \in Row, r[1] # open[w]
      PROVE  Behind(w, r)' <=> Behind(w, r)
  BY <1>3, <1>6 DEF Behind, HasKey, Key
<1>7. ASSUME NEW r \in Row, r[1] = open[w]
      PROVE  (Behind(w, r) <=> r[2] < a) /\ (Behind(w, r)' <=> r[2] < b)
  <2>1. Behind(w, r) <=> r[2] < a
    BY <1>2, <1>7 DEF Behind
  <2>2. Behind(w, r)' <=> r[2] < b
    BY <1>2, <1>3, <1>7 DEF Behind, HasKey, Key
  <2> QED BY <2>1, <2>2
<1>8. \A r \in Row : Behind(w, r)' <=> Behind(w, r) \/ r \in RowsOf(open[w], a, b)
  <2> SUFFICES ASSUME NEW r \in Row
               PROVE  Behind(w, r)' <=> Behind(w, r) \/ r \in RowsOf(open[w], a, b)
    OBVIOUS
  <2>1. r[2] \in Int
    BY RowIs
  <2> QED BY <1>4, <1>6, <1>7, <2>1
<1>9. \A r \in RowsOf(open[w], a, b) : \A v \in Worker : ~Behind(v, r)
  <2> SUFFICES ASSUME NEW r \in RowsOf(open[w], a, b), NEW v \in Worker, Behind(v, r)
               PROVE  FALSE
    OBVIOUS
  <2>1. r \in Row /\ r[1] = open[w] /\ a <= r[2] /\ r[2] \in Int
    BY <1>4, <1>5, RowIs
  <2>2. ~Behind(w, r)
    BY <1>7, <2>1
  <2>3. PICK z \in Year, j \in Nat : r[1] = Key(v, z, j)
    BY DEF Behind
  <2>4. Key(w, y, k) = Key(v, z, j)
    BY <1>2, <2>1, <2>3
  <2>5. w = v
    BY <2>4, KeysApart
  <2> QED BY <2>2, <2>5
<1> QED BY <1>5, <1>8, <1>9

(* How a load ends: with a batch, with rows that are skipped, or at the    *)
(* end of the file.                                                        *)
LEMMA LoadBatchIs ==
  ASSUME FleetAssumption, IInv, NEW w \in Worker, LoadBatch(w)
  PROVE  /\ UNCHANGED <<exhausted, year_idx, listed, file_idx, open, streamVars, rowVars>>
         /\ ~exhausted[w] /\ loop[w] = "batch" /\ phase[w] \in {"starting", "running"}
         /\ open[w] # NotOpen /\ loaded[w] <= row_index[w] /\ NextRow(w) = yielded[w]
         /\ \E to \in Nat, left \in Nat :
              /\ yielded[w] <= to /\ to <= NumRows(open[w]) /\ left <= to
              /\ yielded' = [yielded EXCEPT ![w] = to]
              /\ loaded' = [loaded EXCEPT ![w] = left]
              /\ \/ /\ left > 0 /\ to = yielded[w] + left
                    /\ row_index' = [row_index EXCEPT ![w] = 0]
                    /\ loop' = [loop EXCEPT ![w] = "task"]
                    /\ UNCHANGED <<phase, skipped, faults>>
                 \/ /\ left = 0 /\ UNCHANGED row_index
                    /\ Raise(w) /\ Fault
                    /\ skipped' = skipped \union RowsOf(open[w], yielded[w], to)
                 \/ /\ left = 0 /\ to = yielded[w] /\ to = NumRows(open[w])
                    /\ loop' = [loop EXCEPT ![w] = "file"]
                    /\ UNCHANGED <<phase, row_index, skipped, faults>>
<1>1. /\ ~exhausted[w] /\ loop[w] = "batch" /\ phase[w] \in {"starting", "running"}
      /\ open[w] # NotOpen /\ loaded[w] <= row_index[w]
      /\ yielded[w] <= NumRows(open[w])
  BY DEF LoadBatch, Looping, IInv, CursorInv, OpenInv
<1>2. /\ yielded[w] \in Nat /\ loaded[w] \in Nat /\ row_index[w] \in Nat
      /\ NumRows(open[w]) \in Nat
  BY <1>1, Counters, FileTypes DEF IInv
<1>3. NextRow(w) = yielded[w]
  BY <1>1, <1>2 DEF NextRow
<1>4. UNCHANGED <<exhausted, year_idx, listed, file_idx, open, streamVars, rowVars>>
  BY DEF LoadBatch
<1> DEFINE Ends(to, left) ==
             /\ yielded[w] <= to /\ to <= NumRows(open[w]) /\ left <= to
             /\ yielded' = [yielded EXCEPT ![w] = to]
             /\ loaded' = [loaded EXCEPT ![w] = left]
             /\ \/ /\ left > 0 /\ to = yielded[w] + left
                   /\ row_index' = [row_index EXCEPT ![w] = 0]
                   /\ loop' = [loop EXCEPT ![w] = "task"]
                   /\ UNCHANGED <<phase, skipped, faults>>
                \/ /\ left = 0 /\ UNCHANGED row_index
                   /\ Raise(w) /\ Fault
                   /\ skipped' = skipped \union RowsOf(open[w], yielded[w], to)
                \/ /\ left = 0 /\ to = yielded[w] /\ to = NumRows(open[w])
                   /\ loop' = [loop EXCEPT ![w] = "file"]
                   /\ UNCHANGED <<phase, row_index, skipped, faults>>
<1>5. \E to \in Nat, left \in Nat : Ends(to, left)
  <2>1. ASSUME NEW n \in 1 .. BATCH_SIZE,
               yielded[w] + n <= NumRows(open[w]), Set(yielded, w, yielded[w] + n),
               Set(loaded, w, n), Set(row_index, w, 0), Return(w), Fine, UNCHANGED skipped
        PROVE  \E to \in Nat, left \in Nat : Ends(to, left)
    <3>1. n \in Nat /\ n > 0 /\ yielded[w] + n \in Nat
      BY <1>2 DEF FleetAssumption
    <3>2. Ends(yielded[w] + n, n)
      BY <1>2, <2>1, <3>1 DEF Set, Return, Fine
    <3> HIDE DEF Ends
    <3> QED BY <3>1, <3>2
  <2>2. ASSUME NEW n \in 1 .. BATCH_SIZE,
               yielded[w] + n <= NumRows(open[w]), Set(yielded, w, yielded[w] + n),
               Set(loaded, w, 0), UNCHANGED row_index, Raise(w), Fault,
               skipped' = skipped \union RowsOf(open[w], yielded[w], yielded[w] + n)
        PROVE  \E to \in Nat, left \in Nat : Ends(to, left)
    <3>1. n \in Nat /\ n > 0 /\ yielded[w] + n \in Nat
      BY <1>2 DEF FleetAssumption
    <3>2. Ends(yielded[w] + n, 0)
      BY <1>2, <2>2, <3>1 DEF Set
    <3> HIDE DEF Ends
    <3> QED BY <3>1, <3>2
  <2>3. ASSUME Set(yielded, w, NumRows(open[w])),
               Set(loaded, w, 0), UNCHANGED row_index, Raise(w), Fault,
               skipped' = skipped \union RowsOf(open[w], yielded[w], NumRows(open[w]))
        PROVE  \E to \in Nat, left \in Nat : Ends(to, left)
    <3>2. Ends(NumRows(open[w]), 0)
      BY <1>1, <1>2, <2>3 DEF Set
    <3> HIDE DEF Ends
    <3> QED BY <1>2, <3>2
  <2>4. ASSUME yielded[w] = NumRows(open[w]), Set(loaded, w, 0), Set(loop, w, "file"), Fine,
               UNCHANGED <<phase, yielded, row_index, skipped>>
        PROVE  \E to \in Nat, left \in Nat : Ends(to, left)
    <3>1. yielded' = [yielded EXCEPT ![w] = yielded[w]]
      BY <2>4 DEF IInv, FleetTypeOK
    <3>2. yielded[w] <= yielded[w] /\ yielded[w] <= NumRows(open[w]) /\ 0 <= yielded[w]
      BY <1>2, <2>4
    <3>3. /\ yielded' = [yielded EXCEPT ![w] = yielded[w]]
          /\ loaded' = [loaded EXCEPT ![w] = 0] /\ loop' = [loop EXCEPT ![w] = "file"]
      BY <2>4, <3>1 DEF Set
    <3>4. Ends(yielded[w], 0)
      BY <2>4, <3>2, <3>3 DEF Fine
    <3> HIDE DEF Ends
    <3> QED BY <1>2, <3>4
  <2> HIDE DEF Ends
  <2> QED BY <2>1, <2>2, <2>3, <2>4 DEF LoadBatch
<1> QED BY <1>1, <1>3, <1>4, <1>5

LEMMA LoadBatchSafe ==
  ASSUME FleetAssumption, IInv, NEW w \in Worker, LoadBatch(w)
  PROVE  IInv'
<1>1. /\ UNCHANGED <<exhausted, year_idx, listed, file_idx, open, streamVars, rowVars>>
      /\ ~exhausted[w] /\ loop[w] = "batch" /\ phase[w] \in {"starting", "running"}
      /\ open[w] # NotOpen /\ loaded[w] <= row_index[w] /\ NextRow(w) = yielded[w]
  BY LoadBatchIs
<1>2. PICK to \in Nat, left \in Nat :
        /\ yielded[w] <= to /\ to <= NumRows(open[w]) /\ left <= to
        /\ yielded' = [yielded EXCEPT ![w] = to]
        /\ loaded' = [loaded EXCEPT ![w] = left]
        /\ \/ /\ left > 0 /\ to = yielded[w] + left
              /\ row_index' = [row_index EXCEPT ![w] = 0]
              /\ loop' = [loop EXCEPT ![w] = "task"]
              /\ UNCHANGED <<phase, skipped, faults>>
           \/ /\ left = 0 /\ UNCHANGED row_index
              /\ Raise(w) /\ Fault
              /\ skipped' = skipped \union RowsOf(open[w], yielded[w], to)
           \/ /\ left = 0 /\ to = yielded[w] /\ to = NumRows(open[w])
              /\ loop' = [loop EXCEPT ![w] = "file"]
              /\ UNCHANGED <<phase, row_index, skipped, faults>>
  BY LoadBatchIs
<1>3. /\ yielded[w] \in Nat /\ loaded[w] \in Nat /\ row_index[w] \in Nat
      /\ NumRows(open[w]) \in Nat
  BY <1>1, Counters, FileTypes DEF IInv
<1>4. /\ UNCHANGED phase \/ Raise(w)
      /\ \/ loop' = [loop EXCEPT ![w] = "task"] \/ loop' = [loop EXCEPT ![w] = "file"]
      /\ row_index' = row_index \/ row_index' = [row_index EXCEPT ![w] = 0]
      /\ Fine \/ Fault
  BY <1>2 DEF Raise, Set, Fine
<1>5. yielded'[w] = to /\ loaded'[w] = left
  BY <1>2 DEF IInv, FleetTypeOK
<1>6. \A v \in Worker \ {w} : Same(v)
  <2>1. \A v \in Worker \ {w} : phase'[v] = phase[v]
    BY <1>1, <1>4, ReadingSafe
  <2>2. \A v \in Worker \ {w} : yielded'[v] = yielded[v] /\ loaded'[v] = loaded[v]
    BY <1>2 DEF IInv, FleetTypeOK
  <2>3. \A v \in Worker \ {w} : loop'[v] = loop[v] /\ row_index'[v] = row_index[v]
    BY <1>4 DEF IInv, FleetTypeOK
  <2> QED BY <1>1, <2>1, <2>2, <2>3 DEF Same
<1>7. OpenInv(w)'
  <2>1. OpenInv(w)
    BY DEF IInv, CursorInv
  <2> QED BY <1>1, <1>2, <1>5, <2>1 DEF OpenInv, Reached
<1>8. CursorInv(w)
  BY DEF IInv
<1>9. \E D \in SUBSET Row :
        /\ skipped' = skipped \union D
        /\ \A r \in Row : Behind(w, r)' <=> Behind(w, r) \/ r \in D
        /\ \A r \in D : \A v \in Worker : ~Behind(v, r)
        /\ CursorInv(w)'
  <2>1. CASE left > 0
    <3>1. /\ to = yielded[w] + left /\ row_index' = [row_index EXCEPT ![w] = 0]
          /\ loop' = [loop EXCEPT ![w] = "task"] /\ UNCHANGED <<phase, skipped, faults>>
      BY <1>2, <2>1
    <3>2. row_index'[w] = 0 /\ loop'[w] = "task"
      BY <3>1 DEF IInv, FleetTypeOK
    <3>3. NextRow(w)' = yielded[w]
      BY <1>3, <1>5, <2>1, <3>1, <3>2 DEF NextRow
    <3>4. \A r \in Row : Behind(w, r)' <=> Behind(w, r)
      BY <1>1, <3>3 DEF Behind, Reached, HasKey, Key
    <3>5. CursorInv(w)'
      BY <1>1, <1>2, <1>5, <1>7, <1>8, <3>1, <3>2 DEF CursorInv
    <3>6. skipped' = skipped \union {} /\ {} \in SUBSET Row
      BY <3>1
    <3> QED BY <3>4, <3>5, <3>6
  <2>2. CASE left = 0
    <3>1. NextRow(w)' = to
      <4>1. row_index'[w] \in Nat
        BY <1>3, <1>4 DEF IInv, FleetTypeOK
      <4> QED BY <1>5, <2>2, <4>1 DEF NextRow
    <3>2. /\ RowsOf(open[w], yielded[w], to) \in SUBSET Row
          /\ \A r \in Row : Behind(w, r)' <=> Behind(w, r) \/ r \in RowsOf(open[w], yielded[w], to)
          /\ \A r \in RowsOf(open[w], yielded[w], to) : \A v \in Worker : ~Behind(v, r)
      BY <1>1, <1>2, <1>3, <3>1, BehindByRow
    <3>3. skipped' = skipped \union RowsOf(open[w], yielded[w], to)
      <4>1. CASE to = yielded[w] /\ UNCHANGED skipped
        <5>1. RowsOf(open[w], yielded[w], to) = {}
          BY <1>3, <4>1 DEF RowsOf
        <5> QED BY <4>1, <5>1
      <4> QED BY <1>2, <2>2, <4>1
    <3>4. CursorInv(w)'
      <4>1. CASE Raise(w)
        <5>1. /\ loop'[w] = "task"
              /\ phase'[w] = IF phase[w] = "starting" THEN "dead" ELSE phase[w]
          BY <4>1 DEF IInv, FleetTypeOK, Raise, Set
        <5> QED BY <1>1, <1>2, <1>5, <1>7, <1>8, <2>2, <5>1 DEF CursorInv
      <4>2. CASE /\ to = NumRows(open[w]) /\ loop' = [loop EXCEPT ![w] = "file"]
                 /\ UNCHANGED phase
        <5>1. loop'[w] = "file"
          BY <4>2 DEF IInv, FleetTypeOK
        <5> QED BY <1>1, <1>2, <1>5, <1>7, <1>8, <2>2, <4>2, <5>1 DEF CursorInv
      <4> QED BY <1>2, <2>2, <4>1, <4>2
    <3> QED BY <3>2, <3>3, <3>4
  <2> QED BY <2>1, <2>2
<1>10. FleetTypeOK'
  <2>1. yielded' \in [Worker -> Nat] /\ loaded' \in [Worker -> Nat]
    BY <1>2 DEF IInv, FleetTypeOK
  <2>2. row_index' \in [Worker -> Nat]
    <3>1. row_index \in [Worker -> Nat]
      BY DEF IInv, FleetTypeOK
    <3> QED BY <1>4, <3>1
  <2>3. loop' \in [Worker -> {"file", "batch", "task"}]
    BY <1>4 DEF IInv, FleetTypeOK
  <2>4. skipped' \subseteq Row
    BY <1>9 DEF IInv, FleetTypeOK
  <2>5. faults' \in 0 .. MaxFaults
    BY <1>4, FaultsBounded DEF IInv
  <2>6. phase' \in [Worker -> {"new", "starting", "running", "stopping", "stopped", "dead"}]
    BY <1>1, <1>4, ReadingSafe
  <2> QED BY <1>1, <2>1, <2>2, <2>3, <2>4, <2>5, <2>6
          DEF IInv, FleetTypeOK, streamVars, rowVars
<1> QED BY <1>1, <1>4, <1>6, <1>9, <1>10, ReadingOn
-----------------------------------------------------------------------------
(* The row that is next, and that no worker is past.                       *)
LEMMA CurrentRowIs ==
  ASSUME FleetAssumption, IInv, NEW w \in Worker, IngestRow(w)
  PROVE  /\ phase[w] = "running" /\ loop[w] = "task" /\ ~exhausted[w] /\ open[w] # NotOpen
         /\ NextRow(w) \in Nat /\ NextRow(w) + 1 <= NumRows(open[w])
         /\ NextRow(w) = yielded[w] - loaded[w] + row_index[w]
         /\ RowsOf(open[w], NextRow(w), NextRow(w) + 1) = {CurrentRow(w)}
         /\ row_index[w] < loaded[w] /\ stream_idx[w] \in Stream
<1>1. /\ phase[w] = "running" /\ loop[w] = "task" /\ ~exhausted[w] /\ open[w] # NotOpen
      /\ row_index[w] < loaded[w] /\ loaded[w] <= yielded[w] /\ yielded[w] <= NumRows(open[w])
  BY DEF IngestRow, InTask, IInv, CursorInv, OpenInv
<1>2. /\ yielded[w] \in Nat /\ loaded[w] \in Nat /\ row_index[w] \in Nat
      /\ NumRows(open[w]) \in Nat
  BY <1>1, Counters, FileTypes DEF IInv
<1>3. NextRow(w) = yielded[w] - loaded[w] + row_index[w]
  BY <1>1 DEF NextRow
<1>4. NextRow(w) \in Nat /\ NextRow(w) + 1 <= NumRows(open[w])
  BY <1>1, <1>2, <1>3
<1>5. RowsOf(open[w], NextRow(w), NextRow(w) + 1) = {CurrentRow(w)}
  <2>1. \A q : q \in NextRow(w) .. NextRow(w) + 1 - 1 <=> q = NextRow(w)
    BY <1>4
  <2> QED BY <1>3, <2>1 DEF RowsOf, CurrentRow
<1> QED BY <1>1, <1>3, <1>4, <1>5 DEF IInv, FleetTypeOK

LEMMA SendSafe ==
  ASSUME FleetAssumption, IInv, NEW w \in Worker, IngestRow(w),
         NEW i \in Stream,
         sends' = [sends EXCEPT ![CurrentRow(w)] = @ + 1],
         inflight' = [inflight EXCEPT ![w][i] = @ \union {CurrentRow(w)}],
         row_index' = [row_index EXCEPT ![w] = row_index[w] + 1],
         UNCHANGED orphaned
  PROVE  /\ \A v \in Worker : CursorInv(v)'
         /\ RowInv' /\ Whereabouts'
         /\ sends' \in [Row -> Nat] /\ inflight' \in [Worker -> [Stream -> SUBSET Row]]
         /\ row_index' \in [Worker -> Nat]
<1> DEFINE r0 == CurrentRow(w)
<1>1. /\ phase[w] = "running" /\ loop[w] = "task" /\ ~exhausted[w] /\ open[w] # NotOpen
      /\ NextRow(w) \in Nat /\ NextRow(w) + 1 <= NumRows(open[w])
      /\ NextRow(w) = yielded[w] - loaded[w] + row_index[w]
      /\ RowsOf(open[w], NextRow(w), NextRow(w) + 1) = {r0}
      /\ row_index[w] < loaded[w]
  BY CurrentRowIs
<1>2. UNCHANGED <<phase, loop, exhausted, year_idx, listed, file_idx, open, yielded, loaded,
                  closing, committed, skipped>>
  BY DEF IngestRow
<1>3. /\ yielded[w] \in Nat /\ loaded[w] \in Nat /\ row_index[w] \in Nat
  BY Counters DEF IInv
<1>4. row_index' \in [Worker -> Nat] /\ row_index'[w] = row_index[w] + 1
  BY <1>3 DEF IInv, FleetTypeOK
<1>5. NextRow(w)' = NextRow(w) + 1
  BY <1>1, <1>2, <1>3, <1>4 DEF NextRow
<1>6. /\ r0 \in Row
      /\ \A r \in Row : Behind(w, r)' <=> Behind(w, r) \/ r = r0
      /\ \A v \in Worker : ~Behind(v, r0)
  <2> HIDE DEF r0
  <2>1. /\ {r0} \in SUBSET Row
        /\ \A r \in Row : Behind(w, r)' <=> Behind(w, r) \/ r \in {r0}
        /\ \A r \in {r0} : \A v \in Worker : ~Behind(v, r)
    <3>1. PICK x \in Nat, y \in Nat : x = NextRow(w) /\ y = NextRow(w) + 1
      BY <1>1
    <3>2. x <= y /\ y <= NumRows(open[w]) /\ NextRow(w) = x /\ NextRow(w)' = y
      BY <1>1, <1>5, <3>1
    <3>3. RowsOf(open[w], x, y) = {r0}
      BY <1>1, <3>1
    <3>4. UNCHANGED <<year_idx, listed, file_idx>> /\ open'[w] = open[w]
      BY <1>2
    <3>5. /\ RowsOf(open[w], x, y) \in SUBSET Row
          /\ \A r \in Row : Behind(w, r)' <=> Behind(w, r) \/ r \in RowsOf(open[w], x, y)
          /\ \A r \in RowsOf(open[w], x, y) : \A v \in Worker : ~Behind(v, r)
      BY <1>1, <3>1, <3>2, <3>4, BehindByRow
    <3> QED BY <3>3, <3>5
  <2> QED BY <2>1
<1>7. \A v \in Worker \ {w} : Same(v)
  BY <1>2 DEF IInv, FleetTypeOK, Same
<1>8. \A v \in Worker : CursorInv(v)'
  <2>1. CursorInv(w)'
    <3>1. CursorInv(w)
      BY DEF IInv
    <3> QED BY <1>1, <1>2, <3>1 DEF CursorInv, OpenInv, Reached
  <2> QED BY <1>7, <2>1, SameCursor DEF IInv
<1>9. sends[r0] = 0 /\ r0 \notin skipped
  BY <1>6 DEF IInv, RowInv
<1>10. /\ sends' \in [Row -> Nat] /\ sends'[r0] = 1
       /\ \A r \in Row : r # r0 => sends'[r] = sends[r]
  <2> HIDE DEF r0
  <2>1. sends \in [Row -> Nat] /\ sends' = [sends EXCEPT ![r0] = @ + 1]
    BY DEF IInv, FleetTypeOK, r0
  <2> QED BY <1>6, <1>9, <2>1
<1>11. RowInv'
  <2> SUFFICES ASSUME NEW r \in Row
               PROVE  /\ sends'[r] = 0 \/ (sends'[r] = 1 /\ r \notin skipped')
                      /\ (sends'[r] = 1 \/ r \in skipped') <=> \E v \in Worker : Behind(v, r)'
                      /\ \A v \in Worker :
                           phase'[v] \in {"new", "starting", "dead"} /\ Behind(v, r)' => sends'[r] = 0
    BY DEF RowInv
  <2>1. \A v \in Worker : Behind(v, r)' <=> Behind(v, r) \/ (v = w /\ r = r0)
    BY <1>6, <1>7, SameCursor
  <2>2. CASE r = r0
    BY <1>1, <1>2, <1>6, <1>9, <1>10, <2>1, <2>2
  <2>3. CASE r # r0
    <3>1. sends'[r] = sends[r] /\ \A v \in Worker : Behind(v, r)' <=> Behind(v, r)
      BY <1>10, <2>1, <2>3
    <3> QED BY <1>2, <3>1 DEF IInv, RowInv
  <2> QED BY <2>2, <2>3
<1>12. /\ inflight' \in [Worker -> [Stream -> SUBSET Row]]
       /\ \A v \in Worker : \A j \in Stream :
            inflight'[v][j] = IF v = w /\ j = i THEN inflight[v][j] \union {r0} ELSE inflight[v][j]
  <2> HIDE DEF r0
  <2>1. /\ inflight \in [Worker -> [Stream -> SUBSET Row]]
        /\ inflight' = [inflight EXCEPT ![w][i] = @ \union {r0}]
    BY DEF IInv, FleetTypeOK, r0
  <2>2. PICK S \in SUBSET Row : S = inflight[w][i] \union {r0}
    BY ZenonT(60), <1>6, <2>1
  <2>3. inflight' = [inflight EXCEPT ![w][i] = S]
    BY <2>1, <2>2
  <2>4. /\ inflight' \in [Worker -> [Stream -> SUBSET Row]]
        /\ \A v \in Worker : \A j \in Stream :
             inflight'[v][j] = IF v = w /\ j = i THEN S ELSE inflight[v][j]
    <3>1. PICK f \in [Stream -> SUBSET Row] : f = [inflight[w] EXCEPT ![i] = S]
      BY <2>1
    <3>2. inflight' = [inflight EXCEPT ![w] = f]
      BY <2>1, <2>3, <3>1
    <3>3. \A j \in Stream : f[j] = IF j = i THEN S ELSE inflight[w][j]
      BY <2>1, <3>1
    <3> QED BY <2>1, <3>2, <3>3
  <2> QED BY <2>2, <2>4
<1>13. Whereabouts'
  <2> SUFFICES ASSUME NEW r \in Row
               PROVE  sends'[r] = 1 <=>
                        \/ r \in committed' \/ r \in orphaned'
                        \/ \E v \in Worker : \E j \in Stream : r \in inflight'[v][j]
    BY DEF Whereabouts
  <2>1. CASE r = r0
    BY <1>10, <1>12, <2>1
  <2>2. CASE r # r0
    <3>1. \A v \in Worker : \A j \in Stream : r \in inflight'[v][j] <=> r \in inflight[v][j]
      BY <1>12, <2>2
    <3> QED BY <1>2, <1>10, <2>2, <3>1 DEF IInv, Whereabouts
  <2> QED BY <2>1, <2>2
<1> QED BY <1>4, <1>8, <1>10, <1>11, <1>12, <1>13

LEMMA IngestRowSafe ==
  ASSUME FleetAssumption, IInv, NEW w \in Worker, IngestRow(w)
  PROVE  IInv'
<1>1. PICK i \in Stream : i = stream_idx[w]
  BY CurrentRowIs
<1>2. /\ phase[w] = "running"
      /\ stream_idx' = [stream_idx EXCEPT ![w] = (stream_idx[w] + 1) % STREAMS_PER_USER]
      /\ accepts' = accepts \/ accepts' = [accepts EXCEPT ![w][i] = TRUE]
      /\ UNCHANGED <<phase, loop, exhausted, year_idx, listed, file_idx, open, yielded, loaded,
                     closing, committed, skipped>>
      /\ Fine \/ Fault
      /\ \/ /\ sends' = [sends EXCEPT ![CurrentRow(w)] = @ + 1]
            /\ inflight' = [inflight EXCEPT ![w][i] = @ \union {CurrentRow(w)}]
            /\ row_index' = [row_index EXCEPT ![w] = row_index[w] + 1]
            /\ UNCHANGED orphaned
         \/ /\ orphaned' = orphaned \union inflight[w][i]
            /\ inflight' = [inflight EXCEPT ![w][i] = {}]
            /\ UNCHANGED <<sends, row_index>>
         \/ UNCHANGED <<orphaned, inflight, sends, row_index>>
  BY <1>1, CurrentRowIs DEF IngestRow, Set
<1>3. inflight \in [Worker -> [Stream -> SUBSET Row]]
  BY DEF IInv, FleetTypeOK
<1>4. /\ \A v \in Worker : CursorInv(v)'
      /\ RowInv' /\ Whereabouts'
      /\ sends' \in [Row -> Nat] /\ inflight' \in [Worker -> [Stream -> SUBSET Row]]
      /\ row_index' \in [Worker -> Nat] /\ orphaned' \subseteq Row
  <2>1. CASE /\ sends' = [sends EXCEPT ![CurrentRow(w)] = @ + 1]
             /\ inflight' = [inflight EXCEPT ![w][i] = @ \union {CurrentRow(w)}]
             /\ row_index' = [row_index EXCEPT ![w] = row_index[w] + 1]
             /\ UNCHANGED orphaned
    BY <2>1, SendSafe DEF IInv, FleetTypeOK
  <2>2. CASE /\ orphaned' = orphaned \union inflight[w][i]
             /\ inflight' = [inflight EXCEPT ![w][i] = {}]
             /\ UNCHANGED <<sends, row_index>>
    <3>1. (\A v \in Worker : CursorInv(v)') /\ RowInv'
      BY <1>2, <2>2, CursorsStay DEF cursorVars
    <3>2. /\ inflight' \in [Worker -> [Stream -> SUBSET Row]]
          /\ \A v \in Worker : \A j \in Stream :
               inflight'[v][j] = IF v = w /\ j = i THEN {} ELSE inflight[v][j]
      BY <1>3, <2>2
    <3>3. Whereabouts'
      BY <1>2, <1>3, <2>2, <3>2 DEF IInv, Whereabouts
    <3> QED BY <1>3, <2>2, <3>1, <3>2, <3>3 DEF IInv, FleetTypeOK
  <2>3. CASE UNCHANGED <<orphaned, inflight, sends, row_index>>
    <3>1. (\A v \in Worker : CursorInv(v)') /\ RowInv'
      BY <1>2, <2>3, CursorsStay DEF cursorVars
    <3> QED BY <1>2, <2>3, <3>1 DEF IInv, FleetTypeOK, Whereabouts
  <2> QED BY <1>2, <2>1, <2>2, <2>3
<1>5. FleetTypeOK'
  <2>1. stream_idx' \in [Worker -> Stream]
    <3>1. stream_idx \in [Worker -> Stream] /\ STREAMS_PER_USER \in Nat /\ STREAMS_PER_USER > 0
      BY Counters DEF IInv, FleetTypeOK
    <3>2. stream_idx[w] \in Int
      BY <3>1 DEF Stream
    <3>3. (stream_idx[w] + 1) % STREAMS_PER_USER \in Stream
      BY <3>1, <3>2 DEF Stream
    <3> QED BY <1>2, <3>1, <3>3
  <2>2. accepts' \in [Worker -> [Stream -> BOOLEAN]]
    <3>1. accepts \in [Worker -> [Stream -> BOOLEAN]]
      BY DEF IInv, FleetTypeOK
    <3> QED BY ZenonT(60), <1>2, <3>1
  <2>3. faults' \in 0 .. MaxFaults
    BY <1>2, FaultsBounded DEF IInv
  <2> QED BY <1>2, <1>4, <2>1, <2>2, <2>3 DEF IInv, FleetTypeOK
<1>6. \A v \in Worker : StreamInv(v)'
  <2>1. StreamInv(w)'
    BY <1>2 DEF IInv, StreamInv
  <2>2. \A v \in Worker \ {w} : inflight'[v] = inflight[v]
    BY <1>2, <1>3
  <2> QED BY <1>2, <2>1, <2>2, SameStreams DEF IInv
<1> QED BY <1>4, <1>5, <1>6 DEF IInv
-----------------------------------------------------------------------------
(* A user that is started again has sent nothing, and its rows are nobody  *)
(* else's.                                                                 *)
LEMMA RespawnSafe ==
  ASSUME FleetAssumption, IInv, NEW w \in Worker, Respawn(w)
  PROVE  IInv'
<1> DEFINE Own == RowsIn(UNION {Slice(w, y) : y \in Year})
<1>1. /\ phase[w] = "dead" /\ phase' = [phase EXCEPT ![w] = "new"]
      /\ loop' = [loop EXCEPT ![w] = "task"] /\ exhausted' = [exhausted EXCEPT ![w] = FALSE]
      /\ year_idx' = [year_idx EXCEPT ![w] = 0] /\ listed' = [listed EXCEPT ![w] = 0]
      /\ file_idx' = [file_idx EXCEPT ![w] = 0] /\ open' = [open EXCEPT ![w] = <<0, 0>>]
      /\ yielded' = [yielded EXCEPT ![w] = 0] /\ loaded' = [loaded EXCEPT ![w] = 0]
      /\ row_index' = [row_index EXCEPT ![w] = 0]
      /\ skipped' = skipped \ Own
      /\ UNCHANGED <<streamVars, rowVars, faults>>
  BY DEF Respawn, Set
<1>2. /\ phase'[w] = "new" /\ loop'[w] = "task" /\ exhausted'[w] = FALSE /\ year_idx'[w] = 0
      /\ listed'[w] = 0 /\ file_idx'[w] = 0 /\ open'[w] = NotOpen /\ yielded'[w] = 0
      /\ loaded'[w] = 0 /\ row_index'[w] = 0
  <2>1. /\ phase \in [Worker -> {"new", "starting", "running", "stopping", "stopped", "dead"}]
        /\ loop \in [Worker -> {"file", "batch", "task"}] /\ exhausted \in [Worker -> BOOLEAN]
        /\ year_idx \in [Worker -> 0 .. Len(Files) + 1] /\ listed \in [Worker -> 0 .. Len(Files)]
        /\ file_idx \in [Worker -> Nat] /\ open \in [Worker -> File \union {<<0, 0>>}]
        /\ yielded \in [Worker -> Nat] /\ loaded \in [Worker -> Nat]
        /\ row_index \in [Worker -> Nat]
    BY DEF IInv, FleetTypeOK
  <2> HIDE DEF Own
  <2> QED BY <1>1, <2>1 DEF NotOpen
<1>3. \A v \in Worker \ {w} : Same(v)
  <2>1. \A v \in Worker \ {w} : phase'[v] = phase[v] /\ loop'[v] = loop[v]
    BY <1>1 DEF IInv, FleetTypeOK
  <2>2. \A v \in Worker \ {w} : exhausted'[v] = exhausted[v] /\ year_idx'[v] = year_idx[v]
    BY <1>1 DEF IInv, FleetTypeOK
  <2>3. \A v \in Worker \ {w} : listed'[v] = listed[v] /\ file_idx'[v] = file_idx[v]
    BY <1>1 DEF IInv, FleetTypeOK
  <2>4. \A v \in Worker \ {w} : open'[v] = open[v] /\ yielded'[v] = yielded[v]
    BY <1>1 DEF IInv, FleetTypeOK
  <2>5. \A v \in Worker \ {w} : loaded'[v] = loaded[v] /\ row_index'[v] = row_index[v]
    BY <1>1 DEF IInv, FleetTypeOK
  <2> QED BY <2>1, <2>2, <2>3, <2>4, <2>5 DEF Same
<1>4. FleetTypeOK'
  <2>1. Len(Files) \in Nat
    BY DEF FleetAssumption
  <2>2. /\ phase' \in [Worker -> {"new", "starting", "running", "stopping", "stopped", "dead"}]
        /\ loop' \in [Worker -> {"file", "batch", "task"}] /\ exhausted' \in [Worker -> BOOLEAN]
    BY <1>1 DEF IInv, FleetTypeOK
  <2>3. year_idx' \in [Worker -> 0 .. Len(Files) + 1] /\ listed' \in [Worker -> 0 .. Len(Files)]
    <3>1. 0 \in 0 .. Len(Files) + 1 /\ 0 \in 0 .. Len(Files)
      BY <2>1
    <3>2. year_idx \in [Worker -> 0 .. Len(Files) + 1] /\ listed \in [Worker -> 0 .. Len(Files)]
      BY DEF IInv, FleetTypeOK
    <3> QED BY <1>1, <3>1, <3>2
  <2>4. file_idx' \in [Worker -> Nat] /\ open' \in [Worker -> File \union {<<0, 0>>}]
    BY <1>1 DEF IInv, FleetTypeOK
  <2>5. yielded' \in [Worker -> Nat] /\ loaded' \in [Worker -> Nat] /\ row_index' \in [Worker -> Nat]
    BY <1>1 DEF IInv, FleetTypeOK
  <2>6. skipped' \subseteq Row
    BY <1>1 DEF IInv, FleetTypeOK
  <2> QED BY <1>1, <2>2, <2>3, <2>4, <2>5, <2>6 DEF IInv, FleetTypeOK, streamVars, rowVars
<1>5. CursorInv(w)'
  <2>1. Len(Files) \in Nat
    BY DEF FleetAssumption
  <2> QED BY <1>2, <2>1 DEF CursorInv, OpenInv
<1>6. \A v \in Worker : StreamInv(v)'
  <2>1. StreamInv(w)'
    BY <1>1, <1>2 DEF IInv, StreamInv, streamVars
  <2> QED BY <1>1, <1>3, <2>1, SameStreams DEF IInv, streamVars, Same
<1>7. \A r : ~Behind(w, r)'
  <2>1. \A y \in Year, k \in Nat : ~Reached(w, y, k)'
    BY <1>2 DEF Reached, Year
  <2> QED BY <2>1 DEF Behind
<1>8. \A r \in Row : r \in Own <=> \E y \in Year, k \in Nat : HasKey(w, y, k) /\ r[1] = Key(w, y, k)
  BY SliceIs DEF RowsIn
<1>9. RowInv'
  <2> SUFFICES ASSUME NEW r \in Row
               PROVE  /\ sends'[r] = 0 \/ (sends'[r] = 1 /\ r \notin skipped')
                      /\ (sends'[r] = 1 \/ r \in skipped') <=> \E v \in Worker : Behind(v, r)'
                      /\ \A v \in Worker :
                           phase'[v] \in {"new", "starting", "dead"} /\ Behind(v, r)' => sends'[r] = 0
    BY DEF RowInv
  <2>1. sends' = sends
    BY <1>1 DEF rowVars
  <2>2. \A v \in Worker : Behind(v, r)' <=> v # w /\ Behind(v, r)
    BY <1>3, <1>7, SameCursor
  <2>3. CASE r \in Own
    <3>1. \A v \in Worker : Behind(v, r) => v = w
      <4> SUFFICES ASSUME NEW v \in Worker, Behind(v, r) PROVE v = w
        OBVIOUS
      <4>1. PICK y \in Year, k \in Nat : r[1] = Key(w, y, k)
        BY <1>8, <2>3
      <4>2. PICK z \in Year, j \in Nat : r[1] = Key(v, z, j)
        BY DEF Behind
      <4>3. Key(w, y, k) = Key(v, z, j)
        BY <4>1, <4>2
      <4> QED BY <4>3, KeysApart
    <3>2. sends[r] = 0
      BY <1>1, <3>1 DEF IInv, RowInv
    <3>3. r \notin skipped'
      BY <1>1, <2>3
    <3> HIDE DEF Own
    <3> QED BY <2>1, <2>2, <3>1, <3>2, <3>3
  <2>4. CASE r \notin Own
    <3>1. ~Behind(w, r)
      BY <1>8, <2>4 DEF Behind
    <3>2. r \in skipped' <=> r \in skipped
      BY <1>1, <2>4
    <3>3. \A v \in Worker : Behind(v, r)' <=> Behind(v, r)
      BY <2>2, <3>1
    <3>4. \A v \in Worker : v # w => phase'[v] = phase[v]
      BY <1>3 DEF Same
    <3> HIDE DEF Own
    <3> QED BY <2>1, <2>2, <3>2, <3>3, <3>4 DEF IInv, RowInv
  <2> QED BY <2>3, <2>4
<1>10. Whereabouts'
  BY <1>1 DEF IInv, Whereabouts, rowVars, streamVars
<1> QED BY <1>3, <1>4, <1>5, <1>6, <1>9, <1>10, SameCursor DEF IInv
-----------------------------------------------------------------------------
LEMMA InvariantInit ==
  ASSUME FleetAssumption, FleetInit
  PROVE  IInv
<1>1. FleetTypeOK
  <2>1. Len(Files) \in Nat /\ STREAMS_PER_USER \in Nat /\ STREAMS_PER_USER > 0
    BY DEF FleetAssumption
  <2>2. 0 \in Stream /\ 0 \in 0 .. STREAMS_PER_USER /\ 0 \in 0 .. Len(Files) + 1
        /\ 0 \in 0 .. Len(Files)
    BY <2>1 DEF Stream
  <2>3. NoStreams \in [Stream -> BOOLEAN] /\ NoRows \in [Stream -> SUBSET Row]
    BY DEF NoStreams, NoRows
  <2>4. 0 \in 0 .. MaxFaults
    BY DEF FleetAssumption
  <2> QED BY <2>2, <2>3, <2>4 DEF FleetInit, FleetTypeOK
<1>2. ASSUME NEW w \in Worker PROVE CursorInv(w) /\ StreamInv(w)
  <2>1. /\ phase[w] = "new" /\ loop[w] = "task" /\ exhausted[w] = FALSE /\ year_idx[w] = 0
        /\ listed[w] = 0 /\ file_idx[w] = 0 /\ open[w] = NotOpen /\ yielded[w] = 0
        /\ loaded[w] = 0 /\ row_index[w] = 0 /\ closing[w] = 0 /\ inflight[w] = NoRows
    BY DEF FleetInit, NotOpen
  <2>2. Len(Files) \in Nat
    BY DEF FleetAssumption
  <2> QED BY <2>1, <2>2 DEF CursorInv, OpenInv, StreamInv
<1>3. \A w \in Worker : \A r : ~Behind(w, r)
  <2>1. \A w \in Worker : \A y \in Year, k \in Nat : ~Reached(w, y, k)
    BY DEF FleetInit, Reached, Year
  <2> QED BY <2>1 DEF Behind
<1>4. RowInv
  BY <1>3 DEF RowInv, FleetInit
<1>5. Whereabouts
  BY DEF Whereabouts, FleetInit, NoRows
<1> QED BY <1>1, <1>2, <1>4, <1>5 DEF IInv

LEMMA InvariantStep ==
  ASSUME FleetAssumption, IInv, [FleetNext]_fleetVars
  PROVE  IInv'
<1>1. CASE FleetNext
  BY <1>1, StartSafe, CreateStreamsSafe, NextYearSafe, OpenFileSafe, LoadBatchSafe,
     NeedBatchSafe, IngestRowSafe, StopSafe, CloseStreamSafe, RespawnSafe, AcknowledgeSafe,
     StreamFailsSafe DEF FleetNext
<1>2. CASE UNCHANGED fleetVars
  <2>1. UNCHANGED <<phase, loop, cursorVars, sends, skipped>>
    BY <1>2 DEF fleetVars, rowVars
  <2>2. (\A v \in Worker : CursorInv(v)') /\ RowInv'
    BY <2>1, CursorsStay
  <2>3. FleetTypeOK' /\ Whereabouts'
    BY <1>2 DEF IInv, FleetTypeOK, Whereabouts, fleetVars, cursorVars, streamVars, rowVars
  <2>4. \A v \in Worker : StreamInv(v)'
    BY <1>2 DEF IInv, StreamInv, fleetVars, streamVars
  <2> QED BY <2>2, <2>3, <2>4 DEF IInv
<1> QED BY <1>1, <1>2

(* What holds at every moment of every run of the fleet: where each cursor *)
(* is, which streams hold rows, and that the rows that were sent or        *)
(* skipped are exactly the ones some worker is past.                       *)
THEOREM FleetInvariant ==
  ASSUME FleetAssumption PROVE FleetSpec => []IInv
<1>1. FleetInit => IInv
  BY InvariantInit
<1>2. IInv /\ [FleetNext]_fleetVars => IInv'
  BY InvariantStep
<1> QED BY <1>1, <1>2, PTL DEF FleetSpec
-----------------------------------------------------------------------------
(* Behind the last file, every row of the slice is behind.                 *)
LEMMA ExhaustedIsBehind ==
  ASSUME FleetAssumption, IInv, NEW w \in Worker, exhausted[w],
         NEW y \in Year, NEW r \in RowsIn(Slice(w, y))
  PROVE  Behind(w, r)
<1>1. /\ year_idx[w] = Len(Files) + 1 /\ ~HasKey(w, listed[w], file_idx[w]) /\ loaded[w] = 0
      /\ open[w] # NotOpen => yielded[w] = NumRows(open[w])
  BY DEF IInv, CursorInv
<1>2. /\ Len(Files) \in Nat /\ file_idx[w] \in Nat /\ row_index[w] \in Nat
  BY Counters DEF IInv
<1>3. r \in Row /\ r[1] \in Slice(w, y)
  BY DEF RowsIn
<1>4. PICK k \in Nat : HasKey(w, y, k) /\ r[1] = Key(w, y, k)
  BY <1>3, SliceIs
<1>5. Reached(w, y, k)
  <2>1. y <= year_idx[w]
    BY <1>1, <1>2 DEF Year
  <2>2. y = listed[w] => k < file_idx[w]
    BY <1>1, <1>2, <1>4, KeysBelow
  <2> QED BY <2>1, <2>2 DEF Reached
<1>6. r[1] = open[w] => r[2] < NextRow(w)
  <2> SUFFICES ASSUME r[1] = open[w] PROVE r[2] < NextRow(w)
    OBVIOUS
  <2>1. /\ r[1] \in File /\ r[2] \in 0 .. NumRows(r[1]) - 1 /\ NumRows(r[1]) \in Nat
        /\ r[1] # NotOpen
    BY <1>3, RowIs, FileTypes DEF NotOpen
  <2>2. NextRow(w) = NumRows(r[1])
    BY <1>1, <1>2, <2>1 DEF NextRow
  <2> QED BY <2>1, <2>2
<1> QED BY <1>4, <1>5, <1>6 DEF Behind

(* A fleet as large as the stride, with room for every file, has each row  *)
(* in the slice of some worker.                                            *)
LEMMA EveryRowHasAWorker ==
  ASSUME FleetAssumption, NumWorkers = TOTAL_WORKERS,
         \A y \in Year : Len(Files[y]) <= FilesPerYear * TOTAL_WORKERS,
         NEW r \in Row
  PROVE  \E w \in Worker : \E y \in Year : r \in RowsIn(Slice(w, y))
<1> DEFINE y == r[1][1]
           p == r[1][2]
           T == TOTAL_WORKERS
<1>1. /\ r[1] \in File /\ r[1] = <<y, p>> /\ y \in Year /\ p \in 0 .. Len(Files[y]) - 1
      /\ Len(Files[y]) \in Nat
  BY RowIs, FileIs, FileTypes
<1>2. T \in Nat \ {0} /\ FilesPerYear \in Nat
  BY DEF FleetAssumption
<1>3. p \in Nat /\ p < FilesPerYear * T
  <2>1. FilesPerYear * T \in Nat /\ Len(Files[y]) <= FilesPerYear * T
    BY <1>1, <1>2
  <2> HIDE DEF p, y, T
  <2> QED BY <1>1, <2>1
<1>4. PICK w \in 0 .. T - 1, k \in Nat : k < FilesPerYear /\ p = w + k * T
  <2> HIDE DEF p
  <2> QED BY <1>2, <1>3, StridesCover
<1>5. w \in Worker
  BY <1>4 DEF Worker
<1>6. Key(w, y, k) = r[1]
  <2>1. Key(w, y, k) = <<y, w + k * T>>
    BY <1>5, KeyIs
  <2> QED BY <1>1, <1>4, <2>1
<1>7. r[1] \in Slice(w, y)
  <2>1. HasKey(w, y, k)
    BY <1>1, <1>4, <1>6 DEF HasKey
  <2> HIDE DEF y
  <2> QED BY <1>4, <1>5, <1>6, <2>1, SliceIs
<1> QED BY <1>1, <1>5, <1>7 DEF RowsIn

LEMMA InvariantIsSound ==
  ASSUME FleetAssumption, IInv
  PROVE  FleetSound
<1>1. SentOnce
  BY DEF IInv, RowInv, Whereabouts, SentOnce
<1>2. \A w \in Worker : exhausted[w] =>
        \A y \in Year : \A r \in RowsIn(Slice(w, y)) : sends[r] = 1 \/ r \in skipped
  <2> SUFFICES ASSUME NEW w \in Worker, exhausted[w], NEW y \in Year,
                      NEW r \in RowsIn(Slice(w, y))
               PROVE  sends[r] = 1 \/ r \in skipped
    OBVIOUS
  <2>1. Behind(w, r) /\ r \in Row
    BY ExhaustedIsBehind DEF RowsIn
  <2> QED BY <2>1 DEF IInv, RowInv
<1>3. IdleIsDone
  BY <1>2 DEF IdleIsDone, IInv, RowInv, FleetTypeOK
<1>4. FleetCovers
  BY <1>2, EveryRowHasAWorker DEF FleetCovers
<1>5. StopFlushes
  BY DEF IInv, StreamInv, StopFlushes
<1> QED BY <1>1, <1>3, <1>4, <1>5 DEF IInv, FleetSound

(* Each row is sent once at most, whatever fails and whoever is started    *)
(* again; a worker that goes idle has sent every row of its slice that it  *)
(* could read; a fleet as large as the stride leaves no row to nobody; and *)
(* a user that stopped has left no row in a stream.                        *)
THEOREM FleetCorrect ==
  ASSUME FleetAssumption PROVE FleetSpec => []FleetSound
<1>1. IInv => FleetSound
  BY InvariantIsSound
<1> QED BY <1>1, FleetInvariant, PTL

-----------------------------------------------------------------------------
(* Delivery                                                                *)

(* Each step is one of a part and leaves the others alone. *)
LEMMA OnePart ==
  DeliveryNext =>
    \/ InCompression(Next) \/ InSender(C!Next) \/ InPipeline(PipelineNext)
    \/ InLifecycle(LifecycleNext) \/ InFleet(FleetNext)
<1> SUFFICES ASSUME DeliveryNext
             PROVE  \/ InCompression(Next) \/ InSender(C!Next) \/ InPipeline(PipelineNext)
                    \/ InLifecycle(LifecycleNext) \/ InFleet(FleetNext)
  OBVIOUS
<1> USE DEF InCompression, InSender, InPipeline, InLifecycle, InFleet
<1>0. part \in {"compression", "sender", "pipeline", "lifecycle", "fleet"}
  BY DEF DeliveryNext
<1>1. CASE part = "compression"
  <2>1. InCompression(Next)
    BY <1>1 DEF DeliveryNext, Next
  <2> QED BY <2>1
<1>2. CASE part = "sender"
  <2>1. InSender(C!Next)
    BY <1>2 DEF DeliveryNext, C!Next, C!Proceed
  <2> QED BY <2>1
<1>3. CASE part = "pipeline"
  <2>1. InPipeline(PipelineNext)
    BY <1>3 DEF DeliveryNext, PipelineNext, Processor
  <2> QED BY <2>1
<1>4. CASE part = "lifecycle"
  <2>1. InLifecycle(LifecycleNext)
    BY <1>4 DEF DeliveryNext, LifecycleNext, Lifecycle, Stopper
  <2> QED BY <2>1
<1>5. CASE part = "fleet"
  <2>1. InFleet(FleetNext)
    BY <1>5 DEF DeliveryNext, FleetNext
  <2> QED BY <2>1
<1> QED BY <1>0, <1>1, <1>2, <1>3, <1>4, <1>5

(* What one part does among the others is what it does alone. *)
LEMMA CompressionPart == DeliverySpec => Spec
<1>1. DeliveryInit => Init
  BY DEF DeliveryInit
<1>2. [DeliveryNext]_delivery => [Next]_vars
  <2>1. UNCHANGED delivery => UNCHANGED vars
    BY DEF delivery
  <2>2. DeliveryNext => Next \/ UNCHANGED vars
    BY OnePart DEF InCompression, InSender, InPipeline, InLifecycle, InFleet
  <2> QED BY <2>1, <2>2
<1> QED BY <1>1, <1>2, PTL DEF DeliverySpec, Spec

LEMMA PipelinePart == DeliverySpec => PipelineInit /\ [][PipelineNext]_pipelineVars
<1>1. DeliveryInit => PipelineInit
  BY DEF DeliveryInit
<1>2. [DeliveryNext]_delivery => [PipelineNext]_pipelineVars
  <2>1. UNCHANGED delivery => UNCHANGED pipelineVars
    BY DEF delivery
  <2>2. DeliveryNext => PipelineNext \/ UNCHANGED pipelineVars
    BY OnePart DEF InCompression, InSender, InPipeline, InLifecycle, InFleet
  <2> QED BY <2>1, <2>2
<1> QED BY <1>1, <1>2, PTL DEF DeliverySpec

LEMMA LifecyclePart == DeliverySpec => LifecycleInit /\ [][LifecycleNext]_lifecycleVars
<1>1. DeliveryInit => LifecycleInit
  BY DEF DeliveryInit
<1>2. [DeliveryNext]_delivery => [LifecycleNext]_lifecycleVars
  <2>1. UNCHANGED delivery => UNCHANGED lifecycleVars
    BY DEF delivery
  <2>2. DeliveryNext => LifecycleNext \/ UNCHANGED lifecycleVars
    BY OnePart DEF InCompression, InSender, InPipeline, InLifecycle, InFleet
  <2> QED BY <2>1, <2>2
<1> QED BY <1>1, <1>2, PTL DEF DeliverySpec

LEMMA FleetPart == DeliverySpec => FleetSpec
<1>1. DeliveryInit => FleetInit
  BY DEF DeliveryInit
<1>2. [DeliveryNext]_delivery => [FleetNext]_fleetVars
  <2>1. UNCHANGED delivery => UNCHANGED fleetVars
    BY DEF delivery
  <2>2. DeliveryNext => FleetNext \/ UNCHANGED fleetVars
    BY OnePart DEF InCompression, InSender, InPipeline, InLifecycle, InFleet
  <2> QED BY <2>1, <2>2
<1> QED BY <1>1, <1>2, PTL DEF DeliverySpec, FleetSpec

(* Every part keeps what it promises, each beside the others: in the model *)
(* that the run checks, for every value of its constants.                  *)
THEOREM DeliveryCorrect ==
  ASSUME DeliveryAssumption
  PROVE  DeliverySpec => []DeliverySound
<1>1. PipelineAssumption /\ LifecycleAssumption /\ FleetAssumption
  BY DEF DeliveryAssumption
<1>2. DeliverySpec => [](AnchorIsSent /\ SilenceIsBounded /\ ReceiverIsClose)
  BY CompressionPart, AnchorSent, SilenceBounded, ReceiverClose, PTL
<1>3. DeliverySpec => []PipelineSound
  BY <1>1, PipelinePart, PipelineRuns, PTL
<1>4. DeliverySpec => []LifecycleSound
  BY <1>1, LifecyclePart, LifecycleRuns, LifecycleIsSound, PTL
<1>5. DeliverySpec => []FleetSound
  BY <1>1, FleetPart, FleetCorrect, PTL
<1> QED BY <1>2, <1>3, <1>4, <1>5, PTL DEF DeliverySound

(* In that model, too, a closing door keeps the curve, and points leave in *)
(* the order of their times.                                               *)
THEOREM DeliveryStepsCorrect == DeliverySpec => ClosingKeepsTheCurve /\ EmittedInOrder
<1>1. DeliverySpec => ClosingKeepsTheCurve
  BY CompressionPart, ClosingKeeps, PTL
<1>2. DeliverySpec => EmittedInOrder
  BY CompressionPart, InOrder, PTL
<1> QED BY <1>1, <1>2, PTL
===============================================================================
