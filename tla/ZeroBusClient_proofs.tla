------------------------ MODULE ZeroBusClient_proofs ------------------------
(***************************************************************************)
(* Proofs of the safety properties of ZeroBusClient, for every number of   *)
(* callers, every batch length and every breaker configuration.            *)
(***************************************************************************)
EXTENDS ZeroBusClient, TLAPS

GoodBreaker(b) == b \in Breaker /\ BreakerConsistent(b)

(* Bounds the methods of the circuit breaker rely on. *)
LEMMA BreakerBounds ==
  /\ 0 \in 0 .. FailureThreshold /\ 0 \in 0 .. TimeoutTicks
  /\ 0 \in 0 .. HalfOpenMaxCalls /\ 0 < HalfOpenMaxCalls /\ 0 < FailureThreshold
  /\ HalfOpenMaxCalls \in Nat /\ FailureThreshold \in Nat
  /\ {"closed", "open", "half_open"} = CircuitState
BY BreakerAssumption DEF BreakerAssumption, CircuitState

(* The breaker __init__ makes. *)
LEMMA NewBreakerGood == GoodBreaker(NewBreaker)
BY BreakerBounds DEF GoodBreaker, NewBreaker, Breaker, CircuitState, BreakerConsistent

(* Assignments of correctly typed values keep the breaker's type. *)
LEMMA BreakerUpdate ==
  ASSUME NEW b \in Breaker, NEW s \in CircuitState, NEW f \in 0 .. FailureThreshold,
         NEW n \in 0 .. HalfOpenMaxCalls, NEW m \in 0 .. HalfOpenMaxCalls
  PROVE  /\ [b EXCEPT !.state = s] \in Breaker
         /\ [b EXCEPT !.failure_count = f] \in Breaker
         /\ [b EXCEPT !.success_count = n, !.half_open_calls = m] \in Breaker
         /\ [b EXCEPT !.state = s, !.half_open_calls = m, !.success_count = n] \in Breaker
         /\ [b EXCEPT !.state = s, !.failure_count = f,
                       !.success_count = n, !.half_open_calls = m] \in Breaker
BY DEF Breaker

(* A recorded success keeps the breaker consistent. *)
LEMMA RecordSuccessGood ==
  ASSUME NEW b, GoodBreaker(b) PROVE GoodBreaker(RecordSuccess(b))
<1>1. b \in Breaker /\ BreakerConsistent(b)
  BY DEF GoodBreaker
<1>2. RecordSuccess(b) \in Breaker
  <2>1. CASE b.state # "half_open"
    BY <1>1, <2>1, BreakerBounds, BreakerUpdate DEF RecordSuccess
  <2>2. CASE b.state = "half_open" /\ b.success_count + 1 >= HalfOpenMaxCalls
    BY <1>1, <2>2, BreakerBounds, BreakerUpdate DEF RecordSuccess
  <2>3. CASE b.state = "half_open" /\ ~(b.success_count + 1 >= HalfOpenMaxCalls)
    <3>1. /\ b.success_count + 1 \in 0 .. HalfOpenMaxCalls
          /\ b.half_open_calls + 1 \in 0 .. HalfOpenMaxCalls
      BY <1>1, <2>3, BreakerBounds DEF Breaker, BreakerConsistent
    <3>2. [b EXCEPT !.success_count = b.success_count + 1,
                    !.half_open_calls = b.half_open_calls + 1] \in Breaker
      BY <1>1, <3>1, BreakerBounds, BreakerUpdate
    <3> QED BY <2>3, <3>2 DEF RecordSuccess
  <2> QED BY <2>1, <2>2, <2>3
<1>3. BreakerConsistent(RecordSuccess(b))
  BY <1>1, BreakerBounds DEF RecordSuccess, Breaker, CircuitState, BreakerConsistent
<1> QED BY <1>2, <1>3 DEF GoodBreaker

(* A recorded failure keeps the breaker consistent. *)
LEMMA RecordFailureGood ==
  ASSUME NEW b, GoodBreaker(b) PROVE GoodBreaker(RecordFailure(b))
<1> DEFINE counted == CountFailure(b)
<1>1. b \in Breaker /\ BreakerConsistent(b)
  BY DEF GoodBreaker
<1>2. counted \in Breaker
  <2> DEFINE f == IF b.failure_count < FailureThreshold
                  THEN b.failure_count + 1 ELSE b.failure_count
  <2>1. f \in 0 .. FailureThreshold
    BY <1>1, BreakerBounds DEF Breaker
  <2>2. counted = [b EXCEPT !.failure_count = f, !.failed = TRUE, !.age = 0]
    BY <1>1 DEF CountFailure, Breaker
  <2> HIDE DEF f, counted
  <2> QED BY <1>1, <2>1, <2>2, BreakerBounds DEF Breaker
<1>3. /\ counted.failed
      /\ counted.state = b.state
      /\ counted.success_count = b.success_count
      /\ counted.half_open_calls = b.half_open_calls
  BY <1>1 DEF CountFailure, Breaker
<1>4. RecordFailure(b) = IF b.state = "half_open"
                         THEN [counted EXCEPT !.state = "open", !.half_open_calls = 0,
                                              !.success_count = 0]
                         ELSE IF counted.failure_count >= FailureThreshold
                              THEN [counted EXCEPT !.state = "open"]
                              ELSE counted
  BY DEF RecordFailure
<1> HIDE DEF counted
<1>5. RecordFailure(b) \in Breaker
  <2>1. [counted EXCEPT !.state = "open"] \in Breaker
    BY <1>2, BreakerBounds, BreakerUpdate
  <2>2. [counted EXCEPT !.state = "open", !.half_open_calls = 0,
                        !.success_count = 0] \in Breaker
    BY <1>2, BreakerBounds, BreakerUpdate
  <2> QED BY <1>2, <1>4, <2>1, <2>2
<1>6. BreakerConsistent(RecordFailure(b))
  BY <1>1, <1>2, <1>3, <1>4, BreakerBounds DEF Breaker, CircuitState, BreakerConsistent
<1> QED BY <1>5, <1>6 DEF GoodBreaker

(* So does asking it, which may move it from open to half-open, ... *)
LEMMA AfterCanExecuteGood ==
  ASSUME NEW b, GoodBreaker(b) PROVE GoodBreaker(AfterCanExecute(b))
BY BreakerAssumption
   DEF GoodBreaker, AfterCanExecute, CooledDown, Breaker, CircuitState,
       BreakerConsistent

(* ... and so does time. *)
LEMMA ElapseGood ==
  ASSUME NEW b, GoodBreaker(b) PROVE GoodBreaker(Elapse(b))
BY BreakerAssumption
   DEF GoodBreaker, Elapse, Breaker, CircuitState, BreakerConsistent

(* How the methods move the state of a consistent breaker. *)
LEMMA BreakerMoves ==
  ASSUME NEW b, GoodBreaker(b)
  PROVE  /\ LET r == RecordSuccess(b) IN
              /\ r.state = "half_open" => /\ b.state = "half_open"
                                          /\ r.success_count = b.success_count + 1
                                          /\ r.success_count < HalfOpenMaxCalls
              /\ b.state # "closed" /\ r.state = "closed" =>
                   b.state = "half_open" /\ b.success_count + 1 >= HalfOpenMaxCalls
         /\ LET r == RecordFailure(b) IN
              /\ r.state # "half_open"
              /\ r.state = "closed" => b.state = "closed"
         /\ LET r == AfterCanExecute(b) IN
              \/ r = b
              \/ b.state = "open" /\ r.state = "half_open" /\ r.success_count = 0
         /\ LET r == Elapse(b) IN
              r.state = b.state /\ r.success_count = b.success_count
<1>1. b \in Breaker /\ BreakerConsistent(b)
  BY DEF GoodBreaker
<1>2. b.success_count \in Nat /\ b.state \in CircuitState
  BY <1>1, BreakerBounds DEF Breaker
<1>3. LET r == RecordSuccess(b) IN
        /\ r.state = "half_open" => /\ b.state = "half_open"
                                    /\ r.success_count = b.success_count + 1
                                    /\ r.success_count < HalfOpenMaxCalls
        /\ b.state # "closed" /\ r.state = "closed" =>
             b.state = "half_open" /\ b.success_count + 1 >= HalfOpenMaxCalls
  BY <1>1, <1>2, BreakerBounds DEF RecordSuccess, Breaker
<1>4. LET r == RecordFailure(b) IN
        r.state # "half_open" /\ (r.state = "closed" => b.state = "closed")
  BY <1>1, <1>2 DEF RecordFailure, CountFailure, Breaker, CircuitState
<1>5. LET r == AfterCanExecute(b) IN
        \/ r = b
        \/ b.state = "open" /\ r.state = "half_open" /\ r.success_count = 0
  BY <1>1 DEF AfterCanExecute, Breaker
<1>6. LET r == Elapse(b) IN r.state = b.state /\ r.success_count = b.success_count
  BY <1>1 DEF Elapse, Breaker
<1> QED BY <1>3, <1>4, <1>5, <1>6
------------------------------------------------------------------------------
(* Where a caller's locals stand at each of its suspension points. *)
CallInv(c) ==
  /\ Len(batch[c]) <= MaxBatch
  /\ pc[c] # "idle" => Len(batch[c]) >= 1
  /\ pc[c] = "connect" => pos[c] = 1
  /\ pc[c] = "ingest" => pos[c] <= Len(batch[c])
  /\ pc[c] = "sleep" => attempt[c] < MaxRetries
  /\ result[c] = "sent" => pc[c] = "idle"

(* What it has handed over so far.  During an attempt the records before   *)
(* pos are one copy ahead of those from pos on: this is what makes the     *)
(* copies a decreasing function of the position at every step.             *)
LandedInv(c) ==
  /\ \A i \in 1 .. MaxBatch : landed[c][i] <= attempt[c]
  /\ \A i \in 2 .. MaxBatch : landed[c][i] <= landed[c][i - 1]
  /\ pc[c] \in {"connect", "ingest"} =>
       \A i \in pos[c] .. MaxBatch : landed[c][i] < attempt[c]
  /\ pc[c] = "ingest" =>
       /\ \A i \in 1 .. pos[c] - 1 : landed[c][i] >= 1
       /\ pos[c] > 1 => landed[c][pos[c]] < landed[c][pos[c] - 1]
  /\ result[c] = "sent" => \A i \in 1 .. Len(batch[c]) : landed[c][i] >= 1

(* The successes the half-open circuit counts were recorded in this trial. *)
TrialInv == cb.state = "half_open" => cb.success_count <= trials

IInv ==
  /\ TypeOK
  /\ CircuitConsistent
  /\ TrialInv
  /\ \A c \in Callers : CallInv(c) /\ LandedInv(c)

(* A batch is a sequence of the length considered. *)
LEMMA BatchesAreSeqs ==
  ASSUME NEW b \in Batches
  PROVE  b \in Seq(Records) /\ Len(b) \in 1 .. MaxBatch
<1>1. PICK n \in 1 .. MaxBatch : b \in [1 .. n -> Records]
  BY DEF Batches
<1> QED BY <1>1, ClientAssumption DEF ClientAssumption

(* The invariant holds of a new client, connected or not.                  *)
THEOREM InitInv == Init => IInv
<1> SUFFICES ASSUME Init PROVE IInv
  OBVIOUS
<1> USE ClientAssumption DEF ClientAssumption
<1>1. GoodBreaker(cb)
  BY NewBreakerGood DEF Init
<1>2. TypeOK
  <2>1. cb \in Breaker /\ trials \in 0 .. HalfOpenMaxCalls /\ cancels \in 0 .. MaxCancels
    BY <1>1, BreakerBounds DEF Init, GoodBreaker
  <2>2. landed \in [Callers -> [1 .. MaxBatch -> 0 .. MaxRetries]]
    BY DEF Init
  <2>3. batch \in [Callers -> Seq(Records)]
    BY DEF Init
  <2>4. attempt \in [Callers -> 1 .. MaxRetries] /\ pos \in [Callers -> 1 .. MaxBatch]
    BY DEF Init
  <2>5. /\ pc \in [Callers -> {"idle", "connect", "ingest", "closing", "sleep"}]
        /\ result \in [Callers -> {"none", "sent", "failed", "rejected", "cancelled"}]
    BY DEF Init
  <2>6. stream \in {"none", "open", "closed"} /\ up \in BOOLEAN
    BY DEF Init
  <2> QED BY <2>1, <2>2, <2>3, <2>4, <2>5, <2>6 DEF TypeOK
<1>3. CircuitConsistent /\ TrialInv
  BY <1>1 DEF Init, GoodBreaker, CircuitConsistent, TrialInv, NewBreaker
<1>4. ASSUME NEW c \in Callers PROVE CallInv(c) /\ LandedInv(c)
  BY DEF Init, CallInv, LandedInv
<1> QED BY <1>2, <1>3, <1>4 DEF IInv

(* A step of one caller does not touch the locals of another. *)
LEMMA Frame ==
  ASSUME NEW d \in Callers, CallInv(d), LandedInv(d),
         pc'[d] = pc[d], attempt'[d] = attempt[d], batch'[d] = batch[d],
         pos'[d] = pos[d], landed'[d] = landed[d], result'[d] = result[d]
  PROVE  CallInv(d)' /\ LandedInv(d)'
BY DEF CallInv, LandedInv

(* The except block, after whichever call raised. *)
LEMMA AttemptFailedInv ==
  ASSUME IInv, NEW c \in Callers, pc[c] # "idle",
         NEW retriable \in BOOLEAN, AttemptFailed(c, retriable),
         stream' \in {"none", "open", "closed"}
  PROVE  IInv'
<1> USE DEF IInv
<1>1. GoodBreaker(cb') /\ cb'.state # "half_open"
  <2>1. GoodBreaker(cb)
    BY DEF GoodBreaker, TypeOK, CircuitConsistent
  <2> QED BY <2>1, RecordFailureGood, BreakerMoves DEF AttemptFailed
<1>2. \/ /\ attempt[c] < MaxRetries
         /\ pc' = [pc EXCEPT ![c] = "sleep"] /\ result' = result
      \/ pc' = [pc EXCEPT ![c] = "idle"] /\ result' = [result EXCEPT ![c] = "failed"]
  BY DEF AttemptFailed, Return
<1>3. TypeOK'
  <2>1. pc' \in [Callers -> {"idle", "connect", "ingest", "closing", "sleep"}]
    BY <1>2 DEF TypeOK
  <2>2. result' \in [Callers -> {"none", "sent", "failed", "rejected", "cancelled"}]
    BY <1>2 DEF TypeOK
  <2> QED BY <1>1, <2>1, <2>2, BreakerBounds DEF TypeOK, AttemptFailed, GoodBreaker
<1>4. CircuitConsistent' /\ TrialInv'
  BY <1>1 DEF GoodBreaker, CircuitConsistent, TrialInv
<1>5. ASSUME NEW d \in Callers PROVE CallInv(d)' /\ LandedInv(d)'
  <2>1. CASE d # c
    BY <1>2, <2>1, Frame DEF AttemptFailed, TypeOK
  <2>2. CASE d = c
    <3>1. pc'[c] \in {"sleep", "idle"} /\ (pc'[c] = "sleep" => attempt[c] < MaxRetries)
      BY <1>2 DEF TypeOK
    <3>2. result'[c] # "sent"
      BY <1>2 DEF TypeOK, CallInv
    <3> QED BY <2>2, <3>1, <3>2 DEF AttemptFailed, CallInv, LandedInv
  <2> QED BY <2>1, <2>2
<1> QED BY <1>3, <1>4, <1>5

(* A call of send_batch, admitted or rejected, keeps the invariant.        *)
LEMMA CallStep ==
  ASSUME IInv, NEW c \in Callers, NEW b \in Batches, Call(c, b)
  PROVE  IInv'
<1> USE DEF IInv
<1> USE ClientAssumption DEF ClientAssumption
<1>1. GoodBreaker(cb) /\ GoodBreaker(cb')
  <2>1. GoodBreaker(cb)
    BY DEF GoodBreaker, TypeOK, CircuitConsistent
  <2> QED BY <2>1, AfterCanExecuteGood DEF Call
<1>2. b \in Seq(Records) /\ Len(b) \in 1 .. MaxBatch
  BY BatchesAreSeqs
<1>3. /\ batch' = [batch EXCEPT ![c] = b]
      /\ landed' = [landed EXCEPT ![c] = [i \in 1 .. MaxBatch |-> 0]]
      /\ attempt' = [attempt EXCEPT ![c] = 1]
      /\ UNCHANGED <<stream, up, cancels>>
  BY DEF Call
<1>4. \/ /\ \E p \in {"connect", "ingest"} : pc' = [pc EXCEPT ![c] = p]
         /\ pos' = [pos EXCEPT ![c] = 1]
         /\ result' = [result EXCEPT ![c] = "none"]
      \/ /\ pc' = [pc EXCEPT ![c] = "idle"]
         /\ pos' = pos
         /\ result' = [result EXCEPT ![c] = "rejected"]
  BY DEF Call, StartAttempt, Return
<1>5. TypeOK'
  <2>1. trials' \in 0 .. HalfOpenMaxCalls
    BY BreakerBounds DEF Call, TypeOK
  <2>2. /\ pc' \in [Callers -> {"idle", "connect", "ingest", "closing", "sleep"}]
        /\ pos' \in [Callers -> 1 .. MaxBatch]
        /\ result' \in [Callers -> {"none", "sent", "failed", "rejected", "cancelled"}]
    <3>1. pc' \in [Callers -> {"idle", "connect", "ingest", "closing", "sleep"}]
      BY <1>4 DEF TypeOK
    <3>2. pos' \in [Callers -> 1 .. MaxBatch]
      <4>1. 1 \in 1 .. MaxBatch
        OBVIOUS
      <4> QED BY <1>4, <4>1 DEF TypeOK
    <3>3. result' \in [Callers -> {"none", "sent", "failed", "rejected", "cancelled"}]
      BY <1>4 DEF TypeOK
    <3> QED BY <3>1, <3>2, <3>3
  <2>3. batch' \in [Callers -> Seq(Records)]
    BY <1>2, <1>3 DEF TypeOK
  <2>4. landed' \in [Callers -> [1 .. MaxBatch -> 0 .. MaxRetries]]
    <3>1. [i \in 1 .. MaxBatch |-> 0] \in [1 .. MaxBatch -> 0 .. MaxRetries]
      OBVIOUS
    <3> QED BY <1>3, <3>1 DEF TypeOK
  <2>5. attempt' \in [Callers -> 1 .. MaxRetries]
    BY <1>3 DEF TypeOK
  <2> QED BY <1>1, <1>3, <2>1, <2>2, <2>3, <2>4, <2>5 DEF TypeOK, GoodBreaker
<1>6. CircuitConsistent' /\ TrialInv'
  <2>1. CircuitConsistent'
    BY <1>1 DEF GoodBreaker, CircuitConsistent
  <2>2. \/ cb' = cb
        \/ cb.state = "open" /\ cb'.state = "half_open" /\ cb'.success_count = 0
    BY <1>1, BreakerMoves DEF Call
  <2>3. TrialInv'
    BY <2>2 DEF TrialInv, Call, TypeOK
  <2> QED BY <2>1, <2>3
<1>7. ASSUME NEW d \in Callers PROVE CallInv(d)' /\ LandedInv(d)'
  <2>1. CASE d # c
    BY <1>3, <1>4, <2>1, Frame DEF TypeOK
  <2>2. CASE d = c
    <3>1. /\ batch'[c] = b /\ attempt'[c] = 1
          /\ \A i \in 1 .. MaxBatch : landed'[c][i] = 0
      BY <1>3 DEF TypeOK
    <3>2. \/ pc'[c] \in {"connect", "ingest"} /\ pos'[c] = 1 /\ result'[c] = "none"
          \/ pc'[c] = "idle" /\ result'[c] = "rejected"
      BY <1>4 DEF TypeOK
    <3>3. CallInv(c)'
      BY <1>2, <3>1, <3>2 DEF CallInv
    <3>4. LandedInv(c)'
      BY <1>2, <3>1, <3>2 DEF LandedInv
    <3> QED BY <2>2, <3>3, <3>4
  <2> QED BY <2>1, <2>2
<1> QED BY <1>5, <1>6, <1>7

(* So does create_stream when it returns. *)
LEMMA ConnectStep ==
  ASSUME IInv, NEW c \in Callers, Connect(c)
  PROVE  IInv'
<1> USE ClientAssumption DEF ClientAssumption, IInv, Connect
<1>1. TypeOK'
  BY DEF TypeOK
<1>2. CircuitConsistent' /\ TrialInv'
  BY DEF CircuitConsistent, TrialInv
<1>3. ASSUME NEW d \in Callers PROVE CallInv(d)' /\ LandedInv(d)'
  <2>1. CASE d # c
    BY <2>1, Frame DEF TypeOK
  <2>2. CASE d = c
    <3>1. pc[c] = "connect" /\ pc'[c] = "ingest"
      BY DEF TypeOK
    <3> QED BY <2>2, <3>1 DEF CallInv, LandedInv, TypeOK
  <2> QED BY <2>1, <2>2
<1> QED BY <1>1, <1>2, <1>3

(* So does finding the stream closed by the server. *)
LEMMA IngestOnClosedStreamStep ==
  ASSUME IInv, NEW c \in Callers, IngestOnClosedStream(c)
  PROVE  IInv'
<1> USE DEF IInv, IngestOnClosedStream
<1>1. TypeOK'
  BY DEF TypeOK
<1>2. CircuitConsistent' /\ TrialInv'
  BY DEF CircuitConsistent, TrialInv
<1>3. ASSUME NEW d \in Callers PROVE CallInv(d)' /\ LandedInv(d)'
  <2>1. CASE d # c
    BY <2>1, Frame DEF TypeOK
  <2>2. CASE d = c
    <3>1. pc[c] = "ingest" /\ pc'[c] = "closing"
      BY DEF TypeOK
    <3> QED BY <2>2, <3>1 DEF CallInv, LandedInv, TypeOK
  <2> QED BY <2>1, <2>2
<1> QED BY <1>1, <1>2, <1>3

(* So does the end of the backoff sleep, from which an attempt starts.     *)
LEMMA RetryStep ==
  ASSUME IInv, NEW c \in Callers, Retry(c)
  PROVE  IInv'
<1> USE ClientAssumption DEF ClientAssumption, IInv
<1>1. /\ pc[c] = "sleep" /\ attempt[c] < MaxRetries
      /\ attempt' = [attempt EXCEPT ![c] = @ + 1]
      /\ pos' = [pos EXCEPT ![c] = 1]
      /\ \E p \in {"connect", "ingest"} : pc' = [pc EXCEPT ![c] = p]
  BY DEF Retry, StartAttempt, CallInv
<1>2. UNCHANGED <<cb, trials, up, cancels, stream, batch, landed, result>>
  BY DEF Retry
<1>3. TypeOK'
  <2>1. attempt' \in [Callers -> 1 .. MaxRetries]
    <3>1. attempt[c] + 1 \in 1 .. MaxRetries
      BY <1>1 DEF TypeOK
    <3> QED BY <1>1, <3>1 DEF TypeOK
  <2>2. pos' \in [Callers -> 1 .. MaxBatch]
    <3>1. 1 \in 1 .. MaxBatch
      OBVIOUS
    <3> QED BY <1>1, <3>1 DEF TypeOK
  <2>3. pc' \in [Callers -> {"idle", "connect", "ingest", "closing", "sleep"}]
    BY <1>1 DEF TypeOK
  <2> QED BY <1>2, <2>1, <2>2, <2>3 DEF TypeOK
<1>4. CircuitConsistent' /\ TrialInv'
  BY <1>2 DEF CircuitConsistent, TrialInv
<1>5. ASSUME NEW d \in Callers PROVE CallInv(d)' /\ LandedInv(d)'
  <2>1. CASE d # c
    BY <1>1, <1>2, <2>1, Frame DEF TypeOK
  <2>2. CASE d = c
    <3>1. /\ pc'[c] \in {"connect", "ingest"} /\ pos'[c] = 1
          /\ attempt'[c] = attempt[c] + 1 /\ attempt[c] \in Nat
          /\ landed[c] \in [1 .. MaxBatch -> 0 .. MaxRetries]
      BY SMTT(30), <1>1 DEF TypeOK
    <3>2. CallInv(c)'
      BY <1>1, <1>2, <3>1 DEF CallInv, TypeOK
    <3>3. LandedInv(c)'
      BY <1>1, <1>2, <3>1 DEF LandedInv, CallInv
    <3> QED BY <2>2, <3>2, <3>3
  <2> QED BY <2>1, <2>2
<1> QED BY <1>3, <1>4, <1>5

(* So does a cancellation at any await. *)
LEMMA CancelStep ==
  ASSUME IInv, NEW c \in Callers, Cancel(c)
  PROVE  IInv'
<1> USE ClientAssumption DEF ClientAssumption, IInv, Cancel, Return
<1>1. TypeOK'
  BY SMTT(30) DEF TypeOK
<1>2. CircuitConsistent' /\ TrialInv'
  BY DEF CircuitConsistent, TrialInv
<1>3. ASSUME NEW d \in Callers PROVE CallInv(d)' /\ LandedInv(d)'
  <2>1. CASE d # c
    BY <2>1, Frame DEF TypeOK
  <2>2. CASE d = c
    <3>1. pc'[c] = "idle" /\ result'[c] = "cancelled"
      BY DEF TypeOK
    <3> QED BY <2>2, <3>1 DEF CallInv, LandedInv, TypeOK
  <2> QED BY <2>1, <2>2
<1> QED BY <1>1, <1>2, <1>3

(* Steps that leave the callers alone: Close, the service and the clock.   *)
LEMMA QuietStep ==
  ASSUME IInv, UNCHANGED callVars, UNCHANGED <<trials, cancels>>,
         cb' = cb \/ cb' = Elapse(cb),
         stream' \in {"none", "open", "closed"}, up' \in BOOLEAN
  PROVE  IInv'
<1> USE DEF IInv
<1>1. GoodBreaker(cb)
  BY DEF GoodBreaker, TypeOK, CircuitConsistent
<1>2. GoodBreaker(cb') /\ cb'.state = cb.state /\ cb'.success_count = cb.success_count
  BY <1>1, ElapseGood, BreakerMoves
<1>3. TypeOK'
  BY <1>2 DEF TypeOK, GoodBreaker, callVars
<1>4. CircuitConsistent' /\ TrialInv'
  BY <1>2 DEF CircuitConsistent, TrialInv, GoodBreaker
<1>5. ASSUME NEW d \in Callers PROVE CallInv(d)' /\ LandedInv(d)'
  BY Frame DEF callVars
<1> QED BY <1>3, <1>4, <1>5

(* One more copy at position p keeps the copies decreasing. *)
LEMMA OneMoreCopy ==
  ASSUME NEW M \in Nat, NEW a \in Nat, NEW l \in [1 .. M -> Nat], NEW p \in 1 .. M,
         \A i \in 1 .. M : l[i] <= a,
         \A i \in 2 .. M : l[i] <= l[i - 1],
         \A i \in p .. M : l[i] < a,
         \A i \in 1 .. p - 1 : l[i] >= 1,
         p > 1 => l[p] < l[p - 1],
         NEW m, m = [l EXCEPT ![p] = l[p] + 1]
  PROVE  /\ \A i \in 1 .. M : m[i] <= a
         /\ \A i \in 2 .. M : m[i] <= m[i - 1]
         /\ \A i \in p + 1 .. M : m[i] < a
         /\ \A i \in 1 .. p : m[i] >= 1
         /\ p < M => m[p + 1] < m[p]
<1>1. /\ m[p] = l[p] + 1
      /\ \A i \in 1 .. M : l[i] \in Nat
      /\ \A i \in 1 .. M : i # p => m[i] = l[i]
      /\ \A i \in 1 .. M : m[i] \in Nat /\ m[i] >= l[i]
  OBVIOUS
<1>2. \A i \in 1 .. M : m[i] <= a
  BY <1>1
<1>3. \A i \in 2 .. M : m[i] <= m[i - 1]
  <2> TAKE i \in 2 .. M
  <2>1. i \in 1 .. M /\ i - 1 \in 1 .. M /\ l[i] <= l[i - 1]
    OBVIOUS
  <2>2. CASE i = p
    BY <1>1, <2>1, <2>2
  <2>3. CASE i # p
    BY <1>1, <2>1, <2>3
  <2> QED BY <2>2, <2>3
<1>4. \A i \in p + 1 .. M : m[i] < a
  BY <1>1
<1>5. \A i \in 1 .. p : m[i] >= 1
  BY <1>1
<1>6. p < M => m[p + 1] < m[p]
  <2> HAVE p < M
  <2>1. p + 1 \in 2 .. M /\ p + 1 \in 1 .. M /\ (p + 1) - 1 = p
    OBVIOUS
  <2> QED BY <1>1, <2>1
<1> QED BY <1>2, <1>3, <1>4, <1>5, <1>6

(* The one step that hands a record over.                                  *)
LEMMA IngestStep ==
  ASSUME IInv, NEW c \in Callers, Ingest(c)
  PROVE  IInv'
<1> USE ClientAssumption DEF ClientAssumption, IInv
<1> DEFINE p == pos[c]
<1>1. /\ pc[c] = "ingest" /\ result[c] # "sent"
      /\ p \in 1 .. Len(batch[c]) /\ Len(batch[c]) \in 1 .. MaxBatch
      /\ p \in 1 .. MaxBatch
      /\ landed[c] \in [1 .. MaxBatch -> 0 .. MaxRetries]
      /\ attempt[c] \in 1 .. MaxRetries
      /\ landed[c][p] < attempt[c]
  BY SMTT(30) DEF Ingest, CallInv, LandedInv, TypeOK
<1>2. /\ landed' = [landed EXCEPT ![c] = [landed[c] EXCEPT ![p] = landed[c][p] + 1]]
      /\ UNCHANGED <<stream, up, cancels, attempt, batch>>
  BY <1>1 DEF Ingest, TypeOK
<1>3. \/ /\ p < Len(batch[c])
         /\ pos' = [pos EXCEPT ![c] = p + 1]
         /\ UNCHANGED <<cb, trials, pc, result>>
      \/ /\ ~(p < Len(batch[c]))
         /\ cb' = RecordSuccess(cb)
         /\ trials' = IF trials < HalfOpenMaxCalls THEN trials + 1 ELSE trials
         /\ pc' = [pc EXCEPT ![c] = "idle"]
         /\ result' = [result EXCEPT ![c] = "sent"]
         /\ pos' = pos
  BY DEF Ingest, Return
<1>4. GoodBreaker(cb) /\ GoodBreaker(cb')
  <2>1. GoodBreaker(cb)
    BY DEF GoodBreaker, TypeOK, CircuitConsistent
  <2> QED BY <1>3, <2>1, RecordSuccessGood
<1>5. TypeOK'
  <2>1. landed' \in [Callers -> [1 .. MaxBatch -> 0 .. MaxRetries]]
    <3>1. landed[c][p] + 1 \in 0 .. MaxRetries
      BY SMTT(30), <1>1
    <3>2. [landed[c] EXCEPT ![p] = landed[c][p] + 1] \in [1 .. MaxBatch -> 0 .. MaxRetries]
      BY <1>1, <3>1
    <3> QED BY <1>2, <3>2 DEF TypeOK
  <2>2. pos' \in [Callers -> 1 .. MaxBatch]
    <3>1. p < Len(batch[c]) => p + 1 \in 1 .. MaxBatch
      BY SMTT(30), <1>1
    <3> QED BY <1>3, <3>1 DEF TypeOK
  <2>3. trials' \in 0 .. HalfOpenMaxCalls
    BY <1>3, BreakerBounds DEF TypeOK
  <2>4. pc' \in [Callers -> {"idle", "connect", "ingest", "closing", "sleep"}]
    BY <1>3 DEF TypeOK
  <2>5. result' \in [Callers -> {"none", "sent", "failed", "rejected", "cancelled"}]
    BY <1>3 DEF TypeOK
  <2> QED BY <1>2, <1>4, <2>1, <2>2, <2>3, <2>4, <2>5 DEF TypeOK, GoodBreaker
<1>6. CircuitConsistent' /\ TrialInv'
  <2>1. CircuitConsistent'
    BY <1>4 DEF GoodBreaker, CircuitConsistent
  <2>2. TrialInv'
    <3>1. CASE UNCHANGED <<cb, trials>>
      BY <3>1 DEF TrialInv
    <3>2. CASE /\ cb' = RecordSuccess(cb)
               /\ trials' = IF trials < HalfOpenMaxCalls THEN trials + 1 ELSE trials
      <4>1. cb'.state = "half_open" => /\ cb.state = "half_open"
                                       /\ cb'.success_count = cb.success_count + 1
                                       /\ cb'.success_count < HalfOpenMaxCalls
        BY <1>4, <3>2, BreakerMoves
      <4>2. cb.success_count \in Nat /\ trials \in Nat
        BY BreakerBounds DEF TypeOK, Breaker
      <4> QED BY <3>2, <4>1, <4>2, BreakerBounds DEF TrialInv
    <3> QED BY <1>3, <3>1, <3>2
  <2> QED BY <2>1, <2>2
<1>7. ASSUME NEW d \in Callers PROVE CallInv(d)' /\ LandedInv(d)'
  <2>1. CASE d # c
    BY <1>2, <1>3, <2>1, Frame DEF TypeOK
  <2>2. CASE d = c
    <3>1. /\ landed'[c] = [landed[c] EXCEPT ![p] = landed[c][p] + 1]
          /\ attempt'[c] = attempt[c] /\ batch'[c] = batch[c]
      BY <1>2 DEF TypeOK
    <3>2. \/ /\ p < Len(batch[c])
             /\ pos'[c] = p + 1 /\ pc'[c] = "ingest" /\ result'[c] # "sent"
          \/ /\ ~(p < Len(batch[c]))
             /\ pos'[c] = p /\ pc'[c] = "idle" /\ result'[c] = "sent"
      <4>1. /\ pos \in [Callers -> 1 .. MaxBatch]
            /\ pc \in [Callers -> {"idle", "connect", "ingest", "closing", "sleep"}]
            /\ result \in [Callers -> {"none", "sent", "failed", "rejected", "cancelled"}]
        BY DEF TypeOK
      <4> HIDE DEF IInv
      <4> QED BY <1>1, <1>3, <4>1
    <3>3. CallInv(c)'
      BY SMTT(30), <1>1, <3>1, <3>2 DEF CallInv
    <3>4. /\ \A i \in 1 .. MaxBatch : landed[c][i] <= attempt[c]
          /\ \A i \in 2 .. MaxBatch : landed[c][i] <= landed[c][i - 1]
          /\ \A i \in p .. MaxBatch : landed[c][i] < attempt[c]
          /\ \A i \in 1 .. p - 1 : landed[c][i] >= 1
          /\ p > 1 => landed[c][p] < landed[c][p - 1]
      BY <1>1 DEF LandedInv
    <3>5. landed[c] \in [1 .. MaxBatch -> Nat] /\ attempt[c] \in Nat
      BY <1>1
    <3> HIDE DEF IInv, p
    <3>6. /\ \A i \in 1 .. MaxBatch : landed'[c][i] <= attempt[c]
          /\ \A i \in 2 .. MaxBatch : landed'[c][i] <= landed'[c][i - 1]
          /\ \A i \in p + 1 .. MaxBatch : landed'[c][i] < attempt[c]
          /\ \A i \in 1 .. p : landed'[c][i] >= 1
          /\ p < MaxBatch => landed'[c][p + 1] < landed'[c][p]
      BY <1>1, <3>1, <3>4, <3>5, OneMoreCopy
    <3>7. LandedInv(c)'
      <4>1. CASE p < Len(batch[c])
        <5>1. /\ pc'[c] = "ingest" /\ pos'[c] = p + 1 /\ result'[c] # "sent"
              /\ p < MaxBatch /\ p \in Nat
          BY <1>1, <3>2, <4>1
        <5>2. (p + 1) - 1 = p /\ 1 .. (p + 1) - 1 = 1 .. p
          BY <5>1
        <5> QED BY <3>1, <3>6, <5>1, <5>2 DEF LandedInv
      <4>2. CASE ~(p < Len(batch[c]))
        BY <1>1, <3>1, <3>2, <3>6, <4>2 DEF LandedInv
      <4> QED BY <4>1, <4>2
    <3> QED BY <2>2, <3>3, <3>7
  <2> QED BY <2>1, <2>2
<1> QED BY <1>5, <1>6, <1>7

(* Every step of the client, the service and the clock keeps the invariant.*)
THEOREM NextInv == IInv /\ [Next]_vars => IInv'
<1> SUFFICES ASSUME IInv, [Next]_vars PROVE IInv'
  OBVIOUS
<1>1. ASSUME NEW c \in Callers, NEW b \in Batches, Call(c, b) PROVE IInv'
  BY <1>1, CallStep
<1>2. ASSUME NEW c \in Callers, Connect(c) PROVE IInv'
  BY <1>2, ConnectStep
<1>3. ASSUME NEW c \in Callers, ConnectFails(c) PROVE IInv'
  BY <1>3, AttemptFailedInv DEF ConnectFails, IInv, TypeOK
<1>4. ASSUME NEW c \in Callers, Ingest(c) PROVE IInv'
  BY <1>4, IngestStep
<1>5. ASSUME NEW c \in Callers, IngestFails(c) PROVE IInv'
  <2>1. /\ pc[c] # "idle" /\ \E retriable \in BOOLEAN : AttemptFailed(c, retriable)
        /\ stream' \in {"none", "open", "closed"}
    BY <1>5 DEF IngestFails, IInv, TypeOK
  <2> QED BY <2>1, AttemptFailedInv
<1>6. ASSUME NEW c \in Callers, IngestOnClosedStream(c) PROVE IInv'
  BY <1>6, IngestOnClosedStreamStep
<1>7. ASSUME NEW c \in Callers, StreamDropped(c) PROVE IInv'
  <2>1. /\ pc[c] # "idle" /\ AttemptFailed(c, TRUE)
        /\ stream' \in {"none", "open", "closed"}
    BY <1>7 DEF StreamDropped, IInv, TypeOK
  <2> QED BY <2>1, AttemptFailedInv
<1>8. ASSUME NEW c \in Callers, Retry(c) PROVE IInv'
  BY <1>8, RetryStep
<1>9. ASSUME NEW c \in Callers, Cancel(c) PROVE IInv'
  BY <1>9, CancelStep
<1>10. CASE Close \/ Outage \/ Restore \/ ServerCloses \/ Tick \/ UNCHANGED vars
  <2>1. /\ UNCHANGED callVars /\ UNCHANGED <<trials, cancels>>
        /\ cb' = cb \/ cb' = Elapse(cb)
        /\ stream' \in {"none", "open", "closed"} /\ up' \in BOOLEAN
    BY <1>10 DEF Close, Outage, Restore, ServerCloses, Tick, vars,
                 IInv, TypeOK
  <2> QED BY <2>1, QuietStep
<1> QED BY <1>1, <1>2, <1>3, <1>4, <1>5, <1>6, <1>7, <1>8, <1>9, <1>10
        DEF Next, Proceed
------------------------------------------------------------------------------
(* Every reachable state of the client is one IInv describes.              *)
THEOREM Invariant == Spec => []IInv
BY InitInv, NextInv, PTL DEF Spec

(* Every variable of the client keeps its type: no attempt beyond          *)
(* max_attempts is made, no counter of the breaker leaves its range.       *)
THEOREM TypeCorrect == Spec => []TypeOK
<1>1. IInv => TypeOK
  BY DEF IInv
<1> QED BY <1>1, Invariant, PTL

(* The circuit breaker never gets into a state it cannot leave, whatever   *)
(* the interleaving of callers, retries and cancellations.                 *)
THEOREM BreakerSound == Spec => []CircuitConsistent
<1>1. IInv => CircuitConsistent
  BY DEF IInv
<1> QED BY <1>1, Invariant, PTL

(* send_batch returns True only after it handed over every record of the   *)
(* batch, for any number of callers that share the client.                 *)
THEOREM TrueIsHonest == Spec => []TrueMeansHandedOver
<1>1. IInv => TrueMeansHandedOver
  BY DEF IInv, LandedInv, TrueMeansHandedOver
<1> QED BY <1>1, Invariant, PTL

(* What one send_batch may store twice is a prefix of its batch, with no   *)
(* more copies than attempts.                                              *)
THEOREM DuplicatesAreAPrefix == Spec => []RetriesRepeatAPrefix
<1>1. IInv => RetriesRepeatAPrefix
  <2> SUFFICES ASSUME IInv, NEW c \in Callers, NEW i \in 1 .. Len(batch[c])
               PROVE  /\ landed[c][i] <= attempt[c]
                      /\ i > 1 => landed[c][i] <= landed[c][i - 1]
    BY DEF RetriesRepeatAPrefix
  <2>1. Len(batch[c]) \in Nat /\ Len(batch[c]) <= MaxBatch
    BY DEF IInv, CallInv, TypeOK
  <2>2. i \in 1 .. MaxBatch /\ (i > 1 => i \in 2 .. MaxBatch)
    BY <2>1, ClientAssumption DEF ClientAssumption
  <2> QED BY <2>2 DEF IInv, LandedInv
<1> QED BY <1>1, Invariant, PTL

(* A tripped circuit closes only after half_open_max_calls successes       *)
(* recorded since it went half-open.                                       *)
THEOREM ClosingIsEarned == Spec => RecoveryIsEarned
<1>1. IInv /\ [Next]_vars =>
        [cb.state # "closed" /\ cb'.state = "closed" => trials' >= HalfOpenMaxCalls]_vars
  <2> SUFFICES ASSUME IInv, Next, cb.state # "closed", cb'.state = "closed"
               PROVE  trials' >= HalfOpenMaxCalls
    OBVIOUS
  <2>1. GoodBreaker(cb)
    BY DEF IInv, GoodBreaker, TypeOK, CircuitConsistent
  <2>2. cb' # cb /\ cb' # RecordFailure(cb) /\ cb' # AfterCanExecute(cb) /\ cb' # Elapse(cb)
    BY <2>1, BreakerMoves
  <2>3. PICK c \in Callers : Ingest(c)
    BY <2>2 DEF Next, Proceed, Call, Connect, ConnectFails, IngestFails,
            IngestOnClosedStream, StreamDropped, Retry, Cancel, Close, Outage,
            Restore, ServerCloses, Tick, AttemptFailed
  <2>4. /\ cb' = RecordSuccess(cb)
        /\ trials' = IF trials < HalfOpenMaxCalls THEN trials + 1 ELSE trials
    BY <2>2, <2>3 DEF Ingest
  <2>5. cb.state = "half_open" /\ cb.success_count + 1 >= HalfOpenMaxCalls
    BY <2>1, <2>4, BreakerMoves
  <2>6. cb.success_count <= trials /\ trials \in Nat /\ cb.success_count \in Nat
    BY <2>5, BreakerBounds DEF IInv, TrialInv, TypeOK, Breaker
  <2> QED BY <2>4, <2>5, <2>6, BreakerBounds
<1> QED BY <1>1, Invariant, PTL DEF Spec, RecoveryIsEarned
=============================================================================
