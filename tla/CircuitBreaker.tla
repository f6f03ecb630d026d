--------------------------- MODULE CircuitBreaker ---------------------------
(***************************************************************************)
(* The circuit breaker of core/zerobus_client.py as operators over one     *)
(* breaker record.  Every method is synchronous, so each is one atomic     *)
(* transformation of the record; ZeroBusClient composes them.              *)
(*                                                                         *)
(* Time is abstracted to "age", the ticks since last_failure_time, which   *)
(* saturates at TimeoutTicks (the code only compares it with the timeout); *)
(* "failed" says that last_failure_time is not None.  failure_count is     *)
(* only compared with the threshold, so it saturates at FailureThreshold.  *)
(***************************************************************************)
EXTENDS Naturals

CONSTANTS
  FailureThreshold, \* failures in a row that open the circuit
  TimeoutTicks,     \* ticks the circuit stays open before a test call
  HalfOpenMaxCalls  \* successful test calls that close the circuit

ASSUME BreakerAssumption ==
  /\ FailureThreshold \in Nat \ {0}
  /\ TimeoutTicks \in Nat
  /\ HalfOpenMaxCalls \in Nat \ {0}

CircuitState == {"closed", "open", "half_open"}

Breaker == [ state           : CircuitState,
             failure_count   : 0 .. FailureThreshold,
             success_count   : 0 .. HalfOpenMaxCalls,
             half_open_calls : 0 .. HalfOpenMaxCalls,
             failed          : BOOLEAN,
             age             : 0 .. TimeoutTicks ]

NewBreaker == [ state           |-> "closed",
                failure_count   |-> 0,
                success_count   |-> 0,
                half_open_calls |-> 0,
                failed          |-> FALSE,
                age             |-> 0 ]

(* Faulty RecordSuccess: one success closes the circuit from any state. *)
RecordSuccess_ClosesAtOnce(b) ==
  [b EXCEPT !.state = "closed", !.failure_count = 0,
            !.success_count = 0, !.half_open_calls = 0]

(* A success counts as a test call only while half-open; in any other      *)
(* state, "open" included, it just clears the failure count.               *)
RecordSuccess(b) ==
  IF b.state # "half_open"
  THEN [b EXCEPT !.failure_count = 0]
  ELSE IF b.success_count + 1 >= HalfOpenMaxCalls
       THEN [b EXCEPT !.state = "closed", !.failure_count = 0,
                      !.success_count = 0, !.half_open_calls = 0]
       ELSE [b EXCEPT !.success_count = @ + 1, !.half_open_calls = @ + 1]

CountFailure(b) ==
  [b EXCEPT !.failure_count = IF @ < FailureThreshold THEN @ + 1 ELSE @,
            !.failed = TRUE, !.age = 0]

(* Faulty RecordFailure: the trial counters survive a failed test call. *)
RecordFailure_KeepsTrials(b) ==
  LET counted == CountFailure(b)
  IN  IF b.state = "half_open" \/ counted.failure_count >= FailureThreshold
      THEN [counted EXCEPT !.state = "open"]
      ELSE counted

RecordFailure(b) ==
  LET counted == CountFailure(b)
  IN  IF b.state = "half_open"
      THEN [counted EXCEPT !.state = "open", !.half_open_calls = 0,
                           !.success_count = 0]
      ELSE IF counted.failure_count >= FailureThreshold
           THEN [counted EXCEPT !.state = "open"]
           ELSE counted

CooledDown(b) == b.age >= TimeoutTicks

(* The answer of can_execute, and the breaker it leaves behind. *)
CanExecute(b) ==
  \/ b.state = "closed"
  \/ b.state = "open" /\ CooledDown(b)
  \/ b.state = "half_open" /\ b.half_open_calls < HalfOpenMaxCalls

(* Faulty AfterCanExecute: a test call is counted when it is admitted too. *)
AfterCanExecute_CountsAdmission(b) ==
  IF b.state = "open" /\ CooledDown(b)
  THEN [b EXCEPT !.state = "half_open", !.half_open_calls = 1, !.success_count = 0]
  ELSE IF b.state = "half_open" /\ CanExecute(b)
       THEN [b EXCEPT !.half_open_calls = @ + 1]
       ELSE b

AfterCanExecute(b) ==
  IF b.state = "open" /\ CooledDown(b)
  THEN [b EXCEPT !.state = "half_open", !.half_open_calls = 0, !.success_count = 0]
  ELSE b

(* One tick of the wall clock. *)
Elapse(b) == [b EXCEPT !.age = IF b.failed /\ @ < TimeoutTicks THEN @ + 1 ELSE @]

(***************************************************************************)
(* What every reachable breaker satisfies: a closed circuit is below the   *)
(* threshold, an open one remembers the failure its timeout is measured    *)
(* from (can_execute subtracts it), and the two half-open counters agree   *)
(* and stay below the limit, so a half-open circuit never refuses a call   *)
(* for ever.                                                               *)
(***************************************************************************)
BreakerConsistent(b) ==
  /\ b.state = "closed" => /\ b.failure_count < FailureThreshold
                           /\ b.success_count = 0
  /\ b.state # "closed" => b.failed
  /\ b.half_open_calls = b.success_count
  /\ b.success_count < HalfOpenMaxCalls
  /\ b.state = "open" => b.success_count = 0
=============================================================================
