----------------------------- MODULE FlowController -----------------------------
(***************************************************************************)
(* FlowController of utils/flow_controller.py: a counting semaphore that   *)
(* nobody bounds from above, and a count of timeouts that, when it reaches *)
(* a limit, makes acquire() release a permit and report success.  The      *)
(* statistics it keeps beside are left out.                                *)
(***************************************************************************)
EXTENDS Naturals

CONSTANT MaxTimeouts  \* max_consecutive_timeouts

ASSUME TimeoutsAssumption == MaxTimeouts \in Nat \ {0}

(* permits never bounds itself: MaxPermits only bounds what is explored.   *)
Controller(maxPermits) == [permits : 0 .. maxPermits, timeouts : 0 .. MaxTimeouts - 1]

NewController == [permits |-> 1, timeouts |-> 0]

CanAcquire(fc) == fc.permits > 0

Acquired(fc) == [permits |-> fc.permits - 1, timeouts |-> 0]

(* acquire() at its timeout: recovery adds a permit and is an acquire.     *)
Recovers(fc) == fc.timeouts + 1 >= MaxTimeouts

TimedOut(fc) ==
  IF Recovers(fc) THEN [permits |-> fc.permits + 1, timeouts |-> 0]
                  ELSE [fc EXCEPT !.timeouts = @ + 1]

Released(fc) == [fc EXCEPT !.permits = @ + 1]
=================================================================================
