-------------------------- MODULE NumericCompression --------------------------
(***************************************************************************)
(* What the bridge sends on of the samples of one tag under one numeric    *)
(* compression policy: _apply_numeric_compression of the bridge, and the   *)
(* swinging door (SDT) of core/numeric_compression.py.  Samples are        *)
(* applied one at a time, on the event loop, in order of arrival; their    *)
(* event times come from the source and need not increase.                 *)
(* Times and values are integers and slopes are exact fractions, where the *)
(* code has floats; which policy applies to the tag never changes.         *)
(***************************************************************************)
EXTENDS Integers, Sequences

CONSTANTS
  Policies,    \* the policies considered
  Values,      \* sample values: integers
  NonNumeric,  \* those of them that stand for text and Booleans
  Nothing,     \* last_emitted_by_key has no entry; an integer too
  Horizon,     \* bound: event times
  MaxSamples   \* bound: samples received

Policy == [mode : {"none", "change_only", "deadband", "sdt"}, change_only : BOOLEAN,
           deadband : Int, deviation : Int, max_interval : Nat, min_interval : Nat]

ASSUME PolicyAssumption ==
  /\ Policies \subseteq Policy
  /\ Values \subseteq Int /\ NonNumeric \subseteq Values
  /\ Nothing \in Int \ Values
  /\ Horizon \in Nat /\ MaxSamples \in Nat

VARIABLES
  policy,   \* the policy that applies to the tag
  last,     \* last_emitted_by_key of the tag
  sdt,      \* sdt_state_by_key of the tag
  sample,   \* history: the sample received last
  segment,  \* history: numeric samples since the last emitted one
  sent,     \* history: the last point emitted by the door
  got,      \* history: the value the receiver has, the last one emitted
  received, \* history: number of samples received
  outcome   \* history: what became of the sample received last

vars == <<policy, last, sdt, sample, segment, sent, got, received, outcome>>

Deviation == policy.deviation
MaxInterval == policy.max_interval
MinInterval == policy.min_interval

Point == [t : 0 .. Horizon, v : Values]
NoPoint == [t |-> 0, v |-> Nothing]

(* A slope is a fraction <<numerator, denominator>>. *)
MinusInfinity == <<-1, 0>>
PlusInfinity == <<1, 0>>
Less(a, b) == a[1] * b[2] < b[1] * a[2]
Steeper(a, b) == IF Less(a, b) THEN b ELSE a
Flatter(a, b) == IF Less(b, a) THEN b ELSE a

NoState == [initialized |-> FALSE, anchor |-> NoPoint, prev |-> NoPoint,
            lower_slope |-> MinusInfinity, upper_slope |-> PlusInfinity, last_emit |-> 0]

Slope == {<<-1, 0>>, <<1, 0>>} \union (Int \X (1 .. Horizon))

TypeOK ==
  /\ policy \in Policies
  /\ last \in Values \union {Nothing} /\ got \in Values \union {Nothing}
  /\ sdt = NoState \/ sdt \in [initialized : {TRUE}, anchor : Point, prev : Point,
                               lower_slope : Slope, upper_slope : Slope,
                               last_emit : 0 .. Horizon]
  /\ sample \in Point \union {NoPoint} /\ sent \in Point \union {NoPoint}
  /\ segment \in Seq(Point)
  /\ received \in 0 .. MaxSamples
  /\ outcome \in {"none", "emitted", "filtered", "suppressed", "inside",
                  "first", "reset", "forced", "closed"}

Init ==
  /\ policy \in Policies
  /\ last = Nothing /\ got = Nothing /\ sdt = NoState
  /\ sample = NoPoint /\ segment = <<>> /\ sent = NoPoint
  /\ received = 0 /\ outcome = "none"
------------------------------------------------------------------------------
(* A door without slopes yet, on a point that is emitted. *)
Hung(p) == [initialized |-> TRUE, anchor |-> p, prev |-> p,
            lower_slope |-> MinusInfinity, upper_slope |-> PlusInfinity, last_emit |-> p.t]

(* The slopes from the anchor to the bottom and the top of p's tolerance. *)
Low(s, p) == <<p.v - s.anchor.v - Deviation, p.t - s.anchor.t>>
High(s, p) == <<p.v - s.anchor.v + Deviation, p.t - s.anchor.t>>

(* Faulty version: the upper slope of the last sample alone. *)
Narrow_UpperForgotten(s, p) ==
  [s EXCEPT !.prev = p, !.lower_slope = Steeper(@, Low(s, p)), !.upper_slope = High(s, p)]

(* The door after p: the anchor stays where it is. *)
Narrow(s, p) ==
  [s EXCEPT !.prev = p,
            !.lower_slope = Steeper(@, Low(s, p)),
            !.upper_slope = Flatter(@, High(s, p))]

(* Faulty version: hung on the sample that closed it. *)
Rehang_OnCurrent(s, p) == Hung(p)

(* A closed door is hung again on the point before, and takes in p. *)
Rehang(s, p) == Narrow(Hung(s.prev), p)

(* Faulty version: event times are taken to increase. *)
OutOfOrder_Never(s, p) == FALSE

OutOfOrder(s, p) == p.t <= s.prev.t
TooSoon(s, p) == MinInterval > 0 /\ p.t - s.last_emit < MinInterval

(* Faulty version: measured from the last sample. *)
TooLong_SinceSample(s, p) == MaxInterval > 0 /\ p.t - s.prev.t >= MaxInterval

TooLong(s, p) == MaxInterval > 0 /\ p.t - s.last_emit >= MaxInterval

(* SdtState.offer: the new state, the outcome, and the point emitted.      *)
Offer(s, p) ==
  IF ~s.initialized THEN [sdt |-> Hung(p), outcome |-> "first", emit |-> p]
  ELSE IF OutOfOrder(s, p) THEN [sdt |-> Hung(p), outcome |-> "reset", emit |-> p]
  ELSE IF TooSoon(s, p)
  THEN [sdt |-> [s EXCEPT !.prev = p], outcome |-> "suppressed", emit |-> NoPoint]
  ELSE IF TooLong(s, p)
  THEN [sdt |-> Hung(p), outcome |-> "forced", emit |-> p]
  ELSE LET door == Narrow(s, p)
       IN  IF Less(door.upper_slope, door.lower_slope)
           THEN [sdt |-> Rehang(s, p), outcome |-> "closed", emit |-> s.prev]
           ELSE [sdt |-> door, outcome |-> "inside", emit |-> NoPoint]

(* changed and meaningful_numeric_change, for a value that is present and, *)
(* if it is text, does not read as a number.                               *)
Changed(v) == last # v

Meaningful(v) ==
  IF last \in NonNumeric \union {Nothing} \/ v \in NonNumeric
  THEN Changed(v)
  ELSE (IF last > v THEN last - v ELSE v - last)
         > (IF policy.deadband > 0 THEN policy.deadband ELSE 0)

(* Every mode but SDT, and all values that are no numbers.                 *)
Passes(v) ==
  \/ v \notin NonNumeric /\ policy.mode = "none" /\ ~policy.change_only
  \/ IF v \notin NonNumeric /\ policy.mode = "deadband" THEN Meaningful(v) ELSE Changed(v)

BySdt(v) == policy.mode = "sdt" /\ Deviation > 0 /\ v \notin NonNumeric

(* Faulty version: compares with the last sample, sent or not. *)
Filter_Follows(p) ==
  /\ IF Passes(p.v)
     THEN got' = p.v /\ outcome' = "emitted"
     ELSE UNCHANGED got /\ outcome' = "filtered"
  /\ last' = p.v
  /\ UNCHANGED <<sdt, segment, sent>>

Filter(p) ==
  /\ IF Passes(p.v)
     THEN last' = p.v /\ got' = p.v /\ outcome' = "emitted"
     ELSE UNCHANGED <<last, got>> /\ outcome' = "filtered"
  /\ UNCHANGED <<sdt, segment, sent>>

Trend(p) ==
  LET out == Offer(sdt, p)
  IN  /\ sdt' = out.sdt /\ outcome' = out.outcome
      /\ IF out.emit = NoPoint
         THEN /\ UNCHANGED <<last, sent, got>>
              /\ segment' = Append(segment, p)
         ELSE /\ last' = out.emit.v /\ sent' = out.emit /\ got' = out.emit.v
              /\ segment' = IF out.outcome = "closed" THEN <<p>> ELSE <<>>

Apply(t, v) ==
  /\ received < MaxSamples
  /\ received' = received + 1
  /\ sample' = [t |-> t, v |-> v] /\ UNCHANGED policy
  /\ IF BySdt(v) THEN Trend([t |-> t, v |-> v]) ELSE Filter([t |-> t, v |-> v])

Next ==
  \E t \in 0 .. Horizon, v \in Values : Apply(t, v)

Spec == Init /\ [][Next]_vars
------------------------------------------------------------------------------
Points(seq) == {seq[i] : i \in DOMAIN seq}
Distance(a, b) == IF a > b THEN a - b ELSE b - a

(* What a point p between a and b is off the straight line from a to b,    *)
(* times the length of the line.                                           *)
OffLine(a, b, p) ==
  Distance((b.v - a.v) * (p.t - a.t) + a.v * (b.t - a.t), p.v * (b.t - a.t))

(* The door hangs on a point that the receiver has: the anchor, and the    *)
(* time intervals are measured from, is the last point emitted.            *)
AnchorIsSent == sdt.initialized => sdt.anchor = sent /\ sdt.last_emit = sent.t

(* When a door closes, the receiver who draws a line from the last point   *)
(* to the new one is off no sample between them by twice the deviation.    *)
(* (Not by the deviation itself: the point emitted need not be in the      *)
(* middle of the door.  Samples that a minimum interval suppresses never   *)
(* pass the door, and are off by any distance.)                            *)
ClosingKeepsTheCurve ==
  [][ outcome' = "closed" /\ MinInterval = 0 =>
        \A p \in Points(segment) :
          OffLine(sent, sent', p) <= 2 * Deviation * (sent'.t - sent.t)
    ]_vars

(* Points leave in the order of their event times, except those that reset *)
(* the door because they arrived out of order.                             *)
EmittedInOrder ==
  [][ outcome' \in {"closed", "forced"} => sent'.t > sent.t ]_vars

(* A tag that keeps reporting is never silent for the maximum interval,    *)
(* unless the minimum interval, which is looked at first, is longer.       *)
SilenceIsBounded ==
  MaxInterval > 0 /\ MinInterval <= MaxInterval /\ sdt.initialized =>
    sdt.prev.t - sent.t < MaxInterval

(* Without SDT, the receiver's value is the tag's, or within the deadband  *)
(* of it, however slowly the tag drifts.                                   *)
ReceiverIsClose ==
  received > 0 /\ ~(policy.mode = "sdt" /\ Deviation > 0) =>
    \/ got = sample.v
    \/ /\ policy.mode = "deadband" /\ {got, sample.v} \intersect NonNumeric = {}
       /\ Distance(got, sample.v) <= policy.deadband
==============================================================================
