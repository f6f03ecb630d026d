----------------------------- MODULE Field_proofs -----------------------------
(***************************************************************************)
(* Proofs about the parts of Field, each for every value of its constants: *)
(*   - in the regatta a boat does not tack twice in a row, is taken out as *)
(*     stuck only when it was near land throughout, and its fate is in the *)
(*     table, for every fleet, every wind and every coast;                 *)
(*   - the wind stays in its band, around the whole circle;                *)
(*   - the filter of unchanged values remembers what the receiver has;     *)
(*   - a discovery scan finds every server that was up throughout, however *)
(*     many scans overlap;                                                 *)
(*   - the OPC-UA clients, with and without a broker, lose nothing that    *)
(*     they do not lose knowingly;                                         *)
(*   - and all of it holds in the model that composes them.                *)
(***************************************************************************)
EXTENDS Field, SequencesExt, SequenceTheorems, FiniteSetTheorems, WellFoundedInduction,
        TLAPS

-----------------------------------------------------------------------------
(* Natural numbers                                                         *)

(* A set of numbers that is not empty has a least one: what the proofs have *)
(* for induction along a recursive function.                               *)
LEMMA LeastNat ==
  ASSUME NEW N \in SUBSET Nat, N # {}
  PROVE  \E x \in N : \A y \in N : x <= y
<1> DEFINE Below == OpToRel(<, Nat)
<1>1. IsWellFoundedOn(Below, Nat)
  BY NatLessThanWellFounded, Zenon
<1>2. \A x, y \in Nat : y < x => <<y, x>> \in Below
  BY DEF OpToRel
<1> HIDE DEF Below
<1>3. PICK x \in N : \A y \in N : ~ (<<y, x>> \in Below)
  BY <1>1, WFMin, Zenon
<1>4. x \in Nat /\ N \subseteq Nat
  OBVIOUS
<1>5. ASSUME NEW y \in N PROVE x <= y
  <2>1. y \in Nat
    OBVIOUS
  <2>2. ~ (y < x)
    BY <1>2, <1>3, <1>4, <2>1, Zenon
  <2> QED BY <1>4, <2>1, <2>2
<1> QED BY <1>5, Zenon

(* A set that has 0 and with every number the next one has them all.       *)
LEMMA SetInduction ==
  ASSUME NEW S \in SUBSET Nat, 0 \in S, \A n \in S : n + 1 \in S
  PROVE  S = Nat
<1> SUFFICES ASSUME Nat \ S # {} PROVE FALSE
  OBVIOUS
<1>1. PICK x \in Nat \ S : \A y \in Nat \ S : x <= y
  BY LeastNat
<1>2. x # 0 /\ x - 1 \in Nat /\ x - 1 \in S
  BY <1>1
<1> QED BY <1>2, <1>1

-----------------------------------------------------------------------------
(* Regatta                                                                 *)

Boat ==
  [mark : 0 .. Marks, finished : BOOLEAN, dnf : {"no", "stuck", "reverse"},
   reversing : BOOLEAN, reversingFor : 0 .. MaxReverse, stuckFor : 0 .. MaxStuck,
   shifted : BOOLEAN, delay : 0 .. Reaction, sinceTack : 0 .. MinTackTime + 1,
   tacked : BOOLEAN]

Zones == {"critical", "danger", "caution", "warning", "safe"}

LEMMA MeetingTypes ==
  ASSUME NEW e \in Encounters
  PROVE  /\ e.zone \in Zones /\ e.safeHeading \in BOOLEAN
         /\ e.zone \in {"safe", "caution", "warning"} => e.safeHeading
<1>1. PICK z \in {Zone(EstimateDistanceToLand(o)) : o \in Offings} :
        e \in [zone : {z}, safeHeading : SafeHeadings(z), reverseHeading : BOOLEAN,
               shift : BOOLEAN, reason : Reasons \cup {"none"},
               atMark : BOOLEAN, crossesFinish : BOOLEAN]
  BY DEF Encounters
<1>2. \A d : Zone(d) \in Zones
  BY DEF Zone, Zones
<1>3. z \in Zones
  BY <1>2
<1>4. e.zone = z /\ e.safeHeading \in SafeHeadings(z)
  BY <1>1
<1> QED BY <1>3, <1>4 DEF SafeHeadings

LEMMA RaceNumbers ==
  ASSUME RegattaAssumption
  PROVE  /\ Marks \in Nat /\ Duration \in Nat /\ Reaction \in Nat
         /\ MaxReverse \in Nat /\ MaxReverse > 0 /\ MaxStuck \in Nat /\ MaxStuck > 0
         /\ MaxSteps \in Nat /\ MaxSteps > 0
         /\ IronsTime \in Nat /\ AwayTime \in Nat /\ MinTackTime \in Nat
         /\ IronsTime <= AwayTime /\ AwayTime <= MinTackTime
BY DEF RegattaAssumption

(* The crew's delay says nothing of the rest of the boat. *)
LEMMA ShiftKeeps ==
  ASSUME RegattaAssumption, NEW b \in Boat, NEW e \in Encounters
  PROVE  LET c == WeatherShift(b, e)
         IN  /\ c \in Boat
             /\ c.mark = b.mark /\ c.finished = b.finished /\ c.dnf = b.dnf
             /\ c.reversing = b.reversing /\ c.reversingFor = b.reversingFor
             /\ c.stuckFor = b.stuckFor /\ c.sinceTack = b.sinceTack
<1> DEFINE delay == IF e.shift /\ ~b.shifted THEN Reaction ELSE b.delay
<1>1. delay \in 0 .. Reaction
  BY RaceNumbers DEF Boat
<1>2. (IF delay > 0 THEN delay - 1 ELSE 0) \in 0 .. Reaction
  BY <1>1, RaceNumbers
<1>3. (delay > 1) \in BOOLEAN
  OBVIOUS
<1>4. WeatherShift(b, e) =
        [b EXCEPT !.delay = IF delay > 0 THEN delay - 1 ELSE 0, !.shifted = delay > 1]
  BY DEF WeatherShift
<1> HIDE DEF delay
<1> QED BY <1>2, <1>3, <1>4 DEF Boat

(* What near land does to a boat in the race. *)
LEMMA LandKeeps ==
  ASSUME RegattaAssumption, NEW b \in Boat, NEW e \in Encounters,
         b.dnf = "no", b.stuckFor < MaxStuck
  PROVE  LET c == AvoidLand(b, e)
         IN  /\ c \in Boat
             /\ c.dnf \in {"no", "stuck"}
             /\ c.dnf = "no" => c.stuckFor < MaxStuck
             /\ c.dnf = "stuck" => c.stuckFor = MaxStuck
             /\ c.stuckFor <= b.stuckFor + 1
             /\ e.zone \in {"safe", "caution"} => c.stuckFor = 0 /\ c.dnf = "no"
             /\ c.sinceTack <= b.sinceTack
             /\ c.reversingFor <= b.reversingFor
             /\ c.reversing \/ c.reversingFor = b.reversingFor
             /\ b.reversing => c.reversing
<1>1. e.zone \in Zones /\ (e.zone \in {"safe", "caution", "warning"} => e.safeHeading)
  BY MeetingTypes
<1>2. /\ b.stuckFor \in Nat /\ b.sinceTack \in Nat /\ b.reversingFor \in Nat /\ b.reversing \in BOOLEAN
      /\ MaxStuck \in Nat /\ MaxStuck > 0 /\ MinTackTime \in Nat /\ MaxReverse \in Nat
  BY RaceNumbers DEF Boat
<1> DEFINE correction == CourseCorrection(e.zone, e.safeHeading)
<1>3. e.zone \in {"safe", "caution"} => correction \in {"none", "moderate"}
  BY <1>1 DEF CourseCorrection
<1>4. CASE NoWayOut(b, e)
  <2>1. AvoidLand(b, e) =
          [b EXCEPT !.stuckFor = @ + 1,
                    !.dnf = IF b.stuckFor + 1 >= MaxStuck THEN "stuck" ELSE @]
    BY <1>4 DEF AvoidLand
  <2>2. e.zone \notin {"safe", "caution"}
    BY <1>3, <1>4 DEF NoWayOut
  <2>3. b.stuckFor + 1 \in 0 .. MaxStuck
    BY <1>2
  <2>4. CASE b.stuckFor + 1 >= MaxStuck
    <3> DEFINE c == [b EXCEPT !.stuckFor = b.stuckFor + 1, !.dnf = "stuck"]
    <3>1. AvoidLand(b, e) = c
      BY <2>1, <2>4
    <3>2. c \in Boat
      BY <2>3 DEF Boat
    <3>3. /\ c.stuckFor = b.stuckFor + 1 /\ c.dnf = "stuck" /\ c.sinceTack = b.sinceTack
          /\ c.reversingFor = b.reversingFor /\ c.reversing = b.reversing
      BY DEF Boat
    <3> HIDE DEF c
    <3>4. c.stuckFor = MaxStuck
      BY <1>2, <2>3, <2>4, <3>3
    <3> QED BY <1>2, <2>2, <3>1, <3>2, <3>3, <3>4
  <2>5. CASE ~(b.stuckFor + 1 >= MaxStuck)
    <3>1. AvoidLand(b, e) = [b EXCEPT !.stuckFor = b.stuckFor + 1]
      BY <2>1, <2>5 DEF Boat
    <3> QED BY <1>2, <2>2, <2>3, <2>5, <3>1 DEF Boat
  <2> QED BY <2>4, <2>5
<1>5. CASE ~NoWayOut(b, e)
  <2>1. \/ /\ AvoidLand(b, e) = [b EXCEPT !.reversing = TRUE, !.reversingFor = 0]
           /\ correction \in {"stuck", "critical_reverse_needed"}
        \/ /\ AvoidLand(b, e) = [b EXCEPT !.sinceTack = 0]
           /\ correction = "emergency"
        \/ AvoidLand(b, e) = [b EXCEPT !.stuckFor = 0]
    BY <1>5 DEF AvoidLand
  <2> HIDE DEF correction
  <2>2. CASE /\ AvoidLand(b, e) = [b EXCEPT !.reversing = TRUE, !.reversingFor = 0]
             /\ correction \in {"stuck", "critical_reverse_needed"}
    <3>1. e.zone \notin {"safe", "caution"}
      BY <1>3, <2>2
    <3> DEFINE c == [b EXCEPT !.reversing = TRUE, !.reversingFor = 0]
    <3>2. 0 \in 0 .. MaxReverse
      BY <1>2
    <3>3. c \in Boat
      BY <3>2 DEF Boat
    <3>4. /\ c.stuckFor = b.stuckFor /\ c.dnf = b.dnf /\ c.sinceTack = b.sinceTack
          /\ c.reversingFor = 0 /\ c.reversing
      BY DEF Boat
    <3>5. AvoidLand(b, e) = c
      BY <2>2
    <3> HIDE DEF c
    <3> QED BY <1>2, <3>1, <3>3, <3>4, <3>5
  <2>3. CASE AvoidLand(b, e) = [b EXCEPT !.sinceTack = 0] /\ correction = "emergency"
    <3>1. e.zone \notin {"safe", "caution"}
      BY <1>3, <2>3
    <3> QED BY <1>2, <2>3, <3>1 DEF Boat
  <2>4. CASE AvoidLand(b, e) = [b EXCEPT !.stuckFor = 0]
    BY <1>2, <2>4 DEF Boat
  <2> QED BY <2>1, <2>2, <2>3, <2>4
<1> QED BY <1>4, <1>5

(* What the helm does in a step: it tacks only when the last tack is long  *)
(* enough ago for the weakest of the minimum times.                        *)
LEMMA SailingKeeps ==
  ASSUME RegattaAssumption, NEW b \in Boat, NEW e \in Encounters,
         b.dnf = "no", b.stuckFor < MaxStuck
  PROVE  LET c == UpdateSailingParameters(b, e)
         IN  /\ c \in Boat
             /\ c.dnf \in {"no", "stuck"}
             /\ c.dnf = "no" => c.stuckFor < MaxStuck
             /\ c.dnf = "stuck" => c.stuckFor = MaxStuck
             /\ c.stuckFor <= b.stuckFor + 1
             /\ e.zone \in {"safe", "caution"} => c.stuckFor = 0 /\ c.dnf = "no"
             /\ c.sinceTack <= b.sinceTack + 1
             /\ c.tacked => c.sinceTack = 0 /\ b.sinceTack >= IronsTime
             /\ c.reversing \/ c.reversingFor = b.reversingFor
             /\ b.reversing => c.reversing
<1> DEFINE shifted == WeatherShift(b, e)
           timed == [shifted EXCEPT !.sinceTack = OneMore(shifted.sinceTack, MinTackTime + 1)]
           clear == AvoidLand(timed, e)
           c == UpdateSailingParameters(b, e)
<1>1. /\ b.stuckFor \in Nat /\ b.sinceTack \in 0 .. MinTackTime + 1 /\ MinTackTime \in Nat
      /\ IronsTime \in Nat /\ AwayTime \in Nat /\ IronsTime <= AwayTime /\ AwayTime <= MinTackTime
  BY RaceNumbers DEF Boat
<1>2. /\ shifted \in Boat /\ shifted.dnf = "no" /\ shifted.stuckFor = b.stuckFor
      /\ shifted.reversing = b.reversing /\ shifted.reversingFor = b.reversingFor
      /\ shifted.sinceTack = b.sinceTack
  BY ShiftKeeps
<1>3. /\ OneMore(b.sinceTack, MinTackTime + 1) \in 0 .. MinTackTime + 1
      /\ OneMore(b.sinceTack, MinTackTime + 1) <= b.sinceTack + 1
  BY <1>1 DEF OneMore
<1>4. c = IF ShouldTack(clear, e) THEN [clear EXCEPT !.sinceTack = 0, !.tacked = TRUE]
                                    ELSE [clear EXCEPT !.tacked = FALSE]
  BY DEF UpdateSailingParameters
<1> HIDE DEF shifted, c
<1>5. /\ timed \in Boat /\ timed.dnf = "no" /\ timed.stuckFor = b.stuckFor
      /\ timed.reversing = b.reversing /\ timed.reversingFor = b.reversingFor
      /\ timed.sinceTack <= b.sinceTack + 1
  BY <1>2, <1>3 DEF Boat
<1> HIDE DEF timed
<1>6. /\ clear \in Boat
      /\ clear.dnf \in {"no", "stuck"}
      /\ clear.dnf = "no" => clear.stuckFor < MaxStuck
      /\ clear.dnf = "stuck" => clear.stuckFor = MaxStuck
      /\ clear.stuckFor <= b.stuckFor + 1
      /\ e.zone \in {"safe", "caution"} => clear.stuckFor = 0 /\ clear.dnf = "no"
      /\ clear.sinceTack <= timed.sinceTack
      /\ clear.reversing \/ clear.reversingFor = b.reversingFor
      /\ b.reversing => clear.reversing
  BY <1>5, LandKeeps
<1> HIDE DEF clear
<1>7. clear.sinceTack \in Nat /\ timed.sinceTack \in Nat /\ clear.sinceTack <= b.sinceTack + 1
  BY <1>1, <1>5, <1>6 DEF Boat
<1>8. 0 \in 0 .. MinTackTime + 1
  BY <1>1
<1>9. CASE ShouldTack(clear, e)
  <2> DEFINE d == [clear EXCEPT !.sinceTack = 0, !.tacked = TRUE]
  <2>1. d \in Boat
    BY <1>6, <1>8 DEF Boat
  <2>2. /\ d.dnf = clear.dnf /\ d.stuckFor = clear.stuckFor /\ d.sinceTack = 0 /\ d.tacked
        /\ d.reversing = clear.reversing /\ d.reversingFor = clear.reversingFor
    BY <1>6 DEF Boat
  <2>3. c = d
    BY <1>4, <1>9
  <2>4. clear.sinceTack > IronsTime
    BY <1>1, <1>7, <1>9 DEF ShouldTack
  <2>5. b.sinceTack >= IronsTime
    BY <1>1, <1>7, <2>4
  <2> HIDE DEF d
  <2> QED BY <1>1, <1>6, <2>1, <2>2, <2>3, <2>5 DEF c
<1>10. CASE ~ShouldTack(clear, e)
  <2> DEFINE d == [clear EXCEPT !.tacked = FALSE]
  <2>1. d \in Boat
    BY <1>6 DEF Boat
  <2>2. /\ d.dnf = clear.dnf /\ d.stuckFor = clear.stuckFor /\ d.sinceTack = clear.sinceTack
        /\ ~d.tacked /\ d.reversing = clear.reversing /\ d.reversingFor = clear.reversingFor
    BY <1>6 DEF Boat
  <2>3. c = d
    BY <1>4, <1>10
  <2> HIDE DEF d
  <2> QED BY <1>6, <1>7, <2>1, <2>2, <2>3 DEF c
<1> QED BY <1>9, <1>10

(* The maneuver ends before its time is exceeded, or the boat is out.      *)
LEMMA PositionKeeps ==
  ASSUME RegattaAssumption, NEW b \in Boat, NEW e \in Encounters,
         ~b.reversing => b.reversingFor = 0
  PROVE  LET c == UpdatePosition(b, e)
         IN  /\ c \in Boat /\ c.reversingFor < MaxReverse
             /\ c.dnf \in {b.dnf, "reverse"} /\ c.stuckFor = b.stuckFor
             /\ c.sinceTack = b.sinceTack /\ c.tacked = b.tacked
<1> DEFINE c == UpdatePosition(b, e)
<1>1. /\ MaxReverse \in Nat /\ MaxReverse > 0 /\ b.reversingFor \in Nat /\ 0 \in 0 .. MaxReverse
  BY RaceNumbers DEF Boat
<1>2. CASE TimedOut(b)
  <2> DEFINE d == [b EXCEPT !.dnf = "reverse", !.reversing = FALSE, !.reversingFor = 0]
  <2>1. d \in Boat
    BY <1>1 DEF Boat
  <2>2. /\ d.dnf = "reverse" /\ d.reversingFor = 0 /\ d.stuckFor = b.stuckFor
        /\ d.sinceTack = b.sinceTack /\ d.tacked = b.tacked
    BY DEF Boat
  <2>3. c = d
    BY <1>2 DEF UpdatePosition
  <2> HIDE DEF d
  <2> QED BY <1>1, <2>1, <2>2, <2>3
<1>3. CASE ~TimedOut(b) /\ b.reversing /\ Clear(e)
  <2> DEFINE d == [b EXCEPT !.reversing = FALSE, !.reversingFor = 0]
  <2>1. d \in Boat
    BY <1>1 DEF Boat
  <2>2. /\ d.dnf = b.dnf /\ d.reversingFor = 0 /\ d.stuckFor = b.stuckFor
        /\ d.sinceTack = b.sinceTack /\ d.tacked = b.tacked
    BY DEF Boat
  <2>3. c = d
    BY <1>3 DEF UpdatePosition
  <2> HIDE DEF d
  <2> QED BY <1>1, <2>1, <2>2, <2>3
<1>4. CASE ~TimedOut(b) /\ ~(b.reversing /\ Clear(e))
  <2>1. c = b
    BY <1>4 DEF UpdatePosition
  <2>2. b.reversingFor < MaxReverse
    BY <1>1, <1>4 DEF TimedOut
  <2> QED BY <2>1, <2>2
<1> QED BY <1>2, <1>3, <1>4

(* The lines and the marks. *)
LEMMA CourseKeeps ==
  ASSUME RegattaAssumption, NEW b \in Boat, NEW e \in Encounters
  PROVE  LET c == CheckMarkRounding(CheckLineCrossings(b, e), e)
         IN  /\ c \in Boat /\ c.reversingFor = b.reversingFor
             /\ c.dnf = b.dnf /\ c.stuckFor = b.stuckFor
             /\ c.sinceTack \in {0, b.sinceTack} /\ c.tacked = b.tacked
<1> DEFINE l == CheckLineCrossings(b, e)
           c == CheckMarkRounding(l, e)
<1>1. Marks \in Nat /\ 0 \in 0 .. MinTackTime + 1
  BY RaceNumbers
<1>2. /\ l \in Boat /\ l.reversingFor = b.reversingFor /\ l.dnf = b.dnf
      /\ l.stuckFor = b.stuckFor /\ l.sinceTack = b.sinceTack /\ l.tacked = b.tacked
  <2> DEFINE over == b.finished \/ (b.mark = Marks /\ e.crossesFinish /\ b.dnf # "reverse")
  <2>1. l = [b EXCEPT !.finished = over]
    BY DEF CheckLineCrossings
  <2>2. over \in BOOLEAN
    OBVIOUS
  <2> HIDE DEF over, l
  <2> QED BY <2>1, <2>2 DEF Boat
<1> HIDE DEF l
<1>3. CASE l.mark < Marks /\ e.atMark
  <2> DEFINE d == [l EXCEPT !.mark = l.mark + 1, !.sinceTack = 0]
  <2>1. l.mark + 1 \in 0 .. Marks
    BY <1>1, <1>2, <1>3 DEF Boat
  <2>2. d \in Boat
    BY <1>1, <1>2, <2>1 DEF Boat
  <2>3. /\ d.reversingFor = l.reversingFor /\ d.dnf = l.dnf /\ d.stuckFor = l.stuckFor
        /\ d.sinceTack = 0 /\ d.tacked = l.tacked
    BY <1>2 DEF Boat
  <2>4. c = d
    BY <1>3 DEF CheckMarkRounding
  <2> HIDE DEF d
  <2> QED BY <1>2, <2>2, <2>3, <2>4 DEF l
<1>4. CASE ~(l.mark < Marks /\ e.atMark)
  <2>1. c = l
    BY <1>4 DEF CheckMarkRounding
  <2> QED BY <1>2, <2>1 DEF l
<1> QED BY <1>3, <1>4

(* One step of a boat in the race. *)
LEMMA BoatStep ==
  ASSUME RegattaAssumption, NEW b \in Boat, NEW e \in Encounters,
         b.dnf = "no", b.stuckFor < MaxStuck, b.reversingFor < MaxReverse
  PROVE  LET c == GenerateTelemetry(b, e)
         IN  /\ c \in Boat /\ c.reversingFor < MaxReverse
             /\ c.dnf = "no" => c.stuckFor < MaxStuck
             /\ c.dnf = "stuck" => c.stuckFor = MaxStuck
             /\ c.stuckFor <= b.stuckFor + 1
             /\ e.zone \in {"safe", "caution"} => c.stuckFor = 0
             /\ c.sinceTack <= b.sinceTack + 1
             /\ c.tacked => c.sinceTack = 0 /\ b.sinceTack >= IronsTime
<1> DEFINE timed == [b EXCEPT !.reversingFor = IF b.reversing THEN b.reversingFor + 1 ELSE 0]
           steered == UpdateSailingParameters(timed, e)
           moved == UpdatePosition(steered, e)
           c == GenerateTelemetry(b, e)
<1>1. (IF b.reversing THEN b.reversingFor + 1 ELSE 0) \in 0 .. MaxReverse
  BY RaceNumbers DEF Boat
<1>2. /\ timed \in Boat /\ timed.dnf = "no" /\ timed.stuckFor = b.stuckFor
      /\ timed.sinceTack = b.sinceTack /\ timed.reversing = b.reversing
      /\ ~b.reversing => timed.reversingFor = 0
  BY <1>1 DEF Boat
<1>3. c = CheckMarkRounding(CheckLineCrossings(moved, e), e)
  BY DEF GenerateTelemetry
<1> HIDE DEF timed, c
<1>4. /\ steered \in Boat
      /\ steered.dnf \in {"no", "stuck"}
      /\ steered.dnf = "no" => steered.stuckFor < MaxStuck
      /\ steered.dnf = "stuck" => steered.stuckFor = MaxStuck
      /\ steered.stuckFor <= b.stuckFor + 1
      /\ e.zone \in {"safe", "caution"} => steered.stuckFor = 0
      /\ steered.sinceTack <= b.sinceTack + 1
      /\ steered.tacked => steered.sinceTack = 0 /\ b.sinceTack >= IronsTime
      /\ steered.reversing \/ steered.reversingFor = timed.reversingFor
      /\ b.reversing => steered.reversing
  BY <1>2, SailingKeeps
<1> HIDE DEF steered
<1>5. ~steered.reversing => steered.reversingFor = 0
  BY <1>2, <1>4
<1>6. /\ moved \in Boat /\ moved.reversingFor < MaxReverse
      /\ moved.dnf \in {steered.dnf, "reverse"} /\ moved.stuckFor = steered.stuckFor
      /\ moved.sinceTack = steered.sinceTack /\ moved.tacked = steered.tacked
  BY <1>4, <1>5, PositionKeeps
<1> HIDE DEF moved
<1>7. /\ c \in Boat /\ c.reversingFor = moved.reversingFor
      /\ c.dnf = moved.dnf /\ c.stuckFor = moved.stuckFor
      /\ c.sinceTack \in {0, moved.sinceTack} /\ c.tacked = moved.tacked
  BY <1>3, <1>6, CourseKeeps
<1>8. 0 <= b.sinceTack + 1
  BY RaceNumbers DEF Boat
<1> QED BY <1>4, <1>6, <1>7, <1>8 DEF c

RaceTypes ==
  /\ boat \in [Boats -> Boat] /\ reported \in [Boats -> {"nothing", "racing", "finished", "dnf"}]
  /\ offshore \in [Boats -> 0 .. MaxStuck] /\ sailed \in [Boats -> 0 .. IronsTime]
  /\ elapsed \in Nat /\ unsent \subseteq Boats
  /\ run \in {"stepping", "sending", "ended", "exited"}

(* The counts of a boat never pass what the history has seen. *)
CountsInv ==
  \A b \in Boats :
    /\ boat[b].reversingFor < MaxReverse
    /\ boat[b].dnf = "no" => boat[b].stuckFor < MaxStuck
    /\ boat[b].stuckFor <= offshore[b]
    /\ boat[b].dnf = "stuck" => offshore[b] >= MaxStuck
    /\ sailed[b] < IronsTime => boat[b].sinceTack <= sailed[b]

(* A boat that is out or has finished sends nothing any more, so its last  *)
(* record has to tell.                                                     *)
TableInv ==
  /\ run = "stepping" =>
       \A b \in Boats : elapsed > 0 \/ RaceStatus(boat[b]) # "racing" =>
                          reported[b] = RaceStatus(boat[b])
  /\ run = "sending" => \A b \in Boats \ unsent : reported[b] = RaceStatus(boat[b])

RaceInv == RaceTypes /\ CountsInv /\ TableInv

LEMMA StatusTypes ==
  ASSUME NEW b \in Boat
  PROVE  /\ RaceStatus(b) \in {"racing", "finished", "dnf"}
         /\ RaceStatus(b) = "racing" <=> b.dnf = "no" /\ ~b.finished
BY DEF RaceStatus, Boat

LEMMA OneMoreFacts ==
  ASSUME NEW m \in Nat, NEW n \in 0 .. m
  PROVE  /\ OneMore(n, m) \in 0 .. m
         /\ n < m => OneMore(n, m) = n + 1
         /\ n >= m => OneMore(n, m) = m
BY DEF OneMore

LEMMA RaceInit ==
  ASSUME RegattaAssumption, Init
  PROVE  RaceInv
<1>1. /\ 0 \in 0 .. Marks /\ 0 \in 0 .. MaxReverse /\ 0 \in 0 .. MaxStuck /\ 0 \in 0 .. Reaction
      /\ MinTackTime \in 0 .. MinTackTime + 1 /\ IronsTime \in 0 .. IronsTime
      /\ 0 < MaxStuck /\ 0 < MaxReverse
  BY RaceNumbers
<1>2. NewBoat \in Boat
  BY <1>1 DEF NewBoat, Boat
<1>3. /\ NewBoat.dnf = "no" /\ ~NewBoat.finished /\ NewBoat.stuckFor = 0
      /\ NewBoat.reversingFor = 0
  BY DEF NewBoat
<1>4. /\ boat = [b \in Boats |-> NewBoat] /\ offshore = [b \in Boats |-> 0]
      /\ sailed = [b \in Boats |-> IronsTime] /\ reported = [b \in Boats |-> "nothing"]
      /\ elapsed = 0 /\ unsent = {} /\ run = "stepping"
  BY DEF Init
<1>5. RaceTypes
  BY <1>1, <1>2, <1>4 DEF RaceTypes
<1>6. CountsInv
  BY <1>1, <1>3, <1>4, RaceNumbers DEF CountsInv
<1>7. TableInv
  BY <1>2, <1>3, <1>4, StatusTypes DEF TableInv
<1> QED BY <1>5, <1>6, <1>7 DEF RaceInv

(* What a step of the fleet does to one boat. *)
LEMMA FleetStep ==
  ASSUME RegattaAssumption, RaceInv, Step, NEW b \in Boats
  PROVE  /\ boat'[b] \in Boat /\ offshore'[b] \in 0 .. MaxStuck /\ sailed'[b] \in 0 .. IronsTime
         /\ boat'[b].reversingFor < MaxReverse
         /\ boat'[b].dnf = "no" => boat'[b].stuckFor < MaxStuck
         /\ boat'[b].stuckFor <= offshore'[b]
         /\ boat'[b].dnf = "stuck" => offshore'[b] >= MaxStuck
         /\ sailed'[b] < IronsTime => boat'[b].sinceTack <= sailed'[b]
         /\ b \notin Afloat => boat'[b] = boat[b]
         /\ b \in Afloat /\ sailed'[b] = 0 => sailed[b] >= IronsTime
<1>1. /\ boat[b] \in Boat /\ offshore[b] \in 0 .. MaxStuck /\ sailed[b] \in 0 .. IronsTime
      /\ MaxStuck \in Nat /\ IronsTime \in Nat
  BY RaceNumbers DEF RaceInv, RaceTypes
<1>2. /\ boat[b].reversingFor < MaxReverse
      /\ boat[b].dnf = "no" => boat[b].stuckFor < MaxStuck
      /\ boat[b].stuckFor <= offshore[b]
      /\ boat[b].dnf = "stuck" => offshore[b] >= MaxStuck
      /\ sailed[b] < IronsTime => boat[b].sinceTack <= sailed[b]
  BY DEF RaceInv, CountsInv
<1>3. PICK e \in [Afloat -> Encounters] :
        /\ boat' = [x \in Boats |-> IF x \in Afloat THEN GenerateTelemetry(boat[x], e[x])
                                                      ELSE boat[x]]
        /\ offshore' = [x \in Boats |->
               IF x \notin Afloat THEN offshore[x]
               ELSE IF e[x].zone \in {"safe", "caution"} THEN 0
               ELSE OneMore(offshore[x], MaxStuck)]
        /\ sailed' = [x \in Boats |->
               IF x \notin Afloat THEN sailed[x]
               ELSE IF boat'[x].tacked THEN 0 ELSE OneMore(sailed[x], IronsTime)]
  BY DEF Step
<1>4. CASE b \notin Afloat
  BY <1>1, <1>2, <1>3, <1>4
<1>5. CASE b \in Afloat
  <2> DEFINE c == GenerateTelemetry(boat[b], e[b])
  <2>1. e[b] \in Encounters
    BY <1>5
  <2>2. boat[b].dnf = "no"
    BY <1>1, <1>5, StatusTypes DEF Afloat
  <2>3. /\ c \in Boat /\ c.reversingFor < MaxReverse
        /\ c.dnf = "no" => c.stuckFor < MaxStuck
        /\ c.dnf = "stuck" => c.stuckFor = MaxStuck
        /\ c.stuckFor <= boat[b].stuckFor + 1
        /\ e[b].zone \in {"safe", "caution"} => c.stuckFor = 0
        /\ c.sinceTack <= boat[b].sinceTack + 1
        /\ c.tacked => c.sinceTack = 0 /\ boat[b].sinceTack >= IronsTime
    BY <1>1, <1>2, <2>1, <2>2, BoatStep
  <2> HIDE DEF c
  <2>4. /\ boat'[b] = c
        /\ offshore'[b] = IF e[b].zone \in {"safe", "caution"} THEN 0
                          ELSE OneMore(offshore[b], MaxStuck)
        /\ sailed'[b] = IF c.tacked THEN 0 ELSE OneMore(sailed[b], IronsTime)
    BY <1>3, <1>5 DEF c
  <2>5. /\ c.stuckFor \in 0 .. MaxStuck /\ c.sinceTack \in Nat /\ boat[b].sinceTack \in Nat
        /\ boat[b].stuckFor \in Nat
    BY <1>1, <2>3 DEF Boat
  <2>6. offshore'[b] \in 0 .. MaxStuck /\ c.stuckFor <= offshore'[b]
    <3>1. CASE e[b].zone \in {"safe", "caution"}
      BY <1>1, <2>3, <2>4, <3>1
    <3>2. CASE e[b].zone \notin {"safe", "caution"}
      <4>1. offshore'[b] = OneMore(offshore[b], MaxStuck)
        BY <2>4, <3>2
      <4>2. /\ offshore'[b] \in 0 .. MaxStuck
            /\ offshore[b] < MaxStuck => offshore'[b] = offshore[b] + 1
            /\ offshore[b] >= MaxStuck => offshore'[b] = MaxStuck
        BY <1>1, <4>1, OneMoreFacts
      <4> QED BY <1>1, <1>2, <2>3, <2>5, <4>2
    <3> QED BY <3>1, <3>2
  <2>7. /\ sailed'[b] \in 0 .. IronsTime
        /\ sailed'[b] < IronsTime => c.sinceTack <= sailed'[b]
        /\ sailed'[b] = 0 => sailed[b] >= IronsTime
    <3>1. CASE c.tacked
      BY <1>1, <1>2, <2>3, <2>4, <2>5, <3>1
    <3>2. CASE ~c.tacked
      <4>1. sailed'[b] = OneMore(sailed[b], IronsTime)
        BY <2>4, <3>2
      <4>2. /\ sailed'[b] \in 0 .. IronsTime
            /\ sailed[b] < IronsTime => sailed'[b] = sailed[b] + 1
            /\ sailed[b] >= IronsTime => sailed'[b] = IronsTime
        BY <1>1, <4>1, OneMoreFacts
      <4> QED BY <1>1, <1>2, <2>3, <2>5, <4>2
    <3> QED BY <3>1, <3>2
  <2> QED BY <1>1, <1>5, <2>3, <2>4, <2>5, <2>6, <2>7
<1> QED BY <1>4, <1>5

LEMMA RaceStep ==
  ASSUME RegattaAssumption, RaceInv, [Next]_regattaVars
  PROVE  RaceInv'
<1> USE DEF RaceInv
<1>1. CASE Step
  <2>1. /\ run' = "sending" /\ unsent' = Afloat /\ elapsed' = elapsed /\ reported' = reported
        /\ run = "stepping"
    BY <1>1 DEF Step
  <2>2. PICK e \in [Afloat -> Encounters] :
          /\ boat' = [x \in Boats |-> IF x \in Afloat THEN GenerateTelemetry(boat[x], e[x])
                                                        ELSE boat[x]]
          /\ offshore' = [x \in Boats |->
                 IF x \notin Afloat THEN offshore[x]
                 ELSE IF e[x].zone \in {"safe", "caution"} THEN 0
                 ELSE OneMore(offshore[x], MaxStuck)]
          /\ sailed' = [x \in Boats |->
                 IF x \notin Afloat THEN sailed[x]
                 ELSE IF boat'[x].tacked THEN 0 ELSE OneMore(sailed[x], IronsTime)]
    BY <1>1 DEF Step
  <2>3. /\ boat' \in [Boats -> Boat] /\ offshore' \in [Boats -> 0 .. MaxStuck]
        /\ sailed' \in [Boats -> 0 .. IronsTime]
    <3>1. \A b \in Boats : /\ boat'[b] \in Boat /\ offshore'[b] \in 0 .. MaxStuck
                           /\ sailed'[b] \in 0 .. IronsTime
      BY <1>1, FleetStep
    <3>2. /\ boat' = [x \in Boats |-> boat'[x]] /\ offshore' = [x \in Boats |-> offshore'[x]]
          /\ sailed' = [x \in Boats |-> sailed'[x]]
      BY <2>2
    <3> QED BY <3>1, <3>2
  <2>4. RaceTypes'
    BY <2>1, <2>3 DEF RaceTypes, Afloat
  <2>5. CountsInv'
    BY <1>1, FleetStep DEF CountsInv
  <2>6. ASSUME NEW b \in Boats \ Afloat
        PROVE  reported[b] = RaceStatus(boat'[b])
    <3>1. RaceStatus(boat[b]) # "racing" /\ reported[b] = RaceStatus(boat[b])
      BY <2>1 DEF Afloat, TableInv
    <3>2. boat'[b] = boat[b]
      BY <1>1, FleetStep
    <3> QED BY <3>1, <3>2
  <2>7. TableInv'
    BY <2>1, <2>6 DEF TableInv
  <2> QED BY <2>4, <2>5, <2>7
<1>2. CASE \E b \in Boats : SendTelemetry(b)
  <2>1. PICK b \in Boats : SendTelemetry(b)
    BY <1>2
  <2>2. /\ run = "sending" /\ unsent' = unsent \ {b}
        /\ reported' = [reported EXCEPT ![b] = RaceStatus(boat[b])]
        /\ UNCHANGED <<boat, elapsed, run, offshore, sailed>>
    BY <2>1 DEF SendTelemetry
  <2>3. RaceStatus(boat[b]) \in {"racing", "finished", "dnf"}
    BY StatusTypes DEF RaceTypes
  <2>4. RaceTypes'
    BY <2>2, <2>3 DEF RaceTypes
  <2>5. CountsInv'
    BY <2>2 DEF CountsInv
  <2>6. TableInv'
    BY <2>2 DEF TableInv, RaceTypes
  <2> QED BY <2>4, <2>5, <2>6
<1>3. CASE Sleep
  <2>1. /\ run = "sending" /\ unsent = {} /\ run' = "stepping"
        /\ UNCHANGED <<boat, unsent, reported, offshore, sailed>>
    BY <1>3 DEF Sleep
  <2>2. elapsed' \in Nat
    BY <1>3, RaceNumbers DEF Sleep, OneMore, RaceTypes
  <2>3. RaceTypes'
    BY <2>1, <2>2 DEF RaceTypes
  <2>4. CountsInv'
    BY <2>1 DEF CountsInv
  <2>5. TableInv'
    BY <2>1 DEF TableInv
  <2> QED BY <2>3, <2>4, <2>5
<1>4. CASE EndRace \/ SendFails \/ UNCHANGED regattaVars
  <2>1. /\ UNCHANGED <<boat, elapsed, unsent, reported, offshore, sailed>>
        /\ run' \in {"ended", "exited"} \/ run' = run
    BY <1>4 DEF EndRace, SendFails, regattaVars
  <2>2. RaceTypes' /\ CountsInv'
    BY <2>1 DEF RaceTypes, CountsInv
  <2>3. TableInv'
    BY <2>1 DEF TableInv
  <2> QED BY <2>2, <2>3
<1> QED BY <1>1, <1>2, <1>3, <1>4 DEF Next

(* RaceInv, the inductive invariant, holds throughout a race. *)
THEOREM RaceInvariant ==
  ASSUME RegattaAssumption
  PROVE  Spec => []RaceInv
<1>1. Init => RaceInv
  BY RaceInit
<1>2. RaceInv /\ [Next]_regattaVars => RaceInv'
  BY RaceStep
<1> QED BY <1>1, <1>2, PTL DEF Spec

(* A boat is out as stuck only if it was near land throughout, and between *)
(* steps the table tells how each boat stands (main.py, fleet.py).         *)
THEOREM RegattaCorrect ==
  ASSUME RegattaAssumption
  PROVE  Spec => []RegattaSound
<1>1. RaceInv => RegattaSound
  <2> SUFFICES ASSUME RaceInv PROVE RegattaSound
    OBVIOUS
  <2> USE DEF RaceInv
  <2>1. TypeOK
    BY DEF TypeOK, RaceTypes, Boat
  <2>2. StuckIsEarned
    BY DEF StuckIsEarned, CountsInv
  <2>3. FateIsReported
    BY DEF FateIsReported, TableInv
  <2> QED BY <2>1, <2>2, <2>3 DEF RegattaSound
<1> QED BY <1>1, RaceInvariant, PTL

(* No boat tacks again before it is through the wind, whichever of the     *)
(* rules asks for the tack (sailboat_telemetry.py).                        *)
THEOREM TackingIsSpaced ==
  ASSUME RegattaAssumption
  PROVE  Spec => TacksAreApart
<1>1. RaceInv /\ [Next]_regattaVars =>
        [\A b \in Boats : sailed'[b] = 0 /\ b \in Afloat /\ Step =>
                            sailed[b] >= IronsTime]_regattaVars
  BY FleetStep
<1> QED BY <1>1, RaceInvariant, PTL DEF Spec, TacksAreApart

-----------------------------------------------------------------------------
(* Discovery                                                               *)

Host == {Hosts[i] : i \in DOMAIN Hosts}
Answer == {"absent", "unverified", "reachable"}
Asked == UNION {[S -> Answer] : S \in SUBSET Host}
Found == UNION {[S -> Answer] : S \in SUBSET Endpoints}
ScanState ==
  [phase : {"idle", "running"}, batch : [Protocols -> Nat], asked : [Protocols -> Asked],
   found : Found]

(* What a scan knows of the servers that did not change while it ran (fm): *)
(* the answers of the batch it waits for are what they are now, and        *)
(* whatever was up in an earlier batch is among what it found.             *)
BatchKnown(sc, fm) ==
  \A p \in Protocols : sc.asked[p] # <<>> =>
    /\ DOMAIN sc.asked[p] = Batch(sc.batch[p])
    /\ \A h \in DOMAIN sc.asked[p] : <<p, h>> \in fm => sc.asked[p][h] = up[<<p, h>>]

PastFound(sc, fm) ==
  \A p \in Protocols : \A n \in 1 .. sc.batch[p] - 1 : \A h \in Batch(n) :
    <<p, h>> \in fm /\ up[<<p, h>>] # "absent" =>
      <<p, h>> \in DOMAIN sc.found /\ sc.found[<<p, h>>] = up[<<p, h>>]

ScanInv ==
  /\ up \in [Endpoints -> Answer]
  /\ scan \in [Scans -> ScanState] /\ firm \in [Scans -> SUBSET Endpoints]
  /\ \A s \in Scans : BatchKnown(scan[s], firm[s]) /\ PastFound(scan[s], firm[s])

LEMMA BatchesCover ==
  ASSUME DiscoveryAssumption, NEW h \in Host
  PROVE  \E n \in 1 .. Batches : h \in Batch(n)
<1>1. Len(Hosts) \in Nat /\ DOMAIN Hosts = 1 .. Len(Hosts) /\ BatchSize \in Nat /\ BatchSize > 0
  BY DEF DiscoveryAssumption
<1>2. PICK i \in 1 .. Len(Hosts) : h = Hosts[i]
  BY <1>1 DEF Host
<1> DEFINE q == (i - 1) \div BatchSize
<1>3. q \in Nat /\ q * BatchSize <= i - 1 /\ i - 1 < q * BatchSize + BatchSize
  BY <1>1
<1>4. (q + 1) - 1 = q /\ i > q * BatchSize /\ i <= (q + 1) * BatchSize
  BY <1>1, <1>3
<1>5. q + 1 <= (Len(Hosts) + BatchSize - 1) \div BatchSize
  BY <1>1, <1>3
<1> HIDE DEF q
<1>6. q + 1 \in 1 .. Batches
  <2>1. (Len(Hosts) + BatchSize - 1) \div BatchSize \in Nat
    BY <1>1
  <2> QED BY <1>3, <1>5, <2>1 DEF Batches
<1>7. i > ((q + 1) - 1) * BatchSize
  BY <1>4
<1>8. h \in Batch(q + 1)
  <2>1. i \in {j \in DOMAIN Hosts :
                j > ((q + 1) - 1) * BatchSize /\ j <= (q + 1) * BatchSize}
    BY <1>1, <1>4, <1>7
  <2> QED BY <1>2, <2>1, Zenon DEF Batch
<1> QED BY <1>6, <1>8, Zenon

LEMMA HostFacts ==
  /\ Endpoints = Protocols \X Host
  /\ \A n : Batch(n) \subseteq Host
  /\ <<>> \in Asked /\ <<>> \in Found /\ DOMAIN <<>> = {}
<1>1. DOMAIN <<>> = {} /\ <<>> = [x \in {} |-> x]
  OBVIOUS
<1>2. <<>> \in [{} -> Answer]
  BY <1>1
<1> QED BY <1>1, <1>2 DEF Endpoints, Batch, Host, Asked, Found

LEMMA IdleFacts ==
  /\ Idle \in ScanState /\ [Idle EXCEPT !.phase = "running"] \in ScanState
  /\ \A fm : /\ BatchKnown(Idle, fm) /\ PastFound(Idle, fm)
             /\ BatchKnown([Idle EXCEPT !.phase = "running"], fm)
             /\ PastFound([Idle EXCEPT !.phase = "running"], fm)
<1>1. /\ Idle.batch = [p \in Protocols |-> 1] /\ Idle.asked = [p \in Protocols |-> <<>>]
      /\ Idle.found = <<>> /\ Idle \in ScanState
  BY HostFacts DEF Idle, ScanState
<1>2. ASSUME NEW sc \in ScanState, NEW fm, sc.batch = Idle.batch, sc.asked = Idle.asked
      PROVE  BatchKnown(sc, fm) /\ PastFound(sc, fm)
  BY <1>1, <1>2 DEF BatchKnown, PastFound
<1> DEFINE r == [Idle EXCEPT !.phase = "running"]
<1>3. r \in ScanState /\ r.batch = Idle.batch /\ r.asked = Idle.asked
  BY <1>1 DEF ScanState
<1> QED BY <1>1, <1>2, <1>3

(* A scan that another one's step leaves as it is. *)
LEMMA BeginKeeps ==
  ASSUME ScanInv, NEW s \in Scans, Begin(s), up' = up
  PROVE  ScanInv'
<1>1. /\ scan' = [scan EXCEPT ![s] = [Idle EXCEPT !.phase = "running"]]
      /\ firm' = [firm EXCEPT ![s] = Endpoints]
  BY DEF Begin
<1>2. scan' \in [Scans -> ScanState] /\ firm' \in [Scans -> SUBSET Endpoints]
  BY <1>1, IdleFacts DEF ScanInv
<1>3. ASSUME NEW t \in Scans
      PROVE  BatchKnown(scan'[t], firm'[t]) /\ PastFound(scan'[t], firm'[t])
  BY <1>1, IdleFacts DEF ScanInv
<1>4. ASSUME NEW t \in Scans
      PROVE  BatchKnown(scan[t], firm[t])' /\ PastFound(scan[t], firm[t])'
  BY <1>3 DEF BatchKnown, PastFound
<1> QED BY <1>2, <1>4 DEF ScanInv

LEMMA ProbeKeeps ==
  ASSUME ScanInv, NEW s \in Scans, NEW p \in Protocols, Probe(s, p)
  PROVE  ScanInv'
<1> DEFINE sc == scan[s]
           hosts == Batch(sc.batch[p])
           asked == [h \in hosts |-> up[<<p, h>>]]
           new == [sc EXCEPT !.asked = [sc.asked EXCEPT ![p] = asked]]
<1>1. scan' = [scan EXCEPT ![s] = new] /\ up' = up /\ firm' = firm
  BY DEF Probe, TestEndpoint
<1>2. sc \in ScanState /\ BatchKnown(sc, firm[s]) /\ PastFound(sc, firm[s])
  BY DEF ScanInv
<1>3. asked \in Asked
  <2>1. \A h \in hosts : <<p, h>> \in Endpoints
    BY HostFacts
  <2> QED BY <2>1, HostFacts DEF ScanInv, Asked
<1>4. new \in ScanState
  BY <1>2, <1>3 DEF ScanState
<1>5. /\ new.batch = sc.batch /\ new.found = sc.found /\ new.asked[p] = asked
      /\ \A q \in Protocols : q # p => new.asked[q] = sc.asked[q]
  BY <1>2 DEF ScanState
<1>6. DOMAIN asked = hosts /\ \A h \in hosts : asked[h] = up[<<p, h>>]
  OBVIOUS
<1> HIDE DEF asked, new
<1>7. BatchKnown(new, firm[s])
  BY <1>2, <1>5, <1>6 DEF BatchKnown
<1>8. PastFound(new, firm[s])
  BY <1>2, <1>5 DEF PastFound
<1>9. scan' \in [Scans -> ScanState]
  BY <1>1, <1>4 DEF ScanInv
<1>10. ASSUME NEW t \in Scans
       PROVE  BatchKnown(scan'[t], firm[t]) /\ PastFound(scan'[t], firm[t])
  BY <1>1, <1>7, <1>8 DEF ScanInv
<1>11. ASSUME NEW t \in Scans
       PROVE  BatchKnown(scan[t], firm[t])' /\ PastFound(scan[t], firm[t])'
  BY <1>1, <1>10 DEF BatchKnown, PastFound
<1> QED BY <1>1, <1>9, <1>11 DEF ScanInv

(* A batch is cached: the answers go to what was found. *)
LEMMA CacheKeeps ==
  ASSUME ScanInv, NEW s \in Scans, NEW p \in Protocols, CacheBatch(s, p)
  PROVE  ScanInv'
<1> DEFINE sc == scan[s]
           n == sc.batch[p]
           results == Results(s, p)
           found == Updated(sc.found, results)
           new == [sc EXCEPT !.found = found, !.asked = [sc.asked EXCEPT ![p] = <<>>],
                             !.batch = [sc.batch EXCEPT ![p] = n + 1]]
<1>1. /\ scan' = [scan EXCEPT ![s] = new] /\ up' = up /\ firm' = firm
      /\ sc.asked[p] # <<>> \/ Batch(n) = {}
  <2>1. scan' = [scan EXCEPT ![s].found = Updated(@, results), ![s].asked[p] = <<>>,
                             ![s].batch[p] = @ + 1]
    BY DEF CacheBatch
  <2>2. scan' = [scan EXCEPT ![s] = new]
    BY <2>1 DEF ScanInv, ScanState
  <2> QED BY <2>2 DEF CacheBatch
<1>2. /\ sc \in ScanState /\ BatchKnown(sc, firm[s]) /\ PastFound(sc, firm[s])
      /\ n \in Nat /\ sc.asked[p] \in Asked /\ sc.found \in Found
  BY DEF ScanInv, ScanState
<1>3. /\ DOMAIN results = {p} \X {h \in DOMAIN sc.asked[p] : sc.asked[p][h] # "absent"}
      /\ \A h \in DOMAIN sc.asked[p] : sc.asked[p][h] # "absent" =>
           <<p, h>> \in DOMAIN results /\ results[<<p, h>>] = sc.asked[p][h]
  BY DEF Results, Absent
<1>4. /\ DOMAIN found = DOMAIN sc.found \cup DOMAIN results
      /\ \A e \in DOMAIN results : found[e] = results[e]
      /\ \A e \in DOMAIN sc.found \ DOMAIN results : found[e] = sc.found[e]
  BY DEF Updated
<1>5. found \in Found
  <2>1. DOMAIN sc.asked[p] \subseteq Host /\ \A h \in DOMAIN sc.asked[p] : sc.asked[p][h] \in Answer
    BY <1>2 DEF Asked
  <2>2. DOMAIN sc.found \subseteq Endpoints /\ \A e \in DOMAIN sc.found : sc.found[e] \in Answer
    BY <1>2 DEF Found
  <2>3. DOMAIN results \subseteq Endpoints /\ \A e \in DOMAIN results : results[e] \in Answer
    <3>1. \A e \in DOMAIN results : \E h \in DOMAIN sc.asked[p] :
            e = <<p, h>> /\ results[e] = sc.asked[p][h]
      BY <1>3
    <3> QED BY <2>1, <3>1, HostFacts
  <2>4. found = [e \in DOMAIN sc.found \cup DOMAIN results |-> found[e]]
    BY DEF Updated
  <2>5. \A e \in DOMAIN found : found[e] \in Answer
    BY <1>4, <2>2, <2>3
  <2> HIDE DEF found, results
  <2> QED BY <1>4, <2>2, <2>3, <2>4, <2>5 DEF Found
<1> HIDE DEF found, results
<1>6. new \in ScanState
  <2> DEFINE asked == [sc.asked EXCEPT ![p] = <<>>]
             batch == [sc.batch EXCEPT ![p] = n + 1]
  <2>1. asked \in [Protocols -> Asked] /\ batch \in [Protocols -> Nat]
    BY <1>2, HostFacts DEF ScanState
  <2>2. new = [sc EXCEPT !.found = found, !.asked = asked, !.batch = batch]
    OBVIOUS
  <2> HIDE DEF asked, batch, new
  <2> QED BY <1>2, <1>5, <2>1, <2>2 DEF ScanState
<1>7. /\ new.found = found /\ new.asked[p] = <<>> /\ new.batch[p] = n + 1
      /\ \A q \in Protocols : q # p => new.asked[q] = sc.asked[q] /\ new.batch[q] = sc.batch[q]
  BY <1>2 DEF ScanState
<1> HIDE DEF new
<1>8. BatchKnown(new, firm[s])
  BY <1>2, <1>7 DEF BatchKnown
<1>9. PastFound(new, firm[s])
  <2> SUFFICES ASSUME NEW q \in Protocols, NEW m \in 1 .. new.batch[q] - 1, NEW h \in Batch(m),
                      <<q, h>> \in firm[s], up[<<q, h>>] # "absent"
               PROVE  <<q, h>> \in DOMAIN found /\ found[<<q, h>>] = up[<<q, h>>]
    BY <1>7 DEF PastFound
  <2>1. CASE <<q, h>> \in DOMAIN results
    <3>1. q = p /\ h \in DOMAIN sc.asked[p] /\ sc.asked[p][h] # "absent"
      BY <1>3, <2>1
    <3>2. sc.asked[p] # <<>>
      BY <3>1, HostFacts
    <3>3. sc.asked[p][h] = up[<<q, h>>]
      BY <1>2, <3>1, <3>2 DEF BatchKnown
    <3> QED BY <1>3, <1>4, <2>1, <3>1, <3>3
  <2>2. CASE <<q, h>> \notin DOMAIN results
    <3>1. ~(q = p /\ m = n)
      <4> SUFFICES ASSUME q = p, m = n PROVE FALSE
        OBVIOUS
      <4>1. sc.asked[p] # <<>>
        BY <1>1
      <4>2. h \in DOMAIN sc.asked[p] /\ sc.asked[p][h] = up[<<p, h>>]
        BY <1>2, <4>1 DEF BatchKnown
      <4> QED BY <1>3, <2>2, <4>2
    <3>2. m \in 1 .. sc.batch[q] - 1
      BY <1>2, <1>7, <3>1 DEF ScanState
    <3>3. <<q, h>> \in DOMAIN sc.found /\ sc.found[<<q, h>>] = up[<<q, h>>]
      BY <1>2, <3>2 DEF PastFound
    <3> QED BY <1>4, <2>2, <3>3
  <2> QED BY <2>1, <2>2
<1>10. scan' \in [Scans -> ScanState]
  BY <1>1, <1>6 DEF ScanInv
<1>11. ASSUME NEW t \in Scans
       PROVE  BatchKnown(scan'[t], firm[t]) /\ PastFound(scan'[t], firm[t])
  BY <1>1, <1>8, <1>9 DEF ScanInv
<1>12. ASSUME NEW t \in Scans
       PROVE  BatchKnown(scan[t], firm[t])' /\ PastFound(scan[t], firm[t])'
  BY <1>1, <1>11 DEF BatchKnown, PastFound
<1> QED BY <1>1, <1>10, <1>12 DEF ScanInv

(* A scan ends or is cancelled. *)
LEMMA IdleKeeps ==
  ASSUME ScanInv, NEW s \in Scans, up' = up,
         scan' = [scan EXCEPT ![s] = Idle], firm' = [firm EXCEPT ![s] = {}]
  PROVE  ScanInv'
<1>1. scan' \in [Scans -> ScanState] /\ firm' \in [Scans -> SUBSET Endpoints]
  BY IdleFacts DEF ScanInv
<1>2. ASSUME NEW t \in Scans
      PROVE  BatchKnown(scan'[t], firm'[t]) /\ PastFound(scan'[t], firm'[t])
  BY IdleFacts DEF ScanInv
<1>3. ASSUME NEW t \in Scans
      PROVE  BatchKnown(scan[t], firm[t])' /\ PastFound(scan[t], firm[t])'
  BY <1>2 DEF BatchKnown, PastFound
<1> QED BY <1>1, <1>3 DEF ScanInv

(* What is said of servers that stay as they are holds when one changes.   *)
LEMMA ChangeKeeps ==
  ASSUME ScanInv, NEW e \in Endpoints, Change(e)
  PROVE  ScanInv'
<1>1. PICK a \in Answers(e) : up' = [up EXCEPT ![e] = a]
  BY DEF Change
<1>2. scan' = scan /\ firm' = [s \in Scans |-> firm[s] \ {e}]
  BY DEF Change
<1>3. up' \in [Endpoints -> Answer]
  BY <1>1 DEF ScanInv, Answers, Absent, Answer
<1>4. firm' \in [Scans -> SUBSET Endpoints]
  BY <1>2 DEF ScanInv
<1>5. ASSUME NEW s \in Scans
      PROVE  BatchKnown(scan[s], firm[s])' /\ PastFound(scan[s], firm[s])'
  <2>1. \A x \in firm'[s] : x \in firm[s] /\ up'[x] = up[x]
    BY <1>1, <1>2 DEF ScanInv
  <2>2. BatchKnown(scan[s], firm[s]) /\ PastFound(scan[s], firm[s])
    BY DEF ScanInv
  <2>3. BatchKnown(scan[s], firm[s])'
    BY <1>2, <2>1, <2>2 DEF BatchKnown
  <2>4. PastFound(scan[s], firm[s])'
    BY <1>2, <2>1, <2>2 DEF PastFound
  <2> QED BY <2>3, <2>4
<1> QED BY <1>2, <1>3, <1>4, <1>5 DEF ScanInv

(* ScanInv, the inductive invariant, holds throughout. *)
THEOREM ScanInvariant == DiscoverySpec => []ScanInv
<1>1. DiscoveryInit => ScanInv
  <2> SUFFICES ASSUME DiscoveryInit PROVE ScanInv
    OBVIOUS
  <2>1. /\ up \in [Endpoints -> Answer] /\ scan = [s \in Scans |-> Idle]
        /\ firm = [s \in Scans |-> {}]
    BY DEF DiscoveryInit, Absent, Answer
  <2> QED BY <2>1, IdleFacts DEF ScanInv
<1>2. ScanInv /\ [DiscoveryNext]_discoveryVars => ScanInv'
  <2> SUFFICES ASSUME ScanInv, [DiscoveryNext]_discoveryVars PROVE ScanInv'
    OBVIOUS
  <2>1. CASE Start \/ IntervalEnds
    <3>1. Begin(Loop) /\ up' = up /\ Loop \in Scans
      BY <2>1 DEF Start, IntervalEnds, Scans
    <3> QED BY <3>1, BeginKeeps
  <2>2. CASE \E s \in Triggered : TriggerDiscoveryScan(s)
    <3>1. PICK s \in Scans : Begin(s) /\ up' = up
      BY <2>2 DEF TriggerDiscoveryScan, Scans
    <3> QED BY <3>1, BeginKeeps
  <2>3. CASE \E s \in Scans, p \in Protocols : Probe(s, p)
    BY <2>3, ProbeKeeps
  <2>4. CASE \E s \in Scans, p \in Protocols : CacheBatch(s, p)
    BY <2>4, CacheKeeps
  <2>5. CASE \E s \in Scans : ScanEnds(s)
    <3>1. PICK s \in Scans : /\ up' = up /\ scan' = [scan EXCEPT ![s] = Idle]
                               /\ firm' = [firm EXCEPT ![s] = {}]
      BY <2>5 DEF ScanEnds
    <3> QED BY <3>1, IdleKeeps
  <2>6. CASE Stop
    <3>1. /\ up' = up /\ scan' = [scan EXCEPT ![Loop] = Idle]
          /\ firm' = [firm EXCEPT ![Loop] = {}] /\ Loop \in Scans
      BY <2>6 DEF Stop, Scans
    <3> QED BY <3>1, IdleKeeps
  <2>7. CASE \E e \in Endpoints : Change(e)
    BY <2>7, ChangeKeeps
  <2>8. CASE UNCHANGED discoveryVars
    BY <2>8 DEF discoveryVars, ScanInv, BatchKnown, PastFound
  <2> QED BY <2>1, <2>2, <2>3, <2>4, <2>5, <2>6, <2>7, <2>8 DEF DiscoveryNext
<1> QED BY <1>1, <1>2, PTL DEF DiscoverySpec

(* However many scans overlap, each leaves every server that was up all    *)
(* the while in the cache (core/discovery.py).                             *)
THEOREM ScansAreComplete ==
  ASSUME DiscoveryAssumption
  PROVE  DiscoverySpec => ScanIsComplete
<1>1. ASSUME ScanInv, NEW s \in Running, ScanEnds(s), NEW e \in firm[s], up[e] # Absent
      PROVE  servers'[e] = up[e]
  <2>1. /\ s \in Scans /\ scan[s] \in ScanState /\ PastFound(scan[s], firm[s])
        /\ e \in Endpoints
    BY <1>1 DEF ScanInv, Running
  <2>2. PICK p \in Protocols, h \in Host : e = <<p, h>>
    BY <2>1, HostFacts
  <2>3. PICK n \in 1 .. Batches : h \in Batch(n)
    BY BatchesCover
  <2>4. Batches \in Int /\ scan[s].batch[p] \in Nat /\ scan[s].batch[p] > Batches
    <3>1. Len(Hosts) \in Nat /\ BatchSize \in Nat /\ BatchSize > 0
      BY DEF DiscoveryAssumption
    <3>2. Batches \in Int
      BY <3>1 DEF Batches
    <3> QED BY <1>1, <2>1, <3>2 DEF ScanEnds, ScanState
  <2>5. n \in 1 .. scan[s].batch[p] - 1
    BY <2>4
  <2>6. e \in DOMAIN scan[s].found /\ scan[s].found[e] = up[e]
    BY <1>1, <2>1, <2>2, <2>3, <2>5 DEF PastFound, Absent
  <2>7. servers' = Updated(servers, scan[s].found)
    BY <1>1 DEF ScanEnds
  <2> QED BY <2>6, <2>7 DEF Updated
<1>2. ScanInv /\ [DiscoveryNext]_discoveryVars =>
        [\A s \in Running :
           ScanEnds(s) => \A e \in firm[s] : up[e] # Absent => servers'[e] = up[e]
        ]_discoveryVars
  BY <1>1
<1> QED BY <1>2, ScanInvariant, PTL DEF DiscoverySpec, ScanIsComplete

(* Every answer that a scan has, or that was cached, is one that its       *)
(* endpoint can give, and the loop scans when it says so.                  *)
AnswersFit(sc) ==
  /\ \A p \in Protocols : \A h \in DOMAIN sc.asked[p] : sc.asked[p][h] \in Answers(<<p, h>>)
  /\ \A e \in DOMAIN sc.found : sc.found[e] \in Answers(e)

CacheInv ==
  /\ \A e \in Endpoints : up[e] \in Answers(e)
  /\ DOMAIN servers = Endpoints /\ \A e \in Endpoints : servers[e] \in Answers(e)
  /\ \A s \in Scans : AnswersFit(scan[s])
  /\ loop \in {"none", "scanning", "sleeping"}
  /\ loop = "scanning" <=> scan[Loop].phase = "running"

LEMMA IdleFits ==
  /\ AnswersFit(Idle) /\ AnswersFit([Idle EXCEPT !.phase = "running"])
  /\ Idle.phase = "idle" /\ [Idle EXCEPT !.phase = "running"].phase = "running"
<1>1. /\ Idle.asked = [p \in Protocols |-> <<>>] /\ Idle.found = <<>> /\ Idle.phase = "idle"
      /\ [Idle EXCEPT !.phase = "running"].asked = Idle.asked
      /\ [Idle EXCEPT !.phase = "running"].found = Idle.found
      /\ [Idle EXCEPT !.phase = "running"].phase = "running"
  BY DEF Idle
<1>2. DOMAIN <<>> = {}
  OBVIOUS
<1> QED BY <1>1, <1>2 DEF AnswersFit

LEMMA UpdatedFits ==
  ASSUME NEW old, NEW new, \A e \in DOMAIN old : old[e] \in Answers(e),
         \A e \in DOMAIN new : new[e] \in Answers(e)
  PROVE  /\ DOMAIN Updated(old, new) = DOMAIN old \cup DOMAIN new
         /\ \A e \in DOMAIN Updated(old, new) : Updated(old, new)[e] \in Answers(e)
BY DEF Updated

(* The cache, for a step that takes one scan on to another state. *)
LEMMA ScanStep ==
  ASSUME ScanInv, CacheInv, NEW s \in Scans, NEW sc, AnswersFit(sc),
         scan' = [scan EXCEPT ![s] = sc], up' = up,
         DOMAIN servers' = Endpoints, \A e \in Endpoints : servers'[e] \in Answers(e),
         loop' \in {"none", "scanning", "sleeping"},
         loop' = "scanning" <=> scan'[Loop].phase = "running"
  PROVE  CacheInv'
<1>1. \A t \in Scans : AnswersFit(scan'[t])
  BY DEF ScanInv, CacheInv
<1> QED BY <1>1 DEF CacheInv, AnswersFit

LEMMA BeginFits ==
  ASSUME ScanInv, CacheInv, NEW s \in Scans, Begin(s), up' = up, servers' = servers,
         loop' = IF s = Loop THEN "scanning" ELSE loop
  PROVE  CacheInv'
<1> DEFINE sc == [Idle EXCEPT !.phase = "running"]
<1>1. scan' = [scan EXCEPT ![s] = sc]
  BY DEF Begin
<1>2. AnswersFit(sc) /\ sc.phase = "running"
  BY IdleFits
<1> HIDE DEF sc
<1>3. /\ s = Loop => scan'[Loop].phase = "running"
      /\ s # Loop => scan'[Loop] = scan[Loop]
  BY <1>1, <1>2 DEF ScanInv, Scans
<1>4. /\ loop' \in {"none", "scanning", "sleeping"}
      /\ loop' = "scanning" <=> scan'[Loop].phase = "running"
  BY <1>3 DEF CacheInv
<1>5. DOMAIN servers' = Endpoints /\ \A e \in Endpoints : servers'[e] \in Answers(e)
  BY DEF CacheInv
<1> QED BY <1>1, <1>2, <1>4, <1>5, ScanStep

LEMMA ProbeFits ==
  ASSUME ScanInv, CacheInv, NEW s \in Scans, NEW p \in Protocols, Probe(s, p)
  PROVE  CacheInv'
<1> DEFINE sc == scan[s]
           hosts == Batch(sc.batch[p])
           asked == [h \in hosts |-> up[<<p, h>>]]
           new == [sc EXCEPT !.asked = [sc.asked EXCEPT ![p] = asked]]
<1>1. /\ scan' = [scan EXCEPT ![s] = new]
      /\ UNCHANGED <<up, servers, loop>>
  BY DEF Probe, TestEndpoint
<1>2. sc \in ScanState /\ AnswersFit(sc)
  BY DEF ScanInv, CacheInv
<1>3. \A h \in DOMAIN asked : asked[h] \in Answers(<<p, h>>)
  <2>1. \A h \in hosts : <<p, h>> \in Endpoints
    BY HostFacts
  <2> QED BY <2>1 DEF CacheInv
<1>4. /\ new.found = sc.found /\ new.asked[p] = asked /\ new.phase = sc.phase
      /\ \A q \in Protocols : q # p => new.asked[q] = sc.asked[q]
  BY <1>2 DEF ScanState
<1> HIDE DEF asked, new
<1>5. AnswersFit(new)
  BY <1>2, <1>3, <1>4 DEF AnswersFit
<1>6. scan'[Loop].phase = scan[Loop].phase
  BY <1>1, <1>4 DEF ScanInv, Scans
<1>7. /\ loop' \in {"none", "scanning", "sleeping"}
      /\ loop' = "scanning" <=> scan'[Loop].phase = "running"
      /\ DOMAIN servers' = Endpoints /\ \A e \in Endpoints : servers'[e] \in Answers(e)
  BY <1>1, <1>6 DEF CacheInv
<1> QED BY <1>1, <1>5, <1>7, ScanStep

LEMMA CachedFits ==
  ASSUME ScanInv, CacheInv, NEW s \in Scans, NEW p \in Protocols, CacheBatch(s, p)
  PROVE  CacheInv'
<1> DEFINE sc == scan[s]
           results == Results(s, p)
           found == Updated(sc.found, results)
           new == [sc EXCEPT !.found = found, !.asked = [sc.asked EXCEPT ![p] = <<>>],
                             !.batch = [sc.batch EXCEPT ![p] = @ + 1]]
<1>1. /\ scan' = [scan EXCEPT ![s] = new] /\ UNCHANGED <<up, loop>>
      /\ servers' = Updated(servers, results)
  <2>1. scan' = [scan EXCEPT ![s].found = Updated(@, results), ![s].asked[p] = <<>>,
                             ![s].batch[p] = @ + 1]
    BY DEF CacheBatch
  <2>2. scan' = [scan EXCEPT ![s] = new]
    BY <2>1 DEF ScanInv, ScanState
  <2> QED BY <2>2 DEF CacheBatch
<1>2. sc \in ScanState /\ AnswersFit(sc) /\ sc.asked[p] \in Asked
  BY DEF ScanInv, CacheInv, ScanState
<1>3. ASSUME NEW e \in DOMAIN results PROVE results[e] \in Answers(e) /\ e \in Endpoints
  <2>1. PICK h \in DOMAIN sc.asked[p] : e = <<p, h>> /\ results[e] = sc.asked[p][h]
    BY <1>3 DEF Results
  <2>2. h \in Host
    BY <1>2, <2>1 DEF Asked
  <2> QED BY <1>2, <2>1, <2>2, HostFacts DEF AnswersFit
<1>4. \A e \in DOMAIN found : found[e] \in Answers(e)
  <2>1. \A e \in DOMAIN sc.found : sc.found[e] \in Answers(e)
    BY <1>2 DEF AnswersFit
  <2> HIDE DEF results
  <2> QED BY <1>3, <2>1, UpdatedFits
<1>5. DOMAIN servers' = Endpoints /\ \A e \in Endpoints : servers'[e] \in Answers(e)
  <2>1. DOMAIN servers = Endpoints /\ \A e \in DOMAIN servers : servers[e] \in Answers(e)
    BY DEF CacheInv
  <2> HIDE DEF results
  <2>2. /\ DOMAIN Updated(servers, results) = DOMAIN servers \cup DOMAIN results
        /\ \A e \in DOMAIN Updated(servers, results) : Updated(servers, results)[e] \in Answers(e)
    BY <1>3, <2>1, UpdatedFits
  <2>3. DOMAIN results \subseteq Endpoints
    BY <1>3
  <2> QED BY <1>1, <2>1, <2>2, <2>3
<1> HIDE DEF results, found
<1>6. /\ new.found = found /\ new.asked[p] = <<>> /\ new.phase = sc.phase
      /\ \A q \in Protocols : q # p => new.asked[q] = sc.asked[q]
  BY <1>2 DEF ScanState
<1> HIDE DEF new
<1>7. AnswersFit(new)
  <2>1. DOMAIN <<>> = {}
    OBVIOUS
  <2> QED BY <1>2, <1>4, <1>6, <2>1 DEF AnswersFit
<1>8. scan'[Loop].phase = scan[Loop].phase
  BY <1>1, <1>6 DEF ScanInv, Scans
<1>9. /\ loop' \in {"none", "scanning", "sleeping"}
      /\ loop' = "scanning" <=> scan'[Loop].phase = "running"
  BY <1>1, <1>8 DEF CacheInv
<1> QED BY <1>1, <1>5, <1>7, <1>9, ScanStep

(* A scan ends, with its results in the cache, or is cancelled. *)
LEMMA IdleAgainFits ==
  ASSUME ScanInv, CacheInv, NEW s \in Scans, scan' = [scan EXCEPT ![s] = Idle], up' = up,
         servers' = servers \/ servers' = Updated(servers, scan[s].found),
         loop' \in {"none", "scanning", "sleeping"},
         IF s = Loop THEN loop' # "scanning" ELSE loop' = loop
  PROVE  CacheInv'
<1>1. /\ \A e \in DOMAIN scan[s].found : scan[s].found[e] \in Answers(e) /\ e \in Endpoints
      /\ DOMAIN servers = Endpoints /\ \A e \in DOMAIN servers : servers[e] \in Answers(e)
  <2>1. scan[s].found \in Found /\ AnswersFit(scan[s])
    BY DEF ScanInv, ScanState, CacheInv
  <2>2. DOMAIN scan[s].found \subseteq Endpoints
    BY <2>1 DEF Found
  <2> QED BY <2>1, <2>2 DEF CacheInv, AnswersFit
<1>2. DOMAIN servers' = Endpoints /\ \A e \in Endpoints : servers'[e] \in Answers(e)
  <2> DEFINE found == scan[s].found
  <2>1. \A e \in DOMAIN found : found[e] \in Answers(e) /\ e \in Endpoints
    BY <1>1
  <2> HIDE DEF found
  <2>2. /\ DOMAIN Updated(servers, found) = DOMAIN servers \cup DOMAIN found
        /\ \A e \in DOMAIN Updated(servers, found) : Updated(servers, found)[e] \in Answers(e)
    BY <1>1, <2>1, UpdatedFits
  <2>3. servers' = servers \/ servers' = Updated(servers, found)
    BY DEF found
  <2> QED BY <1>1, <2>1, <2>2, <2>3
<1>3. /\ s = Loop => scan'[Loop] = Idle
      /\ s # Loop => scan'[Loop] = scan[Loop]
  BY DEF ScanInv, Scans
<1>4. loop' = "scanning" <=> scan'[Loop].phase = "running"
  BY <1>3, IdleFits DEF CacheInv
<1> QED BY <1>2, <1>4, IdleFits, ScanStep

LEMMA ServerChangeFits ==
  ASSUME ScanInv, CacheInv, NEW e \in Endpoints, Change(e)
  PROVE  CacheInv'
<1>1. PICK a \in Answers(e) : up' = [up EXCEPT ![e] = a]
  BY DEF Change
<1>2. UNCHANGED <<servers, scan, loop>>
  BY DEF Change
<1>3. \A d \in Endpoints : up'[d] \in Answers(d)
  BY <1>1 DEF ScanInv, CacheInv
<1> QED BY <1>2, <1>3 DEF CacheInv, AnswersFit

(* Discovery's types: what is cached of an endpoint is an answer that it   *)
(* can give, whichever scans overlap (core/discovery.py).                  *)
THEOREM DiscoveryTyped ==
  ASSUME DiscoveryAssumption
  PROVE  DiscoverySpec => []DiscoveryTypeOK
<1>1. DiscoveryInit => CacheInv
  <2> SUFFICES ASSUME DiscoveryInit PROVE CacheInv
    OBVIOUS
  <2>1. \A e \in Endpoints : up[e] \in Answers(e) /\ servers[e] \in Answers(e)
    BY DEF DiscoveryInit, Answers, Absent
  <2>2. DOMAIN servers = Endpoints /\ scan = [s \in Scans |-> Idle] /\ loop = "none"
        /\ Loop \in Scans
    BY DEF DiscoveryInit, Scans
  <2> QED BY <2>1, <2>2, IdleFits DEF CacheInv
<1>2. ScanInv /\ CacheInv /\ [DiscoveryNext]_discoveryVars => CacheInv'
  <2> SUFFICES ASSUME ScanInv, CacheInv, [DiscoveryNext]_discoveryVars PROVE CacheInv'
    OBVIOUS
  <2>1. CASE Start \/ IntervalEnds
    <3>1. Begin(Loop) /\ UNCHANGED <<up, servers>> /\ loop' = "scanning" /\ Loop \in Scans
      BY <2>1 DEF Start, IntervalEnds, Scans
    <3> QED BY <3>1, BeginFits
  <2>2. CASE \E s \in Triggered : TriggerDiscoveryScan(s)
    <3>1. PICK s \in Triggered : TriggerDiscoveryScan(s)
      BY <2>2
    <3>2. s \in Scans /\ s # Loop
      BY <3>1 DEF Scans, DiscoveryAssumption
    <3>3. Begin(s) /\ UNCHANGED <<up, servers, loop>>
      BY <3>1 DEF TriggerDiscoveryScan
    <3> QED BY <3>2, <3>3, BeginFits
  <2>3. CASE \E s \in Scans, p \in Protocols : Probe(s, p)
    BY <2>3, ProbeFits
  <2>4. CASE \E s \in Scans, p \in Protocols : CacheBatch(s, p)
    BY <2>4, CachedFits
  <2>5. CASE \E s \in Scans : ScanEnds(s)
    <3>1. PICK s \in Scans : /\ up' = up /\ scan' = [scan EXCEPT ![s] = Idle]
                             /\ servers' = Updated(servers, scan[s].found)
                             /\ loop' = IF s = Loop THEN "sleeping" ELSE loop
      BY <2>5 DEF ScanEnds
    <3>2. /\ loop' \in {"none", "scanning", "sleeping"}
          /\ IF s = Loop THEN loop' # "scanning" ELSE loop' = loop
      BY <3>1 DEF CacheInv
    <3> QED BY <3>1, <3>2, IdleAgainFits
  <2>6. CASE Stop
    <3>1. /\ UNCHANGED <<up, servers>> /\ scan' = [scan EXCEPT ![Loop] = Idle]
          /\ loop' = "none" /\ Loop \in Scans
      BY <2>6 DEF Stop, Scans
    <3> QED BY <3>1, IdleAgainFits
  <2>7. CASE \E e \in Endpoints : Change(e)
    BY <2>7, ServerChangeFits
  <2>8. CASE UNCHANGED discoveryVars
    BY <2>8 DEF discoveryVars, CacheInv, AnswersFit
  <2> QED BY <2>1, <2>2, <2>3, <2>4, <2>5, <2>6, <2>7, <2>8 DEF DiscoveryNext
<1>3. ScanInv /\ CacheInv => DiscoveryTypeOK
  <2> SUFFICES ASSUME ScanInv, CacheInv PROVE DiscoveryTypeOK
    OBVIOUS
  <2>1. \A s \in Scans : DOMAIN scan[s].found \subseteq Endpoints
    BY DEF ScanInv, ScanState, Found
  <2>2. loop = "scanning" <=> Loop \in Running
    BY DEF CacheInv, Running, Scans
  <2> QED BY <2>1, <2>2 DEF CacheInv, DiscoveryTypeOK
<1> QED BY <1>1, <1>2, <1>3, ScanInvariant, PTL DEF DiscoverySpec

-----------------------------------------------------------------------------
(* Sequences of record numbers, and the sets of what is in them            *)

LEMMA EmptyHolds == <<>> \in Seq(Nat) /\ ToSet(<<>>) = {}
BY DEF ToSet

LEMMA ConcatHolds ==
  ASSUME NEW s \in Seq(Nat), NEW t \in Seq(Nat)
  PROVE  s \o t \in Seq(Nat) /\ ToSet(s \o t) = ToSet(s) \cup ToSet(t)
<1>1. /\ s \o t \in Seq(Nat) /\ Len(s) \in Nat /\ Len(t) \in Nat
      /\ DOMAIN (s \o t) = 1 .. Len(s) + Len(t)
      /\ DOMAIN s = 1 .. Len(s) /\ DOMAIN t = 1 .. Len(t)
      /\ \A i \in 1 .. Len(s) + Len(t) :
           (s \o t)[i] = IF i <= Len(s) THEN s[i] ELSE t[i - Len(s)]
  BY ConcatProperties, LenProperties
<1>2. ASSUME NEW i \in DOMAIN s PROVE s[i] \in ToSet(s \o t)
  BY <1>1 DEF ToSet
<1>3. ASSUME NEW i \in DOMAIN t PROVE t[i] \in ToSet(s \o t)
  <2>1. i \in 1 .. Len(t) /\ Len(s) + i \in 1 .. Len(s) + Len(t) /\ Len(s) + i - Len(s) = i
    BY <1>1
  <2>2. Len(s) + i \in DOMAIN (s \o t) /\ (s \o t)[Len(s) + i] = t[i]
    <3>1. ~(Len(s) + i <= Len(s))
      BY <1>1, <2>1
    <3> QED BY <1>1, <2>1, <3>1
  <2> QED BY <2>2 DEF ToSet
<1>4. ASSUME NEW i \in DOMAIN (s \o t) PROVE (s \o t)[i] \in ToSet(s) \cup ToSet(t)
  <2>1. CASE i <= Len(s)
    <3>1. (s \o t)[i] = s[i] /\ i \in DOMAIN s
      BY <1>1, <2>1
    <3> QED BY <3>1 DEF ToSet
  <2>2. CASE i > Len(s)
    <3>1. (s \o t)[i] = t[i - Len(s)] /\ i - Len(s) \in DOMAIN t
      BY <1>1, <2>2
    <3> QED BY <3>1 DEF ToSet
  <2> QED BY <1>1, <2>1, <2>2
<1> QED BY <1>1, <1>2, <1>3, <1>4 DEF ToSet

LEMMA AppendHolds ==
  ASSUME NEW s \in Seq(Nat), NEW r \in Nat
  PROVE  Append(s, r) \in Seq(Nat) /\ ToSet(Append(s, r)) = ToSet(s) \cup {r}
<1>1. <<r>> \in Seq(Nat) /\ ToSet(<<r>>) = {r} /\ Append(s, r) = s \o <<r>>
  BY AppendIsConcat DEF ToSet
<1> QED BY <1>1, ConcatHolds

LEMMA HeadTailHolds ==
  ASSUME NEW s \in Seq(Nat), s # <<>>
  PROVE  /\ Head(s) \in Nat /\ Tail(s) \in Seq(Nat)
         /\ ToSet(s) = {Head(s)} \cup ToSet(Tail(s))
<1>1. /\ Head(s) \in Nat /\ Tail(s) \in Seq(Nat) /\ s = <<Head(s)>> \o Tail(s)
  BY HeadTailProperties, ConcatProperties, SeqEqual
<1>2. <<Head(s)>> \in Seq(Nat) /\ ToSet(<<Head(s)>>) = {Head(s)}
  BY <1>1 DEF ToSet
<1> QED BY <1>1, <1>2, ConcatHolds

LEMMA RemoveAtHolds ==
  ASSUME NEW s \in Seq(Nat), NEW i \in DOMAIN s
  PROVE  RemoveAt(s, i) \in Seq(Nat) /\ ToSet(RemoveAt(s, i)) \cup {s[i]} = ToSet(s)
<1> DEFINE a == SubSeq(s, 1, i - 1)
           b == SubSeq(s, i + 1, Len(s))
<1>1. Len(s) \in Nat /\ DOMAIN s = 1 .. Len(s) /\ i \in 1 .. Len(s)
  BY LenProperties
<1>2. a \in Seq(Nat) /\ Len(a) = i - 1 /\ \A j \in 1 .. i - 1 : a[j] = s[j]
  BY <1>1, SubSeqProperties
<1>3. b \in Seq(Nat) /\ Len(b) = Len(s) - i /\ \A j \in 1 .. Len(s) - i : b[j] = s[i + j]
  <2>1. /\ i + 1 \in Int /\ Len(s) \in Int
        /\ \A k \in i + 1 .. Len(s) : s[k] \in Nat
    BY <1>1, ElementOfSeq
  <2> DEFINE m == i + 1
             e == Len(s)
  <2>2. m \in Int /\ e \in Int /\ \A k \in m .. e : s[k] \in Nat
    BY <2>1
  <2>3. b = SubSeq(s, m, e)
    BY DEF b
  <2> HIDE DEF m, e
  <2>4. /\ SubSeq(s, m, e) \in Seq(Nat)
        /\ Len(SubSeq(s, m, e)) = IF m <= e THEN e - m + 1 ELSE 0
        /\ \A j \in 1 .. e - m + 1 : SubSeq(s, m, e)[j] = s[m + j - 1]
    BY <2>2, SubSeqProperties
  <2>5. /\ b \in Seq(Nat)
        /\ Len(b) = IF i + 1 <= Len(s) THEN Len(s) - (i + 1) + 1 ELSE 0
        /\ \A j \in 1 .. Len(s) - (i + 1) + 1 : b[j] = s[i + 1 + j - 1]
    BY <2>3, <2>4 DEF m, e
  <2>6. Len(b) = Len(s) - i
    BY <1>1, <2>5
  <2>7. ASSUME NEW j \in 1 .. Len(s) - i PROVE b[j] = s[i + j]
    <3>1. j \in 1 .. Len(s) - (i + 1) + 1 /\ i + 1 + j - 1 = i + j
      BY <1>1
    <3> QED BY <2>5, <3>1
  <2> QED BY <2>5, <2>6, <2>7
<1>4. DOMAIN a = 1 .. i - 1 /\ DOMAIN b = 1 .. Len(s) - i
  BY <1>2, <1>3, LenProperties
<1> HIDE DEF a, b
<1>5. ToSet(a) \subseteq ToSet(s) /\ ToSet(b) \subseteq ToSet(s)
  <2>1. \A j \in DOMAIN a : a[j] = s[j] /\ j \in DOMAIN s
    BY <1>1, <1>2, <1>4
  <2>2. \A j \in DOMAIN b : b[j] = s[i + j] /\ i + j \in DOMAIN s
    BY <1>1, <1>3, <1>4
  <2> QED BY <2>1, <2>2 DEF ToSet
<1>6. ASSUME NEW j \in DOMAIN s, j # i PROVE s[j] \in ToSet(a) \cup ToSet(b)
  <2>1. CASE j < i
    <3>1. j \in DOMAIN a /\ a[j] = s[j]
      BY <1>1, <1>2, <1>4, <2>1
    <3> QED BY <3>1 DEF ToSet
  <2>2. CASE j > i
    <3>1. j - i \in 1 .. Len(s) - i /\ i + (j - i) = j
      BY <1>1, <2>2
    <3>2. j - i \in DOMAIN b /\ b[j - i] = s[j]
      BY <1>3, <1>4, <3>1
    <3> QED BY <3>2 DEF ToSet
  <2> QED BY <1>1, <1>6, <2>1, <2>2
<1>7. RemoveAt(s, i) = a \o b
  BY DEF RemoveAt, a, b
<1>8. a \o b \in Seq(Nat) /\ ToSet(a \o b) = ToSet(a) \cup ToSet(b)
  BY <1>2, <1>3, ConcatHolds
<1>9. ToSet(s) = ToSet(a) \cup ToSet(b) \cup {s[i]}
  <2>1. \A j \in DOMAIN s : s[j] \in ToSet(a) \cup ToSet(b) \cup {s[i]}
    BY <1>6
  <2>2. s[i] \in ToSet(s)
    BY DEF ToSet
  <2>3. ToSet(s) \subseteq ToSet(a) \cup ToSet(b) \cup {s[i]}
    BY <2>1 DEF ToSet
  <2> QED BY <1>5, <2>2, <2>3
<1> QED BY <1>7, <1>8, <1>9

(* The records of a poll. *)
LEMMA PolledHolds ==
  ASSUME NEW m \in Nat, NEW n \in Nat
  PROVE  /\ [i \in 1 .. n |-> m + i] \in Seq(Nat)
         /\ 1 .. m + n = 1 .. m \cup ToSet([i \in 1 .. n |-> m + i])
<1> DEFINE s == [i \in 1 .. n |-> m + i]
<1>1. s \in Seq(Nat)
  BY IsASeq
<1>2. \A r \in m + 1 .. m + n : r - m \in DOMAIN s /\ s[r - m] = r
  OBVIOUS
<1>3. \A i \in DOMAIN s : s[i] = m + i /\ i \in 1 .. n
  OBVIOUS
<1> HIDE DEF s
<1>4. m + 1 .. m + n \subseteq ToSet(s)
  BY <1>2 DEF ToSet
<1>5. ToSet(s) \subseteq m + 1 .. m + n
  BY <1>3 DEF ToSet
<1>6. 1 .. m + n = 1 .. m \cup (m + 1 .. m + n)
  OBVIOUS
<1>7. 1 .. m + n = 1 .. m \cup ToSet(s)
  BY <1>4, <1>5, <1>6
<1> QED BY <1>1, <1>7 DEF s

-----------------------------------------------------------------------------
(* OpcuaDirect                                                             *)

Client ==
  [at : {"polling", "opening", "starting", "truncating", "truncating first", "ingesting",
         "down"},
   buffer : Seq(Nat), zerobusOk : BOOLEAN]

(* Everything in the backup is with ZeroBus once it may be truncated.      *)
DirectInv ==
  /\ client \in Client /\ d_backup \in Seq(Nat) /\ d_polled \in Nat
  /\ 1 .. d_polled = ToSet(client.buffer) \cup ToSet(d_backup) \cup d_durable \cup d_lost
  /\ client.at \in {"truncating", "truncating first"} => ToSet(d_backup) \subseteq d_durable
  /\ client.at = "down" => ToSet(client.buffer) = {}

LEMMA DirectSets ==
  /\ \A s : D!ToSet(s) = ToSet(s)
  /\ \A s, i : D!RemoveAt(s, i) = RemoveAt(s, i)
BY DEF D!ToSet, ToSet, D!RemoveAt, RemoveAt

LEMMA SaveBufferKeeps ==
  ASSUME DirectInv, NEW ok \in BOOLEAN, D!SaveBuffer(ok), d_polled' = d_polled,
         d_durable \subseteq d_durable', d_durable' \subseteq d_durable \cup ToSet(client.buffer)
                                                   \cup ToSet(d_backup)
  PROVE  DirectInv'
<1>1. /\ client.buffer \in Seq(Nat) /\ d_backup \in Seq(Nat)
      /\ client' = [at |-> "polling", buffer |-> <<>>, zerobusOk |-> ok]
  BY DEF DirectInv, Client, D!SaveBuffer
<1>2. client' \in Client /\ ToSet(client'.buffer) = {} /\ client'.at = "polling"
  BY <1>1, EmptyHolds DEF Client
<1>3. /\ d_backup' \in Seq(Nat)
      /\ ToSet(d_backup') \cup d_lost' = ToSet(d_backup) \cup ToSet(client.buffer) \cup d_lost
  <2>1. CASE d_backup' = d_backup \o client.buffer /\ d_lost' = d_lost
    BY <1>1, <2>1, ConcatHolds
  <2>2. CASE \E i \in DOMAIN client.buffer :
               /\ d_backup' = d_backup \o RemoveAt(client.buffer, i)
               /\ d_lost' = d_lost \cup {client.buffer[i]}
    <3>1. PICK i \in DOMAIN client.buffer :
               /\ d_backup' = d_backup \o RemoveAt(client.buffer, i)
               /\ d_lost' = d_lost \cup {client.buffer[i]}
      BY <2>2
    <3>2. /\ RemoveAt(client.buffer, i) \in Seq(Nat)
          /\ ToSet(RemoveAt(client.buffer, i)) \cup {client.buffer[i]} = ToSet(client.buffer)
      BY <1>1, RemoveAtHolds
    <3>3. /\ d_backup' \in Seq(Nat)
          /\ ToSet(d_backup') = ToSet(d_backup) \cup ToSet(RemoveAt(client.buffer, i))
      BY <1>1, <3>1, <3>2, ConcatHolds
    <3> QED BY <3>1, <3>2, <3>3
  <2> QED BY <2>1, <2>2, DirectSets DEF D!SaveBuffer
<1> QED BY <1>2, <1>3 DEF DirectInv

(* A poll takes records into the buffer. *)
LEMMA DirectPollKeeps ==
  ASSUME D!DirectAssumption, DirectInv, D!PollLines
  PROVE  DirectInv'
<1>1. PICK n \in Nat, at \in {"polling", "ingesting", "opening"} :
        /\ d_polled' = d_polled + n
        /\ client' = [client EXCEPT !.buffer = @ \o [i \in 1 .. n |-> d_polled + i], !.at = at]
        /\ UNCHANGED <<d_backup, d_durable, d_lost>>
  BY DEF D!PollLines, D!DirectAssumption
<1>2. client.buffer \in Seq(Nat) /\ d_polled \in Nat
  BY DEF DirectInv, Client
<1> DEFINE s == [i \in 1 .. n |-> d_polled + i]
<1>3. s \in Seq(Nat) /\ 1 .. d_polled + n = 1 .. d_polled \cup ToSet(s)
  BY <1>2, PolledHolds
<1> HIDE DEF s
<1>4. client.buffer \o s \in Seq(Nat) /\ ToSet(client.buffer \o s) = ToSet(client.buffer) \cup ToSet(s)
  BY <1>2, <1>3, ConcatHolds
<1>5. client' = [client EXCEPT !.buffer = client.buffer \o s, !.at = at]
  BY <1>1 DEF s
<1>6. client' \in Client /\ client'.buffer = client.buffer \o s /\ client'.at = at
  BY <1>4, <1>5 DEF DirectInv, Client
<1>7. ToSet(client'.buffer) = ToSet(client.buffer) \cup ToSet(s)
  BY <1>4, <1>6
<1>8. d_polled' = d_polled + n /\ d_polled' \in Nat
  BY <1>1, <1>2
<1>9. d_backup' = d_backup /\ d_durable' = d_durable /\ d_lost' = d_lost
  BY <1>1
<1>10. client'.at \notin {"truncating", "truncating first", "down"}
  BY <1>6
<1> QED BY <1>3, <1>6, <1>7, <1>8, <1>9, <1>10 DEF DirectInv

(* What is polled is with ZeroBus, in the buffer or in the backup; and the   *)
(* backup is truncated only when ZeroBus has all of it                       *)
(* (opcua_zerobus_client.py).                                              *)
THEOREM DirectInvariant ==
  ASSUME D!DirectAssumption
  PROVE  D!Spec => []DirectInv
<1>1. D!Init => DirectInv
  BY EmptyHolds DEF D!Init, DirectInv, Client
<1>2. DirectInv /\ [D!Next]_D!directVars => DirectInv'
  <2> SUFFICES ASSUME DirectInv, [D!Next]_D!directVars PROVE DirectInv'
    OBVIOUS
  <2>1. CASE D!PollLines
    BY <2>1, DirectPollKeeps
  <2>2. CASE D!DrainBackup
    BY <2>2, DirectSets DEF D!DrainBackup, D!Draining, DirectInv, Client
  <2>3. CASE D!Truncate
    <3>1. d_backup' = <<>> /\ client'.buffer = client.buffer /\ client' \in Client
          /\ client'.at \in {"polling", "ingesting"} /\ ToSet(d_backup) \subseteq d_durable
      BY <2>3, DirectSets DEF D!Truncate, D!Drained, DirectInv, Client
    <3> QED BY <2>3, <3>1, EmptyHolds DEF D!Truncate, DirectInv
  <2>4. CASE D!DrainUnreadable
    BY <2>4, DirectSets DEF D!DrainUnreadable, D!Drained, DirectInv, Client
  <2>5. CASE D!DrainFails
    <3>1. d_durable \subseteq d_durable' /\ d_durable' \subseteq d_durable \cup ToSet(d_backup)
          /\ d_polled' = d_polled
      BY <2>5, DirectSets DEF D!DrainFails
    <3>2. CASE client.at = "opening"
      BY <2>5, <3>1, <3>2, DirectSets, SaveBufferKeeps DEF D!DrainFails
    <3>3. CASE client.at # "opening"
      BY <2>5, <3>1, <3>3, DirectSets DEF D!DrainFails, DirectInv, Client
    <3> QED BY <3>2, <3>3
  <2>6. CASE D!IngestBatch
    <3>1. /\ client' \in Client /\ ToSet(client'.buffer) = {} /\ client'.at = "polling"
          /\ d_durable' = d_durable \cup ToSet(client.buffer)
          /\ UNCHANGED <<d_backup, d_polled, d_lost>>
      BY <2>6, DirectSets, EmptyHolds DEF D!IngestBatch, DirectInv, Client
    <3> QED BY <3>1 DEF DirectInv
  <2>7. CASE D!IngestFails
    <3>1. /\ d_durable \subseteq d_durable' /\ d_durable' \subseteq d_durable \cup ToSet(client.buffer)
          /\ d_polled' = d_polled /\ D!SaveBuffer(FALSE)
      BY <2>7, DirectSets DEF D!IngestFails
    <3> QED BY <3>1, SaveBufferKeeps
  <2>8. CASE D!IngestRaises
    BY <2>8, DirectSets DEF D!IngestRaises, DirectInv, Client
  <2>9. CASE D!Stop
    <3>1. /\ client' \in Client /\ ToSet(client'.buffer) = {} /\ client'.at = "down"
          /\ d_lost' = d_lost \cup (ToSet(client.buffer) \ d_durable)
          /\ UNCHANGED <<d_backup, d_polled, d_durable>>
      BY <2>9, DirectSets, EmptyHolds DEF D!Stop, DirectInv, Client
    <3> QED BY <3>1 DEF DirectInv
  <2>10. CASE D!Start
    <3>1. /\ client' \in Client /\ ToSet(client'.buffer) = {}
          /\ client'.at \in {"polling", "starting"}
          /\ UNCHANGED <<d_backup, d_polled, d_durable, d_lost>>
      BY <2>10, EmptyHolds DEF D!Start, DirectInv, Client
    <3>2. ToSet(client.buffer) = {}
      BY <2>10 DEF DirectInv, D!Start
    <3> QED BY <3>1, <3>2 DEF DirectInv
  <2>11. CASE UNCHANGED D!directVars
    BY <2>11 DEF D!directVars, DirectInv
  <2> QED BY <2>1, <2>2, <2>3, <2>4, <2>5, <2>6, <2>7, <2>8, <2>9, <2>10, <2>11 DEF D!Next
<1> QED BY <1>1, <1>2, PTL DEF D!Spec

(* So a record the client polled vanishes only when a stop catches it in     *)
(* the buffer or the disk refuses it (opcua_zerobus_client.py).            *)
THEOREM DirectCorrect ==
  ASSUME D!DirectAssumption
  PROVE  D!Spec => []D!DirectSound
<1>1. DirectInv => D!DirectSound
  BY DirectSets DEF DirectInv, Client, D!DirectSound, D!TypeOK, D!NothingVanishes
<1> QED BY <1>1, DirectInvariant, PTL

-----------------------------------------------------------------------------
(* OpcuaRelay                                                              *)

Poller ==
  [at : {"waiting", "publishing", "connecting", "draining", "starting", "down"},
   records : Seq(Nat), sent : Nat, rabbitmqOk : BOOLEAN]

Agent ==
  [at : {"draining", "ingesting", "acking", "nacking", "down"},
   messages : Seq(Nat), attempt : Nat, connected : BOOLEAN]

(* What the poller need not keep any more. *)
Handed == r_durable \cup r_lost \cup expired \cup ToSet(queue) \cup ToSet(unacked)

(* The poller has handed over what it counts as sent, of a poll or of the  *)
(* backup, and holds everything else that it polled.                         *)
PollerInv ==
  /\ poller \in Poller /\ r_backup \in Seq(Nat) /\ r_polled \in Nat
  /\ 1 .. r_polled \subseteq Handed \cup ToSet(poller.records) \cup ToSet(r_backup)
  /\ poller.at \in {"waiting", "starting", "down"} => poller.records = <<>>
  /\ Len(poller.records) <= RelayLines /\ poller.sent <= Len(r_backup) + RelayLines
  /\ poller.at \in {"waiting", "connecting"} => poller.sent = 0
  /\ poller.at = "publishing" =>
       /\ poller.sent <= Len(poller.records)
       /\ \A i \in 1 .. poller.sent : poller.records[i] \in Handed
  /\ poller.at \in {"draining", "starting"} =>
       /\ poller.sent <= Len(r_backup)
       /\ \A i \in 1 .. poller.sent : r_backup[i] \in Handed

(* What was delivered is the agent's batch, as long as it is connected,    *)
(* and ZeroBus has the batch before it is acknowledged.                    *)
AgentInv ==
  /\ agent \in Agent /\ queue \in Seq(Nat) /\ unacked \in Seq(Nat)
  /\ Len(agent.messages) <= RelayBatch
  /\ agent.connected => unacked = agent.messages
  /\ ~agent.connected => unacked = <<>>
  /\ agent.at = "down" => unacked = <<>>
  /\ agent.at = "acking" => ToSet(agent.messages) \subseteq r_durable

RelayInv == PollerInv /\ AgentInv

LEMMA RelaySets ==
  /\ \A s : R!ToSet(s) = ToSet(s)
  /\ \A s, i : R!RemoveAt(s, i) = RemoveAt(s, i)
  /\ \A s, e : R!Contains(s, e) <=> e \in ToSet(s)
BY DEF R!ToSet, ToSet, R!RemoveAt, RemoveAt, R!Contains

(* What the agent and the broker do the poller does not notice. *)
LEMMA PollerStays ==
  ASSUME PollerInv, Handed \subseteq Handed', UNCHANGED <<poller, r_backup, r_polled>>
  PROVE  PollerInv'
<1> DEFINE H == Handed
<1>1. H \subseteq Handed'
  OBVIOUS
<1> QED BY <1>1 DEF PollerInv

(* A poller that saves its poll. *)
LEMMA SavesKeeps ==
  ASSUME R!RelayAssumption, PollerInv, NEW ok \in BOOLEAN, R!Saves(poller.records, ok),
         r_polled' = r_polled, ToSet(queue) \subseteq ToSet(queue'),
         r_durable' = r_durable, expired' = expired, unacked' = unacked
  PROVE  PollerInv'
<1>1. /\ poller.records \in Seq(Nat) /\ r_backup \in Seq(Nat)
      /\ poller' = [at |-> "waiting", records |-> <<>>, sent |-> 0, rabbitmqOk |-> ok]
  BY DEF PollerInv, Poller, R!Saves
<1>2. /\ poller' \in Poller /\ poller'.records = <<>> /\ poller'.at = "waiting"
      /\ poller'.sent = 0 /\ Len(poller'.records) = 0
  BY <1>1, EmptyHolds DEF Poller
<1>3. /\ r_backup' \in Seq(Nat)
      /\ ToSet(r_backup') \cup r_lost' = ToSet(r_backup) \cup ToSet(poller.records) \cup r_lost
  <2>1. CASE r_backup' = r_backup \o poller.records /\ r_lost' = r_lost
    BY <1>1, <2>1, ConcatHolds
  <2>2. CASE \E i \in DOMAIN poller.records :
               /\ r_backup' = r_backup \o R!RemoveAt(poller.records, i)
               /\ r_lost' = r_lost \cup {poller.records[i]}
    <3>1. PICK i \in DOMAIN poller.records :
               /\ r_backup' = r_backup \o RemoveAt(poller.records, i)
               /\ r_lost' = r_lost \cup {poller.records[i]}
      BY <2>2, RelaySets
    <3>2. /\ RemoveAt(poller.records, i) \in Seq(Nat)
          /\ ToSet(RemoveAt(poller.records, i)) \cup {poller.records[i]}
               = ToSet(poller.records)
      BY <1>1, RemoveAtHolds
    <3>3. /\ r_backup' \in Seq(Nat)
          /\ ToSet(r_backup') = ToSet(r_backup) \cup ToSet(RemoveAt(poller.records, i))
      BY <1>1, <3>1, <3>2, ConcatHolds
    <3> QED BY <3>1, <3>2, <3>3
  <2> QED BY <2>1, <2>2 DEF R!Saves
<1>4. Handed \cup ToSet(poller.records) \cup ToSet(r_backup) \subseteq Handed' \cup ToSet(r_backup')
  BY <1>3 DEF Handed
<1>5. Len(r_backup') \in Nat /\ RelayLines \in Nat
  BY <1>3, LenProperties DEF R!RelayAssumption
<1> QED BY <1>2, <1>3, <1>4, <1>5 DEF PollerInv

(* What the poller publishes is handed over. *)
LEMMA HandsOver ==
  ASSUME queue \in Seq(Nat), NEW r \in Nat, queue' = Append(queue, r),
         UNCHANGED <<r_durable, r_lost, expired, unacked>>
  PROVE  queue' \in Seq(Nat) /\ r \in Handed' /\ Handed \subseteq Handed'
BY AppendHolds DEF Handed

LEMMA Arrived ==
  ASSUME queue \in Seq(Nat), NEW r \in Nat, R!Arrives(r)
  PROVE  queue' \in Seq(Nat) /\ ToSet(queue) \subseteq ToSet(queue')
BY AppendHolds DEF R!Arrives

LEMMA NextRecord ==
  ASSUME NEW s \in Seq(Nat), NEW n \in Nat, n < Len(s)
  PROVE  s[n + 1] \in Nat /\ n + 1 <= Len(s)
<1>1. Len(s) \in Nat /\ n + 1 \in 1 .. Len(s)
  BY LenProperties
<1> QED BY <1>1, ElementOfSeq

(* The poller's steps. *)
LEMMA RelayPollKeeps ==
  ASSUME R!RelayAssumption, PollerInv, R!PollLines
  PROVE  PollerInv'
<1> DEFINE n == IF r_polled < RelayPolls * RelayLines THEN RelayLines ELSE 0
           at == IF poller.rabbitmqOk THEN "publishing" ELSE "connecting"
           s == [i \in 1 .. n |-> r_polled + i]
<1>1. /\ r_polled' = r_polled + n /\ poller' = [poller EXCEPT !.at = at, !.records = s, !.sent = 0]
      /\ UNCHANGED <<r_backup, queue, unacked, r_durable, r_lost, expired>>
  BY DEF R!PollLines, R!PollerChanges, R!PollerOnly
<1>2. n \in Nat /\ n <= RelayLines /\ at \in {"publishing", "connecting"}
  BY DEF R!RelayAssumption
<1> HIDE DEF n, at
<1>3. s \in Seq(Nat) /\ 1 .. r_polled + n = 1 .. r_polled \cup ToSet(s) /\ Len(s) = n
  <2>1. r_polled \in Nat
    BY DEF PollerInv
  <2>2. Len(s) = n /\ DOMAIN s = 1 .. n
    BY <1>2
  <2>3. s \in Seq(Nat) /\ 1 .. r_polled + n = 1 .. r_polled \cup ToSet(s)
    BY <1>2, <2>1, PolledHolds
  <2> HIDE DEF s
  <2> QED BY <2>2, <2>3
<1> HIDE DEF s
<1>5. /\ poller' \in Poller /\ poller'.records = s /\ poller'.sent = 0
      /\ poller'.at \in {"publishing", "connecting"}
  BY <1>1, <1>3, <1>2 DEF PollerInv, Poller
<1>6. Handed' = Handed /\ r_backup' = r_backup /\ r_polled' = r_polled + n /\ r_polled' \in Nat
  BY <1>1, <1>2 DEF Handed, PollerInv
<1>7. poller.records = <<>> /\ ToSet(poller.records) = {}
  BY EmptyHolds DEF R!PollLines, PollerInv
<1>8. Len(r_backup) \in Nat /\ RelayLines \in Nat
  BY LenProperties DEF R!RelayAssumption, PollerInv
<1>9. 1 .. r_polled' \subseteq Handed' \cup ToSet(poller'.records) \cup ToSet(r_backup')
  BY <1>3, <1>5, <1>6, <1>7 DEF PollerInv
<1>10. r_backup' \in Seq(Nat) /\ Len(poller'.records) <= RelayLines
  BY <1>3, <1>5, <1>6, <1>2 DEF PollerInv
<1>11. \A i \in 1 .. poller'.sent : FALSE
  BY <1>5
<1>12. poller'.sent <= Len(poller'.records) /\ poller'.sent <= Len(r_backup') + RelayLines
  BY <1>3, <1>5, <1>6, <1>8, <1>2
<1> QED BY <1>5, <1>6, <1>9, <1>10, <1>11, <1>12 DEF PollerInv

LEMMA DrainNextKeeps ==
  ASSUME R!RelayAssumption, PollerInv, queue \in Seq(Nat), R!DrainNext
  PROVE  PollerInv' /\ queue' \in Seq(Nat)
<1>1. /\ poller.sent \in Nat /\ r_backup \in Seq(Nat) /\ poller.sent < Len(r_backup)
      /\ poller' = [poller EXCEPT !.sent = @ + 1]
      /\ UNCHANGED <<r_backup, r_polled, r_lost, r_durable, expired, unacked>>
      /\ queue' = Append(queue, r_backup[poller.sent + 1])
      /\ poller.at \in {"draining", "starting"}
  BY DEF R!DrainNext, R!PollerChanges, R!PollerOnly, PollerInv, Poller
<1>2. r_backup[poller.sent + 1] \in Nat /\ poller.sent + 1 <= Len(r_backup)
  BY <1>1, NextRecord
<1>3. queue' \in Seq(Nat) /\ r_backup[poller.sent + 1] \in Handed' /\ Handed \subseteq Handed'
  BY <1>1, <1>2, HandsOver
<1>4. /\ poller' \in Poller /\ poller'.sent = poller.sent + 1
      /\ poller'.at = poller.at /\ poller'.records = poller.records
  <2> DEFINE k == poller.sent + 1
  <2>1. poller \in Poller /\ k \in Nat
    BY <1>1 DEF PollerInv
  <2>2. poller' = [poller EXCEPT !.sent = k]
    BY <1>1
  <2> HIDE DEF k
  <2>3. /\ poller' \in Poller /\ poller'.sent = k
        /\ poller'.at = poller.at /\ poller'.records = poller.records
    BY <2>1, <2>2 DEF Poller
  <2> QED BY <2>3 DEF k
<1>5. \A i \in 1 .. poller.sent + 1 : r_backup[i] \in Handed'
  <2>1. \A i \in 1 .. poller.sent + 1 : i \in 1 .. poller.sent \/ i = poller.sent + 1
    BY <1>1
  <2> QED BY <1>1, <1>3, <2>1 DEF PollerInv
<1>6. Len(r_backup) \in Nat /\ RelayLines \in Nat
  BY <1>1, LenProperties DEF R!RelayAssumption
<1>7. /\ 1 .. r_polled' \subseteq Handed' \cup ToSet(poller'.records) \cup ToSet(r_backup')
      /\ poller'.at \in {"waiting", "starting", "down"} => poller'.records = <<>>
      /\ Len(poller'.records) <= RelayLines
  BY <1>1, <1>3, <1>4 DEF PollerInv
<1>8. poller'.sent <= Len(r_backup') /\ poller'.sent <= Len(r_backup') + RelayLines
  BY <1>1, <1>2, <1>4, <1>6
<1>9. \A i \in 1 .. poller'.sent : r_backup'[i] \in Handed'
  BY <1>1, <1>4, <1>5
<1>10. r_backup' \in Seq(Nat) /\ r_polled' \in Nat
  BY <1>1 DEF PollerInv
<1> QED BY <1>1, <1>3, <1>4, <1>7, <1>8, <1>9, <1>10 DEF PollerInv

LEMMA PublishNextKeeps ==
  ASSUME R!RelayAssumption, PollerInv, queue \in Seq(Nat), R!PublishNext
  PROVE  PollerInv' /\ queue' \in Seq(Nat)
<1> DEFINE rs == poller.records
<1>1. /\ poller.sent \in Nat /\ rs \in Seq(Nat) /\ poller.sent < Len(rs)
      /\ poller' = [poller EXCEPT !.sent = @ + 1]
      /\ UNCHANGED <<r_backup, r_polled, r_lost, r_durable, expired, unacked>>
      /\ queue' = Append(queue, rs[poller.sent + 1])
      /\ poller.at = "publishing" /\ r_backup \in Seq(Nat)
  BY DEF R!PublishNext, R!PollerChanges, R!PollerOnly, PollerInv, Poller
<1>2. rs[poller.sent + 1] \in Nat /\ poller.sent + 1 <= Len(rs)
  BY <1>1, NextRecord
<1>3. queue' \in Seq(Nat) /\ rs[poller.sent + 1] \in Handed' /\ Handed \subseteq Handed'
  BY <1>1, <1>2, HandsOver
<1>4. /\ poller' \in Poller /\ poller'.sent = poller.sent + 1
      /\ poller'.at = poller.at /\ poller'.records = rs
  <2> DEFINE k == poller.sent + 1
  <2>1. poller \in Poller /\ k \in Nat
    BY <1>1 DEF PollerInv
  <2>2. poller' = [poller EXCEPT !.sent = k]
    BY <1>1
  <2> HIDE DEF k
  <2>3. /\ poller' \in Poller /\ poller'.sent = k
        /\ poller'.at = poller.at /\ poller'.records = poller.records
    BY <2>1, <2>2 DEF Poller
  <2> QED BY <2>3 DEF k
<1>5. \A i \in 1 .. poller.sent + 1 : rs[i] \in Handed'
  <2>1. \A i \in 1 .. poller.sent + 1 : i \in 1 .. poller.sent \/ i = poller.sent + 1
    BY <1>1
  <2> QED BY <1>1, <1>3, <2>1 DEF PollerInv
<1>6. Len(r_backup) \in Nat /\ RelayLines \in Nat /\ Len(rs) \in Nat
  BY <1>1, LenProperties DEF R!RelayAssumption
<1>7. Len(rs) <= RelayLines
  BY DEF PollerInv
<1>8. /\ 1 .. r_polled' \subseteq Handed' \cup ToSet(poller'.records) \cup ToSet(r_backup')
      /\ Len(poller'.records) <= RelayLines
  BY <1>1, <1>3, <1>4 DEF PollerInv
<1>9. poller'.sent <= Len(poller'.records) /\ poller'.sent <= Len(r_backup') + RelayLines
  BY <1>1, <1>2, <1>4, <1>6, <1>7
<1>10. \A i \in 1 .. poller'.sent : (poller'.records)[i] \in Handed'
  BY <1>1, <1>4, <1>5
<1>11. r_backup' \in Seq(Nat) /\ r_polled' \in Nat
  BY <1>1 DEF PollerInv
<1> QED BY <1>1, <1>3, <1>4, <1>8, <1>9, <1>10, <1>11 DEF PollerInv

(* What was sent in full was handed over. *)
LEMMA AllSent ==
  ASSUME NEW s \in Seq(Nat), NEW n, n = Len(s), \A i \in 1 .. n : s[i] \in Handed
  PROVE  ToSet(s) \subseteq Handed
BY LenProperties DEF ToSet

LEMMA DrainEndsKeeps ==
  ASSUME R!RelayAssumption, PollerInv, R!DrainEnds
  PROVE  PollerInv'
<1>1. /\ r_backup' = <<>> /\ poller.at \in {"draining", "starting"} /\ poller.sent = Len(r_backup)
      /\ UNCHANGED <<r_polled, queue, r_lost, r_durable, expired, unacked>>
      /\ poller' \in Poller /\ poller'.sent = 0 /\ poller'.records = poller.records
      /\ poller'.at = IF poller.at = "starting" THEN "waiting" ELSE "publishing"
  BY DEF R!DrainEnds, R!Drained, R!PollerChanges, R!PollerOnly, PollerInv, Poller
<1>2. Handed' = Handed /\ ToSet(r_backup) \subseteq Handed
  BY <1>1, AllSent DEF Handed, PollerInv
<1>3. Len(poller.records) \in Nat /\ RelayLines \in Nat
  BY LenProperties DEF R!RelayAssumption, PollerInv, Poller
<1> QED BY <1>1, <1>2, <1>3, EmptyHolds DEF PollerInv

LEMMA PublishEndsKeeps ==
  ASSUME R!RelayAssumption, PollerInv, R!PublishEnds
  PROVE  PollerInv'
<1>1. /\ poller.at = "publishing" /\ poller.sent = Len(poller.records)
      /\ UNCHANGED <<r_backup, r_polled, queue, r_lost, r_durable, expired, unacked>>
      /\ poller' \in Poller /\ poller'.sent = 0 /\ poller'.records = <<>>
      /\ poller'.at = "waiting" /\ poller.records \in Seq(Nat)
  BY EmptyHolds DEF R!PublishEnds, R!PollerChanges, R!PollerOnly, PollerInv, Poller
<1>2. Handed' = Handed /\ ToSet(poller.records) \subseteq Handed
  BY <1>1, AllSent DEF Handed, PollerInv
<1>3. Len(r_backup) \in Nat /\ RelayLines \in Nat
  BY LenProperties DEF R!RelayAssumption, PollerInv
<1> QED BY <1>1, <1>2, <1>3, EmptyHolds DEF PollerInv

(* A poll that is given up, knowingly. *)
LEMMA PollIsLost ==
  ASSUME R!RelayAssumption, PollerInv, poller' \in Poller, poller'.records = <<>>,
         r_lost' = r_lost \cup ToSet(poller.records),
         \/ poller'.at = "waiting" /\ poller'.sent = 0
         \/ poller'.at = "down" /\ poller'.sent = poller.sent,
         UNCHANGED <<r_backup, r_polled, queue, r_durable, expired, unacked>>
  PROVE  PollerInv'
<1>1. Handed' = Handed \cup ToSet(poller.records)
  BY DEF Handed
<1>2. Len(r_backup) \in Nat /\ RelayLines \in Nat
  BY LenProperties DEF R!RelayAssumption, PollerInv
<1> QED BY <1>1, <1>2, EmptyHolds DEF PollerInv

LEMMA PollerKeeps ==
  ASSUME R!RelayAssumption, PollerInv, queue \in Seq(Nat),
         \/ R!PollLines \/ R!Connect \/ R!ConnectFails \/ R!DrainNext \/ R!DrainFails
         \/ R!DrainEnds \/ R!DrainUnreadable \/ R!PublishNext \/ R!PublishFails
         \/ R!PublishRaises \/ R!PublishEnds \/ R!PollerStops \/ R!PollerStarts
  PROVE  PollerInv' /\ queue' \in Seq(Nat) /\ UNCHANGED <<agent, unacked, r_durable, expired>>
<1>1. UNCHANGED <<agent, unacked, r_durable, expired>>
  BY DEF R!PollLines, R!Connect, R!ConnectFails, R!DrainNext, R!DrainFails, R!DrainEnds,
         R!DrainUnreadable, R!PublishNext, R!PublishFails, R!PublishRaises, R!PublishEnds,
         R!PollerStops, R!PollerStarts, R!PollerChanges, R!PollerOnly
<1>2. /\ poller \in Poller /\ poller.sent \in Nat /\ poller.records \in Seq(Nat)
      /\ r_backup \in Seq(Nat) /\ Len(r_backup) \in Nat /\ RelayLines \in Nat
  BY LenProperties DEF R!RelayAssumption, PollerInv, Poller
<1>3. CASE R!PollLines
  BY <1>1, <1>3, RelayPollKeeps DEF R!PollLines
<1>4. CASE R!Connect
  <2>1. /\ poller' \in Poller /\ poller'.sent = 0 /\ poller'.at = "draining"
        /\ poller'.records = poller.records /\ UNCHANGED <<r_backup, r_polled, queue, r_lost>>
    BY <1>2, <1>4 DEF R!Connect, Poller
  <2>2. Handed' = Handed
    BY <1>1, <2>1 DEF Handed
  <2> QED BY <1>1, <1>2, <2>1, <2>2 DEF PollerInv
<1>5. CASE R!ConnectFails
  BY <1>1, <1>5, SavesKeeps DEF R!ConnectFails
<1>6. CASE R!DrainNext
  BY <1>1, <1>6, DrainNextKeeps
<1>7. CASE R!DrainFails
  <2>1. r_backup[poller.sent + 1] \in Nat
    BY <1>2, <1>7, NextRecord DEF R!DrainFails
  <2>2. queue' \in Seq(Nat) /\ ToSet(queue) \subseteq ToSet(queue')
    BY <1>7, <2>1, Arrived DEF R!DrainFails
  <2>3. CASE poller.at = "draining"
    BY <1>1, <1>7, <2>2, <2>3, SavesKeeps DEF R!DrainFails
  <2>4. CASE poller.at = "starting"
    <3>1. /\ poller' \in Poller /\ poller'.at = "down" /\ poller'.sent = poller.sent
          /\ poller'.records = poller.records /\ UNCHANGED <<r_backup, r_lost, r_polled>>
      BY <1>2, <1>7, <2>4 DEF R!DrainFails, Poller
    <3>2. Handed \subseteq Handed'
      BY <1>1, <2>2, <3>1 DEF Handed
    <3> QED BY <1>1, <2>2, <2>4, <3>1, <3>2 DEF PollerInv
  <2> QED BY <1>7, <2>3, <2>4 DEF R!DrainFails
<1>8. CASE R!DrainEnds
  BY <1>1, <1>8, DrainEndsKeeps DEF R!DrainEnds
<1>9. CASE R!DrainUnreadable
  <2>1. /\ poller' \in Poller /\ poller'.sent = 0 /\ poller'.records = poller.records
        /\ poller'.at = IF poller.at = "starting" THEN "waiting" ELSE "publishing"
        /\ UNCHANGED <<r_backup, r_polled, queue, r_lost>>
    BY <1>2, <1>9 DEF R!DrainUnreadable, R!Drained, Poller
  <2>2. Handed' = Handed
    BY <1>1, <2>1 DEF Handed
  <2>3. Len(poller.records) \in Nat
    BY <1>2, LenProperties
  <2> QED BY <1>1, <1>2, <1>9, <2>1, <2>2, <2>3 DEF PollerInv, R!DrainUnreadable
<1>10. CASE R!PublishNext
  BY <1>1, <1>10, PublishNextKeeps
<1>11. CASE R!PublishFails
  <2>1. poller.records[poller.sent + 1] \in Nat
    BY <1>2, <1>11, NextRecord DEF R!PublishFails
  <2>2. queue' \in Seq(Nat) /\ ToSet(queue) \subseteq ToSet(queue')
    BY <1>11, <2>1, Arrived DEF R!PublishFails
  <2> QED BY <1>1, <1>11, <2>2, SavesKeeps DEF R!PublishFails
<1>12. CASE R!PublishRaises
  <2>1. /\ poller' \in Poller /\ poller'.at = "waiting" /\ poller'.sent = 0
        /\ poller'.records = <<>> /\ r_lost' = r_lost \cup ToSet(poller.records)
        /\ UNCHANGED <<r_backup, queue, r_polled>>
    BY <1>2, <1>12, RelaySets, EmptyHolds DEF R!PublishRaises, Poller
  <2> QED BY <1>1, <2>1, PollIsLost
<1>13. CASE R!PublishEnds
  BY <1>1, <1>13, PublishEndsKeeps DEF R!PublishEnds
<1>14. CASE R!PollerStops
  <2>1. /\ poller' \in Poller /\ poller'.at = "down" /\ poller'.sent = poller.sent
        /\ poller'.records = <<>> /\ r_lost' = r_lost \cup ToSet(poller.records)
        /\ UNCHANGED <<r_backup, queue, r_polled>>
    BY <1>2, <1>14, RelaySets, EmptyHolds DEF R!PollerStops, Poller
  <2> QED BY <1>1, <2>1, PollIsLost
<1>15. CASE R!PollerStarts
  <2>1. /\ poller' \in Poller /\ poller'.at = "starting" /\ poller'.sent = 0
        /\ poller'.records = <<>> /\ poller.records = <<>>
        /\ UNCHANGED <<r_backup, queue, r_polled, r_lost>>
    BY <1>15, EmptyHolds DEF R!PollerStarts, Poller, PollerInv
  <2>2. Handed' = Handed
    BY <1>1, <2>1 DEF Handed
  <2> QED BY <1>1, <1>2, <2>1, <2>2, EmptyHolds DEF PollerInv
<1> QED BY <1>3, <1>4, <1>5, <1>6, <1>7, <1>8, <1>9, <1>10, <1>11, <1>12, <1>13, <1>14, <1>15

(* The steps of the agent and of the broker: nothing that was handed over  *)
(* gets out of their hands.                                                *)
LEMMA AgentTypes ==
  ASSUME AgentInv
  PROVE  /\ agent \in Agent /\ agent.messages \in Seq(Nat) /\ Len(agent.messages) \in Nat
         /\ R!Batchless \in Agent /\ R!Batchless.messages = <<>>
         /\ R!Batchless.at = "draining" /\ R!Batchless.connected = agent.connected
         /\ [R!Batchless EXCEPT !.connected = TRUE] \in Agent
         /\ [R!Batchless EXCEPT !.at = "down"] \in Agent
<1>1. agent \in Agent
  BY DEF AgentInv
<1>2. agent.messages \in Seq(Nat) /\ Len(agent.messages) \in Nat
  BY <1>1, LenProperties DEF Agent
<1>3. /\ R!Batchless \in Agent /\ R!Batchless.messages = <<>>
      /\ R!Batchless.at = "draining" /\ R!Batchless.connected = agent.connected
  BY <1>1, EmptyHolds DEF R!Batchless, Agent
<1>4. ASSUME NEW b \in Agent
      PROVE  [b EXCEPT !.connected = TRUE] \in Agent /\ [b EXCEPT !.at = "down"] \in Agent
  BY DEF Agent
<1> QED BY <1>1, <1>2, <1>3, <1>4

LEMMA RequeueHolds ==
  ASSUME AgentInv, queue' = unacked \o queue, unacked' = <<>>,
         UNCHANGED <<r_durable, r_lost, expired>>
  PROVE  queue' \in Seq(Nat) /\ unacked' \in Seq(Nat) /\ Handed' = Handed
BY ConcatHolds, EmptyHolds DEF AgentInv, Handed

LEMMA GetKeeps ==
  ASSUME AgentInv, R!RelayAssumption, R!Get
  PROVE  AgentInv' /\ Handed \subseteq Handed'
<1>1. /\ agent.connected /\ Len(agent.messages) < RelayBatch /\ queue # <<>>
      /\ agent' = [agent EXCEPT !.messages = Append(@, Head(queue))]
      /\ unacked' = Append(unacked, Head(queue)) /\ queue' = Tail(queue)
      /\ UNCHANGED <<r_durable, r_lost, expired>> /\ agent.at = "draining"
  BY DEF R!Get, R!AgentChanges
<1>2. /\ Head(queue) \in Nat /\ Tail(queue) \in Seq(Nat)
      /\ ToSet(queue) = {Head(queue)} \cup ToSet(Tail(queue))
  BY <1>1, HeadTailHolds DEF AgentInv
<1>3. /\ Append(unacked, Head(queue)) \in Seq(Nat) /\ unacked = agent.messages
      /\ ToSet(Append(unacked, Head(queue))) = ToSet(unacked) \cup {Head(queue)}
      /\ Len(Append(unacked, Head(queue))) = Len(unacked) + 1
  BY <1>1, <1>2, AppendHolds, AppendProperties DEF AgentInv
<1>4. /\ agent' \in Agent /\ agent'.messages = unacked' /\ agent'.connected
      /\ agent'.at = "draining"
  BY <1>1, <1>3, AgentTypes DEF Agent
<1>5. Len(unacked') <= RelayBatch
  BY <1>1, <1>3, AgentTypes DEF R!RelayAssumption
<1> QED BY <1>1, <1>2, <1>3, <1>4, <1>5 DEF AgentInv, Handed

(* A batch that ZeroBus may have stored is in hand as before.              *)
LEMMA IngestKeeps ==
  ASSUME AgentInv, R!IngestBatch \/ R!IngestFails
  PROVE  AgentInv' /\ Handed \subseteq Handed'
<1>1. /\ r_durable \subseteq r_durable' /\ UNCHANGED <<queue, unacked, r_lost, expired>>
      /\ agent.at = "ingesting"
  BY DEF R!IngestBatch, R!IngestFails, R!AgentChanges
<1>2. /\ agent' \in Agent /\ agent'.messages = agent.messages
      /\ agent'.connected = agent.connected /\ agent'.at # "down"
      /\ agent'.at = "acking" => ToSet(agent.messages) \subseteq r_durable'
  <2>1. CASE R!IngestBatch
    BY <2>1, AgentTypes, RelaySets DEF R!IngestBatch, Agent
  <2>2. CASE R!IngestFails
    <3>1. CASE agent' = [agent EXCEPT !.attempt = @ + 1]
      <4> DEFINE k == agent.attempt + 1
      <4>1. k \in Nat /\ agent \in Agent
        BY AgentTypes DEF Agent
      <4>2. agent' = [agent EXCEPT !.attempt = k]
        BY <3>1
      <4> HIDE DEF k
      <4> QED BY <1>1, <4>1, <4>2 DEF Agent
    <3>2. CASE agent' = [agent EXCEPT !.at = "nacking"]
      BY <3>2, AgentTypes DEF Agent
    <3> QED BY <2>2, <3>1, <3>2 DEF R!IngestFails
  <2> QED BY <2>1, <2>2
<1> QED BY <1>1, <1>2 DEF AgentInv, Handed

LEMMA AgentKeeps ==
  ASSUME AgentInv, R!RelayAssumption,
         \/ R!Get \/ R!BatchDrained \/ R!IngestBatch \/ R!IngestFails \/ R!Ack \/ R!Nack
         \/ R!ConnectionLost \/ R!Reconnect \/ R!AgentStops \/ R!AgentStarts \/ R!Expire
  PROVE  AgentInv' /\ Handed \subseteq Handed' /\ UNCHANGED <<poller, r_backup, r_polled>>
<1>1. UNCHANGED <<poller, r_backup, r_polled, r_lost>>
  BY DEF R!Get, R!BatchDrained, R!IngestBatch, R!IngestFails, R!Ack, R!Nack,
         R!ConnectionLost, R!Reconnect, R!AgentStops, R!AgentStarts, R!Expire, R!AgentChanges
<1>2. 0 <= RelayBatch /\ Len(<<>>) = 0
  BY DEF R!RelayAssumption
<1>3. CASE R!Get
  BY <1>1, <1>3, GetKeeps
<1>4. CASE R!BatchDrained
  <2>1. /\ agent' \in Agent /\ agent'.messages = agent.messages /\ agent'.at = "ingesting"
        /\ agent'.connected = agent.connected
    BY <1>4, AgentTypes DEF R!BatchDrained, Agent
  <2> QED BY <1>1, <1>4, <2>1 DEF R!BatchDrained, AgentInv, Handed
<1>5. CASE R!IngestBatch \/ R!IngestFails
  BY <1>1, <1>5, IngestKeeps
<1>6. CASE R!Ack
  <2>1. ToSet(unacked) \subseteq r_durable
    BY <1>6 DEF R!Ack, AgentInv
  <2> QED BY <1>1, <1>2, <1>6, <2>1, AgentTypes, EmptyHolds DEF R!Ack, AgentInv, Handed
<1>7. CASE R!Nack
  <2>1. queue' \in Seq(Nat) /\ unacked' \in Seq(Nat) /\ Handed' = Handed
    BY <1>1, <1>7, RequeueHolds DEF R!Nack
  <2> QED BY <1>1, <1>2, <1>7, <2>1, AgentTypes DEF R!Nack, AgentInv
<1>8. CASE R!ConnectionLost
  <2>1. queue' \in Seq(Nat) /\ unacked' \in Seq(Nat) /\ Handed' = Handed
    BY <1>1, <1>8, RequeueHolds DEF R!ConnectionLost
  <2>2. /\ agent' \in Agent /\ agent'.messages = agent.messages /\ agent'.at = agent.at
        /\ ~agent'.connected
    BY <1>8, AgentTypes DEF R!ConnectionLost, Agent
  <2> QED BY <1>1, <1>8, <2>1, <2>2 DEF R!ConnectionLost, AgentInv
<1>9. CASE R!Reconnect
  <2>1. unacked = <<>>
    BY <1>9 DEF R!Reconnect, AgentInv
  <2>2. /\ agent' \in Agent /\ agent'.messages = <<>> /\ agent'.at = "draining"
        /\ agent'.connected
    BY <1>9, AgentTypes DEF R!Reconnect, Agent
  <2> QED BY <1>1, <1>2, <1>9, <2>1, <2>2 DEF R!Reconnect, AgentInv, Handed
<1>10. CASE R!AgentStops
  <2>1. queue' \in Seq(Nat) /\ unacked' \in Seq(Nat) /\ Handed' = Handed
    BY <1>1, <1>10, RequeueHolds DEF R!AgentStops
  <2>2. agent' \in Agent /\ agent'.messages = <<>> /\ agent'.at = "down"
    BY <1>10, AgentTypes DEF R!AgentStops, Agent
  <2> QED BY <1>1, <1>2, <1>10, <2>1, <2>2 DEF R!AgentStops, AgentInv
<1>11. CASE R!AgentStarts
  <2>1. unacked = <<>>
    BY <1>11 DEF R!AgentStarts, AgentInv
  <2>2. /\ agent' \in Agent /\ agent'.messages = <<>> /\ agent'.at = "draining"
        /\ agent'.connected
    BY <1>11, AgentTypes DEF R!AgentStarts, Agent
  <2> QED BY <1>1, <1>2, <1>11, <2>1, <2>2 DEF R!AgentStarts, AgentInv, Handed
<1>12. CASE R!Expire
  <2>1. Tail(queue) \in Seq(Nat) /\ ToSet(queue) = {Head(queue)} \cup ToSet(Tail(queue))
    BY <1>12, HeadTailHolds DEF R!Expire, AgentInv
  <2> QED BY <1>1, <1>12, <2>1 DEF R!Expire, AgentInv, Handed
<1> QED BY <1>3, <1>4, <1>5, <1>6, <1>7, <1>8, <1>9, <1>10, <1>11, <1>12

(* The inductive invariant of the two processes and the broker between     *)
(* them (example_clients/opcua_zerobus/advanced).                          *)
THEOREM RelayInvariant ==
  ASSUME R!RelayAssumption
  PROVE  R!Spec => []RelayInv
<1>1. R!Init => RelayInv
  <2> SUFFICES ASSUME R!Init PROVE RelayInv
    OBVIOUS
  <2>1. 0 <= RelayBatch /\ 0 <= RelayLines /\ Len(<<>>) = 0 /\ Len(<<>>) + RelayLines = RelayLines
    BY DEF R!RelayAssumption
  <2>2. AgentInv
    BY <2>1, EmptyHolds DEF R!Init, AgentInv, Agent
  <2>3. PollerInv
    BY <2>1, EmptyHolds DEF R!Init, PollerInv, Poller
  <2> QED BY <2>2, <2>3 DEF RelayInv
<1>2. RelayInv /\ [R!Next]_R!relayVars => RelayInv'
  <2> SUFFICES ASSUME RelayInv, [R!Next]_R!relayVars PROVE RelayInv'
    OBVIOUS
  <2>1. PollerInv /\ AgentInv /\ queue \in Seq(Nat)
    BY DEF RelayInv, AgentInv
  <2>2. CASE \/ R!PollLines \/ R!Connect \/ R!ConnectFails \/ R!DrainNext \/ R!DrainFails
             \/ R!DrainEnds \/ R!DrainUnreadable \/ R!PublishNext \/ R!PublishFails
             \/ R!PublishRaises \/ R!PublishEnds \/ R!PollerStops \/ R!PollerStarts
    <3>1. PollerInv' /\ queue' \in Seq(Nat) /\ UNCHANGED <<agent, unacked, r_durable, expired>>
      BY <2>1, <2>2, PollerKeeps
    <3> QED BY <2>1, <3>1 DEF RelayInv, AgentInv
  <2>3. CASE \/ R!Get \/ R!BatchDrained \/ R!IngestBatch \/ R!IngestFails \/ R!Ack \/ R!Nack
             \/ R!ConnectionLost \/ R!Reconnect \/ R!AgentStops \/ R!AgentStarts \/ R!Expire
    <3>1. AgentInv' /\ Handed \subseteq Handed' /\ UNCHANGED <<poller, r_backup, r_polled>>
      BY <2>1, <2>3, AgentKeeps
    <3>2. PollerInv'
      BY <2>1, <3>1, PollerStays
    <3> QED BY <3>1, <3>2 DEF RelayInv
  <2>4. CASE UNCHANGED R!relayVars
    <3>1. UNCHANGED <<poller, agent, r_backup, queue, unacked, r_durable, r_polled, r_lost, expired>>
      BY <2>4 DEF R!relayVars
    <3> QED BY <2>1, <3>1 DEF RelayInv, PollerInv, AgentInv, Handed
  <2> QED BY <2>2, <2>3, <2>4 DEF R!Next
<1> QED BY <1>1, <1>2, PTL DEF R!Spec

(* Whatever fails between, the backup is not truncated before RabbitMQ has   *)
(* all of it, and no batch is acknowledged before ZeroBus has it           *)
(* (opcua_client.py, forwarding_agent.py).                                 *)
THEOREM RelayCorrect ==
  ASSUME R!RelayAssumption
  PROVE  R!Spec => []R!RelaySound
<1>1. RelayInv => R!TypeOK
  BY DEF RelayInv, PollerInv, AgentInv, Poller, Agent, R!TypeOK
<1>2. RelayInv => R!NothingVanishes
  <2> SUFFICES ASSUME RelayInv, NEW r \in 1 .. r_polled
               PROVE  \/ r \in r_durable \cup r_lost \cup expired
                      \/ \E list \in {poller.records, r_backup, queue, unacked} :
                           R!Contains(list, r)
    BY DEF R!NothingVanishes
  <2>1. r \in Handed \cup ToSet(poller.records) \cup ToSet(r_backup)
    BY DEF RelayInv, PollerInv
  <2> QED BY <2>1, RelaySets DEF Handed
<1> QED BY <1>1, <1>2, RelayInvariant, PTL DEF R!RelaySound

-----------------------------------------------------------------------------
(* Weather                                                                 *)

(* What a full turn more leaves of an angle. *)
LEMMA Turns ==
  ASSUME NEW N \in Nat \ {0}, NEW x \in Int, NEW y \in Int, NEW k \in Int, x = y + k * N
  PROVE  x % N = y % N
<1>1. /\ x % N \in 0 .. N - 1 /\ x = (x % N) + (x \div N) * N /\ x \div N \in Int
      /\ y % N \in 0 .. N - 1 /\ y = (y % N) + (y \div N) * N /\ y \div N \in Int
  OBVIOUS
<1> DEFINE r == x % N
           q == x \div N
           s == y % N
           p == y \div N
           m == p + k - q
<1>2. /\ r \in Int /\ 0 <= r /\ r < N /\ s \in Int /\ 0 <= s /\ s < N
      /\ x = r + q * N /\ y = s + p * N /\ q \in Int /\ p \in Int /\ m \in Int
  BY <1>1
<1> HIDE DEF r, q, s, p
<1>3. r - s = m * N
  BY <1>2, SMTT(30)
<1> HIDE DEF m
<1>4. m = 0
  <2>1. CASE m >= 1
    <3>1. m * N >= N
      BY <1>2, <2>1, SMTT(30)
    <3> QED BY <1>2, <1>3, <3>1
  <2>2. CASE m <= -1
    <3>1. m * N <= -N
      BY <1>2, <2>2, SMTT(30)
    <3> QED BY <1>2, <1>3, <3>1
  <2> QED BY <1>2, <2>1, <2>2
<1>5. r = s
  BY <1>2, <1>3, <1>4
<1> QED BY <1>5 DEF r, s

(* An angle on the circle, and one that is a little to the left of north. *)
LEMMA Wrap ==
  ASSUME NEW N \in Nat \ {0}, NEW x \in Int
  PROVE  /\ x % N \in 0 .. N - 1
         /\ \E k \in Int : x % N = x + k * N
         /\ 0 <= x /\ x < N => x % N = x
         /\ -N <= x /\ x < 0 => x % N = x + N
<1>1. x % N \in 0 .. N - 1 /\ x = (x % N) + (x \div N) * N /\ x \div N \in Int
  OBVIOUS
<1> DEFINE r == x % N
           q == x \div N
<1>2. r \in Int /\ q \in Int /\ 0 <= r /\ r < N /\ x = r + q * N
  BY <1>1
<1> HIDE DEF r, q
<1>3. 0 <= x /\ x < N => q = 0
  BY <1>2, SMTT(30)
<1>4. -N <= x /\ x < 0 => q = -1
  BY <1>2, SMTT(30)
<1>5. \E k \in Int : r = x + k * N
  <2>1. -q \in Int /\ r = x + (-q) * N
    BY <1>2
  <2> QED BY <2>1
<1> QED BY <1>1, <1>2, <1>3, <1>4, <1>5 DEF r

(* The way from one direction to another, for less than half a turn. *)
LEMMA WayBetween ==
  ASSUME Circle \in Nat \ {0}, NEW x \in Int, NEW y \in Int, NEW d \in Int, NEW k \in Int,
         x - y = d + k * Circle, 2 * d < Circle, -2 * d < Circle
  PROVE  W!Offset(x, y) = d /\ W!Distance(x, y) = IF d < 0 THEN -d ELSE d
<1>1. (x - y) % Circle = d % Circle
  <2> DEFINE u == x - y
  <2>1. u \in Int /\ u = d + k * Circle
    OBVIOUS
  <2> HIDE DEF u
  <2>2. u % Circle = d % Circle
    BY <2>1, Turns
  <2> QED BY <2>2 DEF u
<1>2. (x - y) % Circle = IF d < 0 THEN d + Circle ELSE d
  <2>1. -Circle <= d /\ d < Circle
    OBVIOUS
  <2>2. /\ 0 <= d /\ d < Circle => d % Circle = d
        /\ -Circle <= d /\ d < 0 => d % Circle = d + Circle
    BY Wrap
  <2> QED BY <1>1, <2>1, <2>2
<1> DEFINE e == (x - y) % Circle
<1>3. W!Offset(x, y) = (IF e > Circle \div 2 THEN e - Circle ELSE e)
      /\ W!Distance(x, y) = (IF e > Circle \div 2 THEN Circle - e ELSE e)
  BY DEF W!Offset, W!Distance
<1>4. e = IF d < 0 THEN d + Circle ELSE d
  BY <1>2
<1> HIDE DEF e
<1>5. e > Circle \div 2 <=> d < 0
  BY <1>4
<1> QED BY <1>3, <1>4, <1>5

(* Directions by how far they are from the base. *)
Off(a) == (Base + a) % Circle

LEMMA OffFacts ==
  ASSUME W!WeatherAssumption, NEW a \in Int
  PROVE  /\ Off(a) \in 0 .. Circle - 1
         /\ \E k \in Int : Off(a) = Base + a + k * Circle
         /\ \A c \in Int : (Off(a) + c) % Circle = Off(a + c)
<1>1. Circle \in Nat \ {0} /\ Base \in Int
  BY DEF W!WeatherAssumption
<1> DEFINE u == Base + a
<1>0. u \in Int /\ Off(a) = u % Circle
  BY <1>1 DEF Off
<1>2. PICK k \in Int : Off(a) = Base + a + k * Circle
  <2> HIDE DEF u
  <2>1. \E k \in Int : u % Circle = u + k * Circle
    BY <1>0, <1>1, Wrap
  <2> QED BY <1>0, <2>1 DEF u
<1>3. Off(a) \in 0 .. Circle - 1
  <2> HIDE DEF u
  <2> QED BY <1>0, <1>1, Wrap
<1>4. ASSUME NEW c \in Int PROVE (Off(a) + c) % Circle = Off(a + c)
  <2>1. Off(a) + c = (Base + (a + c)) + k * Circle
    BY <1>1, <1>2, <1>3
  <2> DEFINE v == Off(a) + c
             w == Base + (a + c)
  <2>2. v \in Int /\ w \in Int /\ v = w + k * Circle
    BY <1>1, <1>3, <2>1
  <2>3. Off(a + c) = w % Circle
    BY DEF Off
  <2> HIDE DEF v, w
  <2>4. v % Circle = w % Circle
    BY <1>1, <2>2, Turns
  <2> QED BY <2>3, <2>4 DEF v
<1> QED BY <1>2, <1>3, <1>4

LEMMA OffBetween ==
  ASSUME W!WeatherAssumption, NEW a \in Int, NEW b \in Int,
         2 * (b - a) < Circle, 2 * (a - b) < Circle
  PROVE  W!Offset(Off(b), Off(a)) = b - a
<1>1. Circle \in Nat \ {0} /\ Base \in Int
  BY DEF W!WeatherAssumption
<1>2. /\ Off(a) \in 0 .. Circle - 1 /\ \E k \in Int : Off(a) = Base + a + k * Circle
      /\ Off(b) \in 0 .. Circle - 1 /\ \E k \in Int : Off(b) = Base + b + k * Circle
  BY OffFacts
<1>3. PICK k \in Int : Off(a) = Base + a + k * Circle
  BY <1>2
<1>4. PICK m \in Int : Off(b) = Base + b + m * Circle
  BY <1>2
<1>5. Off(b) - Off(a) = (b - a) + (m - k) * Circle
  BY <1>1, <1>3, <1>4, SMTT(30)
<1>6. Off(a) \in Int /\ Off(b) \in Int /\ b - a \in Int /\ m - k \in Int /\ -2 * (b - a) < Circle
  BY <1>1, <1>2
<1> QED BY <1>1, <1>5, <1>6, WayBetween

LEMMA OffFromBase ==
  ASSUME W!WeatherAssumption, NEW a \in Int, NEW c \in Int,
         2 * (a + c) < Circle, -2 * (a + c) < Circle
  PROVE  /\ W!Offset(Off(a) + c, Base) = a + c
         /\ W!Distance(Off(a) + c, Base) = IF a + c < 0 THEN -(a + c) ELSE a + c
<1>1. Circle \in Nat \ {0} /\ Base \in Int
  BY DEF W!WeatherAssumption
<1>2. PICK k \in Int : Off(a) = Base + a + k * Circle
  BY OffFacts
<1>3. Off(a) \in Int
  BY OffFacts
<1>4. Off(a) + c - Base = (a + c) + k * Circle
  BY <1>1, <1>2
<1> DEFINE x == Off(a) + c
           d == a + c
<1>5. /\ x \in Int /\ d \in Int /\ x - Base = d + k * Circle
      /\ 2 * d < Circle /\ -2 * d < Circle
  BY <1>1, <1>3, <1>4
<1> HIDE DEF x, d
<1>6. W!Offset(x, Base) = d /\ W!Distance(x, Base) = IF d < 0 THEN -d ELSE d
  BY <1>1, <1>5, WayBetween
<1> QED BY <1>6 DEF x, d

Speeds == MinSpeed .. MaxSpeed
Turned == -Variation .. Variation

(* From one direction of the band to another it is less than half a turn.  *)
Heading(from, to) ==
  \E a \in Turned, b \in Turned :
    from = Off(a) /\ to = Off(b) /\ 2 * (b - a) < Circle /\ 2 * (a - b) < Circle

(* A transition ends in the band and does not go the long way around, and  *)
(* a gust is between two speeds that the race is configured for.           *)
WindInv ==
  /\ W!TypeOK
  /\ speed \in Speeds
  /\ \E a \in Turned : direction = Off(a)
  /\ event = "stable" => inState < Stability
  /\ event \in W!Passages => target.speed \in Speeds /\ Heading(direction, target.direction)
  /\ event = "gust" => gust \in [since : Nat, base : Speeds, peak : Speeds]

LEMMA WindNumbers ==
  ASSUME W!WeatherAssumption
  PROVE  /\ Circle \in Nat /\ Circle > 0 /\ Base \in Nat /\ Variation \in Nat
         /\ 2 * Variation < Circle /\ MinSpeed \in Nat /\ MaxSpeed \in Nat
         /\ MinSpeed + 2 <= MaxSpeed /\ SpeedRate \in Nat /\ DirectionRate \in Nat
         /\ Stability \in Nat /\ Stability > 0 /\ TokenLife \in Nat /\ GustDuration \in Nat
BY DEF W!WeatherAssumption

LEMMA SpeedKeeps ==
  ASSUME W!WeatherAssumption, NEW s \in Speeds, NEW t \in Speeds
  PROVE  W!SpeedTowards(s, t) \in Speeds
<1>1. /\ MinSpeed \in Nat /\ MaxSpeed \in Nat /\ SpeedRate \in Nat
      /\ s \in Int /\ MinSpeed <= s /\ s <= MaxSpeed
      /\ t \in Int /\ MinSpeed <= t /\ t <= MaxSpeed
  BY WindNumbers DEF Speeds
<1>2. CASE t - s \in -SpeedRate .. SpeedRate
  <2>1. W!SpeedTowards(s, t) = t
    BY <1>2 DEF W!SpeedTowards
  <2> QED BY <2>1
<1>3. CASE ~(t - s \in -SpeedRate .. SpeedRate) /\ t > s
  <2>1. W!SpeedTowards(s, t) = s + SpeedRate
    BY <1>3 DEF W!SpeedTowards
  <2>2. t - s > SpeedRate
    BY <1>1, <1>3
  <2> QED BY <1>1, <2>1, <2>2 DEF Speeds
<1>4. CASE ~(t - s \in -SpeedRate .. SpeedRate) /\ ~(t > s)
  <2>1. W!SpeedTowards(s, t) = s - SpeedRate
    BY <1>4 DEF W!SpeedTowards
  <2>2. s - t > SpeedRate
    BY <1>1, <1>4
  <2> QED BY <1>1, <2>1, <2>2 DEF Speeds
<1> QED BY <1>2, <1>3, <1>4

LEMMA TurnKeeps ==
  ASSUME W!WeatherAssumption, NEW from, NEW to, Heading(from, to)
  PROVE  Heading(W!DirectionTowards(from, to), to)
<1>1. PICK a \in Turned, b \in Turned :
        from = Off(a) /\ to = Off(b) /\ 2 * (b - a) < Circle /\ 2 * (a - b) < Circle
  BY DEF Heading
<1>2. /\ a \in Int /\ b \in Int /\ -Variation <= a /\ a <= Variation
      /\ -Variation <= b /\ b <= Variation /\ Variation \in Nat
      /\ DirectionRate \in Nat /\ Circle \in Nat /\ Circle > 0
  BY WindNumbers DEF Turned
<1>3. W!Offset(to, from) = b - a
  BY <1>1, <1>2, OffBetween
<1>4. \A c \in Int : (Off(a) + c) % Circle = Off(a + c)
  BY <1>2, OffFacts
<1> DEFINE n == W!DirectionTowards(from, to)
<1>5. CASE b - a \in -DirectionRate .. DirectionRate
  <2>1. n = to
    BY <1>3, <1>5 DEF W!DirectionTowards
  <2>2. 2 * (b - b) < Circle
    BY <1>2
  <2> QED BY <1>1, <2>1, <2>2 DEF Heading
<1>6. CASE ~(b - a \in -DirectionRate .. DirectionRate) /\ b - a > 0
  <2> DEFINE c == a + DirectionRate
  <2>1. n = (from + DirectionRate) % Circle
    BY <1>3, <1>6 DEF W!DirectionTowards
  <2>2. n = Off(c)
    BY <1>1, <1>2, <1>4, <2>1
  <2>3. b - a > DirectionRate
    BY <1>2, <1>6
  <2>4. c \in Turned /\ 2 * (b - c) < Circle /\ 2 * (c - b) < Circle
    BY <1>1, <1>2, <2>3 DEF Turned
  <2> HIDE DEF c, n
  <2> QED BY <1>1, <2>2, <2>4 DEF Heading, n
<1>7. CASE ~(b - a \in -DirectionRate .. DirectionRate) /\ ~(b - a > 0)
  <2> DEFINE c == a - DirectionRate
             m == -DirectionRate
  <2>1. n = (from - DirectionRate) % Circle
    BY <1>3, <1>7 DEF W!DirectionTowards
  <2>2. m \in Int /\ from + m = from - DirectionRate /\ a + m = c
    <3>1. from \in Int
      BY <1>1, <1>2, OffFacts
    <3> QED BY <1>2, <3>1
  <2>3. n = Off(c)
    <3> HIDE DEF m, c, n
    <3> QED BY <1>1, <1>2, <1>4, <2>1, <2>2
  <2>4. a - b > DirectionRate
    BY <1>2, <1>7
  <2>5. c \in Turned /\ 2 * (b - c) < Circle /\ 2 * (c - b) < Circle
    BY <1>1, <1>2, <2>4 DEF Turned
  <2> HIDE DEF c, n
  <2> QED BY <1>1, <2>3, <2>5 DEF Heading, n
<1> QED BY <1>5, <1>6, <1>7

(* A new target is at most a shift away. *)
LEMMA ClampHeads ==
  ASSUME W!WeatherAssumption, NEW a \in Turned, NEW c \in W!EitherWay(Shifts)
  PROVE  Heading(Off(a), W!ClampTargetDirection(Off(a) + c))
<1>1. PICK s \in Shifts : c = s \/ c = -s
  BY DEF W!EitherWay
<1>2. /\ s \in Nat /\ 2 * (Variation + s) < Circle /\ Circle \in Nat /\ Variation \in Nat
      /\ a \in Int /\ -Variation <= a /\ a <= Variation
  BY WindNumbers DEF W!WeatherAssumption, Turned
<1>3. c \in Int /\ -s <= c /\ c <= s
  BY <1>1, <1>2
<1>4. W!Offset(Off(a) + c, Base) = a + c
  <2>1. 2 * (a + c) < Circle /\ -2 * (a + c) < Circle
    BY <1>2, <1>3
  <2> QED BY <1>2, <1>3, <2>1, OffFromBase
<1> DEFINE b == W!Within(-Variation, Variation, a + c)
<1>5. W!ClampTargetDirection(Off(a) + c) = Off(b)
  BY <1>4 DEF W!ClampTargetDirection, Off
<1>6. b \in Turned /\ b - a <= s /\ a - b <= s /\ b \in Int
  BY <1>2, <1>3 DEF W!Within, Turned
<1>7. 2 * (b - a) < Circle /\ 2 * (a - b) < Circle
  <2> HIDE DEF b
  <2> QED BY <1>2, <1>6
<1> HIDE DEF b
<1> QED BY <1>5, <1>6, <1>7 DEF Heading

LEMMA WindInit ==
  ASSUME W!WeatherAssumption, W!Init
  PROVE  WindInv
<1>1. PICK d \in -(Variation \div 2) .. Variation \div 2 : direction = (Base + d) % Circle
  BY DEF W!Init
<1>2. d \in Turned /\ direction = Off(d) /\ d \in Int
  BY <1>1, WindNumbers DEF Turned, Off
<1>3. direction \in 0 .. Circle - 1
  BY <1>2, OffFacts
<1>4. speed \in Speeds /\ 0 \in 0 .. Stability /\ 0 \in 0 .. TokenLife /\ 0 < Stability
  BY WindNumbers DEF W!Init, Speeds
<1> QED BY <1>2, <1>3, <1>4 DEF W!Init, WindInv, W!TypeOK, W!Passages

(* The record of the station leaves the wind as it is, and the token is    *)
(* used up step by step.                                                   *)
LEMMA TokenKeeps ==
  ASSUME W!WeatherAssumption, WindInv, W!Update
  PROVE  token' \in 0 .. TokenLife /\ due' \in BOOLEAN
<1>1. token \in 0 .. TokenLife /\ TokenLife \in Nat
  BY WindNumbers DEF WindInv, W!TypeOK
<1> QED BY <1>1 DEF W!Update, W!Older

LEMMA ShiftStarts ==
  ASSUME W!WeatherAssumption, WindInv, NEW p \in W!Passages,
         NEW d \in W!EitherWay(Shifts), NEW s \in W!EitherWay(SpeedChanges),
         W!StartShift(p, d, s)
  PROVE  WindInv'
<1>1. PICK a \in Turned : direction = Off(a)
  BY DEF WindInv
<1>2. Heading(direction, W!ClampTargetDirection(direction + d))
  BY <1>1, ClampHeads
<1>3. speed + s \in Int
  <2>1. s \in Int
    BY DEF W!EitherWay, W!WeatherAssumption
  <2>2. speed \in Int
    BY DEF WindInv, Speeds
  <2> QED BY <2>1, <2>2
<1>4. W!Within(MinSpeed, MaxSpeed, speed + s) \in Speeds
  <2> DEFINE x == speed + s
  <2> HIDE DEF x
  <2>1. x \in Int => W!Within(MinSpeed, MaxSpeed, x) \in Speeds
    BY WindNumbers DEF W!Within, Speeds
  <2> QED BY <1>3, <2>1 DEF x
<1>5. /\ target'.speed \in Speeds /\ target'.direction = W!ClampTargetDirection(direction + d)
      /\ event' = p /\ inState' = inState + 1 /\ UNCHANGED <<speed, direction, gust>>
  BY <1>4 DEF W!StartShift
<1>6. inState' \in 0 .. Stability
  BY WindNumbers DEF W!StartShift, WindInv, W!TypeOK
<1>7. W!TypeOK'
  <2>1. W!Update
    BY DEF W!StartShift
  <2> QED BY <1>5, <1>6, <2>1, TokenKeeps DEF WindInv, W!TypeOK
<1>8. p # "stable" /\ p # "gust"
  BY DEF W!Passages
<1>9. Heading(direction', target'.direction)
  BY <1>2, <1>5
<1> QED BY <1>1, <1>5, <1>7, <1>8, <1>9 DEF WindInv

LEMMA GustStarts ==
  ASSUME W!WeatherAssumption, WindInv, NEW i \in GustIncreases, W!StartSuddenGust(i)
  PROVE  WindInv'
<1>1. i \in Nat /\ speed \in Speeds /\ speed \in Nat /\ MaxSpeed \in Nat
  BY WindNumbers DEF W!WeatherAssumption, WindInv, Speeds
<1>2. (IF speed + i > MaxSpeed THEN MaxSpeed ELSE speed + i) \in Speeds
  BY <1>1, WindNumbers DEF Speeds
<1>3. /\ gust' \in [since : Nat, base : Speeds, peak : Speeds] /\ event' = "gust"
      /\ inState' = inState + 1 /\ UNCHANGED <<speed, direction, target>>
  BY <1>1, <1>2 DEF W!StartSuddenGust
<1>4. inState' \in 0 .. Stability
  BY WindNumbers DEF W!StartSuddenGust, WindInv, W!TypeOK
<1>5. W!TypeOK'
  <2>1. W!Update
    BY DEF W!StartSuddenGust
  <2> QED BY <1>3, <1>4, <2>1, TokenKeeps DEF WindInv, W!TypeOK
<1> QED BY <1>3, <1>5 DEF WindInv, W!Passages

LEMMA TransitionKeeps ==
  ASSUME W!WeatherAssumption, WindInv, W!UpdateTransition
  PROVE  WindInv'
<1>1. /\ W!Update /\ event \in W!Passages
      /\ speed' = W!SpeedTowards(speed, target.speed)
      /\ direction' = W!DirectionTowards(direction, target.direction)
      /\ \/ event' = "stable" /\ inState' = 0
         \/ UNCHANGED <<event, inState, target>>
  BY DEF W!UpdateTransition, W!Settle
<1>2. speed' \in Speeds
  BY <1>1, SpeedKeeps DEF WindInv
<1>3. Heading(direction', target.direction)
  BY <1>1, TurnKeeps DEF WindInv
<1>4. PICK a \in Turned : direction' = Off(a)
  BY <1>3 DEF Heading
<1>5. direction' \in 0 .. Circle - 1
  <2>1. a \in Int
    BY DEF Turned
  <2> QED BY <1>4, <2>1, OffFacts
<1>6. W!TypeOK'
  BY <1>1, <1>5, TokenKeeps, WindNumbers DEF WindInv, W!TypeOK
<1>7. CASE event' = "stable" /\ inState' = 0
  <2>1. inState' < Stability
    BY <1>7, WindNumbers
  <2> QED BY <1>2, <1>4, <1>6, <1>7, <2>1 DEF WindInv, W!Passages
<1>8. CASE UNCHANGED <<event, inState, target>>
  <2>1. event' # "stable" /\ event' # "gust"
    BY <1>1, <1>8 DEF W!Passages
  <2>2. target'.speed \in Speeds /\ target'.direction = target.direction
    BY <1>1, <1>8 DEF WindInv
  <2>3. Heading(direction', target'.direction)
    BY <1>3, <2>2
  <2> QED BY <1>2, <1>4, <1>6, <2>1, <2>2, <2>3 DEF WindInv, Heading
<1> QED BY <1>1, <1>7, <1>8

LEMMA GustKeeps ==
  ASSUME W!WeatherAssumption, WindInv, W!UpdateGust
  PROVE  WindInv'
<1>1. /\ W!Update /\ event = "gust" /\ UNCHANGED <<direction, target>>
      /\ gust \in [since : Nat, base : Speeds, peak : Speeds]
  BY DEF W!UpdateGust, WindInv
<1>2. PICK a \in Turned : direction' = Off(a)
  BY <1>1 DEF WindInv
<1>3. CASE speed' = gust.base /\ W!Settle
  <2>1. event' = "stable" /\ inState' = 0 /\ speed' \in Speeds
    BY <1>1, <1>3 DEF W!Settle
  <2>2. inState' < Stability /\ 0 \in 0 .. Stability
    BY <2>1, WindNumbers
  <2>3. W!TypeOK'
    BY <1>1, <2>1, <2>2, TokenKeeps DEF WindInv, W!TypeOK
  <2> QED BY <1>2, <2>1, <2>2, <2>3 DEF WindInv, W!Passages
<1>4. CASE /\ speed' \in gust.base .. gust.peak /\ gust' = [gust EXCEPT !.since = @ + 1]
           /\ UNCHANGED <<event, inState>>
  <2>1. speed' \in Speeds
    BY <1>1, <1>4, WindNumbers DEF Speeds
  <2>2. gust' \in [since : Nat, base : Speeds, peak : Speeds]
    BY <1>1, <1>4
  <2>3. W!TypeOK'
    BY <1>1, <1>4, TokenKeeps DEF WindInv, W!TypeOK
  <2> QED BY <1>1, <1>2, <1>4, <2>1, <2>2, <2>3 DEF WindInv, W!Passages
<1> QED BY <1>3, <1>4 DEF W!UpdateGust

LEMMA WindStays ==
  ASSUME W!WeatherAssumption, WindInv,
         token' \in 0 .. TokenLife, due' \in BOOLEAN, inState' \in 0 .. Stability,
         event = "stable" => inState' < Stability,
         UNCHANGED <<speed, direction, event, target, gust>>
  PROVE  WindInv'
BY DEF WindInv, W!TypeOK, Heading

(* Shifts end in the band and go the shorter way, and gusts do not add up  *)
(* with them (_start_*, _update_*_transition of Weather).                  *)
THEOREM WindInvariant ==
  ASSUME W!WeatherAssumption
  PROVE  W!Init /\ [][W!Next]_W!weatherVars => []WindInv
<1>1. W!Init => WindInv
  BY WindInit
<1>2. WindInv /\ [W!Next]_W!weatherVars => WindInv'
  <2> SUFFICES ASSUME WindInv, [W!Next]_W!weatherVars PROVE WindInv'
    OBVIOUS
  <2>1. token \in 0 .. TokenLife /\ due \in BOOLEAN /\ inState \in 0 .. Stability
        /\ (event = "stable" => inState < Stability)
    BY DEF WindInv, W!TypeOK
  <2>2. CASE W!Stays
    <3>1. inState' \in 0 .. Stability /\ inState' < Stability
      BY <2>1, <2>2, WindNumbers DEF W!Stays
    <3>2. W!Update /\ UNCHANGED <<speed, direction, event, target, gust>>
      BY <2>2 DEF W!Stays
    <3> QED BY <3>1, <3>2, TokenKeeps, WindStays
  <2>3. CASE \E p \in W!Passages, d \in W!EitherWay(Shifts), s \in W!EitherWay(SpeedChanges) :
               W!StartShift(p, d, s)
    BY <2>3, ShiftStarts
  <2>4. CASE \E i \in GustIncreases : W!StartSuddenGust(i)
    BY <2>4, GustStarts
  <2>5. CASE W!UpdateTransition
    BY <2>5, TransitionKeeps
  <2>6. CASE W!UpdateGust
    BY <2>6, GustKeeps
  <2>7. CASE W!NothingToEmit \/ W!Posts \/ W!PostFails
    <3>1. token' \in 0 .. TokenLife
      BY <2>1, <2>7, WindNumbers DEF W!NothingToEmit, W!Posts, W!PostFails
    <3>2. due' \in BOOLEAN /\ UNCHANGED <<speed, direction, event, inState, target, gust>>
      BY <2>7 DEF W!NothingToEmit, W!Posts, W!PostFails, W!EmitWeather
    <3> QED BY <2>1, <3>1, <3>2, WindStays
  <2>8. CASE UNCHANGED W!weatherVars
    BY <2>1, <2>8, WindStays DEF W!weatherVars
  <2> QED BY <2>2, <2>3, <2>4, <2>5, <2>6, <2>7, <2>8 DEF W!Next
<1> QED BY <1>1, <1>2, PTL

(* Through all shifts, gusts and turns over north the wind stays in the    *)
(* band that the race is configured for (_clamp_target_direction,          *)
(* _normalize_angle_difference of weather.py).                             *)
THEOREM WeatherCorrect ==
  ASSUME W!WeatherAssumption
  PROVE  W!Init /\ [][W!Next]_W!weatherVars => []W!WeatherSound
<1>1. WindInv => W!WeatherSound
  <2> SUFFICES ASSUME WindInv PROVE W!WeatherSound
    OBVIOUS
  <2>1. PICK a \in Turned : direction = Off(a)
    BY DEF WindInv
  <2>2. a \in Int /\ -Variation <= a /\ a <= Variation /\ 2 * Variation < Circle
        /\ Variation \in Nat /\ Circle \in Nat
    BY WindNumbers DEF Turned
  <2>3. W!Distance(Off(a) + 0, Base) = IF a + 0 < 0 THEN -(a + 0) ELSE a + 0
    <3>1. 2 * (a + 0) < Circle /\ -2 * (a + 0) < Circle /\ 0 \in Int
      BY <2>2
    <3> QED BY <2>2, <3>1, OffFromBase
  <2>4. Off(a) + 0 = Off(a)
    BY <2>2, OffFacts
  <2>5. W!Distance(direction, Base) <= Variation
    BY <2>1, <2>2, <2>3, <2>4
  <2> QED BY <2>5 DEF WindInv, W!WeatherSound, W!WindStaysInBand, Speeds
<1> QED BY <1>1, WindInvariant, PTL

-----------------------------------------------------------------------------
(* TagStream                                                               *)

Readings == T!Items \X (TagValues \cup {Nothing})

(* What the filter remembers of a variable with a path of its own is what  *)
(* the receiver has of it.                                                 *)
Remembers(m) ==
  /\ m.got \in [T!Items -> TagValues \cup {Nothing}]
  /\ \A p \in DOMAIN m.last : m.last[p] \in TagValues
  /\ \A i \in T!Items :
       T!Alone(i) /\ T!TagPath(i) \in DOMAIN m.last => m.last[T!TagPath(i)] = m.got[i]

Memory == [last |-> last, got |-> got]

(* A variable that a record was made of has its path in the memory. *)
FilesTags ==
  \A i \in T!Items :
    filed[i] # T!Unnamed => filed[i] = T!Tag(i) /\ T!TagPath(i) \in DOMAIN last

StreamInv == T!TypeOK /\ Remembers(Memory) /\ FilesTags

LEMMA FilterKeeps ==
  ASSUME NEW m, Remembers(m), NEW r \in Readings
  PROVE  LET n == T!Filter(m, r)
         IN  /\ Remembers(n)
             /\ DOMAIN m.last \subseteq DOMAIN n.last
             /\ r[2] # Nothing => T!TagPath(r[1]) \in DOMAIN n.last
<1> DEFINE n == T!Filter(m, r)
           i == r[1]
           v == r[2]
           p == T!TagPath(i)
<1>1. i \in T!Items /\ v \in TagValues \cup {Nothing}
  BY DEF Readings
<1>2. CASE v = Nothing \/ (p \in DOMAIN m.last /\ m.last[p] = v)
  <2>1. n = m
    BY <1>2 DEF T!Filter
  <2> QED BY <1>2, <2>1
<1>3. CASE ~(v = Nothing \/ (p \in DOMAIN m.last /\ m.last[p] = v))
  <2>1. n = [last |-> T!Put(m.last, p, v), got |-> [m.got EXCEPT ![i] = v]]
    BY <1>3 DEF T!Filter
  <2>2. n.last = T!Put(m.last, p, v) /\ n.got = [m.got EXCEPT ![i] = v]
    BY <2>1
  <2>3. v \in TagValues
    BY <1>1, <1>3
  <2> HIDE DEF n, v, i, p
  <2>4. /\ DOMAIN n.last = DOMAIN m.last \cup {p} /\ n.last[p] = v
        /\ \A q \in DOMAIN m.last : q # p => n.last[q] = m.last[q]
    BY <2>2 DEF T!Put
  <2>5. n.got \in [T!Items -> TagValues \cup {Nothing}] /\ n.got[i] = v
        /\ \A j \in T!Items : j # i => n.got[j] = m.got[j]
    BY <1>1, <2>2 DEF Remembers
  <2>6. \A q \in DOMAIN n.last : n.last[q] \in TagValues
    BY <2>3, <2>4 DEF Remembers
  <2>7. ASSUME NEW j \in T!Items, T!Alone(j), T!TagPath(j) \in DOMAIN n.last
        PROVE  n.last[T!TagPath(j)] = n.got[j]
    <3>1. CASE j = i
      BY <2>4, <2>5, <3>1 DEF p
    <3>2. CASE j # i
      <4>1. T!TagPath(j) # p
        BY <1>1, <2>7, <3>2 DEF T!Alone, p
      <4>2. T!TagPath(j) \in DOMAIN m.last /\ n.last[T!TagPath(j)] = m.last[T!TagPath(j)]
        BY <2>4, <2>7, <4>1
      <4> QED BY <2>5, <2>7, <3>2, <4>2 DEF Remembers
    <3> QED BY <3>1, <3>2
  <2>8. Remembers(n)
    BY <2>5, <2>6, <2>7 DEF Remembers
  <2> QED BY <2>4, <2>8 DEF n, p, i
<1> QED BY <1>2, <1>3

(* The memory after every reading exists, and its recursion defines it. *)
LEMMA FilteredFacts ==
  ASSUME NEW s, Len(s) \in Nat
  PROVE  /\ T!Filtered(s)[0] = Memory
         /\ \A k \in 1 .. Len(s) : T!Filtered(s)[k] = T!Filter(T!Filtered(s)[k - 1], s[k])
<1> DEFINE n == Len(s)
           Next1(m, k) == T!Filter(m, s[k])
           Good(f, k) == /\ f = [i \in 0 .. k |-> f[i]] /\ f[0] = Memory
                         /\ \A i \in 1 .. k : f[i] = Next1(f[i - 1], i)
<1>1. n \in Nat
  OBVIOUS
<1>2. \A k \in Nat : \E f : Good(f, k)
  <2> HIDE DEF Next1
  <2> DEFINE N == {k \in Nat : \E f : Good(f, k)}
  <2>1. 0 \in N
    <3> DEFINE g == [i \in 0 .. 0 |-> Memory]
    <3>1. g = [i \in 0 .. 0 |-> g[i]] /\ g[0] = Memory
      OBVIOUS
    <3> HIDE DEF g
    <3>2. Good(g, 0)
      BY <3>1
    <3> HIDE DEF Good
    <3> QED BY <3>2
  <2>2. ASSUME NEW k \in N PROVE k + 1 \in N
    <3>1. PICK f : Good(f, k)
      OBVIOUS
    <3> DEFINE g == [i \in 0 .. k + 1 |-> IF i = k + 1 THEN Next1(f[k], k + 1) ELSE f[i]]
    <3>2. g = [i \in 0 .. k + 1 |-> g[i]] /\ g[0] = Memory
      BY <3>1
    <3>3. ASSUME NEW i \in 1 .. k + 1 PROVE g[i] = Next1(g[i - 1], i)
      <4>1. CASE i = k + 1
        <5>1. g[i] = Next1(f[k], k + 1) /\ g[i - 1] = f[k]
          BY <4>1
        <5> HIDE DEF g
        <5> QED BY <4>1, <5>1
      <4>2. CASE i # k + 1
        <5>1. i \in 1 .. k /\ i - 1 \in 0 .. k + 1 /\ i - 1 # k + 1
          BY <4>2
        <5>2. g[i] = f[i] /\ g[i - 1] = f[i - 1]
          BY <5>1
        <5> HIDE DEF g
        <5> QED BY <3>1, <5>1, <5>2
      <4> QED BY <4>1, <4>2
    <3> HIDE DEF g
    <3>4. Good(g, k + 1)
      BY <3>2, <3>3
    <3> HIDE DEF Good
    <3> QED BY <3>4
  <2>3. N = Nat
    <3> HIDE DEF N
    <3>1. N \in SUBSET Nat
      BY DEF N
    <3> QED BY <2>1, <2>2, <3>1, SetInduction
  <2> QED BY <2>3
<1> DEFINE Sound(f) == f = [i \in 0 .. n |-> IF i = 0 THEN Memory ELSE Next1(f[i - 1], i)]
<1>3. \E f : Sound(f)
  <2> HIDE DEF Next1
  <2>1. PICK f : Good(f, n)
    <3> HIDE DEF Good, n
    <3> QED BY <1>1, <1>2
  <2>2. \A i \in 0 .. n : f[i] = IF i = 0 THEN Memory ELSE Next1(f[i - 1], i)
    <3> HIDE DEF n
    <3>1. \A i \in 0 .. n : i = 0 \/ i \in 1 .. n
      BY <1>1
    <3> QED BY <2>1, <3>1
  <2>3. f = [i \in 0 .. n |-> f[i]]
    BY <2>1
  <2>4. Sound(f)
    BY <2>2, <2>3
  <2> QED BY <2>4
<1>4. T!Filtered(s) = CHOOSE f : Sound(f)
  BY DEF T!Filtered, Memory
<1>5. Sound(T!Filtered(s))
  BY <1>3, <1>4
<1> DEFINE f == T!Filtered(s)
<1>6. f[0] = Memory /\ \A k \in 1 .. n : f[k] = Next1(f[k - 1], k)
  <2> HIDE DEF f, Next1
  <2>1. f = [i \in 0 .. n |-> IF i = 0 THEN Memory ELSE Next1(f[i - 1], i)]
    BY <1>5 DEF f
  <2> QED BY <1>1, <2>1
<1> QED BY <1>6

(* After the k-th reading. *)
LEMMA FilteredKeeps ==
  ASSUME NEW s \in Seq(Readings), Remembers(Memory)
  PROVE  \A k \in 0 .. Len(s) :
           /\ Remembers(T!Filtered(s)[k])
           /\ DOMAIN last \subseteq DOMAIN T!Filtered(s)[k].last
           /\ \A j \in 1 .. k :
                s[j][2] # Nothing => T!TagPath(s[j][1]) \in DOMAIN T!Filtered(s)[k].last
<1> DEFINE n == Len(s)
           f == T!Filtered(s)
           Good(k) == /\ Remembers(f[k]) /\ DOMAIN last \subseteq DOMAIN f[k].last
                      /\ \A j \in 1 .. k :
                           s[j][2] # Nothing => T!TagPath(s[j][1]) \in DOMAIN f[k].last
<1>1. n \in Nat /\ \A j \in 1 .. n : s[j] \in Readings
  BY ElementOfSeq
<1>2. f[0] = Memory /\ \A k \in 1 .. n : f[k] = T!Filter(f[k - 1], s[k])
  BY <1>1, FilteredFacts
<1> DEFINE N == {k \in Nat : k <= n => Good(k)}
<1> HIDE DEF f, n
<1>3. 0 \in N
  BY <1>2 DEF Memory
<1>4. ASSUME NEW k \in N PROVE k + 1 \in N
  <2> SUFFICES ASSUME k + 1 <= n PROVE Good(k + 1)
    OBVIOUS
  <2>1. k \in Nat /\ Good(k) /\ k + 1 \in 1 .. n /\ k + 1 - 1 = k
    BY <1>1
  <2>2. f[k + 1] = T!Filter(f[k], s[k + 1]) /\ s[k + 1] \in Readings
    BY <1>1, <1>2, <2>1
  <2>3. /\ Remembers(f[k + 1]) /\ DOMAIN f[k].last \subseteq DOMAIN f[k + 1].last
        /\ s[k + 1][2] # Nothing => T!TagPath(s[k + 1][1]) \in DOMAIN f[k + 1].last
    BY <2>1, <2>2, FilterKeeps
  <2>4. ASSUME NEW j \in 1 .. k + 1, s[j][2] # Nothing
        PROVE  T!TagPath(s[j][1]) \in DOMAIN f[k + 1].last
    <3>1. j = k + 1 \/ j \in 1 .. k
      BY <2>1
    <3> QED BY <2>1, <2>3, <2>4, <3>1
  <2> QED BY <2>1, <2>3, <2>4
<1>5. N = Nat
  <2> HIDE DEF N
  <2>1. N \in SUBSET Nat
    BY DEF N
  <2> QED BY <1>3, <1>4, <2>1, SetInduction
<1>6. \A k \in 0 .. n : Good(k)
  BY <1>1, <1>5
<1> QED BY <1>6 DEF f, n

LEMMA OnRecordKeeps ==
  ASSUME StreamInv, NEW s \in Seq(Readings), T!OnRecord(s)
  PROVE  /\ Remembers([last |-> last', got |-> got'])
         /\ DOMAIN last \subseteq DOMAIN last'
         /\ DOMAIN named' = T!Items /\ DOMAIN filed' = T!Items
         /\ \A i \in T!Items :
              filed'[i] # T!Unnamed => filed'[i] = T!Tag(i) /\ T!TagPath(i) \in DOMAIN last'
<1> DEFINE n == Len(s)
           m == T!Filtered(s)[n]
           read == {s[k][1] : k \in {j \in DOMAIN s : s[j][2] # Nothing}}
<1>1. /\ n \in Nat /\ n \in 0 .. n /\ DOMAIN s = 1 .. n
      /\ \A j \in 1 .. n : s[j] \in Readings
  BY ElementOfSeq
<1>2. /\ Remembers(m) /\ DOMAIN last \subseteq DOMAIN m.last
      /\ \A j \in 1 .. n : s[j][2] # Nothing => T!TagPath(s[j][1]) \in DOMAIN m.last
  BY <1>1, FilteredKeeps DEF StreamInv
<1>3. /\ last' = m.last /\ got' = m.got
      /\ named' = [i \in T!Items |->
                     IF i \in read THEN T!Normalize(source.protocol, T!CreateRawData(i))
                     ELSE named[i]]
      /\ filed' = [i \in T!Items |-> IF i \in read THEN T!Tag(i) ELSE filed[i]]
  BY DEF T!OnRecord
<1>4. \A i \in read : T!TagPath(i) \in DOMAIN m.last
  BY <1>1, <1>2
<1> HIDE DEF m, read
<1>5. Remembers([last |-> last', got |-> got'])
  BY <1>2, <1>3 DEF Remembers
<1>6. ASSUME NEW i \in T!Items, filed'[i] # T!Unnamed
      PROVE  filed'[i] = T!Tag(i) /\ T!TagPath(i) \in DOMAIN last'
  <2>1. CASE i \in read
    BY <1>3, <1>4, <2>1
  <2>2. CASE i \notin read
    <3>1. filed'[i] = filed[i]
      BY <1>3, <2>2
    <3> QED BY <1>2, <1>3, <1>6, <3>1 DEF StreamInv, FilesTags
  <2> QED BY <2>1, <2>2
<1> QED BY <1>2, <1>3, <1>5, <1>6

(* The paths of a source are made anew for every record, and are the same. *)
LEMMA PathsStay ==
  ASSUME source' = source, enabled' = enabled
  PROVE  /\ (T!Items)' = T!Items /\ (T!Unnamed)' = T!Unnamed
         /\ \A i : (T!Tag(i))' = T!Tag(i)
         /\ \A i : (T!TagPath(i))' = T!TagPath(i)
         /\ \A i : (T!Alone(i))' <=> T!Alone(i)
<1>1. (T!Items)' = T!Items /\ (T!Unnamed)' = T!Unnamed
  BY DEF T!Items, T!Unnamed
<1>2. ASSUME NEW i PROVE (T!Tag(i))' = T!Tag(i)
  <2>1. (T!ProtocolRecordToRawData(i))' = T!ProtocolRecordToRawData(i)
    BY DEF T!ProtocolRecordToRawData
  <2>2. (T!TopicOrPath(i))' = T!TopicOrPath(i)
    BY DEF T!TopicOrPath
  <2> QED BY <2>1, <2>2 DEF T!Tag
<1>3. ASSUME NEW i PROVE (T!TagPath(i))' = T!TagPath(i)
  BY <1>2 DEF T!TagPath
<1>4. ASSUME NEW i PROVE (T!Alone(i))' <=> T!Alone(i)
  BY <1>1, <1>3 DEF T!Alone
<1> QED BY <1>1, <1>2, <1>3, <1>4

(* What the filter and the receiver have of a source that reads on. *)
LEMMA ReadingsKeep ==
  ASSUME StreamInv, NEW s \in Seq(Readings), T!OnRecord(s),
         source' = source, enabled' = enabled
  PROVE  /\ Remembers(Memory)' /\ FilesTags'
         /\ got' \in [T!Items -> TagValues \cup {Nothing}]
         /\ \A p \in DOMAIN last' : last'[p] \in TagValues
         /\ DOMAIN named' = T!Items /\ DOMAIN filed' = T!Items
<1>1. /\ Remembers([last |-> last', got |-> got'])
      /\ DOMAIN named' = T!Items /\ DOMAIN filed' = T!Items
      /\ \A i \in T!Items :
           filed'[i] # T!Unnamed => filed'[i] = T!Tag(i) /\ T!TagPath(i) \in DOMAIN last'
  BY OnRecordKeeps
<1>2. /\ got' \in [T!Items -> TagValues \cup {Nothing}]
      /\ \A p \in DOMAIN last' : last'[p] \in TagValues
      /\ \A i \in T!Items :
           T!Alone(i) /\ T!TagPath(i) \in DOMAIN last' => last'[T!TagPath(i)] = got'[i]
  BY <1>1 DEF Remembers
<1>3. Remembers(Memory)'
  BY <1>2, PathsStay DEF Remembers, Memory
<1>4. FilesTags'
  BY <1>1, PathsStay DEF FilesTags
<1> QED BY <1>1, <1>2, <1>3, <1>4

LEMMA NoReadingKeeps ==
  ASSUME StreamInv, source' = source, enabled' = enabled,
         UNCHANGED <<last, got, named, filed>>
  PROVE  /\ Remembers(Memory)' /\ FilesTags'
         /\ got' \in [T!Items -> TagValues \cup {Nothing}]
         /\ \A p \in DOMAIN last' : last'[p] \in TagValues
         /\ DOMAIN named' = T!Items /\ DOMAIN filed' = T!Items
<1>1. Remembers(Memory)'
  BY PathsStay DEF StreamInv, Remembers, Memory
<1>2. FilesTags'
  BY PathsStay DEF StreamInv, FilesTags
<1>3. /\ got' \in [T!Items -> TagValues \cup {Nothing}]
      /\ \A p \in DOMAIN last' : last'[p] \in TagValues
      /\ DOMAIN named' = T!Items /\ DOMAIN filed' = T!Items
  BY DEF StreamInv, T!TypeOK, T!Paths
<1> QED BY <1>1, <1>2, <1>3

(* The rest of what a step leaves in its place. *)
StreamTypes ==
  /\ source \in TagSources /\ T!IsSource(source) /\ enabled \in BOOLEAN
  /\ plant \in [T!Items -> TagValues] /\ notified \in Seq(Readings)
  /\ position \in 0 .. Len(source.items)
  /\ DOMAIN answers \subseteq T!Items
  /\ \A i \in DOMAIN answers : answers[i] \in TagValues \cup {Nothing}
  /\ t_changes \in 0 .. TagChanges /\ t_faults \in 0 .. TagFaults

LEMMA StreamTyped ==
  ASSUME StreamInv
  PROVE  StreamTypes
BY Zenon DEF StreamInv, StreamTypes, T!TypeOK, T!Paths, Readings

LEMMA StreamKept ==
  ASSUME StreamTypes', Remembers(Memory)', FilesTags',
         (T!Items)' = T!Items, got' \in [T!Items -> TagValues \cup {Nothing}],
         \A p \in DOMAIN last' : last'[p] \in TagValues,
         DOMAIN named' = T!Items, DOMAIN filed' = T!Items
  PROVE  StreamInv'
<1>1. T!TypeOK'
  BY Zenon DEF StreamTypes, T!TypeOK, T!Paths, Readings
<1> QED BY <1>1 DEF StreamInv

LEMMA StreamNumbers ==
  ASSUME T!StreamAssumption, StreamTypes
  PROVE  /\ Len(source.items) \in Nat /\ T!Items = 1 .. Len(source.items)
         /\ TagBatch \in Nat /\ TagBatch > 0 /\ TagChanges \in Nat /\ TagFaults \in Nat
         /\ Nothing \notin TagValues
BY DEF T!StreamAssumption, StreamTypes, T!Items

(* The batch that a poll is at begins where the last one ended. *)
LEMMA BatchFacts ==
  ASSUME T!StreamAssumption, StreamTypes
  PROVE  /\ T!Cardinality(T!Batch) \in Nat
         /\ position + T!Cardinality(T!Batch) \in 0 .. Len(source.items)
         /\ \A k \in 1 .. T!Cardinality(T!Batch) : position + k \in T!Items
         /\ source.protocol # "modbus" =>
              \A k \in 1 .. T!Cardinality(T!Batch) : position + k \in T!Batch
<1> DEFINE l == Len(source.items)
           B == T!Batch
           c == T!Cardinality(B)
<1>1. l \in Nat /\ T!Items = 1 .. l /\ position \in Nat /\ position <= l
  BY StreamNumbers DEF StreamTypes
<1>2. B \subseteq position + 1 .. l
  BY <1>1 DEF T!Batch
<1>3. c = Cardinality(B)
  BY DEF T!Cardinality, Cardinality
<1> HIDE DEF l, B, c
<1>4. /\ IsFiniteSet(position + 1 .. l)
      /\ Cardinality(position + 1 .. l) = IF position + 1 > l THEN 0 ELSE l - (position + 1) + 1
  BY <1>1, FS_Interval
<1>5. IsFiniteSet(B) /\ Cardinality(B) <= Cardinality(position + 1 .. l) /\ Cardinality(B) \in Nat
  BY <1>2, <1>4, FS_Subset, FS_CardinalityType
<1>6. c \in Nat /\ position + c <= l
  BY <1>1, <1>3, <1>4, <1>5
<1>7. \A k \in 1 .. c : position + k \in T!Items
  BY <1>1, <1>6
<1>8. ASSUME source.protocol # "modbus", NEW k \in 1 .. c PROVE position + k \in B
  <2>1. B = {i \in 1 .. l : i >= position + 1 /\ i < position + 1 + TagBatch}
    BY <1>1, <1>8 DEF T!Batch, B
  <2>2. TagBatch \in Nat /\ B \subseteq position + 1 .. position + TagBatch
    BY <1>1, <2>1, StreamNumbers
  <2>3. /\ IsFiniteSet(position + 1 .. position + TagBatch)
        /\ Cardinality(position + 1 .. position + TagBatch)
             = IF position + 1 > position + TagBatch THEN 0
               ELSE position + TagBatch - (position + 1) + 1
    BY <1>1, <2>2, FS_Interval
  <2>4. Cardinality(B) <= Cardinality(position + 1 .. position + TagBatch)
    BY <2>2, <2>3, FS_Subset
  <2>5. c <= TagBatch
    BY <1>1, <1>3, <1>5, <2>2, <2>3, <2>4
  <2> QED BY <1>1, <1>6, <2>1, <2>2, <2>5
<1> QED BY <1>1, <1>6, <1>7, <1>8 DEF l, B, c

(* A step of the plant, the broker, the device or the clock. *)
LEMMA NoRecordStep ==
  ASSUME StreamInv, UNCHANGED <<source, enabled, last, got, named, filed>>, StreamTypes'
  PROVE  StreamInv'
BY NoReadingKeeps, PathsStay, StreamKept

LEMMA RecordStep ==
  ASSUME StreamInv, NEW s \in Seq(Readings), T!OnRecord(s),
         source' = source, enabled' = enabled, StreamTypes'
  PROVE  StreamInv'
BY ReadingsKeep, PathsStay, StreamKept

(* The types, for a step that leaves source and bounds as they are. *)
LEMMA TypesStay ==
  ASSUME StreamTypes, source' = source, enabled' = enabled,
         plant' \in [T!Items -> TagValues], notified' \in Seq(Readings),
         position' \in 0 .. Len(source.items),
         DOMAIN answers' \subseteq T!Items,
         \A i \in DOMAIN answers' : answers'[i] \in TagValues \cup {Nothing},
         t_changes' \in 0 .. TagChanges, t_faults' \in 0 .. TagFaults
  PROVE  StreamTypes'
<1>1. (T!Items)' = T!Items /\ Readings' = Readings /\ T!IsSource(source)' = T!IsSource(source)
  BY PathsStay DEF Readings, T!IsSource
<1> QED BY <1>1 DEF StreamTypes

LEMMA ChangeStep ==
  ASSUME StreamInv, T!StreamAssumption, NEW i \in T!Items, NEW v \in TagValues, T!Change(i, v)
  PROVE  StreamInv'
<1>1. StreamTypes
  BY StreamTyped
<1>2. /\ UNCHANGED <<source, enabled, last, got, named, filed>>
      /\ UNCHANGED <<position, answers, t_faults>>
      /\ t_changes' = t_changes + 1 /\ t_changes < TagChanges
      /\ plant' = [plant EXCEPT ![i] = v]
      /\ notified' = Append(notified, <<i, v>>) \/ notified' = notified
  BY DEF T!Change, T!recordVars
<1>3. plant' \in [T!Items -> TagValues]
  BY <1>1, <1>2 DEF StreamTypes
<1>4. notified' \in Seq(Readings)
  <2>1. <<i, v>> \in Readings
    BY DEF Readings
  <2>2. notified \in Seq(Readings)
    BY <1>1 DEF StreamTypes
  <2> HIDE DEF Readings
  <2> QED BY <1>2, <2>1, <2>2, AppendProperties
<1>5. t_changes' \in 0 .. TagChanges
  BY <1>1, <1>2, StreamNumbers DEF StreamTypes
<1>6. StreamTypes'
  <2>1. /\ position' \in 0 .. Len(source.items) /\ DOMAIN answers' \subseteq T!Items
        /\ \A j \in DOMAIN answers' : answers'[j] \in TagValues \cup {Nothing}
        /\ t_faults' \in 0 .. TagFaults
    BY <1>1, <1>2 DEF StreamTypes
  <2> QED BY <1>1, <1>2, <1>3, <1>4, <1>5, <2>1, TypesStay
<1> QED BY <1>2, <1>6, NoRecordStep

LEMMA GarbleStep ==
  ASSUME StreamInv, T!StreamAssumption, NEW i \in T!Items, T!Garble(i)
  PROVE  StreamInv'
<1>1. StreamTypes
  BY StreamTyped
<1>2. /\ UNCHANGED <<source, enabled, last, got, named, filed>>
      /\ UNCHANGED <<plant, position, answers, t_changes>>
      /\ t_faults' = t_faults + 1 /\ t_faults < TagFaults
      /\ notified' = Append(notified, <<i, Nothing>>)
  BY DEF T!Garble, T!recordVars
<1>3. notified' \in Seq(Readings)
  <2>1. <<i, Nothing>> \in Readings
    BY DEF Readings
  <2>2. notified \in Seq(Readings)
    BY <1>1 DEF StreamTypes
  <2> HIDE DEF Readings
  <2> QED BY <1>2, <2>1, <2>2, AppendProperties
<1>4. t_faults' \in 0 .. TagFaults
  BY <1>1, <1>2, StreamNumbers DEF StreamTypes
<1>5. StreamTypes'
  <2>1. /\ plant' \in [T!Items -> TagValues]
        /\ position' \in 0 .. Len(source.items) /\ DOMAIN answers' \subseteq T!Items
        /\ \A j \in DOMAIN answers' : answers'[j] \in TagValues \cup {Nothing}
        /\ t_changes' \in 0 .. TagChanges
    BY <1>1, <1>2 DEF StreamTypes
  <2> QED BY <1>1, <1>2, <1>3, <1>4, <2>1, TypesStay
<1> QED BY <1>2, <1>5, NoRecordStep

(* A message of the broker, or a notification of the server. *)
LEMMA NotifiedStep ==
  ASSUME StreamInv, T!StreamAssumption, notified # <<>>, T!OnRecord(<<Head(notified)>>),
         notified' = Tail(notified),
         UNCHANGED <<source, enabled, plant, position, answers, t_changes, t_faults>>
  PROVE  StreamInv'
<1>1. StreamTypes
  BY StreamTyped
<1> DEFINE r == Head(notified)
<1>2. r \in Readings /\ Tail(notified) \in Seq(Readings)
  <2> DEFINE S == Readings
  <2>1. notified \in Seq(S)
    BY <1>1 DEF StreamTypes
  <2> HIDE DEF S
  <2>2. Head(notified) \in S /\ Tail(notified) \in Seq(S)
    BY <2>1, HeadTailProperties
  <2> QED BY <2>2 DEF S
<1> HIDE DEF r
<1>3. <<r>> \in Seq(Readings)
  <2> DEFINE S == Readings
  <2> HIDE DEF S
  <2>1. r \in S => <<r>> \in Seq(S)
    OBVIOUS
  <2> QED BY <1>2, <2>1 DEF S
<1>4. StreamTypes'
  <2>1. /\ plant' \in [T!Items -> TagValues] /\ notified' \in Seq(Readings)
        /\ position' \in 0 .. Len(source.items) /\ DOMAIN answers' \subseteq T!Items
        /\ \A j \in DOMAIN answers' : answers'[j] \in TagValues \cup {Nothing}
        /\ t_changes' \in 0 .. TagChanges /\ t_faults' \in 0 .. TagFaults
    BY <1>1, <1>2 DEF StreamTypes
  <2> QED BY <1>1, <2>1, TypesStay
<1>5. T!OnRecord(<<r>>)
  BY DEF r
<1> QED BY <1>3, <1>4, <1>5, RecordStep

(* The answers to a block of registers or to a batch of nodes. *)
LEMMA BatchIsRead ==
  ASSUME T!StreamAssumption, StreamTypes, NEW f,
         \A k \in 1 .. T!Cardinality(T!Batch) : f[position + k] \in TagValues \cup {Nothing}
  PROVE  [k \in 1 .. T!Cardinality(T!Batch) |-> <<position + k, f[position + k]>>]
           \in Seq(Readings)
<1> DEFINE c == T!Cardinality(T!Batch)
           e(k) == <<position + k, f[position + k]>>
           S == Readings
<1>1. c \in Nat /\ \A k \in 1 .. c : position + k \in T!Items
  BY BatchFacts
<1>2. \A k \in 1 .. c : e(k) \in S
  BY <1>1 DEF Readings
<1> HIDE DEF c, e, S
<1>3. [k \in 1 .. c |-> e(k)] \in Seq(S)
  BY <1>1, <1>2, IsASeq
<1> QED BY <1>3 DEF c, e, S

LEMMA PollRegisterStep ==
  ASSUME StreamInv, T!StreamAssumption, T!PollRegister
  PROVE  StreamInv'
<1> DEFINE s == [k \in 1 .. T!Cardinality(T!Batch) |-> <<position + k, plant[position + k]>>]
<1>1. StreamTypes
  BY StreamTyped
<1>2. /\ UNCHANGED <<source, enabled, plant, notified, answers, t_changes>>
      /\ position' = position + T!Cardinality(T!Batch)
      /\ \/ T!OnRecord(s) /\ UNCHANGED t_faults
         \/ /\ t_faults < TagFaults /\ t_faults' = t_faults + 1
            /\ UNCHANGED <<last, got, named, filed>>
  BY DEF T!PollRegister, T!recordVars
<1>3. s \in Seq(Readings)
  <2>1. \A k \in 1 .. T!Cardinality(T!Batch) : plant[position + k] \in TagValues \cup {Nothing}
    BY <1>1, BatchFacts DEF StreamTypes
  <2> QED BY <1>1, <2>1, BatchIsRead
<1> HIDE DEF s
<1>4. StreamTypes'
  <2>1. t_faults' \in 0 .. TagFaults
    BY <1>1, <1>2, StreamNumbers DEF StreamTypes
  <2>2. position' \in 0 .. Len(source.items)
    BY <1>1, <1>2, BatchFacts
  <2>3. /\ plant' \in [T!Items -> TagValues] /\ notified' \in Seq(Readings)
        /\ DOMAIN answers' \subseteq T!Items
        /\ \A j \in DOMAIN answers' : answers'[j] \in TagValues \cup {Nothing}
        /\ t_changes' \in 0 .. TagChanges
    BY <1>1, <1>2 DEF StreamTypes
  <2> QED BY <1>1, <1>2, <2>1, <2>2, <2>3, TypesStay
<1>5. CASE T!OnRecord(s)
  BY <1>2, <1>3, <1>4, <1>5, RecordStep
<1>6. CASE UNCHANGED <<last, got, named, filed>>
  BY <1>2, <1>4, <1>6, NoRecordStep
<1> QED BY <1>2, <1>5, <1>6

LEMMA ReadStep ==
  ASSUME StreamInv, T!StreamAssumption, NEW i \in T!Items, T!ReadOne(i)
  PROVE  StreamInv'
<1>1. StreamTypes
  BY StreamTyped
<1>2. /\ UNCHANGED <<source, enabled, last, got, named, filed>>
      /\ UNCHANGED <<plant, notified, position, t_changes>>
      /\ t_faults' = t_faults \/ (t_faults < TagFaults /\ t_faults' = t_faults + 1)
  BY DEF T!ReadOne, T!recordVars
<1>3. \E v \in TagValues \cup {Nothing} : answers' = T!Put(answers, i, v)
  <2>1. plant[i] \in TagValues
    BY <1>1 DEF StreamTypes
  <2>2. answers' = T!Put(answers, i, plant[i]) \/ answers' = T!Put(answers, i, Nothing)
    BY DEF T!ReadOne
  <2> QED BY <2>1, <2>2
<1>4. /\ DOMAIN answers' \subseteq T!Items
      /\ \A j \in DOMAIN answers' : answers'[j] \in TagValues \cup {Nothing}
  BY <1>1, <1>3 DEF StreamTypes, T!Put
<1>5. t_faults' \in 0 .. TagFaults
  BY <1>1, <1>2, StreamNumbers DEF StreamTypes
<1>6. StreamTypes'
  <2>1. /\ plant' \in [T!Items -> TagValues] /\ notified' \in Seq(Readings)
        /\ position' \in 0 .. Len(source.items) /\ t_changes' \in 0 .. TagChanges
    BY <1>1, <1>2 DEF StreamTypes
  <2> QED BY <1>1, <1>2, <1>4, <1>5, <2>1, TypesStay
<1> QED BY <1>2, <1>6, NoRecordStep

LEMMA BatchReadStep ==
  ASSUME StreamInv, T!StreamAssumption, T!BatchRead
  PROVE  StreamInv'
<1>1. StreamTypes
  BY StreamTyped
<1>2. /\ UNCHANGED <<source, enabled, plant, notified, t_changes, t_faults>>
      /\ position' = position + T!Cardinality(T!Batch) /\ answers' = [i \in {} |-> Nothing]
      /\ T!OnRecord(T!Answered) /\ source.protocol = "opcua" /\ T!Batch \subseteq DOMAIN answers
  BY DEF T!BatchRead
<1>3. T!Answered \in Seq(Readings)
  <2>1. ASSUME NEW k \in 1 .. T!Cardinality(T!Batch)
        PROVE  answers[position + k] \in TagValues \cup {Nothing}
    <3>1. position + k \in DOMAIN answers
      BY <1>1, <1>2, BatchFacts
    <3> QED BY <1>1, <3>1 DEF StreamTypes
  <2> QED BY <1>1, <2>1, BatchIsRead DEF T!Answered
<1>4. StreamTypes'
  <2>1. position' \in 0 .. Len(source.items)
    BY <1>1, <1>2, BatchFacts
  <2>2. /\ plant' \in [T!Items -> TagValues] /\ notified' \in Seq(Readings)
        /\ t_changes' \in 0 .. TagChanges /\ t_faults' \in 0 .. TagFaults
    BY <1>1, <1>2 DEF StreamTypes
  <2>3. DOMAIN answers' = {}
    BY <1>2
  <2> QED BY <1>1, <1>2, <2>1, <2>2, <2>3, TypesStay
<1> QED BY <1>2, <1>3, <1>4, RecordStep

LEMMA IntervalStep ==
  ASSUME StreamInv, T!StreamAssumption, T!IntervalEnds
  PROVE  StreamInv'
<1>1. StreamTypes
  BY StreamTyped
<1>2. /\ UNCHANGED <<source, enabled, last, got, named, filed>>
      /\ UNCHANGED <<plant, notified, answers, t_changes, t_faults>> /\ position' = 0
  BY DEF T!IntervalEnds, T!recordVars
<1>3. StreamTypes'
  <2>1. position' \in 0 .. Len(source.items)
    BY <1>1, <1>2, StreamNumbers
  <2>2. /\ plant' \in [T!Items -> TagValues] /\ notified' \in Seq(Readings)
        /\ DOMAIN answers' \subseteq T!Items
        /\ \A j \in DOMAIN answers' : answers'[j] \in TagValues \cup {Nothing}
        /\ t_changes' \in 0 .. TagChanges /\ t_faults' \in 0 .. TagFaults
    BY <1>1, <1>2 DEF StreamTypes
  <2> QED BY <1>1, <1>2, <2>1, <2>2, TypesStay
<1> QED BY <1>2, <1>3, NoRecordStep

LEMMA StreamInit ==
  ASSUME T!StreamAssumption, T!Init
  PROVE  StreamInv
<1>1. PICK v \in TagValues : plant = [i \in T!Items |-> v]
  BY DEF T!Init
<1>2. /\ source \in TagSources /\ enabled \in BOOLEAN /\ notified = <<>> /\ position = 0
      /\ DOMAIN answers = {} /\ DOMAIN last = {} /\ got = [i \in T!Items |-> Nothing]
      /\ named = [i \in T!Items |-> T!Unnamed] /\ filed = [i \in T!Items |-> T!Unnamed]
      /\ t_changes = 0 /\ t_faults = 0
  BY DEF T!Init
<1>3. T!IsSource(source) /\ Len(source.items) \in Nat /\ TagChanges \in Nat /\ TagFaults \in Nat
  BY <1>2 DEF T!StreamAssumption
<1>4. T!TypeOK
  <2>1. plant \in [T!Items -> TagValues] /\ got \in [T!Items -> TagValues \cup {Nothing}]
    BY <1>1, <1>2
  <2>2. notified \in Seq(T!Items \X (TagValues \cup {Nothing}))
    <3> DEFINE S == T!Items \X (TagValues \cup {Nothing})
    <3> HIDE DEF S
    <3>1. <<>> \in Seq(S)
      OBVIOUS
    <3> QED BY <1>2, <3>1 DEF S
  <2>3. /\ position \in 0 .. Len(source.items) /\ t_changes \in 0 .. TagChanges
        /\ t_faults \in 0 .. TagFaults
    BY <1>2, <1>3
  <2>4. DOMAIN named = T!Items /\ DOMAIN filed = T!Items
    BY <1>2
  <2> QED BY <1>2, <1>3, <2>1, <2>2, <2>3, <2>4 DEF T!TypeOK, T!Paths
<1>5. Remembers(Memory)
  BY <1>2 DEF Remembers, Memory
<1>6. FilesTags
  BY <1>2 DEF FilesTags
<1> QED BY <1>4, <1>5, <1>6 DEF StreamInv

(* The filter and the receiver agree on every variable with a path of its  *)
(* own, whatever the order of the answers (_apply_numeric_compression,     *)
(* _on_record of UnifiedBridge).                                           *)
THEOREM StreamInvariant ==
  ASSUME T!StreamAssumption
  PROVE  T!Init /\ [][T!Next]_T!vars => []StreamInv
<1>1. T!Init => StreamInv
  BY StreamInit
<1>2. StreamInv /\ [T!Next]_T!vars => StreamInv'
  <2> SUFFICES ASSUME StreamInv, [T!Next]_T!vars PROVE StreamInv'
    OBVIOUS
  <2>1. CASE \E i \in T!Items, v \in TagValues : T!Change(i, v)
    BY <2>1, ChangeStep
  <2>2. CASE \E i \in T!Items : T!Garble(i)
    BY <2>2, GarbleStep
  <2>3. CASE T!HandleMessage \/ T!OnDataChange
    BY <2>3, NotifiedStep DEF T!HandleMessage, T!OnDataChange
  <2>4. CASE T!PollRegister
    BY <2>4, PollRegisterStep
  <2>5. CASE \E i \in T!Items : T!ReadOne(i)
    BY <2>5, ReadStep
  <2>6. CASE T!BatchRead
    BY <2>6, BatchReadStep
  <2>7. CASE T!IntervalEnds
    BY <2>7, IntervalStep
  <2>8. CASE UNCHANGED T!vars
    <3>1. /\ UNCHANGED <<source, enabled, last, got, named, filed>>
          /\ UNCHANGED <<plant, notified, position, answers, t_changes, t_faults>>
      BY <2>8 DEF T!vars
    <3>2. StreamTypes
      BY StreamTyped
    <3>3. StreamTypes'
      <4>1. /\ plant' \in [T!Items -> TagValues] /\ notified' \in Seq(Readings)
            /\ position' \in 0 .. Len(source.items) /\ DOMAIN answers' \subseteq T!Items
            /\ \A j \in DOMAIN answers' : answers'[j] \in TagValues \cup {Nothing}
            /\ t_changes' \in 0 .. TagChanges /\ t_faults' \in 0 .. TagFaults
        BY <3>1, <3>2 DEF StreamTypes
      <4> QED BY <3>1, <3>2, <4>1, TypesStay
    <3> QED BY <3>1, <3>3, NoRecordStep
  <2> QED BY <2>1, <2>2, <2>3, <2>4, <2>5, <2>6, <2>7, <2>8 DEF T!Next
<1> QED BY <1>1, <1>2, PTL

(* What the receiver holds of a variable that has its path for itself is   *)
(* what the filter remembers of it, for any sources, values, batches and   *)
(* failures, with normalization and without.                               *)
THEOREM StreamCorrect ==
  ASSUME T!StreamAssumption
  PROVE  T!Init /\ [][T!Next]_T!vars => []T!StreamSound
<1>1. StreamInv => T!StreamSound
  <2> SUFFICES ASSUME StreamInv, NEW i \in T!Items, T!Alone(i), filed[i] # T!Unnamed
               PROVE  last[filed[i].path] = got[i]
    BY DEF StreamInv, T!StreamSound
  <2>1. filed[i] = T!Tag(i) /\ T!TagPath(i) \in DOMAIN last
    BY DEF StreamInv, FilesTags
  <2>2. filed[i].path = T!TagPath(i)
    BY <2>1 DEF T!TagPath
  <2>3. last[T!TagPath(i)] = got[i]
    BY <2>1 DEF StreamInv, Remembers, Memory
  <2> QED BY <2>2, <2>3
<1> QED BY <1>1, StreamInvariant, PTL

-----------------------------------------------------------------------------
(* All parts together                                                      *)

(* Each step is one of a part and leaves the others alone. *)
LEMMA OnePart ==
  FieldNext =>
    \/ Race(Next) \/ Wind(W!Next) \/ Relay(R!Next) \/ Direct(D!Next) \/ Tags(T!Next)
    \/ Scanner(DiscoveryNext)
<1> SUFFICES ASSUME FieldNext
             PROVE  \/ Race(Next) \/ Wind(W!Next) \/ Relay(R!Next) \/ Direct(D!Next)
                    \/ Tags(T!Next) \/ Scanner(DiscoveryNext)
  OBVIOUS
<1>0. part \in {"regatta", "weather", "relay", "direct", "tags", "discovery"}
  BY DEF FieldNext, Race, Wind, Relay, Direct, Tags, Scanner
<1>1. CASE part = "regatta"
  <2>1. Race(Next)
    BY <1>1 DEF FieldNext, Next, Race, Wind, Relay, Direct, Tags, Scanner
  <2> QED BY <2>1
<1>2. CASE part = "weather"
  <2>1. Wind(W!Next)
    BY <1>2 DEF FieldNext, W!Next, Race, Wind, Relay, Direct, Tags, Scanner
  <2> QED BY <2>1
<1>3. CASE part = "relay"
  <2>1. Relay(R!Next)
    BY <1>3 DEF FieldNext, R!Next, Race, Wind, Relay, Direct, Tags, Scanner
  <2> QED BY <2>1
<1>4. CASE part = "direct"
  <2>1. Direct(D!Next)
    BY <1>4 DEF FieldNext, D!Next, Race, Wind, Relay, Direct, Tags, Scanner
  <2> QED BY <2>1
<1>5. CASE part = "tags"
  <2>1. Tags(T!Next)
    BY <1>5 DEF FieldNext, T!Next, Race, Wind, Relay, Direct, Tags, Scanner
  <2> QED BY <2>1
<1>6. CASE part = "discovery"
  <2>1. Scanner(DiscoveryNext)
    BY <1>6 DEF FieldNext, DiscoveryNext, Race, Wind, Relay, Direct, Tags, Scanner
  <2> QED BY <2>1
<1> QED BY <1>0, <1>1, <1>2, <1>3, <1>4, <1>5, <1>6

LEMMA RegattaPart == FieldSpec => Spec
<1>1. FieldInit => Init
  BY DEF FieldInit
<1>2. [FieldNext]_field => [Next]_regattaVars
  <2>1. UNCHANGED field => UNCHANGED regattaVars
    BY DEF field
  <2>2. FieldNext => Next \/ UNCHANGED regattaVars
    BY OnePart DEF Race, Wind, Relay, Direct, Tags, Scanner
  <2> QED BY <2>1, <2>2
<1> QED BY <1>1, <1>2, PTL DEF FieldSpec, Spec

LEMMA WeatherPart == FieldSpec => W!Init /\ [][W!Next]_W!weatherVars
<1>1. FieldInit => W!Init
  BY DEF FieldInit
<1>2. [FieldNext]_field => [W!Next]_W!weatherVars
  <2>1. UNCHANGED windVars => UNCHANGED W!weatherVars
    BY DEF windVars, W!weatherVars
  <2>2. UNCHANGED field => UNCHANGED windVars
    BY DEF field
  <2>3. FieldNext => W!Next \/ UNCHANGED windVars
    BY OnePart DEF Race, Wind, Relay, Direct, Tags, Scanner
  <2> QED BY <2>1, <2>2, <2>3
<1> QED BY <1>1, <1>2, PTL DEF FieldSpec

LEMMA RelayPart == FieldSpec => R!Spec
<1>1. FieldInit => R!Init
  BY DEF FieldInit
<1>2. [FieldNext]_field => [R!Next]_R!relayVars
  <2>1. UNCHANGED relayVars => UNCHANGED R!relayVars
    BY DEF relayVars, R!relayVars
  <2>2. UNCHANGED field => UNCHANGED relayVars
    BY DEF field
  <2>3. FieldNext => R!Next \/ UNCHANGED relayVars
    BY OnePart DEF Race, Wind, Relay, Direct, Tags, Scanner
  <2> QED BY <2>1, <2>2, <2>3
<1> QED BY <1>1, <1>2, PTL DEF FieldSpec, R!Spec

LEMMA DirectPart == FieldSpec => D!Spec
<1>1. FieldInit => D!Init
  BY DEF FieldInit
<1>2. [FieldNext]_field => [D!Next]_D!directVars
  <2>1. UNCHANGED directVars => UNCHANGED D!directVars
    BY DEF directVars, D!directVars
  <2>2. UNCHANGED field => UNCHANGED directVars
    BY DEF field
  <2>3. FieldNext => D!Next \/ UNCHANGED directVars
    BY OnePart DEF Race, Wind, Relay, Direct, Tags, Scanner
  <2> QED BY <2>1, <2>2, <2>3
<1> QED BY <1>1, <1>2, PTL DEF FieldSpec, D!Spec

LEMMA TagPart == FieldSpec => T!Init /\ [][T!Next]_T!vars
<1>1. FieldInit => T!Init
  BY DEF FieldInit
<1>2. [FieldNext]_field => [T!Next]_T!vars
  <2>1. UNCHANGED tagVars => UNCHANGED T!vars
    BY DEF tagVars, T!vars
  <2>2. UNCHANGED field => UNCHANGED tagVars
    BY DEF field
  <2>3. FieldNext => T!Next \/ UNCHANGED tagVars
    BY OnePart DEF Race, Wind, Relay, Direct, Tags, Scanner
  <2> QED BY <2>1, <2>2, <2>3
<1> QED BY <1>1, <1>2, PTL DEF FieldSpec

LEMMA DiscoveryPart == FieldSpec => DiscoverySpec
<1>1. FieldInit => DiscoveryInit
  BY DEF FieldInit
<1>2. [FieldNext]_field => [DiscoveryNext]_discoveryVars
  <2>1. UNCHANGED field => UNCHANGED discoveryVars
    BY DEF field
  <2>2. FieldNext => DiscoveryNext \/ UNCHANGED discoveryVars
    BY OnePart DEF Race, Wind, Relay, Direct, Tags, Scanner
  <2> QED BY <2>1, <2>2
<1> QED BY <1>1, <1>2, PTL DEF FieldSpec, DiscoverySpec

(* The simulators and collectors are sound, each beside the others: races   *)
(* are decided by the boats' ways, the wind stays in its band, no record   *)
(* vanishes between a poll and ZeroBus, the filter remembers what the      *)
(* receiver has, the cache holds answers (src/demos, core/).               *)
THEOREM FieldCorrect == ASSUME FieldAssumption PROVE FieldSpec => []FieldSound
<1>1. /\ RegattaAssumption /\ DiscoveryAssumption
      /\ W!WeatherAssumption /\ R!RelayAssumption /\ D!DirectAssumption
      /\ T!StreamAssumption
  BY DEF FieldAssumption
<1>2. FieldSpec => []RegattaSound
  BY <1>1, RegattaPart, RegattaCorrect, PTL
<1>3. FieldSpec => []W!WeatherSound
  BY <1>1, WeatherPart, WeatherCorrect, PTL
<1>4. FieldSpec => []R!RelaySound
  BY <1>1, RelayPart, RelayCorrect, PTL
<1>5. FieldSpec => []D!DirectSound
  BY <1>1, DirectPart, DirectCorrect, PTL
<1>6. FieldSpec => []T!StreamSound
  BY <1>1, TagPart, StreamCorrect, PTL
<1>7. FieldSpec => []DiscoveryTypeOK
  BY <1>1, DiscoveryPart, DiscoveryTyped, PTL
<1> QED BY <1>2, <1>3, <1>4, <1>5, <1>6, <1>7, PTL DEF FieldSound

(* In the whole model, too, no boat tacks twice within its minimum time,   *)
(* and every scan finds what was up throughout.                            *)
THEOREM FieldStepsCorrect ==
  ASSUME FieldAssumption
  PROVE  FieldSpec => TacksAreApart /\ ScanIsComplete
<1>1. RegattaAssumption /\ DiscoveryAssumption
  BY DEF FieldAssumption
<1>2. FieldSpec => TacksAreApart
  BY <1>1, RegattaPart, TackingIsSpaced, PTL
<1>3. FieldSpec => ScanIsComplete
  BY <1>1, DiscoveryPart, ScansAreComplete, PTL
<1> QED BY <1>2, <1>3, PTL

=============================================================================
