------------------------------- MODULE Regatta -------------------------------
(***************************************************************************)
(* demos/data_drifter: main.py steps a fleet through a race and sends one  *)
(* record per boat and step (sailboat_telemetry.py, fleet.py); a boat that *)
(* comes too near to land is turned, backed out, or in the end taken out   *)
(* of the race (land_avoidance.py).  Positions are not computed: what the  *)
(* land mask and the wind say to a boat at a step is an input.  Times are  *)
(* counted in steps of simulated_time_step_seconds.                        *)
(***************************************************************************)
EXTENDS Naturals, FiniteSets

CONSTANTS
    Boats, Marks,               \* the fleet; the number of marks_to_round
    Offings,                    \* how far land is, in hundredths of a mile
    MaxReverse, MaxStuck,       \* max_total_reverse_time and max_stuck_time
    Reaction,                   \* weather_shift_reaction_delay of a shift
    IronsTime, AwayTime,        \* 20 s and 30 s
    MinTackTime,                \* the strategy's get_min_tack_time()
    Duration,                   \* race_duration, 0 if unlimited
    MaxSteps                    \* where the model stops counting an unlimited race

(* Every strategy waits at least 30 s between tacks (racing_strategy.py).  *)
RegattaAssumption ==
    /\ Marks \in Nat /\ Duration \in Nat /\ Reaction \in Nat
    /\ MaxReverse \in Nat \ {0} /\ MaxStuck \in Nat \ {0} /\ MaxSteps \in Nat \ {0}
    /\ IronsTime \in Nat /\ AwayTime \in Nat /\ MinTackTime \in Nat
    /\ IronsTime <= AwayTime /\ AwayTime <= MinTackTime

VARIABLES
    boat,         \* the boats
    elapsed, run, \* RaceSimulator.elapsed_race_time; what run() is doing
    unsent,       \* the boats whose record of this step is not sent yet
    reported,     \* race_status of the last record that arrived, per boat
    offshore,     \* history: steps since the boat was last clear of land
    sailed        \* history: steps since the boat last tacked

regattaVars == <<boat, elapsed, run, unsent, reported, offshore, sailed>>

-----------------------------------------------------------------------------
(* land_avoidance.py                                                       *)

Radii == {1, 2, 5, 10, 20, 50, 100}
FarOff == 1000

(* estimate_distance_to_land: the first of the radii at which one of eight *)
(* points is land; if none is, land is taken to be ten miles off.          *)
EstimateDistanceToLand(offing) ==
    LET reached == {r \in Radii : r >= offing} IN
    IF offing = 0 THEN 0
    ELSE IF reached = {} THEN FarOff
    ELSE CHOOSE r \in reached : \A q \in reached : r <= q

Zone(distance) ==
    CASE distance \in 0 .. 49    -> "critical"
      [] distance \in 50 .. 99   -> "danger"
      [] distance \in 100 .. 149 -> "caution"
      [] distance \in 150 .. 249 -> "warning"
      [] OTHER                   -> "safe"

(* get_safe_heading_fine_grained looks half a mile ahead in 24 directions: *)
(* where no land is within that distance it finds one.                     *)
SafeHeadings(zone) == IF zone \in {"danger", "critical"} THEN BOOLEAN ELSE {TRUE}

CourseCorrection(zone, safeHeading) ==
    IF zone # "safe" /\ ~safeHeading THEN "stuck"
    ELSE CASE zone = "safe"     -> "none"
           [] zone = "warning"  -> "gentle"
           [] zone = "caution"  -> "moderate"
           [] zone = "danger"   -> "emergency"
           [] zone = "critical" -> "critical_reverse_needed"

-----------------------------------------------------------------------------
(* sailboat_telemetry.py: one step of a boat, given what it meets.         *)

(* In irons; VMG below the strong threshold; VMG below the weak one or a   *)
(* better other tack.                                                      *)
Reasons == {"irons", "away", "slow"}

Encounters ==
    UNION {[zone : {z}, safeHeading : SafeHeadings(z),
            reverseHeading : BOOLEAN,           \* find_reverse_heading is not None
            shift : BOOLEAN,                    \* the wind is not as it was
            reason : Reasons \cup {"none"},     \* the strongest that there is to tack
            atMark : BOOLEAN, crossesFinish : BOOLEAN] :
           z \in {Zone(EstimateDistanceToLand(o)) : o \in Offings}}

NewBoat ==
    [mark |-> 0, finished |-> FALSE, dnf |-> "no",
     reversing |-> FALSE, reversingFor |-> 0, stuckFor |-> 0,
     shifted |-> FALSE, delay |-> 0, sinceTack |-> MinTackTime, tacked |-> FALSE]

(* A shift that comes while the crew still adapts to one starts nothing.   *)
WeatherShift(b, e) ==
    LET delay == IF e.shift /\ ~b.shifted THEN Reaction ELSE b.delay IN
    [b EXCEPT !.delay = IF delay > 0 THEN delay - 1 ELSE 0, !.shifted = delay > 1]

OneMore(n, limit) == IF n < limit THEN n + 1 ELSE limit

NoWayOut(b, e) ==
    /\ CourseCorrection(e.zone, e.safeHeading) \in {"stuck", "critical_reverse_needed"}
    /\ ~e.reverseHeading

(* A way back starts a reverse maneuver, and a maneuver that is on already *)
(* starts anew with its time.                                              *)
AvoidLand(b, e) ==
    LET correction == CourseCorrection(e.zone, e.safeHeading) IN
    IF NoWayOut(b, e) THEN
        [b EXCEPT !.stuckFor = @ + 1,
                  !.dnf = IF b.stuckFor + 1 >= MaxStuck THEN "stuck" ELSE @]
    ELSE CASE correction \in {"stuck", "critical_reverse_needed"} ->
                  [b EXCEPT !.reversing = TRUE, !.reversingFor = 0]
           [] correction = "emergency" -> [b EXCEPT !.sinceTack = 0]
           [] OTHER -> [b EXCEPT !.stuckFor = 0]

(* Faulty version: a boat in irons tacks at every step.                    *)
ShouldTack_InIronsAtOnce(b, e) ==
    /\ ~NoWayOut(b, e)
    /\ \/ e.reason = "irons"
       \/ e.reason = "away" /\ b.sinceTack > AwayTime
       \/ e.reason = "slow" /\ b.sinceTack > MinTackTime

(* The stronger the reason, the sooner after the last tack it counts.      *)
ShouldTack(b, e) ==
    /\ ~NoWayOut(b, e)
    /\ \/ e.reason = "irons" /\ b.sinceTack > IronsTime
       \/ e.reason = "away" /\ b.sinceTack > AwayTime
       \/ e.reason = "slow" /\ b.sinceTack > MinTackTime

UpdateSailingParameters(b, e) ==
    LET timed == [WeatherShift(b, e) EXCEPT !.sinceTack = OneMore(@, MinTackTime + 1)]
        clear == AvoidLand(timed, e)
    IN IF ShouldTack(clear, e) THEN [clear EXCEPT !.sinceTack = 0, !.tacked = TRUE]
                               ELSE [clear EXCEPT !.tacked = FALSE]

(* The maneuver has taken too long, or it is over.                         *)
TimedOut(b) == b.reversing /\ b.reversingFor >= MaxReverse

Clear(e) == e.zone \in {"safe", "warning"} /\ e.safeHeading

UpdatePosition(b, e) ==
    IF TimedOut(b) THEN [b EXCEPT !.dnf = "reverse", !.reversing = FALSE, !.reversingFor = 0]
    ELSE IF b.reversing /\ Clear(e) THEN [b EXCEPT !.reversing = FALSE, !.reversingFor = 0]
    ELSE b

(* The finish counts once all marks are rounded; the mark that is rounded  *)
(* in the same step is looked at afterwards.                               *)
CheckLineCrossings(b, e) ==
    [b EXCEPT !.finished = @ \/ (b.mark = Marks /\ e.crossesFinish /\ b.dnf # "reverse")]

CheckMarkRounding(b, e) ==
    IF b.mark < Marks /\ e.atMark THEN [b EXCEPT !.mark = @ + 1, !.sinceTack = 0] ELSE b

GenerateTelemetry(b, e) ==
    LET timed == [b EXCEPT !.reversingFor = IF b.reversing THEN @ + 1 ELSE 0]
    IN CheckMarkRounding(CheckLineCrossings(
           UpdatePosition(UpdateSailingParameters(timed, e), e), e), e)

RaceStatus(b) ==
    IF b.dnf # "no" THEN "dnf" ELSE IF b.finished THEN "finished" ELSE "racing"

-----------------------------------------------------------------------------
(* main.py and fleet.py                                                    *)

Init ==
    /\ boat = [b \in Boats |-> NewBoat]
    /\ elapsed = 0 /\ run = "stepping" /\ unsent = {}
    /\ reported = [b \in Boats |-> "nothing"]
    /\ offshore = [b \in Boats |-> 0] /\ sailed = [b \in Boats |-> IronsTime]

(* Boats that have finished or are out are left as they are.               *)
Afloat == {b \in Boats : RaceStatus(boat[b]) = "racing"}

AllBoatsFinished == \A b \in Boats : boat[b].finished

Over == (Duration > 0 /\ elapsed >= Duration) \/ AllBoatsFinished

EndRace ==
    /\ run = "stepping" /\ Over
    /\ run' = "ended"
    /\ UNCHANGED <<boat, elapsed, unsent, reported, offshore, sailed>>

Step ==
    /\ run = "stepping" /\ ~Over
    /\ run' = "sending"
    /\ unsent' = Afloat
    /\ \E e \in [Afloat -> Encounters] :
        /\ boat' = [b \in Boats |-> IF b \in Afloat THEN GenerateTelemetry(boat[b], e[b])
                                                    ELSE boat[b]]
        /\ offshore' = [b \in Boats |->
               IF b \notin Afloat THEN offshore[b]
               ELSE IF e[b].zone \in {"safe", "caution"} THEN 0
               ELSE OneMore(offshore[b], MaxStuck)]
        /\ sailed' = [b \in Boats |->
               IF b \notin Afloat THEN sailed[b]
               ELSE IF boat'[b].tacked THEN 0 ELSE OneMore(sailed[b], IronsTime)]
    /\ UNCHANGED <<elapsed, reported>>

SendTelemetry(b) ==
    /\ run = "sending" /\ b \in unsent
    /\ unsent' = unsent \ {b}
    /\ reported' = [reported EXCEPT ![b] = RaceStatus(boat[b])]
    /\ UNCHANGED <<boat, elapsed, run, offshore, sailed>>

(* The first record that cannot be sent ends the process.                  *)
SendFails ==
    /\ run = "sending" /\ unsent # {}
    /\ run' = "exited"
    /\ UNCHANGED <<boat, elapsed, unsent, reported, offshore, sailed>>

Sleep ==
    /\ run = "sending" /\ unsent = {}
    /\ run' = "stepping"
    /\ elapsed' = IF Duration = 0 THEN OneMore(elapsed, MaxSteps) ELSE elapsed + 1
    /\ UNCHANGED <<boat, unsent, reported, offshore, sailed>>

Next ==
    \/ Step
    \/ \E b \in Boats : SendTelemetry(b)
    \/ SendFails
    \/ Sleep
    \/ EndRace

Spec == Init /\ [][Next]_regattaVars

-----------------------------------------------------------------------------

TypeOK ==
    /\ \A b \in Boats : boat[b].mark \in 0..Marks /\ boat[b].stuckFor \in 0..MaxStuck
    /\ \A b \in Boats : boat[b].delay \in 0..Reaction /\ boat[b].reversingFor \in 0..MaxReverse
    /\ unsent \subseteq Boats /\ run \in {"stepping", "sending", "ended", "exited"}

(* A boat is taken out as stuck only after it was near land for all of     *)
(* max_stuck_time: a step in clear water or under a course correction that *)
(* works ends the count.                                                   *)
StuckIsEarned ==
    \A b \in Boats : boat[b].dnf = "stuck" => offshore[b] >= MaxStuck

(* Between steps everyone who watches the table knows how each boat        *)
(* stands: the last record of a boat that is out or has finished says so.  *)
FateIsReported ==
    run = "stepping" /\ elapsed > 0 =>
        \A b \in Boats : reported[b] = RaceStatus(boat[b])

(* A boat that has tacked does not tack again at once, whatever the reason *)
(* for the second: it would lose its way in tack penalties.                *)
TacksAreApart ==
    [][\A b \in Boats : sailed'[b] = 0 /\ b \in Afloat /\ Step => sailed[b] >= IronsTime]_regattaVars

RegattaSound == TypeOK /\ StuckIsEarned /\ FateIsReported

(* However often the wind goes on shifting, the crew of a boat in the race *)
(* adapts, and is then ready to see the next shift.                        *)
CrewAdapts ==
    \A b \in Boats : []<>(~boat[b].shifted \/ b \notin Afloat \/ run \in {"ended", "exited"})
=============================================================================
