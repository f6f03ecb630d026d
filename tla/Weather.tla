------------------------------- MODULE Weather -------------------------------
(***************************************************************************)
(* demos/data_drifter: the wind that all boats of the regatta share        *)
(* (src/weather.py), and the station that posts it when it has changed     *)
(* enough (src/weather_station.py).  Directions are counted in units of    *)
(* 360 / Circle degrees and wrap around; speeds are whole numbers; times   *)
(* are steps of simulated_time_step.                                       *)
(***************************************************************************)
EXTENDS Integers

CONSTANTS
    Circle,                     \* the number of directions
    Base, Variation,            \* base_wind_direction, wind_direction_variation
    MinSpeed, MaxSpeed,
    SpeedRate, DirectionRate,   \* wind_speed_change_rate, wind_direction_change_rate
    Shifts, SpeedChanges,       \* what frontal passages and gradual shifts may change
    GustIncreases, GustDuration,
    Stability,                  \* next_stability_duration
    SpeedThreshold, DirectionThreshold, TokenLife

(* The wind may turn, and what a shift adds to it, by less than half a     *)
(* circle: config.toml has 90 and 40 degrees, and the defaults less.  The  *)
(* initial speed is drawn two from the limits, which must be two apart.    *)
WeatherAssumption ==
    /\ Circle \in Nat \ {0} /\ Base \in 0..Circle - 1 /\ Variation \in Nat
    /\ 2 * Variation < Circle
    /\ \A c \in Shifts : c \in Nat /\ 2 * (Variation + c) < Circle
    /\ MinSpeed \in Nat /\ MaxSpeed \in Nat /\ MinSpeed + 2 <= MaxSpeed
    /\ SpeedRate \in Nat /\ DirectionRate \in Nat
    /\ SpeedChanges \subseteq Nat /\ GustIncreases \subseteq Nat
    /\ GustDuration \in Nat /\ Stability \in Nat \ {0} /\ TokenLife \in Nat

VARIABLES
    speed, direction,           \* Weather.wind_speed, wind_direction
    event, inState,             \* current_event, time_in_current_state
    target,                     \* target_wind_speed and target_wind_direction
    gust,                       \* gust_start_time, gust_base_speed, gust_peak_speed
    posted,                     \* WeatherStation.last_emitted_*
    table,                      \* event_type of the last record that the service has stored
    token,                      \* steps the cached token is still used
    due                         \* emit_weather of this step is still to come

weatherVars == <<speed, direction, event, inState, target, gust, posted, table,
                 token, due>>

Distance(a, b) ==
    LET d == (a - b) % Circle IN IF d > Circle \div 2 THEN Circle - d ELSE d

(* How far a direction is to the right of another, to the left if negative.*)
Offset(a, b) ==
    LET d == (a - b) % Circle IN IF d > Circle \div 2 THEN d - Circle ELSE d

Within(low, high, x) == IF x < low THEN low ELSE IF x > high THEN high ELSE x
Passages == {"frontal", "gradual"}

EitherWay(changes) == changes \cup {-c : c \in changes}
NoTarget == [speed |-> 0, direction |-> 0]
NoGust == [since |-> 0, base |-> 0, peak |-> 0]

Init ==
    /\ speed \in (MinSpeed + 2 .. MaxSpeed - 2) \cup (MaxSpeed - 2 .. MinSpeed + 2)
    /\ direction \in {(Base + d) % Circle : d \in -(Variation \div 2) .. Variation \div 2}
    /\ event = "stable" /\ inState = 0
    /\ target = NoTarget /\ gust = NoGust
    /\ posted = [event |-> "never", speed |-> 0, direction |-> 0] /\ table = "never"
    /\ token = 0 /\ due = FALSE

Older == token' = IF token > 0 THEN token - 1 ELSE 0

(* The wind of a step: generate_fleet_telemetry updates it, and after the  *)
(* boats' records the station looks at it.                                 *)
Update ==
    /\ ~due /\ due' = TRUE
    /\ Older
    /\ UNCHANGED <<posted, table>>

Settle == event' = "stable" /\ inState' = 0

Stays ==
    /\ Update
    /\ event = "stable" /\ inState + 1 < Stability
    /\ inState' = inState + 1
    /\ UNCHANGED <<speed, direction, event, target, gust>>

ClampTargetDirection(d) == (Base + Within(-Variation, Variation, Offset(d, Base))) % Circle

(* A frontal passage and a gradual shift differ in name and in how far     *)
(* they go.  (That time_in_current_state is counted on meanwhile shows in  *)
(* records only.)                                                          *)
StartShift(passage, change, speedChange) ==
    /\ Update
    /\ event = "stable" /\ inState + 1 >= Stability
    /\ event' = passage
    /\ inState' = inState + 1
    /\ target' = [speed |-> Within(MinSpeed, MaxSpeed, speed + speedChange),
                  direction |-> ClampTargetDirection(direction + change)]
    /\ UNCHANGED <<speed, direction, gust>>

StartSuddenGust(increase) ==
    /\ Update
    /\ event = "stable" /\ inState + 1 >= Stability
    /\ event' = "gust"
    /\ inState' = inState + 1
    /\ gust' = [since |-> 0, base |-> speed,
                peak |-> IF speed + increase > MaxSpeed THEN MaxSpeed ELSE speed + increase]
    /\ UNCHANGED <<speed, direction, target>>

(* The last step is as short as it must be.                                *)
SpeedTowards(from, to) ==
    IF to - from \in -SpeedRate..SpeedRate THEN to
    ELSE IF to > from THEN from + SpeedRate ELSE from - SpeedRate

DirectionTowards(from, to) ==
    LET d == Offset(to, from) IN
    IF d \in -DirectionRate..DirectionRate THEN to
    ELSE (IF d > 0 THEN from + DirectionRate ELSE from - DirectionRate) % Circle

UpdateTransition ==
    /\ Update
    /\ event \in Passages
    /\ speed' = SpeedTowards(speed, target.speed)
    /\ direction' = DirectionTowards(direction, target.direction)
    /\ IF speed' = target.speed /\ direction' = target.direction
       THEN Settle /\ target' = NoTarget
       ELSE UNCHANGED <<event, inState, target>>
    /\ UNCHANGED gust

(* Half a sine wave from the base speed to the peak and back: any speed    *)
(* between the two.                                                        *)
UpdateGust ==
    /\ Update
    /\ event = "gust"
    /\ IF gust.since + 1 >= GustDuration
       THEN /\ speed' = gust.base
            /\ Settle
            /\ gust' = NoGust
       ELSE /\ speed' \in gust.base .. gust.peak
            /\ gust' = [gust EXCEPT !.since = @ + 1]
            /\ UNCHANGED <<event, inState>>
    /\ UNCHANGED <<direction, target>>

-----------------------------------------------------------------------------

SpeedDistance(a, b) == IF a > b THEN a - b ELSE b - a

(* Faulty version: the event does not count, and a passage ends unnoticed  *)
(* when the wind has hardly changed since the last record.                 *)
ShouldEmit_ValuesOnly ==
    \/ posted.event = "never"
    \/ SpeedDistance(speed, posted.speed) >= SpeedThreshold
    \/ Distance(direction, posted.direction) >= DirectionThreshold

ShouldEmit ==
    \/ posted.event = "never"
    \/ SpeedDistance(speed, posted.speed) >= SpeedThreshold
    \/ Distance(direction, posted.direction) >= DirectionThreshold
    \/ event # posted.event

EmitWeather ==
    /\ due /\ due' = FALSE
    /\ UNCHANGED <<speed, direction, event, inState, target, gust>>

NothingToEmit ==
    /\ EmitWeather /\ ~ShouldEmit
    /\ UNCHANGED <<posted, table, token>>

(* The token is fetched when the cached one is about to expire.            *)
Posts ==
    /\ EmitWeather /\ ShouldEmit
    /\ posted' = [event |-> event, speed |-> speed, direction |-> direction]
    /\ table' = event
    /\ token' = IF token > 0 THEN token ELSE TokenLife

(* No token, or no answer, or none with status 200: the values stay those  *)
(* of the last success, and the next step tries again with its own.  The   *)
(* service may have stored the record all the same.                        *)
PostFails ==
    /\ EmitWeather /\ ShouldEmit
    /\ token' \in IF token > 0 THEN {token} ELSE {0, TokenLife}
    /\ table' \in IF token' > 0 THEN {table, event} ELSE {table}
    /\ UNCHANGED posted

Next ==
    \/ Stays
    \/ \E p \in Passages, d \in EitherWay(Shifts), s \in EitherWay(SpeedChanges) :
           StartShift(p, d, s)
    \/ \E i \in GustIncreases : StartSuddenGust(i)
    \/ UpdateTransition
    \/ UpdateGust
    \/ NothingToEmit
    \/ Posts
    \/ PostFails

-----------------------------------------------------------------------------

TypeOK ==
    /\ direction \in 0..Circle - 1 /\ event \in Passages \cup {"stable", "gust"}
    /\ inState \in 0..Stability /\ token \in 0..TokenLife /\ due \in BOOLEAN

(* Through all shifts, gusts and turns over north the wind stays in the    *)
(* band that the race is configured for: no gust adds up with a shift, and *)
(* no transition goes the long way around.                                 *)
WindStaysInBand ==
    /\ speed \in MinSpeed..MaxSpeed
    /\ Distance(direction, Base) <= Variation

(* Every shift and every gust comes to its end; and once requests fail no  *)
(* more, the table keeps coming back to a steady wind when the wind does,  *)
(* whatever was stored, refused or left without an answer before.          *)
EventsEnd ==
    /\ []<>(event = "stable")
    /\ <>[][~PostFails]_weatherVars => []<>(event = "stable" /\ table = "stable")

WeatherSound == TypeOK /\ WindStaysInBand
=============================================================================
