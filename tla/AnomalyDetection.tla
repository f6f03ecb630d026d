-------------------------- MODULE AnomalyDetection --------------------------
(***************************************************************************)
(* core/anomaly_detection.py: a metric is compared with the mean and the   *)
(* deviation of a window that already holds the new sample, a login with   *)
(* the usual hours and the known addresses of its user.  All statistics    *)
(* are exact: with n values, sum S and sum of squares Q, the value v lies  *)
(* z standard deviations off the mean where                                *)
(*     z * z = (n v - S)^2 (n - 1) / (n (n Q - S^2)).                      *)
(* One metric or one user is watched: they share nothing but the table of  *)
(* anomalies.                                                              *)
(***************************************************************************)
EXTENDS Integers, Sequences, FiniteSets, Functions

CONSTANTS
    Values,          \* the metric's values
    Hours,           \* the hours of logins
    Addresses,
    WindowSize,      \* window_size
    MinSamples,      \* 30: samples before there is a baseline
    MinLogins,       \* 30: logins before hours are compared
    MaxLogins,       \* 100: logins that are compared
    FewAddresses,    \* 5: addresses that raise no anomaly
    MaxEvents,       \* bounds of the model: events of each thing watched,
    MaxTime, MaxRestarts

(* The code has 30 samples and 100 logins.  In fewer than eleven samples   *)
(* none lies three deviations off; in some thousands of logins a single    *)
(* one on the other side of midnight would lie two off.                    *)
CountsAssumption ==
    /\ WindowSize \in Nat /\ MinSamples \in 11..WindowSize
    /\ MaxLogins \in 2..805 /\ MinLogins \in 2..MaxLogins
    /\ Values \subseteq Int /\ Hours \subseteq 0..23

VARIABLES
    watched,      \* what this behaviour watches: "metric" or "user"
    now,          \* time.time() in seconds
    learned,      \* is_learning_complete()
    window,       \* metric_windows[metric]
    hours,        \* user_login_times[user]
    addresses,    \* user_ip_addresses[user]
    anomalies,    \* AnomalyManager.anomalies: the severity under each identifier
    alarm,        \* what the last event raised, "none" or a severity
    events, restarts

vars == <<watched, now, learned, window, hours, addresses, anomalies, alarm, events, restarts>>

Init ==
    /\ watched \in {"metric", "user"}
    /\ now = 0 /\ learned = FALSE
    /\ window = <<>> /\ hours = <<>> /\ addresses = {}
    /\ anomalies = <<>> /\ alarm = "none" /\ events = 0 /\ restarts = 0

Sums(s) ==
    LET sum[n \in 0..Len(s)] == IF n = 0 THEN 0 ELSE sum[n - 1] + s[n] IN sum
Sum(s) == Sums(s)[Len(s)]
Squares(s) == Sum([i \in DOMAIN s |-> s[i] * s[i]])

(* n n (n - 1) times the variance of a sequence, 0 iff all are equal.      *)
Spread(s) == Len(s) * (Len(s) * Squares(s) - Sum(s) * Sum(s))

(* Whether a distance, given as n times it, is at least num/den deviations.*)
AtLeast(distance, s, num, den) ==
    den * den * distance * distance * (Len(s) - 1) >= num * num * Spread(s)

Abs(x) == IF x < 0 THEN -x ELSE x

Distance(v, s) == Abs(Len(s) * v - Sum(s))

(* detect_anomaly: no baseline, or one without deviation, raises nothing.  *)
Severity(v, s) ==
    IF Len(s) < MinSamples \/ Spread(s) = 0 \/ ~AtLeast(Distance(v, s), s, 3, 2) THEN "none"
    ELSE IF AtLeast(Distance(v, s), s, 3, 1) THEN "critical"
    ELSE IF AtLeast(Distance(v, s), s, 2, 1) THEN "high" ELSE "medium"

LastOf(s, n) == SubSeq(s, IF Len(s) > n THEN Len(s) - n + 1 ELSE 1, Len(s))

Added(v) == LastOf(Append(window, v), WindowSize)

(* Identifiers are made of the second and the kind: a second anomaly of    *)
(* the same second replaces the first.                                     *)
Record(kind, severity) ==
    /\ alarm' = severity
    /\ anomalies' =
           IF severity = "none" THEN anomalies
           ELSE [i \in DOMAIN anomalies \cup {<<now, kind>>} |->
                     IF i = <<now, kind>> THEN severity ELSE anomalies[i]]

Event ==
    /\ events < MaxEvents[watched]
    /\ events' = events + 1
    /\ UNCHANGED <<watched, now, learned, restarts>>

(* Creating an incident from the anomaly imports a name that does not      *)
(* exist; the exception is caught and nothing else changes.                *)
PerformanceMetric(v) ==
    /\ watched = "metric"
    /\ Event
    /\ window' = Added(v)
    /\ Record("metric", IF learned THEN Severity(v, window') ELSE "none")
    /\ UNCHANGED <<hours, addresses>>

(* The distance between two hours goes round midnight, the mean and the    *)
(* deviation of the hours do not.                                          *)
Round(distance, n) == IF distance > 12 * n THEN 24 * n - distance ELSE distance

UnusualHour(h, s) ==
    LET recent == LastOf(s, MaxLogins)
        distance == Round(Distance(h, recent), Len(recent))
    IN  /\ Len(s) >= MinLogins /\ Spread(recent) > 0
        /\ AtLeast(distance, recent, 2, 1)
        /\ 4 * Spread(recent) # distance * distance * (Len(recent) - 1)

(* A login at an unusual hour returns before its address is looked at.     *)
LoginAtUnusualHour(h) ==
    /\ watched = "user"
    /\ Event
    /\ hours' = Append(hours, h)
    /\ UnusualHour(h, hours')
    /\ Record("time", "medium")
    /\ UNCHANGED <<window, addresses>>

Login(h, a) ==
    /\ watched = "user"
    /\ Event
    /\ hours' = Append(hours, h)
    /\ ~UnusualHour(h, hours')
    /\ addresses' = addresses \cup {a}
    /\ Record("geo", IF a \notin addresses /\ Cardinality(addresses') > FewAddresses
                       THEN "high" ELSE "none")
    /\ UNCHANGED window

(* Logins do not ask whether learning is complete.                         *)
LearningCompletes ==
    /\ ~learned /\ watched = "metric"
    /\ learned' = TRUE
    /\ UNCHANGED <<watched, now, window, hours, addresses, anomalies, alarm, events, restarts>>

Tick ==
    /\ now < MaxTime
    /\ now' = now + 1
    /\ UNCHANGED <<watched, learned, window, hours, addresses, anomalies, alarm, events, restarts>>

(* Neither baselines nor anomalies are read back, and learning starts anew.*)
Restart ==
    /\ restarts < MaxRestarts
    /\ restarts' = restarts + 1
    /\ learned' = FALSE /\ window' = <<>> /\ hours' = <<>> /\ addresses' = {}
    /\ anomalies' = <<>> /\ alarm' = "none"
    /\ UNCHANGED <<watched, now, events>>

Next ==
    \/ \E v \in Values : PerformanceMetric(v)
    \/ \E h \in Hours : LoginAtUnusualHour(h)
    \/ \E h \in Hours, a \in Addresses : Login(h, a)
    \/ LearningCompletes
    \/ Tick
    \/ Restart

Spec == Init /\ [][Next]_vars

-----------------------------------------------------------------------------

TypeOK ==
    /\ Len(window) <= WindowSize /\ Range(window) \subseteq Values
    /\ Range(hours) \subseteq Hours /\ addresses \subseteq Addresses
    /\ Range(anomalies) \subseteq {"critical", "high", "medium"}
    /\ alarm \in Range(anomalies) \cup {"none"}

(* The first sample that leaves a constant metric is a critical anomaly,   *)
(* although it is already part of the baseline it is compared with: the    *)
(* minimum of samples is large enough for three deviations.                *)
FirstOutlierIsCritical ==
    [][\A v \in Values :
          /\ events' = events + 1 /\ learned /\ window' = Added(v) /\ watched = "metric"
          /\ Len(window') >= MinSamples
          /\ \A i \in 1..(Len(window') - 1) : window'[i] # v /\ window'[i] = window'[1]
          => alarm' = "critical"]_vars

(* Midnight is no jump: a user who only ever logs in in the last hour of   *)
(* the day and the first of the next never raises a time anomaly.          *)
MidnightIsNoJump ==
    Range(hours) \subseteq {23, 0} => \A i \in DOMAIN anomalies : i[2] # "time"

(* Who keeps a level is left in peace: when the whole window holds one     *)
(* value, the last event raised nothing.                                   *)
ConstantIsQuiet ==
    watched = "metric" /\ Cardinality(Range(window)) = 1 => alarm = "none"

AnomaliesSound == TypeOK /\ MidnightIsNoJump /\ ConstantIsQuiet
=============================================================================
