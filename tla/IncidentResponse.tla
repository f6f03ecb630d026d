-------------------------- MODULE IncidentResponse --------------------------
(***************************************************************************)
(* core/incident_response.py: rules turn security events into alerts, an   *)
(* alert joins a similar open incident or opens a new one, responders are  *)
(* told of new incidents, and every incident is a JSON file that a restart *)
(* reads back.  One day is modelled, so the date of an identifier is left  *)
(* out and INC-<date>-<n> is n.  Events and alerts have numbers, so that   *)
(* lists of them can be sets.  Events carry their UTC time; the process    *)
(* runs at an offset from UTC that does not change.                        *)
(***************************************************************************)
EXTENDS Integers, Sequences, FiniteSets

CONSTANTS
    EventCategories,     \* event_category, with the role and MFA details rules look at
    Origins,             \* the pairs of user and source_ip of events
    CategoryOf,          \* [EventCategories -> IncidentCategory]
    Rules,               \* the enabled rules, in the order detect_incident tries them
    MaxAge,              \* max_age_seconds of the event buffer
    Offsets,             \* how far the local time may be ahead of UTC
    MaxTime, MaxEvents, MaxUpdates, MaxCrashes    \* bounds of the model

(* A rule names the event categories it applies to, those its threshold    *)
(* counts, the timeframe and the fields that must agree.  Threshold 0      *)
(* stands for a rule without one.                                          *)
RulesAssumption ==
    /\ Rules \in Seq([severity : {Rules[i].severity : i \in DOMAIN Rules},
                      applies : SUBSET EventCategories, counts : SUBSET EventCategories,
                      threshold : Nat, timeframe : Nat,
                      groupBy : SUBSET {"user", "source"}])
    /\ \A i \in DOMAIN Rules : Rules[i].applies \subseteq Rules[i].counts
    /\ \A o \in Origins : o = <<o[1], o[2]>>
    /\ {MaxAge, MaxTime, MaxEvents, MaxUpdates, MaxCrashes} \subseteq Nat
    /\ Offsets \subseteq Int

VARIABLES
    now,          \* time.time()
    offset,       \* how far the local time is ahead of UTC, fixed
    buffer,       \* IncidentDetector.event_buffer
    seen,         \* history: every event since the process started
    incidents,    \* IncidentManager.active_incidents
    raised,       \* history: alerts since the process started
    files,        \* incident_dir: what each file holds
    saving,       \* the incident whose file is open for writing, 0 if none
    telling,      \* the incidents whose notifications are being sent
    reopened,     \* history: incidents that were open again after their end
    received, updates, crashes

vars == <<now, offset, buffer, seen, incidents, raised, files, saving, telling,
          reopened, received, updates, crashes>>

NoTime == -1      \* _parse_timestamp returns None
Torn == [status |-> "torn"]    \* a file emptied by open(..., 'w') and not written

Statuses == {"detected", "resolved"}     \* the open and the final ones

Events == {[category |-> c, user |-> o[1], source |-> o[2], time |-> t,
            number |-> received + 1] :
               c \in EventCategories, o \in Origins, t \in {now, NoTime}}

Init ==
    /\ now = 0 /\ offset \in Offsets /\ buffer = {} /\ seen = {}
    /\ incidents = <<>> /\ raised = 0 /\ files = <<>> /\ saving = 0
    /\ telling = {} /\ reopened = {} /\ received = 0 /\ updates = 0 /\ crashes = 0

(* _parse_timestamp drops the "Z" of a UTC time and reads it as local.     *)
ParseTimestamp(time) == time - offset

(* What a rule counts together with e, e itself included.                  *)
Counted(b, e, r) == b.category \in r.counts /\ \A f \in r.groupBy : b[f] = e[f]

Count(e, r, events) ==
    Cardinality({b \in events :
        /\ b.time # NoTime /\ ParseTimestamp(b.time) >= now - r.timeframe
        /\ Counted(b, e, r)})

Matching(e, events) ==
    {i \in DOMAIN Rules : /\ e.category \in Rules[i].applies
                          /\ Count(e, Rules[i], events) >= Rules[i].threshold}

(* The first rule that matches decides severity and description.           *)
Alert(e, events) ==
    LET first == CHOOSE i \in Matching(e, events) :
                     \A j \in Matching(e, events) : i <= j
    IN  [category |-> CategoryOf[e.category], severity |-> Rules[first].severity,
         user |-> e.user, source |-> e.source]

(* Faulty version: events of the whole window are dropped too.             *)
Cleaned_Boundary(events) == {b \in events : ParseTimestamp(b.time) > now - MaxAge + 1}

Cleaned(events) == {b \in events : ParseTimestamp(b.time) > now - MaxAge}

Open(i) == incidents[i].status # "resolved"

Alike(a, b) ==
    /\ a.category = b.category /\ a.severity = b.severity
    /\ a.user = b.user \/ a.source = b.source

Similar(alert) == {i \in DOMAIN incidents : Open(i) /\ Alike(incidents[i], alert)}

NextId == Cardinality(DOMAIN incidents) + 1

Put(function, key, value) ==
    [k \in DOMAIN function \cup {key} |-> IF k = key THEN value ELSE function[k]]

Receive(e) ==
    /\ saving = 0
    /\ received < MaxEvents
    /\ received' = received + 1
    /\ seen' = seen \cup {e}
    /\ UNCHANGED <<now, offset, files, reopened, updates, crashes>>

Unreadable(events) == \E b \in events : b.time = NoTime

(* The age of an event without a readable timestamp cannot be compared:    *)
(* the cleanup raises, and since the event stays in the buffer it raises   *)
(* for every later event too.                                              *)
CleanupRaises(e) ==
    /\ Receive(e)
    /\ buffer' = buffer \cup {e}
    /\ Unreadable(buffer')
    /\ UNCHANGED <<incidents, raised, saving, telling>>

NoAlert(e) ==
    /\ Receive(e)
    /\ ~Unreadable(buffer \cup {e})
    /\ buffer' = Cleaned(buffer \cup {e})
    /\ Matching(e, buffer') = {}
    /\ UNCHANGED <<incidents, raised, saving, telling>>

(* The order of the table is that of the directory after a restart, so any *)
(* similar incident may be the first.                                      *)
JoinSimilar(e) ==
    /\ Receive(e)
    /\ ~Unreadable(buffer \cup {e})
    /\ buffer' = Cleaned(buffer \cup {e})
    /\ Matching(e, buffer') # {}
    /\ raised' = raised + 1
    /\ \E i \in Similar(Alert(e, buffer')) :
           /\ incidents' = [incidents EXCEPT ![i].alerts = @ \cup {raised'}]
           /\ saving' = i
    /\ UNCHANGED telling

CreateIncident(e) ==
    /\ Receive(e)
    /\ ~Unreadable(buffer \cup {e})
    /\ buffer' = Cleaned(buffer \cup {e})
    /\ Matching(e, buffer') # {}
    /\ raised' = raised + 1
    /\ LET alert == Alert(e, buffer') IN
           /\ Similar(alert) = {}
           /\ incidents' = Put(incidents, NextId,
                  [category |-> alert.category, severity |-> alert.severity,
                   user |-> alert.user, source |-> alert.source,
                   status |-> "detected", alerts |-> {raised'}])
           /\ telling' = telling \cup {NextId}
    /\ saving' = NextId

UpdateIncident(i, status) ==
    /\ saving = 0
    /\ updates < MaxUpdates
    /\ updates' = updates + 1
    /\ incidents' = [incidents EXCEPT ![i].status = status]
    /\ reopened' = IF ~Open(i) /\ status # "resolved" THEN reopened \cup {i} ELSE reopened
    /\ saving' = i
    /\ UNCHANGED <<now, offset, buffer, seen, raised, files, telling, received, crashes>>

SaveIncident ==
    /\ saving # 0
    /\ files' = Put(files, saving, incidents[saving])
    /\ saving' = 0
    /\ UNCHANGED <<now, offset, buffer, seen, incidents, raised, telling, reopened, received, updates, crashes>>

(* A channel that fails is logged, and nobody tries it again.              *)
SendNotification(i) ==
    /\ saving = 0
    /\ telling' = telling \ {i}
    /\ UNCHANGED <<now, offset, buffer, seen, incidents, raised, files, saving, reopened, received, updates, crashes>>

(* A restart reads the files that can be read, without their alerts, and   *)
(* knows nothing of the events and of the notifications not sent yet.      *)
Restart ==
    /\ crashes < MaxCrashes
    /\ crashes' = crashes + 1
    /\ files' = IF saving = 0 THEN files ELSE Put(files, saving, Torn)
    /\ incidents' = [i \in {k \in DOMAIN files' : files'[k] # Torn} |->
                         [files'[i] EXCEPT !.alerts = {}]]
    /\ buffer' = {} /\ seen' = {} /\ raised' = 0 /\ saving' = 0 /\ telling' = {}
    /\ UNCHANGED <<now, offset, reopened, received, updates>>

Tick ==
    /\ now < MaxTime
    /\ now' = now + 1
    /\ UNCHANGED <<offset, buffer, seen, incidents, raised, files, saving, telling,
                   reopened, received, updates, crashes>>

Next ==
    \/ \E e \in Events : CleanupRaises(e)
    \/ \E e \in Events : NoAlert(e)
    \/ \E e \in Events : JoinSimilar(e)
    \/ \E e \in Events : CreateIncident(e)
    \/ \E i \in DOMAIN incidents, s \in Statuses : UpdateIncident(i, s)
    \/ SaveIncident
    \/ \E i \in telling : SendNotification(i)
    \/ Restart
    \/ Tick

Spec == Init /\ [][Next]_vars

-----------------------------------------------------------------------------

Torns == {i \in DOMAIN files : files[i] = Torn}

TypeOK ==
    /\ now \in 0..MaxTime /\ offset \in Offsets /\ buffer \subseteq seen
    /\ \A b \in seen : b.number \in 1..received
    /\ raised \in 0..MaxEvents /\ saving \in DOMAIN incidents \cup {0}
    /\ \A i \in DOMAIN incidents :
           incidents[i].status \in Statuses /\ <<incidents[i].user, incidents[i].source>> \in Origins
    /\ telling \subseteq DOMAIN incidents

(* Responders work on one incident for one matter: no two open incidents   *)
(* agree in category, severity and user or source, whatever was detected,  *)
(* joined, resolved, lost or read back, unless somebody reopened one.      *)
OneIncidentPerMatter ==
    \A i, j \in DOMAIN incidents :
        i # j /\ Open(i) /\ Open(j) /\ Alike(incidents[i], incidents[j])
            => {i, j} \cap reopened # {}

(* Every alert since the start is on one incident, as long as all files    *)
(* could be read: the number of incidents makes the next identifier, and   *)
(* with a torn file it may be that of another incident.                    *)
AlertsAreKept ==
    Torns = {} =>
        \A a \in 1..raised : \E i \in DOMAIN incidents :
            \A j \in DOMAIN incidents : a \in incidents[j].alerts <=> j = i

IncidentsSound == TypeOK /\ OneIncidentPerMatter /\ AlertsAreKept

(* By how much an event looks older than it is.                            *)
Late == IF offset > 0 THEN offset ELSE 0

(* With its companions since the start, none older than a rule's timeframe *)
(* and the buffer's age allow, less what the offset takes away, event e    *)
(* reaches the threshold.                                                  *)
Burst(e, i) ==
    /\ e.category \in Rules[i].applies
    /\ Cardinality({b \in seen' : /\ b.time >= now - Rules[i].timeframe + Late
                                  /\ b.time > now - MaxAge + Late
                                  /\ Counted(b, e, Rules[i])}) >= Rules[i].threshold

(* There is an open incident of its category and of its user or source, as *)
(* severe as that rule or one that is tried before it says.                *)
Answered(e, i) ==
    \E k \in DOMAIN incidents' :
        /\ incidents'[k].status # "resolved"
        /\ incidents'[k].category = CategoryOf[e.category]
        /\ incidents'[k].user = e.user \/ incidents'[k].source = e.source
        /\ \E j \in 1..i : incidents'[k].severity = Rules[j].severity

(* A burst is answered at once although the detector counts in a buffer it *)
(* trims and by ages it reads wrongly: east of UTC it takes events for     *)
(* older than they are, so that much of each timeframe is lost, and the    *)
(* same with the whole timeframe does not hold.                            *)
BurstIsAnswered ==
    [][ \A e \in Events, i \in DOMAIN Rules :
          seen' = seen \cup {e} /\ ~Unreadable(seen') /\ Burst(e, i)
          => Answered(e, i)
      ]_vars
=============================================================================
