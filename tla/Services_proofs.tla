---------------------------- MODULE Services_proofs ----------------------------
(***************************************************************************)
(* Proofs about the services around the bridge, each alone and all of them *)
(* in Services, for every value of their constants:                        *)
(*   - there is one open incident per matter, no alert is lost, and what   *)
(*     reaches a threshold is answered, whatever was trimmed, torn or      *)
(*     restarted;                                                          *)
(*   - triage survives scans and restarts, and what was there all through  *)
(*     a scan is open after it;                                            *)
(*   - the first outlier of a constant metric is critical, and neither a   *)
(*     constant metric nor midnight raises anything;                       *)
(*   - a credential that was stored while one manager ran is the one that  *)
(*     is read after any restart;                                          *)
(*   - a restart brings back the sources of the bridge;                    *)
(*   - TLS comes up without certificates only after trouble;               *)
(*   - the log files stay consecutive, compressed with age, and nothing is *)
(*     lost but what is older than the backups or could not be rolled over;*)
(*   - nothing is encrypted twice, and everything that is encrypted can be *)
(*     decrypted with the key in the file.                                 *)
(***************************************************************************)
EXTENDS Services, Integers, FiniteSets, SequencesExt, SequenceTheorems,
        FiniteSetTheorems, WellFoundedInduction, TLAPS

-----------------------------------------------------------------------------
(* Natural numbers                                                         *)

(* A set of numbers that is not empty has a least one: what the proofs have *)
(* for induction along a recursive function.                               *)
LEMMA LeastNat ==
  ASSUME NEW N \in SUBSET Nat, N # {}
  PROVE  \E x \in N : \A y \in N : x <= y
<1> DEFINE R == OpToRel(<, Nat)
<1>1. IsWellFoundedOn(R, Nat)
  BY NatLessThanWellFounded, Zenon
<1>2. \A x, y \in Nat : y < x => <<y, x>> \in R
  BY DEF OpToRel
<1> HIDE DEF R
<1>3. PICK x \in N : \A y \in N : ~ (<<y, x>> \in R)
  BY <1>1, WFMin, Zenon
<1>4. x \in Nat /\ N \subseteq Nat
  OBVIOUS
<1>5. ASSUME NEW y \in N PROVE x <= y
  <2>1. y \in Nat
    OBVIOUS
  <2>2. ~ (y < x)
    BY <1>2, <1>3, <1>4, <2>1, Zenon
  <2> QED BY <1>4, <2>1, <2>2
<1> QED BY <1>5, Zenon

(* A set that has 0 and with every number the next one has them all.       *)
LEMMA SetInduction ==
  ASSUME NEW S \in SUBSET Nat, 0 \in S, \A n \in S : n + 1 \in S
  PROVE  S = Nat
<1> SUFFICES ASSUME Nat \ S # {} PROVE FALSE
  OBVIOUS
<1>1. PICK x \in Nat \ S : \A y \in Nat \ S : x <= y
  BY LeastNat
<1>2. x # 0 /\ x - 1 \in Nat /\ x - 1 \in S
  BY <1>1
<1> QED BY <1>2, <1>1
-----------------------------------------------------------------------------
(* IncidentResponse                                                        *)

Incident ==
  {r \in [category : {CategoryOf[c] : c \in EventCategories},
          severity : {Rules[i].severity : i \in DOMAIN Rules},
          user : {o[1] : o \in Origins}, source : {o[2] : o \in Origins},
          status : I!Statuses, alerts : SUBSET Nat] :
     <<r.user, r.source>> \in Origins}

IncidentTypes ==
  /\ i_now \in 0 .. IncidentTime /\ offset \in Offsets \cap Int /\ received \in 0 .. IncidentEvents
  /\ raised \in 0 .. received
  /\ incidents \in [DOMAIN incidents -> Incident]
  /\ i_files \in [DOMAIN i_files -> Incident \cup {I!Torn}]
  /\ i_saving \in DOMAIN incidents \cup {0}
  /\ telling \subseteq DOMAIN incidents

(* What makes an incident open, and another one similar to it. *)
Matter(r) == <<r.category, r.severity, r.user, r.source, r.status>>

(* Incidents and files are numbered without gaps; the file of an incident  *)
(* that is not being written tells its matter, and a file without an       *)
(* incident is torn.                                                       *)
Numbered == \E m \in Nat : DOMAIN incidents \cup DOMAIN i_files = 1 .. m

Filed ==
  \A i \in DOMAIN incidents \cup DOMAIN i_files :
    i # i_saving =>
      /\ i \in DOMAIN i_files
      /\ IF i \in DOMAIN incidents
         THEN i_files[i] # I!Torn /\ Matter(i_files[i]) = Matter(incidents[i])
         ELSE i_files[i] = I!Torn

(* The buffer has lost events only to their age, as the process reads it. *)
Heard ==
  /\ buffer \subseteq seen /\ IsFiniteSet(seen)
  /\ \A b \in seen : b.number \in 1 .. received /\ b.time \in Int
  /\ \A b \in seen \ buffer : b.time - offset <= i_now - MaxAge

(* An alert can only be lost once the next identifier is taken, and then   *)
(* it stays taken: the gap that a torn file left is not filled any more.   *)
OnOneIncident(a) ==
  \E i \in DOMAIN incidents : \A j \in DOMAIN incidents : a \in incidents[j].alerts <=> j = i

AlertsInv ==
  /\ \A i \in DOMAIN incidents : incidents[i].alerts \subseteq 1 .. raised
  /\ I!NextId \in DOMAIN incidents \/ \A a \in 1 .. raised : OnOneIncident(a)

IncidentInv ==
  /\ IncidentTypes /\ Numbered /\ Filed /\ Heard /\ I!OneIncidentPerMatter /\ AlertsInv

LEMMA CardinalityIsOne == \A S : I!Cardinality(S) = Cardinality(S)
BY DEF I!Cardinality, Cardinality

LEMMA NextIdFacts ==
  ASSUME NEW m \in Nat, DOMAIN incidents \cup DOMAIN i_files = 1 .. m
  PROVE  /\ I!NextId \in 1 .. m + 1
         /\ DOMAIN incidents = 1 .. m => I!NextId = m + 1
<1>1. IsFiniteSet(1 .. m) /\ Cardinality(1 .. m) = m
  BY FS_Interval
<1>2. DOMAIN incidents \subseteq 1 .. m
  OBVIOUS
<1>3. Cardinality(DOMAIN incidents) \in Nat /\ Cardinality(DOMAIN incidents) <= m
  BY <1>1, <1>2, FS_Subset, FS_CardinalityType
<1> QED BY <1>1, <1>3, CardinalityIsOne DEF I!NextId

LEMMA AlertFacts ==
  ASSUME I!RulesAssumption, NEW e \in I!Events, NEW B, I!Matching(e, B) # {}
  PROVE  /\ I!Alert(e, B).category \in {CategoryOf[c] : c \in EventCategories}
         /\ I!Alert(e, B).severity \in {Rules[i].severity : i \in DOMAIN Rules}
         /\ I!Alert(e, B).user \in {o[1] : o \in Origins}
         /\ I!Alert(e, B).source \in {o[2] : o \in Origins}
         /\ <<I!Alert(e, B).user, I!Alert(e, B).source>> \in Origins
         /\ I!Alert(e, B).category = CategoryOf[e.category]
         /\ I!Alert(e, B).user = e.user /\ I!Alert(e, B).source = e.source
         /\ \A i \in I!Matching(e, B) :
              \E j \in 1 .. i : I!Alert(e, B).severity = Rules[j].severity
<1>1. PICK c \in EventCategories, o \in Origins :
       e.category = c /\ e.user = o[1] /\ e.source = o[2]
  BY DEF I!Events
<1>2. DOMAIN Rules \subseteq Nat \ {0}
  <2>1. \E S : Rules \in Seq(S)
    BY DEF I!RulesAssumption
  <2> QED BY <2>1
<1> DEFINE M == I!Matching(e, B)
           first == CHOOSE i \in M : \A j \in M : i <= j
<1>3. M \subseteq DOMAIN Rules
  BY DEF I!Matching
<1>4. M \in SUBSET Nat /\ M # {}
  BY <1>2, <1>3
<1>5. \E i \in M : \A j \in M : i <= j
  <2> HIDE DEF M
  <2> QED BY <1>4, LeastNat
<1>6. first \in DOMAIN Rules /\ \A i \in M : first \in 1 .. i
  <2>1. first \in M /\ \A i \in M : first <= i
    <3> HIDE DEF M
    <3> QED BY <1>5
  <2>2. first \in DOMAIN Rules
    BY <1>3, <2>1
  <2>3. ASSUME NEW i \in M PROVE first \in 1 .. i
    <3>1. first \in Nat \ {0} /\ i \in Nat
      BY <1>2, <1>3, <2>1
    <3> HIDE DEF M, first
    <3> QED BY <2>1, <2>3, <3>1
  <2> QED BY <2>2, <2>3
<1>7. I!Alert(e, B) = [category |-> CategoryOf[e.category], severity |-> Rules[first].severity,
                       user |-> e.user, source |-> e.source]
  BY DEF I!Alert
<1>8. <<o[1], o[2]>> \in Origins
  BY DEF I!RulesAssumption
<1> HIDE DEF first
<1> QED BY <1>1, <1>6, <1>7, <1>8

(* The events of a step do not depend on what it has done to the buffer. *)
LEMMA EventFacts ==
  ASSUME IncidentTypes, NEW e \in I!Events
  PROVE  e.time \in Int /\ e.number = received + 1 /\ e.number \in Nat
BY DEF I!Events, IncidentTypes, I!NoTime

LEMMA ReceiveKeepsHeard ==
  ASSUME I!RulesAssumption, IncidentTypes, Heard, NEW e \in I!Events, I!Receive(e),
         \/ buffer' = buffer \cup {e}
         \/ ~I!Unreadable(buffer \cup {e}) /\ buffer' = I!Cleaned(buffer \cup {e})
  PROVE  Heard'
<1>1. /\ seen' = seen \cup {e} /\ i_now' = i_now /\ offset' = offset
      /\ received' = received + 1
  BY DEF I!Receive
<1>2. received \in Nat /\ offset \in Int /\ i_now \in Nat /\ MaxAge \in Nat
  BY DEF IncidentTypes, I!RulesAssumption
<1>3. buffer' \subseteq buffer \cup {e}
  BY DEF I!Cleaned
<1>4. \A b \in seen' : b.number \in 1 .. received' /\ b.time \in Int
  BY <1>1, <1>2, EventFacts DEF Heard
<1>5. \A b \in seen' \ buffer' : b.time - offset' <= i_now' - MaxAge
  <2> SUFFICES ASSUME NEW b \in seen' \ buffer' PROVE b.time - offset <= i_now - MaxAge
    BY <1>1
  <2>1. CASE b \in seen \ buffer
    BY <2>1 DEF Heard
  <2>2. CASE b \in buffer \cup {e}
    <3>1. ~(b.time - offset > i_now - MaxAge)
      BY <2>2 DEF I!Cleaned, I!ParseTimestamp
    <3> QED BY <1>2, <1>4, <3>1
  <2> QED BY <1>1, <2>1, <2>2
<1>6. IsFiniteSet(seen')
  BY <1>1, FS_AddElement DEF Heard
<1> QED BY <1>1, <1>3, <1>4, <1>5, <1>6 DEF Heard

LEMMA ReceiveTypes ==
  ASSUME I!RulesAssumption, IncidentTypes, NEW e \in I!Events, I!Receive(e)
  PROVE  received' \in 0 .. IncidentEvents /\ received' = received + 1 /\ raised \in 0 .. received'
         /\ raised + 1 \in 0 .. received' /\ i_saving = 0
BY DEF IncidentTypes, I!Receive, I!RulesAssumption

(* An event that raises no alert leaves the incidents alone. *)
LEMMA NoAlertKeeps ==
  ASSUME I!RulesAssumption, IncidentInv, NEW e \in I!Events, I!CleanupRaises(e) \/ I!NoAlert(e)
  PROVE  IncidentInv'
<1>1. /\ I!Receive(e) /\ UNCHANGED <<incidents, raised, i_saving, telling>>
      /\ UNCHANGED <<i_now, offset, i_files, reopened>>
  BY DEF I!CleanupRaises, I!NoAlert, I!Receive
<1>2. Heard'
  BY <1>1, ReceiveKeepsHeard DEF IncidentInv, I!CleanupRaises, I!NoAlert
<1>3. IncidentTypes'
  BY <1>1, ReceiveTypes DEF IncidentInv, IncidentTypes, I!Torn
<1>4. Numbered' /\ Filed'
  BY <1>1 DEF IncidentInv, Numbered, Filed, Matter, I!Torn
<1>5. I!OneIncidentPerMatter'
  BY <1>1 DEF IncidentInv, I!OneIncidentPerMatter, I!Open
<1>6. AlertsInv'
  BY <1>1 DEF IncidentInv, AlertsInv, OnOneIncident, I!NextId
<1> QED BY <1>2, <1>3, <1>4, <1>5, <1>6 DEF IncidentInv

LEMMA MatterFacts ==
  ASSUME NEW r, NEW s, Matter(r) = Matter(s)
  PROVE  /\ r.category = s.category /\ r.severity = s.severity /\ r.user = s.user
         /\ r.source = s.source /\ r.status = s.status
BY DEF Matter

LEMMA SameMatters ==
  ASSUME I!OneIncidentPerMatter, reopened' = reopened,
         \A i \in DOMAIN incidents' :
           i \in DOMAIN incidents /\ Matter(incidents'[i]) = Matter(incidents[i])
  PROVE  I!OneIncidentPerMatter'
<1> SUFFICES ASSUME NEW i \in DOMAIN incidents', NEW j \in DOMAIN incidents', i # j,
                    I!Open(i)', I!Open(j)', I!Alike(incidents'[i], incidents'[j])
             PROVE  {i, j} \cap reopened # {}
  BY DEF I!OneIncidentPerMatter, I!Open, I!Alike
<1>1. /\ i \in DOMAIN incidents /\ Matter(incidents'[i]) = Matter(incidents[i])
      /\ j \in DOMAIN incidents /\ Matter(incidents'[j]) = Matter(incidents[j])
  OBVIOUS
<1>2. I!Open(i) /\ I!Open(j) /\ I!Alike(incidents[i], incidents[j])
  BY <1>1, MatterFacts DEF I!Open, I!Alike
<1> QED BY <1>1, <1>2 DEF I!OneIncidentPerMatter

LEMMA ChangedIncident ==
  ASSUME NEW r \in Incident
  PROVE  /\ \A D \in SUBSET Nat :
              /\ [r EXCEPT !.alerts = D] \in Incident
              /\ [r EXCEPT !.alerts = D].alerts = D
              /\ Matter([r EXCEPT !.alerts = D]) = Matter(r)
         /\ \A s \in I!Statuses :
              /\ [r EXCEPT !.status = s] \in Incident
              /\ [r EXCEPT !.status = s].alerts = r.alerts
              /\ [r EXCEPT !.status = s].status = s
              /\ LET t == [r EXCEPT !.status = s] IN
                   /\ t.category = r.category /\ t.severity = r.severity
                   /\ t.user = r.user /\ t.source = r.source
         /\ r # I!Torn
<1>1. r.status \in I!Statuses /\ I!Torn.status \notin I!Statuses
  BY DEF Incident, I!Torn, I!Statuses
<1>2. r # I!Torn
  BY <1>1
<1>3. \A D \in SUBSET Nat :
        /\ [r EXCEPT !.alerts = D] \in Incident
        /\ [r EXCEPT !.alerts = D].alerts = D
        /\ Matter([r EXCEPT !.alerts = D]) = Matter(r)
  BY DEF Incident, Matter
<1>4. \A s \in I!Statuses :
        /\ [r EXCEPT !.status = s] \in Incident
        /\ [r EXCEPT !.status = s].alerts = r.alerts
        /\ [r EXCEPT !.status = s].status = s
        /\ LET t == [r EXCEPT !.status = s] IN
             /\ t.category = r.category /\ t.severity = r.severity
             /\ t.user = r.user /\ t.source = r.source
  BY DEF Incident
<1> QED BY <1>2, <1>3, <1>4

(* The step that raises an alert, up to whom it is given. *)
LEMMA AlertStep ==
  ASSUME I!RulesAssumption, IncidentInv, NEW e \in I!Events,
         I!JoinSimilar(e) \/ I!CreateIncident(e)
  PROVE  /\ I!Receive(e) /\ i_saving = 0 /\ I!Matching(e, buffer') # {}
         /\ raised' = raised + 1 /\ raised \in Nat /\ raised' \in Nat
         /\ received' \in 0 .. IncidentEvents /\ raised' \in 0 .. received'
         /\ UNCHANGED <<i_now, offset, i_files, reopened>> /\ i_now \in 0 .. IncidentTime
         /\ Heard'
<1>1. /\ I!Receive(e) /\ raised' = raised + 1 /\ I!Matching(e, buffer') # {}
      /\ ~I!Unreadable(buffer \cup {e}) /\ buffer' = I!Cleaned(buffer \cup {e})
      /\ IncidentTypes /\ Heard
  BY DEF I!JoinSimilar, I!CreateIncident, IncidentInv
<1>2. UNCHANGED <<i_now, offset, i_files, reopened>>
  BY <1>1 DEF I!Receive
<1>3. Heard'
  BY <1>1, ReceiveKeepsHeard
<1>4. received' \in 0 .. IncidentEvents /\ raised + 1 \in 0 .. received' /\ i_saving = 0
  BY <1>1, ReceiveTypes
<1>5. raised \in Nat /\ i_now \in 0 .. IncidentTime
  BY <1>1 DEF IncidentTypes
<1> QED BY <1>1, <1>2, <1>3, <1>4, <1>5

LEMMA JoinKeeps ==
  ASSUME I!RulesAssumption, IncidentInv, NEW e \in I!Events, I!JoinSimilar(e)
  PROVE  IncidentInv'
<1>1. /\ I!Receive(e) /\ i_saving = 0
      /\ raised' = raised + 1 /\ raised \in Nat /\ raised' \in Nat
      /\ received' \in 0 .. IncidentEvents /\ raised' \in 0 .. received'
      /\ UNCHANGED <<i_now, offset, i_files, reopened, telling>> /\ i_now \in 0 .. IncidentTime
      /\ Heard'
  BY AlertStep DEF I!JoinSimilar
<1>2. PICK i \in DOMAIN incidents :
        /\ incidents' = [incidents EXCEPT ![i].alerts = @ \cup {raised'}]
        /\ i_saving' = i
  BY DEF I!JoinSimilar, I!Similar
<1>3. incidents \in [DOMAIN incidents -> Incident] /\ telling \subseteq DOMAIN incidents
  BY DEF IncidentInv, IncidentTypes
<1>4. incidents[i] \in Incident /\ incidents[i].alerts \in SUBSET Nat
  BY <1>3 DEF Incident
<1>5. /\ DOMAIN incidents' = DOMAIN incidents
      /\ incidents'[i] = [incidents[i] EXCEPT !.alerts = incidents[i].alerts \cup {raised'}]
      /\ \A j \in DOMAIN incidents \ {i} : incidents'[j] = incidents[j]
      /\ incidents' = [j \in DOMAIN incidents' |-> incidents'[j]]
  BY <1>2, <1>3
<1>6. /\ incidents'[i] \in Incident /\ Matter(incidents'[i]) = Matter(incidents[i])
      /\ incidents'[i].alerts = incidents[i].alerts \cup {raised'}
  <2>1. incidents[i].alerts \cup {raised'} \in SUBSET Nat
    BY <1>1, <1>4
  <2> QED BY <1>4, <1>5, <2>1, ChangedIncident
<1>7. IncidentTypes'
  <2>1. \A j \in DOMAIN incidents' : incidents'[j] \in Incident
    BY <1>3, <1>5, <1>6
  <2>2. incidents' \in [DOMAIN incidents' -> Incident]
    BY <1>5, <2>1
  <2>3. i_files' \in [DOMAIN i_files' -> Incident \cup {I!Torn}]
    BY <1>1 DEF IncidentInv, IncidentTypes
  <2>4. offset' \in Offsets \cap Int
    BY <1>1 DEF IncidentInv, IncidentTypes
  <2> QED BY <1>1, <1>2, <1>3, <1>5, <2>2, <2>3, <2>4 DEF IncidentTypes, I!Torn
<1>8. Numbered'
  BY <1>1, <1>5 DEF IncidentInv, Numbered
<1>9. Filed'
  <2> SUFFICES ASSUME NEW j \in DOMAIN incidents' \cup DOMAIN i_files', j # i
               PROVE  /\ j \in DOMAIN i_files'
                      /\ IF j \in DOMAIN incidents'
                         THEN /\ i_files'[j] # I!Torn
                              /\ Matter(i_files'[j]) = Matter(incidents'[j])
                         ELSE i_files'[j] = I!Torn
    BY <1>2 DEF Filed, Matter, I!Torn
  <2>1. j \in DOMAIN incidents \cup DOMAIN i_files /\ j # i_saving
    BY <1>1, <1>5 DEF IncidentInv, Numbered
  <2>2. /\ j \in DOMAIN i_files
        /\ IF j \in DOMAIN incidents
           THEN i_files[j] # I!Torn /\ Matter(i_files[j]) = Matter(incidents[j])
           ELSE i_files[j] = I!Torn
    BY <2>1 DEF IncidentInv, Filed
  <2> QED BY <1>1, <1>5, <2>1, <2>2
<1>10. I!OneIncidentPerMatter'
  <2>1. \A j \in DOMAIN incidents' :
          j \in DOMAIN incidents /\ Matter(incidents'[j]) = Matter(incidents[j])
    BY <1>5, <1>6
  <2> QED BY <1>1, <2>1, SameMatters DEF IncidentInv
<1>11. AlertsInv'
  <2>1. \A j \in DOMAIN incidents : incidents[j].alerts \subseteq 1 .. raised
    BY DEF IncidentInv, AlertsInv
  <2>2. \A j \in DOMAIN incidents' : incidents'[j].alerts \subseteq 1 .. raised'
    <3> SUFFICES ASSUME NEW j \in DOMAIN incidents'
                 PROVE  incidents'[j].alerts \subseteq 1 .. raised'
      OBVIOUS
    <3>1. incidents[j].alerts \subseteq 1 .. raised /\ 1 .. raised \subseteq 1 .. raised'
      BY <1>1, <1>5, <2>1
    <3>2. raised' \in 1 .. raised'
      BY <1>1
    <3>3. incidents'[j].alerts \subseteq incidents[j].alerts \cup {raised'}
      BY <1>5, <1>6
    <3> QED BY <3>1, <3>2, <3>3
  <2>3. CASE I!NextId \in DOMAIN incidents
    BY <1>5, <2>2, <2>3 DEF AlertsInv, I!NextId
  <2>4. CASE \A a \in 1 .. raised : OnOneIncident(a)
    <3> SUFFICES ASSUME NEW a \in 1 .. raised' PROVE OnOneIncident(a)'
      BY <2>2 DEF AlertsInv, OnOneIncident
    <3>1. CASE a = raised'
      <4>1. \A j \in DOMAIN incidents : a \notin incidents[j].alerts
        BY <1>1, <2>1, <3>1
      <4> QED BY <1>5, <1>6, <3>1, <4>1 DEF OnOneIncident
    <3>2. CASE a # raised'
      <4>1. a \in 1 .. raised
        BY <1>1, <3>2
      <4>2. PICK k \in DOMAIN incidents :
              \A j \in DOMAIN incidents : a \in incidents[j].alerts <=> j = k
        BY <2>4, <4>1 DEF OnOneIncident
      <4>3. \A j \in DOMAIN incidents' : a \in incidents'[j].alerts <=> a \in incidents[j].alerts
        BY <1>5, <1>6, <3>2
      <4> QED BY <1>5, <4>2, <4>3 DEF OnOneIncident
    <3> QED BY <3>1, <3>2
  <2> QED BY <2>3, <2>4 DEF IncidentInv, AlertsInv
<1> QED BY <1>1, <1>7, <1>8, <1>9, <1>10, <1>11 DEF IncidentInv

LEMMA CreateKeeps ==
  ASSUME I!RulesAssumption, IncidentInv, NEW e \in I!Events, I!CreateIncident(e)
  PROVE  IncidentInv'
<1> DEFINE new == I!NextId
           alert == I!Alert(e, buffer')
           r == [category |-> alert.category, severity |-> alert.severity,
                 user |-> alert.user, source |-> alert.source,
                 status |-> "detected", alerts |-> {raised'}]
<1>1. /\ I!Receive(e) /\ i_saving = 0
      /\ raised' = raised + 1 /\ raised \in Nat /\ raised' \in Nat
      /\ received' \in 0 .. IncidentEvents /\ raised' \in 0 .. received'
      /\ UNCHANGED <<i_now, offset, i_files, reopened>> /\ i_now \in 0 .. IncidentTime
      /\ Heard'
  BY AlertStep
<1>2. /\ I!Similar(alert) = {} /\ incidents' = I!Put(incidents, new, r)
      /\ telling' = telling \cup {new} /\ i_saving' = new
  BY DEF I!CreateIncident
<1>3. /\ alert.category \in {CategoryOf[c] : c \in EventCategories}
      /\ alert.severity \in {Rules[i].severity : i \in DOMAIN Rules}
      /\ alert.user \in {o[1] : o \in Origins}
      /\ alert.source \in {o[2] : o \in Origins}
      /\ <<alert.user, alert.source>> \in Origins
  <2>1. I!Matching(e, buffer') # {}
    BY AlertStep
  <2> QED BY <2>1, AlertFacts
<1>4. /\ r \in Incident /\ r.alerts = {raised'} /\ r.category = alert.category
      /\ r.severity = alert.severity /\ r.user = alert.user /\ r.source = alert.source
  <2> HIDE DEF alert
  <2> QED BY <1>1, <1>3 DEF Incident, I!Statuses
<1>5. incidents \in [DOMAIN incidents -> Incident] /\ telling \subseteq DOMAIN incidents
  BY DEF IncidentInv, IncidentTypes
<1>6. PICK m \in Nat : DOMAIN incidents \cup DOMAIN i_files = 1 .. m
  BY DEF IncidentInv, Numbered
<1>7. new \in 1 .. m + 1
  BY <1>6, NextIdFacts
<1> HIDE DEF new, r, alert
<1>8. /\ DOMAIN incidents' = DOMAIN incidents \cup {new}
      /\ incidents'[new] = r
      /\ \A j \in DOMAIN incidents \ {new} : incidents'[j] = incidents[j]
      /\ incidents' = [j \in DOMAIN incidents' |-> incidents'[j]]
  BY <1>2 DEF I!Put
<1>9. IncidentTypes'
  <2>1. \A j \in DOMAIN incidents' : incidents'[j] \in Incident
    BY <1>4, <1>5, <1>8
  <2>2. incidents' \in [DOMAIN incidents' -> Incident]
    BY <1>8, <2>1
  <2>3. i_files' \in [DOMAIN i_files' -> Incident \cup {I!Torn}]
    BY <1>1 DEF IncidentInv, IncidentTypes
  <2>4. offset' \in Offsets \cap Int
    BY <1>1 DEF IncidentInv, IncidentTypes
  <2> QED BY <1>1, <1>2, <1>5, <1>8, <2>2, <2>3, <2>4 DEF IncidentTypes, I!Torn
<1>10. Numbered'
  <2>1. CASE new \in 1 .. m
    BY <1>1, <1>6, <1>8, <2>1 DEF Numbered
  <2>2. CASE new = m + 1
    <3>1. (1 .. m) \cup {new} = 1 .. m + 1 /\ m + 1 \in Nat
      BY <2>2
    <3>2. DOMAIN incidents' \cup DOMAIN i_files' = 1 .. m + 1
      BY <1>1, <1>6, <1>8, <3>1
    <3> QED BY <3>1, <3>2 DEF Numbered
  <2> QED BY <1>7, <2>1, <2>2
<1>11. Filed'
  <2> SUFFICES ASSUME NEW j \in DOMAIN incidents' \cup DOMAIN i_files', j # new
               PROVE  /\ j \in DOMAIN i_files'
                      /\ IF j \in DOMAIN incidents'
                         THEN /\ i_files'[j] # I!Torn
                              /\ Matter(i_files'[j]) = Matter(incidents'[j])
                         ELSE i_files'[j] = I!Torn
    BY <1>2 DEF Filed, Matter, I!Torn
  <2>1. j \in DOMAIN incidents \cup DOMAIN i_files /\ j # i_saving
    BY <1>1, <1>6, <1>8
  <2>2. /\ j \in DOMAIN i_files
        /\ IF j \in DOMAIN incidents
           THEN i_files[j] # I!Torn /\ Matter(i_files[j]) = Matter(incidents[j])
           ELSE i_files[j] = I!Torn
    BY <2>1 DEF IncidentInv, Filed
  <2> QED BY <1>1, <1>8, <2>1, <2>2
<1>12. I!OneIncidentPerMatter'
  <2>1. \A j \in DOMAIN incidents : I!Open(j) => ~I!Alike(incidents[j], alert)
    BY <1>2 DEF I!Similar
  <2>2. \A s : /\ I!Alike(r, s) <=> I!Alike(s, alert)
               /\ I!Alike(s, r) <=> I!Alike(s, alert)
    BY <1>4 DEF I!Alike
  <2> SUFFICES ASSUME NEW i \in DOMAIN incidents', NEW j \in DOMAIN incidents', i # j,
                      I!Open(i)', I!Open(j)', I!Alike(incidents'[i], incidents'[j])
               PROVE  {i, j} \cap reopened' # {}
    BY DEF I!OneIncidentPerMatter, I!Open, I!Alike
  <2>3. i # new /\ j # new
    <3>1. CASE i = new
      <4>1. /\ j \in DOMAIN incidents /\ I!Open(j) /\ I!Alike(r, incidents[j])
        BY <1>8, <3>1 DEF I!Open
      <4> QED BY <2>1, <2>2, <4>1
    <3>2. CASE j = new
      <4>1. /\ i \in DOMAIN incidents /\ I!Open(i) /\ I!Alike(incidents[i], r)
        BY <1>8, <3>2 DEF I!Open
      <4> QED BY <2>1, <2>2, <4>1
    <3> QED BY <3>1, <3>2
  <2>4. /\ i \in DOMAIN incidents /\ j \in DOMAIN incidents /\ I!Open(i) /\ I!Open(j)
        /\ I!Alike(incidents[i], incidents[j])
    BY <1>8, <2>3 DEF I!Open
  <2> QED BY <1>1, <2>4 DEF IncidentInv, I!OneIncidentPerMatter
<1>13. AlertsInv'
  <2>1. \A j \in DOMAIN incidents : incidents[j].alerts \subseteq 1 .. raised
    BY DEF IncidentInv, AlertsInv
  <2>2. \A j \in DOMAIN incidents' : incidents'[j].alerts \subseteq 1 .. raised'
    <3>1. 1 .. raised \subseteq 1 .. raised' /\ raised' \in 1 .. raised'
      BY <1>1
    <3> QED BY <1>4, <1>8, <2>1, <3>1
  <2>3. CASE new \in DOMAIN incidents
    <3>1. DOMAIN incidents' = DOMAIN incidents
      BY <1>8, <2>3
    <3> QED BY <2>2, <2>3, <3>1 DEF AlertsInv, I!NextId, new
  <2>4. CASE new \notin DOMAIN incidents
    <3> SUFFICES ASSUME NEW a \in 1 .. raised' PROVE OnOneIncident(a)'
      BY <2>2 DEF AlertsInv, OnOneIncident
    <3>1. CASE a = raised'
      <4>1. \A j \in DOMAIN incidents : a \notin incidents[j].alerts
        BY <1>1, <2>1, <3>1
      <4> QED BY <1>4, <1>8, <3>1, <4>1 DEF OnOneIncident
    <3>2. CASE a # raised'
      <4>1. a \in 1 .. raised
        BY <1>1, <3>2
      <4>2. OnOneIncident(a)
        BY <2>4, <4>1 DEF IncidentInv, AlertsInv, new
      <4>3. PICK k \in DOMAIN incidents :
              \A j \in DOMAIN incidents : a \in incidents[j].alerts <=> j = k
        BY <4>2 DEF OnOneIncident
      <4>4. \A j \in DOMAIN incidents' : a \in incidents'[j].alerts <=> j = k
        BY <1>4, <1>8, <2>4, <3>2, <4>3
      <4> QED BY <1>8, <4>3, <4>4 DEF OnOneIncident
    <3> QED BY <3>1, <3>2
  <2> QED BY <2>3, <2>4
<1> QED BY <1>1, <1>9, <1>10, <1>11, <1>12, <1>13 DEF IncidentInv

LEMMA IncidentUpdateKeeps ==
  ASSUME IncidentInv, NEW i \in DOMAIN incidents, NEW s \in I!Statuses,
         I!UpdateIncident(i, s)
  PROVE  IncidentInv'
<1>1. /\ i_saving = 0 /\ incidents' = [incidents EXCEPT ![i].status = s] /\ i_saving' = i
      /\ reopened' = IF ~I!Open(i) /\ s # "resolved" THEN reopened \cup {i} ELSE reopened
      /\ UNCHANGED <<i_now, offset, buffer, seen, raised, i_files, telling, received>>
  BY DEF I!UpdateIncident
<1>2. incidents \in [DOMAIN incidents -> Incident] /\ IncidentTypes
  BY DEF IncidentInv, IncidentTypes
<1>3. incidents[i] \in Incident
  BY <1>2
<1>4. /\ DOMAIN incidents' = DOMAIN incidents
      /\ incidents'[i] = [incidents[i] EXCEPT !.status = s]
      /\ \A j \in DOMAIN incidents \ {i} : incidents'[j] = incidents[j]
      /\ incidents' = [j \in DOMAIN incidents' |-> incidents'[j]]
  BY <1>1, <1>2
<1>5. /\ incidents'[i] \in Incident /\ incidents'[i].alerts = incidents[i].alerts
      /\ incidents'[i].status = s
      /\ incidents'[i].category = incidents[i].category
      /\ incidents'[i].severity = incidents[i].severity
      /\ incidents'[i].user = incidents[i].user
      /\ incidents'[i].source = incidents[i].source
  BY <1>3, <1>4, ChangedIncident
<1>6. IncidentTypes'
  <2>1. \A j \in DOMAIN incidents' : incidents'[j] \in Incident
    BY <1>2, <1>4, <1>5
  <2>2. incidents' \in [DOMAIN incidents' -> Incident]
    BY <1>4, <2>1
  <2> QED BY <1>1, <1>2, <1>4, <2>2 DEF IncidentTypes, I!Torn
<1>7. Numbered'
  BY <1>1, <1>4 DEF IncidentInv, Numbered
<1>8. Filed'
  <2> SUFFICES ASSUME NEW j \in DOMAIN incidents' \cup DOMAIN i_files', j # i
               PROVE  /\ j \in DOMAIN i_files'
                      /\ IF j \in DOMAIN incidents'
                         THEN /\ i_files'[j] # I!Torn
                              /\ Matter(i_files'[j]) = Matter(incidents'[j])
                         ELSE i_files'[j] = I!Torn
    BY <1>1 DEF Filed, Matter, I!Torn
  <2>1. j \in DOMAIN incidents \cup DOMAIN i_files /\ j # i_saving
    BY <1>1, <1>4 DEF IncidentInv, Numbered
  <2>2. /\ j \in DOMAIN i_files
        /\ IF j \in DOMAIN incidents
           THEN i_files[j] # I!Torn /\ Matter(i_files[j]) = Matter(incidents[j])
           ELSE i_files[j] = I!Torn
    BY <2>1 DEF IncidentInv, Filed
  <2> QED BY <1>1, <1>4, <2>1, <2>2
<1>9. Heard'
  BY <1>1 DEF IncidentInv, Heard
<1>10. I!OneIncidentPerMatter'
  <2> SUFFICES ASSUME NEW j \in DOMAIN incidents', NEW k \in DOMAIN incidents', j # k,
                      I!Open(j)', I!Open(k)', I!Alike(incidents'[j], incidents'[k]),
                      i \notin {j, k} \cap reopened'
               PROVE  {j, k} \cap reopened' # {}
    BY DEF I!OneIncidentPerMatter, I!Open, I!Alike
  <2>1. /\ j \in DOMAIN incidents /\ k \in DOMAIN incidents
        /\ I!Alike(incidents[j], incidents[k])
    BY <1>4, <1>5 DEF I!Alike
  <2>2. I!Open(j) /\ I!Open(k)
    BY <1>1, <1>4, <1>5, <2>1 DEF I!Open
  <2>3. {j, k} \cap reopened # {}
    BY <2>1, <2>2 DEF IncidentInv, I!OneIncidentPerMatter
  <2> QED BY <1>1, <2>3
<1>11. AlertsInv'
  <2>1. \A j \in DOMAIN incidents : incidents'[j].alerts = incidents[j].alerts
    BY <1>4, <1>5
  <2>2. \A j \in DOMAIN incidents' : incidents'[j].alerts \subseteq 1 .. raised'
    BY <1>1, <1>4, <2>1 DEF IncidentInv, AlertsInv
  <2>3. \A a : OnOneIncident(a) => OnOneIncident(a)'
    BY <1>4, <2>1 DEF OnOneIncident
  <2>4. I!NextId' = I!NextId
    BY <1>4 DEF I!NextId
  <2> QED BY <1>1, <1>4, <2>2, <2>3, <2>4 DEF IncidentInv, AlertsInv
<1> QED BY <1>6, <1>7, <1>8, <1>9, <1>10, <1>11 DEF IncidentInv

LEMMA IncidentSaveKeeps ==
  ASSUME IncidentInv, I!SaveIncident
  PROVE  IncidentInv'
<1>1. /\ i_saving # 0 /\ i_files' = I!Put(i_files, i_saving, incidents[i_saving])
      /\ i_saving' = 0
      /\ UNCHANGED <<i_now, offset, buffer, seen, incidents, raised, telling, reopened, received>>
  BY DEF I!SaveIncident
<1>2. /\ i_saving \in DOMAIN incidents /\ IncidentTypes
  BY <1>1 DEF IncidentInv, IncidentTypes
<1>3. incidents[i_saving] \in Incident
  BY <1>2 DEF IncidentTypes
<1>4. /\ DOMAIN i_files' = DOMAIN i_files \cup {i_saving}
      /\ i_files'[i_saving] = incidents[i_saving]
      /\ \A j \in DOMAIN i_files \ {i_saving} : i_files'[j] = i_files[j]
      /\ i_files' = [j \in DOMAIN i_files' |-> i_files'[j]]
  BY <1>1 DEF I!Put
<1>5. IncidentTypes'
  <2>1. \A j \in DOMAIN i_files' : i_files'[j] \in Incident \cup {I!Torn}
    BY <1>2, <1>3, <1>4 DEF IncidentTypes
  <2>2. i_files' \in [DOMAIN i_files' -> Incident \cup {I!Torn}]
    BY <1>4, <2>1
  <2> QED BY <1>1, <1>2, <2>2 DEF IncidentTypes, I!Torn
<1>6. Numbered'
  BY <1>1, <1>2, <1>4 DEF IncidentInv, Numbered
<1>7. Filed'
  <2> SUFFICES ASSUME NEW j \in DOMAIN incidents' \cup DOMAIN i_files'
               PROVE  /\ j \in DOMAIN i_files'
                      /\ IF j \in DOMAIN incidents'
                         THEN /\ i_files'[j] # I!Torn
                              /\ Matter(i_files'[j]) = Matter(incidents'[j])
                         ELSE i_files'[j] = I!Torn
    BY DEF Filed, Matter, I!Torn
  <2>1. CASE j = i_saving
    BY <1>1, <1>2, <1>3, <1>4, <2>1, ChangedIncident
  <2>2. CASE j # i_saving
    <3>1. j \in DOMAIN incidents \cup DOMAIN i_files
      BY <1>1, <1>4, <2>2
    <3>2. /\ j \in DOMAIN i_files
          /\ IF j \in DOMAIN incidents
             THEN i_files[j] # I!Torn /\ Matter(i_files[j]) = Matter(incidents[j])
             ELSE i_files[j] = I!Torn
      BY <2>2, <3>1 DEF IncidentInv, Filed
    <3> QED BY <1>1, <1>4, <2>2, <3>1, <3>2
  <2> QED BY <2>1, <2>2
<1>8. Heard' /\ AlertsInv'
  BY <1>1 DEF IncidentInv, Heard, AlertsInv, OnOneIncident, I!NextId
<1>9. I!OneIncidentPerMatter'
  BY <1>1 DEF IncidentInv, I!OneIncidentPerMatter, I!Open
<1> QED BY <1>5, <1>6, <1>7, <1>8, <1>9 DEF IncidentInv

(* Whatever a restart reads back was there before. *)
LEMMA IncidentRestartKeeps ==
  ASSUME I!RulesAssumption, IncidentInv, I!Restart
  PROVE  IncidentInv'
<1>1. /\ i_files' = IF i_saving = 0 THEN i_files ELSE I!Put(i_files, i_saving, I!Torn)
      /\ incidents' = [i \in {k \in DOMAIN i_files' : i_files'[k] # I!Torn} |->
                         [i_files'[i] EXCEPT !.alerts = {}]]
      /\ buffer' = {} /\ seen' = {} /\ raised' = 0 /\ i_saving' = 0 /\ telling' = {}
      /\ UNCHANGED <<i_now, offset, reopened, received>>
  BY DEF I!Restart, I!Torn
<1>2. IncidentTypes /\ i_files \in [DOMAIN i_files -> Incident \cup {I!Torn}]
  BY DEF IncidentInv, IncidentTypes
<1>3. PICK m \in Nat : DOMAIN incidents \cup DOMAIN i_files = 1 .. m
  BY DEF IncidentInv, Numbered
<1>4. /\ DOMAIN i_files' = DOMAIN i_files \cup ({i_saving} \ {0})
      /\ i_files' = [j \in DOMAIN i_files' |-> i_files'[j]]
      /\ \A j \in DOMAIN i_files' :
           \/ j \in DOMAIN i_files /\ j # i_saving /\ i_files'[j] = i_files[j]
           \/ j = i_saving /\ i_files'[j] = I!Torn
  <2>1. CASE i_saving = 0
    <3>1. i_files' = i_files /\ {i_saving} \ {0} = {} /\ i_saving \notin DOMAIN i_files
      BY <1>1, <1>3, <2>1
    <3> QED BY <1>2, <3>1
  <2>2. CASE i_saving # 0
    BY <1>1, <1>2, <2>2 DEF I!Put
  <2> QED BY <2>1, <2>2
<1>5. /\ DOMAIN incidents' = {k \in DOMAIN i_files' : i_files'[k] # I!Torn}
      /\ \A j \in DOMAIN incidents' : incidents'[j] = [i_files'[j] EXCEPT !.alerts = {}]
      /\ incidents' = [j \in DOMAIN incidents' |-> incidents'[j]]
  BY <1>1
<1>6. \A j \in DOMAIN i_files' : i_files'[j] \in Incident \cup {I!Torn}
  BY <1>2, <1>4
<1>7. \A j \in DOMAIN incidents' :
        /\ j \in DOMAIN i_files' /\ i_files'[j] \in Incident
        /\ incidents'[j] \in Incident /\ incidents'[j].alerts = {}
        /\ Matter(incidents'[j]) = Matter(i_files'[j])
  <2> SUFFICES ASSUME NEW j \in DOMAIN incidents'
               PROVE  /\ j \in DOMAIN i_files' /\ i_files'[j] \in Incident
                      /\ incidents'[j] \in Incident /\ incidents'[j].alerts = {}
                      /\ Matter(incidents'[j]) = Matter(i_files'[j])
    OBVIOUS
  <2>1. j \in DOMAIN i_files' /\ i_files'[j] \in Incident
    BY <1>5, <1>6
  <2>2. PICK r \in Incident : r = i_files'[j]
    BY <2>1
  <2>3. {} \in SUBSET Nat
    OBVIOUS
  <2>4. /\ [r EXCEPT !.alerts = {}] \in Incident
        /\ [r EXCEPT !.alerts = {}].alerts = {}
        /\ Matter([r EXCEPT !.alerts = {}]) = Matter(r)
    BY <2>3, ChangedIncident
  <2>5. incidents'[j] = [r EXCEPT !.alerts = {}]
    BY <1>5, <2>2
  <2> QED BY <2>1, <2>2, <2>4, <2>5
<1>8. IncidentTypes'
  <2>1. incidents' \in [DOMAIN incidents' -> Incident]
    BY <1>5, <1>7
  <2>2. i_files' \in [DOMAIN i_files' -> Incident \cup {I!Torn}]
    BY <1>4, <1>6
  <2>3. received \in 0 .. IncidentEvents /\ 0 \in 0 .. received
    BY <1>2 DEF IncidentTypes
  <2> QED BY <1>1, <1>2, <2>1, <2>2, <2>3 DEF IncidentTypes, I!Torn
<1>9. DOMAIN i_files' = 1 .. m
  <2>1. DOMAIN incidents \subseteq DOMAIN i_files \cup {i_saving}
    BY DEF IncidentInv, Filed
  <2>2. i_saving \in DOMAIN incidents \cup {0} /\ 0 \notin DOMAIN incidents \cup DOMAIN i_files
    BY <1>2, <1>3 DEF IncidentTypes
  <2> QED BY <1>3, <1>4, <2>1, <2>2
<1>10. Numbered'
  BY <1>5, <1>9 DEF Numbered
<1>11. Filed'
  <2> SUFFICES ASSUME NEW j \in DOMAIN incidents' \cup DOMAIN i_files'
               PROVE  /\ j \in DOMAIN i_files'
                      /\ IF j \in DOMAIN incidents'
                         THEN /\ i_files'[j] # I!Torn
                              /\ Matter(i_files'[j]) = Matter(incidents'[j])
                         ELSE i_files'[j] = I!Torn
    BY DEF Filed, Matter, I!Torn
  <2> QED BY <1>5, <1>7
<1>12. Heard'
  BY <1>1, FS_EmptySet DEF Heard
<1>13. I!OneIncidentPerMatter'
  <2>1. \A j \in DOMAIN incidents' :
          j \in DOMAIN incidents /\ Matter(incidents'[j]) = Matter(incidents[j])
    <3> SUFFICES ASSUME NEW j \in DOMAIN incidents'
                 PROVE  j \in DOMAIN incidents /\ Matter(incidents'[j]) = Matter(incidents[j])
      OBVIOUS
    <3>1. j \in DOMAIN i_files /\ j # i_saving /\ i_files'[j] = i_files[j]
      BY <1>4, <1>5
    <3>2. i_files[j] # I!Torn
      BY <1>5, <3>1
    <3> QED BY <1>7, <3>1, <3>2 DEF IncidentInv, Filed
  <2> QED BY <1>1, <2>1, SameMatters DEF IncidentInv
<1>14. AlertsInv'
  BY <1>1, <1>7 DEF AlertsInv
<1> QED BY <1>8, <1>10, <1>11, <1>12, <1>13, <1>14 DEF IncidentInv

LEMMA IncidentKept ==
  ASSUME I!RulesAssumption, IncidentInv, [I!Next]_I!vars
  PROVE  IncidentInv'
<1>1. CASE \/ \E i \in telling : I!SendNotification(i)
           \/ I!Tick \/ UNCHANGED I!vars
  <2>1. /\ UNCHANGED <<offset, buffer, seen, incidents, raised, i_files, i_saving, reopened, received>>
        /\ telling' \subseteq telling
    BY <1>1 DEF I!SendNotification, I!Tick, I!vars
  <2>2. i_now' \in {i_now, i_now + 1} /\ i_now' \in 0 .. IncidentTime
    BY <1>1 DEF I!SendNotification, I!Tick, I!vars, IncidentInv, IncidentTypes,
                I!RulesAssumption
  <2>3. IncidentTypes'
    BY <2>1, <2>2 DEF IncidentInv, IncidentTypes, I!Torn
  <2>4. Numbered' /\ Filed'
    BY <2>1 DEF IncidentInv, Numbered, Filed, Matter, I!Torn
  <2>5. I!OneIncidentPerMatter' /\ AlertsInv'
    BY <2>1 DEF IncidentInv, I!OneIncidentPerMatter, I!Open, AlertsInv, OnOneIncident, I!NextId
  <2>6. Heard'
    <3>1. MaxAge \in Nat /\ i_now \in Int /\ offset \in Int
      BY DEF I!RulesAssumption, IncidentInv, IncidentTypes
    <3>2. \A b \in seen \ buffer : b.time \in Int /\ b.time - offset <= i_now - MaxAge
      BY DEF IncidentInv, Heard
    <3>3. \A b \in seen \ buffer : b.time - offset <= i_now' - MaxAge
      BY <2>2, <3>1, <3>2
    <3> QED BY <2>1, <3>3 DEF IncidentInv, Heard
  <2> QED BY <2>3, <2>4, <2>5, <2>6 DEF IncidentInv
<1> QED BY <1>1, NoAlertKeeps, JoinKeeps, CreateKeeps, IncidentUpdateKeeps,
           IncidentSaveKeeps, IncidentRestartKeeps DEF I!Next

(* The identifiers count the incidents, the files tell of them what memory *)
(* does but for the one being saved, and every event was heard             *)
(* (core/incident_response.py).                                            *)
THEOREM IncidentInvariant == ASSUME I!RulesAssumption PROVE I!Spec => []IncidentInv
<1>1. I!Init => IncidentInv
  <2> SUFFICES ASSUME I!Init PROVE IncidentInv
    OBVIOUS
  <2>1. DOMAIN incidents = {} /\ DOMAIN i_files = {} /\ 1 .. 0 = {}
    BY DEF I!Init
  <2>2. incidents \in [DOMAIN incidents -> Incident]
        /\ i_files \in [DOMAIN i_files -> Incident \cup {I!Torn}]
    BY <2>1 DEF I!Init
  <2>3. IncidentTypes
    BY <2>2 DEF I!Init, IncidentTypes, I!RulesAssumption
  <2>4. Numbered
    BY <2>1 DEF Numbered
  <2>5. Filed /\ Heard /\ I!OneIncidentPerMatter /\ AlertsInv
    BY <2>1, FS_EmptySet DEF I!Init, Filed, Heard, I!OneIncidentPerMatter, AlertsInv
  <2> QED BY <2>3, <2>4, <2>5 DEF IncidentInv
<1>2. IncidentInv /\ [I!Next]_I!vars => IncidentInv'
  BY IncidentKept
<1> QED BY <1>1, <1>2, PTL DEF I!Spec

(* No two open incidents are about one matter unless one was reopened, and *)
(* no alert is lost while all files can be read (core/incident_response.py).*)
THEOREM IncidentsCorrect == ASSUME I!RulesAssumption PROVE I!Spec => []I!IncidentsSound
<1>1. IncidentInv => I!IncidentsSound
  <2> SUFFICES ASSUME IncidentInv PROVE I!IncidentsSound
    OBVIOUS
  <2>1. I!TypeOK
    <3>1. raised \in 0 .. IncidentEvents
      <4>1. IncidentEvents \in Nat
        BY DEF I!RulesAssumption
      <4> QED BY <4>1 DEF IncidentInv, IncidentTypes
    <3>2. \A i \in DOMAIN incidents : incidents[i] \in Incident
      BY DEF IncidentInv, IncidentTypes
    <3>3. \A i \in DOMAIN incidents :
            /\ incidents[i].status \in I!Statuses
            /\ <<incidents[i].user, incidents[i].source>> \in Origins
      BY <3>2 DEF Incident
    <3> QED BY <3>1, <3>3 DEF IncidentInv, IncidentTypes, Heard, I!TypeOK
  <2>2. I!AlertsAreKept
    <3> SUFFICES ASSUME I!Torns = {} PROVE \A a \in 1 .. raised : OnOneIncident(a)
      BY DEF I!AlertsAreKept, OnOneIncident
    <3>1. PICK m \in Nat : DOMAIN incidents \cup DOMAIN i_files = 1 .. m
      BY DEF IncidentInv, Numbered
    <3>2. DOMAIN i_files \subseteq DOMAIN incidents
      <4>1. 0 \notin DOMAIN i_files
        BY <3>1
      <4>2. \A i \in DOMAIN i_files : i_files[i] # I!Torn
        BY DEF I!Torns
      <4>3. i_saving \in DOMAIN incidents \cup {0}
        BY DEF IncidentInv, IncidentTypes
      <4> QED BY <4>1, <4>2, <4>3 DEF IncidentInv, Filed
    <3>3. DOMAIN incidents = 1 .. m
      BY <3>1, <3>2
    <3>4. I!NextId = m + 1
      BY <3>1, <3>3, NextIdFacts
    <3>5. I!NextId \notin DOMAIN incidents
      BY <3>3, <3>4
    <3> QED BY <3>5 DEF IncidentInv, AlertsInv
  <2> QED BY <2>1, <2>2 DEF IncidentInv, I!IncidentsSound
<1> QED BY <1>1, IncidentInvariant, PTL

(* A burst makes its rule match: what the rule is promised to count is in  *)
(* the buffer, and not too old as the process reads it.                    *)
LEMMA BurstMatches ==
  ASSUME I!RulesAssumption, IncidentInv, NEW e \in I!Events, NEW i \in DOMAIN Rules,
         seen' = seen \cup {e}, ~I!Unreadable(seen'),
         buffer' = I!Cleaned(buffer \cup {e}), I!Burst(e, i)
  PROVE  i \in I!Matching(e, buffer')
<1>1. /\ Heard /\ i_now \in Nat /\ offset \in Int /\ MaxAge \in Nat
      /\ e.time \in Int
  <2>1. IncidentTypes /\ Heard
    BY DEF IncidentInv
  <2>2. i_now \in Nat /\ offset \in Int
    BY <2>1 DEF IncidentTypes
  <2>3. MaxAge \in Nat
    BY DEF I!RulesAssumption
  <2> QED BY <2>1, <2>2, <2>3, EventFacts
<1>2. Rules[i].timeframe \in Nat /\ Rules[i].threshold \in Nat
  <2> DEFINE S == [severity : {Rules[j].severity : j \in DOMAIN Rules},
                   applies : SUBSET EventCategories, counts : SUBSET EventCategories,
                   threshold : Nat, timeframe : Nat,
                   groupBy : SUBSET {"user", "source"}]
  <2>1. Rules \in Seq(S)
    BY DEF I!RulesAssumption
  <2>2. \A r \in S : r.timeframe \in Nat /\ r.threshold \in Nat
    OBVIOUS
  <2> HIDE DEF S
  <2>3. i \in 1 .. Len(Rules)
    BY <2>1
  <2>4. Rules[i] \in S
    BY <2>1, <2>3, ElementOfSeq
  <2> QED BY <2>2, <2>4, Zenon
<1>3. I!Late \in Int /\ I!Late >= 0 /\ I!Late >= offset
  BY <1>1 DEF I!Late
<1> DEFINE P == {b \in seen' : /\ b.time >= i_now - Rules[i].timeframe + I!Late
                               /\ b.time > i_now - MaxAge + I!Late
                               /\ I!Counted(b, e, Rules[i])}
           Q == {b \in buffer' :
                   /\ b.time # I!NoTime
                   /\ I!ParseTimestamp(b.time) >= i_now - Rules[i].timeframe
                   /\ I!Counted(b, e, Rules[i])}
<1>4. P \subseteq Q
  <2> SUFFICES ASSUME NEW b \in P PROVE b \in Q
    OBVIOUS
  <2>1. b \in seen' /\ b.time \in Int /\ b.time # I!NoTime
    BY <1>1 DEF Heard, I!Unreadable
  <2>2. /\ b.time - offset >= i_now - Rules[i].timeframe
        /\ b.time - offset > i_now - MaxAge
    <3>1. /\ b.time >= i_now - Rules[i].timeframe + I!Late
          /\ b.time > i_now - MaxAge + I!Late
      OBVIOUS
    <3> QED BY <1>1, <1>2, <1>3, <2>1, <3>1
  <2>3. b \in buffer \cup {e}
    <3> SUFFICES ASSUME b \in seen \ buffer PROVE FALSE
      BY <2>1
    <3>1. b.time - offset <= i_now - MaxAge
      BY <1>1 DEF Heard
    <3> QED BY <1>1, <2>1, <2>2, <3>1
  <2>4. b \in buffer'
    BY <2>2, <2>3 DEF I!Cleaned, I!ParseTimestamp
  <2>5. I!Counted(b, e, Rules[i])
    OBVIOUS
  <2> QED BY <2>1, <2>2, <2>4, <2>5 DEF I!ParseTimestamp
<1>5. IsFiniteSet(Q)
  <2>1. IsFiniteSet(seen') /\ Q \subseteq seen'
    BY <1>1, FS_AddElement DEF Heard, I!Cleaned
  <2> QED BY <2>1, FS_Subset
<1>6. Cardinality(P) >= Rules[i].threshold /\ e.category \in Rules[i].applies
  BY CardinalityIsOne DEF I!Burst
<1>7. I!Count(e, Rules[i], buffer') = Cardinality(Q)
  BY CardinalityIsOne DEF I!Count
<1> HIDE DEF P, Q
<1>8. /\ Cardinality(P) <= Cardinality(Q)
      /\ Cardinality(P) \in Nat /\ Cardinality(Q) \in Nat
  BY <1>4, <1>5, FS_Subset, FS_CardinalityType
<1>9. I!Count(e, Rules[i], buffer') >= Rules[i].threshold
  BY <1>2, <1>6, <1>7, <1>8
<1> QED BY <1>6, <1>9 DEF I!Matching

(* A burst is answered although the detector counts in a buffer it trims   *)
(* and by ages that are wrong by the offset of local time from UTC         *)
(* (detect_incident, _cleanup_old_events, _parse_timestamp).               *)
THEOREM BurstsAnswered == ASSUME I!RulesAssumption PROVE I!Spec => I!BurstIsAnswered
<1> DEFINE Heeded == \A e \in I!Events, i \in DOMAIN Rules :
      seen' = seen \cup {e} /\ ~I!Unreadable(seen') /\ I!Burst(e, i)
      => I!Answered(e, i)
<1>1. IncidentInv /\ [I!Next]_I!vars => [Heeded]_I!vars
  <2> SUFFICES ASSUME IncidentInv, I!Next, NEW e \in I!Events, NEW i \in DOMAIN Rules,
                      seen' = seen \cup {e}, ~I!Unreadable(seen'), I!Burst(e, i)
               PROVE  I!Answered(e, i)
    BY DEF I!vars
  <2>1. e \notin seen /\ received \in Nat
    BY EventFacts DEF IncidentInv, IncidentTypes, Heard
  <2>2. PICK d \in I!Events : I!CleanupRaises(d) \/ I!NoAlert(d) \/ I!JoinSimilar(d)
                              \/ I!CreateIncident(d)
    <3>1. seen' # seen /\ seen' # {}
      BY <2>1
    <3> QED BY <3>1 DEF I!Next, I!UpdateIncident, I!SaveIncident, I!SendNotification,
                        I!Restart, I!Tick
  <2>3. seen' = seen \cup {d}
    BY <2>2 DEF I!CleanupRaises, I!NoAlert, I!JoinSimilar, I!CreateIncident, I!Receive
  <2>4. d = e
    BY <2>1, <2>3
  <2>5. buffer \cup {e} \subseteq seen'
    BY DEF IncidentInv, Heard
  <2>6. ~I!CleanupRaises(e) /\ buffer' = I!Cleaned(buffer \cup {e})
    BY <2>2, <2>4, <2>5 DEF I!Unreadable, I!CleanupRaises, I!NoAlert, I!JoinSimilar,
                            I!CreateIncident
  <2>7. i \in I!Matching(e, buffer')
    BY <2>6, BurstMatches
  <2> DEFINE alert == I!Alert(e, buffer')
  <2>8. /\ alert.category = CategoryOf[e.category]
        /\ alert.user = e.user /\ alert.source = e.source
        /\ \E j \in 1 .. i : alert.severity = Rules[j].severity
    <3>1. I!Matching(e, buffer') # {}
      BY <2>7
    <3> QED BY <2>7, <3>1, AlertFacts
  <2> HIDE DEF alert
  <2>9. CASE I!JoinSimilar(e)
    <3>1. PICK k \in I!Similar(alert) :
                 incidents' = [incidents EXCEPT ![k].alerts = @ \cup {raised'}]
      BY <2>9 DEF I!JoinSimilar, alert
    <3>2. /\ k \in DOMAIN incidents /\ incidents[k].status # "resolved"
          /\ I!Alike(incidents[k], alert)
      BY DEF I!Similar, I!Open
    <3>3. incidents[k] \in Incident
      BY <3>2 DEF IncidentInv, IncidentTypes
    <3>4. k \in DOMAIN incidents' /\ Matter(incidents'[k]) = Matter(incidents[k])
      BY <3>1, <3>2, <3>3 DEF Matter, Incident
    <3>5. incidents'[k].status # "resolved" /\ I!Alike(incidents'[k], alert)
      BY <3>2, <3>4, MatterFacts DEF I!Alike
    <3> QED BY <2>8, <3>4, <3>5 DEF I!Answered, I!Alike
  <2>10. CASE I!CreateIncident(e)
    <3> DEFINE r == [category |-> alert.category, severity |-> alert.severity,
                     user |-> alert.user, source |-> alert.source,
                     status |-> "detected", alerts |-> {raised'}]
    <3>1. incidents' = I!Put(incidents, I!NextId, r)
      BY <2>10 DEF I!CreateIncident, alert
    <3>2. /\ r.status # "resolved" /\ r.category = alert.category
          /\ r.user = alert.user /\ r.severity = alert.severity
      OBVIOUS
    <3> HIDE DEF r
    <3>3. I!NextId \in DOMAIN incidents' /\ incidents'[I!NextId] = r
      BY <3>1 DEF I!Put
    <3> QED BY <2>8, <3>2, <3>3 DEF I!Answered
  <2>11. ~I!NoAlert(e)
    BY <2>7 DEF I!NoAlert
  <2> QED BY <2>2, <2>4, <2>6, <2>9, <2>10, <2>11
<1> QED BY <1>1, IncidentInvariant, PTL DEF I!Spec, I!BurstIsAnswered

-----------------------------------------------------------------------------
(* VulnerabilityTracking                                                   *)

(* The file of a vulnerability tells what memory tells, unless it is being *)
(* written or a crash left it unreadable.                                  *)
FilesTell ==
  \A v \in DOMAIN vulns \ (v_torn \cup {v_saving}) : v \in DOMAIN v_files /\ v_files[v] = vulns[v]

(* What a scanner that is done saw and nothing has changed since is among  *)
(* what it found, or was added already and is open.                        *)
SeenInv ==
  \A s \in DOMAIN Detects : \A v \in steady \cap Detects[s] :
    s < scan => \/ v \in found
                \/ scan = V!Adding /\ v \in DOMAIN vulns /\ vulns[v] \notin V!Fixed

TrackInv ==
  /\ V!TypeOK /\ found \subseteq Vulns
  /\ vulns = [v \in DOMAIN vulns |-> vulns[v]]
  /\ decision \in [Vulns -> V!Statuses \cup {"none"}]
  /\ \A v \in DOMAIN v_files : v \in Vulns /\ v_files[v] \in V!Statuses \cup {V!Torn}
  /\ FilesTell /\ V!TriageIsKept /\ SeenInv

LEMMA ScannerKeeps ==
  ASSUME V!DetectsAssumption, TrackInv, scan \in DOMAIN Detects,
         NEW reported \in SUBSET present, V!ScannerEnds(reported),
         steady' \subseteq steady,
         \A v \in steady' \cap Detects[scan] : v \in reported
  PROVE  TrackInv'
<1>1. scan \in Nat /\ scan + 1 \in 0 .. V!Adding
  BY DEF V!DetectsAssumption, V!Adding
<1>2. V!TypeOK'
  BY <1>1 DEF TrackInv, V!TypeOK, V!ScannerEnds
<1>3. SeenInv'
  <2> SUFFICES ASSUME NEW s \in DOMAIN Detects, NEW v \in steady' \cap Detects[s], s < scan + 1
               PROVE  v \in found'
    BY DEF V!ScannerEnds, SeenInv
  <2>1. s \in Nat /\ scan # V!Adding
    BY DEF V!DetectsAssumption, V!Adding
  <2>2. CASE s = scan
    BY <2>2 DEF V!ScannerEnds
  <2>3. CASE s < scan
    BY <2>1, <2>3 DEF V!ScannerEnds, TrackInv, SeenInv
  <2> QED BY <1>1, <2>1, <2>2, <2>3
<1> QED BY <1>2, <1>3 DEF TrackInv, V!ScannerEnds, FilesTell, V!TriageIsKept, V!TypeOK

LEMMA AddKeeps ==
  ASSUME V!DetectsAssumption, TrackInv, NEW u \in found, V!AddVulnerability(u)
  PROVE  TrackInv'
<1>1. /\ u \in Vulns /\ DOMAIN vulns' = DOMAIN vulns \cup {u}
      /\ vulns'[u] = V!StatusFound(u)
      /\ \A j \in DOMAIN vulns \ {u} : vulns'[j] = vulns[j]
      /\ vulns' = [v \in DOMAIN vulns' |-> vulns'[v]]
  BY DEF TrackInv, V!AddVulnerability, V!Put
<1>2. V!StatusFound(u) \in V!Statuses /\ V!StatusFound(u) \notin V!Fixed
  BY DEF V!StatusFound, V!Statuses, V!Fixed, TrackInv, V!TypeOK
<1>3. V!TypeOK'
  BY <1>1, <1>2 DEF TrackInv, V!TypeOK, V!AddVulnerability
<1>4. FilesTell'
  BY <1>1 DEF TrackInv, V!TypeOK, V!DetectsAssumption, FilesTell, V!AddVulnerability
<1>5. V!TriageIsKept'
  <2> SUFFICES ASSUME NEW v \in Vulns \ v_torn, decision[v] \in V!Triaged
               PROVE  v \in DOMAIN vulns' /\ vulns'[v] = decision[v]
    BY DEF V!TriageIsKept, V!AddVulnerability
  <2>1. v \in DOMAIN vulns /\ vulns[v] = decision[v]
    BY DEF TrackInv, V!TriageIsKept
  <2>2. vulns[v] \notin V!Fixed
    BY <2>1 DEF V!Fixed, V!Triaged
  <2> QED BY <1>1, <2>1, <2>2 DEF V!StatusFound
<1>6. SeenInv'
  BY <1>1, <1>2 DEF TrackInv, SeenInv, V!AddVulnerability
<1> QED BY <1>1, <1>3, <1>4, <1>5, <1>6 DEF TrackInv, V!AddVulnerability

LEMMA UpdateKeeps ==
  ASSUME V!DetectsAssumption, TrackInv, NEW u \in Vulns, NEW status \in V!Statuses,
         V!UpdateVulnerability(u, status)
  PROVE  TrackInv'
<1>1. /\ DOMAIN vulns' = DOMAIN vulns /\ vulns'[u] = status
      /\ \A j \in DOMAIN vulns \ {u} : vulns'[j] = vulns[j]
      /\ vulns' = [v \in DOMAIN vulns' |-> vulns'[v]]
  BY DEF TrackInv, V!UpdateVulnerability
<1>2. decision' \in [Vulns -> V!Statuses \cup {"none"}]
  BY DEF TrackInv, V!UpdateVulnerability
<1>3. V!TypeOK'
  BY <1>1 DEF TrackInv, V!TypeOK, V!UpdateVulnerability
<1>4. FilesTell'
  BY <1>1 DEF TrackInv, V!TypeOK, V!DetectsAssumption, FilesTell, V!UpdateVulnerability
<1>5. V!TriageIsKept'
  BY <1>1 DEF TrackInv, V!TriageIsKept, V!UpdateVulnerability
<1>6. SeenInv'
  BY <1>1 DEF TrackInv, SeenInv, V!UpdateVulnerability
<1> QED BY <1>1, <1>2, <1>3, <1>4, <1>5, <1>6 DEF TrackInv, V!UpdateVulnerability

LEMMA SaveKeeps ==
  ASSUME V!DetectsAssumption, TrackInv, V!SaveVulnerability
  PROVE  TrackInv'
<1>1. v_saving \in DOMAIN vulns
  BY DEF TrackInv, V!TypeOK, V!SaveVulnerability
<1>2. /\ DOMAIN v_files' = DOMAIN v_files \cup {v_saving} /\ v_files'[v_saving] = vulns[v_saving]
      /\ \A j \in DOMAIN v_files \ {v_saving} : v_files'[j] = v_files[j]
  BY DEF V!SaveVulnerability, V!Put
<1>3. FilesTell'
  BY <1>2 DEF TrackInv, FilesTell, V!SaveVulnerability
<1> QED BY <1>1, <1>2, <1>3 DEF TrackInv, V!SaveVulnerability, V!TypeOK, V!TriageIsKept, SeenInv

LEMMA RestartKeeps ==
  ASSUME V!DetectsAssumption, TrackInv, V!Restart
  PROVE  TrackInv'
<1>1. /\ \A v \in DOMAIN v_files' : /\ v \in Vulns /\ v_files'[v] \in V!Statuses \cup {V!Torn}
                                    /\ v # v_saving => v \in DOMAIN v_files /\ v_files'[v] = v_files[v]
      /\ \A v \in DOMAIN v_files : v # v_saving => v \in DOMAIN v_files' /\ v_files'[v] = v_files[v]
  <2>1. CASE v_saving = NoVuln
    BY <2>1 DEF TrackInv, V!Restart
  <2>2. CASE v_saving # NoVuln
    <3>1. v_files' = V!Put(v_files, v_saving, V!Torn) /\ v_saving \in Vulns
      BY <2>2 DEF TrackInv, V!TypeOK, V!Restart
    <3> QED BY <3>1 DEF TrackInv, V!Put
  <2> QED BY <2>1, <2>2
<1>2. /\ DOMAIN vulns' = {f \in DOMAIN v_files' : v_files'[f] # V!Torn}
      /\ \A v \in DOMAIN vulns' : vulns'[v] = v_files'[v]
      /\ vulns' = [v \in DOMAIN vulns' |-> vulns'[v]]
  BY DEF V!Restart
<1>3. V!Torn \notin V!Statuses
  BY DEF V!Torn, V!Statuses
<1>4. V!TypeOK'
  BY <1>1, <1>2 DEF TrackInv, V!TypeOK, V!Restart, V!Adding, V!DetectsAssumption
<1>5. FilesTell'
  BY <1>1, <1>2 DEF FilesTell
<1>6. V!TriageIsKept'
  <2> SUFFICES ASSUME NEW v \in Vulns, v \notin v_torn', decision[v] \in V!Triaged
               PROVE  v \in DOMAIN vulns' /\ vulns'[v] = decision[v]
    BY DEF V!TriageIsKept, V!Restart
  <2>1. v \notin v_torn /\ v # v_saving
    BY DEF V!Restart, V!DetectsAssumption
  <2>2. v \in DOMAIN vulns /\ vulns[v] = decision[v]
    BY <2>1 DEF TrackInv, V!TriageIsKept
  <2>3. v \in DOMAIN v_files /\ v_files[v] = vulns[v] /\ vulns[v] \in V!Statuses
    BY <2>1, <2>2 DEF TrackInv, FilesTell, V!TypeOK
  <2> QED BY <1>1, <1>2, <1>3, <2>1, <2>2, <2>3
<1>7. SeenInv'
  BY DEF SeenInv, V!Restart
<1> QED BY <1>1, <1>2, <1>4, <1>5, <1>6, <1>7 DEF TrackInv, V!Restart

(* What runs, and what people and packages do, keeps to the invariant.     *)
THEOREM TrackInvariant ==
  ASSUME V!DetectsAssumption
  PROVE  V!Spec => []TrackInv
<1> USE DEF V!DetectsAssumption
<1>1. V!Init => TrackInv
  BY DEF V!Init, TrackInv, V!TypeOK, FilesTell, V!TriageIsKept, SeenInv, V!Triaged, V!Adding,
         V!Statuses
<1>2. TrackInv /\ [V!Next]_V!vars => TrackInv'
  <2> SUFFICES ASSUME TrackInv, [V!Next]_V!vars PROVE TrackInv'
    OBVIOUS
  <2>1. CASE V!RunFullScan
    BY <2>1 DEF V!RunFullScan, TrackInv, V!TypeOK, FilesTell, V!TriageIsKept, SeenInv, V!Adding
  <2>2. CASE V!ScannerSucceeds
    <3> DEFINE reported == present \cap Detects[scan]
    <3>1. /\ scan \in DOMAIN Detects /\ reported \in SUBSET present
          /\ V!ScannerEnds(reported) /\ steady' = steady
      BY <2>2 DEF V!ScannerSucceeds
    <3>2. \A v \in steady' \cap Detects[scan] : v \in reported
      BY <3>1 DEF TrackInv, V!TypeOK
    <3> QED BY <3>1, <3>2, ScannerKeeps
  <2>3. CASE V!ScannerFails
    <3>1. PICK reported \in SUBSET (present \cap Detects[scan]) : V!ScannerEnds(reported)
      BY <2>3 DEF V!ScannerFails
    <3> QED BY <2>3, <3>1, ScannerKeeps DEF V!ScannerFails
  <2>4. CASE \E v \in found : V!AddVulnerability(v)
    BY <2>4, AddKeeps
  <2>5. CASE V!ScanEnds
    BY <2>5 DEF V!ScanEnds, TrackInv, V!TypeOK, FilesTell, V!TriageIsKept, SeenInv, V!Adding
  <2>6. CASE \E v \in Vulns, s \in V!Statuses : V!UpdateVulnerability(v, s)
    BY <2>6, UpdateKeeps
  <2>7. CASE V!SaveVulnerability
    BY <2>7, SaveKeeps
  <2>8. CASE V!Restart
    BY <2>8, RestartKeeps
  <2>9. CASE \E v \in Vulns : V!Change(v)
    BY <2>9 DEF V!Change, TrackInv, V!TypeOK, FilesTell, V!TriageIsKept, SeenInv
  <2>10. CASE UNCHANGED V!vars
    BY <2>10 DEF V!vars, TrackInv, V!TypeOK, FilesTell, V!TriageIsKept, SeenInv
  <2> QED BY <2>1, <2>2, <2>3, <2>4, <2>5, <2>6, <2>7, <2>8, <2>9, <2>10 DEF V!Next
<1> QED BY <1>1, <1>2, PTL DEF V!Spec

(* No scan and no restart undoes the decision to accept a risk or to       *)
(* dismiss a finding (add_vulnerability, load_vulnerabilities).            *)
THEOREM TrackingCorrect ==
  ASSUME V!DetectsAssumption
  PROVE  V!Spec => []V!TrackingSound
<1>1. TrackInv => V!TrackingSound
  BY DEF TrackInv, V!TrackingSound
<1> QED BY <1>1, TrackInvariant, PTL

(* At the end of run_full_scan, what was there throughout and in reach of  *)
(* a scanner that did not fail is known and open.                          *)
THEOREM ScansOpen ==
  ASSUME V!DetectsAssumption
  PROVE  V!Spec => V!ScannedIsOpen
<1>1. TrackInv /\ [V!Next]_V!vars =>
        [V!ScanEnds => \A v \in steady :
            (\E s \in DOMAIN Detects : v \in Detects[s])
                => v \in DOMAIN vulns /\ vulns[v] \notin V!Fixed]_V!vars
  <2> SUFFICES ASSUME TrackInv, V!ScanEnds, NEW v \in steady, NEW s \in DOMAIN Detects,
                      v \in Detects[s]
               PROVE  v \in DOMAIN vulns /\ vulns[v] \notin V!Fixed
    OBVIOUS
  <2>1. s < scan
    BY DEF V!ScanEnds, V!Adding, V!DetectsAssumption
  <2> QED BY <2>1 DEF TrackInv, SeenInv, V!ScanEnds
<1> QED BY <1>1, TrackInvariant, PTL DEF V!Spec, V!ScannedIsOpen

-----------------------------------------------------------------------------
(* AnomalyDetection                                                        *)

(* Partial sums exist, and their recursion defines them. *)
LEMMA SumsFacts ==
  ASSUME NEW s \in Seq(Int)
  PROVE  /\ A!Sums(s)[0] = 0
         /\ \A k \in 1 .. Len(s) : A!Sums(s)[k] = A!Sums(s)[k - 1] + s[k]
         /\ \A k \in 0 .. Len(s) : A!Sums(s)[k] \in Int
<1> DEFINE n == Len(s)
           Good(f, k) == /\ f = [i \in 0 .. k |-> f[i]] /\ f[0] = 0
                         /\ \A i \in 1 .. k : f[i] = f[i - 1] + s[i]
<1>1. n \in Nat /\ \A i \in 1 .. n : s[i] \in Int
  BY ElementOfSeq
<1>2. \A k \in Nat : k <= n => \E f : Good(f, k)
  <2> DEFINE N == {k \in Nat : k <= n => \E f : Good(f, k)}
  <2>1. 0 \in N
    <3>1. Good([i \in 0 .. 0 |-> 0], 0)
      OBVIOUS
    <3> QED BY <3>1
  <2>2. ASSUME NEW k \in N PROVE k + 1 \in N
    <3> SUFFICES ASSUME k + 1 <= n PROVE \E f : Good(f, k + 1)
      OBVIOUS
    <3>1. PICK f : Good(f, k)
      BY <1>1
    <3> DEFINE g == [i \in 0 .. k + 1 |-> IF i = k + 1 THEN f[k] + s[k + 1] ELSE f[i]]
    <3>2. g = [i \in 0 .. k + 1 |-> g[i]] /\ g[0] = 0
      BY <3>1
    <3>3. ASSUME NEW i \in 1 .. k + 1 PROVE g[i] = g[i - 1] + s[i]
      <4>1. CASE i = k + 1
        BY <4>1
      <4>2. CASE i # k + 1
        <5>1. i \in 1 .. k /\ i - 1 \in 0 .. k + 1 /\ i - 1 # k + 1
          BY <4>2
        <5>2. g[i] = f[i] /\ g[i - 1] = f[i - 1]
          BY <5>1
        <5> QED BY <3>1, <5>1, <5>2
      <4> QED BY <4>1, <4>2
    <3> HIDE DEF g
    <3>4. Good(g, k + 1)
      BY <3>2, <3>3
    <3> QED BY <3>4
  <2>3. N = Nat
    <3> HIDE DEF N
    <3>1. N \in SUBSET Nat
      BY DEF N
    <3> QED BY <2>1, <2>2, <3>1, SetInduction
  <2> QED BY <2>3
<1> DEFINE Sound(f) == f = [i \in 0 .. n |-> IF i = 0 THEN 0 ELSE f[i - 1] + s[i]]
<1>3. \E f : Sound(f)
  <2>1. PICK f : Good(f, n)
    <3>1. n <= n
      BY <1>1
    <3> HIDE DEF Good, n
    <3> QED BY <1>1, <1>2, <3>1
  <2>2. \A i \in 0 .. n : f[i] = IF i = 0 THEN 0 ELSE f[i - 1] + s[i]
    <3> HIDE DEF n
    <3>1. \A i \in 0 .. n : i = 0 \/ i \in 1 .. n
      BY <1>1
    <3> QED BY <2>1, <3>1
  <2>3. f = [i \in 0 .. n |-> f[i]]
    BY <2>1
  <2>4. Sound(f)
    BY <2>2, <2>3
  <2> QED BY <2>4
<1>4. A!Sums(s) = CHOOSE f : Sound(f)
  BY DEF A!Sums
<1>5. Sound(A!Sums(s))
  BY <1>3, <1>4
<1> HIDE DEF Good
<1> DEFINE f == A!Sums(s)
<1>6. f[0] = 0 /\ \A k \in 1 .. n : f[k] = f[k - 1] + s[k]
  <2> HIDE DEF f
  <2>1. f = [i \in 0 .. n |-> IF i = 0 THEN 0 ELSE f[i - 1] + s[i]]
    BY <1>5 DEF f
  <2> QED BY <1>1, <2>1
<1>7. \A k \in 0 .. n : f[k] \in Int
  <2> DEFINE N == {k \in Nat : k <= n => f[k] \in Int}
  <2> HIDE DEF f, n
  <2>1. 0 \in N
    BY <1>6
  <2>2. ASSUME NEW k \in N PROVE k + 1 \in N
    BY <1>1, <1>6
  <2>3. N = Nat
    <3> HIDE DEF N
    <3>1. N \in SUBSET Nat
      BY DEF N
    <3> QED BY <2>1, <2>2, <3>1, SetInduction
  <2> QED BY <1>1, <2>3
<1> QED BY <1>6, <1>7

(* What a sum is when the elements are known: its steps are.               *)
LEMMA SquaredSeq ==
  ASSUME NEW s \in Seq(Int)
  PROVE  LET q == [i \in DOMAIN s |-> s[i] * s[i]]
         IN  q \in Seq(Int) /\ Len(q) = Len(s) /\ \A i \in 1 .. Len(s) : q[i] = s[i] * s[i]
<1>1. Len(s) \in Nat /\ DOMAIN s = 1 .. Len(s) /\ \A i \in 1 .. Len(s) : s[i] \in Int
  BY ElementOfSeq
<1>2. \A i \in 1 .. Len(s) : s[i] * s[i] \in Int
  BY <1>1
<1> DEFINE q == [i \in DOMAIN s |-> s[i] * s[i]]
<1>3. q \in [1 .. Len(s) -> Int]
  BY <1>1, <1>2
<1>4. \A i \in 1 .. Len(s) : q[i] = s[i] * s[i]
  BY <1>1
<1> HIDE DEF q
<1>5. q \in Seq(Int) /\ Len(q) = Len(s)
  BY <1>1, <1>3
<1> QED BY <1>4, <1>5 DEF q

LEMMA MoreOnes ==
  ASSUME NEW c \in Int, NEW k \in Nat
  PROVE  (k + 1) * c = k * c + c
OBVIOUS

(* The sums over a stretch of equal elements. *)
LEMMA ConstantSums ==
  ASSUME NEW s \in Seq(Int), NEW c \in Int, NEW m \in 0 .. Len(s),
         \A i \in 1 .. m : s[i] = c
  PROVE  A!Sums(s)[m] = m * c
<1> DEFINE N == {k \in Nat : k <= m => A!Sums(s)[k] = k * c}
<1>1. 0 \in N
  BY SumsFacts
<1>2. ASSUME NEW k \in N, k + 1 <= m PROVE A!Sums(s)[k + 1] = (k + 1) * c
  <2>1. k \in Nat /\ k <= m /\ k + 1 \in 1 .. Len(s) /\ k + 1 \in 1 .. m /\ k + 1 - 1 = k
    BY <1>2
  <2>2. A!Sums(s)[k + 1] = A!Sums(s)[k] + s[k + 1]
    BY <2>1, SumsFacts
  <2>3. A!Sums(s)[k] = k * c /\ s[k + 1] = c
    BY <2>1
  <2> QED BY <2>1, <2>2, <2>3, MoreOnes
<1>3. N = Nat
  <2>1. \A k \in N : k + 1 \in N
    BY <1>2
  <2> HIDE DEF N
  <2>2. N \in SUBSET Nat
    BY DEF N
  <2> QED BY <1>1, <2>1, <2>2, SetInduction
<1> QED BY <1>3

(* The sum and the sum of squares of all elements but the last, when they  *)
(* are equal, and of all.                                                  *)
LEMMA ConstantButLast ==
  ASSUME NEW s \in Seq(Int), NEW c \in Int, NEW m \in Nat, Len(s) = m + 1,
         \A i \in 1 .. m : s[i] = c
  PROVE  /\ A!Sum(s) = m * c + s[m + 1]
         /\ A!Squares(s) = m * (c * c) + s[m + 1] * s[m + 1]
<1> DEFINE q == [i \in DOMAIN s |-> s[i] * s[i]]
<1>1. q \in Seq(Int) /\ Len(q) = Len(s) /\ \A i \in 1 .. Len(s) : q[i] = s[i] * s[i]
  BY SquaredSeq
<1>2. A!Squares(s) = A!Sums(q)[Len(q)] /\ A!Sum(s) = A!Sums(s)[Len(s)]
  BY DEF A!Squares, A!Sum
<1> HIDE DEF q
<1>3. m \in 0 .. Len(s) /\ m + 1 \in 1 .. Len(s) /\ m + 1 - 1 = m
  OBVIOUS
<1>4. A!Sums(s)[m] = m * c
  BY <1>3, ConstantSums
<1>5. A!Sums(q)[m] = m * (c * c)
  <2>1. \A i \in 1 .. m : q[i] = c * c
    BY <1>1
  <2>2. c * c \in Int
    OBVIOUS
  <2> QED BY <1>1, <1>3, <2>1, <2>2, ConstantSums
<1>6. A!Sums(s)[m + 1] = A!Sums(s)[m] + s[m + 1]
  BY <1>3, SumsFacts
<1>7. A!Sums(q)[m + 1] = A!Sums(q)[m] + q[m + 1]
  BY <1>1, <1>3, SumsFacts
<1> QED BY <1>1, <1>2, <1>3, <1>4, <1>5, <1>6, <1>7

(* A sequence of midnight's hours: k of them are 23. *)
LEMMA MidnightSums ==
  ASSUME NEW s \in Seq({0, 23})
  PROVE  \E k \in 0 .. Len(s) : A!Sum(s) = 23 * k /\ A!Squares(s) = 529 * k
<1> DEFINE q == [i \in DOMAIN s |-> s[i] * s[i]]
           n == Len(s)
<1>0. s \in Seq(Int) /\ n \in Nat /\ \A i \in 1 .. n : s[i] \in {0, 23}
  <2>1. n \in Nat /\ \A i \in 1 .. n : s[i] \in {0, 23}
    BY ElementOfSeq
  <2>2. {0, 23} \subseteq Int
    OBVIOUS
  <2> QED BY <2>1, <2>2
<1>1. q \in Seq(Int) /\ Len(q) = n /\ \A i \in 1 .. n : q[i] = s[i] * s[i]
  BY <1>0, SquaredSeq
<1>2. A!Squares(s) = A!Sums(q)[n] /\ A!Sum(s) = A!Sums(s)[n]
  BY <1>1 DEF A!Squares, A!Sum
<1>3. \A i \in 1 .. Len(q) : A!Sums(q)[i] = A!Sums(q)[i - 1] + q[i]
  <2>1. q \in Seq(Int)
    BY <1>1
  <2> HIDE DEF q
  <2> QED BY <2>1, SumsFacts
<1> HIDE DEF q, n
<1> DEFINE N == {j \in Nat : j <= n =>
                   \E k \in 0 .. j : A!Sums(s)[j] = 23 * k /\ A!Sums(q)[j] = 529 * k}
<1>4. 0 \in N
  <2>1. A!Sums(s)[0] = 0 /\ A!Sums(q)[0] = 0
    BY <1>0, <1>1, SumsFacts
  <2> QED BY <2>1
<1>5. ASSUME NEW j \in N, j + 1 <= n
      PROVE  \E k \in 0 .. j + 1 : A!Sums(s)[j + 1] = 23 * k /\ A!Sums(q)[j + 1] = 529 * k
  <2>1. j \in Nat /\ j <= n /\ j + 1 \in 1 .. n /\ j + 1 - 1 = j
    BY <1>0, <1>5
  <2>2. PICK k \in 0 .. j : A!Sums(s)[j] = 23 * k /\ A!Sums(q)[j] = 529 * k
    BY <2>1
  <2>3. A!Sums(s)[j + 1] = A!Sums(s)[j] + s[j + 1]
    BY <1>0, <2>1, SumsFacts DEF n
  <2>4. A!Sums(q)[j + 1] = A!Sums(q)[j] + s[j + 1] * s[j + 1]
    <3>1. A!Sums(q)[j + 1] = A!Sums(q)[j + 1 - 1] + q[j + 1]
      BY <1>1, <1>3, <2>1
    <3> QED BY <1>1, <2>1, <3>1
  <2>5. CASE s[j + 1] = 0
    <3>1. A!Sums(s)[j + 1] = 23 * k /\ A!Sums(q)[j + 1] = 529 * k /\ k \in 0 .. j + 1
      BY <2>1, <2>2, <2>3, <2>4, <2>5
    <3> QED BY <3>1
  <2>6. CASE s[j + 1] = 23
    <3>1. /\ A!Sums(s)[j + 1] = 23 * (k + 1) /\ A!Sums(q)[j + 1] = 529 * (k + 1)
          /\ k + 1 \in 0 .. j + 1
      BY <2>1, <2>2, <2>3, <2>4, <2>6
    <3> QED BY <3>1
  <2> QED BY <1>0, <2>1, <2>5, <2>6
<1>6. N = Nat
  <2>1. \A j \in N : j + 1 \in N
    BY <1>5
  <2> HIDE DEF N
  <2>2. N \in SUBSET Nat
    BY DEF N
  <2> QED BY <1>4, <2>1, <2>2, SetInduction
<1> QED BY <1>0, <1>2, <1>6 DEF n

(* Products of naturals keep the order. *)
LEMMA TimesKeeps ==
  ASSUME NEW a \in Int, NEW b \in Int, NEW c \in Nat, a <= b
  PROVE  a * c <= b * c
<1>1. (b - a) * c >= 0
  OBVIOUS
<1>2. (b - a) * c = b * c - a * c
  OBVIOUS
<1> QED BY <1>1, <1>2

LEMMA Positive ==
  ASSUME NEW a \in Int, NEW b \in Int, a > 0, b > 0
  PROVE  a * b > 0
OBVIOUS

(* The statistics of m equal values c and another one v. *)
LEMMA OutlierSpread ==
  ASSUME NEW m \in Nat, NEW c \in Int, NEW v \in Int
  PROVE  (m + 1) * ((m + 1) * (m * (c * c) + v * v) - (m * c + v) * (m * c + v))
           = (m + 1) * (m * ((v - c) * (v - c)))
OBVIOUS

LEMMA OutlierIsFar ==
  ASSUME NEW m \in Nat, NEW d \in Int, m >= 10, d # 0
  PROVE  /\ (m + 1) * (m * (d * d)) > 0
         /\ (m * d) * (m * d) * m >= 9 * ((m + 1) * (m * (d * d)))
<1> DEFINE p == m * (d * d)
<1>1. d * d > 0
  <2>1. CASE d > 0
    BY <2>1, Positive
  <2>2. CASE d < 0
    <3>1. (-d) * (-d) > 0
      BY <2>2, Positive
    <3>2. (-d) * (-d) = d * d
      OBVIOUS
    <3> QED BY <3>1, <3>2
  <2> QED BY <2>1, <2>2
<1>2. d * d \in Int /\ p \in Int
  OBVIOUS
<1>3. p > 0
  BY <1>1, <1>2, Positive
<1>4. (m * d) * (m * d) * m = (m * m) * p
  OBVIOUS
<1> HIDE DEF p
<1>5. (m + 1) * p > 0
  BY <1>2, <1>3, Positive
<1>6. 9 * (m + 1) <= m * m
  <2>1. 10 * m <= m * m
    BY TimesKeeps
  <2> QED BY <2>1
<1>7. (9 * (m + 1)) * p <= (m * m) * p
  <2>1. 9 * (m + 1) \in Int /\ m * m \in Int /\ p \in Nat
    BY <1>2, <1>3
  <2> QED BY <1>6, <2>1, TimesKeeps
<1>8. (9 * (m + 1)) * p = 9 * ((m + 1) * p)
  BY <1>2
<1> QED BY <1>4, <1>5, <1>7, <1>8 DEF p

(* On n logins, j of them on the other side of midnight, none is more than *)
(* two deviations off.                                                     *)
MidnightDistance(n, j) == IF 23 * j > 12 * n THEN 24 * n - 23 * j ELSE 23 * j
Near(n, j, D) == D * D * (n - 1) <= 4 * (529 * (n * (j * (n - j))))

LEMMA MidnightIsNear ==
  ASSUME NEW n \in 2 .. 805, NEW j \in 1 .. n - 1
  PROVE  Near(n, j, MidnightDistance(n, j))
<1> DEFINE D == MidnightDistance(n, j)
<1> SUFFICES D * D * (n - 1) <= 4 * (529 * (n * (j * (n - j))))
  BY DEF Near
<1>0. D = IF 23 * j > 12 * n THEN 24 * n - 23 * j ELSE 23 * j
  BY DEF MidnightDistance
<1> HIDE DEF D
<1> DEFINE k == n - j
<1>1. k \in Nat /\ k >= 1 /\ j \in Nat /\ n \in Nat /\ j >= 1 /\ n - 1 \in Nat
  OBVIOUS
<1>2. CASE 23 * j <= 12 * n
  <2>1. D = 23 * j
    BY <1>0, <1>2
  <2>2. j <= 4 * k
    BY <1>2
  <2>3. (j * j) * (n - 1) <= 4 * (n * (j * k))
    <3>1. j * n <= (4 * k) * n
      BY <1>1, <2>2, TimesKeeps
    <3>2. j * (n - 1) <= j * n
      BY <1>1
    <3>3. (j * (n - 1)) * j <= ((4 * k) * n) * j
      BY <1>1, <3>1, <3>2, TimesKeeps
    <3>4. (j * (n - 1)) * j = (j * j) * (n - 1) /\ ((4 * k) * n) * j = 4 * (n * (j * k))
      BY <1>1
    <3> QED BY <3>3, <3>4
  <2>4. D * D * (n - 1) = 529 * ((j * j) * (n - 1))
    BY <2>1
  <2>5. (j * j) * (n - 1) \in Int /\ n * (j * k) \in Int
    BY <1>1
  <2> HIDE DEF k
  <2>6. 529 * ((j * j) * (n - 1)) <= 4 * (529 * (n * (j * k)))
    BY <2>3, <2>5
  <2> QED BY <2>4, <2>6 DEF k
<1>3. CASE 23 * j > 12 * n
  <2>1. D = n + 23 * k /\ 23 * k <= 11 * n /\ D \in Nat
    BY <1>0, <1>3
  <2>2. n * n <= 805 * (n * k)
    <3>1. n <= 805 * k
      BY <1>1
    <3>2. n * n <= (805 * k) * n
      BY <1>1, <3>1, TimesKeeps
    <3>3. (805 * k) * n = 805 * (n * k)
      BY <1>1
    <3> QED BY <3>2, <3>3
  <2>3. 529 * (k * k) <= 253 * (n * k)
    <3>1. (23 * k) * (23 * k) <= (11 * n) * (23 * k)
      BY <1>1, <2>1, TimesKeeps
    <3>2. (23 * k) * (23 * k) = 529 * (k * k) /\ (11 * n) * (23 * k) = 253 * (n * k)
      BY <1>1
    <3> QED BY <3>1, <3>2
  <2>4. D * D = n * n + 46 * (n * k) + 529 * (k * k)
    BY <2>1
  <2>5. D * D <= 1104 * (n * k)
    <3>1. n * n \in Int /\ n * k \in Int /\ k * k \in Int
      BY <1>1
    <3> QED BY <2>2, <2>3, <2>4, <3>1
  <2>6. 1104 * (n * k) <= 2116 * (j * k)
    <3>1. 12 * n <= 23 * j
      BY <1>3
    <3>2. (92 * (12 * n)) * k <= (92 * (23 * j)) * k
      BY <1>1, <3>1, TimesKeeps
    <3>3. (92 * (12 * n)) * k = 1104 * (n * k) /\ (92 * (23 * j)) * k = 2116 * (j * k)
      BY <1>1
    <3> QED BY <3>2, <3>3
  <2>7. D * D * (n - 1) <= (2116 * (j * k)) * n
    <3>1. D * D \in Nat /\ 2116 * (j * k) \in Int
      BY <1>1, <2>1
    <3>2. D * D <= 2116 * (j * k)
      BY <1>1, <2>5, <2>6, <3>1
    <3>3. (D * D) * (n - 1) <= (2116 * (j * k)) * (n - 1)
      BY <1>1, <3>1, <3>2, TimesKeeps
    <3>4. (2116 * (j * k)) * (n - 1) = (2116 * (j * k)) * n - 2116 * (j * k)
      BY <1>1
    <3>5. 2116 * (j * k) >= 0
      BY <1>1
    <3>6. (2116 * (j * k)) * n \in Int /\ (D * D) * (n - 1) \in Int
      BY <1>1, <3>1
    <3> QED BY <3>1, <3>3, <3>4, <3>5, <3>6
  <2>8. (2116 * (j * k)) * n = 4 * (529 * (n * (j * k)))
    BY <1>1
  <2> QED BY <2>7, <2>8
<1> QED BY <1>2, <1>3

LEMMA LastOfFacts ==
  ASSUME NEW S, NEW s \in Seq(S), NEW N \in Nat
  PROVE  /\ A!LastOf(s, N) \in Seq(S)
         /\ Len(A!LastOf(s, N)) = IF Len(s) > N THEN N ELSE Len(s)
         /\ N >= 1 /\ Len(s) >= 1 =>
              A!LastOf(s, N)[Len(A!LastOf(s, N))] = s[Len(s)]
<1> DEFINE m == IF Len(s) > N THEN Len(s) - N + 1 ELSE 1
<1>1. Len(s) \in Nat /\ m \in 1 .. Len(s) + 1 /\ m \in Int
  OBVIOUS
<1>2. \A i \in m .. Len(s) : s[i] \in S
  <2>1. \A i \in m .. Len(s) : i \in 1 .. Len(s)
    BY <1>1
  <2> QED BY <2>1, ElementOfSeq
<1>3. A!LastOf(s, N) = SubSeq(s, m, Len(s))
  BY DEF A!LastOf
<1>4. Len(s) - m + 1 = IF Len(s) > N THEN N ELSE Len(s)
  BY <1>1
<1> HIDE DEF m
<1>5. /\ SubSeq(s, m, Len(s)) \in Seq(S)
      /\ Len(SubSeq(s, m, Len(s))) = IF m <= Len(s) THEN Len(s) - m + 1 ELSE 0
      /\ \A i \in 1 .. Len(s) - m + 1 : SubSeq(s, m, Len(s))[i] = s[m + i - 1]
  BY <1>1, <1>2, SubSeqProperties
<1>6. Len(A!LastOf(s, N)) = Len(s) - m + 1
  BY <1>1, <1>3, <1>5
<1>7. ASSUME N >= 1, Len(s) >= 1
      PROVE  A!LastOf(s, N)[Len(A!LastOf(s, N))] = s[Len(s)]
  <2>1. Len(s) - m + 1 \in 1 .. Len(s) - m + 1 /\ m + (Len(s) - m + 1) - 1 = Len(s)
    BY <1>1, <1>4, <1>7
  <2> QED BY <1>3, <1>5, <1>6, <2>1
<1> QED BY <1>3, <1>4, <1>5, <1>6, <1>7

(* A window that holds one value has no spread. *)
LEMMA ConstantIsSpreadless ==
  ASSUME NEW s \in Seq(Int), Len(s) >= 1, \A i \in 1 .. Len(s) : s[i] = s[1]
  PROVE  A!Spread(s) = 0
<1> DEFINE m == Len(s) - 1
           c == s[1]
<1>1. m \in Nat /\ Len(s) = m + 1 /\ c \in Int /\ m + 1 \in 1 .. Len(s) /\ s[m + 1] = c
      /\ \A i \in 1 .. m : s[i] = c
  <2>1. Len(s) \in Nat /\ 1 \in 1 .. Len(s)
    OBVIOUS
  <2> QED BY <2>1, ElementOfSeq
<1> HIDE DEF m, c
<1>2. A!Sum(s) = m * c + c /\ A!Squares(s) = m * (c * c) + c * c
  BY <1>1, ConstantButLast
<1>3. A!Spread(s) = (m + 1) * (m * ((c - c) * (c - c)))
  <2>1. A!Spread(s) = (m + 1) * ((m + 1) * (m * (c * c) + c * c) - (m * c + c) * (m * c + c))
    BY <1>1, <1>2 DEF A!Spread
  <2> QED BY <1>1, <2>1, OutlierSpread
<1> QED BY <1>1, <1>3

(* A sample that leaves a constant is three deviations off. *)
LEMMA OutlierIsCritical ==
  ASSUME A!CountsAssumption, NEW s \in Seq(Int), Len(s) >= MinSamples,
         NEW v \in Int, s[Len(s)] = v,
         \A i \in 1 .. Len(s) - 1 : s[i] # v /\ s[i] = s[1]
  PROVE  A!Severity(v, s) = "critical"
<1> DEFINE m == Len(s) - 1
           c == s[1]
           d == v - c
<1>0. MinSamples \in Nat /\ MinSamples >= 11
  BY DEF A!CountsAssumption
<1>1. /\ m \in Nat /\ m >= 10 /\ Len(s) = m + 1 /\ c \in Int /\ s[m + 1] = v /\ c # v
      /\ \A i \in 1 .. m : s[i] = c
  <2>1. Len(s) \in Nat /\ 1 \in 1 .. Len(s) - 1 /\ 1 \in 1 .. Len(s)
    BY <1>0
  <2>2. s[1] \in Int
    BY <2>1, ElementOfSeq
  <2> QED BY <1>0, <2>1, <2>2
<1> HIDE DEF m, c
<1>2. A!Sum(s) = m * c + v /\ A!Squares(s) = m * (c * c) + v * v
  BY <1>1, ConstantButLast
<1>3. d \in Int /\ d # 0
  BY <1>1
<1>4. A!Spread(s) = (m + 1) * (m * (d * d))
  <2>1. A!Spread(s) = (m + 1) * ((m + 1) * (m * (c * c) + v * v) - (m * c + v) * (m * c + v))
    BY <1>1, <1>2 DEF A!Spread
  <2> QED BY <1>1, <2>1, OutlierSpread
<1>5. A!Distance(v, s) = A!Abs(m * d)
  <2>1. Len(s) * v - A!Sum(s) = m * d
    BY <1>1, <1>2
  <2> QED BY <2>1 DEF A!Distance
<1> DEFINE D == A!Distance(v, s)
           p == A!Spread(s)
<1>6. D \in Nat /\ D * D = (m * d) * (m * d)
  <2>1. m * d \in Int
    BY <1>1, <1>3
  <2> DEFINE e == m * d
  <2> HIDE DEF e
  <2>2. A!Abs(e) \in Nat /\ A!Abs(e) * A!Abs(e) = e * e
    BY <2>1 DEF A!Abs, e
  <2> QED BY <1>5, <2>2 DEF e
<1>7. p > 0 /\ D * D * m >= 9 * p /\ p \in Int
  <2>1. p \in Int
    BY <1>1, <1>3, <1>4
  <2>2. p > 0 /\ (m * d) * (m * d) * m >= 9 * p
    BY <1>1, <1>3, <1>4, OutlierIsFar
  <2> QED BY <1>6, <2>1, <2>2
<1> HIDE DEF D, p
<1>8. D * D * m \in Int
  BY <1>1, <1>6
<1>9. A!AtLeast(D, s, 3, 1)
  <2>1. 1 * 1 * D * D * (Len(s) - 1) = D * D * m /\ 3 * 3 * p = 9 * p
    BY <1>1, <1>6, <1>7
  <2> QED BY <1>7, <2>1 DEF A!AtLeast, p
<1>10. A!AtLeast(D, s, 3, 2)
  <2>1. 2 * 2 * D * D * (Len(s) - 1) = 4 * (D * D * m) /\ 3 * 3 * p = 9 * p
    BY <1>1, <1>6, <1>7
  <2>2. 4 * (D * D * m) >= 9 * p
    BY <1>7, <1>8
  <2> QED BY <2>1, <2>2 DEF A!AtLeast, p
<1>11. ~(Len(s) < MinSamples) /\ p # 0
  BY <1>0, <1>7
<1> QED BY <1>9, <1>10, <1>11 DEF A!Severity, D, p

(* Of logins at midnight none is unusual. *)
LEMMA MidnightIsUsual ==
  ASSUME A!CountsAssumption, NEW s \in Seq({0, 23}), NEW h \in {0, 23}
  PROVE  ~A!UnusualHour(h, s)
<1> DEFINE r == A!LastOf(s, MaxLogins)
           n == Len(r)
           D == A!Round(A!Distance(h, r), n)
<1> SUFFICES ASSUME A!Spread(r) > 0, A!AtLeast(D, r, 2, 1),
                    4 * A!Spread(r) # D * D * (n - 1)
             PROVE  FALSE
  BY DEF A!UnusualHour
<1>1. MaxLogins \in Nat /\ MaxLogins <= 805
  BY DEF A!CountsAssumption
<1>2. r \in Seq({0, 23}) /\ n \in Nat /\ n <= 805
  BY <1>1, LastOfFacts
<1> HIDE DEF r
<1>3. PICK k \in 0 .. n : A!Sum(r) = 23 * k /\ A!Squares(r) = 529 * k
  BY <1>2, MidnightSums
<1>4. A!Spread(r) = 529 * (n * (k * (n - k)))
  <2>1. A!Spread(r) = n * (n * (529 * k) - (23 * k) * (23 * k))
    BY <1>3 DEF A!Spread
  <2> HIDE DEF n
  <2>2. n * (n * (529 * k) - (23 * k) * (23 * k)) = 529 * (n * (k * (n - k)))
    BY <1>2
  <2> QED BY <2>1, <2>2
<1>5. k \in 1 .. n - 1
  <2>1. k # 0
    BY <1>2, <1>4
  <2>2. k # n
    BY <1>2, <1>4
  <2> QED BY <1>2, <2>1, <2>2
<1> DEFINE j == IF h = 0 THEN k ELSE n - k
<1>6. j \in 1 .. n - 1 /\ n \in 2 .. 805
  <2> HIDE DEF n
  <2>1. n - k \in 1 .. n - 1 /\ n \in 2 .. 805
    BY <1>2, <1>5
  <2> QED BY <1>5, <2>1
<1>7. A!Distance(h, r) = 23 * j
  BY <1>2, <1>3, <1>5 DEF A!Distance, A!Abs
<1>8. D = MidnightDistance(n, j)
  BY <1>7 DEF A!Round, MidnightDistance
<1>9. j * (n - j) = k * (n - k)
  BY <1>2, <1>5
<1> HIDE DEF D, n, j
<1>10. D \in Int
  BY <1>6, <1>8 DEF MidnightDistance
<1>11. D * D * (n - 1) <= 4 * (529 * (n * (j * (n - j))))
  <2>1. Near(n, j, D)
    BY <1>6, <1>8, MidnightIsNear
  <2> QED BY <2>1 DEF Near
<1>12. D * D * (n - 1) <= 4 * A!Spread(r)
  BY <1>4, <1>9, <1>11
<1>13. D * D * (n - 1) >= 4 * A!Spread(r)
  <2>1. 1 * 1 * D * D * (n - 1) = D * D * (n - 1) /\ 2 * 2 * A!Spread(r) = 4 * A!Spread(r)
    <3>1. A!Spread(r) \in Int
      BY <1>2, <1>4
    <3> QED BY <1>6, <1>10, <3>1
  <2> QED BY <2>1 DEF A!AtLeast, n
<1>14. D * D * (n - 1) \in Int /\ A!Spread(r) \in Int
  BY <1>2, <1>4, <1>6, <1>10
<1> QED BY <1>12, <1>13, <1>14 DEF D

Severities == {"critical", "high", "medium"}

AnomalyTypes ==
  /\ events \in Nat
  /\ window \in Seq(MetricValues) /\ Len(window) <= WindowSize
  /\ hours \in Seq(Hours) /\ addresses \subseteq Addresses
  /\ anomalies \in [DOMAIN anomalies -> Severities]
  /\ alarm = "none" \/ \E i \in DOMAIN anomalies : alarm = anomalies[i]

OneValue == Len(window) >= 1 /\ \A i \in 1 .. Len(window) : window[i] = window[1]

AnomalyInv ==
  /\ AnomalyTypes /\ A!MidnightIsNoJump
  /\ watched = "metric" /\ OneValue => alarm = "none"

LEMMA RecordFacts ==
  ASSUME AnomalyTypes, NEW kind, NEW severity \in Severities \cup {"none"},
         A!Record(kind, severity)
  PROVE  /\ anomalies' \in [DOMAIN anomalies' -> Severities]
         /\ alarm' = "none" \/ \E i \in DOMAIN anomalies' : alarm' = anomalies'[i]
         /\ alarm' = severity
         /\ DOMAIN anomalies' \subseteq DOMAIN anomalies \cup {<<a_now, kind>>}
<1>1. CASE severity = "none"
  BY <1>1 DEF A!Record, AnomalyTypes
<1>2. CASE severity # "none"
  <2> DEFINE entry == <<a_now, kind>>
  <2>1. /\ anomalies' = [i \in DOMAIN anomalies \cup {entry} |->
                          IF i = entry THEN severity ELSE anomalies[i]]
        /\ alarm' = severity
    BY <1>2 DEF A!Record
  <2> HIDE DEF entry
  <2>2. severity \in Severities /\ anomalies \in [DOMAIN anomalies -> Severities]
    BY <1>2 DEF AnomalyTypes
  <2>3. /\ DOMAIN anomalies' = DOMAIN anomalies \cup {entry}
        /\ anomalies' = [i \in DOMAIN anomalies' |-> anomalies'[i]]
        /\ anomalies'[entry] = severity
        /\ \A i \in DOMAIN anomalies' : anomalies'[i] \in Severities
    BY <2>1, <2>2
  <2>4. anomalies' \in [DOMAIN anomalies' -> Severities]
    BY <2>3
  <2>5. \E i \in DOMAIN anomalies' : severity = anomalies'[i]
    BY <2>3
  <2> QED BY <2>1, <2>3, <2>4, <2>5 DEF entry
<1> QED BY <1>1, <1>2

LEMMA AddedFacts ==
  ASSUME A!CountsAssumption, AnomalyTypes, NEW v \in MetricValues
  PROVE  /\ A!Added(v) \in Seq(MetricValues) /\ Len(A!Added(v)) <= WindowSize
         /\ A!Added(v) \in Seq(Int)
         /\ Len(A!Added(v)) >= 1 /\ A!Added(v)[Len(A!Added(v))] = v
<1> DEFINE s == Append(window, v)
<1>1. WindowSize \in Nat /\ WindowSize >= 1 /\ MetricValues \subseteq Int
  BY DEF A!CountsAssumption
<1>2. window \in Seq(MetricValues) /\ Len(window) \in Nat
  BY DEF AnomalyTypes
<1>3. s \in Seq(MetricValues) /\ Len(s) = Len(window) + 1 /\ s[Len(s)] = v
  BY <1>2, AppendProperties
<1> HIDE DEF s
<1>4. A!Added(v) = A!LastOf(s, WindowSize)
  BY DEF A!Added, s
<1>5. /\ A!Added(v) \in Seq(MetricValues)
      /\ Len(A!Added(v)) = IF Len(s) > WindowSize THEN WindowSize ELSE Len(s)
      /\ A!Added(v)[Len(A!Added(v))] = v
  BY <1>1, <1>2, <1>3, <1>4, LastOfFacts
<1>6. A!Added(v) \in Seq(Int)
  <2> DEFINE a == A!Added(v)
  <2>1. a \in Seq(MetricValues)
    BY <1>5
  <2> HIDE DEF a
  <2>2. Len(a) \in Nat /\ a \in [1 .. Len(a) -> MetricValues]
    BY <2>1
  <2>3. \A i \in 1 .. Len(a) : a[i] \in Int
    BY <1>1, <2>2
  <2>4. a \in [1 .. Len(a) -> Int]
    BY <2>2, <2>3
  <2>5. a \in Seq(Int)
    BY <2>2, <2>4
  <2> QED BY <2>5 DEF a
<1> QED BY <1>1, <1>2, <1>3, <1>5, <1>6

LEMMA MetricKeeps ==
  ASSUME A!CountsAssumption, AnomalyInv, NEW v \in MetricValues, A!PerformanceMetric(v)
  PROVE  AnomalyInv'
<1> DEFINE severity == IF learned THEN A!Severity(v, window') ELSE "none"
<1>1. /\ A!Event /\ window' = A!Added(v) /\ A!Record("metric", severity)
      /\ UNCHANGED <<hours, addresses, watched>> /\ events' \in Nat
  BY DEF A!PerformanceMetric, A!Event, AnomalyInv, AnomalyTypes
<1>2. severity \in Severities \cup {"none"}
  BY DEF A!Severity, Severities
<1> HIDE DEF severity
<1>3. /\ window' \in Seq(MetricValues) /\ Len(window') <= WindowSize /\ window' \in Seq(Int)
  BY <1>1, AddedFacts DEF AnomalyInv
<1>4. /\ anomalies' \in [DOMAIN anomalies' -> Severities]
      /\ alarm' = "none" \/ \E i \in DOMAIN anomalies' : alarm' = anomalies'[i]
      /\ alarm' = severity
      /\ DOMAIN anomalies' \subseteq DOMAIN anomalies \cup {<<a_now, "metric">>}
  BY <1>1, <1>2, RecordFacts DEF AnomalyInv
<1>5. AnomalyTypes'
  BY <1>1, <1>3, <1>4 DEF AnomalyInv, AnomalyTypes
<1>6. A!MidnightIsNoJump'
  BY <1>1, <1>4 DEF AnomalyInv, A!MidnightIsNoJump, A!Range
<1>7. ASSUME OneValue' PROVE alarm' = "none"
  <2>1. A!Spread(window') = 0
    BY <1>3, <1>7, ConstantIsSpreadless DEF OneValue
  <2> QED BY <1>4, <2>1 DEF severity, A!Severity
<1> QED BY <1>5, <1>6, <1>7 DEF AnomalyInv

LEMMA LoginKeeps ==
  ASSUME A!CountsAssumption, AnomalyInv, NEW h \in Hours,
         A!LoginAtUnusualHour(h) \/ \E a \in Addresses : A!Login(h, a)
  PROVE  AnomalyInv'
<1>1. /\ watched = "user" /\ watched' = "user" /\ hours' = Append(hours, h)
      /\ UNCHANGED window /\ events' \in Nat
  BY DEF A!LoginAtUnusualHour, A!Login, A!Event, AnomalyInv, AnomalyTypes
<1>2. hours \in Seq(Hours) /\ Len(hours) \in Nat
  BY DEF AnomalyInv, AnomalyTypes
<1>3. /\ hours' \in Seq(Hours) /\ Len(hours') = Len(hours) + 1
      /\ \A i \in 1 .. Len(hours) : hours'[i] = hours[i]
      /\ hours'[Len(hours) + 1] = h
  BY <1>1, <1>2, AppendProperties
<1>4. /\ A!Range(hours) \subseteq A!Range(hours)' /\ h \in A!Range(hours)'
  <2>1. DOMAIN hours = 1 .. Len(hours) /\ DOMAIN hours' = 1 .. Len(hours) + 1
    BY <1>2, <1>3
  <2>2. Len(hours) + 1 \in DOMAIN hours' /\ DOMAIN hours \subseteq DOMAIN hours'
    BY <1>2, <2>1
  <2> QED BY <1>3, <2>1, <2>2 DEF A!Range
<1>5. CASE A!LoginAtUnusualHour(h)
  <2>1. A!Record("time", "medium") /\ A!UnusualHour(h, hours') /\ UNCHANGED addresses
    BY <1>5 DEF A!LoginAtUnusualHour
  <2>2. /\ anomalies' \in [DOMAIN anomalies' -> Severities]
        /\ alarm' = "none" \/ \E i \in DOMAIN anomalies' : alarm' = anomalies'[i]
    BY <2>1, RecordFacts DEF AnomalyInv, Severities
  <2>3. AnomalyTypes'
    BY <1>1, <1>3, <2>1, <2>2 DEF AnomalyInv, AnomalyTypes
  <2>4. ~(A!Range(hours)' \subseteq {23, 0})
    <3> SUFFICES ASSUME A!Range(hours)' \subseteq {23, 0} PROVE FALSE
      OBVIOUS
    <3>1. \A i \in 1 .. Len(hours') : hours'[i] \in {0, 23}
      BY <1>3 DEF A!Range
    <3>2. hours' \in Seq({0, 23}) /\ h \in {0, 23}
      BY <1>3, <1>4, <3>1
    <3> QED BY <2>1, <3>2, MidnightIsUsual
  <2> QED BY <1>1, <2>3, <2>4 DEF AnomalyInv, A!MidnightIsNoJump
<1>6. CASE \E a \in Addresses : A!Login(h, a)
  <2>1. PICK a \in Addresses : A!Login(h, a)
    BY <1>6
  <2>2. PICK severity \in Severities \cup {"none"} :
             A!Record("geo", severity) /\ addresses' = addresses \cup {a}
    BY <2>1 DEF A!Login, Severities
  <2>3. /\ anomalies' \in [DOMAIN anomalies' -> Severities]
        /\ alarm' = "none" \/ \E i \in DOMAIN anomalies' : alarm' = anomalies'[i]
        /\ DOMAIN anomalies' \subseteq DOMAIN anomalies \cup {<<a_now, "geo">>}
    BY <2>2, RecordFacts DEF AnomalyInv
  <2>4. AnomalyTypes'
    BY <1>1, <1>3, <2>2, <2>3 DEF AnomalyInv, AnomalyTypes
  <2>5. A!MidnightIsNoJump'
    BY <1>4, <2>3 DEF AnomalyInv, A!MidnightIsNoJump
  <2> QED BY <1>1, <2>4, <2>5 DEF AnomalyInv
<1> QED BY <1>5, <1>6

LEMMA AnomalyKept ==
  ASSUME A!CountsAssumption, AnomalyInv, [A!Next]_A!vars
  PROVE  AnomalyInv'
<1>1. CASE A!LearningCompletes \/ A!Tick \/ UNCHANGED A!vars
  <2>1. UNCHANGED <<watched, window, hours, addresses, anomalies, alarm, events>>
    BY <1>1 DEF A!LearningCompletes, A!Tick, A!vars
  <2> QED BY <2>1 DEF AnomalyInv, AnomalyTypes, A!MidnightIsNoJump, A!Range, OneValue
<1>2. CASE A!Restart
  <2>1. /\ window' = <<>> /\ hours' = <<>> /\ addresses' = {} /\ anomalies' = <<>>
        /\ alarm' = "none" /\ events' = events
    BY <1>2 DEF A!Restart
  <2>2. AnomalyTypes'
    <3>1. WindowSize \in Nat /\ events \in Nat
      BY DEF A!CountsAssumption, AnomalyInv, AnomalyTypes
    <3>2. <<>> \in Seq(MetricValues) /\ <<>> \in Seq(Hours) /\ Len(<<>>) = 0 /\ DOMAIN <<>> = {}
          /\ <<>> \in [{} -> Severities]
      OBVIOUS
    <3> QED BY <2>1, <3>1, <3>2 DEF AnomalyTypes
  <2> QED BY <2>1, <2>2 DEF AnomalyInv, A!MidnightIsNoJump
<1> QED BY <1>1, <1>2, MetricKeeps, LoginKeeps DEF A!Next

(* The window and the hours are samples of what was watched, and the       *)
(* alarms are those the samples call for (core/anomaly_detection.py).      *)
THEOREM AnomalyInvariant == ASSUME A!CountsAssumption PROVE A!Spec => []AnomalyInv
<1>1. A!Init => AnomalyInv
  <2> SUFFICES ASSUME A!Init PROVE AnomalyInv
    OBVIOUS
  <2>1. /\ window = <<>> /\ hours = <<>> /\ addresses = {} /\ anomalies = <<>>
        /\ alarm = "none" /\ events = 0
    BY DEF A!Init
  <2>2. AnomalyTypes
    <3>1. WindowSize \in Nat
      BY DEF A!CountsAssumption
    <3>2. <<>> \in Seq(MetricValues) /\ <<>> \in Seq(Hours) /\ Len(<<>>) = 0 /\ DOMAIN <<>> = {}
          /\ <<>> \in [{} -> Severities]
      OBVIOUS
    <3> QED BY <2>1, <3>1, <3>2 DEF AnomalyTypes
  <2> QED BY <2>1, <2>2 DEF AnomalyInv, A!MidnightIsNoJump
<1>2. AnomalyInv /\ [A!Next]_A!vars => AnomalyInv'
  BY AnomalyKept
<1> QED BY <1>1, <1>2, PTL DEF A!Spec

(* Midnight is no jump and a constant metric raises nothing, for windows   *)
(* and numbers of logins of any size up to some hundreds (detect_anomaly). *)
THEOREM AnomaliesCorrect == ASSUME A!CountsAssumption PROVE A!Spec => []A!AnomaliesSound
<1>1. A!CountsAssumption /\ AnomalyInv => A!AnomaliesSound
  <2> SUFFICES ASSUME AnomalyInv PROVE A!AnomaliesSound
    OBVIOUS
  <2>1. /\ window \in Seq(MetricValues) /\ hours \in Seq(Hours)
        /\ DOMAIN window = 1 .. Len(window)
        /\ \A i \in 1 .. Len(window) : window[i] \in MetricValues
        /\ \A i \in DOMAIN hours : hours[i] \in Hours
    <3>1. window \in Seq(MetricValues) /\ hours \in Seq(Hours)
      BY DEF AnomalyInv, AnomalyTypes
    <3> QED BY <3>1
  <2>2. A!TypeOK
    <3>1. A!Range(window) \subseteq MetricValues /\ A!Range(hours) \subseteq Hours
      BY <2>1 DEF A!Range
    <3>2. A!Range(anomalies) \subseteq Severities /\ alarm \in A!Range(anomalies) \cup {"none"}
      BY DEF AnomalyInv, AnomalyTypes, A!Range
    <3> QED BY <3>1, <3>2 DEF A!TypeOK, AnomalyInv, AnomalyTypes, Severities
  <2>3. A!ConstantIsQuiet
    <3> SUFFICES ASSUME watched = "metric", A!Cardinality(A!Range(window)) = 1
                 PROVE  OneValue
      BY DEF A!ConstantIsQuiet, AnomalyInv
    <3>1. IsFiniteSet(A!Range(window))
      <4>1. window \in Seq(A!Range(window))
        BY <2>1 DEF A!Range
      <4>2. \A x \in A!Range(window) : \E i \in 1 .. Len(window) : window[i] = x
        BY <2>1 DEF A!Range
      <4> QED BY <4>1, <4>2 DEF IsFiniteSet
    <3>2. \A S : A!Cardinality(S) = Cardinality(S)
      BY DEF A!Cardinality, Cardinality
    <3>3. PICK x : A!Range(window) = {x}
      BY <3>1, <3>2, FS_Singleton
    <3>4. \A i \in 1 .. Len(window) : window[i] = x
      BY <2>1, <3>3 DEF A!Range
    <3>5. Len(window) >= 1
      <4>1. DOMAIN window # {} /\ Len(window) \in Nat
        BY <2>1, <3>3 DEF A!Range
      <4> QED BY <2>1, <4>1
    <3> QED BY <2>1, <3>4, <3>5 DEF OneValue
  <2> QED BY <2>2, <2>3 DEF AnomalyInv, A!AnomaliesSound
<1> QED BY <1>1, AnomalyInvariant, PTL

(* The first sample that leaves a constant metric is critical, although it *)
(* is in the baseline it is compared with (detect_anomaly).                *)
THEOREM OutliersCritical ==
  ASSUME A!CountsAssumption PROVE A!Spec => A!FirstOutlierIsCritical
<1> DEFINE Critical == \A v \in MetricValues :
      /\ events' = events + 1 /\ learned /\ window' = A!Added(v) /\ watched = "metric"
      /\ Len(window') >= MinSamples
      /\ \A i \in 1..(Len(window') - 1) : window'[i] # v /\ window'[i] = window'[1]
      => alarm' = "critical"
<1>1. A!CountsAssumption /\ AnomalyInv /\ [A!Next]_A!vars => [Critical]_A!vars
  <2> SUFFICES ASSUME AnomalyInv, A!Next, NEW v \in MetricValues,
                      events' = events + 1, learned, window' = A!Added(v),
                      watched = "metric", Len(window') >= MinSamples,
                      \A i \in 1 .. Len(window') - 1 : window'[i] # v /\ window'[i] = window'[1]
               PROVE  alarm' = "critical"
    BY DEF A!vars
  <2>1. events' # events
    BY DEF AnomalyInv, AnomalyTypes
  <2>2. PICK w \in MetricValues : A!PerformanceMetric(w)
    BY <2>1 DEF A!Next, A!LoginAtUnusualHour, A!Login, A!LearningCompletes, A!Tick, A!Restart
  <2>3. /\ window' \in Seq(Int) /\ window'[Len(window')] = v
    BY AddedFacts DEF AnomalyInv
  <2>4. window' = A!Added(w) /\ alarm' = A!Severity(w, window')
    BY <2>2 DEF A!PerformanceMetric, A!Record
  <2>5. w = v
    BY <2>3, <2>4, AddedFacts DEF AnomalyInv
  <2>6. v \in Int
    BY DEF A!CountsAssumption
  <2>7. A!Severity(v, window') = "critical"
    BY <2>3, <2>6, OutlierIsCritical
  <2> QED BY <2>4, <2>5, <2>7
<1> QED BY <1>1, AnomalyInvariant, PTL DEF A!Spec, A!FirstOutlierIsCritical

-----------------------------------------------------------------------------
(* CredentialStore                                                         *)

Map == [Keys -> SecretValues \cup {Nothing}]
Salt == 0 .. MaxManagers
Manager ==
  [at : {"absent", "salting", "salt open", "ready", "storing", "file open", "unlinked"},
   password : Passwords \cup {Nothing}, salt : Salt, loaded : Map]
Encrypted == [key : {Nothing} \cup (Passwords \X Salt), map : Map]

Managers ==
  /\ manager \in [Process -> Manager]
  /\ \A p \in Process :
       manager[p].at \in {"storing", "file open", "unlinked"} =>
         manager[p].password \in Passwords

StoreTypes ==
  /\ saltFile \in Salt \cup {NoFile} /\ salts \in Salt /\ clash \in BOOLEAN
  /\ k_file \in Encrypted \cup {NoFile} /\ expected \in Map /\ Managers

(* As long as no two calls overlapped and none died in the middle: who has *)
(* a salt has the one in the file, and before there is one nothing is      *)
(* stored; who is storing holds all that was set; and what nobody writes   *)
(* is whole.                                                               *)
CallInv(p) ==
  /\ manager[p].at \in {"ready", "storing", "file open"} =>
       saltFile # NoFile /\ manager[p].salt = saltFile
  /\ manager[p].at = "salting" => saltFile = NoFile
  /\ manager[p].at = "salt open" =>
       k_file = NoFile /\ \A q \in Process : manager[q].at # "ready"
  /\ manager[p].at \in {"storing", "file open"} => manager[p].loaded = expected
  /\ manager[p].at = "file open" => k_file = K!Truncated
  /\ manager[p].at # "unlinked"

WholeInv ==
  /\ saltFile = NoFile => k_file = NoFile
  /\ (\A p \in Process : manager[p].at # "file open") /\ k_file # NoFile =>
       k_file.key \in Passwords \X Salt /\ k_file.key[2] = saltFile
  /\ (\A p \in Process : manager[p].at \notin {"storing", "file open"}) =>
       IF k_file = NoFile THEN expected = K!None ELSE k_file.map = expected

AloneInv ==
  /\ \A p, q \in Process : K!Busy(p) /\ K!Busy(q) => p = q
  /\ \A p \in Process : CallInv(p)
  /\ WholeInv

StoreInv == StoreTypes /\ (~clash => AloneInv)

LEMMA StoreFacts ==
  ASSUME K!StoreAssumption
  PROVE  /\ K!None \in Map /\ K!Absent \in Manager /\ K!Truncated \in Encrypted
         /\ 0 \in Salt /\ NoFile \notin Salt /\ NoFile \notin Encrypted
         /\ K!Absent.at = "absent"
BY DEF K!StoreAssumption, K!None, K!Absent, K!Truncated, Map, Salt, Manager, Encrypted

LEMMA SaltNumbers ==
  ASSUME K!StoreAssumption, NEW n \in Salt
  PROVE  /\ n # NoFile /\ MaxManagers \in Nat
         /\ n < MaxManagers => n + 1 \in Salt
BY DEF K!StoreAssumption, Salt

LEMMA KeyTypes ==
  ASSUME StoreTypes, NEW p \in Process, manager[p].password \in Passwords
  PROVE  /\ K!KeyOf(p) \in Passwords \X Salt
         /\ [key |-> K!KeyOf(p), map |-> manager[p].loaded] \in Encrypted
BY DEF StoreTypes, Managers, Manager, Encrypted, K!KeyOf

LEMMA LoadTypes ==
  ASSUME K!StoreAssumption, StoreTypes, NEW p \in Process, NEW k \in Keys, NEW v \in SecretValues
  PROVE  /\ K!LoadCredentials(p) \in Map
         /\ [K!LoadCredentials(p) EXCEPT ![k] = v] \in Map
         /\ [expected EXCEPT ![k] = v] \in Map
<1>1. K!LoadCredentials(p) \in Map
  BY StoreFacts DEF StoreTypes, Encrypted, K!LoadCredentials, K!Readable
<1> QED BY <1>1 DEF StoreTypes, Map

LEMMA ManagerTypes ==
  ASSUME StoreTypes, NEW p \in Process, NEW m \in Manager,
         m.at \in {"storing", "file open", "unlinked"} => m.password \in Passwords,
         manager' = [manager EXCEPT ![p] = m]
  PROVE  Managers'
BY DEF StoreTypes, Managers

LEMMA OverlapTypes ==
  ASSUME StoreTypes
  PROVE  /\ \A p : K!Overlap(p) \in BOOLEAN
         /\ \A p : (K!Overlap(p) \/ (k_file # NoFile /\ ~K!Readable(p))) \in BOOLEAN
BY DEF StoreTypes, K!Overlap

LEMMA StoreTypesKept ==
  ASSUME K!StoreAssumption, StoreTypes, [K!Next]_K!vars
  PROVE  StoreTypes'
<1> DEFINE Ats == {"absent", "salting", "salt open", "ready", "storing", "file open", "unlinked"}
           Writing == {"storing", "file open", "unlinked"}
<1>0. /\ \A p \in Process, a \in Ats : [manager[p] EXCEPT !.at = a] \in Manager
      /\ \A p \in Process, l \in Map :
           /\ [manager[p] EXCEPT !.at = "storing", !.loaded = l] \in Manager
           /\ [manager[p] EXCEPT !.at = "ready", !.loaded = l] \in Manager
      /\ \A w \in Passwords \cup {Nothing}, n \in Salt : \A a \in {"ready", "salting"} :
           [K!Absent EXCEPT !.at = a, !.password = w, !.salt = n] \in Manager
  BY StoreFacts DEF StoreTypes, Managers, Manager
<1>1. CASE \E p \in Process, w \in Passwords \cup {Nothing} : K!NewManager(p, w)
  <2>1. PICK p \in Process, w \in Passwords \cup {Nothing} : K!NewManager(p, w)
    BY <1>1
  <2>2. CASE K!LoadSalt(p, w)
    <3> DEFINE m == [K!Absent EXCEPT !.at = "ready", !.password = w, !.salt = saltFile]
    <3>1. m \in Manager /\ m.at \notin Writing /\ manager' = [manager EXCEPT ![p] = m]
      BY <1>0, <2>2 DEF K!LoadSalt, StoreTypes, Managers, K!Absent
    <3> HIDE DEF m
    <3>2. Managers'
      BY <3>1, ManagerTypes
    <3> QED BY <2>1, <2>2, <3>2, OverlapTypes DEF K!NewManager, K!LoadSalt, StoreTypes
  <2>3. CASE K!CreateSalt(p, w)
    <3>1. salts' \in Salt
      BY <2>3, SaltNumbers DEF K!CreateSalt, StoreTypes
    <3> DEFINE m == [K!Absent EXCEPT !.at = "salting", !.password = w, !.salt = salts']
    <3>2. m \in Manager /\ m.at \notin Writing /\ manager' = [manager EXCEPT ![p] = m]
      BY <1>0, <2>3, <3>1 DEF K!CreateSalt, StoreTypes, Managers, K!Absent
    <3> HIDE DEF m
    <3>3. Managers'
      BY <3>2, ManagerTypes
    <3> QED BY <2>1, <2>3, <3>1, <3>3, OverlapTypes
            DEF K!NewManager, K!CreateSalt, StoreTypes
  <2> QED BY <2>1, <2>2, <2>3 DEF K!NewManager
<1>2. CASE \E p \in Process, k \in Keys, v \in SecretValues : K!UpdateCredential(p, k, v)
  <2>1. PICK p \in Process, k \in Keys, v \in SecretValues : K!UpdateCredential(p, k, v)
    BY <1>2
  <2> DEFINE loaded == [K!LoadCredentials(p) EXCEPT ![k] = v]
             m == [manager[p] EXCEPT !.at = "storing", !.loaded = loaded]
  <2>2. loaded \in Map /\ expected' \in Map
    BY <2>1, LoadTypes DEF K!UpdateCredential
  <2>3. m \in Manager
    BY <1>0, <2>2
  <2>4. m.password \in Passwords
    BY <2>1 DEF K!UpdateCredential, StoreTypes, Managers, Manager
  <2>5. manager' = [manager EXCEPT ![p] = m]
    BY <2>1 DEF K!UpdateCredential, StoreTypes, Managers, Manager
  <2>6. clash' \in BOOLEAN
    BY <2>1, OverlapTypes DEF K!UpdateCredential
  <2> HIDE DEF m
  <2>7. Managers'
    BY <2>3, <2>4, <2>5, ManagerTypes
  <2> QED BY <2>1, <2>2, <2>6, <2>7 DEF K!UpdateCredential, StoreTypes
<1>3. CASE \E p \in Process : K!OpenSalt(p) \/ K!WriteSalt(p) \/ K!OpenFile(p)
  <2>1. PICK p \in Process : K!OpenSalt(p) \/ K!WriteSalt(p) \/ K!OpenFile(p)
    BY <1>3
  <2>2. PICK a \in Ats : /\ manager' = [manager EXCEPT ![p].at = a]
                         /\ a \in Writing => manager[p].at \in Writing
    BY <2>1 DEF K!OpenSalt, K!WriteSalt, K!OpenFile
  <2> DEFINE m == [manager[p] EXCEPT !.at = a]
  <2>3. m \in Manager /\ manager' = [manager EXCEPT ![p] = m]
    BY <1>0, <2>2 DEF StoreTypes, Managers
  <2>4. m.at \in Writing => m.password \in Passwords
    BY <2>2 DEF StoreTypes, Managers, Manager
  <2>5. /\ saltFile' \in Salt \cup {NoFile} /\ k_file' \in Encrypted \cup {NoFile}
        /\ clash' \in BOOLEAN /\ salts' = salts /\ expected' = expected
    BY <2>1, StoreFacts, OverlapTypes
       DEF K!OpenSalt, K!WriteSalt, K!OpenFile, StoreTypes, Managers, Manager
  <2> HIDE DEF m
  <2>6. Managers'
    BY <2>3, <2>4, ManagerTypes
  <2> QED BY <2>5, <2>6 DEF StoreTypes
<1>4. CASE \E p \in Process : K!WriteFile(p)
  <2>1. PICK p \in Process : K!WriteFile(p)
    BY <1>4
  <2>2. manager[p].password \in Passwords
    BY <2>1 DEF K!WriteFile, StoreTypes, Managers
  <2>3. k_file' \in Encrypted \cup {NoFile}
    <3>1. k_file' \in {k_file, [key |-> K!KeyOf(p), map |-> manager[p].loaded], K!Truncated}
      BY <2>1 DEF K!WriteFile
    <3> QED BY <2>2, <3>1, StoreFacts, KeyTypes DEF StoreTypes
  <2> DEFINE m == [manager[p] EXCEPT !.at = "ready", !.loaded = K!None]
  <2>4. m \in Manager /\ m.at \notin Writing /\ manager' = [manager EXCEPT ![p] = m]
    <3>1. m \in Manager
      BY <1>0, StoreFacts
    <3>2. m.at = "ready"
      BY DEF StoreTypes, Managers, Manager
    <3>3. manager' = [manager EXCEPT ![p] = m]
      BY <2>1 DEF K!WriteFile, StoreTypes, Managers, Manager
    <3> QED BY <3>1, <3>2, <3>3
  <2> HIDE DEF m
  <2>5. Managers'
    BY <2>4, ManagerTypes
  <2>6. expected' = expected /\ salts' = salts /\ saltFile' = saltFile /\ clash' \in BOOLEAN
    BY <2>1, OverlapTypes DEF K!WriteFile
  <2> QED BY <2>3, <2>5, <2>6 DEF StoreTypes
<1>5. CASE \E p \in Process : K!DeleteCredentials(p)
  <2>1. PICK p \in Process : K!DeleteCredentials(p)
    BY <1>5
  <2>2. /\ manager' \in [Process -> Manager]
        /\ \A q \in Process :
             /\ manager'[q].password = manager[q].password
             /\ manager'[q].at \in Writing => manager[q].at \in Writing
    <3>1. ASSUME NEW q \in Process
          PROVE  /\ manager'[q] \in Manager /\ manager'[q].password = manager[q].password
                 /\ manager'[q].at \in Writing => manager[q].at \in Writing
      <4>1. CASE manager[q].at = "file open"
        <5>1. manager'[q] = [manager[q] EXCEPT !.at = "unlinked"]
          BY <2>1, <4>1 DEF K!DeleteCredentials
        <5>2. manager'[q] \in Manager
          BY <1>0, <5>1
        <5> QED BY <4>1, <5>1, <5>2 DEF StoreTypes, Managers, Manager
      <4>2. CASE manager[q].at # "file open"
        BY <2>1, <4>2 DEF K!DeleteCredentials, StoreTypes, Managers
      <4> QED BY <4>1, <4>2
    <3>2. manager' = [q \in Process |-> manager'[q]]
      BY <2>1 DEF K!DeleteCredentials
    <3> QED BY <3>1, <3>2
  <2>3. Managers'
    BY <2>2 DEF StoreTypes, Managers
  <2> QED BY <2>1, <2>3, StoreFacts, OverlapTypes DEF K!DeleteCredentials, StoreTypes
<1>6. CASE \E p \in Process : K!Finish(p)
  BY <1>6, StoreFacts DEF K!Finish, StoreTypes, Managers
<1>7. CASE \E p \in Process : K!Crash(p)
  BY <1>7, StoreFacts DEF K!Crash, StoreTypes, Managers
<1>8. CASE UNCHANGED K!vars
  BY <1>8 DEF K!vars, StoreTypes, Managers
<1> QED BY <1>1, <1>2, <1>3, <1>4, <1>5, <1>6, <1>7, <1>8 DEF K!Next

(* A call that goes on alone: nobody else is busy. *)
LEMMA NobodyElse ==
  ASSUME NEW p \in Process, ~K!Overlap(p)
  PROVE  /\ ~clash
         /\ \A q \in Process \ {p} : manager[q].at \in {"absent", "ready"}
BY DEF K!Overlap, K!Busy

LEMMA NewKeeps ==
  ASSUME K!StoreAssumption, StoreTypes, ~clash => AloneInv, ~clash',
         NEW p \in Process, NEW w \in Passwords \cup {Nothing}, K!NewManager(p, w)
  PROVE  AloneInv'
<1>1. ~K!Overlap(p)
  BY DEF K!NewManager, K!LoadSalt, K!CreateSalt
<1>2. AloneInv /\ \A q \in Process \ {p} : manager[q].at \in {"absent", "ready"}
  BY <1>1, NobodyElse
<1>3. manager[p].at = "absent" /\ k_file' = k_file /\ expected' = expected /\ saltFile' = saltFile
  BY DEF K!NewManager, K!LoadSalt, K!CreateSalt
<1>4. /\ manager'[p].at = (IF saltFile = NoFile THEN "salting" ELSE "ready")
      /\ saltFile # NoFile => manager'[p].salt = saltFile
      /\ \A q \in Process \ {p} : manager'[q] = manager[q]
  BY DEF K!NewManager, K!LoadSalt, K!CreateSalt, StoreTypes, Managers, K!Absent
<1>5. \A q \in Process : CallInv(q)'
  BY <1>2, <1>3, <1>4 DEF AloneInv, CallInv
<1>6. WholeInv'
  BY <1>2, <1>3, <1>4 DEF AloneInv, WholeInv
<1> QED BY <1>2, <1>4, <1>5, <1>6 DEF AloneInv, K!Busy

LEMMA SaltKeeps ==
  ASSUME K!StoreAssumption, StoreTypes, ~clash => AloneInv, ~clash',
         NEW p \in Process, K!OpenSalt(p) \/ K!WriteSalt(p)
  PROVE  AloneInv'
<1>1. ~K!Overlap(p)
  BY DEF K!OpenSalt, K!WriteSalt
<1>2. AloneInv /\ \A q \in Process \ {p} : manager[q].at \in {"absent", "ready"}
  BY <1>1, NobodyElse
<1>3. \A q \in Process \ {p} : manager'[q] = manager[q] /\ manager[q].at = "absent"
  BY <1>2, StoreFacts DEF K!OpenSalt, K!WriteSalt, StoreTypes, Managers, AloneInv, CallInv, WholeInv
<1>4. k_file' = NoFile /\ expected' = K!None
  <2>1. k_file' = k_file /\ expected' = expected /\ k_file = NoFile
    BY <1>2 DEF K!OpenSalt, K!WriteSalt, AloneInv, CallInv, WholeInv
  <2>2. \A q \in Process : manager[q].at \notin {"storing", "file open"}
    BY <1>2 DEF K!OpenSalt, K!WriteSalt
  <2> QED BY <1>2, <2>1, <2>2 DEF AloneInv, CallInv, WholeInv
<1>5. /\ manager'[p].at \in {"salt open", "ready"} /\ saltFile' # NoFile
      /\ manager'[p].at = "ready" => manager'[p].salt = saltFile'
  BY StoreFacts DEF K!OpenSalt, K!WriteSalt, StoreTypes, Managers, Manager
<1>6. \A q \in Process : CallInv(q)'
  BY <1>3, <1>4, <1>5 DEF CallInv
<1>7. WholeInv'
  BY <1>4, <1>5 DEF WholeInv
<1> QED BY <1>3, <1>6, <1>7 DEF AloneInv, K!Busy

LEMMA StoringKeeps ==
  ASSUME K!StoreAssumption, StoreTypes, ~clash => AloneInv, ~clash',
         NEW p \in Process, NEW k \in Keys, NEW v \in SecretValues, K!UpdateCredential(p, k, v)
  PROVE  AloneInv'
<1>1. ~K!Overlap(p) /\ (k_file = NoFile \/ K!Readable(p))
  BY DEF K!UpdateCredential
<1>2. AloneInv /\ \A q \in Process \ {p} : manager[q].at \in {"absent", "ready"}
  BY <1>1, NobodyElse
<1>3. \A q \in Process : manager[q].at \in {"absent", "ready"}
  BY <1>2 DEF K!UpdateCredential
<1>4. K!LoadCredentials(p) = expected
  BY <1>1, <1>2, <1>3 DEF K!LoadCredentials, K!Readable, AloneInv, CallInv, WholeInv
<1>5. /\ manager'[p].at = "storing" /\ manager'[p].salt = manager[p].salt
      /\ manager'[p].loaded = expected'
      /\ \A q \in Process \ {p} : manager'[q] = manager[q]
      /\ k_file' = k_file /\ saltFile' = saltFile /\ manager[p].at = "ready"
  BY <1>4 DEF K!UpdateCredential, StoreTypes, Managers, Manager
<1> QED BY <1>2, <1>3, <1>5 DEF AloneInv, CallInv, WholeInv, K!Busy

LEMMA FileKeeps ==
  ASSUME K!StoreAssumption, StoreTypes, ~clash => AloneInv, ~clash',
         NEW p \in Process, K!OpenFile(p) \/ K!WriteFile(p)
  PROVE  AloneInv'
<1>1. ~K!Overlap(p)
  BY DEF K!OpenFile, K!WriteFile
<1>2. AloneInv /\ \A q \in Process \ {p} : manager[q].at \in {"absent", "ready"}
  BY <1>1, NobodyElse
<1>3. /\ \A q \in Process \ {p} : manager'[q] = manager[q]
      /\ saltFile' = saltFile /\ expected' = expected
      /\ manager'[p].salt = manager[p].salt /\ manager[p].salt = saltFile /\ saltFile # NoFile
      /\ manager[p].loaded = expected
  <2>1. manager[p].at \in {"storing", "file open"}
    BY <1>2 DEF K!OpenFile, K!WriteFile, AloneInv, CallInv
  <2>2. /\ \A q \in Process \ {p} : manager'[q] = manager[q]
        /\ saltFile' = saltFile /\ expected' = expected /\ manager'[p].salt = manager[p].salt
    <3>1. CASE K!OpenFile(p)
      BY <3>1 DEF K!OpenFile, StoreTypes, Managers, Manager
    <3>2. CASE K!WriteFile(p)
      BY <3>2 DEF K!WriteFile, StoreTypes, Managers, Manager
    <3> QED BY <3>1, <3>2
  <2> QED BY <1>2, <2>1, <2>2 DEF AloneInv, CallInv
<1>4. CASE K!OpenFile(p)
  <2>1. /\ manager'[p].at = "file open" /\ manager'[p].loaded = manager[p].loaded
        /\ k_file' = K!Truncated
    BY <1>4 DEF K!OpenFile, StoreTypes, Managers, Manager
  <2>2. \A q \in Process : CallInv(q)'
    BY <1>2, <1>3, <2>1 DEF AloneInv, CallInv
  <2>3. WholeInv'
    BY <1>3, <2>1 DEF WholeInv
  <2> QED BY <1>2, <1>3, <2>1, <2>2, <2>3 DEF AloneInv, K!Busy
<1>5. CASE K!WriteFile(p)
  <2>1. manager[p].at = "file open" /\ manager'[p].at = "ready"
    BY <1>2, <1>5 DEF K!WriteFile, AloneInv, CallInv, WholeInv, StoreTypes, Managers, Manager
  <2>2. k_file' = [key |-> K!KeyOf(p), map |-> manager[p].loaded]
    BY <1>2, <1>5, <2>1 DEF K!WriteFile, AloneInv, CallInv, WholeInv
  <2>3. K!KeyOf(p) \in Passwords \X Salt /\ K!KeyOf(p)[2] = saltFile /\ k_file' # NoFile
    BY <1>3, <2>1, <2>2, KeyTypes, StoreFacts DEF StoreTypes, Managers, K!KeyOf
  <2> QED BY <1>2, <1>3, <2>1, <2>2, <2>3 DEF AloneInv, CallInv, WholeInv, K!Busy
<1> QED BY <1>4, <1>5

LEMMA EndKeeps ==
  ASSUME K!StoreAssumption, StoreTypes, ~clash => AloneInv, ~clash',
         NEW p \in Process, K!DeleteCredentials(p) \/ K!Finish(p) \/ K!Crash(p)
  PROVE  AloneInv'
<1>1. CASE K!DeleteCredentials(p)
  <2>1. ~K!Overlap(p)
    BY <1>1 DEF K!DeleteCredentials
  <2>2. AloneInv /\ \A q \in Process : manager[q].at \in {"absent", "ready"}
    BY <1>1, <2>1, NobodyElse DEF K!DeleteCredentials
  <2>3. /\ \A q \in Process : manager'[q] = manager[q]
        /\ k_file' = NoFile /\ expected' = K!None /\ saltFile' = saltFile
    BY <1>1, <2>2 DEF K!DeleteCredentials
  <2> QED BY <2>2, <2>3 DEF AloneInv, CallInv, WholeInv, K!Busy
<1>2. CASE K!Finish(p) \/ K!Crash(p)
  <2>1. /\ AloneInv /\ manager[p].at \notin {"storing", "file open", "unlinked"}
        /\ manager'[p].at = "absent" /\ \A q \in Process \ {p} : manager'[q] = manager[q]
        /\ k_file' = k_file /\ expected' = expected /\ saltFile' = saltFile
    BY <1>2, StoreFacts DEF K!Finish, K!Crash, StoreTypes, Managers
  <2> QED BY <2>1 DEF AloneInv, CallInv, WholeInv, K!Busy
<1> QED BY <1>1, <1>2

(* While no two calls overlapped and none died in the middle, the file     *)
(* holds what is expected, under the salt of the salt file                 *)
(* (core/credential_manager.py).                                           *)
THEOREM StoreInvariant ==
  ASSUME K!StoreAssumption
  PROVE  K!Spec => []StoreInv
<1>1. K!Init => StoreInv
  BY StoreFacts DEF K!Init, StoreInv, StoreTypes, Managers, AloneInv, CallInv, WholeInv, K!Busy
<1>2. StoreInv /\ [K!Next]_K!vars => StoreInv'
  <2> SUFFICES ASSUME StoreInv, [K!Next]_K!vars, ~clash' PROVE AloneInv'
    BY StoreTypesKept DEF StoreInv
  <2> USE DEF StoreInv
  <2>1. CASE \E p \in Process, w \in Passwords \cup {Nothing} : K!NewManager(p, w)
    BY <2>1, NewKeeps
  <2>2. CASE \E p \in Process, k \in Keys, v \in SecretValues : K!UpdateCredential(p, k, v)
    BY <2>2, StoringKeeps
  <2>3. CASE \E p \in Process : K!OpenSalt(p) \/ K!WriteSalt(p)
    BY <2>3, SaltKeeps
  <2>4. CASE \E p \in Process : K!OpenFile(p) \/ K!WriteFile(p)
    BY <2>4, FileKeeps
  <2>5. CASE \E p \in Process : K!DeleteCredentials(p) \/ K!Finish(p) \/ K!Crash(p)
    BY <2>5, EndKeeps
  <2>6. CASE UNCHANGED K!vars
    BY <2>6 DEF K!vars, AloneInv, CallInv, WholeInv, K!Busy
  <2> QED BY <2>1, <2>2, <2>3, <2>4, <2>5, <2>6 DEF K!Next
<1> QED BY <1>1, <1>2, PTL DEF K!Spec

(* What update_credential stored is there and can be decrypted as long as  *)
(* calls did not overlap and none died in the middle.                      *)
THEOREM CredentialsCorrect ==
  ASSUME K!StoreAssumption
  PROVE  K!Spec => []K!CredentialsSound
<1>1. StoreInv => K!TypeOK
  BY DEF StoreInv, StoreTypes, Managers, Manager, Encrypted, Salt, K!TypeOK
<1>2. StoreInv => K!CredentialsSurvive
  <2> SUFFICES ASSUME StoreInv, ~clash, k_file # NoFile, \A p \in Process : ~K!Busy(p)
               PROVE  k_file.map = expected /\ k_file.key[2] = saltFile
    BY DEF K!CredentialsSurvive
  <2> QED BY DEF StoreInv, AloneInv, CallInv, WholeInv, K!Busy
<1> QED BY <1>1, <1>2, StoreInvariant, PTL DEF K!CredentialsSound

-----------------------------------------------------------------------------
(* ConfigFile                                                              *)

Contents == [sources : SUBSET Names, secret : {"credential", "encrypted", "plain"},
             value : Nat]

Agree(f) ==
  /\ sources \subseteq f.sources
  /\ f.sources \ dropped \subseteq sources

(* What is in the file, or is being written to it, agrees with the bridge; *)
(* only a source that is in the bridge has a client; and the connector     *)
(* does not run with an empty file; unless something was not written.      *)
ConfigInv ==
  /\ f_file \in Contents \/ f_file = F!Torn
  /\ pending \in Contents
  /\ {writing, running, up} \subseteq BOOLEAN
  /\ sources \subseteq Names /\ active \subseteq Names
  /\ secrets \in 0 .. MaxSecrets /\ stored \in 0 .. (MaxSecrets + 1)
  /\ running => up
  /\ writing => up
  /\ ~up => active = {}
  /\ up /\ ~f_torn =>
           /\ f_file # F!Torn /\ active \subseteq sources
           /\ IF writing THEN Agree(pending) ELSE Agree(f_file)

LEMMA LoadedContents ==
  ASSUME ConfigInv, f_file # F!Torn, NEW inject \in BOOLEAN
  PROVE  F!Loaded(inject) \in Contents /\ F!Loaded(inject).sources = f_file.sources
<1>1. f_file \in Contents /\ stored \in Nat
  BY DEF ConfigInv
<1> QED BY <1>1 DEF F!Loaded, Contents

LEMMA SavedContents ==
  ASSUME NEW f \in Contents, NEW S \in SUBSET Names
  PROVE  /\ [f EXCEPT !.sources = S] \in Contents
         /\ [f EXCEPT !.sources = S].sources = S
BY DEF Contents

LEMMA SourceRequestKeeps ==
  ASSUME ConfigInv, NEW n \in Names, NEW m \in Names,
         \/ F!AddSource(n) \/ F!RemoveSource(n) \/ F!UpdateSource(n, m)
         \/ F!UpdateSourceFails(n, m)
  PROVE  ConfigInv'
<1>1. up /\ ~writing /\ F!Request /\ UNCHANGED <<stored, secrets>>
  BY DEF F!AddSource, F!RemoveSource, F!UpdateSource, F!UpdateSourceFails,
         F!SourceRequest, F!Request
<1>2. /\ f_file \in Contents \/ f_file = F!Torn
      /\ f_file.sources \subseteq Names
      /\ sources \subseteq Names /\ active \subseteq Names
      /\ ~f_torn => /\ f_file # F!Torn /\ active \subseteq sources
                    /\ sources \subseteq f_file.sources
                    /\ f_file.sources \ dropped \subseteq sources
  BY <1>1 DEF ConfigInv, Agree, Contents, F!Torn
<1>3. f_file # F!Torn =>
        F!Loaded(TRUE) \in Contents /\ F!Loaded(TRUE).sources = f_file.sources
  BY LoadedContents
<1>4. UNCHANGED <<up, running, f_file, f_torn>>
  BY <1>1 DEF F!Request, F!life
<1>5. ASSUME NEW S \in SUBSET Names, f_file # F!Torn,
             F!Save([F!Loaded(TRUE) EXCEPT !.sources = S], FALSE),
             ~f_torn => sources' \subseteq S /\ S \ dropped \subseteq sources',
             dropped' = dropped, ~f_torn => active' \subseteq sources',
             sources' \subseteq Names, active' \subseteq Names
      PROVE  ConfigInv'
  <2>1. pending' \in Contents /\ pending'.sources = S /\ writing' = TRUE
    BY <1>3, <1>5, SavedContents DEF F!Save
  <2>2. ~f_torn => Agree(pending)'
    BY <1>5, <2>1 DEF Agree
  <2> QED BY <1>1, <1>2, <1>4, <1>5, <2>1, <2>2 DEF ConfigInv, F!Torn
<1>6. ASSUME f_file = F!Torn, F!NoSave, sources' \subseteq Names, active' \subseteq Names
      PROVE  ConfigInv'
  BY <1>1, <1>2, <1>4, <1>6 DEF ConfigInv, F!Torn, F!NoSave
<1>7. CASE F!AddSource(n)
  <2>1. sources' = sources \cup {n} /\ dropped' = dropped /\ active' \subseteq active \cup {n}
    BY <1>7 DEF F!AddSource
  <2>2. /\ ~f_torn => /\ sources' \subseteq f_file.sources \cup {n}
                      /\ (f_file.sources \cup {n}) \ dropped \subseteq sources'
        /\ f_file.sources \cup {n} \in SUBSET Names
        /\ (~f_torn => active' \subseteq sources')
        /\ sources' \subseteq Names /\ active' \subseteq Names
    BY <1>2, <2>1
  <2>3. CASE f_file = F!Torn
    <3>1. F!NoSave
      BY <1>7, <2>3 DEF F!AddSource
    <3> QED BY <1>6, <2>2, <2>3, <3>1
  <2>4. CASE f_file # F!Torn
    <3>1. F!Save([F!Loaded(TRUE) EXCEPT !.sources = f_file.sources \cup {n}], FALSE)
      BY <1>3, <1>7, <2>4 DEF F!AddSource
    <3> QED BY <1>5, <2>1, <2>2, <2>4, <3>1
  <2> QED BY <2>3, <2>4
<1>8. CASE F!RemoveSource(n)
  <2>1. sources' = sources \ {n} /\ dropped' = dropped /\ active' = active \ {n}
    BY <1>8 DEF F!RemoveSource
  <2>2. /\ ~f_torn => /\ sources' \subseteq f_file.sources \ {n}
                      /\ (f_file.sources \ {n}) \ dropped \subseteq sources'
        /\ f_file.sources \ {n} \in SUBSET Names
        /\ (~f_torn => active' \subseteq sources')
        /\ sources' \subseteq Names /\ active' \subseteq Names
    BY <1>2, <2>1
  <2>3. CASE f_file = F!Torn
    <3>1. F!NoSave
      BY <1>8, <2>3 DEF F!RemoveSource
    <3> QED BY <1>6, <2>2, <2>3, <3>1
  <2>4. CASE f_file # F!Torn
    <3>1. F!Save([F!Loaded(TRUE) EXCEPT !.sources = f_file.sources \ {n}], FALSE)
      BY <1>3, <1>8, <2>4 DEF F!RemoveSource
    <3> QED BY <1>5, <2>1, <2>2, <2>4, <3>1
  <2> QED BY <2>3, <2>4
<1>9. CASE F!UpdateSource(n, m)
  <2> DEFINE S == {IF s = n THEN m ELSE s : s \in f_file.sources}
  <2>1. /\ sources' = (sources \ {n}) \cup {m} /\ dropped' = dropped /\ n \in active
        /\ active' \subseteq (active \ {n}) \cup {m}
    BY <1>9 DEF F!UpdateSource
  <2>2. /\ S \in SUBSET Names /\ sources' \subseteq Names /\ active' \subseteq Names
        /\ ~f_torn => active' \subseteq sources'
    BY <1>2, <2>1
  <2>3. ~f_torn => sources' \subseteq S /\ S \ dropped \subseteq sources'
    <3> SUFFICES ASSUME ~f_torn PROVE sources' \subseteq S /\ S \ dropped \subseteq sources'
      OBVIOUS
    <3>1. m \in S
      BY <1>2, <2>1
    <3>2. sources' \subseteq S
      BY <1>2, <2>1, <3>1
    <3>3. S \ dropped \subseteq sources'
      BY <1>2, <2>1
    <3> QED BY <3>2, <3>3
  <2>4. CASE f_file = F!Torn
    <3>1. F!NoSave
      BY <1>9, <2>4 DEF F!UpdateSource
    <3> QED BY <1>6, <2>2, <2>4, <3>1
  <2>5. CASE f_file # F!Torn
    <3>1. F!Save([F!Loaded(TRUE) EXCEPT !.sources = S], FALSE)
      BY <1>3, <1>9, <2>5 DEF F!UpdateSource
    <3> HIDE DEF S
    <3> QED BY <1>5, <2>1, <2>2, <2>3, <2>5, <3>1
  <2> QED BY <2>4, <2>5
<1>10. CASE F!UpdateSourceFails(n, m)
  <2>1. /\ sources' = sources \ {n} /\ dropped' = dropped \cup {n}
        /\ active' = active \ {n} /\ UNCHANGED <<writing, pending>>
    BY <1>10 DEF F!UpdateSourceFails, F!NoSave
  <2>2. ~f_torn => Agree(f_file)'
    BY <1>2, <1>4, <2>1 DEF Agree
  <2> QED BY <1>1, <1>2, <1>4, <2>1, <2>2 DEF ConfigInv, F!Torn
<1> QED BY <1>7, <1>8, <1>9, <1>10

LEMMA ZeroBusUpdateKeeps ==
  ASSUME F!ConfigAssumption, ConfigInv, NEW new \in BOOLEAN, F!UpdateZeroBus(new)
  PROVE  ConfigInv'
<1>1. up /\ ~writing /\ UNCHANGED <<up, running, f_file, sources, active, f_torn, dropped>>
  BY DEF F!UpdateZeroBus, F!Request, F!life, F!copies
<1>2. /\ f_file \in Contents \/ f_file = F!Torn
      /\ ~f_torn => f_file # F!Torn /\ Agree(f_file)
  BY <1>1 DEF ConfigInv
<1>3. f_file # F!Torn =>
        /\ F!Loaded(FALSE) \in Contents /\ F!Loaded(FALSE).sources = f_file.sources
        /\ [f_file EXCEPT !.secret = "credential"] \in Contents
        /\ [f_file EXCEPT !.secret = "credential"].sources = f_file.sources
  BY <1>2, LoadedContents DEF Contents
<1>4. f_file # F!Torn =>
        writing' = TRUE /\ pending' \in Contents /\ pending'.sources = f_file.sources
  <2> SUFFICES ASSUME f_file # F!Torn
               PROVE  writing' = TRUE /\ pending' \in Contents
                      /\ pending'.sources = f_file.sources
    OBVIOUS
  <2>1. F!Save(IF new THEN [f_file EXCEPT !.secret = "credential"] ELSE F!Loaded(FALSE), TRUE)
    BY DEF F!UpdateZeroBus
  <2>2. CASE new
    BY <1>3, <2>1, <2>2 DEF F!Save
  <2>3. CASE ~new
    BY <1>3, <2>1, <2>3 DEF F!Save
  <2> QED BY <2>2, <2>3
<1>5. f_file = F!Torn => UNCHANGED <<writing, pending>>
  BY DEF F!UpdateZeroBus, F!NoSave
<1>6. ~f_torn => Agree(pending)'
  BY <1>1, <1>2, <1>4 DEF Agree
<1>7. secrets' \in 0 .. MaxSecrets /\ stored' \in 0 .. (MaxSecrets + 1)
  <2>1. MaxSecrets \in Nat /\ secrets \in 0 .. MaxSecrets
        /\ stored \in 0 .. (MaxSecrets + 1)
    BY DEF F!ConfigAssumption, ConfigInv
  <2>2. CASE new
    BY <2>1, <2>2 DEF F!UpdateZeroBus
  <2>3. CASE ~new
    BY <2>1, <2>3 DEF F!UpdateZeroBus
  <2> QED BY <2>2, <2>3
<1> QED BY <1>1, <1>2, <1>4, <1>5, <1>6, <1>7 DEF ConfigInv, F!Torn

LEMMA BridgeKeeps ==
  ASSUME ConfigInv,
         \/ F!StartBridge \/ F!StartInfra \/ F!StopBridge
         \/ \E n \in Names : F!StartSource(n) \/ F!StopSource(n)
  PROVE  ConfigInv'
<1>1. F!BridgeOnly /\ running' \in BOOLEAN
  BY DEF F!StartBridge, F!StartInfra, F!StopBridge, F!StartSource, F!StopSource, F!Infra,
         ConfigInv
<1>2. (~f_torn => active' \subseteq sources) /\ active' \subseteq Names
  BY DEF F!StartBridge, F!StartInfra, F!StopBridge, F!StartSource, F!StopSource, ConfigInv
<1>3. /\ up /\ ~writing
      /\ UNCHANGED <<up, f_file, writing, pending, sources, stored, f_torn, dropped, secrets>>
  BY <1>1 DEF F!BridgeOnly, F!disk, F!copies
<1>4. ~f_torn => Agree(f_file)'
  BY <1>3 DEF ConfigInv, Agree
<1> QED BY <1>1, <1>2, <1>3, <1>4 DEF ConfigInv, F!Torn

LEMMA ConfigKept ==
  ASSUME F!ConfigAssumption, ConfigInv, [F!Next]_F!vars
  PROVE  ConfigInv'
<1>1. CASE F!WriteDone
  <2>1. /\ up /\ writing /\ pending \in Contents /\ sources \subseteq Names
        /\ pending # F!Torn /\ (~f_torn => Agree(pending) /\ active \subseteq sources)
    BY <1>1 DEF F!WriteDone, ConfigInv, Contents, F!Torn
  <2>2. /\ f_file' = pending /\ writing' = FALSE
        /\ UNCHANGED <<up, running, pending, active, stored, f_torn, dropped, secrets>>
        /\ sources' \in {sources, pending.sources}
    BY <1>1 DEF F!WriteDone, F!life, F!copies
  <2>3. (~f_torn => Agree(f_file)' /\ active' \subseteq sources') /\ sources' \subseteq Names
    BY <2>1, <2>2 DEF Agree, Contents
  <2> QED BY <1>1, <2>1, <2>2, <2>3 DEF ConfigInv, F!Torn
<1>2. CASE F!SaveFails
  <2>1. /\ f_file' \in {f_file, F!Torn} /\ f_torn' = TRUE /\ writing' = FALSE
        /\ UNCHANGED <<up, running, pending, sources, active, stored, dropped, secrets>>
    BY <1>2 DEF F!SaveFails, F!life, F!copies
  <2> QED BY <2>1 DEF ConfigInv, F!Torn
<1>3. CASE F!Rotate
  <2>1. /\ ~writing
        /\ UNCHANGED <<up, running, active, f_file, writing, pending, sources, f_torn, dropped>>
    BY <1>3 DEF F!Rotate, F!life, F!disk, F!copies
  <2>2. secrets' \in 0 .. MaxSecrets /\ stored' \in 0 .. (MaxSecrets + 1)
    BY <1>3 DEF F!Rotate, F!ConfigAssumption, ConfigInv
  <2> QED BY <2>1, <2>2 DEF ConfigInv, F!Torn, Agree
<1>4. CASE F!Exit
  <2>1. f_file' \in {f_file, F!Torn} /\ up' = FALSE /\ writing' = FALSE /\ running' = FALSE
        /\ active' = {} /\ UNCHANGED <<pending, sources, stored, dropped, secrets>>
    BY <1>4 DEF F!Exit, F!copies
  <2> QED BY <2>1 DEF ConfigInv, F!Torn
<1>5. CASE F!Start
  <2>1. /\ ~up /\ f_file # F!Torn /\ up' = TRUE /\ sources' = f_file.sources
        /\ UNCHANGED <<running, f_file, writing, pending, active, stored, f_torn, dropped,
                       secrets>>
    BY <1>5 DEF F!Start, F!disk
  <2>2. f_file \in Contents /\ active = {} /\ ~writing /\ ~running
    BY <2>1 DEF ConfigInv
  <2>3. Agree(f_file)' /\ sources' \subseteq Names
    BY <2>1, <2>2 DEF Agree, Contents
  <2> QED BY <2>1, <2>2, <2>3 DEF ConfigInv, F!Torn
<1>6. CASE UNCHANGED F!vars
  BY <1>6 DEF ConfigInv, F!Torn, Agree, F!vars, F!life, F!disk, F!copies
<1> QED BY <1>1, <1>2, <1>3, <1>4, <1>5, <1>6, SourceRequestKeeps, ZeroBusUpdateKeeps,
           BridgeKeeps DEF F!Next

(* What is in the file, or being written to it, agrees with the bridge,    *)
(* but for what an update dropped (core/config_loader.py,                  *)
(* web/web_server.py).                                                     *)
THEOREM ConfigInvariant == ASSUME F!ConfigAssumption PROVE F!Spec => []ConfigInv
<1>1. F!Init => ConfigInv
  <2> SUFFICES ASSUME F!Init PROVE ConfigInv
    OBVIOUS
  <2>1. PICK n \in Names, s \in {"credential", "encrypted", "plain"} :
            f_file = [sources |-> {n}, secret |-> s, value |-> 1]
    BY DEF F!Init
  <2>2. f_file \in Contents /\ f_file # F!Torn
    BY <2>1 DEF Contents, F!Torn
  <2>3. MaxSecrets \in Nat
    BY DEF F!ConfigAssumption
  <2>4. secrets \in 0 .. MaxSecrets /\ stored \in 0 .. (MaxSecrets + 1)
    BY <2>3 DEF F!Init
  <2>5. sources \subseteq Names /\ Agree(f_file)
    BY <2>1 DEF F!Init, Agree
  <2>6. /\ pending = f_file /\ writing = FALSE /\ running = FALSE /\ up = TRUE
        /\ active = {}
    BY DEF F!Init
  <2> QED BY <2>2, <2>4, <2>5, <2>6 DEF ConfigInv
<1>2. ConfigInv /\ [F!Next]_F!vars => ConfigInv'
  BY ConfigKept
<1> QED BY <1>1, <1>2, PTL DEF F!Spec

(* A restart brings back the sources of the bridge, and no others but      *)
(* those an update dropped (core/config_loader.py, web/web_server.py).     *)
THEOREM ConfigFileCorrect == ASSUME F!ConfigAssumption PROVE F!Spec => []F!ConfigSound
<1>1. ConfigInv => F!ConfigSound
  <2> SUFFICES ASSUME ConfigInv PROVE F!ConfigSound
    OBVIOUS
  <2>1. f_file.sources \subseteq Names
    BY DEF ConfigInv, Contents, F!Torn
  <2>2. F!RestartKeepsSources
    <3> SUFFICES ASSUME up, ~writing, ~f_torn PROVE Agree(f_file)
      BY DEF F!RestartKeepsSources, Agree
    <3>1. up /\ ~f_torn => IF writing THEN Agree(pending) ELSE Agree(f_file)
      BY DEF ConfigInv
    <3> QED BY <3>1
  <2> QED BY <2>1, <2>2 DEF ConfigInv, F!ConfigSound, F!TypeOK
<1> QED BY <1>1, ConfigInvariant, PTL
-----------------------------------------------------------------------------
(* LogRotation                                                             *)

Entries == 1 .. logged
Of(i) == plain[i] \cup gz[i]

LogTypes ==
  /\ logged \in 0 .. MaxEntries /\ pc \in 0 .. BackupCount + 2 /\ g_torn \subseteq G!Numbers
  /\ current \subseteq Entries
  /\ plain \in [G!Numbers -> SUBSET Entries] /\ gz \in [G!Numbers -> SUBSET Entries]
  /\ archive \in [G!Numbers -> SUBSET Entries]
  /\ rollovers \in [1 .. MaxEntries -> Nat]

(* The order of the backups, at every step of a rollover. *)
Ordered ==
  /\ \A i, j \in G!Numbers : i < j => \A e \in Of(i), f \in Of(j) : f < e \/ f \in failed
  /\ \A i \in G!Numbers : \A e \in Of(i), f \in current : e < f

(* Where a rollover puts a file there is none that it would destroy, and   *)
(* what stays behind uncompressed failed.                                  *)
Vacant ==
  /\ \A i \in G!Numbers : plain[i] \subseteq failed \/ (i = 1 /\ pc = G!Compressing)
  /\ \A i \in 1 .. BackupCount - 1 :
       plain[i] = {} \/ gz[i] = {} \/ (i = 1 /\ plain[i] = gz[i] /\ pc # G!Compressing)
  /\ pc \in 1 .. BackupCount - 2 => Of(pc + 1) = {}
  /\ pc \in {G!Rotating, G!Compressing} /\ BackupCount > 1 => gz[1] = {}

(* Whether this rollover has still to move backup i. *)
Due(i) ==
  \/ pc \in 1 .. BackupCount - 1 /\ (i <= pc \/ pc = BackupCount - 1)
  \/ pc \in {G!Rotating, G!Compressing} /\ BackupCount = 1

(* An entry goes one backup further with a rollover, and not faster. *)
Aged ==
  /\ \A i \in G!Numbers : \A e \in gz[i] :
       rollovers[e] >= i /\ (Due(i) => rollovers[e] >= i + 1)
  /\ pc \in 1 .. BackupCount + 1 => \A e \in current : rollovers[e] >= 1
  /\ pc = G!Compressing => \A e \in plain[1] : rollovers[e] >= 1

LogInv == LogTypes /\ Ordered /\ Vacant /\ Aged /\ G!RecentIsKept

LEMMA LogNumbers ==
  ASSUME G!LogAssumption
  PROVE  /\ BackupCount \in Nat /\ BackupCount >= 1 /\ MaxEntries \in Nat
         /\ G!Numbers = 1 .. BackupCount /\ 1 \in G!Numbers
         /\ G!Logging = 0 /\ G!Rotating = BackupCount + 1 /\ G!Compressing = BackupCount + 2
BY DEF G!LogAssumption, G!Numbers, G!Logging, G!Rotating, G!Compressing

(* What the invariant is about in a step that leaves the files alone. *)
LEMMA EmitKeeps ==
  ASSUME G!LogAssumption, LogInv, G!Emit
  PROVE  LogInv'
<1>1. /\ logged \in Nat /\ logged' = logged + 1 /\ logged' \in 0 .. MaxEntries
      /\ current' = current \cup {logged + 1} /\ pc = 0
  BY LogNumbers DEF G!Emit, LogInv, LogTypes
<1>2. Entries \subseteq Entries' /\ logged + 1 \in Entries' /\ \A e \in Entries : e < logged + 1
  BY <1>1 DEF Entries
<1>3. LogTypes'
  BY <1>1, <1>2 DEF G!Emit, LogInv, LogTypes
<1>4. Ordered'
  <2>1. \A i \in G!Numbers : Of(i)' = Of(i) /\ Of(i) \subseteq Entries
    BY DEF G!Emit, LogInv, LogTypes, Of
  <2> QED BY <1>1, <1>2, <2>1 DEF G!Emit, LogInv, Ordered
<1>5. Vacant'
  BY DEF G!Emit, LogInv, Vacant, Of
<1>6. Aged'
  BY <1>1, LogNumbers DEF G!Emit, LogInv, Aged, Due
<1>7. G!RecentIsKept'
  <2> SUFFICES ASSUME NEW e \in 1 .. logged', rollovers[e] <= BackupCount,
                      e \notin failed \cup archived
               PROVE  e \in current' \cup UNION {plain[i] \cup gz[i] : i \in G!Numbers}
    BY DEF G!RecentIsKept, G!Emit
  <2>1. CASE e = logged + 1
    BY <1>1, <2>1
  <2>2. CASE e # logged + 1
    <3>1. e \in 1 .. logged
      BY <1>1, <2>2
    <3> QED BY <1>1, <3>1 DEF LogInv, G!RecentIsKept
  <2> QED BY <2>1, <2>2
<1> QED BY <1>3, <1>4, <1>5, <1>6, <1>7 DEF LogInv

LEMMA DoRolloverKeeps ==
  ASSUME G!LogAssumption, LogInv, G!DoRollover
  PROVE  LogInv'
<1> USE LogNumbers
<1>1. /\ pc = 0 /\ logged \in Nat /\ logged <= MaxEntries
      /\ rollovers \in [1 .. MaxEntries -> Nat]
      /\ pc' = IF BackupCount > 1 THEN BackupCount - 1 ELSE BackupCount + 1
  BY DEF G!DoRollover, LogInv, LogTypes
<1>2. /\ rollovers' \in [1 .. MaxEntries -> Nat]
      /\ \A e \in 1 .. MaxEntries : rollovers'[e] >= rollovers[e]
      /\ \A e \in Entries : \A i \in 0 .. BackupCount :
           rollovers[e] >= i => rollovers'[e] >= i + 1
  <2>1. rollovers' = [e \in 1 .. MaxEntries |->
           IF e <= logged /\ rollovers[e] <= BackupCount THEN rollovers[e] + 1 ELSE rollovers[e]]
    BY DEF G!DoRollover
  <2>2. \A e \in Entries : e \in 1 .. MaxEntries /\ e <= logged
    BY <1>1 DEF Entries
  <2> QED BY <1>1, <2>1, <2>2
<1>3. LogTypes'
  BY <1>1, <1>2 DEF G!DoRollover, LogInv, LogTypes, Entries
<1>4. Ordered' /\ Vacant'
  <2>1. Ordered'
    BY DEF G!DoRollover, LogInv, Ordered, Of
  <2>2. pc' \notin 1 .. BackupCount - 2 /\ pc' # G!Compressing
    BY <1>1
  <2>3. ~(pc' \in {G!Rotating, G!Compressing} /\ BackupCount > 1)
    BY <1>1
  <2>4. pc # G!Compressing
    BY <1>1
  <2> QED BY <2>1, <2>2, <2>3, <2>4 DEF G!DoRollover, LogInv, Vacant
<1>5. Aged'
  <2>1. \A i \in G!Numbers : \A e \in gz[i] : e \in Entries /\ rollovers[e] >= i
    BY DEF LogInv, Aged, LogTypes
  <2>2. \A i \in G!Numbers : \A e \in gz[i] : rollovers'[e] >= i + 1 /\ rollovers'[e] >= i
    <3>1. \A e \in Entries : rollovers'[e] \in Nat
      BY <1>1, <1>2 DEF Entries
    <3>2. \A i \in G!Numbers : \A e \in gz[i] : rollovers'[e] >= i + 1
      BY <1>2, <2>1
    <3> QED BY <2>1, <3>1, <3>2
  <2>3. \A e \in current : rollovers'[e] >= 1
    <3>1. \A e \in Entries : rollovers[e] >= 0
      BY <1>1 DEF Entries
    <3>2. \A e \in Entries : rollovers'[e] >= 0 + 1
      BY <1>2, <3>1
    <3> QED BY <3>2 DEF LogInv, LogTypes
  <2>4. pc' # G!Compressing /\ gz' = gz /\ current' = current
    BY <1>1 DEF G!DoRollover
  <2> QED BY <2>2, <2>3, <2>4 DEF Aged
<1>6. G!RecentIsKept'
  <2> SUFFICES ASSUME NEW e \in 1 .. logged, rollovers'[e] <= BackupCount,
                      e \notin failed \cup archived
               PROVE  e \in current \cup UNION {plain[i] \cup gz[i] : i \in G!Numbers}
    BY DEF G!RecentIsKept, G!DoRollover
  <2>1. rollovers[e] <= BackupCount
    BY <1>1, <1>2
  <2> QED BY <2>1 DEF LogInv, G!RecentIsKept
<1> QED BY <1>3, <1>4, <1>5, <1>6 DEF LogInv

LEMMA ShiftKeepsLog ==
  ASSUME G!LogAssumption, LogInv, G!ShiftBackup
  PROVE  LogInv'
<1>0. PICK k \in 1 .. BackupCount - 1 : k = pc
  BY DEF G!ShiftBackup
<1>1. /\ k = pc /\ k \in 1 .. BackupCount - 1 /\ k \in G!Numbers /\ k + 1 \in G!Numbers
      /\ pc' = (IF k = 1 THEN BackupCount + 1 ELSE k - 1)
  BY <1>0, LogNumbers DEF G!ShiftBackup
<1>2. /\ k \in Nat /\ k >= 1 /\ k <= BackupCount - 1 /\ k # G!Compressing
      /\ BackupCount \in Nat /\ BackupCount > 1 /\ G!Numbers = 1 .. BackupCount
  BY <1>1, LogNumbers
<1>3. /\ plain \in [G!Numbers -> SUBSET Entries] /\ gz \in [G!Numbers -> SUBSET Entries]
      /\ failed' = failed /\ archived' = archived /\ rollovers' = rollovers
      /\ current' = current /\ logged' = logged /\ archive' = archive
  BY DEF LogInv, LogTypes, G!ShiftBackup
(* Either the compressed file moves, or the plain one does. *)
<1>4. \/ /\ gz[k] # {} /\ plain' = plain
         /\ gz'[k + 1] = gz[k] /\ gz'[k] = {} /\ gz' \in [G!Numbers -> SUBSET Entries]
         /\ \A i \in G!Numbers \ {k, k + 1} : gz'[i] = gz[i]
      \/ /\ gz[k] = {} /\ gz' = gz
         /\ plain'[k + 1] = plain[k] \/ (plain[k] = {} /\ plain'[k + 1] = plain[k + 1])
         /\ plain'[k] = {} /\ plain' \in [G!Numbers -> SUBSET Entries]
         /\ \A i \in G!Numbers \ {k, k + 1} : plain'[i] = plain[i]
  <2>1. k # k + 1
    BY <1>2
  <2>2. CASE gz[k] # {}
    <3>1. gz' = [gz EXCEPT ![k + 1] = gz[k], ![k] = {}] /\ plain' = plain
      BY <1>1, <2>2 DEF G!ShiftBackup
    <3> QED BY <1>1, <1>3, <2>1, <2>2, <3>1
  <2>3. CASE gz[k] = {}
    <3>1. /\ plain' = IF plain[k] = {} THEN plain
                      ELSE [plain EXCEPT ![k + 1] = plain[k], ![k] = {}]
          /\ gz' = gz
      BY <1>1, <2>3 DEF G!ShiftBackup
    <3> QED BY <1>1, <1>3, <2>1, <2>3, <3>1
  <2> QED BY <2>2, <2>3
<1>5. /\ \A i \in G!Numbers : plain[i] \subseteq failed
      /\ \A i \in 1 .. BackupCount - 1 : plain[i] = {} \/ gz[i] = {} \/ (i = 1 /\ plain[i] = gz[i])
      /\ k <= BackupCount - 2 => plain[k + 1] = {} /\ gz[k + 1] = {}
  BY <1>1, <1>2 DEF LogInv, Vacant, Of
<1>6. LogTypes'
  <2>1. g_torn' \subseteq G!Numbers
    BY <1>1 DEF G!ShiftBackup, LogInv, LogTypes
  <2>2. pc' \in 0 .. BackupCount + 2
    BY <1>1, <1>2
  <2> QED BY <1>3, <1>4, <2>1, <2>2 DEF LogInv, LogTypes, Entries
<1>7. \A i \in G!Numbers : \A e \in Of(i)' : e \in Of(i) \/ (i = k + 1 /\ e \in Of(k))
  BY <1>1, <1>4 DEF Of
<1>8. \A e \in Of(k)', f \in Of(k) : f \in failed
  BY <1>1, <1>4, <1>5 DEF Of
<1>9. Ordered'
  <2>1. ASSUME NEW i \in G!Numbers, NEW j \in G!Numbers, i < j,
               NEW e \in Of(i)', NEW f \in Of(j)'
        PROVE  f < e \/ f \in failed
    <3>1. CASE e \in Of(i) /\ f \in Of(j)
      BY <2>1, <3>1 DEF LogInv, Ordered
    <3>2. CASE i = k + 1 /\ e \in Of(k) /\ f \in Of(j)
      <4>1. k < j
        BY <1>2, <2>1, <3>2
      <4> QED BY <1>1, <3>2, <4>1 DEF LogInv, Ordered
    <3>3. CASE j = k + 1 /\ f \in Of(k) /\ e \in Of(i)
      <4>1. i < k \/ i = k
        BY <1>2, <2>1, <3>3
      <4>2. CASE i < k
        BY <1>1, <3>3, <4>2 DEF LogInv, Ordered
      <4> QED BY <1>8, <2>1, <3>3, <4>1, <4>2
    <3>4. i = k + 1 /\ j = k + 1 => FALSE
      BY <1>2, <2>1
    <3> QED BY <1>7, <3>1, <3>2, <3>3, <3>4
  <2>2. \A i \in G!Numbers : \A e \in Of(i)', f \in current : e < f
    BY <1>1, <1>7 DEF LogInv, Ordered
  <2> QED BY <1>3, <2>1, <2>2 DEF Ordered
<1>10. Vacant'
  <2>1. \A i \in G!Numbers : plain'[i] \subseteq failed
    BY <1>1, <1>4, <1>5
  <2>2. \A i \in 1 .. BackupCount - 1 :
          plain'[i] = {} \/ gz'[i] = {} \/ (i = 1 /\ plain'[i] = gz'[i])
    <3> SUFFICES ASSUME NEW i \in 1 .. BackupCount - 1
                 PROVE  plain'[i] = {} \/ gz'[i] = {} \/ (i = 1 /\ plain'[i] = gz'[i])
      OBVIOUS
    <3>1. CASE i = k + 1
      <4>1. plain[k + 1] = {} /\ gz[k + 1] = {}
        BY <1>2, <1>5, <3>1
      <4> QED BY <1>4, <3>1, <4>1
    <3>2. CASE i = k
      BY <1>4, <3>2
    <3>3. CASE i \notin {k, k + 1}
      <4>1. i \in G!Numbers
        BY <1>2
      <4> QED BY <1>4, <1>5, <3>3, <4>1
    <3> QED BY <3>1, <3>2, <3>3
  <2>3. pc' \in 1 .. BackupCount - 2 => Of(pc + 1)' = {}
    <3> SUFFICES ASSUME pc' \in 1 .. BackupCount - 2 PROVE Of(pc + 1)' = {}
      OBVIOUS
    <3>1. pc' = k - 1 /\ k # 1 /\ pc' + 1 = k
      BY <1>1, <1>2
    <3>2. plain'[k] = {} /\ gz'[k] = {}
      BY <1>1, <1>4, <1>5, <3>1
    <3> QED BY <3>1, <3>2 DEF Of
  <2>4. pc' # G!Compressing
    BY <1>1, <1>2, LogNumbers
  <2>5. pc' = G!Rotating => gz'[1] = {}
    <3>1. pc' = G!Rotating => k = 1
      BY <1>1, <1>2, LogNumbers
    <3> QED BY <1>4, <3>1
  <2> QED BY <1>3, <2>1, <2>2, <2>3, <2>4, <2>5 DEF Vacant
<1>11. Aged'
  <2>1. ASSUME NEW i \in G!Numbers, NEW e \in gz'[i]
        PROVE  rollovers[e] >= i /\ (Due(i)' => rollovers[e] >= i + 1)
    <3>1. Due(i)' => i <= k - 1
      BY <1>1, <1>2, LogNumbers DEF Due
    <3>2. CASE i = k + 1 /\ e \in gz[k]
      <4>1. Due(k)
        BY <1>1 DEF Due
      <4>2. rollovers[e] >= k + 1
        BY <1>1, <3>2, <4>1 DEF LogInv, Aged
      <4> QED BY <1>2, <3>1, <3>2, <4>2
    <3>3. CASE e \in gz[i]
      <4>1. i <= k - 1 => Due(i)
        BY <1>1, <1>2 DEF Due
      <4> QED BY <3>1, <3>3, <4>1 DEF LogInv, Aged
    <3> QED BY <1>1, <1>4, <3>2, <3>3
  <2>2. pc' # G!Compressing
    BY <1>1, <1>2, LogNumbers
  <2>3. \A e \in current : rollovers[e] >= 1
    BY <1>1, <1>2 DEF LogInv, Aged
  <2> QED BY <1>3, <2>1, <2>2, <2>3 DEF Aged
<1>12. G!RecentIsKept'
  <2> SUFFICES ASSUME NEW e \in 1 .. logged, rollovers[e] <= BackupCount,
                      e \notin failed \cup archived
               PROVE  e \in current \/ \E i \in G!Numbers : e \in plain'[i] \cup gz'[i]
    BY <1>3 DEF G!RecentIsKept
  <2>1. e \in current \/ \E i \in G!Numbers : e \in plain[i] \cup gz[i]
    BY DEF LogInv, G!RecentIsKept
  <2>2. ASSUME NEW i \in G!Numbers, e \in plain[i] \cup gz[i]
        PROVE  \E j \in G!Numbers : e \in plain'[j] \cup gz'[j]
    <3>1. e \in gz[i]
      BY <1>5, <2>2
    <3>2. i # k + 1
      <4> SUFFICES ASSUME i = k + 1 PROVE FALSE
        OBVIOUS
      <4>1. k = BackupCount - 1
        BY <1>2, <1>5, <3>1
      <4>2. Due(i)
        BY <1>1, <4>1 DEF Due
      <4>3. rollovers[e] >= i + 1
        BY <3>1, <4>2 DEF LogInv, Aged
      <4>4. rollovers[e] \in Nat
        BY LogNumbers DEF LogInv, LogTypes
      <4> QED BY <1>2, <4>1, <4>3, <4>4
    <3> QED BY <1>1, <1>4, <3>1, <3>2
  <2> QED BY <2>1, <2>2
<1> QED BY <1>6, <1>9, <1>10, <1>11, <1>12 DEF LogInv


LEMMA RotateKeeps ==
  ASSUME G!LogAssumption, LogInv, G!RotateCurrent
  PROVE  LogInv'
<1>1. /\ pc = BackupCount + 1 /\ pc' = BackupCount + 2 /\ pc = G!Rotating /\ pc' = G!Compressing
      /\ BackupCount \in Nat /\ BackupCount >= 1 /\ 1 \in G!Numbers
      /\ G!Numbers = 1 .. BackupCount
  BY LogNumbers DEF G!RotateCurrent
<1>2. /\ plain \in [G!Numbers -> SUBSET Entries] /\ current \subseteq Entries
      /\ plain' = [plain EXCEPT ![1] = current] /\ current' = {} /\ gz' = gz
      /\ failed' = failed /\ archived' = archived /\ rollovers' = rollovers /\ logged' = logged
  BY DEF LogInv, LogTypes, G!RotateCurrent
<1>3. /\ plain' \in [G!Numbers -> SUBSET Entries] /\ plain'[1] = current
      /\ \A i \in G!Numbers \ {1} : plain'[i] = plain[i]
  BY <1>1, <1>2
<1>4. LogTypes'
  BY <1>1, <1>2, <1>3 DEF G!RotateCurrent, LogInv, LogTypes, Entries
<1>5. Ordered'
  <2>1. ASSUME NEW i \in G!Numbers, NEW j \in G!Numbers, i < j,
               NEW e \in Of(i)', NEW f \in Of(j)'
        PROVE  f < e \/ f \in failed
    <3>1. j # 1 /\ f \in Of(j)
      BY <1>1, <1>2, <1>3, <2>1 DEF Of
    <3>2. e \in Of(i) \/ e \in current
      BY <1>2, <1>3 DEF Of
    <3> QED BY <2>1, <3>1, <3>2 DEF LogInv, Ordered
  <2> QED BY <1>2, <2>1 DEF Ordered
<1>6. Vacant'
  <2>1. pc # G!Compressing /\ ~(pc' \in 1 .. BackupCount - 2)
    BY <1>1, LogNumbers
  <2>2. \A i \in 1 .. BackupCount - 1 : i \in G!Numbers /\ (i = 1 => gz[i] = {})
    BY <1>1 DEF LogInv, Vacant
  <2> QED BY <1>1, <1>2, <1>3, <2>1, <2>2 DEF LogInv, Vacant
<1>7. Aged'
  <2>1. \A i \in G!Numbers : Due(i)' => Due(i)
    BY <1>1 DEF Due
  <2>2. \A e \in current : rollovers[e] >= 1
    BY <1>1 DEF LogInv, Aged
  <2> QED BY <1>1, <1>2, <1>3, <2>1, <2>2 DEF LogInv, Aged
<1>8. G!RecentIsKept'
  <2> SUFFICES ASSUME NEW e \in 1 .. logged, rollovers[e] <= BackupCount,
                      e \notin failed \cup archived
               PROVE  \E i \in G!Numbers : e \in plain'[i] \cup gz'[i]
    BY <1>2 DEF G!RecentIsKept
  <2>1. e \in current \/ \E i \in G!Numbers : e \in plain[i] \cup gz[i]
    BY DEF LogInv, G!RecentIsKept
  <2>2. plain[1] \subseteq failed
    BY <1>1, LogNumbers DEF LogInv, Vacant
  <2> QED BY <1>1, <1>2, <1>3, <2>1, <2>2
<1> QED BY <1>4, <1>5, <1>6, <1>7, <1>8 DEF LogInv

(* The end of a rollover, whether what was compressed is complete or not:  *)
(* backup 1 may be there in both forms only if it failed.                  *)
LEMMA CompressKeeps ==
  ASSUME G!LogAssumption, LogInv, G!CompressFile \/ G!CompressFails
  PROVE  LogInv'
<1>1. /\ pc = G!Compressing /\ pc' = 0 /\ pc = BackupCount + 2
      /\ BackupCount \in Nat /\ BackupCount >= 1 /\ 1 \in G!Numbers
      /\ G!Numbers = 1 .. BackupCount /\ pc' # G!Compressing /\ pc' # G!Rotating
  BY LogNumbers DEF G!CompressFile, G!CompressFails
<1>2. /\ plain \in [G!Numbers -> SUBSET Entries] /\ gz \in [G!Numbers -> SUBSET Entries]
      /\ archived' = archived /\ rollovers' = rollovers /\ logged' = logged
      /\ current' = current /\ archive' = archive
  BY DEF LogInv, LogTypes, G!CompressFile, G!CompressFails
<1>3. /\ plain' \in [G!Numbers -> SUBSET Entries] /\ gz' \in [G!Numbers -> SUBSET Entries]
      /\ \A i \in G!Numbers \ {1} : plain'[i] = plain[i] /\ gz'[i] = gz[i]
      /\ failed \subseteq failed'
      /\ \/ gz'[1] = plain[1] /\ plain'[1] = {} /\ failed' = failed
         \/ gz'[1] = plain[1] /\ plain'[1] = plain[1] /\ plain[1] \subseteq failed'
         \/ gz'[1] = gz[1] /\ plain'[1] = plain[1] /\ plain[1] \subseteq failed'
  <2>1. CASE G!CompressFile
    BY <1>1, <1>2, <2>1 DEF G!CompressFile
  <2>2. CASE G!CompressFails
    BY <1>1, <1>2, <2>2 DEF G!CompressFails
  <2> QED BY <2>1, <2>2
<1>4. LogTypes'
  <2>1. g_torn' \subseteq G!Numbers
    BY <1>1 DEF G!CompressFile, G!CompressFails, LogInv, LogTypes
  <2>2. pc' \in 0 .. BackupCount + 2
    BY <1>1
  <2> QED BY <1>2, <1>3, <2>1, <2>2 DEF LogInv, LogTypes, Entries
<1>5. \A i \in G!Numbers : Of(i)' \subseteq Of(i)
  BY <1>1, <1>3 DEF Of
<1>6. Ordered'
  BY <1>2, <1>3, <1>5 DEF LogInv, Ordered
<1>7. \A i \in G!Numbers \ {1} : plain[i] \subseteq failed
  BY DEF LogInv, Vacant
<1>8. BackupCount > 1 => gz[1] = {}
  BY <1>1 DEF LogInv, Vacant
<1>9. Vacant'
  <2>1. \A i \in G!Numbers : plain'[i] \subseteq failed'
    BY <1>3, <1>7
  <2>2. \A i \in 1 .. BackupCount - 1 :
          plain'[i] = {} \/ gz'[i] = {} \/ (i = 1 /\ plain'[i] = gz'[i])
    <3> SUFFICES ASSUME NEW i \in 1 .. BackupCount - 1
                 PROVE  plain'[i] = {} \/ gz'[i] = {} \/ (i = 1 /\ plain'[i] = gz'[i])
      OBVIOUS
    <3>1. i \in G!Numbers /\ BackupCount > 1
      BY <1>1
    <3>2. CASE i = 1
      BY <1>3, <1>8, <3>1, <3>2
    <3>3. CASE i # 1
      BY <1>3, <3>1, <3>3 DEF LogInv, Vacant
    <3> QED BY <3>2, <3>3
  <2>3. pc' \notin 1 .. BackupCount - 2
    BY <1>1
  <2> QED BY <1>1, <2>1, <2>2, <2>3 DEF Vacant
<1>10. Aged'
  <2>1. \A i \in G!Numbers : ~Due(i)'
    BY <1>1 DEF Due
  <2>2. \A e \in plain[1] : rollovers[e] >= 1
    BY <1>1 DEF LogInv, Aged
  <2>3. \A i \in G!Numbers : \A e \in gz'[i] : rollovers[e] >= i
    BY <1>3, <2>2 DEF LogInv, Aged
  <2>4. pc' \notin 1 .. BackupCount + 1
    BY <1>1
  <2> QED BY <1>1, <1>2, <2>1, <2>3, <2>4 DEF Aged
<1>11. G!RecentIsKept'
  <2> SUFFICES ASSUME NEW e \in 1 .. logged, rollovers[e] <= BackupCount,
                      e \notin failed' \cup archived
               PROVE  e \in current \/ \E i \in G!Numbers : e \in plain'[i] \cup gz'[i]
    BY <1>2 DEF G!RecentIsKept
  <2>1. e \in current \/ \E i \in G!Numbers : e \in plain[i] \cup gz[i]
    BY <1>3 DEF LogInv, G!RecentIsKept
  <2>2. e \notin gz[1]
    <3> SUFFICES ASSUME e \in gz[1] PROVE FALSE
      OBVIOUS
    <3>1. BackupCount = 1
      BY <1>1, <1>8
    <3>2. Due(1)
      BY <1>1, <3>1 DEF Due
    <3>3. rollovers[e] >= 1 + 1
      BY <1>1, <3>2 DEF LogInv, Aged
    <3>4. rollovers[e] \in Nat
      BY LogNumbers DEF LogInv, LogTypes
    <3> QED BY <3>1, <3>3, <3>4
  <2> QED BY <1>1, <1>3, <2>1, <2>2
<1> QED BY <1>4, <1>6, <1>9, <1>10, <1>11 DEF LogInv

LEMMA KilledKeeps ==
  ASSUME G!LogAssumption, LogInv, G!Killed
  PROVE  LogInv'
<1>1. /\ pc' = 0 /\ pc # G!Compressing /\ BackupCount \in Nat
      /\ pc' # G!Compressing /\ pc' # G!Rotating
  BY LogNumbers DEF G!Killed
<1>2. LogTypes' /\ Ordered' /\ G!RecentIsKept'
  BY <1>1 DEF G!Killed, LogInv, LogTypes, Entries, Ordered, Of, G!RecentIsKept
<1>3. Vacant'
  BY <1>1 DEF G!Killed, LogInv, Vacant
<1>4. Aged'
  BY <1>1 DEF G!Killed, LogInv, Aged, Due
<1> QED BY <1>2, <1>3, <1>4 DEF LogInv

LEMMA ArchiveKeeps ==
  ASSUME G!LogAssumption, LogInv, G!ArchiveOldLogs
  PROVE  LogInv'
<1>1. PICK n \in G!Numbers :
        /\ archive' = [j \in G!Numbers |-> IF j >= n /\ gz[j] # {} THEN gz[j] ELSE archive[j]]
        /\ gz' = [j \in G!Numbers |-> IF j >= n THEN {} ELSE gz[j]]
        /\ g_torn' = {j \in g_torn : j < n}
        /\ archived' = archived \cup UNION {gz[j] : j \in n .. BackupCount}
  BY DEF G!ArchiveOldLogs
<1>2. /\ pc = 0 /\ pc' = pc /\ BackupCount \in Nat /\ G!Numbers = 1 .. BackupCount
      /\ G!Compressing = BackupCount + 2 /\ G!Rotating = BackupCount + 1
      /\ plain' = plain /\ failed' = failed /\ rollovers' = rollovers
      /\ logged' = logged /\ current' = current
  BY LogNumbers DEF G!ArchiveOldLogs
<1>3. \A i \in G!Numbers : gz'[i] = {} \/ gz'[i] = gz[i]
  BY <1>1
<1>4. LogTypes'
  <2>1. gz' \in [G!Numbers -> SUBSET Entries]
    BY <1>1, <1>2 DEF LogInv, LogTypes
  <2>2. archive' \in [G!Numbers -> SUBSET Entries]
    BY <1>1, <1>2 DEF LogInv, LogTypes
  <2> QED BY <1>1, <1>2, <2>1, <2>2 DEF LogInv, LogTypes, Entries
<1>5. Ordered'
  <2>1. \A i \in G!Numbers : Of(i)' \subseteq Of(i)
    BY <1>2, <1>3 DEF Of
  <2> QED BY <1>2, <2>1 DEF LogInv, Ordered
<1>6. Vacant'
  <2>1. \A i \in 1 .. BackupCount - 1 : i \in G!Numbers
    BY <1>2
  <2> QED BY <1>2, <1>3, <2>1 DEF LogInv, Vacant
<1>7. Aged'
  <2>1. \A i \in G!Numbers : Due(i)' => Due(i)
    BY <1>2 DEF Due
  <2> QED BY <1>2, <1>3, <2>1 DEF LogInv, Aged
<1>8. G!RecentIsKept'
  <2> SUFFICES ASSUME NEW e \in 1 .. logged, rollovers[e] <= BackupCount,
                      e \notin failed \cup archived'
               PROVE  e \in current \/ \E i \in G!Numbers : e \in plain[i] \cup gz'[i]
    BY <1>2 DEF G!RecentIsKept
  <2>1. e \in current \/ \E i \in G!Numbers : e \in plain[i] \cup gz[i]
    BY <1>1 DEF LogInv, G!RecentIsKept
  <2>2. \A i \in G!Numbers : e \in gz[i] => i < n
    <3> SUFFICES ASSUME NEW i \in G!Numbers, e \in gz[i], i >= n PROVE FALSE
      BY <1>2
    <3>1. i \in n .. BackupCount
      BY <1>2
    <3> QED BY <1>1, <3>1
  <2>3. \A i \in G!Numbers : i < n => gz'[i] = gz[i]
    BY <1>1, <1>2
  <2> QED BY <2>1, <2>2, <2>3
<1> QED BY <1>4, <1>5, <1>6, <1>7, <1>8 DEF LogInv

(* Plain and compressed backups are in order of age, with a gap only where *)
(* the rollover under way has left one (core/advanced_logging.py).         *)
THEOREM LogInvariant ==
  ASSUME G!LogAssumption
  PROVE  G!Spec => []LogInv
<1>1. G!Init => LogInv
  <2> SUFFICES ASSUME G!Init PROVE LogInv
    OBVIOUS
  <2> USE LogNumbers
  <2>1. LogTypes
    BY DEF G!Init, LogTypes, Entries
  <2>2. \A i \in G!Numbers : plain[i] = {} /\ gz[i] = {} /\ Of(i) = {}
    BY DEF G!Init, Of
  <2>3. pc = 0 /\ current = {} /\ logged = 0
    BY DEF G!Init
  <2>4. Ordered /\ Vacant /\ Aged
    BY <2>2, <2>3 DEF Ordered, Vacant, Aged
  <2>5. G!RecentIsKept
    BY <2>3 DEF G!RecentIsKept
  <2> QED BY <2>1, <2>4, <2>5 DEF LogInv
<1>2. LogInv /\ [G!Next]_G!logVars => LogInv'
  <2> SUFFICES ASSUME LogInv, [G!Next]_G!logVars PROVE LogInv'
    OBVIOUS
  <2>1. CASE G!EnforceRetention
    <3>1. archive' \in [G!Numbers -> SUBSET Entries]
      BY <2>1 DEF G!EnforceRetention, LogInv, LogTypes
    <3> QED BY <2>1, <3>1
            DEF G!EnforceRetention, LogInv, LogTypes, Entries, Ordered, Of, Vacant, Aged, Due,
                G!RecentIsKept
  <2>2. CASE UNCHANGED G!logVars
    BY <2>2 DEF G!logVars, LogInv, LogTypes, Entries, Ordered, Of, Vacant, Aged, Due,
                G!RecentIsKept
  <2> QED BY <2>1, <2>2, EmitKeeps, DoRolloverKeeps, ShiftKeepsLog, RotateKeeps, CompressKeeps,
             KilledKeeps, ArchiveKeeps DEF G!Next
<1> QED BY <1>1, <1>2, PTL DEF G!Spec

(* The backups are in order wherever a rollover was interrupted, and an    *)
(* entry is kept through backup_count rollovers unless its compression     *)
(* failed or it was archived.                                              *)
THEOREM LogsCorrect ==
  ASSUME G!LogAssumption
  PROVE  G!Spec => []G!LogSound
<1>1. LogInv => G!LogSound
  <2> SUFFICES ASSUME LogInv PROVE G!LogSound
    OBVIOUS
  <2>1. G!TypeOK
    BY DEF LogInv, LogTypes, Entries, G!TypeOK
  <2>2. G!BackupsAreInOrder
    BY DEF LogInv, Ordered, Of, G!BackupsAreInOrder
  <2> QED BY <2>1, <2>2 DEF LogInv, G!LogSound
<1> QED BY <1>1, LogInvariant, PTL

-----------------------------------------------------------------------------
(* CertificateStore                                                        *)

(* A certificate that get_or_create_certificate would keep. *)
Kept == T!Valid(cert) /\ ~T!ExpiringSoon(cert)

(* Without trouble only one process is at work; a certificate that would   *)
(* be kept has its key beside it unless the tool is replacing both, and    *)
(* the connector replaces none that would be kept.                         *)
PairInv ==
  /\ t_at["tool"] = "idle" \/ t_at["server"] = "idle"
  /\ Kept => T!Usable \/ T!Generating("tool")
  /\ t_at["server"] \in {"generating", "generated", "key opened", "key written"} => ~Kept
  /\ t_at["server"] = "loading" => T!Usable
  /\ \A p \in T!Processes :
       /\ t_at[p] \in {"key written", "cert opened"} => key = T!Whole(t_making[p], 0)
       /\ t_at[p] = "cert opened" => cert = T!Emptied

Ats == {"idle", "checking", "generating", "generated", "key opened", "key written",
        "cert opened", "loading"}

CertTypes ==
  /\ tls \in [enabled : BOOLEAN, configured : BOOLEAN]
  /\ key \in T!Files /\ cert \in T!Files
  /\ t_at \in [T!Processes -> Ats] /\ t_making \in [T!Processes -> T!Pairs]
  /\ t_at["tool"] \notin {"checking", "loading"}
  /\ web \in {"down", "http", "https"} /\ trouble \in BOOLEAN
  /\ day \in 0 .. MaxDays /\ pairs \in T!Pairs /\ t_faults \in 0 .. MaxFaults

CertInv ==
  /\ CertTypes
  /\ ~trouble => PairInv
  /\ ~trouble /\ tls.enabled => web # "http"

LEMMA CertFacts ==
  ASSUME T!CertificateAssumption
  PROVE  /\ Validity \in Nat /\ Soon \in Nat /\ MaxDays \in Nat /\ MaxPairs \in Nat
         /\ MaxFaults \in Nat
         /\ T!Absent \in T!Files /\ T!Emptied \in T!Files
         /\ \A n \in T!Pairs : T!Whole(n, 0) \in T!Files
         /\ \A n \in T!Pairs, d \in 0 .. MaxDays : T!Whole(n, d + Validity) \in T!Files
<1>1. /\ Validity \in Nat /\ Soon \in Nat /\ MaxDays \in Nat /\ MaxPairs \in Nat
      /\ MaxFaults \in Nat
  BY DEF T!CertificateAssumption
<1>2. 0 \in T!Pairs /\ 0 \in 0 .. MaxDays + Validity
  BY <1>1 DEF T!Pairs
<1>3. \A d \in 0 .. MaxDays : d + Validity \in 0 .. MaxDays + Validity
  BY <1>1
<1> QED BY <1>1, <1>2, <1>3 DEF T!Absent, T!Emptied, T!Whole, T!Files

LEMMA Going ==
  ASSUME CertTypes, NEW p \in T!Processes, NEW to \in Ats, T!Goes(p, to)
  PROVE  /\ t_at' \in [T!Processes -> Ats]
         /\ t_at'[p] = to /\ \A q \in T!Processes \ {p} : t_at'[q] = t_at[q]
         /\ "tool" # p \/ to \notin {"checking", "loading"} =>
              t_at'["tool"] \notin {"checking", "loading"}
BY DEF CertTypes, T!Goes, T!Processes

LEMMA Faulty ==
  ASSUME T!CertificateAssumption, CertTypes, T!Fault
  PROVE  trouble' /\ trouble' \in BOOLEAN /\ t_faults' \in 0 .. MaxFaults
BY CertFacts DEF CertTypes, T!Fault

LEMMA WriterTypesKept ==
  ASSUME T!CertificateAssumption, CertTypes, NEW p \in T!Processes,
         \/ T!GenerateKey(p) \/ T!OpenKey(p) \/ T!WriteKey(p) \/ T!OpenCert(p)
         \/ T!WriteCert(p) \/ T!GenerateFails(p)
  PROVE  CertTypes'
<1>1. t_making[p] \in T!Pairs /\ day \in 0 .. MaxDays
  BY DEF CertTypes
<1>2. CASE T!GenerateKey(p)
  <2>1. pairs' \in T!Pairs
    BY <1>2, CertFacts DEF CertTypes, T!GenerateKey, T!Pairs
  <2>2. t_making' \in [T!Processes -> T!Pairs]
    BY <1>2, <2>1 DEF CertTypes, T!GenerateKey
  <2>3. t_at' \in [T!Processes -> Ats] /\ t_at'["tool"] \notin {"checking", "loading"}
    BY <1>2, Going DEF T!GenerateKey, Ats
  <2> QED BY <1>2, <2>1, <2>2, <2>3 DEF CertTypes, T!GenerateKey, T!NoFault
<1>3. CASE T!OpenKey(p)
  <2>1. t_at' \in [T!Processes -> Ats] /\ t_at'["tool"] \notin {"checking", "loading"}
    BY <1>3, Going DEF T!OpenKey, Ats
  <2> QED BY <1>3, <2>1, CertFacts DEF CertTypes, T!OpenKey, T!NoFault
<1>4. CASE T!WriteKey(p)
  <2>1. t_at' \in [T!Processes -> Ats] /\ t_at'["tool"] \notin {"checking", "loading"}
    BY <1>4, Going DEF T!WriteKey, Ats
  <2>2. key' \in T!Files
    BY <1>1, <1>4, CertFacts DEF T!WriteKey
  <2> QED BY <1>4, <2>1, <2>2 DEF CertTypes, T!WriteKey, T!NoFault
<1>5. CASE T!OpenCert(p)
  <2>1. t_at' \in [T!Processes -> Ats] /\ t_at'["tool"] \notin {"checking", "loading"}
    BY <1>5, Going DEF T!OpenCert, Ats
  <2> QED BY <1>5, <2>1, CertFacts DEF CertTypes, T!OpenCert, T!NoFault
<1>6. CASE T!WriteCert(p)
  <2>1. t_at' \in [T!Processes -> Ats] /\ t_at'["tool"] \notin {"checking", "loading"}
    BY <1>6, Going DEF T!WriteCert, T!Written, Ats
  <2>2. cert' \in T!Files
    BY <1>1, <1>6, CertFacts DEF T!WriteCert
  <2> QED BY <1>6, <2>1, <2>2 DEF CertTypes, T!WriteCert, T!NoFault
<1>7. CASE T!GenerateFails(p)
  <2>1. t_at' \in [T!Processes -> Ats] /\ t_at'["tool"] \notin {"checking", "loading"}
    BY <1>7, Going DEF T!GenerateFails, Ats
  <2>2. trouble' \in BOOLEAN /\ t_faults' \in 0 .. MaxFaults
    BY <1>7, Faulty DEF T!GenerateFails
  <2> QED BY <1>7, <2>1, <2>2 DEF CertTypes, T!GenerateFails
<1> QED BY <1>2, <1>3, <1>4, <1>5, <1>6, <1>7

LEMMA CertTypesKept ==
  ASSUME T!CertificateAssumption, CertTypes, [T!Next]_T!tlsVars
  PROVE  CertTypes'
<1>1. CASE T!Start
  BY <1>1 DEF CertTypes, T!Start, T!Goes, T!Processes, Ats
<1>2. CASE T!GetOrCreateCertificate
  <2>1. PICK to \in {"loading", "generating"} : T!Goes("server", to)
    BY <1>2 DEF T!GetOrCreateCertificate
  <2>2. t_at' \in [T!Processes -> Ats] /\ t_at'["tool"] \notin {"checking", "loading"}
    BY <2>1, Going DEF T!Processes, Ats
  <2> QED BY <1>2, <2>2 DEF CertTypes, T!GetOrCreateCertificate, T!NoFault
<1>3. CASE T!CreateSslContext \/ T!ServerEnds
  <2>1. t_at' \in [T!Processes -> Ats] /\ t_at'["tool"] \notin {"checking", "loading"}
    BY <1>3, Going DEF T!CreateSslContext, T!ServerEnds, T!Processes, Ats
  <2> QED BY <1>3, <2>1 DEF CertTypes, T!CreateSslContext, T!ServerEnds, T!NoFault
<1>4. CASE T!Generate
  <2>1. t_at' \in [T!Processes -> Ats] /\ t_at'["tool"] \notin {"checking", "loading"}
    BY <1>4, Going DEF T!Generate, T!Processes, Ats
  <2> QED BY <1>4, <2>1 DEF CertTypes, T!Generate
<1>5. CASE T!ToolKilled
  <2>1. t_at' \in [T!Processes -> Ats] /\ t_at'["tool"] \notin {"checking", "loading"}
    BY <1>5, Going DEF T!ToolKilled, T!Processes, Ats
  <2>2. trouble' \in BOOLEAN /\ t_faults' \in 0 .. MaxFaults
    BY <1>5, Faulty DEF T!ToolKilled
  <2> QED BY <1>5, <2>1, <2>2 DEF CertTypes, T!ToolKilled
<1>6. CASE T!KeyRemoved
  BY <1>6, CertFacts, Faulty DEF CertTypes, T!KeyRemoved
<1>7. CASE T!Tick
  BY <1>7, CertFacts DEF CertTypes, T!Tick, T!NoFault
<1>8. CASE \E p \in T!Processes :
             \/ T!GenerateKey(p) \/ T!OpenKey(p) \/ T!WriteKey(p) \/ T!OpenCert(p)
             \/ T!WriteCert(p) \/ T!GenerateFails(p)
  BY <1>8, WriterTypesKept
<1>9. CASE UNCHANGED T!tlsVars
  BY <1>9 DEF CertTypes, T!tlsVars
<1> QED BY <1>1, <1>2, <1>3, <1>4, <1>5, <1>6, <1>7, <1>8, <1>9 DEF T!Next

(* Days only make a certificate worse. *)
LEMMA NotKeptLater ==
  ASSUME T!CertificateAssumption, CertTypes, T!Tick
  PROVE  Kept' => Kept
<1>1. MaxDays \in Nat /\ Validity \in Nat /\ Soon \in Nat
  BY CertFacts
<1>2. cert.until \in 0 .. MaxDays + Validity /\ day \in 0 .. MaxDays
  BY DEF CertTypes, T!Files
<1>3. cert.until \in Nat /\ day \in Nat
  BY <1>1, <1>2
<1>4. cert' = cert /\ day' = day + 1
  BY DEF T!Tick
<1> QED BY <1>1, <1>3, <1>4 DEF Kept, T!Valid, T!ExpiringSoon

LEMMA PairsKept ==
  ASSUME T!CertificateAssumption, CertTypes, CertTypes', ~trouble, PairInv,
         [T!Next]_T!tlsVars, ~trouble'
  PROVE  PairInv'
<1> USE DEF CertTypes, PairInv, T!Processes
<1>1. CASE T!Start
  BY <1>1 DEF T!Start, T!Goes, T!Generating, T!Usable, Kept, T!Valid, T!ExpiringSoon
<1>2. CASE T!GetOrCreateCertificate
  BY <1>2 DEF T!GetOrCreateCertificate, T!Goes, T!NoFault, T!Generating, T!Usable, Kept,
              T!Valid, T!ExpiringSoon
<1>3. CASE T!CreateSslContext \/ T!ServerEnds
  BY <1>3 DEF T!CreateSslContext, T!ServerEnds, T!Goes, T!NoFault, T!Generating, T!Usable,
              Kept, T!Valid, T!ExpiringSoon
<1>4. CASE T!Generate
  BY <1>4 DEF T!Generate, T!Goes, T!Generating, T!Usable, Kept, T!Valid, T!ExpiringSoon
<1>5. CASE T!ToolKilled \/ T!KeyRemoved \/ \E p \in T!Processes : T!GenerateFails(p)
  BY <1>5 DEF T!ToolKilled, T!KeyRemoved, T!GenerateFails, T!Fault
<1>6. CASE T!Tick
  <2>1. Kept' => Kept
    BY <1>6, NotKeptLater
  <2>2. /\ t_at' = t_at /\ t_making' = t_making /\ key' = key /\ cert' = cert
        /\ T!Usable' = T!Usable /\ T!Generating("tool")' = T!Generating("tool")
    BY <1>6 DEF T!Tick, T!Usable, T!Generating
  <2> QED BY <2>1, <2>2
<1>7. CASE \E p \in T!Processes : T!GenerateKey(p)
  BY <1>7 DEF T!GenerateKey, T!Goes, T!NoFault, T!Generating, T!Usable, Kept, T!Valid,
              T!ExpiringSoon
<1>8. CASE \E p \in T!Processes : T!OpenKey(p) \/ T!WriteKey(p)
  <2>1. PICK p \in T!Processes : T!OpenKey(p) \/ T!WriteKey(p)
    BY <1>8
  <2>2. /\ t_at[p] \in {"generated", "key opened"} /\ t_at'[p] \in {"key opened", "key written"}
        /\ \A q \in T!Processes \ {p} : t_at'[q] = t_at[q] /\ t_at[q] = "idle"
    BY <2>1, Going DEF T!OpenKey, T!WriteKey, Ats
  <2>3. t_at'[p] = "key written" => key' = T!Whole(t_making[p], 0)
    BY <2>1, Going DEF T!OpenKey, T!WriteKey, Ats
  <2>4. cert' = cert /\ t_making' = t_making /\ Kept' = Kept
    BY <2>1 DEF T!OpenKey, T!WriteKey, Kept, T!Valid, T!ExpiringSoon
  <2>5. T!Generating("tool")' \/ ~Kept'
    BY <2>2, <2>4 DEF T!Generating
  <2> QED BY <2>2, <2>3, <2>4, <2>5
<1>9. CASE \E p \in T!Processes : T!OpenCert(p)
  <2>1. PICK p \in T!Processes : T!OpenCert(p)
    BY <1>9
  <2>2. t_at'[p] = "cert opened" /\ \A q \in T!Processes \ {p} : t_at'[q] = t_at[q]
    BY <2>1, Going DEF T!OpenCert, Ats
  <2>3. cert' = T!Emptied /\ key' = key /\ t_making' = t_making /\ ~Kept'
    BY <2>1 DEF T!OpenCert, T!Emptied, Kept, T!Valid
  <2> QED BY <2>1, <2>2, <2>3 DEF T!OpenCert
<1>10. CASE \E p \in T!Processes : T!WriteCert(p)
  <2>1. PICK p \in T!Processes : T!WriteCert(p)
    BY <1>10
  <2>2. /\ t_at'[p] = (IF p = "server" THEN "loading" ELSE "idle")
        /\ \A q \in T!Processes \ {p} : t_at'[q] = t_at[q]
    BY <2>1, Going DEF T!WriteCert, T!Written, Ats
  <2>3. /\ key = T!Whole(t_making[p], 0) /\ key' = key /\ t_making' = t_making
        /\ cert' = T!Whole(t_making[p], day + Validity)
    BY <2>1 DEF T!WriteCert
  <2>4. T!Usable'
    BY <2>3 DEF T!Usable, T!Whole
  <2>5. \A q \in T!Processes \ {p} : t_at[q] = "idle"
    BY <2>1 DEF T!WriteCert
  <2> QED BY <2>2, <2>3, <2>4, <2>5
<1>11. CASE UNCHANGED T!tlsVars
  BY <1>11 DEF T!tlsVars, T!Generating, T!Usable, Kept, T!Valid, T!ExpiringSoon
<1> QED BY <1>1, <1>2, <1>3, <1>4, <1>5, <1>6, <1>7, <1>8, <1>9, <1>10, <1>11 DEF T!Next

LEMMA NeverPlain ==
  ASSUME CertTypes, ~trouble, PairInv, tls.enabled, web # "http",
         [T!Next]_T!tlsVars, ~trouble'
  PROVE  web' # "http"
<1> USE DEF CertTypes, T!Processes
<1>1. CASE T!Start
  BY <1>1 DEF T!Start
<1>2. CASE T!CreateSslContext
  BY <1>2 DEF T!CreateSslContext, PairInv
<1>3. CASE T!ServerEnds
  BY <1>3 DEF T!ServerEnds
<1>4. CASE \E p \in T!Processes : T!GenerateFails(p)
  BY <1>4 DEF T!GenerateFails, T!Fault
<1>5. CASE web' = web
  BY <1>5
<1> QED
  BY <1>1, <1>2, <1>3, <1>4, <1>5
  DEF T!Next, T!tlsVars, T!GetOrCreateCertificate, T!Generate, T!ToolKilled, T!KeyRemoved, T!Tick,
      T!GenerateKey, T!OpenKey, T!WriteKey, T!OpenCert, T!WriteCert

(* A key and a certificate that do not belong together, or one without the *)
(* other, are there only after trouble (core/tls_manager.py).              *)
THEOREM CertInvariant ==
  ASSUME T!CertificateAssumption
  PROVE  T!Spec => []CertInv
<1>1. T!Init => CertInv
  <2> SUFFICES ASSUME T!Init PROVE CertInv
    OBVIOUS
  <2>1. CertTypes
    <3>1. 0 \in T!Pairs
      BY CertFacts DEF T!Pairs
    <3>2. 0 \in 0 .. MaxDays /\ 0 \in 0 .. MaxFaults
      BY CertFacts
    <3>3. t_at \in [T!Processes -> Ats] /\ t_at["tool"] \notin {"checking", "loading"}
      BY DEF T!Init, T!Processes, Ats
    <3> QED BY <3>1, <3>2, <3>3, CertFacts DEF T!Init, CertTypes
  <2>2. PairInv
    BY DEF T!Init, PairInv, T!Processes, Kept, T!Valid, T!Absent
  <2> QED BY <2>1, <2>2 DEF CertInv, T!Init
<1>2. CertInv /\ [T!Next]_T!tlsVars => CertInv'
  <2> SUFFICES ASSUME CertInv, [T!Next]_T!tlsVars PROVE CertInv'
    OBVIOUS
  <2>1. CertTypes'
    BY CertTypesKept DEF CertInv
  <2>2. ~trouble' => ~trouble /\ tls' = tls
    BY DEF CertInv, T!Next, T!tlsVars, T!Start, T!GetOrCreateCertificate, T!CreateSslContext,
           T!ServerEnds, T!Generate, T!ToolKilled, T!KeyRemoved, T!Tick, T!GenerateKey, T!OpenKey,
           T!WriteKey, T!OpenCert, T!WriteCert, T!GenerateFails, T!NoFault, T!Fault
  <2> QED BY <2>1, <2>2, PairsKept, NeverPlain DEF CertInv
<1> QED BY <1>1, <1>2, PTL DEF T!Spec

(* However often the connector is killed while it writes key and           *)
(* certificate, one with TLS comes up without it only after trouble.       *)
THEOREM CertificatesCorrect ==
  ASSUME T!CertificateAssumption
  PROVE  T!Spec => []T!CertificatesSound
<1>1. CertInv => T!CertificatesSound
  <2>1. CertInv => T!TypeOK
    BY DEF CertInv, CertTypes, Ats, T!TypeOK
  <2>2. CertInv => T!PlainOnlyAfterTrouble
    BY DEF CertInv, PairInv, Kept, T!PlainOnlyAfterTrouble, T!Generating
  <2> QED BY <2>1, <2>2 DEF T!CertificatesSound
<1> QED BY <1>1, CertInvariant, PTL

-----------------------------------------------------------------------------
(* EncryptedConfig                                                         *)

Short == {<<>>} \cup {<<n>> : n \in 1 .. MaxKeys}
Once == [is : {"plain", "reference"}, under : Short]

CryptTypes ==
  /\ password \in BOOLEAN /\ raced \in BOOLEAN
  /\ material \in [is : {"absent", "emptied", "whole"}, key : 0 .. MaxKeys]
  /\ e_at \in [E!Processes -> {"gone", "working", "making", "writing", "saving", "running"}]
  /\ cipher \in [E!Processes -> 0 .. MaxKeys] /\ e_making \in [E!Processes -> 0 .. MaxKeys]
  /\ todo \in [E!Processes -> SUBSET E!Fields]
  /\ runs \in 0 .. MaxRuns /\ keys \in 0 .. MaxKeys /\ e_faults \in 0 .. MaxFaults

(* No value has two keys around it: what is still to be encrypted is       *)
(* plain, and what is still to be decrypted is not.                        *)
OnceInv ==
  /\ config \in [E!Fields -> Once]
  /\ draft \in [is : {"absent", "emptied", "whole"}, fields : [E!Fields -> Once]]
  /\ content \in [E!Processes -> [E!Fields -> Once]]
  /\ \A f \in todo["tool"] : content["tool"][f].under = <<>>
  /\ \A f \in todo["connector"] : content["connector"][f].under # <<>>

(* As long as nothing failed and no two processes made the key at once:    *)
(* there is one key, in the file and in every process that has one; it is  *)
(* made while nothing is encrypted; and the connector forgets no field.    *)
Fits(c) == \A f \in E!Fields :
  c[f].under # <<>> => material.is = "whole" /\ c[f].under = <<material.key>>

OneKeyInv ==
  /\ \A p \in E!Processes :
       /\ cipher[p] # 0 => material = E!Key(cipher[p])
       /\ E!Making(p) => material.is # "whole"
       /\ Fits(content[p])
  /\ ~(E!Making("tool") /\ E!Making("connector"))
  /\ Fits(config) /\ Fits(draft.fields)
  /\ e_at["connector"] # "gone" => \A f \in E!Fields \ todo["connector"] :
                                    content["connector"][f].under = <<>>
  /\ e_at["connector"] = "running" => todo["connector"] = {}

CryptInv == CryptTypes /\ OnceInv /\ (e_faults = 0 /\ ~raced => OneKeyInv)

LEMMA OneAround ==
  ASSUME E!CryptAssumption
  PROVE  /\ MaxRuns \in Nat /\ MaxKeys \in Nat /\ MaxFaults \in Nat
         /\ Short \subseteq Seq(1 .. MaxKeys)
         /\ \A s \in Short : Len(s) <= 1
         /\ \A n \in 1 .. MaxKeys :
              /\ Append(<<>>, n) = <<n>> /\ <<n>> \in Short
              /\ E!Last(<<n>>) = n /\ E!Front(<<n>>) = <<>> /\ <<n>> # <<>>
<1>1. MaxRuns \in Nat /\ MaxKeys \in Nat /\ MaxFaults \in Nat
  BY DEF E!CryptAssumption
<1>2. \A s \in Short : s \in Seq(1 .. MaxKeys) /\ Len(s) <= 1
  <2>1. SUFFICES ASSUME NEW s \in Short PROVE s \in Seq(1 .. MaxKeys) /\ Len(s) <= 1
    OBVIOUS
  <2>2. CASE s = <<>>
    BY <2>2
  <2>3. CASE \E n \in 1 .. MaxKeys : s = <<n>>
    BY <2>3
  <2> QED BY <2>2, <2>3 DEF Short
<1>3. ASSUME NEW n \in 1 .. MaxKeys
      PROVE  /\ Append(<<>>, n) = <<n>> /\ <<n>> \in Short
             /\ E!Last(<<n>>) = n /\ E!Front(<<n>>) = <<>> /\ <<n>> # <<>>
  BY DEF Short, E!Last, E!Front
<1> QED BY <1>1, <1>2, <1>3

LEMMA TwoProcesses ==
  /\ E!Processes = {"connector", "tool"}
  /\ E!Other("tool") = "connector" /\ E!Other("connector") = "tool"
<1>1. E!Other("tool") \in E!Processes /\ E!Other("tool") # "tool"
  BY "connector" \in E!Processes DEF E!Other, E!Processes
<1>2. E!Other("connector") \in E!Processes /\ E!Other("connector") # "connector"
  BY "tool" \in E!Processes DEF E!Other, E!Processes
<1> QED BY <1>1, <1>2 DEF E!Processes

LEMMA CryptTypesKept ==
  ASSUME E!CryptAssumption, CryptTypes, [E!Next]_E!cryptVars
  PROVE  CryptTypes'
<1> USE OneAround DEF CryptTypes
<1>1. CASE \E p \in E!Processes : E!Begin(p)
  <2>1. PICK p \in E!Processes : E!Begin(p)
    BY <1>1
  <2>2. E!ToEncrypt(config) \subseteq E!Fields /\ E!ToDecrypt(config) \subseteq E!Fields
    BY DEF E!ToEncrypt, E!ToDecrypt, E!Fields
  <2>3. todo' \in [E!Processes -> SUBSET E!Fields]
    BY <2>1, <2>2 DEF E!Begin
  <2>4. runs' \in 0 .. MaxRuns
    BY <2>1 DEF E!Begin
  <2> QED BY <2>1, <2>3, <2>4 DEF E!Begin, E!Goes
<1>2. CASE \E p \in E!Processes : E!ReadKey(p)
  BY <1>2 DEF E!ReadKey
<1>3. CASE \E p \in E!Processes : E!Missing(p) \/ E!Unreadable(p)
  <2>1. PICK p \in E!Processes : E!Missing(p) \/ E!Unreadable(p)
    BY <1>3
  <2>2. E!Make(p)
    BY <2>1 DEF E!Missing, E!Unreadable
  <2>3. keys' \in 0 .. MaxKeys /\ e_making' \in [E!Processes -> 0 .. MaxKeys]
    BY <2>2 DEF E!Make
  <2>4. e_faults' \in 0 .. MaxFaults
    BY <2>1 DEF E!Missing, E!Unreadable, E!Fault
  <2>5. raced' \in BOOLEAN
    BY <2>2 DEF E!Make, E!Making
  <2> QED BY <2>2, <2>3, <2>4, <2>5 DEF E!Make, E!Goes
<1>4. CASE \E p \in E!Processes : E!OpenKeyFile(p)
  BY <1>4 DEF E!OpenKeyFile, E!Goes, E!Emptied
<1>5. CASE \E p \in E!Processes : E!WriteKeyFile(p)
  BY <1>5 DEF E!WriteKeyFile, E!Goes, E!Key
<1>6. CASE \E p \in E!Processes : E!Killed(p)
  BY <1>6 DEF E!Killed, E!Gone, E!Goes
<1>7. CASE \E p \in E!Processes, f \in E!Fields : E!Crypt(p, f) \/ E!ReadEmptied(p, f)
  BY <1>7 DEF E!Crypt, E!ReadEmptied, E!Keeps
<1>8. CASE \E p \in E!Processes, f \in E!Fields : E!SaveFails(p, f)
  <2>1. PICK p \in E!Processes, f \in E!Fields : E!SaveFails(p, f)
    BY <1>8
  <2>2. e_faults' \in 0 .. MaxFaults
    BY <2>1 DEF E!SaveFails, E!Fault
  <2>3. e_at' = [e_at EXCEPT ![p] = "working"]
    BY <2>1 DEF E!SaveFails, E!Goes
  <2>4. cipher' \in [E!Processes -> 0 .. MaxKeys] /\ todo' \in [E!Processes -> SUBSET E!Fields]
    BY <2>1 DEF E!SaveFails, E!Keeps
  <2> QED BY <2>1, <2>2, <2>3, <2>4 DEF E!SaveFails
<1>9. CASE E!OpenDraft \/ E!SaveDraft \/ E!Loaded \/ E!Replace
  BY <1>9 DEF E!OpenDraft, E!SaveDraft, E!Loaded, E!Replace, E!Gone, E!Goes, E!Processes
<1>10. CASE UNCHANGED E!cryptVars
  BY <1>10 DEF E!cryptVars
<1> QED BY <1>1, <1>2, <1>3, <1>4, <1>5, <1>6, <1>7, <1>8, <1>9, <1>10 DEF E!Next

(* The next field: a plain one is wrapped, an encrypted one is unwrapped   *)
(* or left as it is.                                                       *)
LEMMA NextField ==
  ASSUME E!CryptAssumption, CryptTypes, OnceInv,
         NEW p \in E!Processes, NEW f \in E!Fields, E!Crypt(p, f)
  PROVE  /\ E!Applied(p, content[p][f]) \in Once
         /\ p = "tool" => E!Applied(p, content[p][f]).under = <<cipher[p]>>
         /\ p = "connector" /\ content[p][f].under = <<cipher[p]>> =>
              E!Applied(p, content[p][f]).under = <<>>
         /\ cipher[p] \in 1 .. MaxKeys
<1>1. cipher[p] \in 1 .. MaxKeys
  BY OneAround DEF CryptTypes, E!Crypt
<1>2. content[p][f] \in Once
  BY DEF OnceInv
<1>3. CASE p = "tool"
  <2>1. content[p][f].under = <<>>
    BY <1>3 DEF OnceInv, E!Crypt
  <2>2. E!Applied(p, content[p][f]) = [content[p][f] EXCEPT !.under = <<cipher[p]>>]
    BY <1>1, <1>2, <1>3, <2>1, OneAround DEF E!Applied, Once
  <2>3. <<cipher[p]>> \in Short
    BY <1>1, OneAround
  <2> QED BY <1>1, <1>2, <1>3, <2>2, <2>3 DEF Once
<1>4. CASE p = "connector"
  <2>1. content[p][f].under # <<>>
    BY <1>4 DEF OnceInv, E!Crypt
  <2>2. PICK n \in 1 .. MaxKeys : content[p][f].under = <<n>>
    BY <1>2, <2>1 DEF Once, Short
  <2>3. E!Last(content[p][f].under) = n /\ E!Front(content[p][f].under) = <<>>
    BY <2>2, OneAround
  <2>4. /\ n = cipher[p] => E!Applied(p, content[p][f]) = [content[p][f] EXCEPT !.under = <<>>]
        /\ n # cipher[p] => E!Applied(p, content[p][f]) = content[p][f]
    BY <1>2, <1>4, <2>3 DEF E!Applied, Once
  <2>5. content[p][f].under = <<cipher[p]>> => n = cipher[p]
    BY <2>2
  <2>6. <<>> \in Short
    BY DEF Short
  <2> QED BY <1>1, <1>2, <1>4, <2>4, <2>5, <2>6 DEF Once
<1> QED BY <1>3, <1>4 DEF E!Processes

LEMMA OnceKept ==
  ASSUME E!CryptAssumption, CryptTypes, OnceInv, [E!Next]_E!cryptVars
  PROVE  OnceInv'
<1>1. CASE \E p \in E!Processes : E!Begin(p)
  <2>1. PICK p \in E!Processes : E!Begin(p)
    BY <1>1
  <2>2. /\ \A f \in E!ToEncrypt(config) : config[f].under = <<>>
        /\ \A f \in E!ToDecrypt(config) : config[f].under # <<>>
    BY DEF E!ToEncrypt, E!ToDecrypt, E!IsEncrypted
  <2>3. /\ content' = [content EXCEPT ![p] = config] /\ config' = config /\ draft' = draft
        /\ p = "tool" => todo' = [todo EXCEPT !["tool"] = E!ToEncrypt(config)]
        /\ p = "connector" => todo' = [todo EXCEPT !["connector"] = E!ToDecrypt(config)]
    BY <2>1 DEF E!Begin, E!files
  <2> QED BY <2>2, <2>3 DEF OnceInv, CryptTypes, E!Processes
<1>2. CASE \E p \in E!Processes, f \in E!Fields : E!Crypt(p, f)
  <2>1. PICK p \in E!Processes, f \in E!Fields : E!Crypt(p, f)
    BY <1>2
  <2>2. PICK v \in Once : v = E!Applied(p, content[p][f])
    BY <2>1, NextField
  <2>3. /\ content' = [content EXCEPT ![p][f] = v]
        /\ todo' = [todo EXCEPT ![p] = @ \ {f}]
        /\ config' = config /\ draft' = draft
    BY <2>1, <2>2 DEF E!Crypt, E!files
  <2> QED BY <2>3 DEF OnceInv, CryptTypes, E!Processes
<1>3. CASE \E p \in E!Processes, f \in E!Fields : E!ReadEmptied(p, f) \/ E!SaveFails(p, f)
  <2>1. PICK p \in E!Processes, f \in E!Fields : E!ReadEmptied(p, f) \/ E!SaveFails(p, f)
    BY <1>3
  <2>2. /\ content' = content /\ config' = config /\ draft' = draft
        /\ \A q \in E!Processes : todo'[q] \subseteq todo[q]
    BY <2>1 DEF E!ReadEmptied, E!SaveFails, E!Keeps, E!files, CryptTypes
  <2> QED BY <2>2 DEF OnceInv, E!Processes
<1>4. CASE \E p \in E!Processes :
             \/ E!ReadKey(p) \/ E!Missing(p) \/ E!Unreadable(p) \/ E!OpenKeyFile(p)
             \/ E!WriteKeyFile(p)
  BY <1>4 DEF OnceInv, E!ReadKey, E!Missing, E!Unreadable, E!Make, E!OpenKeyFile, E!WriteKeyFile,
              E!files
<1>5. CASE \E p \in E!Processes : E!Killed(p)
  BY <1>5 DEF OnceInv, E!Killed, E!Gone, E!files, E!Processes, CryptTypes
<1>6. CASE E!OpenDraft
  BY <1>6 DEF OnceInv, E!OpenDraft
<1>7. CASE E!SaveDraft
  BY <1>7 DEF OnceInv, E!SaveDraft, E!Gone, E!Processes, CryptTypes
<1>8. CASE E!Loaded
  BY <1>8 DEF OnceInv, E!Loaded, E!files
<1>9. CASE E!Replace
  BY <1>9 DEF OnceInv, E!Replace
<1>10. CASE UNCHANGED E!cryptVars
  BY <1>10 DEF OnceInv, E!cryptVars
<1> QED BY <1>1, <1>2, <1>3, <1>4, <1>5, <1>6, <1>7, <1>8, <1>9, <1>10 DEF E!Next

(* Where nothing is encrypted yet, no key is in use either. *)
LEMMA NoKeyYet ==
  ASSUME CryptTypes, OneKeyInv, material.is # "whole"
  PROVE  /\ \A p \in E!Processes : cipher[p] = 0
         /\ \A f \in E!Fields : /\ config[f].under = <<>> /\ draft.fields[f].under = <<>>
                                /\ \A p \in E!Processes : content[p][f].under = <<>>
BY DEF CryptTypes, OneKeyInv, Fits, E!Key

LEMMA OneKeyKept ==
  ASSUME E!CryptAssumption, CryptTypes, OnceInv, [E!Next]_E!cryptVars,
         e_faults' = 0, ~raced', e_faults = 0 /\ ~raced => OneKeyInv
  PROVE  OneKeyInv'
<1>1. ~E!Fault
  BY DEF E!Fault, CryptTypes
<1>2. OneKeyInv
  <2>1. CASE \E p \in E!Processes, f \in E!Fields :
               E!Crypt(p, f) \/ E!ReadEmptied(p, f) \/ E!SaveFails(p, f)
    BY <1>1, <2>1 DEF E!Crypt, E!ReadEmptied, E!SaveFails
  <2>2. CASE \E p \in E!Processes : E!Missing(p) \/ E!Unreadable(p)
    BY <1>1, <2>2 DEF E!Missing, E!Unreadable, E!Make
  <2>3. CASE \E p \in E!Processes :
               E!Begin(p) \/ E!ReadKey(p) \/ E!OpenKeyFile(p) \/ E!WriteKeyFile(p) \/ E!Killed(p)
    BY <2>3 DEF E!Begin, E!ReadKey, E!OpenKeyFile, E!WriteKeyFile, E!Killed
  <2>4. CASE \/ E!OpenDraft \/ E!SaveDraft \/ E!Loaded \/ E!Replace
             \/ UNCHANGED E!cryptVars
    BY <2>4 DEF E!OpenDraft, E!SaveDraft, E!Loaded, E!Replace, E!cryptVars
  <2> QED BY <2>1, <2>2, <2>3, <2>4 DEF E!Next
<1>3. CASE \E p \in E!Processes : E!Begin(p)
  <2>1. PICK p \in E!Processes : E!Begin(p)
    BY <1>3
  <2>2. /\ e_at' = [e_at EXCEPT ![p] = "working"] /\ content' = [content EXCEPT ![p] = config]
        /\ p = "connector" => todo' = [todo EXCEPT !["connector"] = E!ToDecrypt(config)]
        /\ p = "tool" => todo'["connector"] = todo["connector"]
        /\ config' = config /\ draft' = draft /\ material' = material /\ cipher' = cipher
    BY <2>1 DEF E!Begin, E!Goes, E!files, CryptTypes, E!Processes
  <2>3. \A f \in E!Fields \ E!ToDecrypt(config) : config[f].under = <<>>
    BY DEF E!ToDecrypt, E!IsEncrypted
  <2> QED BY <1>2, <2>2, <2>3 DEF OneKeyInv, Fits, OnceInv, CryptTypes, E!Making, E!Processes
<1>4. CASE \E p \in E!Processes : E!ReadKey(p)
  <2>1. PICK p \in E!Processes : E!ReadKey(p)
    BY <1>4
  <2>2. material = E!Key(material.key)
    BY <2>1 DEF E!ReadKey, CryptTypes, E!Key
  <2> QED BY <1>2, <2>1, <2>2 DEF E!ReadKey, OneKeyInv, Fits, CryptTypes, E!Making, E!files
<1>5. CASE \E p \in E!Processes : E!Missing(p)
  <2>1. PICK p \in E!Processes : E!Missing(p)
    BY <1>5
  <2>2. /\ e_at' = [e_at EXCEPT ![p] = "making"] /\ ~E!Making(E!Other(p))
        /\ material.is # "whole"
        /\ UNCHANGED <<material, cipher, content, todo, config, draft>>
    BY <2>1 DEF E!Missing, E!Make, E!Goes, E!files
  <2>3. e_at[p] = "working"
    BY <2>1 DEF E!Missing, E!Make
  <2> QED BY <1>2, <2>2, <2>3, TwoProcesses DEF OneKeyInv, Fits, CryptTypes, E!Making
<1>6. CASE \E p \in E!Processes : E!OpenKeyFile(p)
  <2>1. PICK p \in E!Processes : E!OpenKeyFile(p)
    BY <1>6
  <2>2. /\ e_at[p] = "making" /\ e_at' = [e_at EXCEPT ![p] = "writing"] /\ material'.is # "whole"
        /\ UNCHANGED <<cipher, content, todo, config, draft>>
    BY <2>1 DEF E!OpenKeyFile, E!Goes, E!files, E!Emptied
  <2>3. material.is # "whole"
    BY <1>2, <2>2 DEF OneKeyInv, E!Making
  <2> QED BY <1>2, <2>2, <2>3, NoKeyYet DEF OneKeyInv, Fits, CryptTypes, E!Making, E!Processes
<1>7. CASE \E p \in E!Processes : E!WriteKeyFile(p)
  <2>1. PICK p \in E!Processes : E!WriteKeyFile(p)
    BY <1>7
  <2>2. /\ e_at[p] = "writing" /\ e_at' = [e_at EXCEPT ![p] = "working"]
        /\ material' = E!Key(e_making[p]) /\ cipher' = [cipher EXCEPT ![p] = e_making[p]]
        /\ UNCHANGED <<content, todo, config, draft>>
    BY <2>1 DEF E!WriteKeyFile, E!Goes, E!files
  <2>3. material.is # "whole" /\ \A q \in E!Processes \ {p} : ~E!Making(q)
    BY <1>2, <2>2 DEF OneKeyInv, E!Making, E!Processes
  <2> QED BY <1>2, <2>2, <2>3, NoKeyYet DEF OneKeyInv, Fits, CryptTypes, E!Making, E!Processes
<1>8. CASE \E p \in E!Processes, f \in E!Fields : E!Crypt(p, f)
  <2>1. PICK p \in E!Processes, f \in E!Fields : E!Crypt(p, f)
    BY <1>8
  <2>2. PICK v \in Once : v = E!Applied(p, content[p][f])
    BY <2>1, NextField
  <2>3. /\ content' = [content EXCEPT ![p][f] = v]
        /\ todo' = [todo EXCEPT ![p] = @ \ {f}]
        /\ UNCHANGED <<config, draft, material, cipher, e_at>>
        /\ e_at[p] = "working" /\ f \in todo[p] /\ cipher[p] # 0
    BY <2>1, <2>2 DEF E!Crypt, E!files
  <2>4. material.is = "whole" /\ material.key = cipher[p]
    BY <1>2, <2>3 DEF OneKeyInv, E!Key
  <2>5. p = "tool" => v.under = <<material.key>>
    BY <2>1, <2>2, <2>4, NextField
  <2>6. p = "connector" => v.under = <<>>
    BY <1>2, <2>1, <2>2, <2>3, <2>4, NextField DEF OneKeyInv, Fits, OnceInv
  <2>7. /\ \A q \in E!Processes, g \in E!Fields :
             content'[q][g] = IF q = p /\ g = f THEN v ELSE content[q][g]
        /\ \A q \in E!Processes : todo'[q] = IF q = p THEN todo[q] \ {f} ELSE todo[q]
    BY <2>3 DEF OnceInv, CryptTypes
  <2>8. \A q \in E!Processes : Fits(content[q])'
    BY <1>2, <2>3, <2>4, <2>5, <2>6, <2>7 DEF OneKeyInv, Fits, E!Processes
  <2>9. e_at'["connector"] # "gone" => \A g \in E!Fields \ todo'["connector"] :
                                      content'["connector"][g].under = <<>>
    BY <1>2, <2>3, <2>6, <2>7 DEF OneKeyInv, E!Processes
  <2>10. e_at'["connector"] = "running" => todo'["connector"] = {}
    BY <1>2, <2>3, <2>7 DEF OneKeyInv, E!Processes
  <2> QED BY <1>2, <2>3, <2>8, <2>9, <2>10 DEF OneKeyInv, Fits, E!Making
<1>9. CASE \E p \in E!Processes, f \in E!Fields : E!ReadEmptied(p, f)
  <2>1. PICK p \in E!Processes, f \in E!Fields : E!ReadEmptied(p, f)
    BY <1>9
  <2>2. /\ material.is # "whole" /\ f \in todo[p] /\ todo' = [todo EXCEPT ![p] = @ \ {f}]
        /\ e_at[p] = "working"
        /\ UNCHANGED <<material, cipher, e_at, content, config, draft>>
    BY <2>1 DEF E!ReadEmptied, E!Keeps, E!files
  <2>3. p # "connector"
    BY <1>2, <2>1, <2>2, NoKeyYet DEF OnceInv
  <2>4. todo'["connector"] = todo["connector"]
    BY <2>2, <2>3 DEF CryptTypes, E!Processes
  <2> QED BY <1>2, <2>2, <2>4 DEF OneKeyInv, Fits, E!Making
<1>10. CASE \E p \in E!Processes : E!Unreadable(p) \/ \E f \in E!Fields : E!SaveFails(p, f)
  BY <1>1, <1>10 DEF E!Unreadable, E!SaveFails
<1>11. CASE E!OpenDraft
  BY <1>2, <1>11 DEF E!OpenDraft, E!Goes, OneKeyInv, Fits, OnceInv, CryptTypes, E!Making, E!Processes
<1>12. CASE E!SaveDraft
  BY <1>2, <1>12 DEF E!SaveDraft, E!Gone, E!Goes, OneKeyInv, Fits, CryptTypes, E!Making, E!Processes
<1>13. CASE E!Loaded
  BY <1>2, <1>13 DEF E!Loaded, E!Goes, E!files, OneKeyInv, Fits, CryptTypes, E!Making, E!Processes
<1>14. CASE \E p \in E!Processes : E!Killed(p)
  <2>1. PICK p \in E!Processes : E!Killed(p)
    BY <1>14
  <2>2. /\ e_at' = [e_at EXCEPT ![p] = "gone"] /\ cipher' = [cipher EXCEPT ![p] = 0]
        /\ todo' = [todo EXCEPT ![p] = {}]
        /\ UNCHANGED <<material, content, config, draft>>
    BY <2>1 DEF E!Killed, E!Gone, E!Goes, E!files
  <2> QED BY <1>2, <2>2 DEF OneKeyInv, Fits, CryptTypes, E!Making, E!Processes
<1>15. CASE E!Replace
  BY <1>2, <1>15 DEF E!Replace, OneKeyInv, Fits, OnceInv, E!Making
<1>16. CASE UNCHANGED E!cryptVars
  BY <1>2, <1>16 DEF E!cryptVars, OneKeyInv, Fits, E!Making
<1> QED
  BY <1>3, <1>4, <1>5, <1>6, <1>7, <1>8, <1>9, <1>10, <1>11, <1>12, <1>13, <1>14, <1>15, <1>16
  DEF E!Next

(* There is one key once the file is whole, and what is encrypted was      *)
(* encrypted with it, once (core/encryption.py,                            *)
(* core/config_encryption.py).                                             *)
THEOREM CryptInvariant ==
  ASSUME E!CryptAssumption
  PROVE  E!Spec => []CryptInv
<1>1. E!Init => CryptInv
  <2> SUFFICES ASSUME E!Init PROVE CryptInv
    OBVIOUS
  <2>1. CryptTypes
    <3>1. 0 \in 0 .. MaxKeys /\ 0 \in 0 .. MaxRuns /\ 0 \in 0 .. MaxFaults
      BY OneAround
    <3> QED BY <3>1 DEF E!Init, CryptTypes, E!Absent
  <2>2. config \in [E!Fields -> Once] /\ \A f \in E!Fields : config[f].under = <<>>
    BY DEF E!Init, Once, Short
  <2>3. OnceInv
    BY <2>2 DEF E!Init, OnceInv, E!Processes
  <2>4. OneKeyInv
    BY <2>2 DEF E!Init, OneKeyInv, Fits, E!Making, E!Processes
  <2> QED BY <2>1, <2>3, <2>4 DEF CryptInv
<1>2. CryptInv /\ [E!Next]_E!cryptVars => CryptInv'
  BY CryptTypesKept, OnceKept, OneKeyKept DEF CryptInv
<1> QED BY <1>1, <1>2, PTL DEF E!Spec

(* No secret is ever encrypted twice; and as long as the key file could be *)
(* read and written and no two processes made it at once, everything that  *)
(* is encrypted can be decrypted with the key in the file, wherever the    *)
(* tool and the connector were killed.                                     *)
THEOREM EncryptionCorrect ==
  ASSUME E!CryptAssumption
  PROVE  E!Spec => []E!EncryptionSound
<1>1. CryptInv => E!EncryptionSound
  <2> SUFFICES ASSUME CryptInv PROVE E!EncryptionSound
    OBVIOUS
  <2>1. [E!Fields -> Once] \subseteq E!Contents
    BY OneAround DEF E!Contents, E!Value, Once
  <2>2. E!TypeOK
    BY <2>1 DEF CryptInv, CryptTypes, OnceInv, E!TypeOK
  <2>3. \A f \in E!Fields : Len(config[f].under) <= 1
    BY OneAround DEF CryptInv, OnceInv, Once
  <2>4. e_faults = 0 /\ ~raced =>
          /\ E!Readable(config) /\ E!Readable(draft.fields)
          /\ e_at["connector"] = "running" =>
               \A f \in E!Fields : content["connector"][f].under = <<>>
    BY DEF CryptInv, OneKeyInv, Fits, E!Readable
  <2> QED BY <2>2, <2>3, <2>4 DEF E!EncryptionSound, E!SecretsStayReadable
<1> QED BY <1>1, CryptInvariant, PTL
-----------------------------------------------------------------------------
(* Services                                                                *)

(* Each step is one of a component and leaves the others alone. *)
LEMMA OnePart ==
  ServicesNext =>
    \/ Incidents(I!Next) \/ Vulnerabilities(V!Next) \/ Anomalies(A!Next)
    \/ Credentials(K!Next) \/ Config(F!Next) \/ Logs(G!Next)
    \/ Certificates(T!Next) \/ Encryption(E!Next)
<1> SUFFICES ASSUME ServicesNext
             PROVE  \/ Incidents(I!Next) \/ Vulnerabilities(V!Next) \/ Anomalies(A!Next)
                    \/ Credentials(K!Next) \/ Config(F!Next) \/ Logs(G!Next)
                    \/ Certificates(T!Next) \/ Encryption(E!Next)
  OBVIOUS
<1>0. part \in {"incidents", "vulnerabilities", "anomalies", "credentials", "config",
                "logs", "certificates", "encryption"}
  BY DEF ServicesNext, Incidents, Vulnerabilities, Anomalies, Credentials, Config, Logs,
         Certificates, Encryption
<1>1. CASE part = "incidents"
  <2>1. Incidents(I!Next)
    BY <1>1 DEF ServicesNext, I!Next, Incidents, Vulnerabilities, Anomalies,
                Credentials, Config, Logs, Certificates, Encryption
  <2> QED BY <2>1
<1>2. CASE part = "vulnerabilities"
  <2>1. Vulnerabilities(V!Next)
    BY <1>2 DEF ServicesNext, V!Next, Incidents, Vulnerabilities, Anomalies,
                Credentials, Config, Logs, Certificates, Encryption
  <2> QED BY <2>1
<1>3. CASE part = "anomalies"
  <2>1. Anomalies(A!Next)
    BY <1>3 DEF ServicesNext, A!Next, Incidents, Vulnerabilities, Anomalies,
                Credentials, Config, Logs, Certificates, Encryption
  <2> QED BY <2>1
<1>4. CASE part = "credentials"
  <2>1. Credentials(K!Next)
    BY <1>4 DEF ServicesNext, K!Next, Incidents, Vulnerabilities, Anomalies,
                Credentials, Config, Logs, Certificates, Encryption
  <2> QED BY <2>1
<1>5. CASE part = "config"
  <2>1. Config(F!Next)
    BY <1>5 DEF ServicesNext, F!Next, Incidents, Vulnerabilities, Anomalies,
                Credentials, Config, Logs, Certificates, Encryption
  <2> QED BY <2>1
<1>6. CASE part = "logs"
  <2>1. Logs(G!Next)
    BY <1>6 DEF ServicesNext, G!Next, Incidents, Vulnerabilities, Anomalies,
                Credentials, Config, Logs, Certificates, Encryption
  <2> QED BY <2>1
<1>7. CASE part = "certificates"
  <2>1. Certificates(T!Next)
    BY <1>7 DEF ServicesNext, T!Next, Incidents, Vulnerabilities, Anomalies,
                Credentials, Config, Logs, Certificates, Encryption
  <2> QED BY <2>1
<1>8. CASE part = "encryption"
  <2>1. Encryption(E!Next)
    BY <1>8 DEF ServicesNext, E!Next, Incidents, Vulnerabilities, Anomalies,
                Credentials, Config, Logs, Certificates, Encryption
  <2> QED BY <2>1
<1> QED BY <1>0, <1>1, <1>2, <1>3, <1>4, <1>5, <1>6, <1>7, <1>8

LEMMA IncidentPart == ServicesSpec => I!Spec
<1>1. ServicesInit => I!Init
  BY DEF ServicesInit
<1>2. [ServicesNext]_services => [I!Next]_I!vars
  <2>1. UNCHANGED incidentVars => UNCHANGED I!vars
    BY DEF incidentVars, I!vars
  <2>2. UNCHANGED services => UNCHANGED incidentVars
    BY DEF services
  <2>3. ServicesNext => I!Next \/ UNCHANGED incidentVars
    BY OnePart DEF Incidents, Vulnerabilities, Anomalies, Credentials, Config,
                   Logs, Certificates, Encryption
  <2> QED BY <2>1, <2>2, <2>3
<1> QED BY <1>1, <1>2, PTL DEF ServicesSpec, I!Spec

LEMMA VulnerabilityPart == ServicesSpec => V!Spec
<1>1. ServicesInit => V!Init
  BY DEF ServicesInit
<1>2. [ServicesNext]_services => [V!Next]_V!vars
  <2>1. UNCHANGED vulnerabilityVars => UNCHANGED V!vars
    BY DEF vulnerabilityVars, V!vars
  <2>2. UNCHANGED services => UNCHANGED vulnerabilityVars
    BY DEF services
  <2>3. ServicesNext => V!Next \/ UNCHANGED vulnerabilityVars
    BY OnePart DEF Incidents, Vulnerabilities, Anomalies, Credentials, Config,
                   Logs, Certificates, Encryption
  <2> QED BY <2>1, <2>2, <2>3
<1> QED BY <1>1, <1>2, PTL DEF ServicesSpec, V!Spec

LEMMA AnomalyPart == ServicesSpec => A!Spec
<1>1. ServicesInit => A!Init
  BY DEF ServicesInit
<1>2. [ServicesNext]_services => [A!Next]_A!vars
  <2>1. UNCHANGED anomalyVars => UNCHANGED A!vars
    BY DEF anomalyVars, A!vars
  <2>2. UNCHANGED services => UNCHANGED anomalyVars
    BY DEF services
  <2>3. ServicesNext => A!Next \/ UNCHANGED anomalyVars
    BY OnePart DEF Incidents, Vulnerabilities, Anomalies, Credentials, Config,
                   Logs, Certificates, Encryption
  <2> QED BY <2>1, <2>2, <2>3
<1> QED BY <1>1, <1>2, PTL DEF ServicesSpec, A!Spec

LEMMA CredentialPart == ServicesSpec => K!Spec
<1>1. ServicesInit => K!Init
  BY DEF ServicesInit
<1>2. [ServicesNext]_services => [K!Next]_K!vars
  <2>1. UNCHANGED credentialVars => UNCHANGED K!vars
    BY DEF credentialVars, K!vars
  <2>2. UNCHANGED services => UNCHANGED credentialVars
    BY DEF services
  <2>3. ServicesNext => K!Next \/ UNCHANGED credentialVars
    BY OnePart DEF Incidents, Vulnerabilities, Anomalies, Credentials, Config,
                   Logs, Certificates, Encryption
  <2> QED BY <2>1, <2>2, <2>3
<1> QED BY <1>1, <1>2, PTL DEF ServicesSpec, K!Spec

LEMMA ConfigPart == ServicesSpec => F!Spec
<1>1. ServicesInit => F!Init
  BY DEF ServicesInit
<1>2. [ServicesNext]_services => [F!Next]_F!vars
  <2>1. UNCHANGED configVars => UNCHANGED F!vars
    BY DEF configVars, F!vars, F!life, F!disk, F!copies
  <2>2. UNCHANGED services => UNCHANGED configVars
    BY DEF services
  <2>3. ServicesNext => F!Next \/ UNCHANGED configVars
    BY OnePart DEF Incidents, Vulnerabilities, Anomalies, Credentials, Config,
                   Logs, Certificates, Encryption
  <2> QED BY <2>1, <2>2, <2>3
<1> QED BY <1>1, <1>2, PTL DEF ServicesSpec, F!Spec

LEMMA LogPart == ServicesSpec => G!Spec
<1>1. ServicesInit => G!Init
  BY DEF ServicesInit
<1>2. [ServicesNext]_services => [G!Next]_G!logVars
  <2>1. UNCHANGED logVars => UNCHANGED G!logVars
    BY DEF logVars, G!logVars
  <2>2. UNCHANGED services => UNCHANGED logVars
    BY DEF services
  <2>3. ServicesNext => G!Next \/ UNCHANGED logVars
    BY OnePart DEF Incidents, Vulnerabilities, Anomalies, Credentials, Config,
                   Logs, Certificates, Encryption
  <2> QED BY <2>1, <2>2, <2>3
<1> QED BY <1>1, <1>2, PTL DEF ServicesSpec, G!Spec

LEMMA CertificatePart == ServicesSpec => T!Spec
<1>1. ServicesInit => T!Init
  BY DEF ServicesInit
<1>2. [ServicesNext]_services => [T!Next]_T!tlsVars
  <2>1. UNCHANGED certificateVars => UNCHANGED T!tlsVars
    BY DEF certificateVars, T!tlsVars
  <2>2. UNCHANGED services => UNCHANGED certificateVars
    BY DEF services
  <2>3. ServicesNext => T!Next \/ UNCHANGED certificateVars
    BY OnePart DEF Incidents, Vulnerabilities, Anomalies, Credentials, Config,
                   Logs, Certificates, Encryption
  <2> QED BY <2>1, <2>2, <2>3
<1> QED BY <1>1, <1>2, PTL DEF ServicesSpec, T!Spec

LEMMA EncryptionPart == ServicesSpec => E!Spec
<1>1. ServicesInit => E!Init
  BY DEF ServicesInit
<1>2. [ServicesNext]_services => [E!Next]_E!cryptVars
  <2>1. UNCHANGED encryptionVars => UNCHANGED E!cryptVars
    BY DEF encryptionVars, E!cryptVars
  <2>2. UNCHANGED services => UNCHANGED encryptionVars
    BY DEF services
  <2>3. ServicesNext => E!Next \/ UNCHANGED encryptionVars
    BY OnePart DEF Incidents, Vulnerabilities, Anomalies, Credentials, Config,
                   Logs, Certificates, Encryption
  <2> QED BY <2>1, <2>2, <2>3
<1> QED BY <1>1, <1>2, PTL DEF ServicesSpec, E!Spec

(* What watches the connector is sound: one open incident per matter and   *)
(* no alert lost, triage kept, no false alarm at midnight or on a constant *)
(* metric (core/incident_response.py, core/vulnerability_management.py,    *)
(* core/anomaly_detection.py).                                             *)
THEOREM MonitoringCorrect == ASSUME ServicesAssumption PROVE ServicesSpec => []MonitoringSound
<1>1. I!RulesAssumption /\ V!DetectsAssumption /\ A!CountsAssumption
  BY DEF ServicesAssumption
<1>2. ServicesSpec => []I!IncidentsSound
  BY <1>1, IncidentPart, IncidentsCorrect, PTL
<1>3. ServicesSpec => []V!TrackingSound
  BY <1>1, VulnerabilityPart, TrackingCorrect, PTL
<1>4. ServicesSpec => []A!AnomaliesSound
  BY <1>1, AnomalyPart, AnomaliesCorrect, PTL
<1> QED BY <1>2, <1>3, <1>4, PTL DEF MonitoringSound

(* What the services keep in files is sound: a stored credential survives, *)
(* a restart brings back the sources, logs outlive the rollovers they are  *)
(* promised, plain HTTP takes trouble, secrets stay readable (core/).      *)
THEOREM FilesCorrect == ASSUME ServicesAssumption PROVE ServicesSpec => []FilesSound
<1>1. /\ K!StoreAssumption /\ F!ConfigAssumption /\ G!LogAssumption
      /\ T!CertificateAssumption /\ E!CryptAssumption
  BY DEF ServicesAssumption
<1>2. ServicesSpec => []K!CredentialsSound
  BY <1>1, CredentialPart, CredentialsCorrect, PTL
<1>3. ServicesSpec => []F!ConfigSound
  BY <1>1, ConfigPart, ConfigFileCorrect, PTL
<1>4. ServicesSpec => []G!LogSound
  BY <1>1, LogPart, LogsCorrect, PTL
<1>5. ServicesSpec => []T!CertificatesSound
  BY <1>1, CertificatePart, CertificatesCorrect, PTL
<1>6. ServicesSpec => []E!EncryptionSound
  BY <1>1, EncryptionPart, EncryptionCorrect, PTL
<1> QED BY <1>2, <1>3, <1>4, <1>5, <1>6, PTL DEF FilesSound

(* A burst that reaches a threshold, a vulnerability there all through a   *)
(* scan and the first sample off a constant metric are not overlooked.     *)
THEOREM SignalsHeeded == ASSUME ServicesAssumption PROVE ServicesSpec => SignalsAreHeeded
<1>1. I!RulesAssumption /\ V!DetectsAssumption /\ A!CountsAssumption
  BY DEF ServicesAssumption
<1>2. ServicesSpec => I!BurstIsAnswered
  BY <1>1, IncidentPart, BurstsAnswered, PTL
<1>3. ServicesSpec => V!ScannedIsOpen
  BY <1>1, VulnerabilityPart, ScansOpen, PTL
<1>4. ServicesSpec => A!FirstOutlierIsCritical
  BY <1>1, AnomalyPart, OutliersCritical, PTL
<1> QED BY <1>2, <1>3, <1>4 DEF SignalsAreHeeded

=============================================================================
