------------------------ MODULE VulnerabilityTracking ------------------------
(***************************************************************************)
(* core/vulnerability_management.py: run_full_scan awaits one scanner      *)
(* after the other and then adds all they found, while people change the   *)
(* status of what is known; each vulnerability is a JSON file that a       *)
(* restart reads back.                                                     *)
(***************************************************************************)
EXTENDS Naturals, Sequences, FiniteSets

CONSTANTS
    Vulns,        \* vuln_id's
    Detects,      \* for each scanner, in the order of run_full_scan, what it can find
    NoVuln,
    MaxScans, MaxUpdates, MaxChanges, MaxCrashes     \* bounds of the model

DetectsAssumption ==
    /\ Detects \in Seq(SUBSET Vulns)
    /\ NoVuln \notin Vulns

VARIABLES
    present,      \* what is really there to be found
    vulns,        \* VulnerabilityManager.vulnerabilities: the statuses
    files,        \* vuln_dir
    saving,       \* the one whose file is open for writing
    scan,         \* the scanner that is running, 0 if none
    found,        \* results of the scanners that ended, and what is left to add
    steady,       \* history: what was there and could be found all through the scan
    decision,     \* history: the last status somebody set
    torn,         \* history: those whose file a crash left unreadable
    scans, updates, changes, crashes

vars == <<present, vulns, files, saving, scan, found, steady, decision, torn,
          scans, updates, changes, crashes>>

Fixed == {"patched", "mitigated"}
Triaged == {"accepted_risk", "false_positive"}
Statuses == {"detected", "patched", "accepted_risk"}    \* one of each kind
Torn == "torn"
Adding == Len(Detects) + 1

Init ==
    /\ present \in SUBSET Vulns
    /\ vulns = <<>> /\ files = <<>> /\ saving = NoVuln
    /\ scan = 0 /\ found = {} /\ steady = {} /\ torn = {}
    /\ decision = [v \in Vulns |-> "none"]
    /\ scans = 0 /\ updates = 0 /\ changes = 0 /\ crashes = 0

Put(function, key, value) ==
    [k \in DOMAIN function \cup {key} |-> IF k = key THEN value ELSE function[k]]

RunFullScan ==
    /\ scan = 0 /\ saving = NoVuln
    /\ scans < MaxScans
    /\ scans' = scans + 1
    /\ scan' = 1 /\ found' = {} /\ steady' = present
    /\ UNCHANGED <<present, vulns, files, saving, decision, torn, updates, changes, crashes>>

ScannerEnds(reported) ==
    /\ saving = NoVuln
    /\ found' = found \cup reported
    /\ scan' = scan + 1
    /\ UNCHANGED <<present, vulns, files, saving, decision, torn, scans, updates, changes, crashes>>

ScannerSucceeds ==
    /\ scan \in DOMAIN Detects
    /\ ScannerEnds(present \cap Detects[scan])
    /\ UNCHANGED steady

(* A tool that is missing or whose output cannot be parsed to the end is   *)
(* logged: what was parsed before is its result.                           *)
ScannerFails ==
    /\ scan \in DOMAIN Detects
    /\ \E part \in SUBSET (present \cap Detects[scan]) : ScannerEnds(part)
    /\ steady' = steady \ Detects[scan]

(* Faulty version: what is found again loses its status.                   *)
StatusFound_Renewed(v) == "detected"

(* A vulnerability that was fixed and is found again is open again; any    *)
(* other status stays.                                                     *)
StatusFound(v) ==
    IF v \in DOMAIN vulns /\ vulns[v] \notin Fixed THEN vulns[v] ELSE "detected"

AddVulnerability(v) ==
    /\ scan = Adding /\ saving = NoVuln
    /\ vulns' = Put(vulns, v, StatusFound(v))
    /\ found' = found \ {v}
    /\ saving' = v
    /\ UNCHANGED <<present, files, scan, steady, decision, torn, scans, updates, changes, crashes>>

ScanEnds ==
    /\ scan = Adding /\ saving = NoVuln /\ found = {}
    /\ scan' = 0
    /\ UNCHANGED <<present, vulns, files, saving, found, steady, decision, torn,
                   scans, updates, changes, crashes>>

(* Adding what a scan found has no await: an update comes before or after. *)
UpdateVulnerability(v, status) ==
    /\ scan # Adding /\ saving = NoVuln
    /\ v \in DOMAIN vulns
    /\ updates < MaxUpdates
    /\ updates' = updates + 1
    /\ vulns' = [vulns EXCEPT ![v] = status]
    /\ decision' = [decision EXCEPT ![v] = status]
    /\ saving' = v
    /\ UNCHANGED <<present, files, scan, found, steady, torn, scans, changes, crashes>>

SaveVulnerability ==
    /\ saving # NoVuln
    /\ files' = Put(files, saving, vulns[saving])
    /\ saving' = NoVuln
    /\ UNCHANGED <<present, vulns, scan, found, steady, decision, torn,
                   scans, updates, changes, crashes>>

Restart ==
    /\ crashes < MaxCrashes
    /\ crashes' = crashes + 1
    /\ files' = IF saving = NoVuln THEN files ELSE Put(files, saving, Torn)
    /\ vulns' = [v \in {f \in DOMAIN files' : files'[f] # Torn} |-> files'[v]]
    /\ torn' = torn \cup ({saving} \ {NoVuln})
    /\ saving' = NoVuln /\ scan' = 0 /\ found' = {} /\ steady' = {}
    /\ UNCHANGED <<present, decision, scans, updates, changes>>

(* Packages are upgraded and installed at any time.                        *)
Change(v) ==
    /\ changes < MaxChanges
    /\ changes' = changes + 1
    /\ present' = IF v \in present THEN present \ {v} ELSE present \cup {v}
    /\ steady' = steady \ {v}
    /\ UNCHANGED <<vulns, files, saving, scan, found, decision, torn, scans, updates, crashes>>

Next ==
    \/ RunFullScan
    \/ ScannerSucceeds
    \/ ScannerFails
    \/ \E v \in found : AddVulnerability(v)
    \/ ScanEnds
    \/ \E v \in Vulns, s \in Statuses : UpdateVulnerability(v, s)
    \/ SaveVulnerability
    \/ Restart
    \/ \E v \in Vulns : Change(v)

Spec == Init /\ [][Next]_vars

-----------------------------------------------------------------------------

TypeOK ==
    /\ present \subseteq Vulns /\ steady \subseteq present
    /\ DOMAIN vulns \subseteq Vulns /\ scan \in 0..Adding
    /\ \A v \in DOMAIN vulns : vulns[v] \in Statuses
    /\ saving \in DOMAIN vulns \cup {NoVuln}

(* A decision to accept a risk or to dismiss a finding stays until         *)
(* somebody changes it: no scan and no restart undoes it, except when the  *)
(* process died while the file was open for writing.                       *)
TriageIsKept ==
    \A v \in Vulns \ torn :
        decision[v] \in Triaged => v \in DOMAIN vulns /\ vulns[v] = decision[v]

(* What was there all through a scan, and in reach of scanners that did    *)
(* not fail, is known after it and does not count as fixed, whatever was   *)
(* decided before or during the scan.                                      *)
ScannedIsOpen ==
    [][ScanEnds => \A v \in steady :
          (\E s \in DOMAIN Detects : v \in Detects[s])
              => v \in DOMAIN vulns /\ vulns[v] \notin Fixed]_vars

TrackingSound == TypeOK /\ TriageIsKept
=============================================================================
