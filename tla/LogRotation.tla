----------------------------- MODULE LogRotation -----------------------------
(***************************************************************************)
(* core/advanced_logging.py: the main log file, its numbered backups, the  *)
(* gzip made of each, the archive and its retention.  doRollover goes step *)
(* by step, as the process may be killed between two of them; the daily    *)
(* maintenance runs on the event loop, never during a rollover.  Entries   *)
(* are numbered in the order they are logged.                              *)
(***************************************************************************)
EXTENDS Naturals, FiniteSets

CONSTANTS BackupCount,   \* backup_count
          MaxEntries,    \* entries the model follows
          MaxFaults      \* kills and failed compressions

LogAssumption == BackupCount \in Nat \ {0} /\ MaxEntries \in Nat

VARIABLES
    logged,        \* entries so far
    current,       \* unified_connector.log: its entries
    plain, gz,     \* unified_connector.log.<i> and .<i>.gz, {} if there is none
    torn,          \* the .gz files that are not complete
    archive,       \* archive_dir/unified_connector.log.<i>.gz
    pc,            \* where doRollover is: a number while it shifts backup i
    rollovers,     \* history: how many rollovers have begun since an entry
    failed,        \* history: entries whose compression failed or was cut off
    archived,      \* history: entries that were moved to the archive
    faults

logVars == <<logged, current, plain, gz, torn, archive, pc, rollovers, failed, archived, faults>>

Numbers == 1..BackupCount
Logging == 0                  \* no rollover
Rotating == BackupCount + 1
Compressing == BackupCount + 2

Init ==
    /\ logged = 0 /\ current = {}
    /\ plain = [i \in Numbers |-> {}] /\ gz = [i \in Numbers |-> {}] /\ torn = {}
    /\ archive = [i \in Numbers |-> {}]
    /\ pc = Logging
    /\ rollovers = [e \in 1..MaxEntries |-> 0]
    /\ failed = {} /\ archived = {} /\ faults = 0

Fault == faults < MaxFaults /\ faults' = faults + 1

(* An entry goes into the file that is open.                               *)
Emit ==
    /\ pc = Logging /\ logged < MaxEntries
    /\ logged' = logged + 1 /\ current' = current \cup {logged + 1}
    /\ UNCHANGED <<plain, gz, torn, archive, pc, rollovers, failed, archived, faults>>

(* maxBytes is reached.                                                    *)
DoRollover ==
    /\ pc = Logging /\ current # {}
    /\ pc' = IF BackupCount > 1 THEN BackupCount - 1 ELSE Rotating
    /\ rollovers' = [e \in 1..MaxEntries |-> IF e <= logged /\ rollovers[e] <= BackupCount
                                             THEN rollovers[e] + 1 ELSE rollovers[e]]
    /\ UNCHANGED <<logged, current, plain, gz, torn, archive, failed, archived, faults>>

(* Backup i becomes backup i + 1, in place of what is there: the .gz if    *)
(* there is one, else the plain file.                                      *)
ShiftBackup ==
    /\ pc \in 1..BackupCount - 1
    /\ IF gz[pc] # {}
       THEN /\ gz' = [gz EXCEPT ![pc + 1] = gz[pc], ![pc] = {}]
            /\ torn' = (torn \ {pc, pc + 1}) \cup {i \in {pc + 1} : pc \in torn}
            /\ UNCHANGED plain
       ELSE /\ plain' = IF plain[pc] = {} THEN plain
                        ELSE [plain EXCEPT ![pc + 1] = plain[pc], ![pc] = {}]
            /\ UNCHANGED <<gz, torn>>
    /\ pc' = IF pc = 1 THEN Rotating ELSE pc - 1
    /\ UNCHANGED <<logged, current, archive, rollovers, failed, archived, faults>>

(* The current file becomes backup 1; a backup 1 that stayed is removed.   *)
RotateCurrent ==
    /\ pc = Rotating
    /\ plain' = [plain EXCEPT ![1] = current] /\ current' = {}
    /\ pc' = Compressing
    /\ UNCHANGED <<logged, gz, torn, archive, rollovers, failed, archived, faults>>

CompressFile ==
    /\ pc = Compressing
    /\ gz' = [gz EXCEPT ![1] = plain[1]] /\ torn' = torn \ {1}
    /\ plain' = [plain EXCEPT ![1] = {}]
    /\ pc' = Logging
    /\ UNCHANGED <<logged, current, archive, rollovers, failed, archived, faults>>

(* The copy fails, or the process is killed while it copies: what was      *)
(* written of the .gz stays, and so does the original.                     *)
CompressFails ==
    /\ pc = Compressing /\ Fault
    /\ \/ gz' = [gz EXCEPT ![1] = plain[1]] /\ torn' = torn \cup {1}
       \/ UNCHANGED <<gz, torn>>
    /\ failed' = failed \cup plain[1]
    /\ pc' = Logging
    /\ UNCHANGED <<logged, current, plain, archive, rollovers, archived>>

(* A process killed between the steps; the next one logs on.               *)
Killed ==
    /\ pc \notin {Logging, Compressing} /\ Fault
    /\ pc' = Logging
    /\ UNCHANGED <<logged, current, plain, gz, torn, archive, rollovers, failed, archived>>

-----------------------------------------------------------------------------

(* archive_old_logs: the compressed files of some age, which are those     *)
(* from some number on, move to the archive, each over one of its name.    *)
ArchiveOldLogs ==
    /\ pc = Logging
    /\ \E i \in Numbers :
        /\ \E j \in i..BackupCount : gz[j] # {}
        /\ archive' = [j \in Numbers |-> IF j >= i /\ gz[j] # {} THEN gz[j] ELSE archive[j]]
        /\ gz' = [j \in Numbers |-> IF j >= i THEN {} ELSE gz[j]]
        /\ torn' = {j \in torn : j < i}
        /\ archived' = archived \cup UNION {gz[j] : j \in i..BackupCount}
    /\ UNCHANGED <<logged, current, plain, pc, rollovers, failed, faults>>

Older(i, j) == \A e \in archive[i] : \A f \in archive[j] : e < f

(* enforce_retention_policy: past the retention period, or for want of     *)
(* space, the oldest of the archive go.                                    *)
EnforceRetention ==
    /\ pc = Logging
    /\ \E i \in Numbers :
        /\ archive[i] # {} /\ \A j \in Numbers \ {i} : archive[j] # {} => Older(i, j)
        /\ archive' = [archive EXCEPT ![i] = {}]
    /\ UNCHANGED <<logged, current, plain, gz, torn, pc, rollovers, failed, archived, faults>>

Next ==
    \/ Emit
    \/ DoRollover
    \/ ShiftBackup
    \/ RotateCurrent
    \/ CompressFile
    \/ CompressFails
    \/ Killed
    \/ ArchiveOldLogs
    \/ EnforceRetention

Spec == Init /\ [][Next]_logVars

-----------------------------------------------------------------------------

TypeOK ==
    /\ pc \in 0..BackupCount + 2 /\ torn \subseteq Numbers
    /\ \A i \in Numbers : plain[i] \cup gz[i] \cup archive[i] \subseteq 1..logged

(* Between rollovers the backups are in order: what has a smaller number   *)
(* is newer, be it compressed or not, and wherever a rollover was          *)
(* interrupted; only a file that could not be compressed may be there      *)
(* twice.                                                                  *)
BackupsAreInOrder ==
    LET Of(i) == plain[i] \cup gz[i] IN
    pc = Logging => /\ \A i, j \in Numbers : i < j => \A e \in Of(i), f \in Of(j) :
                          f < e \/ f \in failed
                    /\ \A i \in Numbers : \A e \in Of(i), f \in current : e < f

(* An entry is somewhere until backup_count rollovers have begun,          *)
(* unless its compression failed or it was moved to the archive.           *)
RecentIsKept ==
    \A e \in 1..logged :
        rollovers[e] <= BackupCount /\ e \notin failed \cup archived =>
            e \in current \cup UNION {plain[i] \cup gz[i] : i \in Numbers}

LogSound == TypeOK /\ BackupsAreInOrder /\ RecentIsKept
=============================================================================
