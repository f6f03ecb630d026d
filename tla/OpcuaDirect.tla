----------------------------- MODULE OpcuaDirect -----------------------------
(***************************************************************************)
(* example_clients/opcua_zerobus/opcua_zerobus_client.py: one process      *)
(* polls the tags, collects records in batch_buffer and ingests them; a    *)
(* batch that ZeroBus does not take goes to the backup file, which is      *)
(* ingested, as one batch, once there is a stream again.                   *)
(***************************************************************************)
EXTENDS Naturals, Sequences, SequencesExt

CONSTANTS
    Lines, MaxPolls,     \* records of a poll; polls the model follows
    BatchSize,
    MaxFaults

DirectAssumption == Lines \in Nat /\ MaxPolls \in Nat

VARIABLES
    client,      \* where main is, batch_buffer and zerobus_ok
    backup,      \* BACKUP_PATH
    durable,     \* what ZeroBus has
    polled, lost,
    unread,      \* history: a drain could not read or truncate the backup
    faults

directVars == <<client, backup, durable, polled, lost, unread, faults>>

Fault == faults < MaxFaults /\ faults' = faults + 1

Init ==
    /\ client = [at |-> "polling", buffer |-> <<>>, zerobusOk |-> TRUE]
    /\ backup = <<>> /\ durable = {} /\ polled = 0 /\ lost = {}
    /\ unread = FALSE /\ faults = 0

(* A flush is due when the buffer is full, or the batch is old enough.     *)
(* Later polls bring records, too, that the model does not follow.         *)
PollLines ==
    LET n == IF polled < MaxPolls * Lines THEN Lines ELSE 0
        buffer == client.buffer \o [i \in 1..n |-> polled + i]
    IN  /\ client.at = "polling"
        /\ polled' = polled + n
        /\ \E due \in BOOLEAN :
            /\ Len(buffer) >= BatchSize => due
            /\ client' = [client EXCEPT !.buffer = buffer,
                   !.at = IF ~due THEN "polling"
                          ELSE IF client.zerobusOk THEN "ingesting" ELSE "opening"]
        /\ UNCHANGED <<backup, durable, lost, unread, faults>>

(* The buffer goes to the backup; a line that cannot be written is lost.   *)
SaveBuffer(zerobusOk) ==
    /\ client' = [at |-> "polling", buffer |-> <<>>, zerobusOk |-> zerobusOk]
    /\ \/ backup' = backup \o client.buffer /\ lost' = lost
       \/ \E i \in DOMAIN client.buffer :
              /\ backup' = backup \o RemoveAt(client.buffer, i)
              /\ lost' = lost \cup {client.buffer[i]}

(* drain_backup, in main or before a batch: all of the file in one batch.  *)
Draining == client.at \in {"opening", "starting"}

DrainBackup ==
    /\ Draining
    /\ durable' = durable \cup ToSet(backup)
    /\ client' = [client EXCEPT !.at = IF @ = "starting" THEN "truncating first" ELSE "truncating"]
    /\ UNCHANGED <<backup, polled, lost, unread, faults>>

Drained == [client EXCEPT
    !.at = IF @ \in {"starting", "truncating first"} THEN "polling" ELSE "ingesting",
    !.zerobusOk = TRUE]

Truncate ==
    /\ client.at \in {"truncating", "truncating first"}
    /\ backup' = <<>> /\ client' = Drained
    /\ UNCHANGED <<durable, polled, lost, unread, faults>>

(* An OSError is only logged, and counts as drained.                       *)
DrainUnreadable ==
    /\ client.at \in {"opening", "starting", "truncating", "truncating first"}
    /\ backup # <<>> /\ Fault
    /\ unread' = TRUE /\ client' = Drained
    /\ UNCHANGED <<backup, durable, polled, lost>>

(* No stream, or a batch ZeroBus did not acknowledge, though it may have   *)
(* stored it.                                                              *)
DrainFails ==
    /\ Draining /\ Fault
    /\ durable' \in {durable, durable \cup ToSet(backup)}
    /\ IF client.at = "opening" THEN SaveBuffer(FALSE)
       ELSE /\ client' = [client EXCEPT !.at = "polling", !.zerobusOk = FALSE]
            /\ UNCHANGED <<backup, lost>>
    /\ UNCHANGED <<polled, unread>>

(* ingest_batch_with_retry                                                 *)
IngestBatch ==
    /\ client.at = "ingesting"
    /\ durable' = durable \cup ToSet(client.buffer)
    /\ client' = [client EXCEPT !.at = "polling", !.buffer = <<>>]
    /\ UNCHANGED <<backup, polled, lost, unread, faults>>

(* Faulty version: the failure is forgotten, nothing is drained.           *)
IngestFails_StaysOk ==
    /\ client.at = "ingesting" /\ Fault
    /\ durable' \in {durable, durable \cup ToSet(client.buffer)}
    /\ SaveBuffer(TRUE)
    /\ UNCHANGED <<polled, unread>>

IngestFails ==
    /\ client.at = "ingesting" /\ Fault
    /\ durable' \in {durable, durable \cup ToSet(client.buffer)}
    /\ SaveBuffer(FALSE)
    /\ UNCHANGED <<polled, unread>>

(* Any other error reaches the loop around the OPC UA client, which        *)
(* connects again with the buffer as it is.                                *)
IngestRaises ==
    /\ client.at = "ingesting" /\ Fault
    /\ durable' \in {durable, durable \cup ToSet(client.buffer)}
    /\ client' = [client EXCEPT !.at = "polling"]
    /\ UNCHANGED <<backup, polled, lost, unread>>

(* A signal or a crash, at any await or between two statements.            *)
Stop ==
    /\ client.at # "down" /\ Fault
    /\ lost' = lost \cup (ToSet(client.buffer) \ durable)
    /\ client' = [client EXCEPT !.at = "down", !.buffer = <<>>]
    /\ UNCHANGED <<backup, durable, polled, unread>>

Start ==
    /\ client.at = "down"
    /\ client' = [at |-> IF backup = <<>> THEN "polling" ELSE "starting",
                  buffer |-> <<>>, zerobusOk |-> TRUE]
    /\ UNCHANGED <<backup, durable, polled, lost, unread, faults>>

Next ==
    \/ PollLines \/ DrainBackup \/ Truncate \/ DrainUnreadable \/ DrainFails
    \/ IngestBatch \/ IngestFails \/ IngestRaises \/ Stop \/ Start

Spec == Init /\ [][Next]_directVars

(* Records keep coming, and the time after which a batch is old passes.    *)
Fairness ==
    /\ WF_directVars(PollLines \/ DrainBackup \/ Truncate \/ IngestBatch \/ Start)
    /\ SF_directVars(PollLines /\ client'.at # "polling")

TypeOK ==
    /\ client.at \in {"polling", "opening", "starting", "truncating", "truncating first",
                      "ingesting", "down"}
    /\ ToSet(client.buffer) \cup ToSet(backup) \cup durable \cup lost \subseteq 1..polled

(* Until ZeroBus has a record it is in the buffer or in the backup, unless *)
(* a stop caught it in the buffer or the disk refused it.                  *)
NothingVanishes ==
    1..polled = ToSet(client.buffer) \cup ToSet(backup) \cup durable \cup lost

DirectSound == TypeOK /\ NothingVanishes

(* What is in the backup reaches ZeroBus as soon as there are records      *)
(* again, unless the disk failed while it was read.                        *)
BackupDrains ==
    []<>(unread \/ ToSet(backup) \subseteq durable)
=============================================================================
