----------------------------- MODULE OpcuaRelay -----------------------------
(***************************************************************************)
(* example_clients/opcua_zerobus/advanced: opcua_client.py polls the tags, *)
(* publishes a record per production line to RabbitMQ, and keeps a backup  *)
(* file for when it cannot; forwarding_agent.py drains the queue, batch by *)
(* batch, into ZeroBus.  Records are numbered as they are polled.          *)
(***************************************************************************)
EXTENDS Naturals, Sequences, SequencesExt

CONSTANTS
    Lines,           \* production lines, one record each per poll
    MaxPolls,        \* polls whose records the model follows
    BatchSize,       \* FORWARDING_BATCH_SIZE
    MaxRetries,      \* MAX_STREAM_RETRIES
    MaxFaults        \* failures of the broker, ZeroBus, the disk, a process

RelayAssumption == Lines \in Nat /\ MaxPolls \in Nat /\ BatchSize \in Nat

VARIABLES
    poller,          \* opcua_client: where it is, its records, rabbitmq_ok
    backup,          \* BACKUP_PATH
    queue, unacked,  \* the queue in RabbitMQ: ready, and delivered
    agent,           \* forwarding_agent: where it is, its messages
    durable,         \* what ZeroBus acknowledged or stored
    unread,          \* history: a drain could not read or truncate the backup
    polled, lost, expired, faults

relayVars == <<poller, backup, queue, unacked, agent, durable, polled, lost, expired, unread,
               faults>>

Fault == faults < MaxFaults /\ faults' = faults + 1

Init ==
    /\ poller = [at |-> "waiting", records |-> <<>>, sent |-> 0, rabbitmqOk |-> TRUE]
    /\ agent = [at |-> "draining", messages |-> <<>>, attempt |-> 1, connected |-> TRUE]
    /\ backup = <<>> /\ queue = <<>> /\ unacked = <<>>
    /\ durable = {} /\ polled = 0 /\ lost = {} /\ expired = {}
    /\ unread = FALSE /\ faults = 0

-----------------------------------------------------------------------------
(* opcua_client.py                                                         *)

PollerOnly == UNCHANGED <<unacked, agent, durable, expired>>
PollerChanges == PollerOnly /\ UNCHANGED unread

(* One read per line.  Polls that are not followed any more bring nothing. *)
PollLines ==
    LET n == IF polled < MaxPolls * Lines THEN Lines ELSE 0 IN
    /\ poller.at = "waiting"
    /\ polled' = polled + n
    /\ poller' = [poller EXCEPT !.at = IF poller.rabbitmqOk THEN "publishing" ELSE "connecting",
                                !.records = [i \in 1..n |-> polled + i], !.sent = 0]
    /\ PollerChanges /\ UNCHANGED <<backup, queue, lost, faults>>

(* What is appended to the backup: a record that cannot be written is gone.*)
Saves(records, rabbitmqOk) ==
    /\ poller' = [at |-> "waiting", records |-> <<>>, sent |-> 0, rabbitmqOk |-> rabbitmqOk]
    /\ \/ backup' = backup \o records /\ lost' = lost
       \/ \E i \in DOMAIN records :
              /\ backup' = backup \o RemoveAt(records, i)
              /\ lost' = lost \cup {records[i]}

(* The message of a publish that failed may have arrived all the same.     *)
Arrives(message) == queue' \in {queue, Append(queue, message)}

Connect ==
    /\ poller.at = "connecting"
    /\ poller' = [poller EXCEPT !.at = "draining", !.sent = 0]
    /\ PollerChanges /\ UNCHANGED <<backup, queue, polled, lost, faults>>

ConnectFails ==
    /\ poller.at = "connecting" /\ Fault
    /\ Saves(poller.records, FALSE)
    /\ PollerChanges /\ UNCHANGED <<queue, polled>>

DrainNext ==
    /\ poller.at \in {"draining", "starting"} /\ poller.sent < Len(backup)
    /\ queue' = Append(queue, backup[poller.sent + 1])
    /\ poller' = [poller EXCEPT !.sent = @ + 1]
    /\ PollerChanges /\ UNCHANGED <<backup, polled, lost, faults>>

(* The backup stays as it is.  At the start nobody catches the error.      *)
DrainFails ==
    /\ poller.at \in {"draining", "starting"} /\ poller.sent < Len(backup) /\ Fault
    /\ Arrives(backup[poller.sent + 1])
    /\ IF poller.at = "draining" THEN Saves(poller.records, FALSE)
       ELSE poller' = [poller EXCEPT !.at = "down"] /\ UNCHANGED <<backup, lost>>
    /\ PollerChanges /\ UNCHANGED polled

Drained == [poller EXCEPT !.at = IF @ = "starting" THEN "waiting" ELSE "publishing",
                          !.sent = 0, !.rabbitmqOk = TRUE]

(* Faulty version: the backup is emptied before it was published.          *)
DrainEnds_Truncated ==
    /\ poller.at \in {"draining", "starting"}
    /\ backup' = <<>>
    /\ poller' = Drained
    /\ PollerChanges /\ UNCHANGED <<queue, polled, lost, faults>>

DrainEnds ==
    /\ poller.at \in {"draining", "starting"} /\ poller.sent = Len(backup)
    /\ backup' = <<>>
    /\ poller' = Drained
    /\ PollerChanges /\ UNCHANGED <<queue, polled, lost, faults>>

(* An OSError is only logged: the backup stays, and is not looked at again *)
(* before the next failure or the next start.                              *)
DrainUnreadable ==
    /\ poller.at \in {"draining", "starting"} /\ backup # <<>> /\ Fault
    /\ unread' = TRUE
    /\ poller' = Drained
    /\ PollerOnly /\ UNCHANGED <<backup, queue, polled, lost>>

PublishNext ==
    /\ poller.at = "publishing" /\ poller.sent < Len(poller.records)
    /\ queue' = Append(queue, poller.records[poller.sent + 1])
    /\ poller' = [poller EXCEPT !.sent = @ + 1]
    /\ PollerChanges /\ UNCHANGED <<backup, polled, lost, faults>>

(* All records of the poll are saved, those that were published too.       *)
PublishFails ==
    /\ poller.at = "publishing" /\ poller.sent < Len(poller.records) /\ Fault
    /\ Arrives(poller.records[poller.sent + 1])
    /\ Saves(poller.records, FALSE)
    /\ PollerChanges /\ UNCHANGED polled

(* An error of another kind, such as a nack of the broker, reaches the     *)
(* loop around the OPC UA client: the poll is dropped, nothing is saved.   *)
PublishRaises ==
    /\ \/ poller.at = "publishing" /\ poller.sent < Len(poller.records)
       \/ poller.at = "draining" /\ poller.sent < Len(backup)
    /\ Fault
    /\ lost' = lost \cup ToSet(poller.records)
    /\ poller' = [poller EXCEPT !.at = "waiting", !.records = <<>>, !.sent = 0]
    /\ PollerChanges /\ UNCHANGED <<backup, queue, polled>>

PublishEnds ==
    /\ poller.at = "publishing" /\ poller.sent = Len(poller.records)
    /\ poller' = [poller EXCEPT !.at = "waiting", !.records = <<>>, !.sent = 0]
    /\ PollerChanges /\ UNCHANGED <<backup, queue, polled, lost, faults>>

(* A signal, a crash: what was polled and not yet handed over is gone.     *)
PollerStops ==
    /\ poller.at # "down" /\ Fault
    /\ lost' = lost \cup ToSet(poller.records)
    /\ poller' = [poller EXCEPT !.at = "down", !.records = <<>>]
    /\ PollerChanges /\ UNCHANGED <<backup, queue, polled>>

(* main connects with backoff, for ever, and drains what a run left.       *)
PollerStarts ==
    /\ poller.at = "down"
    /\ poller' = [at |-> "starting", records |-> <<>>, sent |-> 0, rabbitmqOk |-> TRUE]
    /\ PollerChanges /\ UNCHANGED <<backup, queue, polled, lost, faults>>

-----------------------------------------------------------------------------
(* forwarding_agent.py and the broker                                      *)

AgentChanges == UNCHANGED <<poller, backup, polled, lost, unread>>

(* basic_get with auto_ack=False.                                          *)
Get ==
    /\ agent.at = "draining" /\ agent.connected
    /\ Len(agent.messages) < BatchSize /\ queue # <<>>
    /\ agent' = [agent EXCEPT !.messages = Append(@, Head(queue))]
    /\ unacked' = Append(unacked, Head(queue))
    /\ queue' = Tail(queue)
    /\ AgentChanges /\ UNCHANGED <<durable, expired, faults>>

(* The batch is full, the queue was found empty, or the time is over.      *)
BatchDrained ==
    /\ agent.at = "draining" /\ agent.connected /\ agent.messages # <<>>
    /\ agent' = [agent EXCEPT !.at = "ingesting", !.attempt = 1]
    /\ AgentChanges /\ UNCHANGED <<queue, unacked, durable, expired, faults>>

IngestBatch ==
    /\ agent.at = "ingesting"
    /\ durable' = durable \cup ToSet(agent.messages)
    /\ agent' = [agent EXCEPT !.at = "acking"]
    /\ AgentChanges /\ UNCHANGED <<queue, unacked, expired, faults>>

(* The batch may have been stored when the wait for its offset failed.     *)
IngestFails ==
    /\ agent.at = "ingesting" /\ Fault
    /\ durable' \in {durable, durable \cup ToSet(agent.messages)}
    /\ agent' = IF agent.attempt < MaxRetries THEN [agent EXCEPT !.attempt = @ + 1]
                                              ELSE [agent EXCEPT !.at = "nacking"]
    /\ AgentChanges /\ UNCHANGED <<queue, unacked, expired>>

Batchless == [agent EXCEPT !.at = "draining", !.messages = <<>>, !.attempt = 1]

(* One ack up to the last tag settles the batch.                           *)
Ack ==
    /\ agent.at = "acking" /\ agent.connected
    /\ unacked' = <<>> /\ agent' = Batchless
    /\ AgentChanges /\ UNCHANGED <<queue, durable, expired, faults>>

Nack ==
    /\ agent.at = "nacking" /\ agent.connected
    /\ queue' = unacked \o queue /\ unacked' = <<>> /\ agent' = Batchless
    /\ AgentChanges /\ UNCHANGED <<durable, expired, faults>>

(* RabbitMQ returns what a consumer had when its connection is gone; the   *)
(* agent does not know before it uses the channel next.                    *)
ConnectionLost ==
    /\ agent.at # "down" /\ agent.connected /\ Fault
    /\ queue' = unacked \o queue /\ unacked' = <<>>
    /\ agent' = [agent EXCEPT !.connected = FALSE]
    /\ AgentChanges /\ UNCHANGED <<durable, expired>>

(* The messages of the old connection are forgotten.                       *)
Reconnect ==
    /\ agent.at \in {"draining", "acking", "nacking"} /\ ~agent.connected
    /\ agent' = [Batchless EXCEPT !.connected = TRUE]
    /\ AgentChanges /\ UNCHANGED <<queue, unacked, durable, expired, faults>>

AgentStops ==
    /\ agent.at # "down" /\ Fault
    /\ queue' = unacked \o queue /\ unacked' = <<>>
    /\ agent' = [Batchless EXCEPT !.at = "down"]
    /\ AgentChanges /\ UNCHANGED <<durable, expired>>

AgentStarts ==
    /\ agent.at = "down"
    /\ agent' = [Batchless EXCEPT !.at = "draining", !.connected = TRUE]
    /\ AgentChanges /\ UNCHANGED <<queue, unacked, durable, expired, faults>>

(* x-message-ttl                                                           *)
Expire ==
    /\ queue # <<>> /\ Fault
    /\ expired' = expired \cup {Head(queue)}
    /\ queue' = Tail(queue)
    /\ AgentChanges /\ UNCHANGED <<unacked, agent, durable>>

-----------------------------------------------------------------------------

PollerStep ==
    PollLines \/ Connect \/ DrainNext \/ DrainEnds \/ PublishNext \/ PublishEnds \/ PollerStarts
AgentStep ==
    BatchDrained \/ IngestBatch \/ Ack \/ Nack \/ Reconnect \/ AgentStarts

Next ==
    \/ PollLines \/ Connect \/ ConnectFails \/ DrainNext \/ DrainFails \/ DrainEnds
    \/ DrainUnreadable \/ PublishNext \/ PublishFails \/ PublishRaises \/ PublishEnds
    \/ PollerStops \/ PollerStarts
    \/ Get \/ BatchDrained \/ IngestBatch \/ IngestFails \/ Ack \/ Nack
    \/ ConnectionLost \/ Reconnect \/ AgentStops \/ AgentStarts \/ Expire

Spec == Init /\ [][Next]_relayVars

(* Both processes go on, and are started again; failures come to an end.   *)
Fairness == WF_relayVars(PollerStep) /\ WF_relayVars(Get) /\ WF_relayVars(AgentStep)

TypeOK ==
    /\ poller.at \in {"waiting", "publishing", "connecting", "draining", "starting", "down"}
    /\ agent.at \in {"draining", "ingesting", "acking", "nacking", "down"}
    /\ poller.sent <= Len(backup) + Lines
    /\ Len(agent.messages) <= BatchSize
    /\ (agent.connected => unacked = agent.messages)

(* A record that was polled is in the poller's hands, in the backup, in    *)
(* RabbitMQ or in ZeroBus: the backup is not truncated before RabbitMQ has *)
(* all of it, and no batch is acknowledged before ZeroBus has it, whatever *)
(* fails between.  The exceptions are the records a stop or an unexpected  *)
(* error caught in memory, those the disk refused and those that expired.  *)
NothingVanishes ==
    \A r \in 1..polled :
        \/ r \in durable \cup lost \cup expired
        \/ \E list \in {poller.records, backup, queue, unacked} : Contains(list, r)

RelaySound == TypeOK /\ NothingVanishes

(* The backup is emptied again, and what RabbitMQ has reaches ZeroBus: a   *)
(* client that has written to the backup remembers that it has to drain,   *)
(* unless the disk failed while it did.                                    *)
RecordsArrive ==
    []<>(unread \/ ToSet(backup) \cup ToSet(queue) \subseteq durable \cup expired)
=============================================================================
