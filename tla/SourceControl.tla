---------------------------- MODULE SourceControl ----------------------------
(***************************************************************************)
(* The source table of UnifiedBridge under concurrent web requests:        *)
(* start_source, stop_source, add_source and remove_source, and the web    *)
(* server's update_source (remove, then add).  The bridge is running.      *)
(*                                                                         *)
(* A request is suspended in client.disconnect() or while it joins the     *)
(* lifecycle task it cancelled; all else runs in one step.  A joiner whose *)
(* task has ended is resumed some time later: its wakeup is queued behind  *)
(* whatever is ready already, other requests among it.                     *)
(***************************************************************************)
EXTENDS Naturals

CONSTANTS
  Names,      \* source names
  Requests,   \* web requests in flight
  Operations, \* the suspending operations considered
  MaxTasks,   \* bound: lifecycle tasks started
  MaxConfigs  \* bound: entries of one name in the source list

SourceAssumption ==
  /\ Operations \subseteq {"stop", "remove", "update"}
  /\ MaxTasks \in Nat
  /\ MaxConfigs \in Nat \ {0}

VARIABLES
  sources,      \* self.sources, as the number of entries per name
  clients,      \* self.clients: the client of each name (0: none)
  client_tasks, \* self.client_tasks; a task has the number of its client
  source_of,    \* the name each task was started for, in order of start
  running,      \* tasks that have not ended
  cancelled,    \* tasks that were cancelled
  req,          \* each request: its operation, source, stage and joined task
  raced         \* names that got a new task while a request still joined an old one

tables == <<sources, clients, client_tasks>>
sourceVars == <<tables, source_of, running, cancelled, req, raced>>

Task == 1 .. MaxTasks
Idle == [op |-> "none", name |-> "none", at |-> "idle", task |-> 0]

SourceTypeOK ==
  /\ sources \in [Names -> 0 .. MaxConfigs]
  /\ clients \in [Names -> 0 .. MaxTasks]
  /\ client_tasks \in [Names -> 0 .. MaxTasks]
  /\ source_of \in UNION {[1 .. n -> Names] : n \in 0 .. MaxTasks}
  /\ running \subseteq DOMAIN source_of
  /\ cancelled \subseteq DOMAIN source_of
  /\ req \in [Requests -> [op : Operations, name : Names, at : {"disconnect", "join"},
                           task : 0 .. MaxTasks] \union {Idle}]
  /\ raced \subseteq Names

SourceInit ==
  /\ sources \in [Names -> 0 .. 1]
  /\ clients = [n \in Names |-> 0] /\ client_tasks = [n \in Names |-> 0]
  /\ source_of = [k \in {} |-> 0] /\ running = {} /\ cancelled = {}
  /\ req = [h \in Requests |-> Idle]
  /\ raced = {}
------------------------------------------------------------------------------
Fresh == CHOOSE k \in Task : k \notin DOMAIN source_of /\ \A j \in 1 .. k - 1 : j \in DOMAIN source_of

(* _start_client: a new client and its lifecycle task, entered in both     *)
(* tables; configs is the source list to be left behind.  A request that   *)
(* still joins an older task of that source will pop the new entries.      *)
StartClient(n, configs, oldClients, oldTasks) ==
  /\ \E k \in Task : k \notin DOMAIN source_of
  /\ clients' = [oldClients EXCEPT ![n] = Fresh]
  /\ client_tasks' = [oldTasks EXCEPT ![n] = Fresh]
  /\ source_of' = [k \in DOMAIN source_of \union {Fresh} |->
                     IF k = Fresh THEN n ELSE source_of[k]]
  /\ running' = running \union {Fresh}
  /\ sources' = configs
  /\ raced' = raced \union
       {m \in {n} : \E h \in Requests : req'[h].at = "join" /\ req'[h].name = m}

StartSource(n) ==
  /\ clients[n] = 0 /\ sources[n] > 0
  /\ UNCHANGED <<cancelled, req>>
  /\ StartClient(n, sources, clients, client_tasks)

(* add_source looks for a client of that name, not for a configuration; a  *)
(* client that cannot be created leaves everything as it was.              *)
AddSource(n) ==
  /\ clients[n] = 0 /\ sources[n] < MaxConfigs
  /\ UNCHANGED <<cancelled, req>>
  /\ StartClient(n, [sources EXCEPT ![n] = @ + 1], clients, client_tasks)

(* Faulty version: the configuration goes before the client does. *)
Disconnect_DeletesFirst(h, op, n) ==
  /\ req[h].at = "idle"
  /\ clients[n] # 0
  /\ req' = [req EXCEPT ![h] = [op |-> op, name |-> n, at |-> "disconnect", task |-> 0]]
  /\ sources' = IF op = "stop" THEN sources ELSE [sources EXCEPT ![n] = 0]
  /\ UNCHANGED <<clients, client_tasks, source_of, running, cancelled, raced>>

(* stop_source, remove_source and update_source, up to client.disconnect() *)
(* if that suspends.                                                       *)
Disconnect(h, op, n) ==
  /\ req[h].at = "idle"
  /\ clients[n] # 0
  /\ req' = [req EXCEPT ![h] = [op |-> op, name |-> n, at |-> "disconnect", task |-> 0]]
  /\ UNCHANGED <<tables, source_of, running, cancelled, raced>>

(* What stop_source does once its task has ended: two pops, on the tables  *)
(* as they are now.                                                        *)
FinishStop(h) ==
  /\ client_tasks' = [client_tasks EXCEPT ![req[h].name] = 0]
  /\ clients' = [clients EXCEPT ![req[h].name] = 0]
  /\ req' = [req EXCEPT ![h] = Idle]
  /\ UNCHANGED <<sources, source_of, running, raced>>

(* remove_source deletes instead, and ends in a KeyError when an entry is  *)
(* gone.  update_source goes on, in the same step, to add the source       *)
(* again, under a name that may be another one; add_source raises if that  *)
(* name is active or its client cannot be created.                         *)
FinishRemove(h) ==
  LET n == req[h].name
      left == [sources EXCEPT ![n] = 0]
      clientsLeft == [clients EXCEPT ![n] = 0]
      tasksLeft == [client_tasks EXCEPT ![n] = 0]
  IN  /\ req' = [req EXCEPT ![h] = Idle]
      /\ \/ /\ clients[n] = 0
            /\ client_tasks' = tasksLeft
            /\ UNCHANGED <<sources, clients, source_of, running, raced>>
         \/ /\ clients[n] # 0
            /\ sources' = left /\ clients' = clientsLeft /\ client_tasks' = tasksLeft
            /\ UNCHANGED <<source_of, running, raced>>
         \/ /\ clients[n] # 0 /\ req[h].op = "update"
            /\ \E m \in Names :
                 /\ clientsLeft[m] = 0 /\ left[m] < MaxConfigs
                 /\ StartClient(m, [left EXCEPT ![m] = @ + 1], clientsLeft, tasksLeft)

Finish(h) == IF req[h].op = "stop" THEN FinishStop(h) ELSE FinishRemove(h)

(* Faulty versions: the task is popped and not cancelled; it is joined and *)
(* not cancelled.                                                          *)
CancelTask_PopsOnly(h) ==
  /\ req[h].at = "disconnect"
  /\ Finish(h)
  /\ UNCHANGED cancelled

CancelTask_JoinsOnly(h) ==
  /\ req[h].at = "disconnect"
  /\ LET k == client_tasks[req[h].name]
     IN  IF k \in running
         THEN /\ req' = [req EXCEPT ![h].at = "join", ![h].task = k]
              /\ UNCHANGED <<tables, source_of, running, raced>>
         ELSE Finish(h)
  /\ UNCHANGED cancelled

(* disconnect() returned: cancel the task the table holds now, and join it.*)
CancelTask(h) ==
  /\ req[h].at = "disconnect"
  /\ LET k == client_tasks[req[h].name]
     IN  IF k \in running
         THEN /\ cancelled' = cancelled \union {k}
              /\ req' = [req EXCEPT ![h].at = "join", ![h].task = k]
              /\ UNCHANGED <<tables, source_of, running, raced>>
         ELSE Finish(h) /\ UNCHANGED cancelled

TaskEnds(k) ==
  /\ k \in running \intersect cancelled
  /\ running' = running \ {k}
  /\ UNCHANGED <<tables, source_of, cancelled, req, raced>>

(* The joiner is resumed and goes by the tables as they are by now.        *)
Joined(h) ==
  /\ req[h].at = "join" /\ req[h].task \notin running
  /\ Finish(h)
  /\ UNCHANGED cancelled

SourceNext ==
  \/ \E n \in Names : StartSource(n) \/ AddSource(n)
  \/ \E h \in Requests : \/ \E op \in Operations, n \in Names : Disconnect(h, op, n)
                         \/ CancelTask(h) \/ Joined(h)
  \/ \E k \in Task : TaskEnds(k)

(* disconnect() returns, a cancelled task ends, a joiner is resumed. *)
SourceFairness ==
  /\ \A h \in Requests : WF_sourceVars(CancelTask(h)) /\ WF_sourceVars(Joined(h))
  /\ \A k \in Task : WF_sourceVars(TaskEnds(k))

SourceSpec == SourceInit /\ [][SourceNext]_sourceVars /\ SourceFairness
------------------------------------------------------------------------------
(* The two tables agree on which sources are active, at every await: stop()*)
(* and get_status() read one, the requests decide by the other.            *)
TablesAgree == clients = client_tasks

(* Every task that collects for good is in the table, so that it can be    *)
(* stopped, and in the row of the source it was started for -- but for a   *)
(* source that was started again while a request still joined its old task:*)
(* that request then pops the new client.                                  *)
NoOrphanTask ==
  \A k \in running \ cancelled :
    source_of[k] \notin raced => client_tasks[source_of[k]] = k

(* When stop_source reports that the source is stopped, nothing collects   *)
(* for that source any more, with the same exception.                      *)
StopMeansStopped ==
  [][ \A h \in Requests :
        req[h].op = "stop" /\ req'[h] = Idle /\ req[h].name \notin raced =>
          \A k \in running' : source_of'[k] = req[h].name => k \in cancelled'
    ]_sourceVars

(* A source that collects has a configuration, at every await: the console *)
(* lists configurations, and offers to stop only what it lists.            *)
ActiveIsConfigured == \A n \in Names : clients[n] # 0 => sources[n] > 0

(* The tables of sources stay in step, no task escapes them, and what      *)
(* collects has a configuration.                                           *)
SourcesSound == SourceTypeOK /\ TablesAgree /\ NoOrphanTask /\ ActiveIsConfigured

(* Every request comes to an end, however many of them join one task.      *)
RequestsReturn == \A h \in Requests : []<>(req[h].at = "idle")
==============================================================================
