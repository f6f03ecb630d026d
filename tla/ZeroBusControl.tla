---------------------------- MODULE ZeroBusControl ----------------------------
(***************************************************************************)
(* Starting and stopping the delivery side of UnifiedBridge from the web   *)
(* console: start_infra, stop, start_zerobus and stop_zerobus, each a      *)
(* request that may be suspended while others run, with the clients (and   *)
(* their streams) and the batch processors they create and dispose of.     *)
(* The processors are those of BatchPipeline, here only started, cancelled *)
(* and able to reopen the stream of their client (send_batch connects when *)
(* it has none).  A close() that raises counts as closed.                  *)
(***************************************************************************)
EXTENDS Naturals, FiniteSets, Sequences

CONSTANTS
  NumTargets,   \* ZeroBus targets of the configuration
  Calls,        \* web requests in flight
  MaxClients,   \* bound: clients connected
  MaxProcessors \* bound: batch processors started for a target

Operation == {"start_infra", "start_zerobus", "stop_zerobus", "stop"}

ControlAssumption ==
  /\ NumTargets \in Nat \ {0} /\ MaxClients \in Nat /\ MaxProcessors \in Nat

VARIABLES
  zerobus_config_enabled, \* as configured, fixed
  bridge_running, starting, shutdown, zerobus_enabled, \* the flags of the bridge
  zerobus_clients, \* the client of each target (0: none)
  batch_tasks,     \* the batch processor of each target, by number (0: none)
  made,            \* clients connected so far
  streams,         \* clients with an open stream
  processors,      \* all processors started for each target: client, stage
  cancelled_tasks, \* processors that were cancelled: target, number
  call,            \* each request
  clashed          \* a start ran beside another start or stop_zerobus, or
                   \* start_infra found clients connected

flags == <<zerobus_config_enabled, bridge_running, starting, shutdown, zerobus_enabled>>
held == <<zerobus_clients, batch_tasks>>
controlVars == <<flags, held, made, streams, processors, cancelled_tasks, call, clashed>>

Target == 1 .. NumTargets
None == [t \in Target |-> 0]
NoCall == [op |-> "none", at |-> "idle", target |-> 0, client |-> 0, pending |-> {}, size |-> 0]
NewProcessor == [client |-> 0, at |-> "new"]

(* target and client: what connect() or close() is awaited for; pending:   *)
(* processors still gathered, or targets still to close; size: of the      *)
(* table of clients when the loop over it began.                           *)
ControlTypeOK ==
  /\ zerobus_config_enabled \in BOOLEAN /\ clashed \in BOOLEAN
  /\ bridge_running \in BOOLEAN /\ starting \in BOOLEAN
  /\ shutdown \in BOOLEAN /\ zerobus_enabled \in BOOLEAN
  /\ made \in 0 .. MaxClients /\ streams \subseteq 1 .. made
  /\ zerobus_clients \in [Target -> 0 .. made]
  /\ processors \in [Target -> Seq([client : 0 .. MaxClients, at : {"new", "running", "ended"}])]
  /\ batch_tasks \in [Target -> Nat]
  /\ \A t \in Target : batch_tasks[t] \in 0 .. Len(processors[t])
  /\ \A p \in cancelled_tasks : p[1] \in Target /\ p[2] \in 1 .. Len(processors[p[1]])
  /\ \A h \in Calls :
       \/ call[h] = NoCall
       \/ /\ call[h].op \in Operation
          /\ call[h].at \in {"connect", "sources", "gather", "close"}
          /\ call[h].at = "connect" => call[h].target \in Target
          /\ call[h].at = "close" => call[h].client \in 1 .. made

ControlInit ==
  /\ zerobus_config_enabled \in BOOLEAN /\ clashed = FALSE
  /\ bridge_running = FALSE /\ starting = FALSE /\ shutdown = FALSE /\ zerobus_enabled = FALSE
  /\ zerobus_clients = None /\ batch_tasks = None
  /\ made = 0 /\ streams = {}
  /\ processors = [t \in Target |-> <<>>] /\ cancelled_tasks = {}
  /\ call = [h \in Calls |-> NoCall]
------------------------------------------------------------------------------
Live(t, k) == processors[t][k].at # "ended"
Ended(h) == call[h].at = "gather" /\ \A p \in call[h].pending : ~Live(p[1], p[2])

Size(f) == Cardinality({t \in Target : f[t] # 0})

(* A batch processor for every target with a client; start_infra leaves    *)
(* alone those that still run, start_zerobus does not look.                *)
StartProcessors(op, clients) ==
  LET fresh == {t \in Target : /\ clients[t] # 0
                               /\ \/ op = "start_zerobus"
                                  \/ batch_tasks[t] = 0
                                  \/ ~Live(t, batch_tasks[t])}
  IN  /\ batch_tasks' = [t \in Target |-> IF t \in fresh THEN Len(processors[t]) + 1
                                          ELSE batch_tasks[t]]
      /\ processors' = [t \in Target |-> IF t \in fresh THEN Append(processors[t], NewProcessor)
                                         ELSE processors[t]]

(* The end of either start, once the last connect() has returned.          *)
Started(h, op, clients) ==
  /\ zerobus_clients' = clients
  /\ call' = [call EXCEPT ![h] = NoCall]
  /\ zerobus_enabled' = TRUE
  /\ IF op = "start_infra" THEN bridge_running' = TRUE /\ starting' = FALSE
                           ELSE UNCHANGED <<bridge_running, starting>>
  /\ StartProcessors(op, clients)

(* What the code does not exclude, remembered for the properties. *)
Clash(h, op) ==
  clashed' = \/ clashed
             \/ \E g \in Calls \ {h} :
                  /\ call[g] # NoCall
                  /\ {call[g].op, op} \in { {"start_infra"}, {"start_zerobus"},
                       {"start_infra", "start_zerobus"},
                       {"start_infra", "stop_zerobus"}, {"start_zerobus", "stop_zerobus"} }
             \/ op = "start_infra" /\ zerobus_config_enabled /\ zerobus_clients # None

(* The bound on processors, kept by those already connecting too. *)
MayStart ==
  \A t \in Target :
    Len(processors[t]) + Cardinality({h \in Calls : call[h].at = "connect"}) < MaxProcessors

ConnectTo(h, op, t) ==
  call' = [call EXCEPT ![h] = [NoCall EXCEPT !.op = op, !.at = "connect", !.target = t]]

StartInfra(h) ==
  /\ call[h] = NoCall
  /\ ~bridge_running /\ ~starting /\ MayStart
  /\ shutdown' = FALSE
  /\ \/ /\ zerobus_config_enabled
        /\ starting' = TRUE
        /\ ConnectTo(h, "start_infra", 1)
        /\ UNCHANGED <<bridge_running, zerobus_enabled, held, processors>>
     \/ /\ ~zerobus_config_enabled
        /\ bridge_running' = TRUE
        /\ IF zerobus_enabled THEN StartProcessors("start_infra", zerobus_clients)
                              ELSE UNCHANGED <<batch_tasks, processors>>
        /\ UNCHANGED <<starting, zerobus_enabled, zerobus_clients, call>>
  /\ Clash(h, "start_infra")
  /\ UNCHANGED <<zerobus_config_enabled, made, streams, cancelled_tasks>>

StartZerobus(h) ==
  /\ call[h] = NoCall
  /\ ~(zerobus_enabled /\ zerobus_clients # None) /\ MayStart
  /\ ConnectTo(h, "start_zerobus", 1)
  /\ Clash(h, "start_zerobus")
  /\ UNCHANGED <<flags, held, made, streams, processors, cancelled_tasks>>

(* One round of _initialize_zerobus_clients: a client that connects enters *)
(* the table whatever was there; one that does not is only logged.         *)
Connect(h) ==
  /\ call[h].at = "connect"
  /\ LET t == call[h].target
         Go(clients) ==
           IF t < NumTargets
           THEN /\ zerobus_clients' = clients
                /\ ConnectTo(h, call[h].op, t + 1)
                /\ UNCHANGED <<bridge_running, starting, zerobus_enabled, batch_tasks, processors>>
           ELSE Started(h, call[h].op, clients)
     IN  \/ /\ made < MaxClients
            /\ made' = made + 1
            /\ streams' = streams \union {made + 1}
            /\ Go([zerobus_clients EXCEPT ![t] = made + 1])
         \/ /\ Go(zerobus_clients)
            /\ UNCHANGED <<made, streams>>
  /\ UNCHANGED <<zerobus_config_enabled, shutdown, cancelled_tasks, clashed>>
------------------------------------------------------------------------------
(* stop_zerobus and stop once all clients are closed: only the first       *)
(* forgets them and lowers its flag.                                       *)
Closed(h, op) ==
  /\ call' = [call EXCEPT ![h] = NoCall]
  /\ IF op = "stop_zerobus"
     THEN zerobus_clients' = None /\ zerobus_enabled' = FALSE
     ELSE UNCHANGED <<zerobus_clients, zerobus_enabled>>

(* The loop over the clients, up to the next close() that suspends: one of *)
(* a client with an open stream.                                           *)
CloseNext(h, op, left, size, open) ==
  LET todo == {t \in left : zerobus_clients[t] \in open}
  IN  \/ todo = {} /\ Closed(h, op)
      \/ \E t \in todo :
           /\ call' = [call EXCEPT ![h] = [op |-> op, at |-> "close", target |-> t,
                                         client |-> zerobus_clients[t],
                                         pending |-> left \ {t}, size |-> size]]
           /\ UNCHANGED <<zerobus_clients, zerobus_enabled>>

CloseAll(h, op) ==
  CloseNext(h, op, {t \in Target : zerobus_clients[t] # 0}, Size(zerobus_clients), streams)

(* Faulty version: the clients are closed under running processors. *)
CancelProcessors_Skipped(h, op) == CloseAll(h, op) /\ UNCHANGED cancelled_tasks

(* Cancel the processors in the table and wait for them, if there are any. *)
CancelProcessors(h, op) ==
  LET known == {<<t, batch_tasks[t]>> : t \in {u \in Target : batch_tasks[u] # 0}}
  IN  /\ cancelled_tasks' = cancelled_tasks \union {p \in known : Live(p[1], p[2])}
      /\ IF known = {} THEN CloseAll(h, op)
         ELSE /\ call' = [call EXCEPT ![h] = [NoCall EXCEPT !.op = op, !.at = "gather",
                                                            !.pending = known]]
              /\ UNCHANGED <<zerobus_clients, zerobus_enabled>>

StopZerobus(h) ==
  /\ call[h] = NoCall
  /\ zerobus_enabled
  /\ CancelProcessors(h, "stop_zerobus")
  /\ Clash(h, "stop_zerobus")
  /\ UNCHANGED <<zerobus_config_enabled, bridge_running, starting, shutdown, batch_tasks, made, streams, processors>>

Stop(h) ==
  /\ call[h] = NoCall
  /\ shutdown' = TRUE /\ starting' = FALSE
  /\ call' = [call EXCEPT ![h] = [NoCall EXCEPT !.op = "stop", !.at = "sources"]]
  /\ UNCHANGED <<zerobus_config_enabled, bridge_running, zerobus_enabled, held, made, streams,
                 processors, cancelled_tasks, clashed>>

(* stop, when the protocol clients have ended; or its loop over them raises*)
(* because their table changed its size meanwhile, and the request ends.   *)
SourcesStopped(h) ==
  /\ call[h].at = "sources"
  /\ \/ CancelProcessors(h, "stop")
     \/ /\ call' = [call EXCEPT ![h] = NoCall]
        /\ UNCHANGED <<zerobus_clients, zerobus_enabled, cancelled_tasks>>
  /\ UNCHANGED <<zerobus_config_enabled, bridge_running, starting, shutdown, batch_tasks, made,
                 streams, processors, clashed>>

(* stop_zerobus clears the whole table, stop leaves it. *)
Gathered(h) ==
  /\ Ended(h)
  /\ batch_tasks' = IF call[h].op = "stop_zerobus" THEN None ELSE batch_tasks
  /\ CloseAll(h, call[h].op)
  /\ UNCHANGED <<zerobus_config_enabled, bridge_running, starting, shutdown, made, streams,
                 processors, cancelled_tasks, clashed>>

(* A close() returns; the loop raises if the size of the table of clients  *)
(* has changed meanwhile, and the request ends there.                      *)
Close(h) ==
  /\ call[h].at = "close"
  /\ streams' = streams \ {call[h].client}
  /\ IF Size(zerobus_clients) # call[h].size
     THEN call' = [call EXCEPT ![h] = NoCall] /\ UNCHANGED <<zerobus_clients, zerobus_enabled>>
     ELSE CloseNext(h, call[h].op, call[h].pending, call[h].size, streams')
  /\ UNCHANGED <<zerobus_config_enabled, bridge_running, starting, shutdown, batch_tasks, made,
                 processors, cancelled_tasks, clashed>>
------------------------------------------------------------------------------
Working(t, k) == Live(t, k) /\ <<t, k>> \notin cancelled_tasks

(* A processor looks up its client when it first runs, and keeps it. *)
ProcessorBegins(t, k) ==
  /\ Working(t, k) /\ processors[t][k].at = "new"
  /\ processors' = [processors EXCEPT
       ![t][k] = [client |-> zerobus_clients[t],
                  at |-> IF zerobus_clients[t] = 0 THEN "ended" ELSE "running"]]
  /\ UNCHANGED <<flags, held, made, streams, cancelled_tasks, call, clashed>>

ProcessorReconnects(t, k) ==
  /\ Working(t, k) /\ processors[t][k].at = "running"
  /\ processors[t][k].client \notin streams
  /\ streams' = streams \union {processors[t][k].client}
  /\ UNCHANGED <<flags, held, made, processors, cancelled_tasks, call, clashed>>

(* Faulty version: processors do not look at the shutdown flag. *)
ProcessorEnds_Deaf(t, k) ==
  /\ Live(t, k) /\ <<t, k>> \in cancelled_tasks
  /\ processors' = [processors EXCEPT ![t][k].at = "ended"]
  /\ UNCHANGED <<flags, held, made, streams, cancelled_tasks, call, clashed>>

ProcessorEnds(t, k) ==
  /\ Live(t, k)
  /\ <<t, k>> \in cancelled_tasks \/ (shutdown /\ processors[t][k].at = "running")
  /\ processors' = [processors EXCEPT ![t][k].at = "ended"]
  /\ UNCHANGED <<flags, held, made, streams, cancelled_tasks, call, clashed>>

ControlNext ==
  \/ \E h \in Calls : \/ StartInfra(h) \/ StartZerobus(h) \/ Connect(h)
                      \/ StopZerobus(h) \/ Stop(h) \/ SourcesStopped(h)
                      \/ Gathered(h) \/ Close(h)
  \/ \E t \in Target : \E k \in DOMAIN processors[t] :
       ProcessorBegins(t, k) \/ ProcessorReconnects(t, k) \/ ProcessorEnds(t, k)

(* connect() and close() return, the event loop resumes what is ready; a   *)
(* processor that is cancelled, or sees the shutdown, ends.                *)
ControlFairness ==
  /\ \A h \in Calls :
       WF_controlVars(Connect(h) \/ SourcesStopped(h) \/ Gathered(h) \/ Close(h))
  /\ \A t \in Target, k \in 1 .. MaxProcessors :
       WF_controlVars(k \in DOMAIN processors[t] /\ (ProcessorBegins(t, k) \/ ProcessorEnds(t, k)))

ControlSpec == ControlInit /\ [][ControlNext]_controlVars /\ ControlFairness
------------------------------------------------------------------------------
AllIdle == \A h \in Calls : call[h] = NoCall

(* As long as no start clashed with another request -- the code lets it,   *)
(* and then the following three fail -- every processor that goes on       *)
(* sending is in the table stop and stop_zerobus cancel from.              *)
ProcessorsAreKnown ==
  ~clashed => \A t \in Target : \A k \in DOMAIN processors[t] : Working(t, k) => batch_tasks[t] = k

(* "Stop ZeroBus streaming": with the flag down and nothing in progress,   *)
(* no processor goes on sending ...                                        *)
QuietWhenDisabled ==
  ~clashed /\ ~zerobus_enabled /\ AllIdle =>
    \A t \in Target : \A k \in DOMAIN processors[t] : ~Working(t, k)

(* ... and "Close ZeroBus clients": no stream stays open. *)
ClosedWhenDisabled == ~clashed /\ ~zerobus_enabled /\ AllIdle => streams = {}

(* Unless a start clashed with another request, processors are known, and  *)
(* a disabled ZeroBus is quiet and closed.                                 *)
ControlSound == ControlTypeOK /\ ProcessorsAreKnown /\ QuietWhenDisabled /\ ClosedWhenDisabled

(* Every request returns: no connect, gather or close loop goes on forever.*)
CallsReturn == \A h \in Calls : []<>(call[h].at = "idle")

(* After stop, every processor ends, those started after it included.      *)
ShutdownEndsProcessors ==
  []<>(~shutdown \/ \A t \in Target : \A k \in DOMAIN processors[t] : ~Live(t, k))
==============================================================================
