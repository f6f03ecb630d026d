----------------------------- MODULE WebRequests ----------------------------
(***************************************************************************)
(* What web requests change while others are suspended, in one model: the  *)
(* sources of the bridge, its ZeroBus clients, and, of the smart factory,  *)
(* the simulator task and the list of pages.  They share no state, so each *)
(* behaviour follows one of them, the "part".                              *)
(***************************************************************************)
EXTENDS SourceControl, ZeroBusControl

CONSTANTS
  Sockets,      \* of SmartFactory
  FactoryTasks, FullFault, MaxStops, MaxFaults, MaxResets,
  Later         \* bound: pages that open only while the demo is not reset

VARIABLES
  part,
  fault, progress, task, simulatorTask, stopping, active, socket, view, pipeline, reset,
  stops, injected, resets

factory == <<fault, progress, task, simulatorTask, stopping, active, socket, view, pipeline,
             reset, stops, injected, resets>>
requests == <<part, sourceVars, controlVars, factory>>

F == INSTANCE SmartFactory WITH MaxTasks <- FactoryTasks, faults <- injected

RequestsAssumption ==
  /\ SourceAssumption /\ ControlAssumption /\ F!FactoryAssumption
  /\ Calls = Requests /\ Later \subseteq Sockets

ASSUME RequestsAssumption

(* The parts that are not followed stay in one initial state. *)
RequestsInit ==
  /\ part \in {"sources", "zerobus", "factory"}
  /\ SourceInit /\ ControlInit /\ F!Init
  /\ part # "sources" => \A n \in Names : sources[n] = 0
  /\ part # "zerobus" => ~zerobus_config_enabled

InSources(act) == part = "sources" /\ act /\ UNCHANGED <<part, controlVars, factory>>
InZeroBus(act) == part = "zerobus" /\ act /\ UNCHANGED <<part, sourceVars, factory>>
InFactory(act) == part = "factory" /\ act /\ UNCHANGED <<part, sourceVars, controlVars>>

RequestsNext ==
  \/ \E n \in Names : InSources(StartSource(n)) \/ InSources(AddSource(n))
  \/ \E h \in Requests :
       \/ \E op \in Operations, n \in Names : InSources(Disconnect(h, op, n))
       \/ InSources(CancelTask(h)) \/ InSources(Joined(h))
  \/ \E h \in Calls :
       \/ InZeroBus(StartInfra(h)) \/ InZeroBus(StartZerobus(h)) \/ InZeroBus(Connect(h))
       \/ InZeroBus(StopZerobus(h)) \/ InZeroBus(Stop(h)) \/ InZeroBus(SourcesStopped(h))
       \/ InZeroBus(Gathered(h)) \/ InZeroBus(Close(h))
  \/ \E k \in 1 .. MaxTasks : InSources(TaskEnds(k))
  \/ \E t \in Target : \E k \in DOMAIN processors[t] :
       \/ InZeroBus(ProcessorBegins(t, k)) \/ InZeroBus(ProcessorReconnects(t, k))
       \/ InZeroBus(ProcessorEnds(t, k))
  \/ \E t \in F!Tasks :
       \/ InFactory(F!StartSimulator(t)) \/ InFactory(F!TaskEnds(t)) \/ InFactory(F!Tick(t))
       \/ InFactory(F!StartBroadcast(t)) \/ InFactory(F!SendNext(t)) \/ InFactory(F!EndBroadcast(t))
  \/ \E w \in Sockets :
       \/ InFactory(F!Connect(w) /\ (w \in Later => resets = 0))
       \/ InFactory(F!PageCloses(w)) \/ InFactory(F!Disconnect(w)) \/ InFactory(F!HandlerFails(w))
  \/ InFactory(F!StopSimulator) \/ InFactory(F!StopReturns)
  \/ InFactory(F!InjectFault) \/ InFactory(F!ClearFault)
  \/ InFactory(F!PipelineRequest)
  \/ InFactory(F!ResetData /\ \A w \in Later : socket[w] = "new")
  \/ InFactory(F!Truncate) \/ InFactory(F!ResetEnds)

(* The fairness that each module states, on the steps of a request and on  *)
(* those of the tasks, of which there are finitely many.                   *)
Answer(h) ==
  \/ InSources(CancelTask(h) \/ Joined(h))
  \/ InZeroBus(Connect(h) \/ SourcesStopped(h) \/ Close(h) \/ Gathered(h))

SomeTask ==
  \/ \E k \in 1 .. MaxTasks : InSources(TaskEnds(k))
  \/ \E t \in Target : \E k \in DOMAIN processors[t] :
       InZeroBus(ProcessorBegins(t, k) \/ ProcessorEnds(t, k))

(* A request that stops a simulator waits for one task, which ends only once. *)
Simulator(t) ==
  InFactory(\/ F!Tick(t) \/ F!StartBroadcast(t) \/ F!SendNext(t) \/ F!EndBroadcast(t)
            \/ F!TaskEnds(t) \/ (stopping = t /\ F!StopReturns))

RequestsFairness ==
  /\ \A h \in Requests : WF_requests(Answer(h))
  /\ WF_requests(SomeTask)
  /\ \A t \in F!Tasks : WF_requests(Simulator(t))

RequestsSpec == RequestsInit /\ [][RequestsNext]_requests /\ RequestsFairness
-----------------------------------------------------------------------------
(* The tables of sources and clients are in step with their tasks, and the *)
(* list of pages with the sockets.                                         *)
RequestsSound == SourcesSound /\ ControlSound /\ F!FactorySound

(* Every request returns, however many of them wait for the same tasks.    *)
EveryRequestReturns == \A h \in Requests : []<>(req[h].at = "idle" /\ call[h].at = "idle")

(* Every open page is on the list, once; while a simulator runs, those     *)
(* that are open come to show the fault as it is, and those that are gone  *)
(* leave the list.                                                         *)
PagesCatchUp == []F!FactorySound /\ F!PagesCatchUp /\ F!DeadAreDropped
=============================================================================
