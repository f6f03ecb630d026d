----------------------------- MODULE SmartFactory -----------------------------
(***************************************************************************)
(* demos/smart_factory/src/app.py: the simulator task and the requests     *)
(* that start and stop it, the WebSocket clients it broadcasts to, fault   *)
(* injection, and the reset of the demo's data.  Everything runs on one    *)
(* event loop: only an await lets another step come between.               *)
(***************************************************************************)
EXTENDS Naturals, Sequences, SequencesExt

CONSTANTS
    MaxTasks,     \* run_simulator tasks that can be created
    Sockets,      \* WebSocket connections, each used once
    FullFault,    \* ticks until fault_progress is 1.0
    MaxStops, MaxFaults, MaxResets    \* bounds of the model

FactoryAssumption ==
    /\ MaxTasks \in Nat /\ FullFault \in Nat \ {0}
    /\ MaxStops \in Nat /\ MaxFaults \in Nat /\ MaxResets \in Nat

VARIABLES
    fault, progress,      \* MachineState of a machine
    task,                 \* each simulator task: where it waits, its broadcast
    simulatorTask,        \* the global simulator_task
    stopping,             \* the task that a stop request waits for
    active,               \* manager.active_connections
    socket, view,         \* each connection, and the fault state its page shows
    pipeline, reset,      \* the pipeline, and how far reset_data is
    stops, faults, resets

factoryVars == <<fault, progress, task, simulatorTask, stopping, active, socket, view,
                 pipeline, reset, stops, faults, resets>>

Tasks == 1..MaxTasks
NoTask == 0

NewTask == [at |-> "new", cancelled |-> FALSE, next |-> 0, dead |-> <<>>, shown |-> FALSE]

Init ==
    /\ fault = FALSE /\ progress = 0
    /\ task = [t \in Tasks |-> NewTask]
    /\ simulatorTask = NoTask /\ stopping = NoTask
    /\ active = <<>>
    /\ socket = [s \in Sockets |-> "new"] /\ view = [s \in Sockets |-> FALSE]
    /\ pipeline = "running" /\ reset = "idle"
    /\ stops = 0 /\ faults = 0 /\ resets = 0

Alive(t) == task[t].at \in {"sleeping", "pushing", "sending"}

-----------------------------------------------------------------------------
(* The simulator and the requests that start and stop it.                  *)

(* A task that was cancelled but has not ended yet still counts as running.*)
StartSimulator(t) ==
    /\ task[t].at = "new" /\ \A u \in 1..t - 1 : task[u].at # "new"
    /\ \A u \in Tasks : u = simulatorTask => ~Alive(u)
    /\ task' = [task EXCEPT ![t].at = "sleeping"]
    /\ simulatorTask' = t
    /\ UNCHANGED <<fault, progress, stopping, active, socket, view, pipeline, reset,
                   stops, faults, resets>>

StopSimulator ==
    /\ simulatorTask # NoTask /\ Alive(simulatorTask)
    /\ stopping = NoTask /\ stops < MaxStops
    /\ stops' = stops + 1
    /\ task' = [task EXCEPT ![simulatorTask].cancelled = TRUE]
    /\ stopping' = simulatorTask
    /\ UNCHANGED <<fault, progress, simulatorTask, active, socket, view, pipeline, reset,
                   faults, resets>>

(* CancelledError reaches the task at the await where it is.               *)
TaskEnds(t) ==
    /\ Alive(t) /\ task[t].cancelled
    /\ task' = [task EXCEPT ![t] = [NewTask EXCEPT !.at = "done"]]
    /\ UNCHANGED <<fault, progress, simulatorTask, stopping, active, socket, view,
                   pipeline, reset, stops, faults, resets>>

(* The request that awaited the task goes on, some time after the task     *)
(* ended, and forgets whichever task is the current one by then.           *)
StopReturns ==
    /\ stopping # NoTask /\ ~Alive(stopping)
    /\ stopping' = NoTask
    /\ simulatorTask' = NoTask
    /\ UNCHANGED <<fault, progress, task, active, socket, view, pipeline, reset,
                   stops, faults, resets>>

(* generate_tick: a fault develops tick by tick.                           *)
Tick(t) ==
    /\ task[t].at = "sleeping" /\ ~task[t].cancelled
    /\ task' = [task EXCEPT ![t].at = "pushing"]
    /\ progress' = IF fault /\ progress < FullFault THEN progress + 1 ELSE progress
    /\ UNCHANGED <<fault, simulatorTask, stopping, active, socket, view, pipeline, reset,
                   stops, faults, resets>>

(* Faulty version: no broadcast when the push failed.                      *)
StartBroadcast_WhenPushed(t) ==
    /\ task[t].at = "pushing" /\ ~task[t].cancelled
    /\ \/ task' = [task EXCEPT ![t] = [@ EXCEPT !.at = "sending", !.next = 1, !.dead = <<>>,
                                                !.shown = fault]]
       \/ task' = [task EXCEPT ![t].at = "sleeping"]
    /\ UNCHANGED <<fault, progress, simulatorTask, stopping, active, socket, view,
                   pipeline, reset, stops, faults, resets>>

(* push_events, which reports every failure as False, has returned; the    *)
(* message for the pages is made now.                                      *)
StartBroadcast(t) ==
    /\ task[t].at = "pushing" /\ ~task[t].cancelled
    /\ task' = [task EXCEPT ![t] = [@ EXCEPT !.at = "sending", !.next = 1, !.dead = <<>>,
                                             !.shown = fault]]
    /\ UNCHANGED <<fault, progress, simulatorTask, stopping, active, socket, view,
                   pipeline, reset, stops, faults, resets>>

(* The loop over active_connections goes by position, also when a list     *)
(* that changes meanwhile has moved another connection there.              *)
SendNext(t) ==
    LET s == active[task[t].next] IN
    /\ task[t].at = "sending" /\ ~task[t].cancelled
    /\ task[t].next <= Len(active)
    /\ IF socket[s] = "open"
       THEN view' = [view EXCEPT ![s] = task[t].shown] /\ task' = [task EXCEPT ![t].next = @ + 1]
       ELSE /\ task' = [task EXCEPT ![t].next = @ + 1, ![t].dead = Append(@, s)]
            /\ UNCHANGED view
    /\ UNCHANGED <<fault, progress, simulatorTask, stopping, active, socket, pipeline,
                   reset, stops, faults, resets>>

(* What is left of the list without some of its connections, in order.     *)
Without(list, gone) ==
    LET kept[n \in 0..Len(list)] ==
            IF n = 0 THEN <<>>
            ELSE IF list[n] \in gone THEN kept[n - 1] ELSE Append(kept[n - 1], list[n])
    IN kept[Len(list)]

(* active_connections.remove for each dead one; the first that somebody    *)
(* has removed already raises ValueError, and the others stay.             *)
DropDead(list, dead) ==
    LET missing == {i \in DOMAIN dead : ~Contains(list, dead[i])}
        removed == {dead[i] : i \in {j \in DOMAIN dead : \A m \in missing : j < m}}
    IN Without(list, removed)

EndBroadcast(t) ==
    /\ task[t].at = "sending" /\ ~task[t].cancelled
    /\ task[t].next > Len(active)
    /\ active' = DropDead(active, task[t].dead)
    /\ task' = [task EXCEPT ![t] = [NewTask EXCEPT !.at = "sleeping"]]
    /\ UNCHANGED <<fault, progress, simulatorTask, stopping, socket, view, pipeline, reset,
                   stops, faults, resets>>

-----------------------------------------------------------------------------
(* WebSocket clients.                                                      *)

Connect(s) ==
    /\ socket[s] = "new"
    /\ socket' = [socket EXCEPT ![s] = "open"]
    /\ active' = Append(active, s)
    /\ view' = [view EXCEPT ![s] = fault]
    /\ UNCHANGED <<fault, progress, task, simulatorTask, stopping, pipeline, reset,
                   stops, faults, resets>>

PageCloses(s) ==
    /\ socket[s] = "open"
    /\ socket' = [socket EXCEPT ![s] = "gone"]
    /\ UNCHANGED <<fault, progress, task, simulatorTask, stopping, active, view, pipeline,
                   reset, stops, faults, resets>>

(* WebSocketDisconnect in the handler of a page that is gone.              *)
Disconnect(s) ==
    /\ socket[s] = "gone"
    /\ socket' = [socket EXCEPT ![s] = "closed"]
    /\ active' = Without(active, {s})
    /\ UNCHANGED <<fault, progress, task, simulatorTask, stopping, view, pipeline, reset,
                   stops, faults, resets>>

(* A message that is not as expected ends the handler and the connection,  *)
(* and nothing takes it off the list.                                      *)
HandlerFails(s) ==
    /\ socket[s] = "open"
    /\ socket' = [socket EXCEPT ![s] = "closed"]
    /\ UNCHANGED <<fault, progress, task, simulatorTask, stopping, active, view, pipeline,
                   reset, stops, faults, resets>>

InjectFault ==
    /\ ~fault /\ faults < MaxFaults
    /\ faults' = faults + 1
    /\ fault' = TRUE
    /\ UNCHANGED <<progress, task, simulatorTask, stopping, active, socket, view, pipeline,
                   reset, stops, resets>>

ClearFault ==
    /\ fault
    /\ fault' = FALSE /\ progress' = 0
    /\ UNCHANGED <<task, simulatorTask, stopping, active, socket, view, pipeline, reset,
                   stops, faults, resets>>

-----------------------------------------------------------------------------
(* The pipeline and reset_data.                                            *)

ResetChanges == UNCHANGED <<task, simulatorTask, stopping, active, socket, view, stops, faults>>

PipelineRequest ==
    /\ pipeline' \in {"running", "stopped"} \ {pipeline}
    /\ ResetChanges /\ UNCHANGED <<fault, progress, reset, resets>>

(* A stop that fails is passed over; one that succeeds is given ten        *)
(* seconds.                                                                *)
ResetData ==
    /\ reset = "idle" /\ resets < MaxResets
    /\ resets' = resets + 1
    /\ \/ pipeline' = "stopped" /\ reset' = "stopped"
       \/ pipeline' = pipeline /\ reset' = "cleared"
    /\ ResetChanges /\ UNCHANGED <<fault, progress>>

Truncate ==
    /\ reset = "stopped"
    /\ reset' = "cleared"
    /\ ResetChanges /\ UNCHANGED <<fault, progress, pipeline, resets>>

(* start_update with a full refresh, then clear_all_faults; an error skips *)
(* what is left.                                                           *)
ResetEnds ==
    /\ reset = "cleared" /\ reset' = "idle"
    /\ \/ pipeline' = "running" /\ fault' = FALSE /\ progress' = 0
       \/ UNCHANGED <<pipeline, fault, progress>>
    /\ ResetChanges /\ UNCHANGED resets

Next ==
    \/ \E t \in Tasks : StartSimulator(t)
    \/ StopSimulator
    \/ \E t \in Tasks : TaskEnds(t)
    \/ StopReturns
    \/ \E t \in Tasks : Tick(t)
    \/ \E t \in Tasks : StartBroadcast(t)
    \/ \E t \in Tasks : SendNext(t)
    \/ \E t \in Tasks : EndBroadcast(t)
    \/ \E s \in Sockets : Connect(s)
    \/ \E s \in Sockets : PageCloses(s)
    \/ \E s \in Sockets : Disconnect(s)
    \/ \E s \in Sockets : HandlerFails(s)
    \/ InjectFault
    \/ ClearFault
    \/ PipelineRequest
    \/ ResetData
    \/ Truncate
    \/ ResetEnds

Spec == Init /\ [][Next]_factoryVars

-----------------------------------------------------------------------------

TypeOK ==
    /\ simulatorTask \in Tasks \cup {NoTask} /\ stopping \in Tasks \cup {NoTask}
    /\ progress \in 0..FullFault /\ (progress > 0 => fault)
    /\ \A i \in DOMAIN active : active[i] \in Sockets

(* A page that is open is on the list, once: no broadcast that drops dead  *)
(* connections, no connection that leaves during one, takes it off.        *)
OpenIsListed ==
    \A s \in Sockets : socket[s] = "open" =>
        \E i \in DOMAIN active : active[i] = s /\ \A j \in DOMAIN active \ {i} : active[j] # s

FactorySound == TypeOK /\ OpenIsListed

Simulating == \E t \in Tasks : Alive(t)

(* A page that stays open while a simulator runs comes to show the fault   *)
(* state as it is, though a broadcast may pass it over when the list       *)
(* changes, and may overtake the state sent to it when it connected.       *)
PagesCatchUp ==
    []<>(~Simulating \/ \A s \in Sockets : socket[s] = "open" => view[s] = fault)

(* Connections that are gone do not stay on the list of a running          *)
(* simulator.                                                              *)
DeadAreDropped ==
    \A s \in Sockets : []<>(~Simulating \/ (socket[s] = "closed" => ~Contains(active, s)))
=============================================================================
