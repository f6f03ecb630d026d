--------------------------- MODULE ClientLifecycle ---------------------------
(***************************************************************************)
(* One protocol client under UnifiedBridge._client_lifecycle: connect,     *)
(* collect, and after a failure clean up, back off and connect again,      *)
(* while the bridge's stop() may run at any await.  The client is one of   *)
(*   "opcua_poll", "opcua_sub"  protocols/opcua_client.py in its two modes *)
(*   "mqtt"                     protocols/mqtt_client.py                   *)
(* and only the OPC-UA client has the stop() method the bridge calls.      *)
(*                                                                         *)
(* The device or broker is external: "up" says whether it can be reached;  *)
(* when it goes down an established connection is dead for good.  So is    *)
(* asyncua, whose connect() a disconnect() of the same client object may or*)
(* may not stop: with no socket yet, there is nothing it could close.      *)
(***************************************************************************)
EXTENDS Naturals

CONSTANTS
  Protocols,   \* the kinds of client considered
  DelayLevels, \* doublings until reconnect_max_delay_sec is reached
  ZeroPolls    \* polls without a value that force a reconnect (3)

LifecycleAssumption ==
  /\ Protocols \subseteq {"opcua_poll", "opcua_sub", "mqtt"}
  /\ DelayLevels \in Nat
  /\ ZeroPolls \in Nat \ {0}

VARIABLES
  protocol, \* which client this is, fixed
  pc,       \* where the lifecycle task is suspended
  client,   \* self._client: "none", "connecting", "live" or "dead"
  stopEvt,  \* self._stop_evt
  found,    \* OPC-UA: discovery found variables to read
  zero,     \* OPC-UA: consecutive_zero_polls
  delay,    \* reconnect_delay, as the number of doublings
  shut,     \* the bridge's _shutdown
  stopper,  \* the bridge's stop(): "idle", "disconnecting", "waiting", "done"
  up,       \* the device can be reached
  stray,    \* a session is open to the device that self._client does not lead to
  caught    \* stop() took the client away from a connect() under way (history)

sessionVars == <<stray, caught>>
lifecycleVars ==
  <<protocol, pc, client, stopEvt, found, zero, delay, shut, stopper, up, sessionVars>>

HasStop == protocol \in {"opcua_poll", "opcua_sub"}

LifecycleTypeOK ==
  /\ protocol \in Protocols
  /\ pc \in {"connect", "setup", "collect", "hold", "closing", "cleanup",
             "backoff", "ended"}
  /\ client \in {"none", "connecting", "live", "dead"}
  /\ stopEvt \in BOOLEAN
  /\ found \in BOOLEAN
  /\ zero \in 0 .. ZeroPolls - 1
  /\ delay \in 0 .. DelayLevels
  /\ shut \in BOOLEAN
  /\ stopper \in {"idle", "disconnecting", "waiting", "done"}
  /\ up \in BOOLEAN
  /\ stray \in BOOLEAN
  /\ caught \in BOOLEAN

(* The task's first step has called connect() on a new client. *)
LifecycleInit ==
  /\ protocol \in Protocols
  /\ pc = "connect" /\ client = "connecting"
  /\ stopEvt = FALSE /\ found = FALSE /\ zero = 0 /\ delay = 0
  /\ shut = FALSE /\ stopper = "idle"
  /\ up \in BOOLEAN
  /\ stray = FALSE /\ caught = FALSE
------------------------------------------------------------------------------
(* The head of the lifecycle loop.  connect() does nothing when there is   *)
(* already a client; subscribe() suspends first in discovery ("setup").    *)
LoopHead ==
  IF shut
  THEN pc' = "ended" /\ UNCHANGED client
  ELSE IF client = "none"
       THEN pc' = "connect" /\ client' = "connecting"
       ELSE pc' = "setup" /\ UNCHANGED client

EndOrBackOff == pc' = IF shut THEN "ended" ELSE "backoff"

(* The except block: stop(), then disconnect().  Without a stop() method   *)
(* the AttributeError skips disconnect() too.                              *)
Failed(held) ==
  IF HasStop
  THEN /\ stopEvt' = TRUE
       /\ client' = held
       /\ IF held = "none" THEN EndOrBackOff ELSE pc' = "cleanup"
  ELSE /\ client' = held
       /\ EndOrBackOff
       /\ UNCHANGED stopEvt

(* Faulty Connected: it gives up at once when the bridge is stopping. *)
Connected_QuitsEarly ==
  /\ pc = "connect" /\ up
  /\ client' = "live" /\ pc' = IF shut THEN "ended" ELSE "setup"
  /\ UNCHANGED <<protocol, stopEvt, found, zero, delay, shut, stopper, up, sessionVars>>

(* The awaited connect() ends on a device that answers.  stop() may have   *)
(* disconnected the client object meanwhile and set self._client to None:  *)
(* then either the connection was cut, or the session is established all   *)
(* the same and nothing leads to it.  Loading the namespaces swallows the  *)
(* AttributeError, and subscribe() raises "Not connected".                 *)
Connected ==
  /\ pc = "connect" /\ up
  /\ IF client = "none"
     THEN Failed("none") /\ stray' \in BOOLEAN
     ELSE client' = "live" /\ pc' = "setup" /\ UNCHANGED <<stopEvt, stray>>
  /\ UNCHANGED <<protocol, found, zero, delay, shut, stopper, up, caught>>

(* Only OPC-UA forgets a client that could not connect. *)
ConnectFails ==
  /\ pc = "connect" /\ ~up
  /\ Failed(IF HasStop THEN "none" ELSE "dead")
  /\ UNCHANGED <<protocol, found, zero, delay, shut, stopper, up, sessionVars>>

(* Discovery swallows every error, and finds what it finds; creating the   *)
(* OPC-UA subscription and subscribing to a topic need a connection.       *)
SetUp ==
  /\ pc = "setup"
  /\ IF protocol = "opcua_poll" \/ client = "live"
     THEN pc' = "collect" /\ UNCHANGED <<client, stopEvt>>
     ELSE Failed(client)
  /\ found' \in IF HasStop THEN BOOLEAN ELSE {found}
  /\ zero' = 0
  /\ UNCHANGED <<protocol, delay, shut, stopper, up, sessionVars>>

(* The OPC-UA loops look at the stop event at each turn. *)
StopSeen ==
  /\ pc = "collect" /\ HasStop /\ stopEvt
  /\ pc' = "hold"
  /\ UNCHANGED <<protocol, client, stopEvt, found, zero, delay, shut, stopper, up, sessionVars>>

(* One turn of the poll loop: any value read clears the count of empty     *)
(* polls, the ZeroPolls-th empty one in a row raises.                      *)
PollReads ==
  /\ pc = "collect" /\ protocol = "opcua_poll" /\ ~stopEvt
  /\ client = "live" /\ found
  /\ zero' = 0
  /\ UNCHANGED <<protocol, pc, client, stopEvt, found, delay, shut, stopper, up, sessionVars>>

(* Faulty PollReadsNothing: no limit to the polls that read nothing.       *)
PollReadsNothing_NoLimit ==
  /\ pc = "collect" /\ protocol = "opcua_poll" /\ ~stopEvt
  /\ client # "live" \/ ~found
  /\ UNCHANGED lifecycleVars

PollReadsNothing ==
  /\ pc = "collect" /\ protocol = "opcua_poll" /\ ~stopEvt
  /\ client # "live" \/ ~found
  /\ IF zero + 1 >= ZeroPolls
     THEN Failed(client) /\ UNCHANGED zero
     ELSE zero' = zero + 1 /\ UNCHANGED <<pc, client, stopEvt>>
  /\ UNCHANGED <<protocol, found, delay, shut, stopper, up, sessionVars>>

(* aiomqtt's message iterator raises when the broker is lost.  The OPC-UA  *)
(* subscription loop notices nothing.                                      *)
MessagesEnd ==
  /\ pc = "collect" /\ protocol = "mqtt" /\ client = "dead"
  /\ Failed(client)
  /\ UNCHANGED <<protocol, found, zero, delay, shut, stopper, up, sessionVars>>

(* subscribe() returned: wait for shutdown, then disconnect. *)
HoldEnds ==
  /\ pc = "hold" /\ shut
  /\ pc' = IF client = "none" THEN "ended" ELSE "closing"
  /\ UNCHANGED <<protocol, client, stopEvt, found, zero, delay, shut, stopper, up, sessionVars>>

(* disconnect() sets _client to None whatever happens. *)
Closed ==
  /\ pc = "closing"
  /\ client' = "none" /\ pc' = "ended"
  /\ UNCHANGED <<protocol, stopEvt, found, zero, delay, shut, stopper, up, sessionVars>>

CleanedUp ==
  /\ pc = "cleanup"
  /\ client' = "none" /\ EndOrBackOff
  /\ UNCHANGED <<protocol, stopEvt, found, zero, delay, shut, stopper, up, sessionVars>>

(* The backoff sleep ends; a connection that works never resets the delay. *)
Reconnect ==
  /\ pc = "backoff"
  /\ delay' = IF delay < DelayLevels THEN delay + 1 ELSE delay
  /\ LoopHead
  /\ UNCHANGED <<protocol, stopEvt, found, zero, shut, stopper, up, sessionVars>>
------------------------------------------------------------------------------
(* UnifiedBridge.stop(): stop() and disconnect() on the client (on an      *)
(* AttributeError neither happens), then wait for its task.                *)
StopBridge ==
  /\ ~shut
  /\ shut' = TRUE
  /\ stopEvt' = (stopEvt \/ HasStop)
  /\ stopper' = IF HasStop /\ client # "none" THEN "disconnecting" ELSE "waiting"
  /\ UNCHANGED <<protocol, pc, client, found, zero, delay, up, sessionVars>>

StopDisconnected ==
  /\ stopper = "disconnecting"
  /\ client' = "none"
  /\ stopper' = "waiting"
  /\ caught' = (caught \/ (pc = "connect" /\ client = "connecting"))
  /\ UNCHANGED <<protocol, pc, stopEvt, found, zero, delay, shut, up, stray>>

StopJoined ==
  /\ stopper = "waiting" /\ pc = "ended"
  /\ stopper' = "done"
  /\ UNCHANGED <<protocol, pc, client, stopEvt, found, zero, delay, shut, up, sessionVars>>

GoesDown ==
  /\ up /\ up' = FALSE
  /\ client' = IF client = "live" THEN "dead" ELSE client
  /\ stray' = FALSE
  /\ UNCHANGED <<protocol, pc, stopEvt, found, zero, delay, shut, stopper, caught>>

ComesUp ==
  /\ ~up /\ up' = TRUE
  /\ UNCHANGED <<protocol, pc, client, stopEvt, found, zero, delay, shut, stopper, sessionVars>>

Lifecycle ==
  \/ Connected \/ ConnectFails \/ SetUp
  \/ StopSeen \/ PollReads \/ PollReadsNothing \/ MessagesEnd
  \/ HoldEnds \/ Closed \/ CleanedUp \/ Reconnect

Stopper == StopDisconnected \/ StopJoined

LifecycleNext ==
  \/ Lifecycle
  \/ StopBridge \/ Stopper
  \/ GoesDown \/ ComesUp

(* Awaited calls return or raise, sleeps end; the device owes nothing. *)
LifecycleFairness == WF_lifecycleVars(Lifecycle) /\ WF_lifecycleVars(Stopper)

LifecycleSpec == LifecycleInit /\ [][LifecycleNext]_lifecycleVars /\ LifecycleFairness
------------------------------------------------------------------------------
(* After stop() no client object is left connected, although connect(),    *)
(* the lifecycle's own cleanup and stop()'s disconnect() may overlap.      *)
StoppedIsDisconnected == stopper = "done" => client # "live"

(* No session is open beside the client's own, however often it fails,     *)
(* cleans up and connects again: the one exception is a connect() whose    *)
(* client stop() took away, which may be left open after stop() returned.  *)
SessionsAreHeld == stray => caught

(* Wherever the lifecycle was when the bridge stopped.                     *)
LifecycleSound == LifecycleTypeOK /\ StoppedIsDisconnected /\ SessionsAreHeld

(* subscribe() does not go on collecting over a dead connection: it raises *)
(* or returns, so that the lifecycle can react.  The subscription loop of  *)
(* OPC-UA has nothing that would notice.                                   *)
DeadConnectionNoticed ==
  []<>(protocol = "opcua_sub" \/ pc # "collect" \/ client # "dead")

(* stop() returns, wherever the lifecycle was when it was called.  An MQTT *)
(* client has no stop(), so stop() waits for a message loop that nothing   *)
(* ends.                                                                   *)
StopCompletes == []<>(shut /\ protocol # "mqtt" => stopper = "done")

(* "Protocol clients automatically reconnect on failure": if the device is *)
(* up for good and nobody stops the bridge, the client ends up collecting  *)
(* over a working connection.                                              *)
Reconnects ==
  [](~shut) /\ <>[]up => <>[](pc = "collect" => client = "live") /\ []<>(pc = "collect")
==============================================================================
