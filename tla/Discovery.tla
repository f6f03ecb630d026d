------------------------------ MODULE Discovery ------------------------------
(***************************************************************************)
(* core/discovery.py: DiscoveryService.  discover_all scans one protocol   *)
(* beside the other, each in batches of hosts; the periodic loop and every *)
(* "Scan now" of the web UI run it, and nothing keeps two of them apart.   *)
(* A scan caches each batch as it comes in and, at its end, all of it      *)
(* again.  Servers come and go while a scan runs.                          *)
(***************************************************************************)
EXTENDS Naturals, Sequences

CONSTANTS
    Hosts,        \* the addresses of the configured subnets, in scan order
    BatchSize,    \* 20 in the code
    Protocols,    \* the enabled ones; "opcua" is the one with a handshake
    Loop,         \* the scan of _discovery_loop
    Triggered,    \* tasks that trigger_discovery_scan can create
    MaxChanges, MaxTriggers    \* bounds of the model

DiscoveryAssumption ==
    /\ Hosts \in Seq({Hosts[i] : i \in DOMAIN Hosts})
    /\ BatchSize \in Nat \ {0} /\ Loop \notin Triggered

VARIABLES
    up,           \* the network: what answers at each endpoint
    servers,      \* discovered_servers, keyed by protocol and host
    scan,         \* per discover_all: its phase, batch per protocol, results
    shutdown, loop,
    firm,         \* history: endpoints that did not change while this scan ran
    changes, triggers

discoveryVars == <<up, servers, scan, shutdown, loop, firm, changes, triggers>>

Scans == {Loop} \cup Triggered
Endpoints == Protocols \X {Hosts[i] : i \in DOMAIN Hosts}
Absent == "absent"
Answers(e) == IF e[1] = "opcua" THEN {Absent, "unverified", "reachable"}
                                ELSE {Absent, "reachable"}

Batches == (Len(Hosts) + BatchSize - 1) \div BatchSize

(* Faulty version: the last, short batch is left out.                      *)
Batch_FullOnly(n) ==
    IF n * BatchSize > Len(Hosts) THEN {}
    ELSE {Hosts[i] : i \in (n - 1) * BatchSize + 1 .. n * BatchSize}

(* ips[i:i+batch_size]: the last batch may be a short one.                 *)
Batch(n) == {Hosts[i] : i \in {j \in DOMAIN Hosts :
                 /\ j > (n - 1) * BatchSize
                 /\ j <= n * BatchSize}}

Idle == [phase |-> "idle", batch |-> [p \in Protocols |-> 1],
         asked |-> [p \in Protocols |-> <<>>], found |-> <<>>]

DiscoveryInit ==
    /\ up \in [Endpoints -> {Absent, "reachable"}]
    /\ servers = [e \in Endpoints |-> Absent]
    /\ scan = [s \in Scans |-> Idle]
    /\ shutdown = FALSE /\ loop = "none"
    /\ firm = [s \in Scans |-> {}]
    /\ changes = 0 /\ triggers = 0

Running == {s \in Scans : scan[s].phase = "running"}

Begin(s) ==
    /\ scan' = [scan EXCEPT ![s] = [Idle EXCEPT !.phase = "running"]]
    /\ firm' = [firm EXCEPT ![s] = Endpoints]

Start ==
    /\ loop = "none" /\ ~shutdown
    /\ loop' = "scanning"
    /\ Begin(Loop)
    /\ UNCHANGED <<up, servers, shutdown, changes, triggers>>

TriggerDiscoveryScan(s) ==
    /\ scan[s].phase = "idle" /\ triggers < MaxTriggers
    /\ triggers' = triggers + 1
    /\ Begin(s)
    /\ UNCHANGED <<up, servers, shutdown, loop, changes>>

(* _is_port_open, then for OPC-UA the handshake at three endpoint names:   *)
(* a server whose port is open but that no handshake reaches is reported   *)
(* as unverified.                                                          *)
TestEndpoint(e) == up[e]

Probe(s, p) ==
    LET hosts == Batch(scan[s].batch[p]) IN
    /\ s \in Running
    /\ scan[s].batch[p] <= Batches /\ scan[s].asked[p] = <<>>
    /\ scan' = [scan EXCEPT ![s].asked[p] = [h \in hosts |-> TestEndpoint(<<p, h>>)]]
    /\ UNCHANGED <<up, servers, shutdown, loop, firm, changes, triggers>>

Results(s, p) ==
    LET asked == scan[s].asked[p] IN
    [e \in {p} \X {h \in DOMAIN asked : asked[h] # Absent} |-> asked[e[2]]]

Updated(old, new) ==
    [e \in DOMAIN old \cup DOMAIN new |-> IF e \in DOMAIN new THEN new[e] ELSE old[e]]

CacheBatch(s, p) ==
    /\ s \in Running
    /\ scan[s].batch[p] <= Batches
    /\ scan[s].asked[p] # <<>> \/ Batch(scan[s].batch[p]) = {}
    /\ servers' = Updated(servers, Results(s, p))
    /\ scan' = [scan EXCEPT ![s].found = Updated(@, Results(s, p)),
                            ![s].asked[p] = <<>>,
                            ![s].batch[p] = @ + 1]
    /\ UNCHANGED <<up, shutdown, loop, firm, changes, triggers>>

(* The end of discover_all: what was found in the whole scan is cached     *)
(* once more.  What was not found stays in the cache.                      *)
ScanEnds(s) ==
    /\ s \in Running
    /\ \A p \in Protocols : scan[s].batch[p] > Batches
    /\ servers' = Updated(servers, scan[s].found)
    /\ scan' = [scan EXCEPT ![s] = Idle]
    /\ loop' = IF s = Loop THEN "sleeping" ELSE loop
    /\ firm' = [firm EXCEPT ![s] = {}]
    /\ UNCHANGED <<up, shutdown, changes, triggers>>

(* asyncio.sleep(scan_interval_sec) is over.                               *)
IntervalEnds ==
    /\ loop = "sleeping" /\ ~shutdown
    /\ loop' = "scanning"
    /\ Begin(Loop)
    /\ UNCHANGED <<up, servers, shutdown, changes, triggers>>

(* stop() cancels the loop wherever it waits; a triggered scan is a task   *)
(* that nothing refers to, and goes on.                                    *)
Stop ==
    /\ ~shutdown
    /\ shutdown' = TRUE /\ loop' = "none"
    /\ scan' = [scan EXCEPT ![Loop] = Idle]
    /\ firm' = [firm EXCEPT ![Loop] = {}]
    /\ UNCHANGED <<up, servers, changes, triggers>>

(* A server comes, goes, or stops or begins to accept handshakes.          *)
Change(e) ==
    /\ changes < MaxChanges
    /\ changes' = changes + 1
    /\ up' \in {[up EXCEPT ![e] = a] : a \in Answers(e) \ {up[e]}}
    /\ firm' = [s \in Scans |-> firm[s] \ {e}]
    /\ UNCHANGED <<servers, scan, shutdown, loop, triggers>>

DiscoveryNext ==
    \/ Start
    \/ \E s \in Triggered : TriggerDiscoveryScan(s)
    \/ \E s \in Scans, p \in Protocols : Probe(s, p)
    \/ \E s \in Scans, p \in Protocols : CacheBatch(s, p)
    \/ \E s \in Scans : ScanEnds(s)
    \/ IntervalEnds
    \/ Stop
    \/ \E e \in Endpoints : Change(e)

DiscoverySpec == DiscoveryInit /\ [][DiscoveryNext]_discoveryVars

-----------------------------------------------------------------------------

DiscoveryTypeOK ==
    /\ \A e \in Endpoints : up[e] \in Answers(e) /\ servers[e] \in Answers(e)
    /\ \A s \in Scans : DOMAIN scan[s].found \subseteq Endpoints
    /\ loop \in {"none", "scanning", "sleeping"}
    /\ (loop = "scanning") <=> (Loop \in Running)

(* A scan leaves every server that was up all the while in the cache, as   *)
(* it answered: in whichever batch its address fell, and whatever other    *)
(* scans cached meanwhile.  (Of a server that changed, the older of two    *)
(* overlapping scans may end last and put its older answer back:           *)
(* _cache_server and the update at the end of discover_all do not look at  *)
(* which is newer.)                                                        *)
ScanIsComplete ==
    [][\A s \in Running :
          ScanEnds(s) =>
              \A e \in firm[s] : up[e] # Absent => servers'[e] = up[e]]_discoveryVars

(* Whatever overlapping scans did to the cache, a server that stays as it  *)
(* is will be shown as it is: the periodic scan comes back.                *)
CacheCatchesUp ==
    []<>(loop = "none" \/ \A e \in Endpoints : up[e] # Absent => servers[e] = up[e])
=============================================================================
