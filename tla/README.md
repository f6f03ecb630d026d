# Specifications of the ZeroBus example clients

TLA+ models of the stateful parts of this repository, model-checked with TLC, with
theorems checked by TLAPS. The repository is a collection of clients that collect data
(from industrial protocols, Salesforce, syslog, ...) and stream it to Delta tables through
the Databricks ZeroBus SDK. Its largest program by far is the *unified OT connector*,
`src/example_clients/unified_ot_zerobus` (written `unified/` below): one asyncio event loop
on which protocol clients, batch processors, reconnection loops and web requests interleave
at every `await`. The others are two Salesforce pipelines (Python threads, Go goroutines),
two OPC-UA clients, a benchmark whose workers stream for hours, and two demos with a simulator
each. Every program that keeps state over more than one step is modelled here.

## Inventory

| Component | Code | State | Operations | What makes it correct |
|---|---|---|---|---|
| ZeroBus client, circuit breaker | `unified/core/zerobus_client.py` | stream, breaker (state, three counters, time of failure), attempts | `connect`, `send_batch`, `close`; `can_execute`, `record_success`, `record_failure` | True only for delivered batches, bounded retries, a breaker that always recovers and closes only when earned |
| Backpressure manager | `unified/core/backpressure.py` | memory queue, list of spool files, spool and DLQ directories, counters | `enqueue`, `dequeue`, spool, load, move to the DLQ, restart | no record twice or nowhere, the list agrees with the directory, the size limit, progress |
| Batch processors | `unified/core/unified_bridge.py` | a local batch per target | dequeue, flush, keep after failure, final flush, cancellation | every record taken is sent, kept or dropped knowingly; delivery |
| Client lifecycle | `unified_bridge.py`, `unified/protocols/*_client.py` | `_client`, `_stop_evt`, counters, reconnect delay | connect, subscribe, poll, fail, clean up, back off, stop | no connection left after stop, dead ones noticed, stop returns, reconnection |
| Sources under web requests | `unified_bridge.py`, `unified/web/web_server.py` | sources, clients, client tasks | start, stop, add, remove, update | tables agree, no task outside them, stop means stopped |
| ZeroBus control under web requests | `unified_bridge.py` | flags, table of clients, table of processors | `start_infra`, `start_zerobus`, `stop_zerobus`, `stop` | no processor and no stream outside the tables, requests return |
| Numeric compression | `unified/core/numeric_compression.py`, `unified_bridge.py` | last value sent per tag, door per tag | offer a sample | the receiver's curve stays near the tag's |
| Readings, normalization, unchanged filter | `unified/protocols`, `unified/normalizer`, `unified_bridge.py` | queue of notifications, poll position, last value per path | change, notify, poll, normalize, filter | variables stay apart, the receiver catches up |
| Configuration | `unified/core/config_loader.py`, `unified/web/web_server.py` | `config.yaml`, the bridge's and the web server's copies | load, write, add, remove, update, restart, crash | a restart keeps the sources |
| Discovery | `unified/core/discovery.py` | table of servers, running scans | periodic and triggered scans | a scan is complete, the table catches up |
| Credentials | `unified/core/credential_manager.py` | encrypted file, salt file | load, update, delete, by several processes | what was stored survives |
| Encrypted configuration | `unified/core/encryption.py`, `config_encryption.py` | key file, encrypted configuration | migrate, load, crash | secrets stay readable, encrypted once |
| TLS certificates | `unified/core/tls_manager.py`, `web_server.py` | `server.key`, `server.crt` | generate, check, load, crash | TLS comes up unless something went wrong |
| Logs | `unified/core/advanced_logging.py` | main log, backups, archive | rollover, compress, archive, retention, crash | backups in order, recent entries kept |
| Incident response | `unified/core/incident_response.py` | buffer of events, incidents, files | detect, join, open, update, notify, restart | bursts answered, one incident per matter, no alert lost |
| Vulnerability management | `unified/core/vulnerability_management.py` | records, files, running scan | scan, triage, restart | what is found is known, decisions stay |
| Anomaly detection | `unified/core/anomaly_detection.py` | windows, logins, anomalies | metric, login, learning, restart | outliers seen, no false alarms |
| Salesforce subscriber, Python | `salesforce_zerobus/core.py`, `pubsub/client.py`, `utils/flow_controller.py` | semaphore, replay ids, dedup window, event queue | subscribe, fetch, callback, retry, stop | no gap, no duplicate while remembered, delivery |
| Salesforce replay, forwarder | `databricks/*.py` | replay position, stream | recover, ingest, recreate | resume where the table ends |
| Salesforce pipeline, Go | `go_salesforce_zerobus/internal` | channel, goroutines, dedup set | receive, forward, recreate, cancel | no gap, shutdown ends, delivery |
| OPC-UA over RabbitMQ | `opcua_zerobus/advanced` | backup file, queue, unacknowledged batch | poll, publish, drain, forward, acknowledge | nothing vanishes, backup and queue empty |
| OPC-UA direct client | `opcua_zerobus/opcua_zerobus_client.py` | buffer, backup file | poll, flush, drain, restart | the same |
| Regatta, weather station | `demos/data_drifter` | boats, wind, what was posted | step, send, shift, gust, post | fair tacking, crews adapt, the wind stays in its band |
| NEOWISE benchmark | `neowise_benchmark/neowise/user.py`, `dataset.py` | per worker: year, file, batch and row, its streams | plan, load, ingest, replace a stream, stop, respawn | no row twice or passed over, by one worker or by several |
| Smart factory | `demos/smart_factory/src/app.py` | simulator task, list of pages, fault | start, stop, broadcast, connect, reset | pages catch up, one list entry per page |

Not modelled, with the reasons below: the discovery protocol modules, structured logging, the
protocol base classes and security options, web authentication, and the short SDK scripts,
notebooks and SQL.

How the parts of the connector interact: a protocol client's callback calls `_on_record`,
which filters the sample and puts the record into the backpressure manager, directly or by a
task that spools it. One batch processor per ZeroBus target takes records out of the *one*
manager, gathers a batch and awaits `send_batch` of its client. Each source has a lifecycle
task; web requests start and stop sources, the whole delivery side, and the bridge itself,
and write `config.yaml`. All of this shares one thread: an interleaving can only happen at an
`await` that really suspends, so the steps of the models run from one such point to the
next. Beside it stand services with files of their own (credentials, certificates, logs,
incidents, vulnerabilities), some of which a command-line process uses at the same time.

The hard behaviours are therefore: state read before an await and used after it (stream,
tables, spool size, breaker answer), several tasks resumed after the same event, cancellation
at any await (`wait_for`, `task.cancel()`), failures between the steps of one operation, two
processes on one file without a lock, a kill between two writes, and restarts over files that
only memory knew about; and in the Salesforce and OPC-UA clients, which replay position or
backup a retry resumes from, and a bounded channel whose consumer waits. `PROJECT.json` lists
these hazards at their lines, with the properties that cover them.

## Modules

| Module | Models | Uses |
|---|---|---|
| `CircuitBreaker` | the breaker, as operators on one record | |
| `ZeroBusClient` | `send_batch`, `connect`, `close` run by several tasks | EXTENDS `CircuitBreaker` |
| `ZeroBusClient_proofs` | theorems about it | EXTENDS `ZeroBusClient` |
| `RecordBuffer` | abstract: what a buffer promises | |
| `Backpressure` | the manager, its producers and consumers, restarts | implements `RecordBuffer` |
| `BatchPipeline` | processors, stop, `stop_zerobus` | INSTANCE `RecordBuffer` |
| `ClientLifecycle` | one protocol client under its lifecycle task and `stop()` | |
| `NumericCompression` | four modes and the swinging door, for one tag | |
| `SourceControl` | the source tables under concurrent requests | |
| `ZeroBusControl` | the delivery side under concurrent requests | |
| `SmartFactory` | simulator task, requests, pages of that demo | |
| `WebRequests` | what overlapping web requests change, part by part | EXTENDS `SourceControl`, `ZeroBusControl`, INSTANCE `SmartFactory` |
| `Bridge_proofs` | theorems about the manager, and about each part of `WebRequests` and all of them | EXTENDS `Backpressure`, `WebRequests` |
| `TagPaths` | how the normalizers name and grade a tag, as operators | |
| `TagStream` | the readings of one source, up to the filter of `_on_record` | EXTENDS `TagPaths` |
| `ConfigFile` | `config.yaml` and its copies, restarts and crashes | |
| `Discovery` | overlapping scans and their cache | |
| `CredentialStore` | the credential and salt files under two processes | |
| `EncryptedConfig` | key file, migration, loader, killed anywhere | |
| `CertificateStore` | key and certificate, connector and tool | |
| `LogRotation` | rollover step by step, archive, retention | |
| `IncidentResponse`, `VulnerabilityTracking`, `AnomalyDetection` | the three security services | |
| `Services` | the eight services around the bridge, part by part | INSTANCE of each |
| `Services_proofs` | theorems about each of them, and about all of them | EXTENDS `Services` |
| `FlowController` | the semaphore of the Python subscriber, as operators | |
| `SalesforceSubscriber` | the three threads of the Python client, over restarts | EXTENDS `FlowController` |
| `SalesforcePipeline` | the goroutines of the Go program, over restarts | |
| `EventOrder` | lemmas about sequences of events that leave none out | |
| `SalesforceSubscriber_proofs`, `SalesforcePipeline_proofs` | theorems about the two clients | EXTENDS each, INSTANCE `EventOrder` |
| `OpcuaRelay` | poller, RabbitMQ, forwarding agent | |
| `OpcuaDirect` | the OPC-UA client without a broker | |
| `NeowiseFleet` | the workers of the benchmark | |
| `Delivery` | the way of a record to its table, part by part | EXTENDS `NumericCompression`, `BatchPipeline`, `ClientLifecycle`, `NeowiseFleet`, INSTANCE `ZeroBusClient` |
| `Delivery_proofs` | theorems about each of the four it extends, and about all of them | EXTENDS `Delivery` |
| `Regatta`, `Weather` | the race and the wind of `data_drifter` | |
| `Field` | collectors and simulators, part by part | EXTENDS `Regatta`, `Discovery`, INSTANCE `Weather`, `OpcuaRelay`, `OpcuaDirect`, `TagStream` |
| `Field_proofs` | theorems about each of them, and about all of them | EXTENDS `Field` |
| `MCDelivery`, `MCServices`, `MCField` | values of constants for TLC | EXTENDS the module they are for |

The composition follows contracts. `BatchPipeline` does not contain the spool: it uses
`RecordBuffer`, and `Backpressure` is proved to implement exactly that module
(`ImplementsBuffer`) and checked to hand out what it holds (`HeldRecordLeaves`). It does not
contain `ZeroBusClient` either: True, False and partial sends are its contract, which
`TrueMeansHandedOver`, `RetriesRepeatAPrefix` and `SenderRecovers` establish there.
`ZeroBusControl` in turn only starts and cancels the processors of `BatchPipeline`, and
`ConfigFile` takes the requests one after the other whose overlapping is `SourceControl`'s.

**Suites.** `Delivery`, `WebRequests`, `Services` and `Field` each put several components into
one state machine, so that one run checks them all. Their `Init` chooses a `part`; each behaviour
takes the steps of that component only, all other variables keep an initial value. The
components share no variable, so the behaviours of a suite, seen through the variables of a
part, are those of that part's module and no others; what a suite checks of a component holds
of the component alone. The state space is the sum of the parts', not their product. As
the suites are parameterised like any module, this is proved too: the specification of a suite
implies that of each part (see Proofs).

Operators whose name ends in `_Something` are faulty versions of the operator before the
underscore: each property was shown to fail when the code had that mistake. They are used
nowhere else.

### ZeroBusClient

State: `cb` (the breaker), `stream` (`self._stream`, with "closed" for one the server
closed unnoticed), and per caller the await it is suspended in (`pc`), its attempt, batch
and position. `Call` is `send_batch` up to its first await: the breaker is asked there, once.
`Connect`/`ConnectFails`, `Ingest`/`IngestFails`/`IngestOnClosedStream`, `StreamDropped`
and `Retry` are the returns of `create_stream`, `ingest_record`, `stream.close` and
`sleep`; `Cancel` is a task cancelled at any of them. Time is the age of the last failure in
ticks, saturating at the timeout, because the code only compares it with the timeout;
`failure_count` saturates at the threshold for the same reason. `trials` and `landed` are
history variables: successes since the circuit last left "closed", and how often each
record of the current call was handed over.

### Backpressure

State: the memory queue, the tasks `_on_record` created that have not run, the records
being written, `spool_files`, the two directories, each consumer's await, the counters.
Every step between two file operations is one action. The awaits around the spool are what
matters: the size is checked before the write and the file is listed after it; the first
file stays in the list while it is read, so two consumers may read it; the move to the DLQ
renames, awaits, and then pops. `Restart` empties what lives in memory, and the constructor
does not look at the directory. The drop policy is chosen in `Init`.

### BatchPipeline

One processor per target: loop (dequeue, gather, decide), send, sleep after a failure,
final flush. Who decides between flushing and going on is the batch size and a timeout the
model leaves open. `stop()` is `StopFlag` followed by `StopCancel`; `stop_zerobus` and
`start_zerobus` are one step each here (their interleavings are `ZeroBusControl`'s).

### ClientLifecycle

`pc` is the await the lifecycle task is in, `client` is `self._client`, `up` says whether
the device can be reached. The protocol is chosen in `Init`, so that one state space holds
OPC-UA polling, OPC-UA subscriptions, and MQTT. The differences are the code's: only the
OPC-UA client has a `stop()`, and only its `connect` forgets a client that could not connect.
A session on the device is not the same thing as `client`: `stop()` may
disconnect the object while `connect()` still awaits it and set `_client` to None, and that await
may succeed all the same. `stray` says that there is such a session, which nothing leads to, and
the history variable `caught` that `stop()` came upon a `connect()` that way. The Modbus client
raises from `connect()` but never while it polls: once connected, its lifecycle does not leave
that loop, and it is not one of the protocols here.

### SourceControl and ZeroBusControl

A request is a record of what it awaits and what it holds in local variables. When a task ends,
asyncio puts those who wait for it at the end of the queue of what is ready, so other requests may
run before any of them and between two of them: a joiner is resumed at any time after the end of its
task, and goes by the tables as they are then. In `ZeroBusControl` the loops over the table of
clients are modelled with the `RuntimeError` Python raises when the table changes size (that of
protocol clients may also change under `stop()`, which then ends before it reaches the ZeroBus
side), and the processors started for a target are numbered, so that `batch_tasks` holds the number
of the last one entered.

The code lets some requests interfere. Two history variables say when that has happened, and the
properties concerned hold until then: `raced` (the names of sources that got a new task while a
request that had joined the old one was not resumed yet) and `clashed` (a start ran beside another
start or `stop_zerobus`, or `start_infra` found clients connected). That these exceptions, and no
others, are needed is what the runs show.

### NumericCompression

`last`, `sdt` are the bridge's two dictionaries for one tag; the policy is chosen in `Init`.
Samples have any event time, also older than the previous one. Values and times are
integers and slopes exact fractions (the code has floats), so rounding is not part of the
model. `sent`, `got`, `segment`, `sample` are history variables: what the receiver got, and what
was withheld since.

### TagPaths and TagStream

`TagPaths` computes what the code computes: the levels read off a topic, a node id or a browse path,
the template and the fallback, the grade of a reading; segments are strings taken as they are.
`TagStream` follows one source, chosen in `Init` (polled Modbus blocks, polled OPC-UA nodes read at
the same time, OPC-UA data changes, MQTT messages of which some do not parse) with normalization on
or off. With it on, the default, the client's normalizer yields a dictionary that `_on_record`
counts and cannot take, the client calls again with the raw record, and the bridge normalizes raw
data that name no variable. What the filter makes of the readings of one batch is a recursive
function over it (`Filtered`), and a message that does not parse, or has no topic the normalizer
knows, is a reading of its own kind.

### ConfigFile, CredentialStore, EncryptedConfig, CertificateStore, LogRotation

Files are modelled by what a reader can make of them: absent, emptied by `open(..., "w")` and not
written yet, whole, torn. Every write is at least two steps, so that a kill falls between them.
`CredentialStore` and `CertificateStore` have a second process (the command line); `EncryptedConfig`
has two processes on one key file. A key is the number of the file it came from, an encrypted value
the sequence of keys it is encrypted under, so encrypting twice or losing a key shows. The history
variables `clash`, `trouble`, `raced`, `torn` say when something happened the code does not survive
(two updates at once, a removed key file, two processes making one key, a configuration that could
not be written, which the handlers take no notice of: `SaveFails`); the invariants hold until then,
and say so. `ConfigFile` keeps the set of the names of a list of sources: an entry that is there
twice is removed, renamed and started with its double, in the code as in the model.

### IncidentResponse, VulnerabilityTracking, AnomalyDetection

The detector's buffer is trimmed at every event at the very age its rules may count back to. Events
are stamped in UTC; the process reads the stamps as local time (`ParseTimestamp`), at an `offset`
chosen in `Init` that does not change, so ages are off by it. Saving is an await after the table
changed (`saving`), so a crash may leave a torn file; the restart reads what it can. Events and
alerts have numbers, so that the lists the code keeps of them are sets here, and an event is what
its origin and its category make of it. A scan awaits one scanner after the other and adds all
results at the end, while people change what is known; one full scan runs at a time. Means and
deviations are exact rational arithmetic on the window, compared by their squares.

### SalesforceSubscriber and SalesforcePipeline

An event is its place in the stream, and a replay id is the number of an event. Both models
have a server that keeps a position and a number of events it was asked for, a table, records
the ZeroBus stream took and did not make durable yet, and restarts. The Python model has the
thread that subscribes and runs the callback, the generator that waits for a permit (also
those of dead streams, which wait on with the same semaphore), and the thread that creates the
table, recovers the position and forwards. The Go model has the subscriber with its two
goroutines per stream, the bounded channel, the forwarder, and the context that the first
failure or a signal cancels. `lost` is a history variable: the events that the code knowingly
gives up (started at LATEST, not decodable, in a stream that was dropped); `Gapless` says that
no other is missing below a row of the table.

Both assume that the numbers that size them are at least one, the Python model a cache of at
least two (of a full cache half is forgotten, and half of one is nothing: the set would grow).
The real cache holds 10,000.

### NeowiseFleet

Every worker of the fleet derives the same plan: of each year's list of files, every
`TOTAL_WORKERS`-th, starting at its own index, at most `FilesPerYear` of them. The cursor is the
code's: year, file, the batch the reader has yielded, the row in it; each of them moves before
the call that may raise, which decides what a fault passes over. A stream keeps the rows it took
until they are acknowledged; one that raises is replaced, and its rows go down with it
(`orphaned`). Locust starts a dead user again, from the start of its slice, which repeats
nothing because only a user that has not sent anything dies. One user per worker is assumed, as
`locustfile.py` starts them. With `FILES_PER_K0=1` a worker takes at most 12 files of a year, so
512 workers or fewer leave files to nobody; `FleetCovers` states what a fleet must meet.

### OpcuaRelay and OpcuaDirect

Records are numbered as they are polled. The relay's poller writes what it cannot publish to a
backup file, which it drains, line by line, when it is connected again; the agent takes a
batch out of RabbitMQ, ingests it, and acknowledges it or gives it back. The direct client
has one buffer and one backup. Failures strike at every step. `lost` and `expired` hold the
records a stop or an unexpected error caught in memory, that the disk refused, or that the
broker's time limit took.

### Discovery

Each scan is a set of protocols under way, each at a batch of hosts; results are put into the
cache as a batch comes in and again at the end of the scan. The answers of one batch come in
one step (the connections are gathered). `firm` is a history variable: the endpoints that stayed
as they are all through a scan. Another scan may overlap it; what is promised of a scan holds
all the same.

### Regatta, Weather, SmartFactory

The boats' positions are not computed: what the land mask and the wind say to a boat is an
input of each step, and the model keeps the decisions (tack, back out, give up, finish) and
the counters behind them. The wind turns on a circle of a few directions and is
posted when it changed enough, or another event is on. The station compares with what was
answered last (`posted`); what the service has stored last (`table`) may be something else, when an
answer was lost. In the smart factory a broadcast awaits each page while
connections join and leave the list it iterates over; what it could not send to is taken off
the list at its end (`Without`), by the first entry that equals each, as `list.remove` does.

## Runs

All bounds are in the `.cfg` or the `MC` module. Under a fault bound, faults may fall on any
step.

| Run | Shows | Bounds, and why they are enough | States |
|---|---|---|---|
| `delivery` | compression, sender, processors, lifecycle, fleet: see the properties below | 7 policies, 5 samples at times 0 to 5, values that leave and re-enter the door, one that is text; batches of 1 or 2, 3 attempts, threshold 2, 2 test calls, one cancellation: a circuit can open in the middle of a call, half-open, and fail again; 3 records, 2 targets, batches of 2, one record no table accepts, one `stop_zerobus`; nine doublings of the delay (1 s to 300 s) and three empty polls are the real values; 2 workers with 2 streams, files of 2, 0 and 1 rows in one year and none in the next, batches of 2, one fault: it may fall on a listing, a file, a batch or a stream | 125 thousand |
| `requests` | the tables agree, requests return, pages catch up | 2 names, 2 entries of one name in the list of sources, 2 requests, 3 tasks: each request may meet the other, and a start, at every await and before it is resumed; 1 target, 2 requests of any kind, 2 clients and 2 processors (the invariants, and the inductive one of the proof, were also checked with 2 targets, 1.5 million states); 2 simulator tasks, 2 pages, one fault, one reset (the second page and the reset not in one behaviour, as they do not meet) | 166 thousand |
| `client_duo` | breaker consistent, True is honest, duplicates are a prefix, closing is earned | two callers, 2 attempts; a third caller adds no new way to lose the stream between two records | 182 thousand |
| `spool` | all promises of the manager, refinement of `RecordBuffer`, progress | 4 records, a queue of 1, room for 2 files, 2 consumers, each drop policy, one cancellation, one restart: queue full, spool full, concurrent writes and reads all occur | 116 thousand |
| `salesforce_python` | no gap, no duplicate while remembered, delivery | 3 events, batches and cache of 2, one retry, one failure, two starts, recovery after 2 timeouts: batches of nothing but duplicates, a cache that forgets, a stale generator that takes a permit | 290 thousand |
| `salesforce_go` | no gap, shutdown ends, delivery | 3 events, a channel of 1, one failure, two starts: the receiver blocks on the channel while the forwarder sleeps | 275 thousand |
| `services` | see below | per part: 3 events from 2 users, local time behind UTC, at it and ahead of it, a crash; 2 vulnerabilities, 2 scanners, 2 scans, a crash; 12 samples or 7 logins (the code's minimum of 30 samples is 11 here, the least at which a first outlier can be three deviations off); 2 processes, 2 passwords, 2 updates, a crash; 2 sources, 3 requests, a crash or a write that fails; 3 backups, 5 entries; certificates valid for 2 of 3 days; 4 runs of the two programs, 3 keys | 786 thousand |
| `field` | see below | per part: one boat with every combination of land, wind, mark and finish at each step (boats do not influence each other); 8 directions, wind speeds 0 to 3, one shift and one gust of more than the thresholds; 2 or 3 polls of 2 lines, batches of 2 or 3, 2 or 3 failures; five sources of 1 to 3 variables, 2 changes, one failed read; 3 hosts in batches of 2, one change, one triggered scan beside the periodic one | 199 thousand |

What the suites check:

- `delivery`: `ReceiverIsClose`, `ClosingKeepsTheCurve`, `AnchorIsSent`, `SilenceIsBounded`,
  `EmittedInOrder` (compression); `SenderRecovers` (calls return, and a service that stays up gets
  its circuit closed for good); `PipelineSound`, `RecordsAreDelivered`; `LifecycleSound` (nothing
  live is held after `stop()`, and no session is left but by a `connect()` it caught),
  `ClientsNoticeAndStop` (dead connections are noticed, `stop()` ends); `FleetSound` (rows sent at
  most once, idle workers done, a whole fleet covers all files, `on_stop` leaves no row in a
  stream).
- `requests`: `SourcesSound` (tables agree, no orphan task, what is active is configured),
  `StopMeansStopped`; `ControlSound` (processors known, quiet and closed when disabled),
  `ShutdownEndsProcessors`; `EveryRequestReturns`; `PagesCatchUp` (open pages listed once and
  showing what was broadcast, dead ones dropped).
- `services`: `MonitoringSound` (one open incident per matter, no alert lost, decisions kept, no
  time anomaly at midnight, no alarm on a constant), `FilesSound` (credentials, sources, log
  entries, certificates and secrets survive), `SignalsAreHeeded` (bursts answered, within what the
  offset from UTC leaves of the timeframe; scanned vulnerabilities open, the first outlier
  critical).
- `field`: `FieldSound` (stuck boats were near land for the whole time, fates reported, the
  wind in its band, no record vanishes, the filter remembers what the receiver has),
  `TacksAreApart`, `ScanIsComplete`, `ManoeuvresEnd` (crews react to the wind; every shift and gust
  ends, and once requests fail no more its end is in the table again and again),
  `BackupsEmpty`, `ViewsCatchUp`.

Four runs state what the repository says of itself and find a counterexample:

| Run | Property | What happens |
|---|---|---|
| `lifecycle_reconnect` | `Reconnects` | the cleanup after a failure calls `stop()`, which sets `_stop_evt` for good: the reconnected OPC-UA client returns from `subscribe()` at once and never collects again |
| `pipeline_routing` | `SourcesAreRouted` | all processors take from one queue, so a record goes to the target of whichever took it |
| `tags` | `TagsStayApart` | with normalization on, the bridge files all variables of a source under one path, and the filter compares one variable with another |
| `salesforce_transient` | `TransientErrorsAreRetried` | sending a FetchRequest on a stream the server closed returns `io.EOF`, which counts as not retryable and ends the whole program |

### Fairness

Fairness is asked only of what the event loop, threads and bounded awaits give. A task that is
ready runs (asyncio's queue is first in, first out), a sleep or a timeout ends, file
operations and SDK calls return or raise. Nothing is asked of the environment: a service or a
device need never come back, nobody has to start, publish or stop anything. Faults are bounded
in the models of the Salesforce and OPC-UA clients and of the benchmark and unbounded in those of the connector.

Some places go further and say so. `BreakerRecovers` supposes in its premise that the service
stays up and only well-formed batches are under way, and fairness there has the processor call
again (it does, every five seconds). `BatchPipeline` has strong fairness of a successful send,
that is, a service that is up often enough, which `BreakerRecovers` justifies; the weather
station has it of a post the table accepts, and `OpcuaDirect` of a poll that finds the batch old
enough.

In a suite, fairness conditions of different parts are merged into one condition on the
disjunction of their steps. As a behaviour follows one part, the other disjuncts never happen
there, and the merged condition says of each part what its own module's does (or less: several
steps of one part that exclude each other share a condition). Liveness is stated as `[]<>P`,
with P true in the states of behaviours that follow another part.

## Proofs

All proofs are for every value of the constants that satisfies the named assumptions, which say that
counts, sizes and limits are numbers, that those the code divides by, subtracts from or needs to be
positive are (`BreakerAssumption`, `ClientAssumption`, `BackpressureAssumption`,
`PipelineAssumption`, `LifecycleAssumption`, `SourceAssumption`, `ControlAssumption`,
`FleetAssumption`, `SubscriberAssumption`, `TimeoutsAssumption`, `RegattaAssumption`,
`DiscoveryAssumption`, `DirectAssumption`, `RelayAssumption`, `FactoryAssumption`,
`RulesAssumption`, `DetectsAssumption`, `StoreAssumption`, `ConfigAssumption`, `LogAssumption`,
`CertificateAssumption`, `CryptAssumption`), that every racing strategy waits longer between two
tacks than a boat is held in irons or turned away (`RegattaAssumption`; `racing_strategy.py`), and
that compression policies have the fields and types of `CompressionPolicy` (`PolicyAssumption`).
Three assumptions say more, each for a reason in the code. A window has 11 samples before anything
is compared, the least number at which one sample can be three deviations off, and at most 805 of a
user's logins are compared, the number up to which the argument about midnight goes; the code waits
for 30 samples of 1000 and compares 100 logins (`CountsAssumption`). The variation of the wind and a
shift together are less than half a turn, or the way to the target could lead out of the band
(`WeatherAssumption`; the configuration has 90 degrees and at most 40; its speed limits are at least
two knots apart there). And what `TagStream` reads is a source (`StreamAssumption`). The suites
assume what their parts do (`DeliveryAssumption`, `RequestsAssumption`, `ServicesAssumption`,
`FieldAssumption`). The bounds of the runs (events, faults, starts, records, tasks) are constants
like the others: the theorems hold for each value of them.

Each proof has an inductive invariant, checked with TLC first and then proved to hold initially,
to be kept by every action, one lemma or step per action, and to imply the property of the run.

**ZeroBusClient** (any number of callers). The inductive invariant is
`IInv == TypeOK /\ CircuitConsistent /\ TrialInv /\ CallInv /\ LandedInv`. The invariants of
interest are not inductive alone. That a circuit closes only when earned needs `TrialInv`,
which ties the breaker's own `success_count` to the successes since it went half-open. That
True is honest needs `LandedInv`: every position before the one a caller works on has been
handed over in this call, in the current attempt, and what earlier attempts handed over is
a prefix. `CallInv` bounds the position by the batch and the attempt by the limit, which
`TypeOK` needs to be preserved by `Ingest` and `Retry`. From it follow `TypeCorrect`,
`BreakerSound`, `TrueIsHonest`, `DuplicatesAreAPrefix`, and the action property
`ClosingIsEarned`.

**Backpressure** (any number of records and consumers, every queue, spool and drop policy).
`SpoolSound` talks about the list of files and the directory; what keeps it true is where every
record is. `PlaceInv` says that a record that arrived is in exactly one of task, memory, write,
spool, DLQ, taken and lost, and in a queue once; `FileInv`, that the file a suspended consumer
works on is one it moved itself, or one that was complete when it began to read and is now
where it was, moved or taken. From that follows that a late reader pops its own file or none.
`OvershootBounded` is inductive with the types. `BackpressureImplementsBuffer` is the step
refinement: under the mapping `ImplementsBuffer` each step is a step of `RecordBuffer` or a
stutter, so what `BatchPipeline` assumes of its buffer is what the manager does, at any size.

**BatchPipeline, ClientLifecycle, NumericCompression** (`Delivery_proofs`). `PipelineSound` is
inductive as it stands: `AccountIsKept` reduces a step to what is new in the buffer and what leaves
a batch. `LifecycleSound` needs `QuietIsDisconnected` (a lifecycle that sleeps between two attempts
or has ended holds no live client: every way out of what follows `connect()` closes it or finds it
dead, for OPC-UA and MQTT by different ways), `DoneIsEnded`, and `StraysAreCaught` (a `connect()`
under way has its client unless `stop()` took it away, so the lifecycle's own failures and retries
never leave a session behind). For compression, `DoorInv` says that an initialized door hangs on the
last point sent, that no sample seen since is older, and that a door whose last sample is as old as
its anchor is still unnarrowed. The last part is why a closing door always emits a *later* point:
`FreshDoorStaysOpen` shows that the first sample cannot close the door, so the previous point is not
the anchor. `OfferCases` describes `offer` by outcome and carries the rest: `AnchorSent`,
`SilenceBounded`, `InOrder`.

`ClosingKeeps`, the promise of the swinging door, is about all samples since the last point at
once, while the door remembers two slopes. `CurveInv` says what the slopes are for: they are
fractions, the lower not above the upper, and each sample since lies within them (`Admits`), the
last one kept among them. The door narrows by taking the greater of two lower slopes and the
lesser of two upper ones, so it goes on admitting what it admitted because the order of fractions
is transitive (`AtMostTransitive`, `Chosen`); `LineIsClose` is the geometry: two points a door
admits are within twice the deviation of the line from the anchor to the later one. It says
nothing of points a minimum interval suppressed, which never passed the door.

**SourceControl** (any number of sources, requests and tasks). `Joining` says what a request that
joined a task may rely on, however late it is resumed: the task is cancelled, and as long as its source
was not started again the table can only have been emptied of it. A start before that puts the
name in `raced`, where the promise ends, as it does in the code: the request then pops the new task.
`SourcesCorrect` and the action property `StoppedSourceIsQuiet` follow.

**ZeroBusControl** (any number of targets, requests, clients and processors). `ControlSound` says
what holds once all requests are done; the invariant has to say what holds while they are under way,
as long as none clashed. `StartsAlone`: while a start connects, no other start and no `stop_zerobus`
is under way, nothing works, and the targets still to come have no client, so no client is
overwritten. `StopsQuietly`: from the cancellation on nothing works, and what is still open is still
on the list to be closed, which is why `stop_zerobus` ends with no stream. `WorkIsKnown`,
`StreamsAreHeld` and `OffMeansNone` tie the processors, the streams and the flag to the two tables.
A start that finds no client therefore starts among processors that are all cancelled or ended
(`NoneIsQuiet`), and what works afterwards is what it entered (`StartedProcessors`). None of the
five holds after a clash.

**SmartFactory** (any number of pages, simulator tasks and faults). A broadcast awaits each page
and takes those that failed off the list at its end, when it is another list. What keeps it from
removing an open page is `Buries`: what a broadcast took for dead is gone or closed, and stays so,
as a page that comes back is a new connection. `PagesInv` says that the list has each page at most
once and every open one; that `Without` keeps both (`WithoutFacts`) is shown by induction along
the list.

**NeowiseFleet** (also in `Delivery_proofs`; any number of workers up to the stride, any files,
streams and faults). `Behind` says which rows a worker's cursor is past; `RowInv`, that a row was
sent or skipped exactly if it is behind some worker, and `Whereabouts`, where a sent one is.
`OpenInv` and `CursorInv` describe the cursor at each await, `StreamInv` the streams of a stopping
user. That two workers never share a row is arithmetic on the stride (`StridesApart`), that a whole
fleet leaves none out is `StridesCover`.

**SalesforcePipeline and SalesforceSubscriber** (any number of events, faults, retries, starts;
any channel, batch and cache). `Gapless` is not inductive: it speaks of the table only, and what
keeps it is the order in everything that is on its way to the table. `StagesInOrder` says of each
stage, from the table back to the stream, that an event older than one in it is before it
there, further on, or given up; so what a crash or a dropped stream takes away is never older
than what is further. `ResumesInTime` says that every place a
stream may go on from (the server's cursor, the last event processed, the replay id now and at
the start, the one read from the table) is behind what was received, so nothing is skipped by
resuming. For the Python client `CacheRemembers` says that a cache that never had to forget holds all
that was queued; it needs the cache along one response (`TrailFacts`): after each event it holds
nothing but what it held and what was fresh, and all of it while everything fits. `TableFirst`
and `Limits` keep the types: nothing is forwarded before there is a table, and the server is asked
by a permit. `EventOrder` has the lemmas both proofs share.

**Regatta** (`Field_proofs`; any fleet, coast, wind and limits). `RegattaSound` compares a boat
with what happened to it over many steps. `CountsInv` relates the
counters the boat keeps to what really happened: a boat that sails has been stuck for less than
`MaxStuck` steps and never for longer than it was near land, one that is out as stuck was near
land for `MaxStuck` steps, and until `IronsTime` the steps since the last tack are at least what
`sailed` counts. `TableInv` says of every boat whose last record could be out of date that it is
among those whose record of this step is still to be sent. `TackingIsSpaced` follows from the first, case by
case through the reasons to tack.

**Discovery** (any addresses, batch size, protocols, triggered scans). `BatchKnown` says that the
answers a scan waits for are, for servers that did not change, the answers they would give now;
`PastFound`, that whatever was up in a batch before is among what was found. With `BatchesCover`
(rounding up leaves no address out) the end of the scan puts all of them into the cache. The
proof never looks at other scans, so the property needs no exception for scans that overlap.

**OpcuaDirect and OpcuaRelay** (any number of lines, polls, batch size and failures). Both promise that
no record vanishes, and both proofs ask when a record may be forgotten. The direct client
forgets its backup when ZeroBus has all of it (`DirectInv`). For the relay, `PollerInv` says that
what the poller counts as sent, of a poll or of the backup, is in RabbitMQ, with the agent or beyond
(`Handed`), so it may drop it when the count is full; `AgentInv`, that what RabbitMQ delivered is the
agent's batch as long as it is connected, and that ZeroBus has the batch before it is acknowledged. A
connection lost in between requeues the batch, and the agent then acknowledges nothing.

**Weather** (any circle, band, limits and rates that fit). That the wind stays in its band is not
inductive: a shift moves towards its target by the shorter way around the circle, and the shorter
way may lead out of the band. `Heading` says that it does not: direction and target are both in the
band and, along it, less than half a turn apart, and every step keeps that. The rest of `WindInv`
has the speeds of a gust, to and from which it is moved.

**TagStream** (any sources, tags, values, batches, normalizers and failures). `Remembers` says
that of a variable with a path of its own the filter has what the receiver has. A poll handles a
batch of readings in one step, so `FilteredKeeps` goes along the recursion over it; `FilesTags` ties
the paths in the memory to the variables whose records were filed there.

**Services** (`Services_proofs`; each for any number of what it handles, and any number of crashes,
updates, processes and restarts). All eight are about files that tell a later process something.

- *Incidents*: `Numbered` (identifiers without gaps), `Filed` (the file of an incident not being
  saved tells its matter, a file without an incident is torn) and `Heard` (the buffer lost events to
  age only, as the process reads ages). `BurstMatches` compares the three edges, of the timeframe,
  of the buffer and of what the offset makes of both, and `BurstsAnswered` follows, for any
  timeframe, longer than the buffer's age too. That no alert is lost holds until a torn file makes
  the next identifier one that is taken; then it is taken for good, which is what makes the exception
  inductive (`AlertsInv`).
- *Vulnerabilities*: `FilesTell` (memory and files agree but for what is being saved or was torn) and
  `SeenInv` (what a finished scanner saw and nobody changed since is found, or known and open).
- *Anomalies*: about sums. `SumsFacts` gives the sums over a window, by induction on its length;
  `OutlierIsFar` shows that a value after at least ten equal ones is three deviations off, whatever
  the values are; `MidnightIsNear` that of logins at 23 and at 0 none is two deviations off, although
  mean and deviation do not go round midnight and the distance does.
- *Credentials*: unless calls clashed, at most one is at work (`AloneInv`). `CallInv` says what each
  of its awaits may rely on, `WholeInv` that the file is under the salt in the salt file and holds
  what was set.
- *Configuration*: `Agree` ties the file, or what is being written to it, to the bridge, until a
  write is cut off or fails.
- *Logs*: `Ordered`, `Vacant`, `Aged` follow the entries through each step of a rollover that may
  be killed or fail to compress: backups in order, no file renamed onto another, no entry further
  than its rollovers. `Due` says what this rollover has still to move.
- *Certificates*: `PairInv`: one process at work, a certificate that would be kept has its key.
- *Encryption*: `OnceInv` (one key around a value at most, always) and, unless something failed or
  two processes raced for the key, `OneKeyInv` (the key in the file is the one in every process and
  around every value).

**Suites.** For `Delivery`, `WebRequests`, `Services` and `Field`, `OnePart` shows that every step
is a step of one part and leaves the variables of the others alone. So the specification of the
suite implies that of each part (`SourcePart`, `IncidentPart`, `WeatherPart` and so on), and with
the theorems above `DeliveryCorrect`, `RequestsCorrect`, `MonitoringCorrect`, `FilesCorrect`,
`SignalsHeeded` and `FieldCorrect` state the invariants of those runs for every value of their
constants (what the sender keeps is proved of `ZeroBusClient` itself). `SignalsAreHeeded`,
`TacksAreApart`, `ScanIsComplete`, `StopMeansStopped`, `ClosingKeepsTheCurve` and `EmittedInOrder`
are action properties and proved as such.

**Only model-checked**, and why: everything under fairness, as the prover does not handle liveness:
`SenderRecovers`, `RecordsAreDelivered`, `ClientsNoticeAndStop`, `HeldRecordLeaves`,
`EveryRequestReturns`, `ShutdownEndsProcessors`, the two `Delivered`, `ShutdownCompletes`,
`ManoeuvresEnd`, `BackupsEmpty`, `ViewsCatchUp`, and of `PagesCatchUp` all but `FactorySound`. Every
invariant and every action property of a passing run is proved. What rests on the runs alone
besides liveness is that the operators of `TagPaths` name a tag as intended (they appear in the
proofs as they stand), and that the properties of the four runs that find a counterexample fail.

## Divergences met while modelling

Beside the four runs that find a counterexample, the models show or had to be given the following, kept here in
prose. The models do what the code does.

### The connector (paths under `unified/`)

- `core/zerobus_client.py:433`: the breaker is asked once per batch. When the failures of a
  call open the circuit, its remaining attempts are sent all the same; line 28 says of OPEN
  "Failing, reject requests".
- `core/backpressure.py:65`: the list of spool files is only in memory. After a restart nobody
  loads what is in the directory, although the connector's README (line 633) recommends the
  spool "for data loss prevention".
- `core/backpressure.py:166`: memory is drained before the spool, so newer records overtake
  spooled ones, although line 160 says the spool "ensures FIFO".
- `core/unified_bridge.py:992`: `stop()` cancels the processors at their await, past the code at
  line 874 that flushes "remaining records on shutdown".
- `core/unified_bridge.py:866`: a batch refused for a schema error is kept and tried every
  five seconds for ever, and everything its processor would have taken waits; the "Dead
  Letter Queue (invalid/failed records)" of `core/backpressure.py:33` is never used for it
  (`send_to_dlq` has no caller). `RecordsAreDelivered` excepts it (`Poisoned`).
- `core/unified_bridge.py:389`: the MQTT client has no `stop()`. The `AttributeError` skips
  `disconnect()`, so after a failure `connect()` finds the old client and does nothing; and
  `stop()` (line 987) waits for an MQTT task that nothing ends. `StopCompletes` excepts it.
- `core/unified_bridge.py:455-462`: a request that joined a task pops by name when it is resumed. If an
  `update_source`, or another stop and a start, entered a new client meanwhile, it pops that one,
  which goes on collecting outside the tables (`raced`).
- `protocols/opcua_client.py:236`: `disconnect()` during a `connect()` forgets the client (line 282);
  the connection that may still come about has no owner, and subscribing fails with "Not
  connected". `SessionsAreHeld` excepts it (`caught`).
- `core/unified_bridge.py:1091`: `add_source` looks at active clients only, so a name that is
  configured and stopped can be configured twice.
- `core/unified_bridge.py:1170-1181`: two `start_zerobus` requests both pass the check and
  the second overwrites the processors of the first; line 279: `start_infra` after
  `start_zerobus` replaces clients whose streams nobody closes (`clashed`).
- `core/unified_bridge.py:183`: `stop()` leaves `running` set, so `start_infra` afterwards
  returns at once, with `_shutdown` still set: a stopped bridge is never started again.
- `core/unified_bridge.py:757`: `last_emitted_by_key` is set before the record is queued; a
  record that backpressure drops counts as sent.
- `core/unified_bridge.py:525` and the clients: with normalization on, `_on_record` raises on the
  client's dictionary after counting it, so metrics count a record twice. `path_template`,
  `default_context` and `quality_mapping` of the configuration are never read.
- `core/numeric_compression.py:130`: a closing door emits the previous point however near it
  is to the last one emitted; samples suppressed by the minimum interval never pass the door.
- `__main__.py:122`: cancelling the start task raises `CancelledError`, which
  `except Exception` does not catch, so `bridge.stop()` is skipped.
- `protocols/base.py`: `run_with_reconnect`, `request_stop` and `test_connection` have no caller,
  nor has the factory's `detect_protocol_type`. The Modbus client does not raise once it is
  connected, so it is never reconnected by the lifecycle; polled OPC-UA values always have the
  status "Good".
- `web/web_server.py`: the handlers load `ConfigLoader()` without the path of `--config`;
  `get_sources` goes on listing a removed source; a crash in the middle of a save leaves an empty
  `config.yaml`, with which the connector does not start, and so may a save that fails
  (`core/config_loader.py:177` returns False; only `update_zerobus_config` looks at it, the other
  handlers report success).
- `core/discovery.py:171`: of two scans that overlap, the older may end last and put its older
  answers back; servers that are gone never leave the cache; a triggered scan outlives
  `stop()`. The four `protocols/*_discovery.py` have no caller.
- `core/credential_manager.py`: an update on a file that cannot be decrypted starts from an
  empty dictionary and overwrites the rest; two updates at once lose one; two processes may make
  two salts.
- `core/encryption.py`, `config_encryption.py:370`: a process killed while it made
  `encryption.key` leaves an empty file that is never made again, and the migration then keeps
  the plain text and reports success; two processes that make the key at once leave values
  nobody can decrypt, and the loader uses the text `ENC[...]` as the value. The web handlers save
  the decrypted configuration, although `web_server.py` says client_secret "MUST NOT be written".
- `core/tls_manager.py`: a key and a certificate that do not match make the web server start
  without TLS (`web_server.py:164`) until the certificate is about to expire; despite line 8
  ("Certificate renewal automation") it is renewed only at a start; a required client certificate
  without a CA refuses everybody; IP addresses end up as DNS names.
- `core/advanced_logging.py:195`: an incomplete `.gz` is passed on and its original removed;
  the archive overwrites files of the same number; retention deletes the oldest files of the
  archive, audit logs too, where line 387 says "never delete audit logs during retention".
- `core/incident_response.py:390`: the `Z` of a UTC stamp is dropped and the rest read as local time.
  East of UTC rules count over timeframes that are shorter by the offset (a rule of
  minutes then counts nothing at all), west of it over longer ones, and the buffer is trimmed
  accordingly. `BurstIsAnswered` promises what is left of them (`Late`); with `Late` put to 0 it is
  violated in a few steps.
- `core/incident_response.py:407`: one event with an unreadable timestamp makes the cleanup raise
  for every later event; line 497: after a torn file the next identifier may be taken.
- `core/vulnerability_management.py`: a rescan replaces the record and with it notes and the
  accepted risk's reason; what is patched during a scan is reopened; the results of
  `scan_containers` are not used.
- `core/anomaly_detection.py:635-707`: creating an incident from an anomaly always fails;
  identifiers collide within a second; `process_data_volume` has no caller.

### The Salesforce clients

- Python: `acquire()` sends a FetchRequest whenever it times out; recovery releases a permit *and*
  counts as an acquire; keepalives release permits; the generator of a dead stream may take one.
  `attempt` is never set back, and the channel recreation is not reached. `RESOURCE_EXHAUSTED`
  before the first event resumes at LATEST; the cache drops an arbitrary half; a batch of nothing
  but duplicates releases no permit (the timeout rescues it). What cannot be decoded or forwarded
  is dropped, despite "Zero Data Loss"; a failure while the third thread sets up ends it, and
  nothing is forwarded.
- Go: `break` in a `select` (`client.go:244`) leaves the select only; an event that cannot be
  decoded is dropped, and `recreateStream` loses what was not durable, where `forwarder.go:46`
  says "Events are never dropped"; `TableExists` never reports an error; `attempt` is never
  reset; the forwarder sleeps with its mutex held; `RecreateConnection` has no caller.

### The OPC-UA clients and the demos

- Relay: a failed drain at start ends the process; a nack loses that poll; a whole poll is saved
  after part of it was published, so records come twice; what stays longer than the message
  time-to-live is lost. Direct client: SIGTERM raises `SystemExit` and the buffer is neither
  flushed nor saved, against the docstring's "Graceful shutdown on SIGTERM".
- Regatta: the estimate of the distance to land can never fall into the warning zone; near land
  every step restarts the reverse maneuver, so it does not time out (`sailboat_telemetry.py:510`);
  an unlimited race with a boat that is out never ends; the first record that cannot be sent
  ends the program. Weather: the band holds only while variation and change together stay
  below half a turn; a record that was stored without an answer stays the last one in the table
  until the wind differs from the last one that was answered (`weather_station.py:230`).
- Smart factory: a stop that returns late forgets a newer task (`app.py:266`); tables are
  truncated while the pipeline runs (`app.py:315`); once the client falls back to SQL it stays there.

## Not modelled, and why

- `protocols/*_discovery.py`: nothing calls them. `protocols/base.py`: neither.
- Web authentication and authorization, input validation, structured logging, the protocols'
  security options: sequential filters and conversions without state that several steps share.
- A change of the offset from UTC while the process runs (daylight saving), and stamps that carry
  another offset than `Z`. A configuration of the normalizers without patterns (each protocol is
  shipped with some).
- `__main__.py`: start and stop are `ConfigFile`'s `Start`, `StartBridge` and `Exit`; the order of
  the shutdown and the divergence at line 122 are not part of it.
- Vendor detection, unit conversion, multi-register data types, the merging of compression
  rules: pure conversions of one record.
- The time-based log handler, log search and statistics; `encrypt_file`, `decrypt_file` and the
  password hash of `encryption.py`, which have no caller; the fallback directory of the credential
  manager on a `PermissionError`; `EncryptedConfig` has the loader at the start only.
- A torn last line of the OPC-UA relay's backup; the physics of boats; SQL behind the pages.
- The blocking and asynchronous entry points of the Salesforce client besides `start()`.
- Before Python 3.12, `wait_for` may lose the result of a `dequeue()` that finishes at the very
  moment it times out; the model has the later behaviour.
- The short SDK scripts, notebooks, dashboards, SQL and numeric tables have no protocol to check.

`PROJECT.json` gives the status of each component.

## Plan

The stateful programs of the repository are modelled, every invariant and action property the runs
check is proved, and liveness is model-checked. What could be added, in this order:

1. The properties without a run: `core/backpressure.py:166` (memory overtakes the spool) and
   `core/unified_bridge.py:757` (a dropped record counts as sent) would need filter, buffer and
   processors in one state machine.
2. The order of shutdown in `__main__.py`, with the cancellation that skips `bridge.stop()`.

Where an argument goes along a sequence or a recursive function, the induction is by the least
counterexample (`LeastNat` and `SetInduction` in `Services_proofs`, `Field_proofs`, `Bridge_proofs`),
as the induction theorems of the library take operators and are out of the provers' reach.
