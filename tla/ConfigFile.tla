----------------------------- MODULE ConfigFile -----------------------------
(***************************************************************************)
(* core/config_loader.py and the handlers of web/web_server.py that write  *)
(* config.yaml: what is in the file, in the bridge and in the web server's *)
(* copy, over additions, removals, updates, crashes and failures while the *)
(* file is written, and restarts.  Handlers run one after the other here (their     *)
(* overlapping at the bridge is SourceControl); what a reference in the    *)
(* file resolves to changes outside, in the credential store, the          *)
(* environment or with the key of encrypted values.  A list of sources is  *)
(* the set of its names: an entry that is there twice is removed, renamed  *)
(* and started with its double.                                            *)
(***************************************************************************)
EXTENDS Naturals

CONSTANTS
    Names,
    MaxRequests, MaxSecrets, MaxCrashes    \* bounds of the model

ConfigAssumption == {MaxRequests, MaxSecrets, MaxCrashes} \subseteq Nat

VARIABLES
    file,       \* config.yaml: Torn, or its sources and how it holds the client secret
    writing,    \* whether open(path, 'w') has emptied the file and the dump is not done
    pending,    \* what is being written
    reload,     \* whether the file is loaded again when it is written
    sources,    \* bridge.sources, by name
    shown,      \* web_server.config['sources'], which get_sources lists
    shared,     \* whether the two are one list
    active,     \* the names in bridge.clients
    running,    \* bridge.running, which nothing sets back
    shut,       \* bridge._shutdown
    autostart,  \* whether the task with bridge.start() has yet to run
    stored,     \* the secret of the credential store, 0 when there is none
    used,       \* the secret in the bridge's configuration
    up,         \* whether the connector runs
    torn,       \* history: a crash or a failure has kept something from the file
    dropped,    \* history: sources an update removed and could not add again
    requests, secrets, crashes

life == <<up, running, shut, autostart>>
disk == <<file, writing, pending, reload>>
copies == <<sources, shown, shared>>
vars == <<life, disk, copies, active, stored, used, torn, dropped, requests, secrets,
          crashes>>

Torn == [sources |-> {}, secret |-> "torn", value |-> 0]

Init ==
    /\ \E n \in Names, s \in {"credential", "encrypted", "plain"} :
           file = [sources |-> {n}, secret |-> s, value |-> 1]
    /\ writing = FALSE /\ pending = file /\ reload = FALSE
    /\ sources = file.sources /\ shown = sources /\ shared = TRUE
    /\ active = {} /\ up = TRUE
    /\ running = FALSE /\ shut = FALSE /\ autostart = TRUE
    /\ stored = 1 /\ used = 1
    /\ torn = FALSE /\ dropped = {} /\ requests = 0 /\ secrets = 0 /\ crashes = 0

(* load(): ENC[...] and ${env:...} are replaced in any case, a reference   *)
(* to the credential store only if credentials are injected.               *)
Loaded(inject) ==
    IF file.secret = "plain" \/ (file.secret = "credential" /\ ~inject) THEN file
    ELSE [file EXCEPT !.secret = "plain",
                      !.value = IF file.secret = "credential" THEN stored ELSE file.value]

Resolved(f) == IF f.secret = "credential" THEN stored ELSE f.value

Request ==
    /\ up /\ ~writing
    /\ requests < MaxRequests
    /\ requests' = requests + 1
    /\ UNCHANGED <<life, file, torn, crashes>>

SourceRequest == Request /\ UNCHANGED <<stored, used, secrets>>

Save(content, again) == writing' = TRUE /\ pending' = content /\ reload' = again
NoSave == UNCHANGED <<writing, pending, reload>>

Starts == running /\ ~shut

(* A running bridge starts the client at once; if that fails the source is *)
(* taken out again and the handler answers with an error.  Only an active  *)
(* source counts as existing: an inactive one is entered a second time.    *)
AddSource(n) ==
    /\ SourceRequest
    /\ n \notin active
    /\ sources' = sources \cup {n}
    /\ shown' = IF shared THEN sources' ELSE shown
    /\ active' = IF Starts THEN active \cup {n} ELSE active
    /\ IF file = Torn THEN NoSave
       ELSE Save([Loaded(TRUE) EXCEPT !.sources = @ \cup {n}], FALSE)
    /\ UNCHANGED <<shared, dropped>>

(* Only an active source can be removed.  The bridge gets a new list, the  *)
(* web server keeps the old one.                                           *)
RemoveSource(n) ==
    /\ SourceRequest
    /\ n \in active
    /\ sources' = sources \ {n} /\ shared' = FALSE
    /\ active' = active \ {n}
    /\ IF file = Torn THEN NoSave
       ELSE Save([Loaded(TRUE) EXCEPT !.sources = @ \ {n}], FALSE)
    /\ UNCHANGED <<shown, dropped>>

(* update_source removes and adds; the new entry may have another name.    *)
UpdateSource(n, m) ==
    /\ SourceRequest
    /\ n \in active /\ m \notin active \ {n}
    /\ sources' = (sources \ {n}) \cup {m} /\ shared' = FALSE
    /\ active' = (active \ {n}) \cup (IF Starts THEN {m} ELSE {})
    /\ IF file = Torn THEN NoSave
       ELSE Save([Loaded(TRUE) EXCEPT !.sources =
                      {IF s = n THEN m ELSE s : s \in file.sources}], FALSE)
    /\ UNCHANGED <<shown, dropped>>

(* The addition raises: the name is taken, or its client does not start.   *)
UpdateSourceFails(n, m) ==
    /\ SourceRequest
    /\ n \in active /\ (Starts \/ m \in active \ {n})
    /\ sources' = sources \ {n} /\ shared' = FALSE
    /\ active' = active \ {n}
    /\ dropped' = dropped \cup {n}
    /\ NoSave
    /\ UNCHANGED shown

(* update_zerobus_config without a new secret, or with one that is stored  *)
(* before the file is loaded.                                              *)
UpdateZeroBus(new) ==
    /\ Request
    /\ new => secrets < MaxSecrets
    /\ secrets' = IF new THEN secrets + 1 ELSE secrets
    /\ stored' = IF new THEN secrets' + 1 ELSE stored
    /\ IF file = Torn THEN NoSave
       ELSE Save(IF new THEN [file EXCEPT !.secret = "credential"] ELSE Loaded(FALSE), TRUE)
    /\ UNCHANGED <<copies, active, used, dropped>>

(* update_zerobus_config loads the file again for the web server and the   *)
(* bridge, which then have one list.                                       *)
WriteDone ==
    /\ writing
    /\ file' = pending /\ writing' = FALSE /\ reload' = FALSE
    /\ IF reload
       THEN /\ sources' = pending.sources /\ shown' = pending.sources /\ shared' = TRUE
            /\ used' = Resolved(pending)
       ELSE UNCHANGED <<copies, used>>
    /\ UNCHANGED <<life, pending, active, stored, torn, dropped, requests, secrets, crashes>>

(* The file cannot be opened, or the disk is full once it is emptied: save *)
(* returns False, which only update_zerobus_config looks at, to answer     *)
(* with an error and to load nothing.                                      *)
SaveFails ==
    /\ writing
    /\ crashes < MaxCrashes /\ crashes' = crashes + 1
    /\ file' \in {file, Torn} /\ torn' = TRUE
    /\ writing' = FALSE /\ reload' = FALSE
    /\ UNCHANGED <<life, pending, copies, active, stored, used, dropped, requests, secrets>>

BridgeOnly ==
    /\ up /\ ~writing
    /\ UNCHANGED <<up, disk, copies, stored, used, torn, dropped, requests, secrets, crashes>>

(* A bridge that runs, stopped or not, is not started again.               *)
Infra ==
    /\ running' = TRUE
    /\ shut' = (shut /\ running)

(* The task of the connector's start: the infrastructure and all sources.  *)
StartBridge ==
    /\ BridgeOnly
    /\ autostart /\ autostart' = FALSE
    /\ Infra
    /\ active' = active \cup sources

StartInfra ==
    /\ BridgeOnly
    /\ Infra
    /\ UNCHANGED <<autostart, active>>

StopBridge ==
    /\ BridgeOnly
    /\ shut' = TRUE
    /\ UNCHANGED <<running, autostart, active>>

StartSource(n) ==
    /\ BridgeOnly
    /\ ~shut /\ n \notin active /\ n \in sources
    /\ active' = active \cup {n}
    /\ UNCHANGED <<running, shut, autostart>>

StopSource(n) ==
    /\ BridgeOnly
    /\ n \in active
    /\ active' = active \ {n}
    /\ UNCHANGED <<running, shut, autostart>>

(* The operator stores a new secret with the command line tool.            *)
Rotate ==
    /\ ~writing /\ secrets < MaxSecrets
    /\ secrets' = secrets + 1
    /\ stored' = secrets' + 1
    /\ UNCHANGED <<life, disk, copies, active, used, torn, dropped, requests, crashes>>

Exit ==
    /\ up
    /\ writing => crashes < MaxCrashes
    /\ crashes' = IF writing THEN crashes + 1 ELSE crashes
    /\ file' = IF writing THEN Torn ELSE file
    /\ torn' = (torn \/ writing)
    /\ up' = FALSE /\ writing' = FALSE /\ running' = FALSE /\ shut' = FALSE
    /\ autostart' = FALSE /\ active' = {}
    /\ UNCHANGED <<pending, reload, copies, stored, used, dropped, requests, secrets>>

(* An empty file is a ValueError: the connector does not start.            *)
Start ==
    /\ ~up /\ file # Torn
    /\ up' = TRUE /\ autostart' = TRUE
    /\ sources' = file.sources /\ shown' = file.sources /\ shared' = TRUE
    /\ used' = Resolved(file)
    /\ UNCHANGED <<running, shut, disk, active, stored, torn, dropped, requests, secrets,
                   crashes>>

Next ==
    \/ \E n \in Names : AddSource(n)
    \/ \E n \in Names : RemoveSource(n)
    \/ \E n, m \in Names : UpdateSource(n, m)
    \/ \E n, m \in Names : UpdateSourceFails(n, m)
    \/ \E new \in BOOLEAN : UpdateZeroBus(new)
    \/ WriteDone
    \/ SaveFails
    \/ StartBridge
    \/ StartInfra
    \/ StopBridge
    \/ \E n \in Names : StartSource(n)
    \/ \E n \in Names : StopSource(n)
    \/ Rotate
    \/ Exit
    \/ Start

Spec == Init /\ [][Next]_vars

-----------------------------------------------------------------------------

TypeOK ==
    /\ file.sources \subseteq Names /\ sources \subseteq Names
    /\ active \subseteq Names /\ stored \in 0..(MaxSecrets + 1)
    /\ running => up

(* A restart brings back what the bridge has: every source of the running  *)
(* connector is in the file, and every source of the file that no failed   *)
(* update took away is in the bridge, once the file is written and unless  *)
(* a crash or a failure kept it from being written.                        *)
RestartKeepsSources ==
    up /\ ~writing /\ ~torn =>
        /\ sources \subseteq file.sources
        /\ file.sources \ dropped \subseteq sources

ConfigSound == TypeOK /\ RestartKeepsSources
=============================================================================
