------------------------------- MODULE Services -------------------------------
(***************************************************************************)
(* The services around the bridge, in one model: incidents,                *)
(* vulnerabilities and anomalies; the files of credentials, configuration  *)
(* and certificates, the logs, and the encryption of the configuration.    *)
(* They share no state, so each behaviour follows one of them, the "part". *)
(***************************************************************************)
EXTENDS Naturals, Sequences

CONSTANTS
  EventCategories, Origins, CategoryOf, Rules, MaxAge,        \* of IncidentResponse
  Offsets, IncidentTime, IncidentEvents, IncidentUpdates,
  Vulns, NoVuln, Detects, MaxScans, MaxChanges,               \* of VulnerabilityTracking
  MetricValues, Hours, Addresses, WindowSize, MinSamples,     \* of AnomalyDetection
  MinLogins, MaxLogins, FewAddresses,
  WatchedEvents, AnomalyTime, MaxRestarts,
  Process, Passwords, Keys, SecretValues, NoFile, Nothing,    \* of CredentialStore
  MaxManagers,
  Names, MaxRequests, MaxSecrets,                             \* of ConfigFile
  BackupCount, MaxEntries,                                    \* of LogRotation
  Validity, Soon, MaxDays, MaxPairs,                          \* of CertificateStore
  Secrets, Others, MaxRuns, MaxKeys,                          \* of EncryptedConfig
  MaxUpdates, MaxCrashes, MaxFaults                           \* bounds of several

VARIABLES
  part,
  i_now, offset, buffer, seen, incidents, raised, i_files, i_saving, telling, reopened, received,
  i_updates, i_crashes,
  present, vulns, v_files, v_saving, scan, found, steady, decision, v_torn, scans,
  v_updates, changes, v_crashes,
  watched, a_now, learned, window, hours, addresses, anomalies, alarm, events, restarts,
  saltFile, k_file, manager, expected, clash, salts, k_updates, k_crashes,
  f_file, writing, pending, reload, sources, shown, shared, active, running, shut,
  autostart, stored, used, up, f_torn, dropped, requests, secrets, f_crashes,
  logged, current, plain, gz, g_torn, archive, pc, rollovers, failed, archived, g_faults,
  tls, key, cert, t_at, t_making, web, trouble, day, pairs, t_faults,
  password, material, cipher, e_at, e_making, content, todo, config, draft, raced, runs,
  keys, e_faults

incidentVars ==
  <<i_now, offset, buffer, seen, incidents, raised, i_files, i_saving, telling, reopened,
    received, i_updates, i_crashes>>
vulnerabilityVars ==
  <<present, vulns, v_files, v_saving, scan, found, steady, decision, v_torn, scans,
    v_updates, changes, v_crashes>>
anomalyVars ==
  <<watched, a_now, learned, window, hours, addresses, anomalies, alarm, events,
    restarts>>
credentialVars ==
  <<saltFile, k_file, manager, expected, clash, salts, k_updates, k_crashes>>
configVars ==
  <<f_file, writing, pending, reload, sources, shown, shared, active, running, shut,
    autostart, stored, used, up, f_torn, dropped, requests, secrets, f_crashes>>
logVars ==
  <<logged, current, plain, gz, g_torn, archive, pc, rollovers, failed, archived,
    g_faults>>
certificateVars == <<tls, key, cert, t_at, t_making, web, trouble, day, pairs, t_faults>>
encryptionVars ==
  <<password, material, cipher, e_at, e_making, content, todo, config, draft, raced, runs,
    keys, e_faults>>
services == <<part, incidentVars, vulnerabilityVars, anomalyVars, credentialVars,
  configVars, logVars, certificateVars, encryptionVars>>

I == INSTANCE IncidentResponse WITH
       now <- i_now, files <- i_files, saving <- i_saving, updates <- i_updates,
       crashes <- i_crashes,
       MaxTime <- IncidentTime, MaxEvents <- IncidentEvents, MaxUpdates <- IncidentUpdates
V == INSTANCE VulnerabilityTracking WITH
       files <- v_files, saving <- v_saving, torn <- v_torn, updates <- v_updates,
       crashes <- v_crashes
A == INSTANCE AnomalyDetection WITH
       now <- a_now,
       Values <- MetricValues, MaxEvents <- WatchedEvents, MaxTime <- AnomalyTime
K == INSTANCE CredentialStore WITH
       file <- k_file, updates <- k_updates, crashes <- k_crashes,
       Values <- SecretValues
F == INSTANCE ConfigFile WITH
       file <- f_file, torn <- f_torn, crashes <- f_crashes
G == INSTANCE LogRotation WITH
       torn <- g_torn, faults <- g_faults
T == INSTANCE CertificateStore WITH
       at <- t_at, making <- t_making, faults <- t_faults
E == INSTANCE EncryptedConfig WITH
       at <- e_at, making <- e_making, faults <- e_faults

ServicesAssumption ==
  /\ I!RulesAssumption /\ V!DetectsAssumption /\ A!CountsAssumption
  /\ K!StoreAssumption /\ F!ConfigAssumption /\ G!LogAssumption
  /\ T!CertificateAssumption /\ E!CryptAssumption

ASSUME ServicesAssumption

(* The parts that are not followed stay in one initial state.              *)
ServicesInit ==
  /\ part \in {"incidents", "vulnerabilities", "anomalies", "credentials", "config",
               "logs", "certificates", "encryption"}
  /\ I!Init /\ V!Init /\ A!Init /\ K!Init /\ F!Init /\ G!Init /\ T!Init /\ E!Init
  /\ part # "incidents" => offset = CHOOSE o \in Offsets : TRUE
  /\ part # "vulnerabilities" => present = {}
  /\ part # "anomalies" => watched = "user"
  /\ part # "config" => f_file.secret = "plain" /\ f_file.sources = {CHOOSE n \in Names : TRUE}
  /\ part # "certificates" => ~tls.enabled /\ ~tls.configured
  /\ part # "encryption" => ~password /\ \A f \in E!Fields : config[f].is = "plain"

Incidents(act) ==
  /\ part = "incidents" /\ act
  /\ UNCHANGED <<part, vulnerabilityVars, anomalyVars, credentialVars, configVars,
                 logVars, certificateVars, encryptionVars>>
Vulnerabilities(act) ==
  /\ part = "vulnerabilities" /\ act
  /\ UNCHANGED <<part, incidentVars, anomalyVars, credentialVars, configVars, logVars,
                 certificateVars, encryptionVars>>
Anomalies(act) ==
  /\ part = "anomalies" /\ act
  /\ UNCHANGED <<part, incidentVars, vulnerabilityVars, credentialVars, configVars,
                 logVars, certificateVars, encryptionVars>>
Credentials(act) ==
  /\ part = "credentials" /\ act
  /\ UNCHANGED <<part, incidentVars, vulnerabilityVars, anomalyVars, configVars,
                 logVars, certificateVars, encryptionVars>>
Config(act) ==
  /\ part = "config" /\ act
  /\ UNCHANGED <<part, incidentVars, vulnerabilityVars, anomalyVars, credentialVars,
                 logVars, certificateVars, encryptionVars>>
Logs(act) ==
  /\ part = "logs" /\ act
  /\ UNCHANGED <<part, incidentVars, vulnerabilityVars, anomalyVars, credentialVars,
                 configVars, certificateVars, encryptionVars>>
Certificates(act) ==
  /\ part = "certificates" /\ act
  /\ UNCHANGED <<part, incidentVars, vulnerabilityVars, anomalyVars, credentialVars,
                 configVars, logVars, encryptionVars>>
Encryption(act) ==
  /\ part = "encryption" /\ act
  /\ UNCHANGED <<part, incidentVars, vulnerabilityVars, anomalyVars, credentialVars,
                 configVars, logVars, certificateVars>>

ServicesNext ==
  \/ \E e \in I!Events : Incidents(I!CleanupRaises(e))
  \/ \E e \in I!Events : Incidents(I!NoAlert(e))
  \/ \E e \in I!Events : Incidents(I!JoinSimilar(e))
  \/ \E e \in I!Events : Incidents(I!CreateIncident(e))
  \/ \E i \in DOMAIN incidents, s \in I!Statuses : Incidents(I!UpdateIncident(i, s))
  \/ Incidents(I!SaveIncident)
  \/ \E i \in telling : Incidents(I!SendNotification(i))
  \/ Incidents(I!Restart) \/ Incidents(I!Tick)
  \/ Vulnerabilities(V!RunFullScan) \/ Vulnerabilities(V!ScannerSucceeds)
  \/ Vulnerabilities(V!ScannerFails)
  \/ \E v \in found : Vulnerabilities(V!AddVulnerability(v))
  \/ Vulnerabilities(V!ScanEnds)
  \/ \E v \in Vulns, s \in V!Statuses : Vulnerabilities(V!UpdateVulnerability(v, s))
  \/ Vulnerabilities(V!SaveVulnerability) \/ Vulnerabilities(V!Restart)
  \/ \E v \in Vulns : Vulnerabilities(V!Change(v))
  \/ \E v \in MetricValues : Anomalies(A!PerformanceMetric(v))
  \/ \E h \in Hours : Anomalies(A!LoginAtUnusualHour(h))
  \/ \E h \in Hours, a \in Addresses : Anomalies(A!Login(h, a))
  \/ Anomalies(A!LearningCompletes) \/ Anomalies(A!Tick) \/ Anomalies(A!Restart)
  \/ \E p \in Process, w \in Passwords \cup {Nothing} : Credentials(K!NewManager(p, w))
  \/ \E p \in Process, k \in Keys, v \in SecretValues : Credentials(K!UpdateCredential(p, k, v))
  \/ \E p \in Process : Credentials(K!OpenSalt(p))
  \/ \E p \in Process : Credentials(K!WriteSalt(p))
  \/ \E p \in Process : Credentials(K!OpenFile(p))
  \/ \E p \in Process : Credentials(K!WriteFile(p))
  \/ \E p \in Process : Credentials(K!DeleteCredentials(p))
  \/ \E p \in Process : Credentials(K!Finish(p))
  \/ \E p \in Process : Credentials(K!Crash(p))
  \/ \E n \in Names : Config(F!AddSource(n))
  \/ \E n \in Names : Config(F!RemoveSource(n))
  \/ \E n, m \in Names : Config(F!UpdateSource(n, m))
  \/ \E n, m \in Names : Config(F!UpdateSourceFails(n, m))
  \/ \E new \in BOOLEAN : Config(F!UpdateZeroBus(new))
  \/ Config(F!WriteDone) \/ Config(F!SaveFails) \/ Config(F!StartBridge) \/ Config(F!StartInfra)
  \/ Config(F!StopBridge)
  \/ \E n \in Names : Config(F!StartSource(n))
  \/ \E n \in Names : Config(F!StopSource(n))
  \/ Config(F!Rotate) \/ Config(F!Exit) \/ Config(F!Start)
  \/ Logs(G!Emit) \/ Logs(G!DoRollover) \/ Logs(G!ShiftBackup) \/ Logs(G!RotateCurrent)
  \/ Logs(G!CompressFile) \/ Logs(G!CompressFails) \/ Logs(G!Killed)
  \/ Logs(G!ArchiveOldLogs) \/ Logs(G!EnforceRetention)
  \/ Certificates(T!Start) \/ Certificates(T!GetOrCreateCertificate)
  \/ Certificates(T!CreateSslContext) \/ Certificates(T!ServerEnds)
  \/ Certificates(T!Generate) \/ Certificates(T!ToolKilled)
  \/ Certificates(T!KeyRemoved) \/ Certificates(T!Tick)
  \/ \E p \in T!Processes : Certificates(T!GenerateKey(p))
  \/ \E p \in T!Processes : Certificates(T!OpenKey(p))
  \/ \E p \in T!Processes : Certificates(T!WriteKey(p))
  \/ \E p \in T!Processes : Certificates(T!OpenCert(p))
  \/ \E p \in T!Processes : Certificates(T!WriteCert(p))
  \/ \E p \in T!Processes : Certificates(T!GenerateFails(p))
  \/ \E p \in E!Processes : Encryption(E!Begin(p))
  \/ \E p \in E!Processes : Encryption(E!ReadKey(p))
  \/ \E p \in E!Processes : Encryption(E!Missing(p))
  \/ \E p \in E!Processes : Encryption(E!Unreadable(p))
  \/ \E p \in E!Processes : Encryption(E!OpenKeyFile(p))
  \/ \E p \in E!Processes : Encryption(E!WriteKeyFile(p))
  \/ \E p \in E!Processes : Encryption(E!Killed(p))
  \/ \E p \in E!Processes, f \in E!Fields : Encryption(E!Crypt(p, f))
  \/ \E p \in E!Processes, f \in E!Fields : Encryption(E!ReadEmptied(p, f))
  \/ \E p \in E!Processes, f \in E!Fields : Encryption(E!SaveFails(p, f))
  \/ Encryption(E!OpenDraft) \/ Encryption(E!SaveDraft) \/ Encryption(E!Loaded)
  \/ Encryption(E!Replace)

ServicesSpec == ServicesInit /\ [][ServicesNext]_services
-----------------------------------------------------------------------------
(* What watches the connector: one open incident per matter and no alert   *)
(* lost, triage kept, no false alarm at midnight or on a constant metric.  *)
MonitoringSound == I!IncidentsSound /\ V!TrackingSound /\ A!AnomaliesSound

(* What it keeps in files: credentials survive updates, a restart brings   *)
(* back the sources, log entries outlive the rollovers they are promised,  *)
(* certificates match their keys, secrets stay readable.                   *)
FilesSound ==
  /\ K!CredentialsSound /\ F!ConfigSound /\ G!LogSound
  /\ T!CertificatesSound /\ E!EncryptionSound

(* What must not be overlooked is not: a burst of events that reaches a    *)
(* rule's threshold, a vulnerability there all through a scan, the first   *)
(* sample that leaves a constant metric.                                   *)
SignalsAreHeeded == I!BurstIsAnswered /\ V!ScannedIsOpen /\ A!FirstOutlierIsCritical
===============================================================================
