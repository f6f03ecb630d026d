\* Two users from one address, two vulnerabilities and scanners, two
\* processes on the credentials, two sources, two processes on the encrypted
\* configuration; windows as small as the statistics allow.
SPECIFICATION ServicesSpec
CONSTANTS
  EventCategories <- MCCategories
  Origins <- MCOrigins
  CategoryOf <- MCCategoryOf
  Rules <- MCRules
  Offsets <- MCOffsets
  MaxAge = 2
  IncidentTime = 2
  IncidentEvents = 3
  IncidentUpdates = 1
  Vulns = {"v1", "v2"}
  NoVuln = "none"
  Detects <- MCDetects
  MaxScans = 2
  MaxChanges = 1
  MetricValues = {0, 1}
  Hours = {0, 3, 23}
  Addresses = {"a1", "a2"}
  WindowSize = 11
  MinSamples = 11
  MinLogins = 6
  MaxLogins = 7
  FewAddresses = 1
  WatchedEvents <- MCWatchedEvents
  AnomalyTime = 1
  MaxRestarts = 1
  Process = {p1, p2}
  Passwords = {w1, w2}
  Keys = {k1, k2}
  SecretValues = {x1}
  NoFile = NoFile
  Nothing = Nothing
  MaxManagers = 2
  Names = {"n1", "n2"}
  MaxRequests = 3
  MaxSecrets = 1
  BackupCount = 3
  MaxEntries = 5
  Validity = 2
  Soon = 1
  MaxDays = 3
  MaxPairs = 2
  Secrets = {"s1"}
  Others = {"o1"}
  MaxRuns = 4
  MaxKeys = 3
  MaxUpdates = 2
  MaxCrashes = 1
  MaxFaults = 1
CHECK_DEADLOCK FALSE
INVARIANTS MonitoringSound FilesSound
PROPERTY SignalsAreHeeded
