\* Two processors, three records of two sources and targets.
SPECIFICATION DeliverySpec
CONSTANTS
  c1 = c1
  good = good
  bad = bad
  r1 = r1
  r2 = r2
  r3 = r3
  t1 = t1
  t2 = t2
  Callers <- MCCallers
  Sent <- MCSent
  Malformed <- MCMalformed
  MaxBatch = 2
  MaxRetries = 3
  MaxCancels = 1
  FailureThreshold = 2
  TimeoutTicks = 2
  HalfOpenMaxCalls = 2
  Records <- MCRecords
  Targets <- MCTargets
  TargetOf <- MCTargetOf
  Rejectable = {}
  BatchSize = 2
  MaxStops = 0
  Protocols = {"opcua_poll", "opcua_sub", "mqtt"}
  DelayLevels = 9
  ZeroPolls = 3
  Policies <- MCPolicies
  Values = {0, 1, 2, 4, 9}
  NonNumeric = {9}
  Nothing = 99
  Horizon = 5
  MaxSamples = 5
  NumWorkers = 2
  TOTAL_WORKERS = 2
  Files <- MCFiles
  FilesPerYear = 2
  BATCH_SIZE = 2
  STREAMS_PER_USER = 2
  Bundled = FALSE
  MaxFaults = 1
CHECK_DEADLOCK FALSE
INVARIANT SourcesAreRouted
