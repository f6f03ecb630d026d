\* Two callers share one client and its stream.
SPECIFICATION Spec
CONSTANTS
  Callers = {c1, c2}
  Records = {good}
  Rejectable = {}
  MaxBatch = 2
  MaxRetries = 2
  MaxCancels = 1
  FailureThreshold = 2
  TimeoutTicks = 1
  HalfOpenMaxCalls = 2
INVARIANTS TypeOK CircuitConsistent TrueMeansHandedOver RetriesRepeatAPrefix
PROPERTIES RecoveryIsEarned
