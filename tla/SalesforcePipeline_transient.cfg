CONSTANTS
  MaxEvents = 2
  BatchSize = 2
  MaxWant = 2
  EventChannelSize = 1
  CacheSize = 2
  MaxFaults = 1
  MaxStarts = 1
SPECIFICATION Spec
CHECK_DEADLOCK FALSE
INVARIANT TransientErrorsAreRetried
