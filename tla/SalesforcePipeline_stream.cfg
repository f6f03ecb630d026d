CONSTANTS
  MaxEvents = 3
  BatchSize = 2
  MaxWant = 2
  EventChannelSize = 1
  CacheSize = 2
  MaxFaults = 1
  MaxStarts = 2
SPECIFICATION Spec
CHECK_DEADLOCK FALSE
INVARIANT PipelineSound
PROPERTIES ShutdownCompletes Delivered
