CONSTANTS
  MaxTimeouts = 2
  MaxEvents = 3
  BatchSize = 2
  MaxWant = 2
  CacheSize = 2
  MaxRetries = 1
  MaxFaults = 1
  MaxStarts = 2
  MaxPermits = 1
SPECIFICATION Spec
CHECK_DEADLOCK FALSE
INVARIANT SubscriberSound
PROPERTY Delivered
