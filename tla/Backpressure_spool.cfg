\* Two batch processors, every drop policy, a restart, a cancelled dequeue.
SPECIFICATION Spec
CONSTANTS
  NumRecords = 4
  Consumers = {c1, c2}
  MaxQueue = 1
  SpoolEnabled = TRUE
  MaxSpool = 2
  DropPolicies = {"oldest", "newest", "reject"}
  MaxCancels = 1
  MaxRestarts = 1
CHECK_DEADLOCK FALSE
INVARIANTS SpoolSound OvershootBounded
PROPERTIES ImplementsBuffer HeldRecordLeaves
