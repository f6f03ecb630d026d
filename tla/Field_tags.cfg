\* What the bridge makes of the tags of one source.
CONSTANTS
  Boats = {"b1"}
  Marks = 1
  Offings = {15, 45, 90, 200}
  MaxReverse = 2
  MaxStuck = 3
  Reaction = 2
  IronsTime = 2
  AwayTime = 3
  MinTackTime = 4
  Duration = 0
  MaxSteps = 1
  Hosts <- MCHosts
  BatchSize = 2
  Protocols = {"opcua"}
  Loop = "loop"
  Triggered = {"t1"}
  MaxChanges = 1
  MaxTriggers = 1
  Circle = 12
  Base = 11
  Variation = 2
  MinSpeed = 0
  MaxSpeed = 4
  SpeedRate = 2
  DirectionRate = 2
  Shifts = {3}
  SpeedChanges = {3}
  GustIncreases = {2}
  GustDuration = 2
  Stability = 2
  SpeedThreshold = 2
  DirectionThreshold = 2
  TokenLife = 1
  RelayLines = 2
  RelayPolls = 2
  RelayBatch = 2
  MaxRetries = 2
  RelayFaults = 2
  DirectLines = 2
  DirectPolls = 3
  DirectBatch = 3
  DirectFaults = 3
  TagSources <- MCTagSources
  TagValues = {"x", "y"}
  Nothing = "nothing"
  TagBatch = 2
  TagChanges = 2
  TagFaults = 1
  Lower <- MCLower
  Matches <- MCMatches
SPECIFICATION FieldSpec
CHECK_DEADLOCK FALSE
INVARIANT TagsStayApart
