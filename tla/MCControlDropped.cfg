SPECIFICATION Spec
CONSTANTS
  Nothing = Nothing
  MaxAttempts = 2
  DefaultMaxAttempts = 8
  MaxRevision = 2
  MaxBoots = 0
  MaxFaults = 1
  FaultyBoots = {0}
PROPERTY WorkLeavesFinished
CHECK_DEADLOCK FALSE
