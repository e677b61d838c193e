SPECIFICATION Spec
CONSTANTS
  Nothing = Nothing
  MaxAttempts = 2
  DefaultMaxAttempts = 8
  MaxRevision = 2
  MaxBoots = 1
  MaxFaults = 1
  FaultyBoots = {0}
INVARIANTS
  NoStartOverOpen
  NothingForgotten
  ActsOnAccepted
  NoSilentDecision
  StartBudgetHolds
  NoLostWakeup
CHECK_DEADLOCK FALSE
