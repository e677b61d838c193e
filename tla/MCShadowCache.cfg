SPECIFICATION CacheSpec
CONSTANTS
  NoEntry = NoEntry
  NoValue = NoValue
  Keys = {k1, k2, k3}
  Values = {v1, v2}
  Capacity = 2
  PinnedCapacity = 2
  WriteConfirmPinnedCap = 1
  TombstoneRetainWindow = 1
  TombstoneHardLifespan = 1
  FallbackTTL = 1
  DecodedTTL = 1
  BootDescriptors = {"decoded"}
  BootActivations = {"poller", "writeConfirm"}
  MaxTime = 2
  MaxGeneration = 2
SYMMETRY MCSymmetry
INVARIANTS
  SnapshotCoherent
  BudgetsHold
PROPERTY GenerationFencesValue
CHECK_DEADLOCK FALSE
