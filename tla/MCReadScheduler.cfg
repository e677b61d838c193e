SPECIFICATION Spec
CONSTANTS
  NoEntry = NoEntry
  NoValue = NoValue
  NoCandidate = NoCandidate
  Readers = {r1, r2}
  Keys = {k1, k2}
  K = k1
  Values = {}
  Capacity = 1
  PinnedCapacity = 3
  WriteConfirmPinnedCap = 1
  TombstoneRetainWindow = 1
  TombstoneHardLifespan = 3
  FallbackTTL = 1
  DecodedTTL = 1
  BootDescriptors = {}
  BootActivations = {}
  KeySources = {"poller"}
  MaxAges = {2}
  FailureBudget = 1
  OpenCooldown = 1
  HalfOpenProbeLimit = 1
  MaxTime = 3
  MaxGeneration = 6
  PassiveDelay = 1
  MaxVersion = 2
  MaxBus = 1
SYMMETRY MCSymmetry
INVARIANTS
  NoStaleRead
  OneFlight
  ProbeAvailable
CHECK_DEADLOCK FALSE
