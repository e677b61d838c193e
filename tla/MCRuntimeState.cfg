SPECIFICATION FairSpec
CONSTANTS
  Drivers = {1}
  Addrs = {a1}
  Phases = {0, 1}
  NoWork = NoWork
  NoRecord = NoRecord
  BadRecord = BadRecord
  NoNamespace = NoNamespace
  BadNamespace = BadNamespace
  NoStage = NoStage
  AbsentFile = AbsentFile
  CorruptFile = CorruptFile
  MaxCounter = 4
  MaxRecords = 1
  MaxChanges = 2
  MaxUnsynced = 2
  MaxBoots = 2
  BrokenCounters = {1}
INVARIANTS
  AckedSurvives
  OneDecisionPerRevision
  CleanIsPersisted
  OverwritesOnlyKnown
PROPERTIES
  WorkIsKept
  StopReleases
CHECK_DEADLOCK FALSE
