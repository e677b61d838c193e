SPECIFICATION FairSpec
CONSTANTS
  Callers = {c1, c2}
  Callbacks = {b1}
  Targets = {t1}
  NoTarget = NoTarget
  NoProc = NoProc
  MaxIds = 4
  MaxEpoch = 2
INVARIANTS
  GateMatchesState
  WireDiscipline
  FrameInGeneration
PROPERTIES
  ImplementsContract
  GateIsReleased
CHECK_DEADLOCK FALSE
