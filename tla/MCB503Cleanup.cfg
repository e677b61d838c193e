SPECIFICATION Spec
CONSTANTS
  Callers = {c1, c2}
  Callbacks = {b1}
  Targets = {t1}
  NoTarget = NoTarget
  NoProc = NoProc
  MaxIds = 3
  MaxEpoch = 2
SYMMETRY Symmetry
INVARIANTS
  CleanupInGeneration
CHECK_DEADLOCK FALSE
