SPECIFICATION Spec
CONSTANTS
  ActivePublishBudget = 1
  PassiveDeliveryBudget = 1
  PendingGraceTimeout = 2
  ActiveFingerprintRetention = 3
  PendingCapacity = 1
  RecoveryHysteresis = 4
  RecoveryEventThreshold = 2
  MaxTransactions = 2
  MaxEpoch = 2
INVARIANTS
  OwnIsNotThirdParty
  MatchesAreBacked
