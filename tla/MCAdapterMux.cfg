SPECIFICATION FairSpec
CONSTANTS
  Externals = {1}
  Addresses = {16, 49}
  None = None
  MaxBids = 2
  MaxEpoch = 1
  MaxLate = 1
INVARIANTS
  OneResult
  NoBidForgotten
  ResponsesAreAttributed
  OwnerIsPresent
PROPERTIES
  BidsAreAnswered
CHECK_DEADLOCK FALSE
