CONSTANTS
  Timeline = 9
  post_limit = 8
  max_post_limit = 7
  MaxRetries = 2
  PageCap = 4
  PageFloor = 2
  ResetSeconds <- NearAndFarReset
  MaxEmpty = 2
SPECIFICATION FairSpec
CHECK_DEADLOCK FALSE
INVARIANTS
  Gapless
  ReturnsAll
  RetryBudget
  ProviderInv
PROPERTIES
  Answered
