SPECIFICATION FairSpec
CONSTANTS
  MaxJobs <- MCMaxJobs
  PageSize <- MCPageSize
  MaxFaults <- MCMaxFaults
INVARIANTS
  OwnershipConfined
  NoneSkipped
  NoneTwice
PROPERTIES
  PageSettles
