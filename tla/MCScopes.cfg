SPECIFICATION FairSpec
CONSTANTS
  Graph <- BranchesLowered
  Flow <- LoweredBranches
  StepLimit = 11
  Facts <- OneFact
  Concurrency = 2
  MayCancel = TRUE
  MayTimeOut <- AllEffects
PROPERTIES
  SiblingsAreBlocked
