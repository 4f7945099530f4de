SPECIFICATION FairSpec
CONSTANTS
  Graph <- ScopesLowered
  Flow <- LoweredFlow
  StepLimit = 11
  Facts <- OneFact
  Concurrency = 2
  MayCancel = TRUE
  MayTimeOut <- AllEffects
INVARIANTS
  DependenciesHold
  LaunchIsSettled
  CleanupIsExclusive
PROPERTIES
  ContractHolds
  Termination
