SPECIFICATION DecisionsSpec
CONSTANTS
  Trees <- AllTrees
  FactsRead <- BothFacts
  Sound <- AnswerIsSound
  Requests <- Runs
  MayInterrupt = TRUE
  BuiltTargets <- EveryTarget
  Silent = {"scriptc", "perry", "bundler"}
  Contents = {1, 2}
  MaxEdits = 3
  MaxFaults = 2
INVARIANTS
  TargetIsStopped
  SuccessIsFresh
  ChainFailsClosed
  WorkflowsAreLowered
  ManifestsAreBuildable
  DependenciesAreDeclared
  DraftsAreFaithful
  TargetsAreFound
  ShipmentsAreWhole
  ScriptsAreAudited
PROPERTIES
  TreeIsFollowed
  SessionEnds
CHECK_DEADLOCK FALSE
