SPECIFICATION DecisionsSpec
CONSTANTS
  Trees <- AllTrees
  FactsRead <- BothFacts
  Sound <- AnswerIsSound
  Requests <- Runs
  MayInterrupt = TRUE
  BuiltTargets <- EveryTarget
  Silent = {"scriptc", "perry", "bundler"}
  Contents = {1, 2}
  MaxEdits = 3
  MaxFaults = 2
INVARIANTS
  NothingSurvives
CHECK_DEADLOCK FALSE
