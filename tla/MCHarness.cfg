SPECIFICATION HSpec
CONSTANTS
  FileTests <- MCFileTests
  Callbacks = {2}
  Parallelism = 2
  MaxWrites = 1
  WatchFiles = {1, 2}
  MaxEdits = 3
INVARIANTS
  ReportIsEarned
  NoEditIsForgotten
PROPERTIES
  EveryRunIsAnswered
CHECK_DEADLOCK FALSE
