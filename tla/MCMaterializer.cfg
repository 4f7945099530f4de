SPECIFICATION Spec
CONSTANTS
  Locks = {"one", "two", "old", "bad", "clash"}
  FixtureBinding = 41
  Bins = 1
  LayoutOf <- MCLayoutOf
  FixtureSpots <- MCFixtureSpots
  InitialTrees <- MCInitialTrees
  MaxCommands = 3
  MaxFaults = 1
  MaxDeletions = 1
INVARIANTS
  SyncedIsWhole
  MarkerIsSound
  CleanIsExact
