SPECIFICATION FairPSpec
CONSTANTS
  w1 = w1
  w2 = w2
  l1 = l1
  l2 = l2
  tarball = tarball
  directory = directory
  before = before
  after = after
  None = None
  Workers <- TwoWorkers
  Locks <- TwoLocks
  Artifacts <- AllArtifacts
  Trees <- Directories
  Identities <- ThreeIdentities
  CoordinateOf <- Coordinates
  HeadChecked <- FromNpm
  Offers <- EveryOffer
  Faults <- LiveFaults
  Stuck <- AllArtifacts
  Fragile <- Damageable
  MaxCrashes = 1
  Order <- MixedOrder
  SourceOf <- MixedSources
  Resolved <- MixedHashes
  Edited <- MixedEdits
  IdentityFor <- MixedIdentities
  Unreliable = TRUE
  MaxCommands = 2
INVARIANTS
  LockIsBacked
PROPERTIES
  CommandsEnd
