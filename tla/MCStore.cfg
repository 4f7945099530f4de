SPECIFICATION StoreSpec
CONSTANTS
  w1 = w1
  w2 = w2
  l1 = l1
  l2 = l2
  tarball = tarball
  directory = directory
  before = before
  after = after
  None = None
  Workers <- TwoWorkers
  Locks <- TwoLocks
  Artifacts <- TwoArtifacts
  Trees <- OneDirectory
  Identities <- FourIdentities
  CoordinateOf <- StoreCoordinates
  HeadChecked <- TwoEndpoints
  Offers <- StoreOffers
  Faults <- DiskFull
  Stuck <- OneDirectory
  Fragile <- TwoArtifacts
  MaxCrashes = 1
  Order <- Nothing
  SourceOf <- Nothing
  Resolved <- Nothing
  Edited <- Nothing
  IdentityFor <- Nothing
  Unreliable = FALSE
  MaxCommands = 0
INVARIANTS
  OneWriterPerArtifact
  RecordedIsWhole
PROPERTIES
  CatalogOnlyGrows
