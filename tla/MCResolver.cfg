SPECIFICATION FairSpec
CONSTANTS
  Manifests <- MCManifests
  Published <- MCPublished
  Local <- MCLocal
  RangeOf <- MCRangeOf
  BadRanges <- MCBadRanges
  Artifacts <- MCArtifacts
  MaxJobs = 2
  HostBudget = 2
  MaxFailures = 1
INVARIANTS
  ResolutionIsSound
  RequirementsAreMet
PROPERTIES
  Termination
CHECK_DEADLOCK FALSE
