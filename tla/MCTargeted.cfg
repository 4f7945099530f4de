SPECIFICATION Spec
CONSTANTS
  Names <- MCNames
  Versions <- MCVersions
  RequiresOf <- MCRequiresOf
  Listed <- MCListed
  Manifests <- MCManifests
  Commands <- MCTargeted
  Declared = TRUE
  MaxEdits = 0
  MaxPublished = 1
  MaxFailures = 0
  MaxCommands = 2
INVARIANT InstancesAreDerived
CHECK_DEADLOCK FALSE
