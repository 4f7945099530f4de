\* add, remove, update and sync with edits, publications, failures and kills.
SPECIFICATION Spec
CONSTANTS
  Names <- MCNames
  Versions <- MCVersions
  RequiresOf <- MCRequiresOf
  Listed <- MCListed
  Manifests <- MCManifests
  Commands <- MCCommands
  Declared = TRUE
  MaxEdits = 1
  MaxPublished = 1
  MaxFailures = 2
  MaxCommands = 4
INVARIANTS
  LockIsReliable
  LockedIsStored
PROPERTIES
  EditsAreAtomic
CHECK_DEADLOCK FALSE
