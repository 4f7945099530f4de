SPECIFICATION MCSpec
CONSTANTS
  DependsOn <- MCDependsOn
  Effects <- MCEffects
  Effect <- MCEffect
  Timed = {"first"}
  Earlier <- MCEarlier
  Revisions <- MCRevisions
  Overlays <- MCOverlays
  MaxMishaps = 2
  MaxSaves = 3
  MaxFaults = 2
  MaxHosts = 3
  Envelope <- MCEnvelope
  NextState <- MCNextState
  BranchOf <- MCBranchOf
  FirstState <- MCFirstState
  FirstLabel <- MCFirstLabel
INVARIANTS
  CoordinatorIsSound
  TestsRunOnTheirBuild
  OverlayLeavesNoTrace
  FixtureIsRecorded
  
PROPERTIES
  SceneEnds
CHECK_DEADLOCK FALSE
