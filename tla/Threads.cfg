\* Two workers, chunks of two states, value ids that are fixed or raced for,
\* with and without a collision and a cap.
SPECIFICATION ThreadsSpec
CONSTANTS
  States <- Six
  Models <- Crowds
  Configs <- CrowdConfigs
  Horizon = 6
  Fingerprints <- SomeCollide
  Threads = 2
  Chunk = 2
INVARIANTS
  EveryStateOnce
  LevelsAreLayers
  RerunIsNeeded
  OvershootIsBounded
  SameReport
  SameVerdictOnPass
PROPERTIES
  KeepsPromise
  BothReturn
