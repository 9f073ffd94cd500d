\* Two workers without collisions or caps, under the claim that the verdict
\* does not depend on the number of threads.
SPECIFICATION ThreadsSpec
CONSTANTS
  States <- Six
  Models <- Crowds
  Configs <- FreeConfigs
  Horizon = 6
  Fingerprints <- OneToOne
  Threads = 2
  Chunk = 2
INVARIANTS
  SameVerdict
