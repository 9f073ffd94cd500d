\* Programs of three states with errors and chains of five states with
\* shortcuts, without collisions and under many kinds of them.
SPECIFICATION FairSpec
CONSTANTS
  States <- Five
  Models <- Programs
  Configs <- AllBounds
  Horizon = 5
  Fingerprints <- Hashes
INVARIANTS
  TraversalsAgree
  TracesAreReal
  CountsFingerprints
PROPERTIES
  KeepsPromise
