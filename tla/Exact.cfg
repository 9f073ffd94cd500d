\* Every program of three states, with and without errors, and chains of five
\* states with shortcuts, under every kind of bound.
SPECIFICATION FairSpec
CONSTANTS
  States <- Five
  Models <- Programs
  Configs <- AllBounds
  Horizon = 5
INVARIANTS
  DepthsAreDistances
PROPERTIES
  KeepsPromise
  Returns
