\* Trees of depth three with one or two alternatives, and trees of depth two
\* with up to three, some of which fail; at most six runs.
SPECIFICATION Spec
CONSTANTS
  Trees <- DeepAndWide
  MaxRuns = 6
INVARIANTS
  ReplayAgrees
  InOrder
  NoneOmitted
  LimitIsExact
