\* Programs with two variables, failing evaluations, deadlocks and a cap, under
\* safety properties and a list of two others; all lassos of up to four positions.
CONSTANTS
    StateAtoms = {"x", "y", "en", "can"}
    EdgeAtoms = {"taken", "kept", "up"}
    States <- S
    Models <- AllModels
    Horizon = 4
    Specs <- AllSpecs
    Configs <- GraphConfigs
    Properties <- GraphProperties
    MaxLasso = 4
SPECIFICATION Spec
INVARIANTS
    GraphIsReachable
    BuildReportsAreTrue
    StutterIsHarmless
    SafetyIsExact
