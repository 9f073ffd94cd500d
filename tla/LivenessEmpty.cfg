\* Bodies with connectives of no operands.
CONSTANTS
    StateAtoms = {"p", "en"}
    EdgeAtoms = {"taken", "kept"}
    Graphs <- LineGraphs
    Bodies <- EmptyBodies
    FairnessLists <- MCFairness
    Problems <- None
    MaxNodes = 0
    MaxLasso = 4
    Words <- None
SPECIFICATION Spec
INVARIANTS
    NoneMissed
