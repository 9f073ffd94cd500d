\* Tableaux on all lassos of up to three positions, the whole pipeline on rings
\* with chords and on lines, and the search by itself on graphs of up to four nodes.
CONSTANTS
    StateAtoms = {"p", "en"}
    EdgeAtoms = {"taken", "kept"}
    Graphs <- ChordsAndLines
    Bodies <- AllBodies
    FairnessLists <- MCFairness
    Problems <- AllProblems
    MaxNodes = 4
    MaxLasso = 4
    Words <- ThreeLong
SPECIFICATION Spec
INVARIANTS
    AcceptsViolations
    NothingLost
    ComponentsAreMaximal
    FoundIffFair
    LassoIsFair
    ReportsAreCounterexamples
    NoneMissed
