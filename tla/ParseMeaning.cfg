CONSTANTS
    Defs <- MCDefs
    Inputs <- MCInputs
    Words <- MCWords
SPECIFICATION Spec
INVARIANTS
    MeaningIsKept
