\* Jobs of one machine, beside the reference evaluator.
SPECIFICATION Spec
CONSTANTS
  Defs <- MCDefs
  Program <- MCProgram
  Jobs <- MCJobs
  MaxJobs = 2
  INLINE_MAX_NODES = 4
  MaxInt = 99
  set_cardinality <- MCset_cardinality
  set_bounds <- MCset_bounds
  set_pick <- MCset_pick
  set_enumerate <- MCset_enumerate
  normal_form <- MCnormal_form
  CanEnumerate <- MCCanEnumerate
  HasNoEnd <- MCHasNoEnd
  values_eq <- MCvalues_eq
  set_contains <- MCset_contains
  set_subseteq <- MCset_subseteq
  ChoiceIndices <- MCChoiceIndices
INVARIANTS SameSuccessors Unwound RegistersAreWritten
CHECK_DEADLOCK FALSE
