CONSTANTS
  Trees <- MCTrees
  Names = {"a", "b"}
SPECIFICATION Spec
CHECK_DEADLOCK FALSE
INVARIANT
  FilterColumnsSkipSubselects
