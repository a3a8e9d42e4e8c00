CONSTANTS
  Fingerprints = {"plain", "values", "sub"}
  Nests <- ThreeKinds
  Numbers = {1}
  MaxLeaves = 4
  MaxSelects = 2
  MaxItems = 4
  None = None
SPECIFICATION Spec
CHECK_DEADLOCK FALSE
INVARIANTS
  NumbersAreDense
  NewParamsAreNew
  SharingIsIntended
  GroupByFollowsTarget
