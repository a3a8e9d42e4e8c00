CONSTANTS
  Nil = Nil
  DepthLimit = 6
  Trees <- MCTrees
  OptionSets <- MCOptions
  SortedFields <- MCSorted
  DmlPlaces <- MCPlaces
  WithoutDigits <- MCWithoutDigits
  Before <- MCBefore
SPECIFICATION Spec
INVARIANTS
  FingerprintIsCanonical
  VisitsBounded
  NotFound
  CacheIsOfTheList
CHECK_DEADLOCK FALSE
