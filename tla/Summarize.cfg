CONSTANTS
  Trees <- MCTrees
  Names = {"a", "b"}
  Queries <- MCQueries
  Limits <- MCLimits
  SizeMod = 1000
SPECIFICATION SummarizeSpec
INVARIANTS
  TablesAreRelationsIfClear
  MentionsListedOnce
  FilterColumnsOfWhere
  FunctionsListed
  AppliedAreLive
  ResultFits
PROPERTY RoundsShorten
CHECK_DEADLOCK FALSE
