CONSTANTS
  Queries <- ColumnLists
  Limits <- MCLimits
  SizeMod = 1000
SPECIFICATION TruncateSpec
INVARIANT TruncationsShorten
CHECK_DEADLOCK FALSE
