CONSTANTS
  Queries <- MCQueries
  Records <- MCRecords
  HighestExtern = 2147483640
SPECIFICATION Spec
CHECK_DEADLOCK FALSE
INVARIANTS
  WithinBuffer
  ConstantsReplaced
  IndInv
