CONSTANTS
  Unknown = Unknown
  Headrooms <- Calls
  Slop = 5
  Minimum = 1
  Cap = 20
  MaxFrames = 3
  ErrorFrames = 2
SPECIFICATION StackSpec
INVARIANT LimitFitsThisCall
CHECK_DEADLOCK FALSE
