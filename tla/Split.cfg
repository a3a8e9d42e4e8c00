CONSTANTS
  Inputs <- UpTo5
  Loc <- TwoApart
  Wrap = 6
SPECIFICATION Spec
CHECK_DEADLOCK FALSE
INVARIANTS
  FillsWithinArray
  SplitsIntoStatements
  BalancedInputIsCovered
  IndInv
PROPERTY ErrorsBeforeAllocation
