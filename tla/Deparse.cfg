CONSTANTS
  NoOperand = NoOperand
  Exprs <- MCExprs
  Contexts <- MCContexts
  Nil = Nil
  Queries <- MCQueries
  Options <- MCOptions
  MaxCalls <- MCMaxCalls
  MaxLevels = 2
SPECIFICATION DeparseSpec
INVARIANTS
  RoundTrip
  TextKept
  CommentsKept
  LineCommentsEnd
CHECK_DEADLOCK FALSE
