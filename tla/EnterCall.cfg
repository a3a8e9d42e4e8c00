CONSTANTS
  m = m
  w1 = w1
  w2 = w2
  NULL = NULL
  Threads = {m, w1, w2}
  Main = m
  MaxKeys = 4
  MaxHostKeys = 1
  ExitCallers = {m}
  ReuseAfterExit = FALSE
  Unknown = Unknown
  Headrooms <- Calls
  Slop = 5
  Minimum = 1
  Cap = 20
  MaxFrames = 3
  ErrorFrames = 2
SPECIFICATION EnterSpec
SYMMETRY WorkerSymmetry
INVARIANTS
  MemorySafe
  NoLeakAfterThreadExit
  OnlyLibraryKeysBound
  IndInv
  NoStackOverflow
  LimitLeavesSlop
