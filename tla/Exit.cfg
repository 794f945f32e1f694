CONSTANTS
  Threads = {"main", "t1", "t2"}
  ExitThread = "main"
  Statics = {"s1", "s2", "s3"}
  NoStatic = "no static"
  Kind <- DropKind
  Tolerance <- MCTolerance
  Calls <- DropCalls
SPECIFICATION ExitFairSpec
CHECK_DEADLOCK FALSE
INVARIANTS NoneLost RegisteredOnce DueAreFinalized
PROPERTIES ExitEnds ExitImplementsLazy
