CONSTANTS
  Threads = {main, t1}
  Main = main
  Statics = {"lesser_once"}
  Lesser = {"lesser_once"}
  NoStatic = "no static"
  Kind <- MCKind
  Tolerance <- MCTolerance
  Calls <- MCCalls
  MaxLinked = 1
SPECIFICATION LesserSpec
CHECK_DEADLOCK FALSE
INVARIANTS HintSound
