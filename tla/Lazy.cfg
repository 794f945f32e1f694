CONSTANTS
  Threads = {main, t1, t2}
  Main = main
  Statics = {"plain", "leaky", "default", "once", "prime", "lesser", "lesser_lock", "lesser_prime"}
  Lesser = {"lesser", "lesser_lock", "lesser_prime"}
  NoStatic = "no static"
  Kind <- MCKind
  Tolerance <- MCTolerance
  Calls <- MCCalls
  MaxLinked = 1
SPECIFICATION LesserSpec
SYMMETRY Symmetry
CONSTRAINT FewLinked
CHECK_DEADLOCK FALSE
INVARIANTS AccessSound PhaseTells FinalyOnce AssertionsHold HintSound
PROPERTIES GeneratedOnce Poisoned
