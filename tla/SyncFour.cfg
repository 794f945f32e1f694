CONSTANTS
  Threads = {t1, t2, t3, t4}
  Flags = {"INITIALIZED"}
  Requests = {"write_lock", "read_lock"}
  How <- MCHow
  OnWait <- MCOnWait
  Hint <- MCHint
  Tries <- MCTries
  Unlocks <- MCUnlocks
  Converts <- MCConverts
  Overf = 2
  Period = 2
  Linux = FALSE
  SpinLimit = 0
  WeakCas = FALSE
  Interrupts = FALSE
  MaxGuards = 1
  MaxCalls = 1
SPECIFICATION Spec
SYMMETRY Symmetry
INVARIANTS WordSound
PROPERTIES ImplementsPhaseLock
CHECK_DEADLOCK FALSE
