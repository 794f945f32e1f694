CONSTANTS
  Threads = {t1, t2}
  Flags = {"INITIALIZED"}
  Requests = {"init", "init_then_read_guard", "init_then_write_guard"}
  How <- MCHow
  OnWait <- MCOnWait
  Hint <- MCHint
  Tries <- MCTries
  Unlocks <- MCUnlocks
  Converts <- MCConverts
  Overf = 8
  Period = 2
  Linux = TRUE
  SpinLimit = 1
  WeakCas = FALSE
  Interrupts = FALSE
  MaxGuards = 1
  MaxCalls = 0
SPECIFICATION Spec
SYMMETRY Symmetry
INVARIANTS AssertionsHold
