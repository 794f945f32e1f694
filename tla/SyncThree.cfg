CONSTANTS
  Threads = {t1, t2, t3}
  Flags = {"INITIALIZED"}
  Requests = {"init_then_read_guard", "init_then_write_guard"}
  How <- MCHow
  OnWait <- MCOnWait
  Hint <- MCHint
  Tries <- MCTries
  Unlocks <- MCUnlocks
  Converts <- MCConverts
  Overf = 2
  Period = 2
  Linux = TRUE
  SpinLimit = 0
  WeakCas = FALSE
  Interrupts = FALSE
  MaxGuards = 1
  MaxCalls = 0
SPECIFICATION Spec
SYMMETRY Symmetry
CONSTRAINT AssertionsHold
INVARIANTS SoundUntilPanic
PROPERTIES ImplementsPhaseLock
