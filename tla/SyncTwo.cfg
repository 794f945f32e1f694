CONSTANTS
  Threads = {t1, t2}
  Flags = {"INITIALIZED", "FINALIZED"}
  Requests = {"init", "init_then_read_guard", "try_init_then_read_guard", "init_then_write_guard", "try_init_then_write_guard", "lock", "read_lock", "fast_read_lock", "finalize_callback"}
  How <- MCHow
  OnWait <- MCOnWait
  Hint <- MCHint
  Tries <- MCTries
  Unlocks <- MCUnlocks
  Converts <- MCConverts
  Overf = 8
  Period = 2
  Linux = TRUE
  SpinLimit = 1
  WeakCas = TRUE
  Interrupts = TRUE
  MaxGuards = 2
  MaxCalls = 0
SPECIFICATION Spec
SYMMETRY Symmetry
CONSTRAINT AssertionsHold
INVARIANTS TypeOK Exclusion SoundUntilPanic
PROPERTIES ImplementsPhaseLock OnlyConversionPanics
