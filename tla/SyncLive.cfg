CONSTANTS
  Threads = {t1, t2, t3}
  Flags = {"INITIALIZED"}
  Requests = {"init_then_write_guard", "read_lock"}
  How <- MCHow
  OnWait <- MCOnWait
  Hint <- MCHint
  Tries <- MCTries
  Unlocks <- MCUnlocks
  Converts <- MCConverts
  Overf = 4
  Period = 2
  Linux = TRUE
  SpinLimit = 0
  WeakCas = FALSE
  Interrupts = FALSE
  MaxGuards = 1
  MaxCalls = 1
SPECIFICATION FairSpec
PROPERTIES SleepersWake
CHECK_DEADLOCK FALSE
