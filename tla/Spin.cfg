CONSTANTS
  Threads = {t1, t2, t3}
  Flags = {"INITIALIZED", "FINALIZED"}
  Requests = {"init", "init_then_read_guard", "try_init_then_read_guard", "init_then_write_guard", "try_init_then_write_guard", "finalize_callback"}
  How <- MCHow
  Hint <- MCHint
  Tries <- MCTries
  Unlocks <- MCUnlocks
  Converts <- MCConverts
  MaxReaders = 4
  WeakCas = FALSE
  MaxGuards = 2
  MaxCalls = 2
SPECIFICATION FairSpec
CHECK_DEADLOCK FALSE
INVARIANTS TypeOK Exclusion GuardsCounted AssertionsHold AnswerFits
PROPERTIES ImplementsPhaseLock EveryCallReturns
