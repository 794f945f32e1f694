--------------------------- MODULE SyncPhaseLocker ---------------------------
(***************************************************************************)
(* The blocking phase locker: src/src/phase_locker/sync.rs on top of the   *)
(* futex of src/src/phase_locker/futex.rs.                                 *)
(*                                                                         *)
(* One step of a thread is one atomic access to the lock word or to        *)
(* writer_count, or one futex system call; what the thread computes from   *)
(* the value it got, up to its next access, belongs to the same step.  The *)
(* location pc[t] names the access that t makes next.  Memory is           *)
(* sequentially consistent.                                                *)
(***************************************************************************)
EXTENDS Integers, FiniteSets, FiniteSetsExt

CONSTANTS
  Threads,
  Flags,        \* phase flags; a phase is a set of flags
  Requests,     \* the ways in which clients call lock
  How,          \* How[q][p]: the closure lock_nature of request q
  OnWait,       \* OnWait[q][p]: the closure on_wake_nature of request q
  Hint,         \* Hint[q]: the phase request q expects
  Tries,        \* requests that are made through try_lock
  Unlocks,      \* Unlocks[q]: phases that a holder may give its write guard
  Converts,     \* Converts[q]: phases in which it turns it into a read guard
  Overf,        \* READER_OVERF / READER_UNITY = MAX_WAKED_READERS
  Period,       \* READ_FAIRNESS_PERIOD
  Linux,        \* TRUE: futex of mod linux; FALSE: of mod other (parking_lot)
  SpinLimit,    \* bound: spins before SpinWait::spin gives up
  WeakCas,      \* TRUE: compare_exchange_weak may fail spuriously
  Interrupts,   \* TRUE: a signal may interrupt a futex wait
  MaxGuards,    \* bound: read guards one thread owns through clone
  MaxCalls      \* bound: calls a thread makes; 0 for no bound

Natures == {"None", "Read", "Write"}
Phases == SUBSET Flags
NoRequest == "no request"

ASSUME SyncAssumption ==
  /\ IsFiniteSet(Threads)
  /\ NoRequest \notin Requests
  /\ How \in [Requests -> [Phases -> Natures]]
  /\ OnWait \in [Requests -> [Phases -> Natures]]
  /\ Hint \in [Requests -> Phases]
  /\ Unlocks \in [Requests -> SUBSET Phases]
  /\ Converts \in [Requests -> SUBSET Phases]
  /\ Tries \subseteq Requests
  /\ Overf \in Nat /\ Overf > 1
  /\ Period \in Nat \ {0}
  /\ SpinLimit \in Nat /\ MaxCalls \in Nat
  /\ MaxGuards \in Nat \ {0}
  /\ {Linux, WeakCas, Interrupts} \subseteq BOOLEAN

VARIABLES
  word,         \* the lock word: phase flags, reader count and lock bits
  writer_count, \* Futex::writer_count
  fairness,     \* Futex::fairness, modulo Period
  pc,           \* next access of each thread
  req,          \* request each thread is serving
  cur,          \* the value `cur` of the word that the thread goes by
  spin,         \* SpinWait::counter
  ret,          \* where the running sub-procedure returns to
  guard,        \* the guards each thread owns
  count,        \* spins of wait_for_readers, or readers woken by wake_readers
  prefer,       \* what prefer_wake_one_writer answered to transfer_lock
  calls         \* calls each thread has made, counted up to MaxCalls

vars == <<word, writer_count, fairness, pc, req, cur, spin, ret, guard, count,
          prefer, calls>>

(***************************************************************************)
(* The word.  rw and ww are READ_WAITER_BIT and WRITE_WAITER_BIT; readers  *)
(* is the field READER_OVERF | READER_BITS in units of READER_UNITY.       *)
(***************************************************************************)
Word == [phase : Phases, readers : Int, locked : BOOLEAN, rw : BOOLEAN, ww : BOOLEAN]
Free(p) == [phase |-> p, readers |-> 0, locked |-> FALSE, rw |-> FALSE, ww |-> FALSE]

has_no_readers(v) == v.readers = 0
has_readers(v) == v.readers # 0
has_one_reader(v) == v.readers = 1
has_readers_max(v) == v.readers % Overf = Overf - 1
no_writer_waits(v) == ~v.ww   \* mutant: forgets READ_WAITER_BIT
has_no_waiters(v) == ~v.rw /\ ~v.ww
is_write_lockable(v) == ~v.locked /\ (has_readers(v) \/ has_no_waiters(v))
read_lockable_unless_waiters(v) ==   \* mutant: forgets LOCKED_BIT
  (has_readers(v) \/ has_no_waiters(v)) /\ ~has_readers_max(v)
is_read_lockable(v) ==
  /\ has_readers(v) \/ (has_no_waiters(v) /\ ~v.locked)
  /\ ~has_readers_max(v)

(* fetch_xor on the single bits READER_UNITY and READER_OVERF.             *)
FlipUnity(n) == IF n % 2 = 0 THEN n + 1 ELSE n - 1
FlipOverf(n) == IF n < Overf THEN n + Overf ELSE n - Overf

(***************************************************************************)
(* Guards.  A Lock remembers the phase it was taken in and the phase to    *)
(* leave behind; a ReadLock remembers the phase it was taken in.           *)
(***************************************************************************)
Guard == [kind : {"none", "read", "write"}, count : Nat, init : Phases, on_unlock : Phases]
NoGuard == [kind |-> "none", count |-> 0, init |-> {}, on_unlock |-> {}]
Lock(v) == [kind |-> "write", count |-> 0, init |-> v.phase, on_unlock |-> v.phase]
ReadLock(p) == [kind |-> "read", count |-> 1, init |-> p, on_unlock |-> {}]

Locations == {"idle", "held", "second_write", "try_write", "try_read",
              "read_cas", "read_load", "slow_load", "spin_load", "lock_cas",
              "lock_while_readers", "readers_load", "readers_cas",
              "set_ww", "set_rw", "count_add", "wait_w", "sleep_w", "woken_w",
              "failed_w", "or_ww", "locked_load", "wait_r", "sleep_r", "woken_r",
              "convert", "drop", "drop_xor", "read_drop", "transfer", "give_xor",
              "give_wake", "give_and", "wake_xor", "wake_call", "wake_or",
              "wake_sub", "conv_xor", "conv_call", "conv_or", "conv_sub",
              "dead", "aborted"}
Returns == {"idle", "held", "fast", "slow", "clone", "dead"}
Blank == Free({})

TypeOK ==
  /\ word \in Word
  /\ writer_count \in Int
  /\ fairness \in 0..(Period - 1)
  /\ pc \in [Threads -> Locations]
  /\ req \in [Threads -> Requests \cup {NoRequest}]
  /\ cur \in [Threads -> Word]
  /\ spin \in [Threads -> 0..SpinLimit]
  /\ ret \in [Threads -> Returns]
  /\ guard \in [Threads -> Guard]
  /\ count \in [Threads -> Nat]
  /\ prefer \in [Threads -> BOOLEAN]
  /\ calls \in [Threads -> 0..MaxCalls]

Init ==
  /\ word = Free({})
  /\ writer_count = 0 /\ fairness = 0
  /\ pc = [t \in Threads |-> "idle"]
  /\ req = [t \in Threads |-> NoRequest]
  /\ cur = [t \in Threads |-> Blank]
  /\ spin = [t \in Threads |-> 0]
  /\ ret = [t \in Threads |-> "idle"]
  /\ guard = [t \in Threads |-> NoGuard]
  /\ count = [t \in Threads |-> 0]
  /\ prefer = [t \in Threads |-> FALSE]
  /\ calls = [t \in Threads |-> 0]
-----------------------------------------------------------------------------
(***************************************************************************)
(* Where a thread goes with the value v it has just read of the word.      *)
(***************************************************************************)

(* The end of a round of raw_lock_slow: how the thread waits.              *)
Waiting(q, v) ==
  CASE OnWait[q][v.phase] = "None"  -> "idle"
    [] OnWait[q][v.phase] = "Write" -> IF v.ww THEN "count_add" ELSE "set_ww"
    [] OnWait[q][v.phase] = "Read"  -> IF v.rw THEN "wait_r" ELSE "set_rw"

AfterWrite(q, v, s) == IF ~v.ww /\ s < SpinLimit THEN "spin_load" ELSE Waiting(q, v)
AfterReadOnceMore(q, v, s) ==   \* mutant: one spin too many
  IF has_no_waiters(v) /\ s <= SpinLimit THEN "spin_load" ELSE Waiting(q, v)
AfterRead(q, v, s) == IF has_no_waiters(v) /\ s < SpinLimit THEN "spin_load" ELSE Waiting(q, v)

(* The top of the loop of raw_lock_slow, s being the spin counter.         *)
LoopTop(q, v, s) ==
  CASE How[q][v.phase] = "None" -> "idle"
    [] How[q][v.phase] = "Write" ->
         IF ~is_write_lockable(v) THEN AfterWrite(q, v, s)
         ELSE IF has_no_readers(v) THEN "lock_cas" ELSE "lock_while_readers"
    [] How[q][v.phase] = "Read" ->
         IF is_read_lockable(v) THEN "read_cas" ELSE AfterRead(q, v, s)

(* The loop of ReadLock::clone: what follows a failed read_lock, and its   *)
(* top.                                                                    *)
ClonePost(v, s) ==
  IF v.rw THEN "wait_r" ELSE IF s < SpinLimit THEN "spin_load" ELSE "set_rw"
CloneTop(v, s) == IF has_readers_max(v) THEN ClonePost(v, s) ELSE "read_cas"

Top(t, v, s) == IF ret[t] = "clone" THEN CloneTop(v, s) ELSE LoopTop(req[t], v, s)

(* raw_lock and try_raw_lock once optimistic_lock has returned Err(v).     *)
SecondAttempt(q, v) ==
  CASE How[q][v.phase] = "None" -> "idle"
    [] How[q][v.phase] = "Write" ->
         IF is_write_lockable(v) /\ has_no_readers(v) THEN "second_write" ELSE "slow_load"
    [] How[q][v.phase] = "Read" -> IF is_read_lockable(v) THEN "read_cas" ELSE "slow_load"
SecondTry(q, v) ==
  CASE How[q][v.phase] = "None" -> "idle"
    [] How[q][v.phase] = "Write" ->
         IF is_write_lockable(v) /\ has_no_readers(v) THEN "try_write" ELSE "idle"
    [] How[q][v.phase] = "Read" -> IF is_read_lockable(v) THEN "try_read" ELSE "idle"

(* The next access of transfer_lock, which goes by the value v.            *)
TransferNext(writer_first, v) ==
  IF writer_first
    THEN IF v.ww THEN "give_xor" ELSE "wake_xor"
    ELSE IF v.rw THEN "wake_xor" ELSE "give_xor"

(***************************************************************************)
(* Control.  Goto moves t to location l with cur = v, spin = s and ret =   *)
(* r; locals that the code no longer looks at are blanked.                 *)
(***************************************************************************)
Forgetful == {"idle", "held", "slow_load", "spin_load", "read_load", "convert",
              "drop", "drop_xor", "read_drop", "dead"}

Goto(t, l, v, s, r) ==
  /\ pc' = [pc EXCEPT ![t] = l]
  /\ cur' = [cur EXCEPT ![t] = IF l \in Forgetful THEN Blank ELSE v]
  /\ spin' = [spin EXCEPT ![t] = IF l \in {"idle", "held"} THEN 0 ELSE s]
  /\ ret' = [ret EXCEPT ![t] = IF l \in {"idle", "held", "convert"} THEN "idle" ELSE r]
  /\ req' = [req EXCEPT ![t] = IF l = "idle" THEN NoRequest ELSE @]

(* The end of a drop: the caller goes on.                                  *)
ReturnTo(r) ==
  CASE r = "slow" -> "slow_load" [] r = "dead" -> "dead" [] r = "held" -> "held"
    [] OTHER -> "idle"
Finish(t) == Goto(t, ReturnTo(ret[t]), Blank, 0, ret[t])

(* A failed assertion: the thread panics, or, when it is already unwinding,*)
(* the process aborts.                                                     *)
Panic(t) ==
  /\ pc' = IF ret[t] = "dead" THEN [u \in Threads |-> "aborted"]
                              ELSE [pc EXCEPT ![t] = "dead"]
  /\ UNCHANGED <<cur, spin, ret, req>>

Acquired(t, g) ==
  /\ guard' = [guard EXCEPT ![t] = g]
  /\ Goto(t, "held", Blank, 0, "idle")

CasFails(t) == word # cur[t] \/ WeakCas
futex == <<writer_count, fairness>>
-----------------------------------------------------------------------------
(***************************************************************************)
(* Taking the lock: lock, try_lock, raw_lock, raw_lock_slow, read_lock.    *)
(***************************************************************************)

(* A call of lock or try_lock: optimistic_lock bets on the hint, then the  *)
(* second attempt is prepared from the value found.                        *)
OptimisticLock(t, q) ==
  LET hinted == How[q][Hint[q]]
      bet == word = Free(Hint[q])
      second == IF q \in Tries THEN SecondTry(q, word) ELSE SecondAttempt(q, word)
  IN /\ pc[t] = "idle"
     /\ MaxCalls = 0 \/ calls[t] < MaxCalls
     /\ calls' = [calls EXCEPT ![t] = IF MaxCalls = 0 THEN 0 ELSE @ + 1]
     /\ \/ /\ hinted = "Write" /\ bet
           /\ word' = [word EXCEPT !.locked = TRUE]
           /\ guard' = [guard EXCEPT ![t] = Lock(word)]
           /\ pc' = [pc EXCEPT ![t] = "held"]
           /\ req' = [req EXCEPT ![t] = q]
           /\ UNCHANGED <<cur, spin, ret>>
        \/ /\ hinted = "Read" /\ bet
           /\ word' = [word EXCEPT !.readers = 1]
           /\ guard' = [guard EXCEPT ![t] = ReadLock(word.phase)]
           /\ pc' = [pc EXCEPT ![t] = "held"]
           /\ req' = [req EXCEPT ![t] = q]
           /\ UNCHANGED <<cur, spin, ret>>
        \/ /\ hinted = "None" \/ ~bet \/ WeakCas
           /\ pc' = [pc EXCEPT ![t] = second]
           /\ req' = [req EXCEPT ![t] = IF second = "idle" THEN NoRequest ELSE q]
           /\ cur' = [cur EXCEPT ![t] = IF second \in Forgetful THEN Blank ELSE word]
           /\ ret' = [ret EXCEPT ![t] = CASE second = "read_cas" -> "fast"
                                          [] second = "slow_load" -> "slow"
                                          [] OTHER -> "idle"]
           /\ UNCHANGED <<word, guard, spin>>
     /\ UNCHANGED <<writer_count, fairness, count, prefer>>

(* The compare-and-exchange that takes a free lock for writing: the second *)
(* attempt of raw_lock, that of try_raw_lock, and the slow path.           *)
WriteCas(t) ==
  /\ pc[t] \in {"second_write", "try_write", "lock_cas"}
  /\ \/ /\ word = cur[t]
        /\ word' = [word EXCEPT !.locked = TRUE]
        /\ Acquired(t, Lock(word))
     \/ /\ IF pc[t] = "try_write" THEN word # cur[t] ELSE CasFails(t)
        /\ CASE pc[t] = "second_write" -> Goto(t, "slow_load", Blank, 0, "slow")
             [] pc[t] = "try_write" -> Goto(t, "idle", Blank, 0, "idle")
             [] pc[t] = "lock_cas" -> Goto(t, Top(t, word, spin[t]), word, spin[t], "slow")
        /\ UNCHANGED <<word, guard>>
  /\ UNCHANGED <<futex, count, prefer, calls>>

(* The read loop of try_raw_lock.                                          *)
TryRead(t) ==
  /\ pc[t] = "try_read"
  /\ \/ /\ word = cur[t]
        /\ word' = [word EXCEPT !.readers = @ + 1]
        /\ Acquired(t, ReadLock(word.phase))
     \/ /\ CasFails(t)
        /\ LET again == How[req[t]][word.phase] = "Read" /\ is_read_lockable(word)
           IN Goto(t, IF again THEN "try_read" ELSE "idle", word, 0, "idle")
        /\ UNCHANGED <<word, guard>>
  /\ UNCHANGED <<futex, count, prefer, calls>>

(* read_lock: a compare-and-exchange, then after a failure a new load that *)
(* decides whether to go on.                                               *)
ReadCas(t) ==
  /\ pc[t] = "read_cas"
  /\ \/ /\ word = cur[t]
        /\ word' = [word EXCEPT !.readers = @ + 1]
        /\ Acquired(t, IF ret[t] = "clone"
                         THEN [guard[t] EXCEPT !.count = @ + 1, !.init = word.phase]
                         ELSE ReadLock(word.phase))
     \/ /\ CasFails(t)
        /\ Goto(t, "read_load", Blank, spin[t], ret[t])
        /\ UNCHANGED <<word, guard>>
  /\ UNCHANGED <<futex, count, prefer, calls>>

ReadLoad(t) ==
  LET again == IF ret[t] = "clone" THEN ~has_readers_max(word)
               ELSE How[req[t]][word.phase] = "Read" /\ is_read_lockable(word)
  IN /\ pc[t] = "read_load"
     /\ CASE again -> Goto(t, "read_cas", word, spin[t], ret[t])
          [] ~again /\ ret[t] = "fast" -> Goto(t, "slow_load", Blank, 0, "slow")
          [] ~again /\ ret[t] = "clone" ->
               Goto(t, ClonePost(word, spin[t]), word, spin[t], "clone")
          [] OTHER -> Goto(t, AfterRead(req[t], word, spin[t]), word, spin[t], "slow")
     /\ UNCHANGED <<word, guard, futex, count, prefer, calls>>

(* The loads at the start of a round of raw_lock_slow and of               *)
(* ReadLock::clone: fresh or after a wait (spin counter reset), or after   *)
(* one more spin.                                                          *)
SlowLoad(t) ==
  LET s == IF pc[t] = "spin_load" THEN spin[t] + 1 ELSE 0
  IN /\ pc[t] \in {"slow_load", "spin_load"}
     /\ Goto(t, Top(t, word, s), word, s, ret[t])
     /\ UNCHANGED <<word, guard, futex, count, prefer, calls>>

(* A writer locks while readers remain and waits for them to leave; when   *)
(* they do not leave in time it unlocks again, leaving WRITE_WAITER_BIT.   *)
LockWhileReaders(t) ==
  /\ pc[t] = "lock_while_readers"
  /\ \/ /\ word = cur[t]
        /\ word' = [word EXCEPT !.locked = TRUE]
        /\ Goto(t, IF SpinLimit > 0 THEN "readers_load" ELSE "readers_cas", word', spin[t], "slow")
     \/ /\ CasFails(t)
        /\ Goto(t, Top(t, word, spin[t]), word, spin[t], "slow")
        /\ UNCHANGED word
  /\ count' = [count EXCEPT ![t] = 0]
  /\ UNCHANGED <<guard, futex, prefer, calls>>

ReadersLoad(t) ==
  /\ pc[t] = "readers_load"
  /\ \/ /\ has_no_readers(word)
        /\ Acquired(t, Lock(word))
        /\ count' = [count EXCEPT ![t] = 0]
     \/ /\ has_readers(word)
        /\ LET more == count[t] + 1 < SpinLimit
           IN /\ count' = [count EXCEPT ![t] = IF more THEN @ + 1 ELSE 0]
              /\ Goto(t, IF more THEN "readers_load" ELSE "readers_cas", word, spin[t], "slow")
        /\ UNCHANGED guard
  /\ UNCHANGED <<word, futex, prefer, calls>>

ReadersCas(t) ==
  /\ pc[t] = "readers_cas"
  /\ \/ /\ word = cur[t]
        /\ word' = [word EXCEPT !.ww = TRUE, !.locked = FALSE]
        /\ Goto(t, Waiting(req[t], word'), word', spin[t], "slow")
        /\ UNCHANGED guard
     \/ /\ CasFails(t) /\ has_no_readers(word)
        /\ Acquired(t, Lock(word))
        /\ UNCHANGED word
     \/ /\ CasFails(t) /\ has_readers(word)
        /\ Goto(t, "readers_cas", word, spin[t], "slow")
        /\ UNCHANGED <<word, guard>>
  /\ UNCHANGED <<futex, count, prefer, calls>>

(* lock_mut: the exclusive borrow means that no other thread uses the lock.*)
LockMut(t) ==
  /\ \A u \in Threads : pc[u] = "idle"
  /\ MaxCalls = 0
  /\ word' = [word EXCEPT !.locked = TRUE]
  /\ Acquired(t, Lock(word))
  /\ UNCHANGED <<futex, count, prefer, calls>>
-----------------------------------------------------------------------------
(***************************************************************************)
(* Waiting.  compare_and_wait_as_writer counts the thread in writer_count  *)
(* around the system call; a woken thread has been handed the lock.        *)
(***************************************************************************)
SetWaiter(t) ==
  /\ pc[t] \in {"set_ww", "set_rw"}
  /\ \/ /\ word = cur[t]
        /\ word' = IF pc[t] = "set_ww" THEN [word EXCEPT !.ww = TRUE]
                                       ELSE [word EXCEPT !.rw = TRUE]
        /\ Goto(t, IF pc[t] = "set_ww" THEN "count_add" ELSE "wait_r", word', spin[t], ret[t])
     \/ /\ CasFails(t)
        /\ Goto(t, Top(t, word, spin[t]), word, spin[t], ret[t])
        /\ UNCHANGED word
  /\ UNCHANGED <<guard, futex, count, prefer, calls>>

CountAdd(t) ==
  /\ pc[t] = "count_add"
  /\ writer_count' = writer_count + 1
  /\ Goto(t, "wait_w", cur[t], 0, "slow")
  /\ UNCHANGED <<word, guard, fairness, count, prefer, calls>>

(* FUTEX_WAIT: sleep if the word still has the expected value.             *)
FutexWait(t) ==
  /\ \/ /\ pc[t] = "wait_w"
        /\ Goto(t, IF word = cur[t] THEN "sleep_w" ELSE "failed_w", Blank, 0, "slow")
     \/ /\ pc[t] = "wait_r"
        /\ Goto(t, IF word = cur[t] THEN "sleep_r" ELSE "slow_load", Blank, 0, ret[t])
  /\ UNCHANGED <<word, guard, futex, count, prefer, calls>>

Interrupt(t) ==
  /\ Interrupts
  /\ \/ pc[t] = "sleep_w" /\ Goto(t, "failed_w", Blank, 0, "slow")
     \/ pc[t] = "sleep_r" /\ Goto(t, "slow_load", Blank, 0, ret[t])
  /\ UNCHANGED <<word, guard, futex, count, prefer, calls>>

(* The end of compare_and_wait_as_writer.                                  *)
CountSub(t) ==
  /\ pc[t] \in {"woken_w", "failed_w"}
  /\ writer_count' = writer_count - 1
  /\ CASE writer_count = 0 -> Panic(t)
       [] writer_count # 0 /\ pc[t] = "failed_w" -> Goto(t, "slow_load", Blank, 0, "slow")
       [] OTHER -> Goto(t, IF writer_count > 1 THEN "or_ww" ELSE "locked_load", Blank, 0, "slow")
  /\ UNCHANGED <<word, guard, fairness, count, prefer, calls>>

OrWriteWaiter(t) ==
  /\ pc[t] = "or_ww"
  /\ word' = [word EXCEPT !.ww = TRUE]
  /\ Goto(t, "locked_load", Blank, 0, "slow")
  /\ UNCHANGED <<guard, futex, count, prefer, calls>>

(* The end of wait_as_writer_then_wake_with_lock: the lock is held, but    *)
(* the phase may have made the write lock unnecessary.                     *)
LockedLoad(t) ==
  /\ pc[t] = "locked_load"
  /\ \/ /\ ~word.locked
        /\ Panic(t)
        /\ UNCHANGED guard
     \/ /\ word.locked
        /\ guard' = [guard EXCEPT ![t] = Lock(word)]
        /\ Goto(t, CASE How[req[t]][word.phase] = "Write" -> "held"
                     [] How[req[t]][word.phase] = "Read" -> "convert"
                     [] How[req[t]][word.phase] = "None" -> "drop", Blank, 0, "idle")
  /\ UNCHANGED <<word, futex, count, prefer, calls>>

WokenReaderKeeps(t) ==   \* mutant: the phase is not looked at after the wake-up
  /\ pc[t] = "woken_r"
  /\ Acquired(t, ReadLock(word.phase))
  /\ UNCHANGED <<word, futex, count, prefer, calls>>

(* The end of wait_as_reader_then_wake_with_lock, and of a wait in clone.  *)
WokenReader(t) ==
  /\ pc[t] = "woken_r"
  /\ \/ /\ has_no_readers(word)
        /\ Panic(t)
        /\ UNCHANGED guard
     \/ /\ has_readers(word) /\ ret[t] = "clone"
        /\ Acquired(t, [guard[t] EXCEPT !.count = @ + 1, !.init = word.phase])
     \/ /\ has_readers(word) /\ ret[t] # "clone"
        /\ guard' = [guard EXCEPT ![t] = ReadLock(word.phase)]
        /\ CASE How[req[t]][word.phase] = "Read" -> Goto(t, "held", Blank, 0, "idle")
             [] How[req[t]][word.phase] = "None" -> Goto(t, "read_drop", Blank, 0, "idle")
             [] How[req[t]][word.phase] = "Write" -> Goto(t, "read_drop", Blank, 0, "slow")
  /\ UNCHANGED <<word, futex, count, prefer, calls>>
-----------------------------------------------------------------------------
(***************************************************************************)
(* Guards in the hands of the client.                                      *)
(***************************************************************************)

(* PhaseGuard::transition and set_phase.                                   *)
SetPhase(t, p) ==
  /\ pc[t] = "held" /\ guard[t].kind = "write"
  /\ req[t] # NoRequest /\ p \in Unlocks[req[t]]
  /\ guard[t].on_unlock = guard[t].init /\ p # guard[t].init
  /\ guard' = [guard EXCEPT ![t].on_unlock = p]
  /\ UNCHANGED <<word, futex, pc, req, cur, spin, ret, count, prefer, calls>>

(* ReadLock::clone, up to its first load.                                  *)
Clone(t) ==
  /\ pc[t] = "held" /\ guard[t].kind = "read" /\ guard[t].count < MaxGuards
  /\ Goto(t, CloneTop(word, 0), word, 0, "clone")
  /\ UNCHANGED <<word, guard, futex, count, prefer, calls>>

(* Lock::into_read_lock, called by the client through From or by a writer  *)
(* woken in a phase in which reading is enough.  While it wakes readers    *)
(* the Lock is still alive: the guard keeps both its phases.               *)
IntoReadLock(t) ==
  LET g == guard[t]
  IN /\ \/ pc[t] = "convert"
        \/ /\ pc[t] = "held" /\ g.kind = "write" /\ req[t] # NoRequest
           /\ g.on_unlock \in Converts[req[t]]
     /\ word' = [word EXCEPT !.phase = SymDiff(@, SymDiff(g.init, g.on_unlock)),
                             !.locked = ~@, !.readers = FlipUnity(@)]
     /\ IF word.rw
          THEN /\ Goto(t, "conv_xor", Blank, 0, "held")
               /\ guard' = [guard EXCEPT ![t].kind = "read", ![t].count = 1]
          ELSE Goto(t, "held", Blank, 0, "idle") /\ guard' = [guard EXCEPT ![t] = ReadLock(g.on_unlock)]
     /\ UNCHANGED <<futex, count, prefer, calls>>

(* Lock::drop: a compare-and-exchange that succeeds when nobody waits,     *)
(* else the lock is released with fetch_xor and handed over.               *)
DropLock(t) ==
  LET g == guard[t]
  IN /\ pc[t] = "drop" \/ (pc[t] = "held" /\ g.kind = "write")
     /\ IF word = [Free(g.init) EXCEPT !.locked = TRUE]
          THEN /\ word' = Free(g.on_unlock)
               /\ guard' = [guard EXCEPT ![t] = NoGuard]
               /\ Finish(t)
          ELSE /\ Goto(t, "drop_xor", Blank, 0, ret[t])
               /\ UNCHANGED <<word, guard>>
     /\ UNCHANGED <<futex, count, prefer, calls>>

DropXor(t) ==
  LET g == guard[t]
  IN /\ pc[t] = "drop_xor"
     /\ word' = [word EXCEPT !.phase = SymDiff(@, SymDiff(g.init, g.on_unlock)), !.locked = ~@]
     /\ guard' = [guard EXCEPT ![t] = NoGuard]
     /\ IF has_no_waiters(word) THEN Finish(t) ELSE Goto(t, "transfer", word', 0, ret[t])
     /\ UNCHANGED <<futex, count, prefer, calls>>

(* ReadLock::drop, of a client's guard or of one the locker took itself.   *)
DropReadLock(t) ==
  LET g == guard[t]
      left == IF g.count > 1 THEN [g EXCEPT !.count = @ - 1] ELSE NoGuard
      r == IF pc[t] = "held" /\ g.count > 1 THEN "held" ELSE ret[t]
  IN /\ pc[t] = "read_drop" \/ (pc[t] = "held" /\ g.kind = "read")
     /\ word' = [word EXCEPT !.readers = @ - 1]
     /\ guard' = [guard EXCEPT ![t] = left]
     /\ IF has_one_reader(word) /\ ~word.locked /\ ~has_no_waiters(word)
          THEN Goto(t, "transfer", word', 0, r)
          ELSE Goto(t, ReturnTo(r), Blank, 0, r)
     /\ UNCHANGED <<futex, count, prefer, calls>>
-----------------------------------------------------------------------------
(***************************************************************************)
(* transfer_lock and wake_readers: the lock is free but for its waiter     *)
(* bits, which keep everybody else out, and is handed to one sleeping      *)
(* writer or to the sleeping readers.                                      *)
(***************************************************************************)
prefer_wake_one_writer == IF Linux THEN fairness # 0 ELSE fairness = 0

TransferLock(t) ==
  /\ pc[t] = "transfer"
  /\ prefer' = [prefer EXCEPT ![t] = prefer_wake_one_writer]
  /\ IF cur[t].locked \/ has_readers(cur[t]) \/ has_no_waiters(cur[t]) THEN Panic(t)
     ELSE Goto(t, TransferNext(prefer_wake_one_writer, cur[t]), cur[t], 0, ret[t])
  /\ UNCHANGED <<word, guard, futex, count, calls>>

GiveXorUnlocked(t) ==   \* mutant: LOCKED_BIT is not set for the new owner
  /\ pc[t] = "give_xor"
  /\ word' = [word EXCEPT !.ww = ~@]
  /\ Goto(t, "give_wake", [cur[t] EXCEPT !.ww = ~@], 0, ret[t])
  /\ UNCHANGED <<guard, futex, count, prefer, calls>>

(* WRITE_WAITER_BIT is traded for LOCKED_BIT.                              *)
GiveXor(t) ==
  /\ pc[t] = "give_xor"
  /\ word' = [word EXCEPT !.ww = ~@, !.locked = ~@]
  /\ IF ~word.ww \/ word.locked \/ has_readers(word) THEN Panic(t)
     ELSE Goto(t, "give_wake", [cur[t] EXCEPT !.ww = ~@, !.locked = ~@], 0, ret[t])
  /\ UNCHANGED <<guard, futex, count, prefer, calls>>

(* wake_one_writer: the woken writer owns the lock.                        *)
GiveWake(t) ==
  LET sleepers == {u \in Threads : pc[u] = "sleep_w"}
  IN /\ pc[t] = "give_wake"
     /\ fairness' = (fairness + 1) % Period
     /\ \/ \E u \in sleepers :
             /\ pc' = [pc EXCEPT ![u] = "woken_w", ![t] = ReturnTo(ret[t])]
             /\ cur' = [cur EXCEPT ![t] = Blank]
             /\ req' = [req EXCEPT ![t] = IF ReturnTo(ret[t]) = "idle" THEN NoRequest ELSE @]
             /\ prefer' = [prefer EXCEPT ![t] = FALSE]
             /\ UNCHANGED <<spin, ret>>
        \/ /\ sleepers = {}
           /\ Goto(t, IF prefer[t] /\ cur[t].rw THEN "wake_xor" ELSE "give_and", cur[t], 0, ret[t])
           /\ UNCHANGED prefer
     /\ UNCHANGED <<word, guard, writer_count, count, calls>>

(* No writer slept: the lock is released, unless new waiters came.         *)
GiveAnd(t) ==
  LET left == [word EXCEPT !.locked = FALSE]
  IN /\ pc[t] = "give_and"
     /\ word' = left
     /\ CASE ~word.locked -> Panic(t)
          [] word.locked /\ has_no_waiters(word) -> Finish(t)
          [] OTHER -> Goto(t, TransferNext(prefer[t], left), left, 0, ret[t])
     /\ prefer' = [prefer EXCEPT ![t] = @ /\ ~has_no_waiters(word)]
     /\ UNCHANGED <<guard, futex, count, calls>>

(* wake_readers, first access.  READER_OVERF keeps the word read-locked    *)
(* until the number of woken readers is known.  In a transfer the thread   *)
(* also takes a read lock of its own, and gives up LOCKED_BIT if it has it.*)
WakeXor(t) ==
  /\ pc[t] = "wake_xor"
  /\ word' = [word EXCEPT !.rw = ~@, !.readers = FlipOverf(FlipUnity(@)),
                          !.locked = IF cur[t].locked THEN ~@ ELSE @]
  /\ IF word.locked # cur[t].locked \/ word.readers % 2 # 0 THEN Panic(t)
     ELSE Goto(t, "wake_call", Blank, 0, ret[t])
  /\ prefer' = [prefer EXCEPT ![t] = FALSE]
  /\ UNCHANGED <<guard, futex, count, calls>>

(* In a conversion, a failed assertion unwinds through into_read_lock,     *)
(* which drops the Lock that was being converted.                          *)
ConvertXor(t) ==
  /\ pc[t] = "conv_xor"
  /\ word' = [word EXCEPT !.rw = ~@, !.readers = FlipOverf(@)]
  /\ IF word.locked
       THEN /\ Goto(t, "drop", Blank, 0, "dead")
            /\ guard' = [guard EXCEPT ![t].kind = "none", ![t].count = 0]
       ELSE Goto(t, "conv_call", Blank, 0, ret[t]) /\ UNCHANGED guard
  /\ UNCHANGED <<futex, count, prefer, calls>>

(* Futex::wake_readers: at most MAX_WAKED_READERS readers are woken, each  *)
(* of which owns a read lock.                                              *)
FutexWakeReaders(t) ==
  LET sleepers == {u \in Threads : pc[u] = "sleep_r"}
      next(n) == IF pc[t] = "wake_call" THEN IF n = Overf THEN "wake_or" ELSE "wake_sub"
                                        ELSE IF n = Overf THEN "conv_or" ELSE "conv_sub"
  IN /\ pc[t] \in {"wake_call", "conv_call"}
     /\ fairness' = 1 % Period
     /\ \E S \in SUBSET sleepers :
          /\ Cardinality(S) = IF Cardinality(sleepers) < Overf THEN Cardinality(sleepers) ELSE Overf
          /\ count' = [count EXCEPT ![t] = Cardinality(S)]
          /\ pc' = [u \in Threads |-> IF u = t THEN next(Cardinality(S))
                                      ELSE IF u \in S THEN "woken_r" ELSE pc[u]]
     /\ UNCHANGED <<word, guard, writer_count, req, cur, spin, ret, prefer, calls>>

OrNothing(t) ==   \* mutant: those left asleep are not announced again
  /\ pc[t] \in {"wake_or", "conv_or"}
  /\ Goto(t, IF pc[t] = "wake_or" THEN "wake_sub" ELSE "conv_sub", Blank, 0, ret[t])
  /\ UNCHANGED <<word, guard, futex, count, prefer, calls>>

(* MAX_WAKED_READERS were woken: there may be more, READ_WAITER_BIT is set *)
(* again before READER_OVERF is given back.                                *)
OrReadWaiter(t) ==
  /\ pc[t] \in {"wake_or", "conv_or"}
  /\ word' = [word EXCEPT !.rw = TRUE]
  /\ Goto(t, IF pc[t] = "wake_or" THEN "wake_sub" ELSE "conv_sub", Blank, 0, ret[t])
  /\ UNCHANGED <<guard, futex, count, prefer, calls>>

(* wake_readers, last access: READER_OVERF is traded for the readers woken;*)
(* a transfer then drops its own read lock.                                *)
WakeSub(t) ==
  /\ pc[t] \in {"wake_sub", "conv_sub"}
  /\ word' = [word EXCEPT !.readers = @ - (Overf - count[t])]
  /\ count' = [count EXCEPT ![t] = 0]
  /\ IF pc[t] = "wake_sub" THEN Goto(t, "read_drop", Blank, 0, ret[t]) /\ UNCHANGED guard
                           ELSE Acquired(t, ReadLock(word.phase))
  /\ UNCHANGED <<futex, prefer, calls>>
-----------------------------------------------------------------------------
(* The thread goes on with what it has begun.                              *)
Proceed(t) ==
  \/ WriteCas(t) \/ TryRead(t) \/ ReadCas(t) \/ ReadLoad(t) \/ SlowLoad(t)
  \/ LockWhileReaders(t) \/ ReadersLoad(t) \/ ReadersCas(t)
  \/ SetWaiter(t) \/ CountAdd(t) \/ FutexWait(t) \/ CountSub(t)
  \/ OrWriteWaiter(t) \/ LockedLoad(t) \/ WokenReader(t)
  \/ IntoReadLock(t) \/ DropLock(t) \/ DropXor(t) \/ DropReadLock(t)
  \/ TransferLock(t) \/ GiveXor(t) \/ GiveWake(t) \/ GiveAnd(t)
  \/ WakeXor(t) \/ ConvertXor(t) \/ FutexWakeReaders(t) \/ OrReadWaiter(t) \/ WakeSub(t)

(* A client's free choice, or the kernel's.                                *)
Begin(t) ==
  \/ \E q \in Requests : OptimisticLock(t, q)
  \/ LockMut(t) \/ Clone(t) \/ Interrupt(t)
  \/ \E p \in Phases : SetPhase(t, p)

Next == \E t \in Threads : Proceed(t) \/ Begin(t)

Spec == Init /\ [][Next]_vars

(* Threads are scheduled, and clients drop the guards they get.            *)
FairSpec == Spec /\ \A t \in Threads : WF_vars(Proceed(t))
-----------------------------------------------------------------------------
(***************************************************************************)
(* Properties.                                                             *)
(***************************************************************************)

(* The locker implements the abstract phase lock: a write guard excludes   *)
(* every other guard, and the phase bits of the word change only when a    *)
(* write guard is dropped or converted (the promises of PhaseLocker::lock  *)
(* in sync.rs).                                                            *)
Abstract == INSTANCE PhaseLock WITH
  phase <- word.phase,
  writers <- {t \in Threads : guard[t].kind = "write"},
  readers <- [t \in Threads |-> guard[t].count]

ImplementsPhaseLock == Abstract!Spec

(* No two guards conflict, although the lock is handed over by writing to  *)
(* the word on behalf of sleeping threads: transfer_lock, wake_readers.    *)
Exclusion == Abstract!Exclusion

(* A thread owns a unit of the reader field: a read guard, or the read     *)
(* lock that it has been woken with or that transfer_lock took for itself. *)
Units(t) ==
  IF pc[t] \in {"woken_r", "wake_call", "wake_or", "wake_sub", "read_drop"} /\ guard[t].kind # "read"
    THEN 1
  ELSE IF pc[t] = "woken_r" THEN guard[t].count + 1
  ELSE guard[t].count

ReadLocks == {x \in Threads \X (1..MaxGuards) : x[2] <= Units(x[1])}

(* What wake_readers has still to take back of READER_OVERF: all of it     *)
(* but one unit for each of the readers it has woken.                      *)
Unsettled ==
  {x \in Threads \X (1..Overf) :
     /\ pc[x[1]] \in {"wake_call", "wake_or", "wake_sub", "conv_call", "conv_or", "conv_sub"}
     /\ x[2] > count[x[1]]}

(* The reader field counts the read locks, plus READER_OVERF less the      *)
(* readers already woken while wake_readers has not settled its count; and *)
(* it never runs over into the bits above READER_OVERF.                    *)
ReaderAccounting ==
  /\ word.readers = Cardinality(ReadLocks) + Cardinality(Unsettled)
  /\ word.readers < 2 * Overf

(* No assertion of sync.rs and futex.rs fails: no thread has panicked.     *)
AssertionsHold ==
  \A t \in Threads : pc[t] \notin {"dead", "aborted"} /\ ret[t] # "dead"

(* Nobody sleeps unless some thread is still going to release the lock or  *)
(* to hand it over: no wake-up is lost between the bits of the word,       *)
(* writer_count and the futex queues.                                      *)
NoLostWakeup ==
  (\E t \in Threads : pc[t] \in {"sleep_r", "sleep_w"})
    => \E t \in Threads : pc[t] \notin {"sleep_r", "sleep_w", "idle"}

(* When nobody uses the lock the word is free: no lock bit or reader unit  *)
(* is left, and no waiter bit, which would keep every thread out for ever. *)
QuietWordIsFree ==
  (\A t \in Threads : pc[t] = "idle") => word = Free(word.phase)

(* The answer of lock and try_lock is the one that the caller's closure    *)
(* gives in the phase in which the guard was granted, and that is still    *)
(* the phase of the static.  The sequentializer relies on it with          *)
(* unreachable_unchecked.                                                  *)
AnswerFits ==
  \A t \in Threads : pc[t] = "held" =>
    /\ guard[t].init = word.phase
    /\ req[t] # NoRequest =>
         \/ guard[t].kind = "write" /\ How[req[t]][word.phase] = "Write"
         \/ guard[t].kind = "read" /\ How[req[t]][word.phase] = "Read"
         \/ guard[t].kind = "read" /\ word.phase \in Converts[req[t]]

(* The word, the guards and the futex queues agree, although they are      *)
(* written by different threads in separate accesses: the conjunction of   *)
(* the facts above that the code relies on.                                *)
WordAgrees ==
  /\ ReaderAccounting
  /\ NoLostWakeup
  /\ QuietWordIsFree
  /\ AnswerFits

(* Where nobody turns a write guard into a read guard, or the clients that *)
(* do agree on the phases: no assertion fails, and the word, the guards and*)
(* the futex queues agree at every step.                                   *)
WordSound == AssertionsHold /\ WordAgrees

(* Whatever the clients mix, up to the first failed assertion: the word,   *)
(* the guards and the futex queues agree at every step.                    *)
SoundUntilPanic == AssertionsHold => WordAgrees

(* Of the assertions of sync.rs and futex.rs only that of wake_readers, in *)
(* a conversion, can be the first to fail: another thread has locked the   *)
(* word between the two accesses of into_read_lock.                        *)
OnlyConversionPanics ==
  [][AssertionsHold =>
       \/ AssertionsHold'
       \/ \E t \in Threads : ConvertXor(t) /\ word.locked]_vars

(* When each thread makes finitely many calls, no thread sleeps for ever:  *)
(* every sleeper is handed the lock, whatever the spinning and retrying of *)
(* the other threads.                                                      *)
SleepersWake ==
  \A t \in Threads : (pc[t] \in {"sleep_r", "sleep_w"}) ~> (pc[t] \notin {"sleep_r", "sleep_w"})
=============================================================================
