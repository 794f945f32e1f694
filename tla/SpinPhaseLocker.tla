--------------------------- MODULE SpinPhaseLocker ---------------------------
(***************************************************************************)
(* The spinning phase locker: src/src/phase_locker/sync_spinning.rs, which *)
(* replaces sync.rs under the feature "spin_loop".                         *)
(*                                                                         *)
(* One step of a thread is one atomic access to the lock word, with what   *)
(* the thread computes from the value it got.  The word has no waiter      *)
(* bits: a thread that cannot go on loads the word again.                  *)
(***************************************************************************)
EXTENDS Integers, FiniteSets, FiniteSetsExt

CONSTANTS
  Threads,
  Flags,        \* phase flags; a phase is a set of flags
  Requests,     \* the ways in which clients call lock
  How,          \* How[q][p]: the closure lock_nature of request q
  Hint,         \* Hint[q]: the phase request q expects
  Tries,        \* requests that are made through try_lock
  Unlocks,      \* Unlocks[q]: phases that a holder may give its write guard
  Converts,     \* Converts[q]: phases in which it turns it into a read guard
  MaxReaders,   \* capacity of the reader field, READER_OVERF | READER_BITS
  WeakCas,      \* TRUE: compare_exchange_weak may fail spuriously
  MaxGuards,    \* bound: read guards one thread owns through clone
  MaxCalls      \* bound: calls of lock and clone a thread makes; 0 for no bound

Natures == {"None", "Read", "Write"}
Phases == SUBSET Flags
NoRequest == "no request"

ASSUME SpinAssumption ==
  /\ IsFiniteSet(Threads)
  /\ NoRequest \notin Requests
  /\ How \in [Requests -> [Phases -> Natures]]
  /\ Hint \in [Requests -> Phases]
  /\ Unlocks \in [Requests -> SUBSET Phases]
  /\ Converts \in [Requests -> SUBSET Phases]
  /\ Tries \subseteq Requests
  /\ MaxReaders \in Nat \ {0}
  /\ MaxGuards \in Nat \ {0}
  /\ MaxCalls \in Nat
  /\ WeakCas \in BOOLEAN

VARIABLES
  word,         \* the lock word: phase flags, reader count and LOCKED_BIT
  pc,           \* next access of each thread
  req,          \* request each thread is serving
  cur,          \* the value `cur` of the word that the thread goes by
  guard,        \* the guards each thread owns
  calls         \* calls each thread has made, counted up to MaxCalls

vars == <<word, pc, req, cur, guard, calls>>

Word == [phase : Phases, readers : Int, locked : BOOLEAN]
Free(p) == [phase |-> p, readers |-> 0, locked |-> FALSE]
WriteLocked(p) == [phase |-> p, readers |-> 0, locked |-> TRUE]
Blank == Free({})

has_no_readers(v) == v.readers = 0
readers_beyond_max(v) == v.readers > MaxReaders   \* mutant: one reader too many
has_readers_max(v) == v.readers = MaxReaders
write_lockable_with_reader(v) == ~v.locked /\ v.readers = 1   \* mutant: off by one
is_write_lockable(v) == ~v.locked /\ has_no_readers(v)
read_lockable_unless_max(v) == ~has_readers_max(v)   \* mutant: forgets LOCKED_BIT
is_read_lockable(v) == ~v.locked /\ ~has_readers_max(v)

(* A Lock remembers the phase it was taken in and the phase to leave       *)
(* behind; a ReadLock remembers the phase it was taken in.                 *)
Guard == [kind : {"none", "read", "write"}, count : Nat, init : Phases, on_unlock : Phases]
NoGuard == [kind |-> "none", count |-> 0, init |-> {}, on_unlock |-> {}]
Lock(v) == [kind |-> "write", count |-> 0, init |-> v.phase, on_unlock |-> v.phase]
ReadLock(p) == [kind |-> "read", count |-> 1, init |-> p, on_unlock |-> {}]

Locations == {"idle", "held", "try_write", "try_read", "lock_cas", "read_cas",
              "read_load", "slow_load", "clone_cas", "clone_load", "dead"}

TypeOK ==
  /\ word \in Word
  /\ pc \in [Threads -> Locations]
  /\ req \in [Threads -> Requests \cup {NoRequest}]
  /\ cur \in [Threads -> Word]
  /\ guard \in [Threads -> Guard]
  /\ calls \in [Threads -> 0..MaxCalls]

Init ==
  /\ word = Free({})
  /\ pc = [t \in Threads |-> "idle"]
  /\ req = [t \in Threads |-> NoRequest]
  /\ cur = [t \in Threads |-> Blank]
  /\ guard = [t \in Threads |-> NoGuard]
  /\ calls = [t \in Threads |-> 0]
-----------------------------------------------------------------------------
LoopTopWrites(q, v) ==   \* mutant: a waiting writer does not ask its closure again
  IF How[q][v.phase] = "Read" THEN IF is_read_lockable(v) THEN "read_cas" ELSE "slow_load"
  ELSE IF is_write_lockable(v) THEN "lock_cas" ELSE "slow_load"

(* Where raw_lock_slow, try_raw_lock and clone go with the value v.        *)
LoopTop(q, v) ==
  CASE How[q][v.phase] = "None" -> "idle"
    [] How[q][v.phase] = "Write" -> IF is_write_lockable(v) THEN "lock_cas" ELSE "slow_load"
    [] How[q][v.phase] = "Read" -> IF is_read_lockable(v) THEN "read_cas" ELSE "slow_load"

SecondTry(q, v) ==
  CASE How[q][v.phase] = "None" -> "idle"
    [] How[q][v.phase] = "Write" -> IF is_write_lockable(v) THEN "try_write" ELSE "idle"
    [] How[q][v.phase] = "Read" -> IF is_read_lockable(v) THEN "try_read" ELSE "idle"

CloneTop(v) == IF has_readers_max(v) THEN "clone_load" ELSE "clone_cas"

(* t goes to location l with cur = v; a `cur` that the code does not look  *)
(* at any more is blanked.                                                 *)
Goto(t, l, v) ==
  /\ pc' = [pc EXCEPT ![t] = l]
  /\ cur' = [cur EXCEPT ![t] = IF l \in {"try_write", "try_read", "lock_cas", "read_cas", "clone_cas"}
                                 THEN v ELSE Blank]
  /\ req' = [req EXCEPT ![t] = IF l = "idle" THEN NoRequest ELSE @]

Grant(t, g) ==
  /\ guard' = [guard EXCEPT ![t] = g]
  /\ Goto(t, "held", Blank)

MayCall(t) ==
  /\ MaxCalls = 0 \/ calls[t] < MaxCalls
  /\ calls' = [calls EXCEPT ![t] = IF MaxCalls = 0 THEN 0 ELSE @ + 1]

CasFails(t) == word # cur[t] \/ WeakCas
-----------------------------------------------------------------------------
(* A call of lock or try_lock: a compare-and-exchange that bets on the     *)
(* hint, then what follows from the value found.                           *)
OptimisticLock(t, q) ==
  LET hinted == How[q][Hint[q]]
      bet == word = Free(Hint[q])
      next == IF q \in Tries THEN SecondTry(q, word) ELSE LoopTop(q, word)
  IN /\ pc[t] = "idle"
     /\ MayCall(t)
     /\ \/ /\ hinted = "Write" /\ bet
           /\ word' = [word EXCEPT !.locked = TRUE]
           /\ guard' = [guard EXCEPT ![t] = Lock(word)]
           /\ pc' = [pc EXCEPT ![t] = "held"]
           /\ req' = [req EXCEPT ![t] = q]
           /\ UNCHANGED cur
        \/ /\ hinted = "Read" /\ bet
           /\ word' = [word EXCEPT !.readers = 1]
           /\ guard' = [guard EXCEPT ![t] = ReadLock(word.phase)]
           /\ pc' = [pc EXCEPT ![t] = "held"]
           /\ req' = [req EXCEPT ![t] = q]
           /\ UNCHANGED cur
        \/ /\ hinted = "None" \/ ~bet \/ WeakCas
           /\ pc' = [pc EXCEPT ![t] = next]
           /\ req' = [req EXCEPT ![t] = IF next = "idle" THEN NoRequest ELSE q]
           /\ cur' = [cur EXCEPT ![t] = IF next \in {"idle", "slow_load"} THEN Blank ELSE word]
           /\ UNCHANGED <<word, guard>>

(* The compare-and-exchange of try_raw_lock and of raw_lock_slow that      *)
(* takes the lock for writing.                                             *)
WriteCas(t) ==
  /\ pc[t] \in {"try_write", "lock_cas"}
  /\ \/ /\ word = cur[t]
        /\ word' = [word EXCEPT !.locked = TRUE]
        /\ Grant(t, Lock(word))
     \/ /\ pc[t] = "try_write" /\ word # cur[t]
        /\ Goto(t, "idle", Blank)
        /\ UNCHANGED <<word, guard>>
     \/ /\ pc[t] = "lock_cas" /\ CasFails(t)
        /\ Goto(t, LoopTop(req[t], word), word)
        /\ UNCHANGED <<word, guard>>
  /\ UNCHANGED calls

(* Those that add a reader: a failed one goes on with the value found      *)
(* (try_raw_lock), or with a new load (raw_lock_slow, clone).              *)
ReadCas(t) ==
  /\ pc[t] \in {"try_read", "read_cas", "clone_cas"}
  /\ \/ /\ word = cur[t]
        /\ word' = [word EXCEPT !.readers = @ + 1]
        /\ Grant(t, IF pc[t] = "clone_cas" THEN [guard[t] EXCEPT !.count = @ + 1]
                                           ELSE ReadLock(word.phase))
     \/ /\ CasFails(t)
        /\ Goto(t, CASE pc[t] = "try_read" ->
                          IF How[req[t]][word.phase] = "Read" THEN SecondTry(req[t], word) ELSE "idle"
                     [] pc[t] = "read_cas" -> "read_load"
                     [] pc[t] = "clone_cas" -> "clone_load", word)
        /\ UNCHANGED <<word, guard>>
  /\ UNCHANGED calls

(* The load of the inner read loop: when reading is no longer possible, or *)
(* the spins are used up, the outer loop loads once more.  The model has   *)
(* no spin budget: giving up early only repeats the load.                  *)
ReadLoad(t) ==
  /\ pc[t] = "read_load"
  /\ Goto(t, IF How[req[t]][word.phase] = "Read" /\ is_read_lockable(word)
               THEN "read_cas" ELSE "slow_load", word)
  /\ UNCHANGED <<word, guard, calls>>

SlowLoad(t) ==
  /\ pc[t] \in {"slow_load", "clone_load"}
  /\ Goto(t, IF pc[t] = "clone_load" THEN CloneTop(word) ELSE LoopTop(req[t], word), word)
  /\ UNCHANGED <<word, guard, calls>>

(* lock_mut: the exclusive borrow means that no other thread uses the lock.*)
LockMut(t) ==
  /\ \A u \in Threads : pc[u] = "idle"
  /\ MayCall(t)
  /\ word' = [word EXCEPT !.locked = TRUE]
  /\ Grant(t, Lock(word))

(* PhaseGuard::transition and set_phase.                                   *)
SetPhase(t, p) ==
  /\ pc[t] = "held" /\ guard[t].kind = "write"
  /\ req[t] # NoRequest /\ p \in Unlocks[req[t]]
  /\ guard[t].on_unlock = guard[t].init /\ p # guard[t].init
  /\ guard' = [guard EXCEPT ![t].on_unlock = p]
  /\ UNCHANGED <<word, pc, req, cur, calls>>

(* ReadLock::clone, up to its first load.                                  *)
Clone(t) ==
  /\ pc[t] = "held" /\ guard[t].kind = "read" /\ guard[t].count < MaxGuards
  /\ MayCall(t)
  /\ Goto(t, CloneTop(word), word)
  /\ UNCHANGED <<word, guard>>

(* Lock::into_read_lock: one fetch_xor on the difference of the phases, on *)
(* LOCKED_BIT and on READER_UNITY.                                         *)
IntoReadLock(t) ==
  LET g == guard[t]
  IN /\ pc[t] = "held" /\ g.kind = "write" /\ req[t] # NoRequest
     /\ g.on_unlock \in Converts[req[t]]
     /\ word' = [phase |-> SymDiff(word.phase, SymDiff(g.init, g.on_unlock)),
                 readers |-> IF word.readers % 2 = 0 THEN word.readers + 1 ELSE word.readers - 1,
                 locked |-> ~word.locked]
     /\ Grant(t, ReadLock(g.on_unlock))
     /\ UNCHANGED calls

(* Lock::drop: a compare-and-exchange whose failure is unreachable!().     *)
DropLock(t) ==
  LET g == guard[t]
  IN /\ pc[t] = "held" /\ g.kind = "write"
     /\ IF word = WriteLocked(g.init)
          THEN word' = Free(g.on_unlock) /\ Goto(t, "idle", Blank)
          ELSE UNCHANGED word /\ Goto(t, "dead", Blank)
     /\ guard' = [guard EXCEPT ![t] = NoGuard]
     /\ UNCHANGED calls

DropReadLockKeeps(t) ==   \* mutant: a dropped guard stays owned
  /\ pc[t] = "held" /\ guard[t].kind = "read"
  /\ word' = [word EXCEPT !.readers = @ - 1]
  /\ Grant(t, [guard[t] EXCEPT !.count = @ - 1])
  /\ UNCHANGED calls

DropReadLock(t) ==
  LET g == guard[t]
  IN /\ pc[t] = "held" /\ g.kind = "read"
     /\ word' = [word EXCEPT !.readers = @ - 1]
     /\ IF g.count > 1 THEN Grant(t, [g EXCEPT !.count = @ - 1])
                       ELSE guard' = [guard EXCEPT ![t] = NoGuard] /\ Goto(t, "idle", Blank)
     /\ UNCHANGED calls
-----------------------------------------------------------------------------
(* The thread goes on with what it has begun.                              *)
Proceed(t) ==
  \/ WriteCas(t) \/ ReadCas(t) \/ ReadLoad(t) \/ SlowLoad(t)
  \/ IntoReadLock(t) \/ DropLock(t) \/ DropReadLock(t)

(* A client's free choice.                                                 *)
Begin(t) ==
  \/ \E q \in Requests : OptimisticLock(t, q)
  \/ LockMut(t) \/ Clone(t)
  \/ \E p \in Phases : SetPhase(t, p)

Next == \E t \in Threads : Proceed(t) \/ Begin(t)

Spec == Init /\ [][Next]_vars

(* Threads are scheduled, and clients drop the guards they get.            *)
FairSpec == Spec /\ \A t \in Threads : WF_vars(Proceed(t))
-----------------------------------------------------------------------------
(***************************************************************************)
(* Properties.                                                             *)
(***************************************************************************)

(* The locker implements the abstract phase lock: the promises of          *)
(* SyncPhaseLocker::lock, of the guards and of From<Lock> for ReadLock.    *)
Abstract == INSTANCE PhaseLock WITH
  phase <- word.phase,
  writers <- {t \in Threads : guard[t].kind = "write"},
  readers <- [t \in Threads |-> guard[t].count]

ImplementsPhaseLock == Abstract!Spec

(* A write guard is the only guard.                                        *)
Exclusion == Abstract!Exclusion

(* The read guards there are: the i-th of thread t.                        *)
ReadGuards == {g \in Threads \X (1..MaxGuards) : g[2] <= guard[g[1]].count}

(* The reader field counts the read guards, one by one, and never runs     *)
(* over into LOCKED_BIT (has_readers_max), whatever clones, failed         *)
(* exchanges and conversions came before.                                  *)
GuardsCounted ==
  word.readers = Cardinality(ReadGuards) /\ word.readers <= MaxReaders

(* The exchange of Lock::drop never fails: unreachable!() is unreachable.  *)
AssertionsHold == \A t \in Threads : pc[t] # "dead"

(* The answer of lock and try_lock is the one that the caller's closure    *)
(* gives in the phase in which the guard was granted, and that is still    *)
(* the phase of the static.                                                *)
AnswerFits ==
  \A t \in Threads : pc[t] = "held" =>
    /\ guard[t].init = word.phase
    /\ req[t] # NoRequest =>
         \/ guard[t].kind = "write" /\ How[req[t]][word.phase] = "Write"
         \/ guard[t].kind = "read" /\ How[req[t]][word.phase] = "Read"
         \/ guard[t].kind = "read" /\ word.phase \in Converts[req[t]]

(* When the threads make finitely many calls and drop their guards, every  *)
(* call returns and every guard is given up: nobody spins for ever.        *)
EveryCallReturns == \A t \in Threads : (pc[t] # "idle") ~> (pc[t] = "idle")
=============================================================================
