# Verification of static_init

TLA+ specifications of `static_init`: the attribute macro that turns a static into
a lazy or a raw static, the locks that carry the life-cycle phase of a lazy, the
sequentializer that initializes and finalizes it under such a lock, the managers
that finalize statics when the program or a thread exits, and the constructors
and destructors around `main`. TLC checks them on small instances, TLAPS proves
the results listed under *Proofs* for every value of the constants.

Paths below are relative to the repository (`src/` is the crate; `src/src/` in
`PROJECT.json`). Files of this project are in one flat directory; `X.cfg` is the
TLC configuration of run `X`, and `PROJECT.json` names the module of each run.

    tlc -workers 2 -config SyncTwo.cfg MCSyncPhaseLocker
    tlapm SpinPhaseLocker_proof.tla

## 1. The system

| Component | State | Operations | Talks to |
|---|---|---|---|
| `phase_locker.rs`: traits `PhaseLocker`, `PhaseGuard` | a phase (a set of flags) and the guards handed out | `lock`, `try_lock`, `lock_mut`, `set_phase`, `transition` | implemented by three lockers |
| `phase_locker/sync.rs` + `futex.rs` + `spin_wait.rs`: blocking locker | one 32-bit word (phase flags, reader field, `LOCKED_BIT`, two waiter bits), `writer_count`, a fairness counter, two futex queues | the above, `ReadLock::clone`, `Lock::into_read_lock`, the drops, `transfer_lock`, `wake_readers` | kernel futex, or `parking_lot_core` |
| `phase_locker/sync_spinning.rs`: spinning locker (`spin_loop`) | one word without waiter bits | the same | nothing |
| `phase_locker/unsync.rs`: thread-local locker | a `Cell<u32>` | the same; a conflict panics or gives `None` | nothing |
| `lazy_sequentializer.rs` | the locker's phase | `init`, `[try_]init_then_{read,write}_guard`, `lock`, `try_lock`, `finalize_callback`; `lazy_initialization`, `lazy_finalization` | locker; closures `reg`, `init`, `finaly` |
| `lazy.rs`, `generic_lazy.rs` | the target, an `UnsafeCell`; `LAZY_INIT_ENSURED` | access functions; policies `shall_init`, `is_accessible`, `post_init_is_accessible` | sequentializer |
| `exit_sequentializer.rs`, `exit_manager` | `REGISTER` (head of an intrusive list, `registration_opened`) and a `next` pointer per static | `finalize_at_exit`, `execute_at_exit` | is `reg` of the sequentializer; calls `finalize_callback` |
| `exit_sequentializer.rs`, `local_manager` | per-thread list; `DONE`, `DESTROYING` or a pthread key with `ITERATION_COUNT` | registration and execution at thread exit | OS: Windows TLS callback, `__cxa_thread_atexit_impl`, pthread keys |
| `raw_static.rs` | a status per static, `CUR_INIT_PRIO`, `CUR_DROP_PRIO` (debug) | `set_to`, `drop`, `check_access` | constructors, destructors |
| `static_init_macro` | `DynMode` while it expands | `parse_dyn_options`, `gen_dyn_init`, sections of constructors and destructors | everything |

How they interact: an access function of a lazy calls the sequentializer, which
calls `lock` with a closure that says, for each phase, whether a write guard, a
read guard or no guard is wanted. A write guard is what initialization and
finalization run under. `reg` (first access of a finalized static) enters the
exit manager's mutex; `execute_at_exit` comes back through `finalize_callback`
and takes the write guard again. Thread-locals do the same through a list of
their thread, and everything they call may call them. The macro decides which of
the types a static becomes, and gives lesser lazies and raw statics a constructor
or destructor with a priority.

What is hard about it:

- a locker hands the lock over by writing to the word *on behalf of* sleeping
  threads, in several atomic accesses, while others spin, arrive, sleep, are
  interrupted or clone guards;
- closures are asked again after each wait, and `unreachable_unchecked` relies on
  the answer;
- initialization runs three foreign closures, each of which may panic and be
  retried by another thread, and the access policies *skip* checks that they
  believe redundant, with `LAZY_INIT_ENSURED` even the look at the phase;
- registration goes on while the exit managers walk their lists;
- in one thread, generators, drops and holders of guards call back into the same
  statics, and may call `exit`;
- the attribute's arguments come in any order, and the type is chosen by a chain
  of some twenty conditions.

What makes each part correct: exclusion and stable phase, exact reader field, no
failed assertion, no lost wake-up (lockers); a handed-out target is generated and
not dropped, generated once, finalized at most once and unobserved (lazies);
nobody lost, nobody twice, everything due is finalized, and the loop ends (exit);
an attribute means the same in every order and gets the type that does what it
asks for (macro); exactly the sequenced accesses are allowed (raw statics).

The list of hazards with the source line where each bites, and the properties
aimed at it, is in `PROJECT.json`.

## 2. Modules

| Module | Models |
|---|---|
| `PhaseLock` | the promise: a reader/writer lock whose phase changes only when a writer gives up its guard |
| `SyncPhaseLocker` | `sync.rs` on `futex.rs`, one atomic access or system call per step |
| `SpinPhaseLocker` | `sync_spinning.rs`, one atomic access per step |
| `LazyRequests` | the closures passed to `lock`: what each operation asks for in each phase |
| `LazySequentializer` | `lazy_sequentializer.rs` with the policies of `lazy.rs` as `generic_lazy.rs` applies them, on an abstract locker |
| `LesserLazy` | the lesser lazies, their constructors and `LAZY_INIT_ENSURED`, on `LazySequentializer` |
| `ExitSequentializer` | `exit_manager` composed with `LazySequentializer` |
| `UnSyncPhaseLocker` | `unsync.rs` under `LazySequentializer`: the thread-local lazies, with nested calls |
| `DestructorKey` | `get_key` of the pthread back end, several threads |
| `ThreadExit` | `local_manager`: the three back ends, composed with the two modules above |
| `DynamicMacro` | `#[dynamic(..)]`: parsing, checks, choice of the type |
| `RawStatic` | raw statics, constructors and destructors of a program, on `DynamicMacro` |
| `PhaseLock_proof`, `SpinPhaseLocker_proof`, `SyncPhaseLocker_proof`, `LazySequentializer_proof`, `LesserLazy_proof`, `ExitSequentializer_proof`, `ThreadExit_proof`, `RawStatic_proof` | theorems about the module of that name (`ThreadExit_proof` also about `UnSyncPhaseLocker` and `DestructorKey`, `RawStatic_proof` about `DynamicMacro`) |
| `MC*` | instances for TLC |

Composition: `SyncPhaseLocker` and `SpinPhaseLocker` each contain
`Abstract == INSTANCE PhaseLock WITH phase <- word.phase, writers <- the threads
that own a write guard, readers <- the read guards of each thread`, and
`ImplementsPhaseLock == Abstract!Spec`. `LazySequentializer` takes the guards of
such a lock in single steps. `ExitSequentializer` extends it and is shown to
refine it (`ExitImplementsLazy`), so the list-walking registry only does what
the free registry of `LazySequentializer` may do.

### SyncPhaseLocker

`word` is a record of the bit fields; `readers` is `READER_OVERF | READER_BITS` in
units of `READER_UNITY`, an integer, so that an underflow shows. `fetch_xor` is
modelled as a flip, not as the assignment it is meant to be. `pc[t]` names the
*next* atomic access of thread `t`; what the thread computes from the value read,
up to its next access, is part of the step. `cur`, `spin`, `ret`, `count`,
`prefer` are the locals alive at that point (blanked when dead, which only merges
states). The action names follow the functions: `OptimisticLock` (`lock`,
`try_lock` up to the first exchange), `WriteCas`, `TryRead`, `ReadCas`/`ReadLoad`
(`read_lock`), `SlowLoad` (a round of `raw_lock_slow` or of `clone`),
`LockWhileReaders`/`ReadersLoad`/`ReadersCas` (`wait_for_readers`), `SetWaiter`,
`CountAdd`, `FutexWait`, `Interrupt`, `CountSub`, `OrWriteWaiter`, `LockedLoad`,
`WokenReader` (the waits and what follows them), `IntoReadLock` with
`ConvertXor`, `DropLock`/`DropXor`, `DropReadLock`, `TransferLock`, `GiveXor`,
`GiveWake`, `GiveAnd` (hand-over to a writer), `WakeXor`, `FutexWakeReaders`,
`OrReadWaiter`, `WakeSub` (hand-over to readers). A failed `assert!` sends the
thread to `dead`, or, during unwinding, the process to `aborted`.

The clients are given by constants: `How`, `OnWait` and `Hint` are the closures and
the hint of a request, `Unlocks` and `Converts` what the holder may do with its
write guard. `MCSyncPhaseLocker` fills them from `LazyRequests`, so the locker is
exercised by the calls of the sequentializer. The request `lock` is the generic
`Sequentializer::lock` with a closure that depends on the phase.

`SpinPhaseLocker` is built alike, without the waiting.

### LazySequentializer and LesserLazy

Per static: `phase`, `writers`, `readers`, `pending` (the phase the write guard will
leave behind, i.e. the `on_panic` phase of `transition` while foreign code runs),
`data` (the target), `node` (what the registry knows) and `finals`, a history
variable. `Kind` says what the target is before and after its use: plain,
finalized, dropped, primed, primed and uninited at exit; `Tolerance` has the three
constants the checkers depend on. A thread pauses where it waits for the lock and
where it runs `reg`, the generator or `finaly`; each may panic, and the unwinding
drops the guard (`Unwind`). An access to a primed static pauses once more between
lock and answer (`PrimedAnswer`), where the code reads the phase and the hint.
`TryFails` lets any `try_lock` fail, which over-approximates contention. The
registry refuses, panics and calls back as it likes; `Begin` and `Proceed` are what
the other modules reuse with their own registry.

`LesserLazy` adds the program around them: `Main` runs one constructor per lesser
lazy (`lazy_init`) and then `mark_inited`; constructors of the user, and threads they
spawn, access any static before, between and after. Once `LAZY_INIT_ENSURED` is
set, the access functions are `get_unchecked` and `lock_unchecked`.

### ExitSequentializer

`first`, `registration_opened` are `REGISTER`; `next` the intrusive links; `list`
and `exit` the locals of `execute_at_exit`. Each holding of the mutex is one step:
`finalize_at_exit`, `execute_at_exit` (up to the loop), `execute`, `take_next`,
`or_else`. A `finaly` that panics below `execute_at_exit` meets the frame of an
`extern "C"` function, and the process aborts.

### UnSyncPhaseLocker, DestructorKey, ThreadExit

All happens in one thread, so a member of `Threads` is here a *call* the thread is
in: only the latest (`Top`) runs, and foreign code on top of it (a generator, a
`finaly`, the holder of a guard) opens another. `cell` is the content of each
locker's `Cell` without the phase; the guards that `LazySequentializer` keeps in
`writers` and `readers` are what it should say. `lock` panics on a conflict, `try_lock`
gives `None`.

`ThreadExit` walks the list of the thread: `execute_destroy` takes it, `execute` calls
`finalize_callback`, `take_next` goes on, `EndWalk` ends. `backend` chooses how a static
registers (`RegisterWindows`, `RegisterCxa`, `RegisterPthread`) and how the system
calls back (`Called`, `PassKey`, external). On cxa targets the checkers take
registration for certain (`built`). `Exit("process")` may happen inside a generator or
while guards are held: the calls below are abandoned (`base`) with their guards.
Destructors of other code (`foreign`) access statics before, between and after.
`DestructorKey` is `get_key`, atomic access by atomic access, with
`pthread_key_create` that may fail, or return `usize::MAX`, which the code deletes and
asks again.

### DynamicMacro, RawStatic

`ParseArg` reads one argument (`read` is its effect on `DynMode`; `sets_init` and
`sets_drop` are `check_no_init!` and `check_no_drop!`), `EndArgs` applies the checks
after the loop, `gen_dyn_init` selects the type (`select`) or fails. An argument is a
word with or without a priority; everything unexpected is the word `other`.
`stage` is `rejected` after a `compile_error!`.

`Link` puts the expanded static into a program with another raw static, a
constructor and a destructor, of any modes and priorities; `CallConstructor`,
`EndConstructor`, `Main`, `CallDestructor`, `EndDestructor` run it in section order.
Before each access `check_access` decides from `status`, `CUR_INIT_PRIO` and
`CUR_DROP_PRIO`; `Access` is an access that it forbids.

## 3. Runs

| Run | Instance | Shows |
|---|---|---|
| `SyncTwo` | 2 threads, phases over `INITIALIZED`, `FINALIZED`; every request of a lazy that is read, written, initialized and finalized, converting ones included and mixed freely; clones; weak exchanges fail spuriously; waits are interrupted | exclusion, refinement of `PhaseLock`, and, up to the first failed assertion, exact reader field, no lost wake-up, no bit left behind, answers that fit (`SoundUntilPanic`); only the assertion of a conversion can be the first to fail |
| `SyncThree` | 3 threads; `init_then_read_guard` and `init_then_write_guard`; `Overf` = 2 | the same and the refinement where write guards are converted into read guards with sleepers of both kinds, and woken threads read another phase than they slept in |
| `SyncFour` | 4 threads, one `write_lock` or `read_lock` each; `Overf` = 2; the futex of `mod other` | `WordSound` and the refinement where more readers sleep than may be woken at once: `READ_WAITER_BIT` is set again and the rest are woken later |
| `SyncLive` | 3 threads, one call each, weak fairness | every sleeper is handed the lock |
| `SyncAssert` | 2 threads | **violation**: the assertion of `wake_readers` (finding 1) |
| `Spin` | 3 threads, 2 calls or clones each, all operations, capacity of 4 readers, weak fairness | the properties of the spinning locker; no thread spins for ever |
| `Lazy` | 3 threads; programs with one static out of eight sorts, or with two lesser lazies | access is sound, the phase tells what has happened to the target (`PhaseTells`), `finaly` at most once and unobserved, the `debug_assert!`s, generated once, poisoning, and the hint is only set when the lesser lazies are initialized |
| `LesserHint` | 2 threads, a lesser lazy with `try_init_once` | **violation**: the hint is set although it is not initialized (finding 2) |
| `Exit` | main and 2 threads, 3 dropped statics | the list of the exit manager; `execute_at_exit` returns |
| `ThreadExit` | one thread with two thread-locals handed out by reference and finalized, one primed, locked and dropped, under each back end, and a peer in `get_key` | accesses are sound, the `Cell` counts the guards exactly, nothing due is lost, one pthread key |
| `ThreadDrop` | one thread-local that is dropped and not `mut` | **violation**: it is handed out while it is dropped (finding 3) |
| `Program` | all attributes of up to 4 arguments, on static or thread-local, `mut` or not, with or without a match, on three sorts of platforms; a second raw static, a constructor, a destructor; 3 priorities | `MacroMeans`, `TypeFits`, `Sequenced` |

### Bounds, and why they are enough

- *Threads*: hand-over involves the thread that leaves, the one it wakes and one
  that arrives: three. With two threads (`SyncTwo`) every operation, spurious
  failure and interrupt is enabled, which three threads would not allow within
  reach. Spurious failures are on in `SyncTwo` and, for the spinning locker, in the
  proofs, which leave `WeakCas` free; `Spin` has them off.
- *Up to the first failed assertion*: a lazy that is read, written and initialized
  mixes converting requests with writing ones, and then the assertion of finding 1
  can fail. `SyncTwo` and `SyncThree` have such clients and stop where it does, with the
  state constraint `AssertionsHold`: TLC evaluates invariants and action properties on the
  step that fails too, and only does not go on from there. `SoundUntilPanic` says the
  same by itself. What a panicking thread leaves behind is not claimed to be sound.
- `Overf` stands for `MAX_WAKED_READERS` (2^20 in the code): 2 in `SyncFour`, where
  three readers sleep while the fourth thread writes, so that one is left asleep
  by the first `wake_readers`; 2 in `SyncThree`, where at most two sleep; larger
  elsewhere, so that it does not mask anything. A clone at the limit, real or
  apparent, is listed as a hazard; no run gets there (section 5).
- `Period` = 2: both answers of `prefer_wake_one_writer` occur. The code takes a
  16-bit counter modulo `READ_FAIRNESS_PERIOD` = 32, which divides 2^16.
- `SpinLimit` = 0 or 1: a spin repeats a load; one repetition reaches both outcomes.
- `MaxGuards`: read guards per thread through `clone`; 2 gives a clone of a clone's
  origin while other readers come and go.
- `MaxCalls` bounds the calls in the liveness runs, and to one per thread in `SyncFour`,
  which is about one crowd of sleepers; 0 stands for no bound.
- `MaxLinked` = 1 in `Lazy`: statics share no state in `LazySequentializer`, so one
  static of each sort in turn covers them, and two where the hint ties them
  together; statics that interact through the registry are in `Exit`, which has
  three.
- `MaxDepth` = 3 in `ThreadExit`: calls nest three deep while the list is walked (a
  finalization, a call in it, and a call or a clone in that), and one deep otherwise,
  above whatever was abandoned (`Shallow`). Nesting while the thread is alive differs
  from it only in that no list is walked. `Iterations` = 2 rounds of pthread reach the
  last round and the refusal; `MaxForeign` = 1 call by other destructors.
- `MaxArgs` = 4 in `Program`: a rule of the macro looks at up to three of the
  arguments. Two raw statics are enough for `Sequenced`, which compares the code that
  runs with one static.
- Symmetry under permutations of threads, or of statics of one sort, is used in
  safety runs only.

### Deadlock

Checked in `SyncTwo` and `SyncThree`, in `ThreadExit` and in `Program`
(whose ends are explicit: `Ended`, `Over`). It is off in the liveness runs and in
`SyncFour`, where threads stop after `MaxCalls` (a sleeper left behind is a violation of
`WordSound` there), and in `Lazy`, `LesserHint` and `Exit`, where the
process ends or aborts.

### Fairness

`FairSpec` of the lockers is weak fairness of `Proceed(t)`: a thread that has begun
an operation is scheduled, and a client eventually drops the guard it holds.
Beginning a call, cloning, setting a phase and a signal are free choices and get
no fairness. `ExitFairSpec` adds weak fairness for the exit loop and for threads
inside an operation, and the promise of the locker that a writer which waits is
served, in the form of infinitely often `pc[ExitThread] # "lock"`: in `sync.rs` a waiting
writer locks while readers remain, or is handed the lock by the last one, and a
lock call that sleeps is woken (`SleepersWake`). Statics are finite in number and
register once, which is why the loop ends.

### Memory model

Accesses are interleaved (sequential consistency). The orderings of the code
(`Acquire`, `Release`, `AcqRel`, `Relaxed`) are not modelled; all lock decisions
are made on one word, where coherence gives a total order, and `writer_count` is
the only second location. `FUTEX_WAIT` returns 0 only after a wake; a spurious
zero return is not considered.

## 4. Proofs

Each module `X_proof` holds the theorems about `X`. They are proved for any sets of
threads and statics, any phases, client closures, tolerances, priorities, capacities
and bounds, from the named assumptions of the modules, which only type the constants
(threads finite in number where guards are counted, at least one reader fits, names of
statics differ from names of other functions, `UnSyncAssumption`: nesting below the
capacity of the reader field).

| Theorem | Statement | Run |
|---|---|---|
| `PhaseLock_proof!ExclusionHolds` | a write guard is the only guard | |
| `PhaseLock_proof!PhaseStable` | the phase changes only when a writer gives up its guard and nobody reads | |
| `SpinPhaseLocker_proof!Refinement` | the spinning locker implements `PhaseLock` | `Spin` |
| `SpinPhaseLocker_proof!TypeCorrect`, `ExclusionHolds`, `ReadersExact`, `DropNeverPanics`, `AnswersFit` | all invariants of the spinning locker | `Spin` |
| `SyncPhaseLocker_proof!TypeCorrect` | type correctness of the blocking locker | `SyncTwo` |
| `SyncPhaseLocker_proof!SyncImplements` | every run of the blocking locker in which no assertion fails is one of `PhaseLock` | `SyncTwo`, `SyncThree`, `SyncFour` |
| `SyncPhaseLocker_proof!ExclusionHolds`, `ReaderAccountingHolds`, `AnswersFit` | up to the first failed assertion: no conflicting guards; exact reader field at every step of `wake_readers`; answers fit | `SyncTwo` |
| `SyncPhaseLocker_proof!FirstPanic` | `OnlyConversionPanics`: the first assertion to fail is that of a conversion beside a writer | `SyncTwo` |
| `SyncPhaseLocker_proof!AssertionsNeverFail` | no assertion of the locker ever fails, for clients that satisfy `ConvertersAgree` | `SyncAssert` refutes it without |
| `SyncPhaseLocker_proof!QuietIsFree`, `WakeupNotLost` | up to the first failed assertion and for clients that satisfy `ReadStaysRead`: no bit is left behind on a lock nobody uses; no wake-up is lost, save that of a clone | conjuncts of `SoundUntilPanic` |
| `SyncPhaseLocker_proof!WordIsSound` | `SoundUntilPanic`, where no guard is cloned, for clients that satisfy `ReadStaysRead` | `SyncTwo`, `SyncThree` |
| `LazySequentializer_proof!AccessIsSound`, `FinalyAtMostOnce`, `NoAssertionFails` | `AccessSound`, `FinalyOnce`, `AssertionsHold` with an arbitrary registry | `Lazy` |
| `LazySequentializer_proof!PhaseIsTrue` | `PhaseTells` | `Lazy` |
| `LazySequentializer_proof!GeneratesOnce`, `StaysPoisoned` | the action properties `GeneratedOnce`, `Poisoned` | `Lazy` |
| `LesserLazy_proof!HintIsSound`, `LesserTypeCorrect`, `LesserAccessIsSound`, `LesserHistory` | `HintSound`, and all of the above although accesses trust the hint | `Lazy` |
| `ExitSequentializer_proof!ExitRefines` | the exit manager implements the registry (`ExitImplementsLazy`) | `Exit` |
| `ExitSequentializer_proof!ExitAccessIsSound` | what holds of the sequentializer holds under the exit manager, by that refinement | `Exit` |
| `ExitSequentializer_proof!NoneIsLost`, `RegistersOnce`, `AllDueFinalized`, `ExitTypeCorrect` | `NoneLost`, `RegisteredOnce`, `DueAreFinalized`, and `ExitTypeOK`, which no run checks by itself | `Exit` |
| `ThreadExit_proof!ThreadAccessIsSound`, `CellIsExact`, `KeysAgree`, `ThreadNoneIsLost`, `ThreadTypeCorrect` | all invariants of the run, for any depth of calls, number of statics, rounds and callers of `get_key` | `ThreadExit` |
| `ThreadExit_proof!ThreadDropsAreExclusive` | `DropExclusive` under the hypothesis below | `ThreadDrop` refutes it without |
| `RawStatic_proof!AttributeMeans`, `TypesFit` | `MacroMeans`, `TypeFits` for any number of arguments | `Program` |
| `RawStatic_proof!AccessIsSequenced`, `RawTypeCorrect` | `Sequenced`, `RawTypeOK` for any number of raw statics and any priorities | `Program` |

The theorems `InvHolds` and `WaitHolds` (blocking locker), `LazyInvariance`,
`LesserInvariance`, `ExitInvariance`, `ThreadInvariance` and `RawInvariance` state the inductive
invariants themselves.

### Hypotheses

Some conditions on the program are hypotheses of theorems, because the code relies on
them; for the first three a finding shows that the result fails without:

- `DropsAreLocked` (all results on lazies): a static whose `finaly` drops the target is
  not handed out by reference. The macro enforces it for global statics (*"Droped lazy
  must be mutable"*, `static_init_macro/src/lib.rs:618`, `631`); for thread-locals it does
  not, which is finding 3. The instances of runs `Lazy`, `Exit` and `ThreadExit` satisfy it;
  that of `ThreadDrop` does not.
- `ReferencesInit` (`LesserLazy_proof`): a lesser lazy that is handed out by reference is
  not `try_init_once`, and its registration is taken for certain if it registers. The
  first part is finding 2; the second is what `lazy.rs:116` and `594` choose as checkers.
  The instance of `Lazy` satisfies it, that of `LesserHint` does not.
- `ConvertersAgree` (`AssertionsNeverFail` only): no request writes in a phase in which
  another converts its write guard, by `into_read_lock` or because it was woken as a
  writer and its closure then asks to read. Otherwise a writer may lock while readers
  remain between the two accesses of the conversion, which is finding 1. The other
  theorems on the locker do not need it: they speak of any mix of requests, `read()` with
  `write()` on one locked lazy included, and stop at the first failed assertion, which
  `FirstPanic` pins to this one. TLC evaluates the condition to true on the instance of
  `SyncFour` and to false on those of `SyncTwo`, `SyncThree` and `SyncAssert`.
- `ReadStaysRead` (`WaitHolds`, `QuietIsFree`, `WakeupNotLost`, `WordIsSound`): a phase that a
  writer leaves behind takes no request from reading to something else. A thread in
  the loop of `read_lock` has decided to read; if the phase changes its mind, it goes
  on to wait, and it may then do so on a word that has become free. The requests of
  the sequentializer satisfy it on the instances of `SyncTwo`, `SyncThree` and `SyncFour`.
- `MaxGuards = 1` (`WordIsSound`): no read guard is cloned. `WakeupNotLost` is the result
  without it, and says in its conclusion what remains: `CloneSleeps`, a clone that
  sleeps beside its own guard (section 5).

### The arguments

*Spinning locker.* `IInv == TypeOK /\ ThreadInv /\ LockInv /\ GuardsCounted`.
`Exclusion` alone is not inductive: one needs that the value a thread is *about to
exchange* is one that may be exchanged (`Local`: `is_write_lockable(cur)` at a write
exchange, and so on), that `LOCKED_BIT` is set exactly while a write guard exists
and then the reader field is zero (`LockInv`), and that the reader field equals
the number of read guards (`GuardsCounted`), for otherwise a reader that is
dropped could make the field zero under another one. Each action preserves `IInv`
and maps to a step or a stutter of `PhaseLock`; one lemma per action (`WriteCasInv`,
`ReadCasInv`, ...) rests on one lemma per *effect* (`WriteEffect`, `ReadEffect`,
`UnlockEffect`, `ConvertEffect`, ...) and on the counting lemmas `CountSame`,
`CountUp`, `CountDown`. The fetch_xor of `into_read_lock` is where `LockInv` pays:
the field is zero, so the flipped unit is an increment.

*Blocking locker.* `IInv == TypeInv /\ ThreadInv /\ OwnerInv /\ FieldInv /\ WritersInv`, and
`WaitInv` on top of it, up to the first failed assertion. TLC checked both as invariants
of the instances of `SyncTwo`, `SyncThree` and `SyncFour` as well.

- `TypeInv == TypeOK /\ RequestKnown /\ SpinBounded`: the closures are applied to the request
  of the thread, so one must know that it has one at every location of a call; and the
  spin counter stays in range because a thread is at `spin_load` only below the limit.
- `ThreadInv` gives each location what it may rely on (`Local`): the guards a thread may
  own there, that the value it is about to exchange may be exchanged, that its closure
  agreed with the phase that is still the phase of the word, which waiter bits it has
  set, what `count` may be in `wake_readers`.
- `OwnerInv`: at most one thread *owns* the lock for writing, *drains* (has locked while
  readers remain) or *wakes* readers, except that a thread may lock while another
  wakes; `LOCKED_BIT` is set exactly while such a thread has set it. In `transfer_lock`
  the bit is clear for a moment and only the waiter bits keep others out (`Passes`), so
  exclusion cannot be read off `LOCKED_BIT`, and the invariant has to name the thread
  that passes the lock on. A sleeper that was woken owns the lock before it runs.
- `FieldInv`: the reader field is the number of read locks, those granted to readers
  still asleep included, plus `READER_OVERF - count` while a waker has not settled. Wakers
  come one at a time, otherwise two of them would flip `READER_OVERF` back.
- `WritersInv`: `writer_count` is the number of threads inside `compare_and_wait_as_writer`.

Each action has a lemma that it preserves `IInv` and maps to a step or a stutter of
`PhaseLock` (`Mapped`), resting on lemmas for the effects that several actions share
(`GrantWrite`, ...). Exclusion, accounting and answers follow from `IInv` alone. A step that
makes an assertion fail is a conversion (`ConversionPanics`, `FirstPanic`); the panic unwinds
and the failure stays visible (`NextUnwind`, `PanicFails`), so that the implication
`AssertionsHold => IInv` is itself an invariant, without any hypothesis on the clients.

`WaitInv == WaitersReady /\ HandedOver /\ WritersAnnounced /\ ReadersAnnounced`. `NoLostWakeup` and
`QuietWordIsFree` speak of states in which nobody runs; what makes them inductive is who is
responsible in the others: a waiter bit on a word that nobody has claimed means that
some thread is passing the lock on (`HandedOver`); a thread asleep is announced by its bit
or by a thread on its way to wake that queue (`WritersAnnounced`, `ReadersAnnounced`); and a
thread that goes to wait does so on a value that was busy and has its bit set, so that
`FUTEX_WAIT` sleeps only while the word is still like that (`WaitersReady`).

*Lazy sequentializer.* `LazyInv == TypeOK /\ ThreadsInv /\ GuardsInv /\ StaticsInv /\
OneFinalizer`. `AccessSound` speaks of threads that have been answered; what makes it
inductive is what each thread may rely on *while foreign code runs* (`ThreadsInv`: who
holds a guard in which phase, what `pending` is between `reg` and the generator), that
guards exclude each other (`GuardsInv`), and that phase, `pending`, target and registry
agree on each static (`StaticsInv`). The steps fall into two kinds, those of a thread
that shares the static and those of one that has it for itself, with one lemma each;
the actions are instances. `PhaseTells` needs two facts more, about the phase in the word and
the one that the write guard will leave (`WordInv`, `ToldInv`): both are proved by looking at
the *coming* phase, which a step changes in one place only. `GeneratedOnce` and `Poisoned`
follow from the invariant and one lemma on steps (`HistoryStep`), which the other modules
reuse.

*Lesser lazies.* `LesserInv` adds that `Main`, inside a constructor, is on its way to the
target (`ConstructorInv`), and that every lesser lazy whose constructor has run is
initialized (`ConstructedInv`); with it the answers that skip the phase are those that
the phase would give.

*Program exit.* `ExitInv` adds the shape of the list: the chains from `first` and from the
local `list` are acyclic (`ChainsInv`) and disjoint (`DistinctInv`), and hold every static the
registry counts as registered (`NoneLost`). Reachability is stated with closed sets,
so no induction over the list is needed: a static is on a chain if it is in every set
that contains the head and is closed under `next`.

*Thread exit.* `ThreadInv == LazyInv /\ WordInv /\ KeyInv /\ CellInv /\ PlaceInv`: the list as
above, plus which back end has been called and how often (`StageInv`, `CalledInv`),
that what is due is registered or finalized (`DueInv`), that each `Cell` is the count of
the guards including abandoned ones (`CellInv`), and for `get_key` that a published key is
never deleted (`KeyInv`).

*Macro.* `SourceInv` relates the options to the arguments read so far, each argument
being still visible in the field it set (`Left`), which is where the refusals of
`check_no_init!` and `check_no_drop!` are needed: a field is overwritten by a default
only. The lemma `Meaning` then reads the options as the documentation reads the
arguments, and `EndArgsKeeps` compares `incompatible` with `combined`, the rules that code and
documentation share; `legal` is stricter for `drop_only` (`lenient` is the difference).
`SelectFits` goes through the chain. Since `CASE` with overlapping arms denotes any of
them, `drop_mode` and `means` are written with `IF`, in the order of the code's `match`.

*Raw statics.* `InitInv`: constructors run by descending priority, so those still to
run, or running, have at most the priority of any that has run, and the status is 0
exactly for raw statics still to be initialized; `DropInv` is its mirror image. From the
two cells alone `check_access` cannot know which statics are initialized; `EntriesInv`
says what they hold. `HintInv`: `mark_inited` (priority 0) runs after `__lazy_init`
(priority 1).

### Only model-checked

- Liveness under fairness (`SleepersWake`, `EveryCallReturns`, `ExitEnds`): outside the
  prover's reach.
- `SoundUntilPanic` where read guards are cloned (`SyncTwo`, two threads). All of it but
  `NoLostWakeup` is proved there too; that conjunct is false from four threads on
  (section 5), which is why it has no theorem.
- The behaviour under clients that do not satisfy the hypotheses above.

No theorem depends on a recursive definition; the modules contain none (`Reaches`
quantifies over closed sets).

## 5. Findings

1. `SyncAssert` (`sync.rs:601`): `into_read_lock` trades `LOCKED_BIT` for a reader unit
   in one access and wakes the readers in another. Between the two, a writer in
   `raw_lock_slow` may lock while readers remain, and the assertion of
   `wake_readers` fails. The assertion above it carries the comment `//BUG: fired`.
   It needs clients that mix write-guard operations with converting ones and a
   sleeping reader, as `read()` and `write()` of a locked lazy are. `FirstPanic` proves that it
   is the only assertion of the locker that fails first, and `AssertionsNeverFail` that
   clients without that mix meet none.
2. `LesserHint` (`lazy.rs:391`): the constructor of a `LesserLazy` ignores the phase that
   `init` returns. With `try_init_once`, a first attempt that panicked and was caught
   (in an earlier constructor, or in a thread it spawned) leaves the static
   uninitialized for good, `mark_inited` sets the hint, and `get` hands the target out.
   The comment above `get_unchecked` says that this cannot be. `Lazy` shows that it holds
   without `try_init_once`, and for locked lesser lazies, whose `init` panics.
3. `ThreadDrop` (`generic_lazy.rs:334`): a `thread_local` with `drop` that is not `mut` is
   handed out by plain reference, guarded by the phase only, which does not change
   until its drop has returned: code called by the drop gets at the target.
   The documentation says that dropped statics are always locked.

Disagreements of the code with its documentation that have no run of their own:

- Windows (`exit_sequentializer.rs:501`): the result of `or_else` is discarded, so what registers
  while the list of a thread is walked is never finalized. `lib.rs:22-24` and `143` promise
  that a thread-local with `drop` is dropped when its thread exits. `RegisterWindows` and the
  walk model the loss; `ThreadNoneLost` leaves it out.
- `lazy_sequentializer.rs:164-166` says that `finalize` waits until a running initialization
  has finished; `finalize_callback` returns at once (`lazy_sequentializer.rs:547`), and a
  static that is being initialized when exit begins is not finalized. `DueAreFinalized`
  is about what was initialized then.
- `lib.rs:84`: *"Even if the static is not mut, dropped statics are always locked."* The macro
  refuses a dropped global lazy that is not `mut` (`strict` in `DynamicMacro`), and hands out
  the thread-local one by plain reference (finding 3).
- `lib.rs:1140` makes `drop_only=p` equivalent to `#[dynamic(0,drop=p)]`, which refuses
  `try_init_once` and `tolerate_leak`; with `drop_only` they are accepted and do nothing
  (`lenient` in `DynamicMacro`). `MacroMeans` says that this and the last are the only two
  departures.
- `futex.rs:4-12` says that writers have priority until `READ_FAIRNESS_PERIOD` of them were
  awoken in a row. `mod other` (line 172) compares the counter with `==` where the Linux
  one (line 48) has `!=`: with it readers come first at each hand-over but one per period.
- The examples of `lib.rs:709-718` and `789-800` name the order the wrong way round: the
  function called `first` has constructor priority 0 beside 1, or destructor priority 1
  beside 0, and runs last by the text above each of them, as by the code and `RawStatic`.

Behaviour that contradicts no line precisely enough, or that a property had to leave out:

- A clone may sleep for ever (`sync.rs:534`), with few threads. A write guard is dropped
  while three readers sleep; `wake_readers` adds `READER_OVERF` and wakes them, and before it
  has settled its count two of them drop their guards and the third clones its own. The
  low bits of the reader field are now all ones, which `has_readers_max` takes for a full
  field: the clone sets `READ_WAITER_BIT` and sleeps. The waker settles and leaves; the
  sleeper owns the guard whose drop would wake it. TLC finds it with four threads,
  `Overf` = 16, `MaxGuards` = 2 and one call each (`NoLostWakeup`, 28 states), and with
  `Overf` = 8 also through a field that is really full. No run has it and no line of the
  repository promises that a clone returns. `WakeupNotLost` proves that no other wake-up
  is lost, up to the first failed assertion and for clients that satisfy `ReadStaysRead`.
- When `REGISTER` is empty at exit, `execute_at_exit` returns without closing
  registration (`exit_sequentializer.rs:59`); a static initialized later registers and is
  never finalized. `DueAreFinalized` is about what was initialized when exit began.
- With pthread, a destructor of other code that runs in the last round, after the key
  was passed, may register a static that no round will finalize.
- `!p.path.segments.len() == 1` (`static_init_macro/src/lib.rs:664`) is a bitwise
  negation and never true, so that the name in `match INIT` is not checked.
- `prime` with `finalize` selects the types of `prime` with `drop`, as documented.

## 6. Not modelled, and why

- Debug-mode cycle detection (`debug_save_thread`, `debug_test`): turns a deadlock of a
  thread with itself into a panic in debug builds; `lock_statistics`: counters that
  nothing reads back.
- `MutPhaseLocker` and the `&mut` access paths: exclusive borrow, no concurrency.
- `Mutex` of `sync.rs`: a client that always asks for a write guard.
- Unsafe unchecked access functions called by the user: the caller takes the
  responsibility. (Those the crate calls itself are in `LesserLazy`.)
- The order of `.CRT$XPTZ` sections on Windows: `RawStatic` has the order of ELF, in
  which destructors run in the reverse order of their sections. `#[constructor]`
  functions with arguments; constructors that call `exit`, after which raw statics are
  dropped without having been initialized (`raw_static.rs:65`).
- Lesser lazies on mach_o, which no constructor initializes, although their checkers
  take registration for certain (`lazy.rs:121`).
- Thread-local read guards at the capacity of the reader field: `clone` does not compare
  with it (`unsync.rs:116`) and write locks look at `READER_BITS` only (`unsync.rs:241`,
  `280`), so after 2^20 clones a write lock is granted beside them. `UnSyncAssumption`
  keeps the guards below.
- Token handling in the macro: spans, wording, names; the form of the match arms is
  one bit of the item.

## 7. Plan

Done: all modules of section 2 with their runs; the proofs of section 4.

Left: a run for the clone of section 5 should the repository come to promise that
`clone` returns, and liveness of the blocking locker beyond the instance of `SyncLive`,
which the prover cannot state.
