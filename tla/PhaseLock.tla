------------------------------ MODULE PhaseLock ------------------------------
(***************************************************************************)
(* What a phase locker of static_init promises (trait PhaseLocker and      *)
(* trait PhaseGuard of src/src/phase_locker.rs): a reader/writer lock that *)
(* carries a phase.  A write guard excludes every other guard, the phase   *)
(* changes only when a write guard is given up (dropped, or turned into a  *)
(* read guard), and it never changes under a read guard.                   *)
(*                                                                         *)
(* The lockers of sync.rs, sync_spinning.rs and unsync.rs are shown to     *)
(* implement this specification.                                           *)
(***************************************************************************)
EXTENDS Naturals

CONSTANTS
  Threads,    \* threads that may own guards
  Phases,     \* values of the phase
  MaxGuards   \* bound: read guards one thread may own at a time

VARIABLES
  phase,      \* phase of the static, as PhaseLocker::phase reports it
  writers,    \* threads that own a write guard
  readers     \* number of read guards each thread owns

vars == <<phase, writers, readers>>

TypeOK ==
  /\ phase \in Phases
  /\ writers \subseteq Threads
  /\ readers \in [Threads -> 0..MaxGuards]

NoReader == \A t \in Threads : readers[t] = 0

Init ==
  /\ phase \in Phases
  /\ writers = {}
  /\ readers = [t \in Threads |-> 0]

(* PhaseLocker::lock, try_lock or lock_mut returns LockResult::Write.      *)
AcquireWrite(t) ==
  /\ writers = {} /\ NoReader
  /\ writers' = {t}
  /\ UNCHANGED <<phase, readers>>

(* lock or try_lock returns LockResult::Read, or a read guard is cloned.   *)
AcquireRead(t) ==
  /\ writers = {}
  /\ readers[t] < MaxGuards
  /\ readers' = [readers EXCEPT ![t] = @ + 1]
  /\ UNCHANGED <<phase, writers>>

(* A write guard is dropped: the phase it was given takes effect.          *)
ReleaseWrite(t, p) ==
  /\ t \in writers
  /\ writers' = writers \ {t}
  /\ phase' = p
  /\ UNCHANGED readers

(* A write guard becomes a read guard: From<WriteGuard> for ReadGuard.     *)
Downgrade(t, p) ==
  /\ t \in writers
  /\ writers' = writers \ {t}
  /\ readers' = [readers EXCEPT ![t] = 1]
  /\ phase' = p

ReleaseRead(t) ==
  /\ readers[t] > 0
  /\ readers' = [readers EXCEPT ![t] = @ - 1]
  /\ UNCHANGED <<phase, writers>>

Next ==
  \E t \in Threads :
    \/ AcquireWrite(t)
    \/ AcquireRead(t)
    \/ ReleaseRead(t)
    \/ \E p \in Phases : ReleaseWrite(t, p) \/ Downgrade(t, p)

Spec == Init /\ [][Next]_vars
-----------------------------------------------------------------------------
(* A write guard is the only guard there is.                               *)
Exclusion ==
  \A w \in writers : writers = {w} /\ NoReader

(* The phase changes only in a step in which a writer gives up its write   *)
(* guard, and never while some other thread reads.                         *)
PhaseChangedByWriter ==
  [][phase' # phase => \E w \in writers : writers' = writers \ {w} /\ NoReader]_vars
=============================================================================
