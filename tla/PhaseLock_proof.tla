--------------------------- MODULE PhaseLock_proof ---------------------------
(* Proofs about PhaseLock, for every set of threads and of phases.         *)
EXTENDS PhaseLock, TLAPS

IInv == TypeOK /\ Exclusion

LEMMA InvInit == ASSUME MaxGuards \in Nat \ {0} PROVE Init => IInv
BY DEF Init, IInv, TypeOK, Exclusion, NoReader

LEMMA InvNext ==
  ASSUME MaxGuards \in Nat \ {0}
  PROVE  IInv /\ [Next]_vars => IInv'
<1> SUFFICES ASSUME IInv, [Next]_vars PROVE IInv'
  OBVIOUS
<1> USE DEF IInv, TypeOK, Exclusion, NoReader
<1>1. CASE UNCHANGED vars
  BY <1>1 DEF vars
<1>2. ASSUME NEW t \in Threads, AcquireWrite(t) PROVE IInv'
  BY <1>2 DEF AcquireWrite
<1>3. ASSUME NEW t \in Threads, AcquireRead(t) PROVE IInv'
  BY <1>3 DEF AcquireRead
<1>4. ASSUME NEW t \in Threads, ReleaseRead(t) PROVE IInv'
  BY <1>4 DEF ReleaseRead
<1>5. ASSUME NEW t \in Threads, NEW p \in Phases, ReleaseWrite(t, p) PROVE IInv'
  BY <1>5 DEF ReleaseWrite
<1>6. ASSUME NEW t \in Threads, NEW p \in Phases, Downgrade(t, p) PROVE IInv'
  BY <1>6 DEF Downgrade
<1>7. QED
  BY <1>1, <1>2, <1>3, <1>4, <1>5, <1>6 DEF Next

(* A write guard is the only guard there is, in every phase lock.          *)
THEOREM ExclusionHolds ==
  ASSUME MaxGuards \in Nat \ {0}
  PROVE  Spec => []Exclusion
<1>1. IInv => Exclusion
  BY DEF IInv
<1>2. QED
  BY <1>1, InvInit, InvNext, PTL DEF Spec

(* Only a writer that gives up its guard changes the phase, and no read    *)
(* guard of any thread is there to see it: a PhaseGuard's phase is stable  *)
(* for readers.  A locker that implements PhaseLock inherits it.           *)
THEOREM PhaseStable ==
  ASSUME MaxGuards \in Nat \ {0}
  PROVE  Spec => PhaseChangedByWriter
<1>1. IInv /\ [Next]_vars =>
        [phase' # phase => \E w \in writers : writers' = writers \ {w} /\ NoReader]_vars
  BY DEF IInv, Exclusion, Next, AcquireWrite, AcquireRead, ReleaseRead, ReleaseWrite, Downgrade,
         vars
<1>2. QED
  BY <1>1, InvInit, InvNext, PTL DEF Spec, PhaseChangedByWriter
=============================================================================
