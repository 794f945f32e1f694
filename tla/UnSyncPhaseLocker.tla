------------------------- MODULE UnSyncPhaseLocker -------------------------
(***************************************************************************)
(* Thread-local lazies: the lazy sequentializer on the locker of           *)
(* src/src/phase_locker/unsync.rs, a Cell that never waits: a lock that    *)
(* conflicts with a guard panics (lock) or gives None (try_lock).          *)
(*                                                                         *)
(* All happens in one thread.  A member of Threads is a call that this     *)
(* thread is in: generators, finaly and code that holds a guard make       *)
(* further calls, on the same static too, and only the latest call runs.   *)
(* base counts the calls that were abandoned when code called exit: their  *)
(* guards are never dropped.                                               *)
(***************************************************************************)
EXTENDS LazySequentializer, FiniteSets

CONSTANTS
  MaxDepth,   \* bound: calls that are open at once
  Overf       \* READER_OVERF / READER_UNITY

(* Guards are fewer than the reader field can count: clone of unsync.rs    *)
(* does not compare with READER_BITS, and a write lock does not look at    *)
(* READER_OVERF.                                                           *)
ASSUME UnSyncAssumption ==
  /\ MaxDepth \in Nat \ {0} /\ Threads = 1..MaxDepth
  /\ Overf \in Nat /\ MaxDepth < Overf - 1

VARIABLES
  cell,   \* each locker's Cell without the phase, in units of READER_UNITY
  base

unsyncVars == <<cell, base>>

LOCKED_BIT == 2 * Overf
READER_BITS(c) == c % Overf
is_locked(c) == c >= LOCKED_BIT

UnSyncTypeOK ==
  /\ TypeOK
  /\ cell \in [Statics -> 0..(4 * Overf - 1)]
  /\ base \in 0..MaxDepth

UnSyncInit == Init /\ cell = [s \in Statics |-> 0] /\ base = 0
-----------------------------------------------------------------------------
(* The calls that are open and not abandoned; the latest of all.           *)
Open == {k \in Threads : k > base /\ pc[k] # "idle"}
Top == IF Open = {} THEN base ELSE CHOOSE k \in Open : \A j \in Open : j <= k

holding == {"using", "fallback"}

(* Foreign code runs on top of the open calls.                             *)
InForeignCode == Open # {} /\ pc[Top] \in holding \cup {"generate", "finaly"}

write_conflict(c) == is_locked(c) \/ READER_BITS(c) # 0
read_conflict(c) == is_locked(c) \/ READER_BITS(c) = Overf - 1

conflict(k) ==
  \/ nature(k) = "Write" /\ write_conflict(cell[on[k]])
  \/ nature(k) = "Read" /\ read_conflict(cell[on[k]])

(* The Cell is written: a write guard sets all of it when it is taken,     *)
(* converted or dropped, a read guard adds or subtracts READER_UNITY.      *)
AddReader(s) == cell' = [cell EXCEPT ![s] = @ + 1]
SubReader(s) == cell' = [cell EXCEPT ![s] = @ - 1]

SetCellKeeps(k) ==   \* mutant: the conversion forgets to clear LOCKED_BIT
  LET s == on[k]
  IN cell' = [cell EXCEPT ![s] =
       IF writers'[s] # {} THEN LOCKED_BIT ELSE IF k \in readers'[s] THEN LOCKED_BIT + 1 ELSE 0]

SetCell(k) ==
  LET s == on[k]
  IN cell' = [cell EXCEPT ![s] =
       IF writers'[s] # {} THEN LOCKED_BIT ELSE IF k \in readers'[s] THEN 1 ELSE 0]
-----------------------------------------------------------------------------
(* lock and try_lock.                                                      *)
Lock(k) ==
  /\ pc[k] = "lock" /\ ~conflict(k)
  /\ \/ LockNone(k) /\ UNCHANGED cell
     \/ LockRead(k) /\ IF k \in readers'[on[k]] THEN AddReader(on[k]) ELSE UNCHANGED cell
     \/ LockWrite(k) /\ SetCell(k)

LockPanics(k) ==
  /\ pc[k] = "lock" /\ op[k] \notin tries /\ conflict(k)
  /\ Idle(k)
  /\ UNCHANGED <<locker, data, finals, node, cell>>

TryLockFails(k) == pc[k] = "lock" /\ conflict(k) /\ TryFails(k) /\ UNCHANGED cell

(* Foreign code makes one more call, or clones or converts a guard.        *)
Enter(s) ==
  /\ Top < MaxDepth
  /\ Access(Top + 1, s)
  /\ UNCHANGED cell

CloneGuard(k) == Top < MaxDepth /\ k > base /\ Clone(k, Top + 1) /\ AddReader(on[k])

ConvertGuard(k) == Downgrade(k) /\ SetCell(k)

(* Guards that foreign code got since the latest closure began are dropped *)
(* in any order.                                                           *)
DropGuard(k) ==
  /\ k \in Open /\ \A j \in Open : j > k => pc[j] \in holding
  /\ Release(k)
  /\ IF writers[on[k]] = {k} THEN SetCell(k)
     ELSE IF k \in readers[on[k]] THEN SubReader(on[k])
     ELSE UNCHANGED cell

AnswerPrimed(k) ==
  PrimedAnswer(k, FALSE) /\ IF op[k] \in writing THEN SetCell(k) ELSE UNCHANGED cell

(* The generator of the latest call ends, and so does finaly.              *)
EndGenerator(k) == (Generate(k) \/ GeneratorPanics(k)) /\ SetCell(k)
EndFinaly(k) == FinalyReturns(k) /\ SetCell(k)
-----------------------------------------------------------------------------
(***************************************************************************)
(* Properties.                                                             *)
(***************************************************************************)

(* The Cell tells exactly which guards there are, although guards of       *)
(* nested calls, conversions and unwinding write it at different depths;   *)
(* so lock panics if and only if the new guard would conflict with one.    *)
CellExact ==
  \A s \in Statics :
    /\ cell[s] = IF writers[s] # {} THEN LOCKED_BIT ELSE Cardinality(readers[s])
    /\ writers[s] # {} => readers[s] = {}
    /\ write_conflict(cell[s]) <=> writers[s] \cup readers[s] # {}
    /\ read_conflict(cell[s]) <=> writers[s] # {}

(* "Dropped statics are always locked" (lib.rs), and finaly runs when "no  *)
(* other shared reference to the inner data exist" (generic_lazy.rs): code *)
(* that runs within the drop of a target, or that it calls, cannot get at  *)
(* the target.                                                             *)
DropExclusive ==
  \A k \in Open : pc[k] = "finaly" /\ hard(on[k]) =>
    \A j \in Open : ~(pc[j] \in holding /\ on[j] = on[k])
=============================================================================
