------------------------ MODULE SpinPhaseLocker_proof ------------------------
(***************************************************************************)
(* Proofs about SpinPhaseLocker, for every set of threads, every client    *)
(* closure, and every capacity of the reader field.                        *)
(***************************************************************************)
EXTENDS SpinPhaseLocker, FiniteSetTheorems, TLAPS

(* Locations at which a thread goes by the closures of its request.        *)
Serving == {"try_write", "try_read", "lock_cas", "read_cas", "read_load", "slow_load"}
Owning == {"held", "clone_cas", "clone_load"}

(* What is true of a thread at location l with cur = v, request q and      *)
(* guards g, when the word is w: its guards are of its location and of the *)
(* current phase, and the value it is about to exchange is one that may be *)
(* exchanged.                                                              *)
Local(l, v, q, g, w) ==
  /\ l # "dead"
  /\ l \in Serving => q \in Requests
  /\ l = "idle" => q = NoRequest
  /\ g.kind = "none" <=> l \notin Owning
  /\ g.kind # "read" => g.count = 0
  /\ g.kind = "read" => g.count \in 1..MaxGuards
  /\ g.kind = "write" => l = "held"
  /\ l \in {"clone_cas", "clone_load"} => g.count < MaxGuards
  /\ g.kind # "none" => g.init = w.phase
  /\ l \in {"lock_cas", "try_write"} => is_write_lockable(v) /\ How[q][v.phase] = "Write"
  /\ l \in {"read_cas", "try_read"} => is_read_lockable(v) /\ How[q][v.phase] = "Read"
  /\ l = "clone_cas" => ~has_readers_max(v)
  /\ l \in Owning /\ q # NoRequest =>
       \/ g.kind = "write" /\ How[q][w.phase] = "Write"
       \/ g.kind = "read" /\ How[q][w.phase] = "Read"
       \/ g.kind = "read" /\ w.phase \in Converts[q]

ThreadInv == \A t \in Threads : Local(pc[t], cur[t], req[t], guard[t], word)

(* LOCKED_BIT is set exactly while there is a write guard, which is then   *)
(* the only one, and keeps readers out.                                    *)
LockInv ==
  /\ word.locked => word.readers = 0 /\ \E t \in Threads : guard[t].kind = "write"
  /\ ~word.locked => \A t \in Threads : guard[t].kind # "write"
  /\ \A t, u \in Threads : guard[t].kind = "write" /\ guard[u].kind = "write" => t = u

IInv == TypeOK /\ ThreadInv /\ LockInv /\ GuardsCounted
-----------------------------------------------------------------------------
(* Counting the read guards.                                               *)
LEMMA ReadGuardsFinite == IsFiniteSet(ReadGuards) /\ Cardinality(ReadGuards) \in Nat
<1>1. IsFiniteSet(1..MaxGuards)
  BY FS_Interval, SpinAssumption
<1>2. IsFiniteSet(Threads \X (1..MaxGuards))
  BY <1>1, FS_Product, SpinAssumption
<1>3. IsFiniteSet(ReadGuards)
  BY <1>2, FS_Subset DEF ReadGuards
<1>4. QED
  BY <1>3, FS_CardinalityType

LEMMA CountSame ==
  ASSUME IInv, NEW t \in Threads, NEW g \in Guard, guard' = [guard EXCEPT ![t] = g],
         g.count = guard[t].count
  PROVE  ReadGuards' = ReadGuards
<1>1. guard \in [Threads -> Guard]
  BY DEF IInv, TypeOK
<1>2. \A u \in Threads : guard'[u].count = guard[u].count
  BY <1>1
<1>3. QED
  BY <1>2 DEF ReadGuards

LEMMA CountUp ==
  ASSUME IInv, NEW t \in Threads, NEW g \in Guard, guard' = [guard EXCEPT ![t] = g],
         guard[t].count < MaxGuards, g.count = guard[t].count + 1
  PROVE  Cardinality(ReadGuards') = Cardinality(ReadGuards) + 1
<1>1. guard \in [Threads -> Guard] /\ guard[t].count \in Nat /\ MaxGuards \in Nat
  BY SpinAssumption DEF IInv, TypeOK, Guard
<1>2. ReadGuards' = ReadGuards \cup {<<t, g.count>>}
  <2>1. ASSUME NEW x \in Threads \X (1..MaxGuards)
        PROVE  x[2] <= guard'[x[1]].count <=> (x[2] <= guard[x[1]].count \/ x = <<t, g.count>>)
    <3>1. CASE x[1] = t
      BY <1>1, <3>1
    <3>2. CASE x[1] # t
      BY <1>1, <3>2
    <3>3. QED
      BY <3>1, <3>2
  <2>2. <<t, g.count>> \in Threads \X (1..MaxGuards)
    BY <1>1
  <2>3. QED
    BY <2>1, <2>2 DEF ReadGuards
<1>3. <<t, g.count>> \notin ReadGuards
  BY <1>1 DEF ReadGuards
<1>4. QED
  BY <1>2, <1>3, ReadGuardsFinite, FS_AddElement

LEMMA CountDown ==
  ASSUME IInv, NEW t \in Threads, NEW g \in Guard, guard' = [guard EXCEPT ![t] = g],
         guard[t].count \in 1..MaxGuards, g.count = guard[t].count - 1
  PROVE  Cardinality(ReadGuards') = Cardinality(ReadGuards) - 1
<1>1. guard \in [Threads -> Guard] /\ guard[t].count \in Nat /\ MaxGuards \in Nat
  BY SpinAssumption DEF IInv, TypeOK, Guard
<1>2. ReadGuards' = ReadGuards \ {<<t, guard[t].count>>}
  <2>1. ASSUME NEW x \in Threads \X (1..MaxGuards)
        PROVE  x[2] <= guard'[x[1]].count <=> (x[2] <= guard[x[1]].count /\ x # <<t, guard[t].count>>)
    <3>1. CASE x[1] = t
      BY <1>1, <3>1
    <3>2. CASE x[1] # t
      BY <1>1, <3>2
    <3>3. QED
      BY <3>1, <3>2
  <2>2. QED
    BY <2>1 DEF ReadGuards
<1>3. <<t, guard[t].count>> \in ReadGuards
  BY <1>1 DEF ReadGuards
<1>4. QED
  BY <1>2, <1>3, ReadGuardsFinite, FS_RemoveElement

(* With the field at zero nobody reads; a reader keeps it above zero.      *)
LEMMA NoReadGuard ==
  ASSUME IInv, word.readers = 0
  PROVE  \A t \in Threads : guard[t].count = 0 /\ guard[t].kind # "read"
<1>1. ReadGuards = {}
  BY ReadGuardsFinite, FS_EmptySet DEF IInv, GuardsCounted
<1>2. SUFFICES ASSUME NEW t \in Threads, guard[t].count # 0 PROVE FALSE
  BY DEF IInv, ThreadInv, Local
<1>3. guard[t].count \in Nat
  BY DEF IInv, TypeOK, Guard
<1>4. <<t, 1>> \in ReadGuards
  BY <1>2, <1>3, SpinAssumption DEF ReadGuards
<1>5. QED
  BY <1>1, <1>4
-----------------------------------------------------------------------------
(* A step of t that leaves every other thread alone.                       *)
LEMMA StepInv ==
  ASSUME IInv, NEW t \in Threads, NEW l \in Locations, NEW v \in Word,
         NEW q \in Requests \cup {NoRequest}, NEW g \in Guard,
         pc' = [pc EXCEPT ![t] = l], cur' = [cur EXCEPT ![t] = v],
         req' = [req EXCEPT ![t] = q], guard' = [guard EXCEPT ![t] = g],
         word' \in Word, calls' \in [Threads -> 0..MaxCalls],
         Local(l, v, q, g, word'),
         word'.phase = word.phase \/ \A u \in Threads : u # t => guard[u].kind = "none",
         LockInv', GuardsCounted'
  PROVE  IInv'
<1>1. /\ pc \in [Threads -> Locations] /\ cur \in [Threads -> Word]
      /\ req \in [Threads -> Requests \cup {NoRequest}] /\ guard \in [Threads -> Guard]
  BY DEF IInv, TypeOK
<1>2. TypeOK'
  BY <1>1 DEF TypeOK
<1>3. ThreadInv'
  <2>1. SUFFICES ASSUME NEW u \in Threads
                 PROVE  Local(pc'[u], cur'[u], req'[u], guard'[u], word')
    BY DEF ThreadInv
  <2>2. CASE u = t
    BY <1>1, <2>2
  <2>3. CASE u # t
    <3>1. /\ pc'[u] = pc[u] /\ cur'[u] = cur[u] /\ req'[u] = req[u] /\ guard'[u] = guard[u]
          /\ Local(pc[u], cur[u], req[u], guard[u], word)
      BY <1>1, <2>3 DEF IInv, ThreadInv
    <3>2. word'.phase = word.phase \/ guard[u].kind = "none"
      BY <2>3
    <3>3. Local(pc[u], cur[u], req[u], guard[u], word')
      BY <3>1, <3>2 DEF Local
    <3>4. QED
      BY <3>1, <3>3
  <2>4. QED
    BY <2>2, <2>3
<1>4. QED
  BY <1>2, <1>3 DEF IInv

(* What the steps do to the guards and to the word, and the step of the    *)
(* abstract lock that it is.                                               *)
LEMMA GuardFacts ==
  ASSUME IInv
  PROVE  /\ guard \in [Threads -> Guard]
         /\ \A t \in Threads : /\ guard[t].count \in 0..MaxGuards
                               /\ guard[t].kind # "read" => guard[t].count = 0
                               /\ guard[t].kind = "read" => guard[t].count > 0
                               /\ guard[t].kind \in {"none", "read", "write"}
         /\ word \in Word /\ word.readers \in 0..MaxReaders
<1>1. guard \in [Threads -> Guard] /\ word \in Word
  BY DEF IInv, TypeOK
<1>2. ASSUME NEW t \in Threads
      PROVE  /\ guard[t].count \in 0..MaxGuards
             /\ guard[t].kind # "read" => guard[t].count = 0
             /\ guard[t].kind = "read" => guard[t].count > 0
             /\ guard[t].kind \in {"none", "read", "write"}
  <2>1. guard[t].count \in Nat /\ guard[t].kind \in {"none", "read", "write"}
    BY <1>1 DEF Guard
  <2>2. /\ guard[t].kind # "read" => guard[t].count = 0
        /\ guard[t].kind = "read" => guard[t].count \in 1..MaxGuards
    BY DEF IInv, ThreadInv, Local
  <2>3. QED
    BY <2>1, <2>2, SpinAssumption
<1>3. word.readers \in 0..MaxReaders
  BY ReadGuardsFinite, SpinAssumption DEF IInv, GuardsCounted
<1>4. QED
  BY <1>1, <1>2, <1>3

LEMMA QuietEffect ==
  ASSUME IInv, NEW t \in Threads, NEW g \in Guard, guard' = [guard EXCEPT ![t] = g],
         g.kind = guard[t].kind, g.count = guard[t].count, word' = word
  PROVE  LockInv' /\ GuardsCounted' /\ UNCHANGED Abstract!vars
<1>1. \A u \in Threads : guard'[u].kind = guard[u].kind /\ guard'[u].count = guard[u].count
  BY GuardFacts
<1>2. LockInv'
  BY <1>1 DEF IInv, LockInv
<1>3. GuardsCounted'
  BY CountSame DEF IInv, GuardsCounted
<1>4. UNCHANGED Abstract!vars
  BY <1>1 DEF Abstract!vars
<1>5. QED
  BY <1>2, <1>3, <1>4

LEMMA WriteEffect ==
  ASSUME IInv, NEW t \in Threads, is_write_lockable(word),
         word' = [word EXCEPT !.locked = TRUE], guard' = [guard EXCEPT ![t] = Lock(word)]
  PROVE  LockInv' /\ GuardsCounted' /\ Abstract!AcquireWrite(t)
<1>1. ~word.locked /\ word.readers = 0
  BY DEF is_write_lockable, has_no_readers
<1>2. \A u \in Threads : guard[u].count = 0 /\ guard[u].kind = "none"
  BY <1>1, NoReadGuard, GuardFacts DEF IInv, LockInv
<1>3. /\ Lock(word) \in Guard /\ Lock(word).kind = "write" /\ Lock(word).count = 0
      /\ word'.locked /\ word'.readers = word.readers /\ word'.phase = word.phase
  BY GuardFacts DEF Lock, Guard, Word
<1>4. \A u \in Threads : /\ guard'[u].count = 0
                         /\ guard'[u].kind = IF u = t THEN "write" ELSE "none"
  BY <1>2, <1>3, GuardFacts
<1>5. LockInv'
  BY <1>1, <1>3, <1>4 DEF LockInv
<1>6. GuardsCounted'
  BY <1>2, <1>3, CountSame DEF IInv, GuardsCounted
<1>7. Abstract!AcquireWrite(t)
  BY <1>2, <1>3, <1>4 DEF Abstract!AcquireWrite, Abstract!NoReader
<1>8. QED
  BY <1>5, <1>6, <1>7

LEMMA ReadEffect ==
  ASSUME IInv, NEW t \in Threads, NEW g \in Guard, ~word.locked, ~has_readers_max(word),
         word' = [word EXCEPT !.readers = @ + 1], guard' = [guard EXCEPT ![t] = g],
         guard[t].count < MaxGuards, g.kind = "read", g.count = guard[t].count + 1
  PROVE  LockInv' /\ GuardsCounted' /\ Abstract!AcquireRead(t)
<1>1. /\ word'.readers = word.readers + 1 /\ word'.locked = word.locked
      /\ word'.phase = word.phase
  BY GuardFacts DEF Word
<1>2. \A u \in Threads : guard[u].kind # "write" /\ guard'[u].kind # "write"
  BY GuardFacts DEF IInv, LockInv
<1>3. LockInv'
  BY <1>1, <1>2 DEF LockInv
<1>4. GuardsCounted'
  <2>1. Cardinality(ReadGuards') = Cardinality(ReadGuards) + 1
    BY CountUp
  <2>2. word.readers \in 0..MaxReaders /\ MaxReaders \in Nat
    BY GuardFacts, SpinAssumption
  <2>3. word.readers + 1 <= MaxReaders
    BY <2>2 DEF has_readers_max
  <2>4. QED
    BY <1>1, <2>1, <2>3 DEF IInv, GuardsCounted
<1>5. Abstract!AcquireRead(t)
  <2>1. [u \in Threads |-> guard'[u].count] =
          [[u \in Threads |-> guard[u].count] EXCEPT ![t] = @ + 1]
    BY GuardFacts
  <2>2. QED
    BY <1>1, <1>2, <2>1 DEF Abstract!AcquireRead
<1>6. QED
  BY <1>3, <1>4, <1>5

LEMMA ReadDropEffect ==
  ASSUME IInv, NEW t \in Threads, NEW g \in Guard, guard[t].kind = "read",
         word' = [word EXCEPT !.readers = @ - 1], guard' = [guard EXCEPT ![t] = g],
         g.kind # "write", g.count = guard[t].count - 1
  PROVE  LockInv' /\ GuardsCounted' /\ Abstract!ReleaseRead(t)
<1>1. /\ word'.readers = word.readers - 1 /\ word'.locked = word.locked
      /\ word'.phase = word.phase
  BY GuardFacts DEF Word
<1>2. ~word.locked
  BY NoReadGuard DEF IInv, LockInv
<1>3. \A u \in Threads : guard[u].kind # "write" /\ guard'[u].kind # "write"
  BY <1>2, GuardFacts DEF IInv, LockInv
<1>4. LockInv'
  BY <1>1, <1>2, <1>3 DEF LockInv
<1>5. GuardsCounted'
  <2>1. Cardinality(ReadGuards') = Cardinality(ReadGuards) - 1
    <3>1. guard[t].count \in 0..MaxGuards /\ guard[t].count > 0 /\ MaxGuards \in Nat
      BY GuardFacts, SpinAssumption
    <3>2. guard[t].count \in 1..MaxGuards
      BY <3>1
    <3>3. QED
      BY <3>2, CountDown
  <2>2. word.readers \in 0..MaxReaders /\ MaxReaders \in Nat
    BY GuardFacts, SpinAssumption
  <2>3. QED
    BY <1>1, <2>1, <2>2 DEF IInv, GuardsCounted
<1>6. Abstract!ReleaseRead(t)
  <2>1. [u \in Threads |-> guard'[u].count] =
          [[u \in Threads |-> guard[u].count] EXCEPT ![t] = @ - 1]
    BY GuardFacts
  <2>2. QED
    BY <1>1, <1>3, <2>1, GuardFacts DEF Abstract!ReleaseRead
<1>7. QED
  BY <1>4, <1>5, <1>6

(* The write guard of t is the only guard.                                 *)
LEMMA OnlyWriter ==
  ASSUME IInv, NEW t \in Threads, guard[t].kind = "write"
  PROVE  /\ word.locked /\ word.readers = 0
         /\ \A u \in Threads : guard[u].count = 0 /\ (u # t => guard[u].kind = "none")
<1>1. word.locked /\ word.readers = 0
  BY DEF IInv, LockInv
<1>2. \A u \in Threads : guard[u].count = 0 /\ guard[u].kind # "read"
  BY <1>1, NoReadGuard
<1>3. \A u \in Threads : u # t => guard[u].kind # "write"
  BY DEF IInv, LockInv
<1>4. QED
  BY <1>1, <1>2, <1>3, GuardFacts

LEMMA UnlockEffect ==
  ASSUME IInv, NEW t \in Threads, NEW p \in Phases, guard[t].kind = "write",
         word' = Free(p), guard' = [guard EXCEPT ![t] = NoGuard]
  PROVE  LockInv' /\ GuardsCounted' /\ Abstract!ReleaseWrite(t, p)
<1>0. NoGuard \in Guard /\ NoGuard.count = 0 /\ NoGuard.kind = "none"
  BY DEF NoGuard, Guard, Phases
<1>1. word.readers = 0 /\ word'.readers = 0 /\ ~word'.locked /\ word'.phase = p
  BY OnlyWriter DEF Free
<1>2. \A u \in Threads : /\ guard'[u].count = guard[u].count
                         /\ guard'[u].kind = "none"
                         /\ guard[u].kind = IF u = t THEN "write" ELSE "none"
  BY <1>0, OnlyWriter, GuardFacts
<1>3. LockInv'
  BY <1>1, <1>2 DEF LockInv
<1>4. GuardsCounted'
  <2>1. NoGuard.count = guard[t].count
    BY <1>0, OnlyWriter
  <2>2. ReadGuards' = ReadGuards
    BY <1>0, <2>1, CountSame
  <2>3. QED
    BY <1>1, <2>2 DEF IInv, GuardsCounted
<1>5. Abstract!ReleaseWrite(t, p)
  BY <1>1, <1>2 DEF Abstract!ReleaseWrite
<1>6. QED
  BY <1>3, <1>4, <1>5

LEMMA ConvertEffect ==
  ASSUME IInv, NEW t \in Threads, NEW p \in Phases, guard[t].kind = "write",
         word' = [phase |-> p, readers |-> 1, locked |-> FALSE], guard' = [guard EXCEPT ![t] = ReadLock(p)]
  PROVE  LockInv' /\ GuardsCounted' /\ Abstract!Downgrade(t, p)
<1>1. /\ word.readers = 0 /\ word'.readers = 1 /\ ~word'.locked /\ word'.phase = p
      /\ ReadLock(p) \in Guard /\ ReadLock(p).count = 1 /\ ReadLock(p).kind = "read"
  BY OnlyWriter DEF Free, ReadLock, Guard, Phases
<1>2. /\ guard[t].count = 0
      /\ \A u \in Threads : /\ guard'[u].count = IF u = t THEN 1 ELSE guard[u].count
                            /\ guard'[u].kind # "write"
                            /\ guard[u].kind = IF u = t THEN "write" ELSE "none"
  BY <1>1, OnlyWriter, GuardFacts
<1>3. LockInv'
  BY <1>1, <1>2 DEF LockInv
<1>4. GuardsCounted'
  <2>1. MaxGuards > 0 /\ MaxReaders >= 1
    BY SpinAssumption
  <2>2. Cardinality(ReadGuards') = Cardinality(ReadGuards) + 1
    <3>1. guard[t].count < MaxGuards /\ ReadLock(p).count = guard[t].count + 1
      BY <1>1, <1>2, <2>1
    <3>2. QED
      BY <1>1, <3>1, CountUp
  <2>3. Cardinality(ReadGuards) = 0
    BY <1>1 DEF IInv, GuardsCounted
  <2>4. QED
    BY <1>1, <2>1, <2>2, <2>3 DEF GuardsCounted
<1>5. Abstract!Downgrade(t, p)
  <2>1. [u \in Threads |-> guard'[u].count] =
          [[u \in Threads |-> guard[u].count] EXCEPT ![t] = 1]
    BY <1>2
  <2>2. {u \in Threads : guard'[u].kind = "write"} = {u \in Threads : guard[u].kind = "write"} \ {t}
    BY <1>2
  <2>3. QED
    BY <1>1, <1>2, <2>1, <2>2 DEF Abstract!Downgrade
<1>6. QED
  BY <1>3, <1>4, <1>5
-----------------------------------------------------------------------------
(* The step is one of the abstract lock, or a stutter of it.               *)
Mapped == Abstract!Next \/ UNCHANGED Abstract!vars

CasLocations == {"try_write", "try_read", "lock_cas", "read_cas", "clone_cas"}

LEMMA TopFacts ==
  ASSUME NEW q \in Requests, NEW v \in Word
  PROVE  /\ LoopTop(q, v) \in {"idle", "lock_cas", "slow_load", "read_cas"}
         /\ LoopTop(q, v) = "lock_cas" => is_write_lockable(v) /\ How[q][v.phase] = "Write"
         /\ LoopTop(q, v) = "read_cas" => is_read_lockable(v) /\ How[q][v.phase] = "Read"
         /\ SecondTry(q, v) \in {"idle", "try_write", "try_read"}
         /\ SecondTry(q, v) = "try_write" => is_write_lockable(v) /\ How[q][v.phase] = "Write"
         /\ SecondTry(q, v) = "try_read" => is_read_lockable(v) /\ How[q][v.phase] = "Read"
<1>1. How[q][v.phase] \in {"None", "Read", "Write"}
  BY SpinAssumption DEF Word, Natures
<1>2. QED
  BY <1>1 DEF LoopTop, SecondTry

LEMMA Facts ==
  ASSUME IInv, NEW t \in Threads
  PROVE  /\ word \in Word /\ cur[t] \in Word /\ guard[t] \in Guard /\ Blank \in Word
         /\ req[t] \in Requests \cup {NoRequest} /\ pc[t] \in Locations
         /\ calls \in [Threads -> 0..MaxCalls]
         /\ Local(pc[t], cur[t], req[t], guard[t], word)
         /\ guard = [guard EXCEPT ![t] = guard[t]]
         /\ cur = [cur EXCEPT ![t] = cur[t]] /\ req = [req EXCEPT ![t] = req[t]]
<1>1. Blank \in Word
  BY DEF Blank, Free, Word, Phases
<1>2. QED
  BY <1>1 DEF IInv, TypeOK, ThreadInv

(* A move of t that changes neither the word nor the guards.               *)
LEMMA QuietStep ==
  ASSUME IInv, NEW t \in Threads, NEW l \in Locations, NEW v \in Word, Goto(t, l, v),
         UNCHANGED <<word, guard>>, calls' \in [Threads -> 0..MaxCalls],
         Local(l, IF l \in CasLocations THEN v ELSE Blank,
               IF l = "idle" THEN NoRequest ELSE req[t], guard[t], word)
  PROVE  IInv' /\ Mapped
<1> DEFINE v1 == IF l \in CasLocations THEN v ELSE Blank
           q1 == IF l = "idle" THEN NoRequest ELSE req[t]
<1>1. v1 \in Word /\ q1 \in Requests \cup {NoRequest} /\ guard[t] \in Guard
  BY Facts
<1>2. /\ pc' = [pc EXCEPT ![t] = l] /\ cur' = [cur EXCEPT ![t] = v1]
      /\ req' = [req EXCEPT ![t] = q1] /\ guard' = [guard EXCEPT ![t] = guard[t]]
  BY Facts DEF Goto, CasLocations
<1>3. LockInv' /\ GuardsCounted' /\ UNCHANGED Abstract!vars
  BY <1>1, <1>2, QuietEffect
<1>4. word' \in Word /\ word'.phase = word.phase /\ Local(l, v1, q1, guard[t], word')
  BY Facts
<1> HIDE DEF v1, q1
<1>5. IInv'
  BY <1>1, <1>2, <1>3, <1>4, StepInv
<1>6. QED
  BY <1>3, <1>5 DEF Mapped

(* A guard is granted in a step that changes the word but not its phase.   *)
LEMMA GrantStep ==
  ASSUME IInv, NEW t \in Threads, NEW g \in Guard, Grant(t, g), word' \in Word,
         calls' \in [Threads -> 0..MaxCalls], LockInv', GuardsCounted',
         Local("held", Blank, req[t], g, word'),
         word'.phase = word.phase \/ \A u \in Threads : u # t => guard[u].kind = "none"
  PROVE  IInv'
<1>1. /\ pc' = [pc EXCEPT ![t] = "held"] /\ cur' = [cur EXCEPT ![t] = Blank]
      /\ req' = [req EXCEPT ![t] = req[t]] /\ guard' = [guard EXCEPT ![t] = g]
  BY DEF Grant, Goto
<1>2. "held" \in Locations /\ Blank \in Word /\ req[t] \in Requests \cup {NoRequest}
  BY Facts DEF Locations
<1>3. QED
  BY <1>1, <1>2, StepInv

LEMMA WriteCasInv ==
  ASSUME IInv, NEW t \in Threads, WriteCas(t)
  PROVE  IInv' /\ Mapped
<1>0. /\ pc[t] \in {"try_write", "lock_cas"} /\ req[t] \in Requests
      /\ guard[t].kind = "none" /\ guard[t].count = 0
      /\ is_write_lockable(cur[t]) /\ How[req[t]][cur[t].phase] = "Write"
  BY Facts DEF WriteCas, Local, Serving, Owning
<1>1. CASE word = cur[t] /\ word' = [word EXCEPT !.locked = TRUE] /\ Grant(t, Lock(word))
  <2>1. LockInv' /\ GuardsCounted' /\ Abstract!AcquireWrite(t)
    BY <1>0, <1>1, WriteEffect DEF Grant
  <2>2. word' \in Word /\ word'.phase = word.phase /\ Lock(word) \in Guard
    BY <1>1, Facts DEF Word, Lock, Guard
  <2>3. Local("held", Blank, req[t], Lock(word), word')
    BY <1>0, <1>1, <2>2 DEF Local, Lock, Serving, Owning
  <2>4. IInv'
    BY <1>1, <2>1, <2>2, <2>3, GrantStep, Facts DEF WriteCas
  <2>5. QED
    BY <2>1, <2>4 DEF Mapped, Abstract!Next
<1>2. CASE Goto(t, "idle", Blank) /\ UNCHANGED <<word, guard>>
  <2>1. Local("idle", Blank, NoRequest, guard[t], word) /\ "idle" \in Locations
    BY <1>0 DEF Local, Serving, Owning, Locations
  <2>2. QED
    BY <1>2, <2>1, QuietStep, Facts DEF WriteCas, CasLocations
<1>3. CASE Goto(t, LoopTop(req[t], word), word) /\ UNCHANGED <<word, guard>>
  <2> DEFINE l == LoopTop(req[t], word)
  <2>1. /\ l \in {"idle", "lock_cas", "slow_load", "read_cas"}
        /\ l = "lock_cas" => is_write_lockable(word) /\ How[req[t]][word.phase] = "Write"
        /\ l = "read_cas" => is_read_lockable(word) /\ How[req[t]][word.phase] = "Read"
    BY <1>0, TopFacts, Facts
  <2> HIDE DEF l
  <2>2. Local(l, IF l \in CasLocations THEN word ELSE Blank,
              IF l = "idle" THEN NoRequest ELSE req[t], guard[t], word)
    BY <1>0, <2>1 DEF Local, Serving, Owning, CasLocations
  <2>3. l \in Locations
    BY <2>1 DEF Locations
  <2>4. QED
    BY <1>3, <2>2, <2>3, QuietStep, Facts DEF WriteCas, l
<1>4. QED
  BY <1>1, <1>2, <1>3 DEF WriteCas

LEMMA ReadCasInv ==
  ASSUME IInv, NEW t \in Threads, ReadCas(t)
  PROVE  IInv' /\ Mapped
<1>0. /\ pc[t] \in {"try_read", "read_cas", "clone_cas"}
      /\ pc[t] # "clone_cas" => /\ req[t] \in Requests
                                /\ guard[t].kind = "none" /\ guard[t].count = 0
                                /\ is_read_lockable(cur[t]) /\ How[req[t]][cur[t].phase] = "Read"
      /\ pc[t] = "clone_cas" => /\ guard[t].kind = "read" /\ guard[t].count \in 1..MaxGuards
                                /\ guard[t].count < MaxGuards /\ ~has_readers_max(cur[t])
  BY Facts, GuardFacts DEF ReadCas, Local, Serving, Owning
<1> DEFINE g == IF pc[t] = "clone_cas" THEN [guard[t] EXCEPT !.count = @ + 1]
                                       ELSE ReadLock(word.phase)
<1>1. CASE word = cur[t] /\ word' = [word EXCEPT !.readers = @ + 1] /\ Grant(t, g)
  <2>1. /\ g \in Guard /\ g.kind = "read" /\ g.count = guard[t].count + 1
        /\ g.init = IF pc[t] = "clone_cas" THEN guard[t].init ELSE word.phase
        /\ guard[t].count < MaxGuards
    <3>1. CASE pc[t] = "clone_cas"
      <4>1. guard[t].count + 1 \in Nat
        BY <1>0, <3>1
      <4>2. QED
        BY <1>0, <3>1, <4>1, Facts DEF Guard
    <3>2. CASE pc[t] # "clone_cas"
      BY <1>0, <3>2, Facts, SpinAssumption DEF Guard, ReadLock, Word, Phases
    <3>3. QED
      BY <3>1, <3>2
  <2>2. ~word.locked /\ ~has_readers_max(word)
    <3>1. CASE pc[t] = "clone_cas"
      BY <1>0, <1>1, <3>1, NoReadGuard DEF IInv, LockInv
    <3>2. CASE pc[t] # "clone_cas"
      BY <1>0, <1>1, <3>2 DEF is_read_lockable
    <3>3. QED
      BY <3>1, <3>2
  <2> HIDE DEF g
  <2>3. LockInv' /\ GuardsCounted' /\ Abstract!AcquireRead(t)
    BY <1>1, <2>1, <2>2, ReadEffect DEF Grant
  <2>4. word' \in Word /\ word'.phase = word.phase
    BY <1>1, Facts DEF Word
  <2>5. Local("held", Blank, req[t], g, word')
    <3>1. g.count \in 1..MaxGuards
      BY <1>0, <2>1, SpinAssumption
    <3>2. Local(pc[t], cur[t], req[t], guard[t], word)
      BY Facts
    <3>3. QED
      BY <1>0, <1>1, <2>1, <2>4, <3>1, <3>2 DEF Local, Serving, Owning
  <2>6. IInv'
    BY <1>1, <2>1, <2>3, <2>4, <2>5, GrantStep, Facts DEF ReadCas
  <2>7. QED
    BY <2>3, <2>6 DEF Mapped, Abstract!Next
<1>2. ASSUME NEW l \in Locations, Goto(t, l, word), UNCHANGED <<word, guard>>,
             l = CASE pc[t] = "try_read" ->
                        IF How[req[t]][word.phase] = "Read" THEN SecondTry(req[t], word) ELSE "idle"
                   [] pc[t] = "read_cas" -> "read_load"
                   [] pc[t] = "clone_cas" -> "clone_load"
      PROVE  IInv' /\ Mapped
  <2>1. Local(pc[t], cur[t], req[t], guard[t], word)
    BY Facts
  <2>2. CASE pc[t] = "try_read"
    <3>1. l \in {"idle", "try_write", "try_read"}
      BY <1>0, <1>2, <2>2, TopFacts, Facts
    <3>2. /\ l = "try_write" => is_write_lockable(word) /\ How[req[t]][word.phase] = "Write"
          /\ l = "try_read" => is_read_lockable(word) /\ How[req[t]][word.phase] = "Read"
      BY <1>0, <1>2, <2>2, TopFacts, Facts
    <3>3. Local(l, IF l \in CasLocations THEN word ELSE Blank,
                IF l = "idle" THEN NoRequest ELSE req[t], guard[t], word)
      BY <1>0, <2>2, <3>1, <3>2 DEF Local, Serving, Owning, CasLocations
    <3>4. QED
      BY <1>2, <3>3, QuietStep, Facts DEF ReadCas
  <2>3. CASE pc[t] = "read_cas"
    <3>1. l = "read_load" /\ Local(l, Blank, req[t], guard[t], word)
      BY <1>0, <1>2, <2>3 DEF Local, Serving, Owning
    <3>2. QED
      BY <1>2, <3>1, QuietStep, Facts DEF ReadCas, CasLocations
  <2>4. CASE pc[t] = "clone_cas"
    <3>1. l = "clone_load" /\ Local(l, Blank, req[t], guard[t], word)
      BY <1>0, <1>2, <2>1, <2>4 DEF Local, Serving, Owning
    <3>2. QED
      BY <1>2, <3>1, QuietStep, Facts DEF ReadCas, CasLocations
  <2>5. QED
    BY <1>0, <2>2, <2>3, <2>4
<1>3. /\ {"read_load", "clone_load", "idle"} \subseteq Locations
      /\ pc[t] = "try_read" => SecondTry(req[t], word) \in Locations
  <2>1. pc[t] = "try_read" => SecondTry(req[t], word) \in {"idle", "try_write", "try_read"}
    BY <1>0, TopFacts, Facts
  <2>2. QED
    BY <2>1 DEF Locations
<1>4. QED
  BY <1>0, <1>1, <1>2, <1>3 DEF ReadCas

LEMMA LoadInv ==
  ASSUME IInv, NEW t \in Threads, ReadLoad(t) \/ SlowLoad(t)
  PROVE  IInv' /\ Mapped
<1>0. /\ UNCHANGED <<word, guard, calls>> /\ pc[t] \in {"read_load", "slow_load", "clone_load"}
      /\ Local(pc[t], cur[t], req[t], guard[t], word) /\ word \in Word
  BY Facts DEF ReadLoad, SlowLoad
<1>1. CASE pc[t] = "clone_load"
  <2>1. PICK l \in {"clone_load", "clone_cas"} :
          Goto(t, l, word) /\ (l = "clone_cas" => ~has_readers_max(word))
    BY <1>1 DEF ReadLoad, SlowLoad, CloneTop
  <2>2. /\ l \in Locations
        /\ Local(l, IF l \in CasLocations THEN word ELSE Blank, req[t], guard[t], word)
    BY <1>0, <1>1, <2>1 DEF Local, Serving, Owning, CasLocations, Locations
  <2>3. QED
    BY <1>0, <2>1, <2>2, QuietStep, Facts
<1>2. CASE pc[t] # "clone_load"
  <2>1. req[t] \in Requests /\ guard[t].kind = "none"
    BY <1>0, <1>2 DEF Local, Serving, Owning
  <2>2. PICK l \in {"idle", "lock_cas", "slow_load", "read_cas"} :
          /\ Goto(t, l, word)
          /\ l = "lock_cas" => is_write_lockable(word) /\ How[req[t]][word.phase] = "Write"
          /\ l = "read_cas" => is_read_lockable(word) /\ How[req[t]][word.phase] = "Read"
    <3>1. CASE ReadLoad(t)
      BY <3>1 DEF ReadLoad
    <3>2. CASE SlowLoad(t)
      BY <1>0, <1>2, <2>1, <3>2, TopFacts DEF SlowLoad
    <3>3. QED
      BY <3>1, <3>2
  <2>3. /\ l \in Locations
        /\ Local(l, IF l \in CasLocations THEN word ELSE Blank,
                 IF l = "idle" THEN NoRequest ELSE req[t], guard[t], word)
    BY <1>0, <1>2, <2>1, <2>2 DEF Local, Serving, Owning, CasLocations, Locations
  <2>4. QED
    BY <1>0, <2>2, <2>3, QuietStep, Facts
<1>3. QED
  BY <1>1, <1>2

LEMMA MayCallType ==
  ASSUME IInv, NEW t \in Threads, MayCall(t)
  PROVE  calls' \in [Threads -> 0..MaxCalls]
BY SpinAssumption DEF IInv, TypeOK, MayCall

LEMMA LockMutInv ==
  ASSUME IInv, NEW t \in Threads, LockMut(t)
  PROVE  IInv' /\ Mapped
<1>1. \A u \in Threads : guard[u].kind = "none" /\ guard[u].count = 0
  BY DEF IInv, ThreadInv, Local, LockMut, Owning
<1>2. ReadGuards = {} /\ word.readers = 0
  <2>1. ReadGuards = {}
    BY <1>1, SpinAssumption DEF ReadGuards
  <2>2. QED
    BY <2>1, FS_EmptySet DEF IInv, GuardsCounted
<1>3. is_write_lockable(word) /\ req[t] = NoRequest
  BY <1>1, <1>2, Facts DEF IInv, LockInv, is_write_lockable, has_no_readers, Local, LockMut
<1>4. LockInv' /\ GuardsCounted' /\ Abstract!AcquireWrite(t)
  BY <1>3, WriteEffect DEF LockMut, Grant
<1>5. word' \in Word /\ word'.phase = word.phase /\ Lock(word) \in Guard
  BY Facts DEF Word, Lock, Guard, LockMut
<1>6. Local("held", Blank, req[t], Lock(word), word')
  BY <1>3, <1>5 DEF Local, Lock, Serving, Owning
<1>7. IInv'
  BY <1>4, <1>5, <1>6, GrantStep, MayCallType DEF LockMut
<1>8. QED
  BY <1>4, <1>7 DEF Mapped, Abstract!Next

LEMMA SetPhaseInv ==
  ASSUME IInv, NEW t \in Threads, NEW p \in Phases, SetPhase(t, p)
  PROVE  IInv' /\ Mapped
<1> DEFINE g == [guard[t] EXCEPT !.on_unlock = p]
<1>1. g \in Guard /\ g.kind = guard[t].kind /\ g.count = guard[t].count /\ g.init = guard[t].init
  BY Facts DEF Guard
<1>2. guard' = [guard EXCEPT ![t] = g] /\ word' = word
  BY DEF SetPhase
<1>3. /\ pc' = [pc EXCEPT ![t] = pc[t]] /\ cur' = [cur EXCEPT ![t] = cur[t]]
      /\ req' = [req EXCEPT ![t] = req[t]]
  BY DEF SetPhase, IInv, TypeOK
<1> HIDE DEF g
<1>4. LockInv' /\ GuardsCounted' /\ UNCHANGED Abstract!vars
  BY <1>1, <1>2, QuietEffect
<1>5. Local(pc[t], cur[t], req[t], g, word')
  BY <1>1, <1>2, Facts DEF Local
<1>6. IInv'
  <2>1. /\ pc[t] \in Locations /\ cur[t] \in Word /\ req[t] \in Requests \cup {NoRequest}
        /\ word' \in Word /\ word'.phase = word.phase /\ calls' \in [Threads -> 0..MaxCalls]
    BY <1>2, Facts DEF SetPhase
  <2>2. QED
    BY <1>1, <1>2, <1>3, <1>4, <1>5, <2>1, StepInv
<1>7. QED
  BY <1>4, <1>6 DEF Mapped

LEMMA CloneInv ==
  ASSUME IInv, NEW t \in Threads, Clone(t)
  PROVE  IInv' /\ Mapped
<1>1. PICK l \in {"clone_load", "clone_cas"} :
        Goto(t, l, word) /\ (l = "clone_cas" => ~has_readers_max(word))
  BY DEF Clone, CloneTop
<1>2. /\ l \in Locations
      /\ Local(l, IF l \in CasLocations THEN word ELSE Blank, req[t], guard[t], word)
  BY <1>1, Facts DEF Clone, Local, Serving, Owning, CasLocations, Locations
<1>3. QED
  BY <1>1, <1>2, QuietStep, Facts, MayCallType DEF Clone

(* xor with the difference of two phases turns the one into the other.     *)
LEMMA XorPhase ==
  ASSUME NEW a \in Phases, NEW b \in Phases
  PROVE  SymDiff(a, SymDiff(a, b)) = b
BY DEF SymDiff, Phases

LEMMA IntoReadLockInv ==
  ASSUME IInv, NEW t \in Threads, IntoReadLock(t)
  PROVE  IInv' /\ Mapped
<1>0. PICK p \in Phases : p = guard[t].on_unlock
  BY Facts DEF Guard
<1>1. /\ guard[t].kind = "write" /\ guard[t].init = word.phase
      /\ word.phase \in Phases /\ req[t] \in Requests /\ p \in Converts[req[t]]
  BY <1>0, Facts DEF IntoReadLock, Local, Word
<1>2. /\ word.locked /\ word.readers = 0
      /\ \A u \in Threads : u # t => guard[u].kind = "none"
  BY <1>1, OnlyWriter
<1>3. word' = [phase |-> p, readers |-> 1, locked |-> FALSE]
  <2>1. SymDiff(word.phase, SymDiff(guard[t].init, p)) = p
    BY <1>1, XorPhase
  <2>2. word' = [phase |-> SymDiff(word.phase, SymDiff(guard[t].init, guard[t].on_unlock)),
                 readers |-> IF word.readers % 2 = 0 THEN word.readers + 1 ELSE word.readers - 1,
                 locked |-> ~word.locked]
    BY DEF IntoReadLock
  <2>3. (IF word.readers % 2 = 0 THEN word.readers + 1 ELSE word.readers - 1) = 1
    BY <1>2
  <2>4. (~word.locked) = FALSE
    BY <1>2
  <2>5. QED
    BY <1>0, <2>1, <2>2, <2>3, <2>4, Zenon
<1>4. Grant(t, ReadLock(p)) /\ calls' = calls
  BY <1>0 DEF IntoReadLock
<1>5. LockInv' /\ GuardsCounted' /\ Abstract!Downgrade(t, p)
  BY <1>1, <1>3, <1>4, ConvertEffect DEF Grant
<1>6. word' \in Word /\ word'.phase = p /\ ReadLock(p) \in Guard
  <2>1. ReadLock(p) \in Guard
    BY DEF ReadLock, Guard, Phases
  <2>2. word' \in Word /\ word'.phase = p
    BY <1>3 DEF Word
  <2>3. QED
    BY <2>1, <2>2
<1>7. Local("held", Blank, req[t], ReadLock(p), word')
  BY <1>1, <1>6, SpinAssumption DEF Local, ReadLock, Serving, Owning
<1>8. IInv'
  BY <1>2, <1>4, <1>5, <1>6, <1>7, GrantStep, Facts
<1>9. QED
  BY <1>1, <1>5, <1>8 DEF Mapped, Abstract!Next

LEMMA DropLockInv ==
  ASSUME IInv, NEW t \in Threads, DropLock(t)
  PROVE  IInv' /\ Mapped
<1>0. PICK p \in Phases : p = guard[t].on_unlock
  BY Facts DEF Guard
<1>1. guard[t].kind = "write" /\ guard[t].init = word.phase
  BY Facts DEF DropLock, Local
<1>2. /\ word.locked /\ word.readers = 0 /\ word \in Word
      /\ \A u \in Threads : u # t => guard[u].kind = "none"
  BY <1>1, OnlyWriter, Facts
<1>3. word = WriteLocked(guard[t].init)
  BY <1>1, <1>2 DEF WriteLocked, Word
<1>4. /\ word' = Free(p) /\ Goto(t, "idle", Blank) /\ calls' = calls
      /\ guard' = [guard EXCEPT ![t] = NoGuard]
  BY <1>0, <1>3 DEF DropLock
<1>5. LockInv' /\ GuardsCounted' /\ Abstract!ReleaseWrite(t, p)
  BY <1>1, <1>4, UnlockEffect
<1>6. /\ word' \in Word /\ NoGuard \in Guard
      /\ Local("idle", Blank, NoRequest, NoGuard, word')
  BY <1>4 DEF Word, Free, NoGuard, Guard, Phases, Local, Serving, Owning
<1>7. /\ pc' = [pc EXCEPT ![t] = "idle"] /\ cur' = [cur EXCEPT ![t] = Blank]
      /\ req' = [req EXCEPT ![t] = NoRequest] /\ "idle" \in Locations
  BY <1>4 DEF Goto, Locations
<1>8. IInv'
  BY <1>2, <1>4, <1>5, <1>6, <1>7, StepInv, Facts
<1>9. QED
  BY <1>5, <1>8 DEF Mapped, Abstract!Next

LEMMA DropReadLockInv ==
  ASSUME IInv, NEW t \in Threads, DropReadLock(t)
  PROVE  IInv' /\ Mapped
<1>1. /\ pc[t] = "held" /\ guard[t].kind = "read" /\ calls' = calls
      /\ word' = [word EXCEPT !.readers = @ - 1]
      /\ guard[t].count \in 1..MaxGuards /\ MaxGuards \in Nat
      /\ Local(pc[t], cur[t], req[t], guard[t], word)
  BY Facts, SpinAssumption DEF DropReadLock, Local
<1>2. word' \in Word /\ word'.phase = word.phase
  BY <1>1, Facts DEF Word
<1>3. CASE guard[t].count > 1
  <2> DEFINE g == [guard[t] EXCEPT !.count = @ - 1]
  <2>1. Grant(t, g)
    BY <1>3 DEF DropReadLock
  <2>2. /\ g \in Guard /\ g.kind = "read" /\ g.count = guard[t].count - 1
        /\ g.init = guard[t].init /\ g.count \in 1..MaxGuards
    <3>1. guard[t].count - 1 \in 1..MaxGuards /\ guard[t].count - 1 \in Nat
      BY <1>1, <1>3
    <3>2. QED
      BY <1>1, <3>1, Facts DEF Guard
  <2> HIDE DEF g
  <2>3. LockInv' /\ GuardsCounted' /\ Abstract!ReleaseRead(t)
    BY <1>1, <2>1, <2>2, ReadDropEffect DEF Grant
  <2>4. Local("held", Blank, req[t], g, word')
    BY <1>1, <1>2, <2>2 DEF Local, Serving, Owning
  <2>5. IInv'
    BY <1>1, <1>2, <2>1, <2>2, <2>3, <2>4, GrantStep, Facts
  <2>6. QED
    BY <2>3, <2>5 DEF Mapped, Abstract!Next
<1>4. CASE ~(guard[t].count > 1)
  <2>1. /\ Goto(t, "idle", Blank) /\ guard' = [guard EXCEPT ![t] = NoGuard]
        /\ guard[t].count = 1
    BY <1>1, <1>4 DEF DropReadLock
  <2>2. NoGuard \in Guard /\ NoGuard.kind = "none" /\ NoGuard.count = 0
    BY DEF NoGuard, Guard, Phases
  <2>3. NoGuard.count = guard[t].count - 1
    BY <2>1, <2>2
  <2>4. LockInv' /\ GuardsCounted' /\ Abstract!ReleaseRead(t)
    BY <1>1, <2>1, <2>2, <2>3, ReadDropEffect
  <2>5. /\ pc' = [pc EXCEPT ![t] = "idle"] /\ cur' = [cur EXCEPT ![t] = Blank]
        /\ req' = [req EXCEPT ![t] = NoRequest] /\ "idle" \in Locations
    BY <2>1 DEF Goto, Locations
  <2>6. Local("idle", Blank, NoRequest, NoGuard, word')
    BY <2>2 DEF Local, Serving, Owning
  <2>7. IInv'
    BY <1>1, <1>2, <2>1, <2>2, <2>4, <2>5, <2>6, StepInv, Facts
  <2>8. QED
    BY <2>4, <2>7 DEF Mapped, Abstract!Next
<1>5. QED
  BY <1>3, <1>4

LEMMA OptimisticLockInv ==
  ASSUME IInv, NEW t \in Threads, NEW q \in Requests, OptimisticLock(t, q)
  PROVE  IInv' /\ Mapped
<1>0. /\ pc[t] = "idle" /\ guard[t].kind = "none" /\ guard[t].count = 0
      /\ word \in Word /\ cur[t] \in Word /\ Blank \in Word
      /\ cur = [cur EXCEPT ![t] = cur[t]]
      /\ calls' \in [Threads -> 0..MaxCalls] /\ q # NoRequest
  BY Facts, MayCallType, SpinAssumption DEF OptimisticLock, Local, Owning
<1>1. CASE /\ How[q][Hint[q]] = "Write" /\ word = Free(Hint[q])
           /\ word' = [word EXCEPT !.locked = TRUE]
           /\ guard' = [guard EXCEPT ![t] = Lock(word)]
           /\ pc' = [pc EXCEPT ![t] = "held"] /\ req' = [req EXCEPT ![t] = q] /\ UNCHANGED cur
  <2>1. is_write_lockable(word) /\ word.phase = Hint[q]
    BY <1>1 DEF Free, is_write_lockable, has_no_readers
  <2>2. LockInv' /\ GuardsCounted' /\ Abstract!AcquireWrite(t)
    BY <1>1, <2>1, WriteEffect
  <2>3. /\ word' \in Word /\ word'.phase = word.phase /\ Lock(word) \in Guard
        /\ "held" \in Locations
    BY <1>0, <1>1 DEF Word, Lock, Guard, Locations
  <2>4. Local("held", cur[t], q, Lock(word), word')
    BY <1>1, <2>1, <2>3 DEF Local, Lock, Serving, Owning
  <2>5. IInv'
    BY <1>0, <1>1, <2>2, <2>3, <2>4, StepInv
  <2>6. QED
    BY <2>2, <2>5 DEF Mapped, Abstract!Next
<1>2. CASE /\ How[q][Hint[q]] = "Read" /\ word = Free(Hint[q])
           /\ word' = [word EXCEPT !.readers = 1]
           /\ guard' = [guard EXCEPT ![t] = ReadLock(word.phase)]
           /\ pc' = [pc EXCEPT ![t] = "held"] /\ req' = [req EXCEPT ![t] = q] /\ UNCHANGED cur
  <2>1. word.phase = Hint[q] /\ word.readers = 0 /\ ~word.locked /\ MaxReaders # 0
    BY <1>2, SpinAssumption DEF Free
  <2>2. word' = [word EXCEPT !.readers = @ + 1] /\ ~has_readers_max(word)
    BY <1>2, <2>1 DEF has_readers_max
  <2>3. /\ word' \in Word /\ word'.phase = word.phase /\ word.phase \in Phases
        /\ "held" \in Locations
    BY <1>0, <1>2 DEF Word, Locations
  <2>4. ReadLock(word.phase) \in Guard
    BY <2>3 DEF ReadLock, Guard, Phases
  <2>5. ReadLock(word.phase).kind = "read" /\ ReadLock(word.phase).count = guard[t].count + 1
    BY <1>0 DEF ReadLock
  <2>6. guard[t].count < MaxGuards
    BY <1>0, SpinAssumption
  <2>7. LockInv' /\ GuardsCounted' /\ Abstract!AcquireRead(t)
    BY <1>2, <2>1, <2>2, <2>4, <2>5, <2>6, ReadEffect
  <2>8. Local("held", cur[t], q, ReadLock(word.phase), word')
    BY <1>2, <2>1, <2>3, SpinAssumption DEF Local, ReadLock, Serving, Owning
  <2>9. IInv'
    BY <1>0, <1>2, <2>3, <2>4, <2>7, <2>8, StepInv
  <2>10. QED
    BY <2>7, <2>9 DEF Mapped, Abstract!Next
<1>3. ASSUME NEW l \in {"idle", "lock_cas", "slow_load", "read_cas", "try_write", "try_read"},
             l \in {"lock_cas", "try_write"} => is_write_lockable(word) /\ How[q][word.phase] = "Write",
             l \in {"read_cas", "try_read"} => is_read_lockable(word) /\ How[q][word.phase] = "Read",
             pc' = [pc EXCEPT ![t] = l],
             req' = [req EXCEPT ![t] = IF l = "idle" THEN NoRequest ELSE q],
             cur' = [cur EXCEPT ![t] = IF l \in {"idle", "slow_load"} THEN Blank ELSE word],
             UNCHANGED <<word, guard>>
      PROVE  IInv' /\ Mapped
  <2> DEFINE v1 == IF l \in {"idle", "slow_load"} THEN Blank ELSE word
             q1 == IF l = "idle" THEN NoRequest ELSE q
  <2>1. /\ v1 \in Word /\ q1 \in Requests \cup {NoRequest} /\ l \in Locations
        /\ guard[t] \in Guard /\ guard' = [guard EXCEPT ![t] = guard[t]]
        /\ word' \in Word /\ word'.phase = word.phase
    BY <1>0, <1>3, Facts DEF Locations
  <2>2. Local(l, v1, q1, guard[t], word')
    BY <1>0, <1>3 DEF Local, Serving, Owning
  <2>3. cur' = [cur EXCEPT ![t] = v1] /\ req' = [req EXCEPT ![t] = q1]
    BY <1>3
  <2> HIDE DEF v1, q1
  <2>4. LockInv' /\ GuardsCounted' /\ UNCHANGED Abstract!vars
    BY <1>3, <2>1, QuietEffect
  <2>5. IInv'
    BY <1>0, <1>3, <2>1, <2>2, <2>3, <2>4, StepInv
  <2>6. QED
    BY <2>4, <2>5 DEF Mapped
<1>4. PICK l \in {"idle", "lock_cas", "slow_load", "read_cas", "try_write", "try_read"} :
        /\ l = (IF q \in Tries THEN SecondTry(q, word) ELSE LoopTop(q, word))
        /\ l \in {"lock_cas", "try_write"} => is_write_lockable(word) /\ How[q][word.phase] = "Write"
        /\ l \in {"read_cas", "try_read"} => is_read_lockable(word) /\ How[q][word.phase] = "Read"
  BY <1>0, TopFacts
<1>5. QED
  BY <1>1, <1>2, <1>3, <1>4 DEF OptimisticLock
-----------------------------------------------------------------------------
LEMMA InitInv == Init => IInv /\ Abstract!Init
<1> SUFFICES ASSUME Init PROVE IInv /\ Abstract!Init
  OBVIOUS
<1>1. Blank \in Word /\ Free({}) \in Word /\ Free({}).readers = 0 /\ ~Free({}).locked
  BY DEF Blank, Free, Word, Phases
<1>2. NoGuard \in Guard /\ NoGuard.kind = "none" /\ NoGuard.count = 0
  BY DEF NoGuard, Guard, Phases
<1>3. TypeOK
  BY <1>1, <1>2, SpinAssumption DEF Init, TypeOK, Locations
<1>4. ThreadInv
  BY <1>2 DEF Init, ThreadInv, Local, Serving, Owning
<1>5. LockInv
  BY <1>1, <1>2 DEF Init, LockInv
<1>6. GuardsCounted
  <2>1. ReadGuards = {}
    BY <1>2, SpinAssumption DEF Init, ReadGuards
  <2>2. QED
    BY <1>1, <2>1, FS_EmptySet, SpinAssumption DEF Init, GuardsCounted
<1>7. Abstract!Init
  BY <1>2 DEF Init, Abstract!Init, Free, Phases
<1>8. QED
  BY <1>3, <1>4, <1>5, <1>6, <1>7 DEF IInv

LEMMA NextInv == IInv /\ [Next]_vars => IInv' /\ [Abstract!Next]_(Abstract!vars)
<1> SUFFICES ASSUME IInv, [Next]_vars PROVE IInv' /\ Mapped
  BY DEF Mapped
<1>1. CASE UNCHANGED vars
  <2>1. IInv'
    BY <1>1 DEF vars, IInv, TypeOK, ThreadInv, LockInv, GuardsCounted, ReadGuards
  <2>2. UNCHANGED Abstract!vars
    BY <1>1 DEF vars, Abstract!vars
  <2>3. QED
    BY <2>1, <2>2 DEF Mapped
<1>2. ASSUME NEW t \in Threads, Proceed(t) PROVE IInv' /\ Mapped
  BY <1>2, WriteCasInv, ReadCasInv, LoadInv, IntoReadLockInv, DropLockInv, DropReadLockInv
     DEF Proceed
<1>3. ASSUME NEW t \in Threads, Begin(t) PROVE IInv' /\ Mapped
  BY <1>3, OptimisticLockInv, LockMutInv, CloneInv, SetPhaseInv DEF Begin
<1>4. QED
  BY <1>1, <1>2, <1>3 DEF Next

LEMMA Invariance == Spec => []IInv
<1>1. QED
  BY InitInv, NextInv, PTL DEF Spec

(* The word and the state of every thread keep their types; the reader     *)
(* field that Clone and the read locks increment stays within its width.   *)
THEOREM TypeCorrect == Spec => []TypeOK
<1>1. IInv => TypeOK
  BY DEF IInv
<1>2. QED
  BY <1>1, Invariance, PTL

(* No write guard coexists with another guard: the exclusion that          *)
(* SyncPhaseLocker::lock promises for LockResult::Write, for any number of *)
(* threads and whatever the closures of the callers answer.                *)
THEOREM ExclusionHolds == Spec => []Exclusion
<1>1. IInv => Exclusion
  <2>1. SUFFICES ASSUME IInv, NEW w \in Threads, guard[w].kind = "write"
                 PROVE  /\ {t \in Threads : guard[t].kind = "write"} = {w}
                        /\ \A t \in Threads : guard[t].count = 0
    BY DEF Exclusion, Abstract!Exclusion, Abstract!NoReader
  <2>2. QED
    BY <2>1, OnlyWriter
<1>2. QED
  BY <1>1, Invariance, PTL

(* The reader field is exact and never overflows into LOCKED_BIT, however  *)
(* small the field and however many threads clone their guards.            *)
THEOREM ReadersExact == Spec => []GuardsCounted
<1>1. IInv => GuardsCounted
  BY DEF IInv
<1>2. QED
  BY <1>1, Invariance, PTL

(* The unreachable!() of Lock::drop is unreachable.                        *)
THEOREM DropNeverPanics == Spec => []AssertionsHold
<1>1. IInv => AssertionsHold
  BY DEF IInv, ThreadInv, Local, AssertionsHold
<1>2. QED
  BY <1>1, Invariance, PTL

(* A granted guard is the one that the caller's closure asks for in the    *)
(* current phase: what the unreachable_unchecked of the sequentializer     *)
(* rely on.                                                                *)
THEOREM AnswersFit == Spec => []AnswerFits
<1>1. IInv => AnswerFits
  BY DEF IInv, ThreadInv, Local, Owning, AnswerFits
<1>2. QED
  BY <1>1, Invariance, PTL

(* The spinning locker implements the abstract phase lock: every step of a *)
(* thread is an acquisition, a release or a downgrade of it, or invisible. *)
THEOREM Refinement == Spec => ImplementsPhaseLock
<1>1. QED
  BY InitInv, NextInv, Invariance, PTL DEF Spec, ImplementsPhaseLock, Abstract!Spec
=============================================================================
