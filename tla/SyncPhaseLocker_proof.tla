------------------------ MODULE SyncPhaseLocker_proof ------------------------
(***************************************************************************)
(* Proofs about SyncPhaseLocker, for every set of threads, every client    *)
(* closure and every bound.                                                *)
(***************************************************************************)
EXTENDS SyncPhaseLocker, FiniteSetTheorems, TLAPS

(* Locations inside a call of lock, try_lock or clone.                     *)
Calling == {"second_write", "try_write", "try_read", "read_cas", "read_load",
            "slow_load", "spin_load", "lock_cas", "lock_while_readers",
            "readers_load", "readers_cas", "set_ww", "set_rw", "count_add",
            "wait_w", "sleep_w", "woken_w", "failed_w", "or_ww", "locked_load",
            "wait_r", "sleep_r", "woken_r"}

(* Those of them that ReadLock::clone goes through.                        *)
CloneCalls == {"read_cas", "read_load", "slow_load", "spin_load", "set_rw", "wait_r",
               "sleep_r", "woken_r"}

(* Where a thread goes by the closures of its request.                     *)
NeedsRequest(l, r) ==
  (l \in Calling /\ (r # "clone" \/ l \notin CloneCalls)) \/ r = "slow"

RequestKnown ==
  \A t \in Threads : NeedsRequest(pc[t], ret[t]) => req[t] \in Requests

SpinBounded == \A t \in Threads : pc[t] = "spin_load" => spin[t] < SpinLimit

TypeInv == TypeOK /\ RequestKnown /\ SpinBounded
-----------------------------------------------------------------------------
(* What one step changes of the control state of thread t; the others are  *)
(* left alone.                                                             *)
LEMMA GotoType ==
  ASSUME TypeInv, NEW t \in Threads, NEW l \in Locations, NEW v \in Word,
         NEW s \in 0..SpinLimit, NEW r \in Returns,
         l = "spin_load" => s < SpinLimit,
         NeedsRequest(l, r) => l \in {"idle", "held", "convert"} \/ req[t] \in Requests,
         Goto(t, l, v, s, r)
  PROVE  /\ pc' \in [Threads -> Locations]
         /\ cur' \in [Threads -> Word]
         /\ spin' \in [Threads -> 0..SpinLimit]
         /\ ret' \in [Threads -> Returns]
         /\ req' \in [Threads -> Requests \cup {NoRequest}]
         /\ RequestKnown' /\ SpinBounded'
<1>0. Blank \in Word
  BY DEF Blank, Free, Word, Phases
<1>1. pc' \in [Threads -> Locations] /\ cur' \in [Threads -> Word]
  BY <1>0 DEF Goto, TypeInv, TypeOK
<1>2. spin' \in [Threads -> 0..SpinLimit]
  BY SyncAssumption DEF Goto, TypeInv, TypeOK
<1>3. /\ ret' \in [Threads -> Returns]
      /\ req' \in [Threads -> Requests \cup {NoRequest}]
  BY DEF Goto, TypeInv, TypeOK, Returns
<1>4. RequestKnown'
  BY DEF Goto, TypeInv, TypeOK, RequestKnown, NeedsRequest, Calling
<1>5. SpinBounded'
  BY DEF Goto, TypeInv, TypeOK, SpinBounded
<1>6. QED
  BY <1>1, <1>2, <1>3, <1>4, <1>5

(* The tables of next locations are well defined for a known request.      *)
LEMMA WaitingType ==
  ASSUME NEW q \in Requests, NEW v \in Word
  PROVE  Waiting(q, v) \in {"idle", "count_add", "set_ww", "wait_r", "set_rw"}
<1>1. OnWait[q][v.phase] \in {"None", "Read", "Write"}
  BY SyncAssumption DEF Word, Natures
<1>2. QED
  BY <1>1 DEF Waiting

LEMMA LoopTopType ==
  ASSUME NEW q \in Requests, NEW v \in Word, NEW s \in 0..SpinLimit
  PROVE  /\ LoopTop(q, v, s) \in Calling \cup {"idle"}
         /\ LoopTop(q, v, s) = "spin_load" => s < SpinLimit
         /\ AfterRead(q, v, s) \in Calling \cup {"idle"}
         /\ AfterRead(q, v, s) = "spin_load" => s < SpinLimit
<1>1. How[q][v.phase] \in {"None", "Read", "Write"}
  BY SyncAssumption DEF Word, Natures
<1>2. /\ AfterRead(q, v, s) \in Calling \cup {"idle"}
      /\ AfterRead(q, v, s) = "spin_load" => s < SpinLimit
  BY WaitingType DEF AfterRead, Calling
<1>3. /\ AfterWrite(q, v, s) \in Calling \cup {"idle"}
      /\ AfterWrite(q, v, s) = "spin_load" => s < SpinLimit
  BY WaitingType DEF AfterWrite, Calling
<1>4. QED
  BY <1>1, <1>2, <1>3 DEF LoopTop, Calling

LEMMA TopType ==
  ASSUME TypeInv, NEW t \in Threads, NEW v \in Word, NEW s \in 0..SpinLimit,
         ret[t] # "clone" => req[t] \in Requests
  PROVE  /\ Top(t, v, s) \in Calling \cup {"idle"}
         /\ Top(t, v, s) = "spin_load" => s < SpinLimit
         /\ ret[t] = "clone" => Top(t, v, s) \in CloneCalls
<1>1. CASE ret[t] = "clone"
  BY <1>1 DEF Top, CloneTop, ClonePost, Calling, CloneCalls
<1>2. CASE ret[t] # "clone"
  BY <1>2, LoopTopType DEF Top
<1>3. QED
  BY <1>1, <1>2

LEMMA CallingLocations == Calling \cup {"idle"} \subseteq Locations
  BY DEF Calling, Locations

LEMMA WordType ==
  ASSUME NEW v \in Word
  PROVE  /\ Free(v.phase) \in Word
         /\ \A b \in BOOLEAN : /\ [v EXCEPT !.locked = b] \in Word
                               /\ [v EXCEPT !.ww = b] \in Word
                               /\ [v EXCEPT !.rw = b] \in Word
                               /\ [v EXCEPT !.ww = TRUE, !.locked = FALSE] \in Word
                               /\ [v EXCEPT !.ww = ~@, !.locked = ~@] \in Word
         /\ \A n \in Int : [v EXCEPT !.readers = n] \in Word
         /\ \A n \in Int : [v EXCEPT !.readers = @ - n] \in Word
         /\ [v EXCEPT !.readers = @ + 1] \in Word /\ [v EXCEPT !.readers = 1] \in Word
         /\ v.readers \in Int /\ v.phase \in Phases
         /\ v.locked \in BOOLEAN /\ v.ww \in BOOLEAN /\ v.rw \in BOOLEAN
<1>1. /\ v.readers \in Int /\ v.phase \in Phases
      /\ v.locked \in BOOLEAN /\ v.ww \in BOOLEAN /\ v.rw \in BOOLEAN
  BY DEF Word
<1>2. Free(v.phase) \in Word
  BY <1>1 DEF Word, Free
<1>3. ASSUME NEW b \in BOOLEAN
      PROVE  /\ [v EXCEPT !.locked = b] \in Word
             /\ [v EXCEPT !.ww = b] \in Word
             /\ [v EXCEPT !.rw = b] \in Word
             /\ [v EXCEPT !.ww = TRUE, !.locked = FALSE] \in Word
             /\ [v EXCEPT !.ww = ~@, !.locked = ~@] \in Word
  BY DEF Word
<1>4. ASSUME NEW n \in Int PROVE [v EXCEPT !.readers = n] \in Word
  BY DEF Word
<1>5. ASSUME NEW n \in Int PROVE [v EXCEPT !.readers = @ - n] \in Word
  BY <1>1, <1>4, v.readers - n \in Int
<1>6. [v EXCEPT !.readers = @ + 1] \in Word /\ [v EXCEPT !.readers = 1] \in Word
  BY <1>1, <1>4, v.readers + 1 \in Int
<1>7. QED
  BY <1>1, <1>2, <1>3, <1>4, <1>5, <1>6

LEMMA GuardType ==
  ASSUME NEW g \in Guard, NEW v \in Word
  PROVE  /\ g.count \in Nat /\ g.init \in Phases /\ g.on_unlock \in Phases
         /\ NoGuard \in Guard /\ Lock(v) \in Guard
         /\ \A p \in Phases : ReadLock(p) \in Guard
         /\ \A p \in Phases : [g EXCEPT !.count = @ + 1, !.init = p] \in Guard
         /\ \A p \in Phases : [g EXCEPT !.on_unlock = p] \in Guard
         /\ g.count > 1 => [g EXCEPT !.count = @ - 1] \in Guard
         /\ [g EXCEPT !.kind = "read", !.count = 1] \in Guard
         /\ [g EXCEPT !.kind = "none", !.count = 0] \in Guard
<1>0. v.phase \in Phases /\ {} \in Phases
  BY DEF Word, Phases
<1>1. g.count \in Nat /\ g.init \in Phases /\ g.on_unlock \in Phases
  BY DEF Guard
<1>2. NoGuard \in Guard /\ Lock(v) \in Guard
  BY <1>0 DEF Guard, NoGuard, Lock
<1>3. \A p \in Phases : ReadLock(p) \in Guard
  BY <1>0 DEF Guard, ReadLock
<1>4. \A p \in Phases : [g EXCEPT !.count = @ + 1, !.init = p] \in Guard
  <2>1. g.count + 1 \in Nat
    BY <1>1
  <2>2. QED
    BY <2>1 DEF Guard
<1>5. \A p \in Phases : [g EXCEPT !.on_unlock = p] \in Guard
  BY DEF Guard
<1>6. g.count > 1 => [g EXCEPT !.count = @ - 1] \in Guard
  BY <1>1 DEF Guard
<1>7. /\ [g EXCEPT !.kind = "read", !.count = 1] \in Guard
      /\ [g EXCEPT !.kind = "none", !.count = 0] \in Guard
  BY DEF Guard
<1>8. QED
  BY <1>1, <1>2, <1>3, <1>4, <1>5, <1>6, <1>7

(* xor of a phase with the difference of two phases is a phase.            *)
LEMMA XorType ==
  ASSUME NEW v \in Word, NEW a \in Phases, NEW b \in Phases
  PROVE  /\ [v EXCEPT !.phase = SymDiff(@, SymDiff(a, b)), !.locked = ~@] \in Word
         /\ [v EXCEPT !.phase = SymDiff(@, SymDiff(a, b)), !.locked = ~@,
                      !.readers = FlipUnity(@)] \in Word
<1>1. SymDiff(v.phase, SymDiff(a, b)) \in Phases
  BY DEF SymDiff, Phases, Word
<1> v.readers \in Int
  BY DEF Word
<1>2. FlipUnity(v.readers) \in Int
  BY DEF FlipUnity
<1>3. QED
  BY <1>1, <1>2 DEF Word
-----------------------------------------------------------------------------
(* The variables that Goto does not speak of.                              *)
RestTyped ==
  /\ word \in Word
  /\ writer_count \in Int
  /\ fairness \in 0..(Period - 1)
  /\ guard \in [Threads -> Guard]
  /\ count \in [Threads -> Nat]
  /\ prefer \in [Threads -> BOOLEAN]
  /\ calls \in [Threads -> 0..MaxCalls]

(* What a thread may rely on in its step.                                  *)
ThreadTyped(t) ==
  /\ RestTyped
  /\ cur[t] \in Word /\ Blank \in Word
  /\ spin[t] \in 0..SpinLimit /\ 0 \in 0..SpinLimit
  /\ pc[t] \in Locations
  /\ ret[t] \in Returns /\ {"idle", "held", "slow", "clone", "dead"} \subseteq Returns
  /\ guard[t] \in Guard
  /\ NeedsRequest(pc[t], ret[t]) => req[t] \in Requests
  /\ pc[t] = "spin_load" => spin[t] < SpinLimit

LEMMA TypeFacts ==
  ASSUME TypeInv, NEW t \in Threads
  PROVE  ThreadTyped(t)
<1>1. Blank \in Word
  BY DEF Blank, Free, Word, Phases
<1>2. RestTyped
  BY DEF TypeInv, TypeOK, RestTyped
<1>3. QED
  BY <1>1, <1>2, SyncAssumption DEF TypeInv, TypeOK, RequestKnown, SpinBounded, Returns,
     ThreadTyped

LEMMA GotoStep ==
  ASSUME TypeInv, NEW t \in Threads, NEW l \in Locations, NEW v \in Word,
         NEW s \in 0..SpinLimit, NEW r \in Returns,
         l = "spin_load" => s < SpinLimit,
         NeedsRequest(l, r) => l \in {"idle", "held", "convert"} \/ req[t] \in Requests,
         Goto(t, l, v, s, r), RestTyped'
  PROVE  TypeInv'
<1>1. /\ pc' \in [Threads -> Locations] /\ cur' \in [Threads -> Word]
      /\ spin' \in [Threads -> 0..SpinLimit] /\ ret' \in [Threads -> Returns]
      /\ req' \in [Threads -> Requests \cup {NoRequest}]
      /\ RequestKnown' /\ SpinBounded'
  BY GotoType
<1>2. QED
  BY <1>1 DEF TypeInv, TypeOK, RestTyped

LEMMA AcquiredStep ==
  ASSUME TypeInv, NEW t \in Threads, NEW g \in Guard, Acquired(t, g),
         word' \in Word, UNCHANGED <<futex, prefer, calls>>,
         count' \in [Threads -> Nat]
  PROVE  TypeInv'
<1>1. RestTyped'
  BY TypeFacts DEF ThreadTyped, RestTyped, Acquired, futex
<1>2. Goto(t, "held", Blank, 0, "idle") /\ "held" \in Locations /\ "idle" \in Returns
  BY DEF Acquired, Locations, Returns
<1>3. ~ NeedsRequest("held", "idle")
  BY DEF NeedsRequest, Calling
<1>4. QED
  BY <1>1, <1>2, <1>3, TypeFacts, GotoStep DEF ThreadTyped

(* A move to a location outside the calls, such as those of a drop.        *)
LEMMA KeepStep ==
  ASSUME TypeInv, NEW t \in Threads, NEW l \in Locations \ Calling, NEW v \in Word,
         NEW r \in Returns, r = "slow" => req[t] \in Requests,
         Goto(t, l, v, 0, r), RestTyped'
  PROVE  TypeInv'
<1>1. l # "spin_load"
  BY DEF Calling
<1>2. NeedsRequest(l, r) => req[t] \in Requests
  BY DEF NeedsRequest
<1>3. QED
  BY <1>1, <1>2, TypeFacts, GotoStep DEF ThreadTyped

LEMMA ReturnStep ==
  ASSUME TypeInv, NEW t \in Threads, NEW r \in Returns, r = "slow" => req[t] \in Requests,
         Goto(t, ReturnTo(r), Blank, 0, r), RestTyped'
  PROVE  TypeInv'
<1>1. CASE r = "slow"
  <2>1. ReturnTo(r) = "slow_load" /\ "slow_load" \in Locations
    BY <1>1 DEF ReturnTo, Locations
  <2>2. QED
    BY <1>1, <2>1, TypeFacts, GotoStep DEF ThreadTyped
<1>2. CASE r # "slow"
  <2>1. ReturnTo(r) \in Locations \ Calling
    BY <1>2 DEF ReturnTo, Locations, Calling
  <2>2. QED
    BY <1>2, <2>1, TypeFacts, KeepStep DEF ThreadTyped
<1>3. QED
  BY <1>1, <1>2

LEMMA RetSlow ==
  ASSUME TypeInv, NEW t \in Threads
  PROVE  ret[t] = "slow" => req[t] \in Requests
BY TypeFacts DEF ThreadTyped, NeedsRequest

LEMMA FinishStep ==
  ASSUME TypeInv, NEW t \in Threads, Finish(t), RestTyped'
  PROVE  TypeInv'
BY TypeFacts, RetSlow, ReturnStep DEF ThreadTyped, Finish

LEMMA PanicStep ==
  ASSUME TypeInv, NEW t \in Threads, Panic(t), RestTyped'
  PROVE  TypeInv'
<1>1. \A u \in Threads : pc'[u] \in {"dead", "aborted"} \/ pc'[u] = pc[u]
  BY DEF Panic, TypeInv, TypeOK
<1>2. pc' \in [Threads -> Locations]
  BY DEF Panic, TypeInv, TypeOK, Locations
<1>3. RequestKnown'
  BY <1>1 DEF Panic, TypeInv, RequestKnown, NeedsRequest, Calling
<1>4. SpinBounded'
  BY <1>1 DEF Panic, TypeInv, SpinBounded
<1>5. QED
  BY <1>2, <1>3, <1>4 DEF Panic, TypeInv, TypeOK, RestTyped

-----------------------------------------------------------------------------
(* One lemma per action: it preserves the invariant.                       *)
LEMMA WriteCasType ==
  ASSUME TypeInv, NEW t \in Threads, WriteCas(t)
  PROVE  TypeInv'
<1>t. ThreadTyped(t)
  BY TypeFacts
<1> USE <1>t DEF ThreadTyped, RestTyped
<1>0. req[t] \in Requests
  BY DEF WriteCas, NeedsRequest, Calling, CloneCalls
<1>1. CASE word = cur[t] /\ word' = [word EXCEPT !.locked = TRUE] /\ Acquired(t, Lock(word))
  <2>1. word' \in Word /\ Lock(word) \in Guard
    BY <1>1, WordType, GuardType
  <2>2. QED
    BY <1>1, <2>1, AcquiredStep DEF WriteCas
<1>2. CASE /\ CASE pc[t] = "second_write" -> Goto(t, "slow_load", Blank, 0, "slow")
              [] pc[t] = "try_write" -> Goto(t, "idle", Blank, 0, "idle")
              [] pc[t] = "lock_cas" -> Goto(t, Top(t, word, spin[t]), word, spin[t], "slow")
           /\ UNCHANGED <<word, guard>>
  <2>1. RestTyped'
    BY <1>2 DEF WriteCas, futex
  <2>2. CASE Goto(t, "slow_load", Blank, 0, "slow")
    BY <1>0, <2>1, <2>2, GotoStep DEF Locations
  <2>3. CASE Goto(t, "idle", Blank, 0, "idle")
    BY <2>1, <2>3, GotoStep DEF Locations, NeedsRequest, Calling
  <2>4. CASE Goto(t, Top(t, word, spin[t]), word, spin[t], "slow")
    BY <1>0, <2>1, <2>4, GotoStep, TopType, CallingLocations
  <2>5. QED
    BY <1>2, <2>2, <2>3, <2>4 DEF WriteCas
<1>3. QED
  BY <1>1, <1>2 DEF WriteCas

LEMMA TryReadType ==
  ASSUME TypeInv, NEW t \in Threads, TryRead(t)
  PROVE  TypeInv'
<1>t. ThreadTyped(t)
  BY TypeFacts
<1> USE <1>t DEF ThreadTyped, RestTyped
<1>1. CASE word = cur[t] /\ word' = [word EXCEPT !.readers = @ + 1]
           /\ Acquired(t, ReadLock(word.phase))
  <2>1. word' \in Word /\ ReadLock(word.phase) \in Guard
    BY <1>1, WordType, GuardType
  <2>2. QED
    BY <1>1, <2>1, AcquiredStep DEF TryRead
<1>2. ASSUME NEW l \in {"try_read", "idle"}, Goto(t, l, word, 0, "idle"), UNCHANGED <<word, guard>>
      PROVE  TypeInv'
  <2>1. RestTyped'
    BY <1>2 DEF TryRead, futex
  <2>2. req[t] \in Requests
    BY DEF TryRead, NeedsRequest, Calling, CloneCalls
  <2>3. l \in Locations /\ l # "spin_load" /\ "idle" \in Returns
    BY <1>2 DEF Locations
  <2>4. QED
    BY <1>2, <2>1, <2>2, <2>3, GotoStep
<1>3. QED
  BY <1>1, <1>2 DEF TryRead

LEMMA ReadCasType ==
  ASSUME TypeInv, NEW t \in Threads, ReadCas(t)
  PROVE  TypeInv'
<1>t. ThreadTyped(t)
  BY TypeFacts
<1> USE <1>t DEF ThreadTyped, RestTyped
<1>1. ASSUME NEW g \in Guard, word' = [word EXCEPT !.readers = @ + 1], Acquired(t, g)
      PROVE  TypeInv'
  <2>1. word' \in Word
    BY <1>1, WordType
  <2>2. QED
    BY <1>1, <2>1, AcquiredStep DEF ReadCas
<1>2. CASE Goto(t, "read_load", Blank, spin[t], ret[t]) /\ UNCHANGED <<word, guard>>
  <2>1. RestTyped'
    BY <1>2 DEF ReadCas, futex
  <2>2. NeedsRequest("read_load", ret[t]) => req[t] \in Requests
    BY DEF ReadCas, NeedsRequest, Calling, CloneCalls
  <2>3. "read_load" \in Locations
    BY DEF Locations
  <2>4. QED
    BY <1>2, <2>1, <2>2, <2>3, GotoStep
<1>3. ReadLock(word.phase) \in Guard /\ [guard[t] EXCEPT !.count = @ + 1, !.init = word.phase] \in Guard
  BY WordType, GuardType
<1>4. QED
  BY <1>1, <1>2, <1>3 DEF ReadCas

LEMMA ReadLoadType ==
  ASSUME TypeInv, NEW t \in Threads, ReadLoad(t)
  PROVE  TypeInv'
<1>t. ThreadTyped(t)
  BY TypeFacts
<1> USE <1>t DEF ThreadTyped, RestTyped
<1>1. RestTyped'
  BY DEF ReadLoad, futex
<1>2. ret[t] # "clone" => req[t] \in Requests
  BY DEF ReadLoad, NeedsRequest, Calling
<1>3. CASE Goto(t, "read_cas", word, spin[t], ret[t])
  <2>1. NeedsRequest("read_cas", ret[t]) => req[t] \in Requests
    BY <1>2 DEF NeedsRequest, Calling, CloneCalls
  <2>2. "read_cas" \in Locations
    BY DEF Locations
  <2>3. QED
    BY <1>1, <1>3, <2>1, <2>2, GotoStep
<1>4. CASE ret[t] # "clone" /\ Goto(t, "slow_load", Blank, 0, "slow")
  BY <1>1, <1>2, <1>4, GotoStep DEF Locations
<1>5. CASE Goto(t, ClonePost(word, spin[t]), word, spin[t], "clone")
  <2>1. /\ ClonePost(word, spin[t]) \in Locations
        /\ ClonePost(word, spin[t]) = "spin_load" => spin[t] < SpinLimit
        /\ ~ NeedsRequest(ClonePost(word, spin[t]), "clone")
    BY DEF ClonePost, Locations, NeedsRequest, CloneCalls
  <2>2. QED
    BY <1>1, <1>5, <2>1, GotoStep
<1>6. CASE ret[t] # "clone" /\ Goto(t, AfterRead(req[t], word, spin[t]), word, spin[t], "slow")
  BY <1>1, <1>2, <1>6, GotoStep, LoopTopType, CallingLocations
<1>7. QED
  BY <1>3, <1>4, <1>5, <1>6 DEF ReadLoad

(* A new round of the loop of raw_lock_slow or of clone.                   *)
LEMMA TopStep ==
  ASSUME TypeInv, NEW t \in Threads, NEW s \in 0..SpinLimit,
         ret[t] # "clone" => req[t] \in Requests,
         Goto(t, Top(t, word, s), word, s, ret[t]), RestTyped'
  PROVE  TypeInv'
<1>1. word \in Word /\ ret[t] \in Returns
  BY TypeFacts DEF ThreadTyped, RestTyped
<1>2. /\ Top(t, word, s) \in Locations
      /\ Top(t, word, s) = "spin_load" => s < SpinLimit
      /\ ret[t] = "clone" => Top(t, word, s) \in CloneCalls
  BY <1>1, TopType, CallingLocations
<1>3. NeedsRequest(Top(t, word, s), ret[t]) => req[t] \in Requests
  BY <1>2 DEF NeedsRequest
<1>4. QED
  BY <1>1, <1>2, <1>3, GotoStep

LEMMA SlowLoadType ==
  ASSUME TypeInv, NEW t \in Threads, SlowLoad(t)
  PROVE  TypeInv'
<1>t. ThreadTyped(t)
  BY TypeFacts
<1> USE <1>t DEF ThreadTyped, RestTyped
<1>1. RestTyped'
  BY DEF SlowLoad, futex
<1>2. ret[t] # "clone" => req[t] \in Requests
  BY DEF SlowLoad, NeedsRequest, Calling
<1>3. PICK s \in 0..SpinLimit : Goto(t, Top(t, word, s), word, s, ret[t])
  BY SyncAssumption DEF SlowLoad
<1>4. QED
  BY <1>1, <1>2, <1>3, TopStep

LEMMA LockWhileReadersType ==
  ASSUME TypeInv, NEW t \in Threads, LockWhileReaders(t)
  PROVE  TypeInv'
<1>t. ThreadTyped(t)
  BY TypeFacts
<1> USE <1>t DEF ThreadTyped, RestTyped
<1>0. req[t] \in Requests
  BY DEF LockWhileReaders, NeedsRequest, Calling, CloneCalls
<1>1. count' \in [Threads -> Nat]
  BY DEF LockWhileReaders
<1>2. ASSUME NEW l \in {"readers_load", "readers_cas"},
             word' = [word EXCEPT !.locked = TRUE], Goto(t, l, word', spin[t], "slow")
      PROVE  TypeInv'
  <2>1. word' \in Word
    BY <1>2, WordType
  <2>2. RestTyped' /\ l \in Locations
    BY <1>1, <2>1 DEF LockWhileReaders, futex, Locations
  <2>3. QED
    BY <1>0, <1>2, <2>1, <2>2, GotoStep
<1>3. CASE Goto(t, Top(t, word, spin[t]), word, spin[t], "slow") /\ UNCHANGED word
  <2>1. RestTyped'
    BY <1>1, <1>3 DEF LockWhileReaders, futex
  <2>2. QED
    BY <1>0, <1>3, <2>1, GotoStep, TopType, CallingLocations
<1>4. QED
  BY <1>2, <1>3 DEF LockWhileReaders

LEMMA ReadersLoadType ==
  ASSUME TypeInv, NEW t \in Threads, ReadersLoad(t)
  PROVE  TypeInv'
<1>t. ThreadTyped(t)
  BY TypeFacts
<1> USE <1>t DEF ThreadTyped, RestTyped
<1>0. req[t] \in Requests
  BY DEF ReadersLoad, NeedsRequest, Calling, CloneCalls
<1>1. count' \in [Threads -> Nat]
  BY DEF ReadersLoad
<1>2. CASE Acquired(t, Lock(word))
  BY <1>1, <1>2, GuardType, AcquiredStep DEF ReadersLoad
<1>3. ASSUME NEW l \in {"readers_load", "readers_cas"},
             Goto(t, l, word, spin[t], "slow"), UNCHANGED guard
      PROVE  TypeInv'
  <2>1. RestTyped' /\ l \in Locations
    BY <1>1, <1>3 DEF ReadersLoad, futex, Locations
  <2>2. QED
    BY <1>0, <1>3, <2>1, GotoStep
<1>4. QED
  BY <1>2, <1>3 DEF ReadersLoad

LEMMA ReadersCasType ==
  ASSUME TypeInv, NEW t \in Threads, ReadersCas(t)
  PROVE  TypeInv'
<1>t. ThreadTyped(t)
  BY TypeFacts
<1> USE <1>t DEF ThreadTyped, RestTyped
<1>0. req[t] \in Requests
  BY DEF ReadersCas, NeedsRequest, Calling, CloneCalls
<1>1. CASE /\ word' = [word EXCEPT !.ww = TRUE, !.locked = FALSE]
           /\ Goto(t, Waiting(req[t], word'), word', spin[t], "slow")
           /\ UNCHANGED guard
  <2>1. word' \in Word
    BY <1>1, WordType
  <2>2. RestTyped'
    BY <1>1, <2>1 DEF ReadersCas, futex
  <2>3. Waiting(req[t], word') \in Locations /\ Waiting(req[t], word') # "spin_load"
    BY <1>0, <2>1, WaitingType DEF Locations
  <2>4. QED
    BY <1>0, <1>1, <2>1, <2>2, <2>3, GotoStep
<1>2. CASE Acquired(t, Lock(word)) /\ UNCHANGED word
  BY <1>2, GuardType, AcquiredStep DEF ReadersCas
<1>3. CASE Goto(t, "readers_cas", word, spin[t], "slow") /\ UNCHANGED <<word, guard>>
  <2>1. RestTyped' /\ "readers_cas" \in Locations
    BY <1>3 DEF ReadersCas, futex, Locations
  <2>2. QED
    BY <1>0, <1>3, <2>1, GotoStep
<1>4. QED
  BY <1>1, <1>2, <1>3 DEF ReadersCas

LEMMA SetWaiterType ==
  ASSUME TypeInv, NEW t \in Threads, SetWaiter(t)
  PROVE  TypeInv'
<1>t. ThreadTyped(t)
  BY TypeFacts
<1> USE <1>t DEF ThreadTyped, RestTyped
<1>0. /\ ret[t] # "clone" => req[t] \in Requests
      /\ pc[t] = "set_ww" => req[t] \in Requests
  BY DEF SetWaiter, NeedsRequest, Calling, CloneCalls
<1>1. ASSUME NEW l \in {"count_add", "wait_r"}, l = "count_add" => pc[t] = "set_ww",
             word' \in Word, Goto(t, l, word', spin[t], ret[t])
      PROVE  TypeInv'
  <2>1. RestTyped' /\ l \in Locations /\ l # "spin_load"
    BY <1>1 DEF SetWaiter, futex, Locations
  <2>2. NeedsRequest(l, ret[t]) => req[t] \in Requests
    BY <1>0, <1>1 DEF NeedsRequest, Calling, CloneCalls
  <2>3. QED
    BY <1>1, <2>1, <2>2, GotoStep
<1>2. CASE Goto(t, Top(t, word, spin[t]), word, spin[t], ret[t]) /\ UNCHANGED word
  <2>1. RestTyped'
    BY <1>2 DEF SetWaiter, futex
  <2>2. QED
    BY <1>0, <1>2, <2>1, TopStep
<1>3. [word EXCEPT !.ww = TRUE] \in Word /\ [word EXCEPT !.rw = TRUE] \in Word
  BY WordType
<1>4. QED
  BY <1>1, <1>2, <1>3 DEF SetWaiter

LEMMA LockMutType ==
  ASSUME TypeInv, NEW t \in Threads, LockMut(t)
  PROVE  TypeInv'
<1>1. word \in Word /\ guard[t] \in Guard /\ count \in [Threads -> Nat]
  BY TypeFacts DEF ThreadTyped, RestTyped
<1>2. word' \in Word /\ Lock(word) \in Guard
  BY <1>1, WordType, GuardType DEF LockMut
<1>3. QED
  BY <1>1, <1>2, AcquiredStep DEF LockMut

LEMMA CountAddType ==
  ASSUME TypeInv, NEW t \in Threads, CountAdd(t)
  PROVE  TypeInv'
<1>t. ThreadTyped(t)
  BY TypeFacts
<1> USE <1>t DEF ThreadTyped, RestTyped
<1>1. req[t] \in Requests
  BY DEF CountAdd, NeedsRequest, Calling, CloneCalls
<1>2. RestTyped' /\ "wait_w" \in Locations
  BY DEF CountAdd, Locations
<1>3. QED
  BY <1>1, <1>2, GotoStep DEF CountAdd

LEMMA FutexWaitType ==
  ASSUME TypeInv, NEW t \in Threads, FutexWait(t) \/ Interrupt(t)
  PROVE  TypeInv'
<1>t. ThreadTyped(t)
  BY TypeFacts
<1> USE <1>t DEF ThreadTyped, RestTyped
<1>1. RestTyped'
  BY DEF FutexWait, Interrupt, futex
<1>2. ASSUME NEW l \in {"sleep_w", "failed_w"}, pc[t] \in {"wait_w", "sleep_w"},
             Goto(t, l, Blank, 0, "slow")
      PROVE  TypeInv'
  <2>1. req[t] \in Requests /\ l \in Locations
    BY <1>2 DEF NeedsRequest, Calling, CloneCalls, Locations
  <2>2. QED
    BY <1>1, <1>2, <2>1, GotoStep
<1>3. ASSUME NEW l \in {"sleep_r", "slow_load"}, pc[t] \in {"wait_r", "sleep_r"},
             Goto(t, l, Blank, 0, ret[t])
      PROVE  TypeInv'
  <2>1. NeedsRequest(l, ret[t]) => req[t] \in Requests
    BY <1>3 DEF NeedsRequest, Calling, CloneCalls
  <2>2. l \in Locations
    BY DEF Locations
  <2>3. QED
    BY <1>1, <1>3, <2>1, <2>2, GotoStep
<1>4. QED
  BY <1>2, <1>3 DEF FutexWait, Interrupt

LEMMA CountSubType ==
  ASSUME TypeInv, NEW t \in Threads, CountSub(t)
  PROVE  TypeInv'
<1>t. ThreadTyped(t)
  BY TypeFacts
<1> USE <1>t DEF ThreadTyped, RestTyped
<1>0. req[t] \in Requests
  BY DEF CountSub, NeedsRequest, Calling, CloneCalls
<1>1. RestTyped'
  BY DEF CountSub
<1>2. CASE Panic(t)
  BY <1>1, <1>2, PanicStep
<1>3. ASSUME NEW l \in {"slow_load", "or_ww", "locked_load"}, Goto(t, l, Blank, 0, "slow")
      PROVE  TypeInv'
  <2>1. l \in Locations
    BY DEF Locations
  <2>2. QED
    BY <1>0, <1>1, <1>3, <2>1, GotoStep
<1>4. QED
  BY <1>2, <1>3 DEF CountSub

LEMMA OrWriteWaiterType ==
  ASSUME TypeInv, NEW t \in Threads, OrWriteWaiter(t)
  PROVE  TypeInv'
<1>t. ThreadTyped(t)
  BY TypeFacts
<1> USE <1>t DEF ThreadTyped, RestTyped
<1>1. req[t] \in Requests /\ "locked_load" \in Locations
  BY DEF OrWriteWaiter, NeedsRequest, Calling, CloneCalls, Locations
<1>2. word' \in Word
  BY WordType DEF OrWriteWaiter
<1>3. RestTyped'
  BY <1>2 DEF OrWriteWaiter, futex
<1>4. QED
  BY <1>1, <1>3, GotoStep DEF OrWriteWaiter

LEMMA LockedLoadType ==
  ASSUME TypeInv, NEW t \in Threads, LockedLoad(t)
  PROVE  TypeInv'
<1>t. ThreadTyped(t)
  BY TypeFacts
<1> USE <1>t DEF ThreadTyped, RestTyped
<1>0. req[t] \in Requests
  BY DEF LockedLoad, NeedsRequest, Calling, CloneCalls
<1>1. CASE Panic(t) /\ UNCHANGED guard
  BY <1>1, PanicStep DEF LockedLoad, futex
<1>2. ASSUME NEW l \in {"held", "convert", "drop"}, Goto(t, l, Blank, 0, "idle"),
             guard' = [guard EXCEPT ![t] = Lock(word)]
      PROVE  TypeInv'
  <2>1. Lock(word) \in Guard
    BY GuardType
  <2>2. RestTyped' /\ l \in Locations \ Calling
    BY <1>2, <2>1 DEF LockedLoad, futex, Locations, Calling
  <2>3. QED
    BY <1>2, <2>2, KeepStep
<1>3. How[req[t]][word.phase] \in {"None", "Read", "Write"}
  BY <1>0, SyncAssumption DEF Word, Natures
<1>4. QED
  BY <1>1, <1>2, <1>3 DEF LockedLoad

LEMMA WokenReaderType ==
  ASSUME TypeInv, NEW t \in Threads, WokenReader(t)
  PROVE  TypeInv'
<1>t. ThreadTyped(t)
  BY TypeFacts
<1> USE <1>t DEF ThreadTyped, RestTyped
<1>0. ret[t] # "clone" => req[t] \in Requests
  BY DEF WokenReader, NeedsRequest, Calling
<1>1. CASE Panic(t) /\ UNCHANGED guard
  BY <1>1, PanicStep DEF WokenReader, futex
<1>2. CASE Acquired(t, [guard[t] EXCEPT !.count = @ + 1, !.init = word.phase])
  <2>1. [guard[t] EXCEPT !.count = @ + 1, !.init = word.phase] \in Guard
    BY GuardType, WordType
  <2>2. QED
    BY <1>2, <2>1, AcquiredStep DEF WokenReader
<1>3. CASE ret[t] # "clone" /\ guard' = [guard EXCEPT ![t] = ReadLock(word.phase)]
           /\ CASE How[req[t]][word.phase] = "Read" -> Goto(t, "held", Blank, 0, "idle")
                [] How[req[t]][word.phase] = "None" -> Goto(t, "read_drop", Blank, 0, "idle")
                [] How[req[t]][word.phase] = "Write" -> Goto(t, "read_drop", Blank, 0, "slow")
  <2>1. How[req[t]][word.phase] \in {"None", "Read", "Write"}
    BY <1>0, <1>3, SyncAssumption DEF Word, Natures
  <2>2. PICK l \in {"held", "read_drop"}, r \in {"idle", "slow"} : Goto(t, l, Blank, 0, r)
    BY <1>3, <2>1
  <2>3. ReadLock(word.phase) \in Guard
    BY GuardType, WordType
  <2>4. RestTyped' /\ l \in Locations \ Calling
    BY <1>3, <2>3 DEF WokenReader, futex, Locations, Calling
  <2>5. QED
    BY <1>0, <1>3, <2>2, <2>4, KeepStep
<1>4. QED
  BY <1>1, <1>2, <1>3 DEF WokenReader

LEMMA SetPhaseType ==
  ASSUME TypeInv, NEW t \in Threads, NEW p \in Phases, SetPhase(t, p)
  PROVE  TypeInv'
<1>1. [guard[t] EXCEPT !.on_unlock = p] \in Guard /\ guard \in [Threads -> Guard]
  BY TypeFacts, GuardType DEF ThreadTyped, RestTyped
<1>2. guard' = [guard EXCEPT ![t] = [guard[t] EXCEPT !.on_unlock = p]]
  BY DEF SetPhase
<1>3. guard' \in [Threads -> Guard]
  BY <1>1, <1>2
<1>4. QED
  BY <1>3 DEF SetPhase, futex, TypeInv, TypeOK, RequestKnown, SpinBounded

LEMMA CloneType ==
  ASSUME TypeInv, NEW t \in Threads, Clone(t)
  PROVE  TypeInv'
<1>t. ThreadTyped(t)
  BY TypeFacts
<1> USE <1>t DEF ThreadTyped, RestTyped
<1>1. /\ CloneTop(word, 0) \in Locations
      /\ CloneTop(word, 0) = "spin_load" => 0 < SpinLimit
      /\ ~ NeedsRequest(CloneTop(word, 0), "clone")
  BY DEF CloneTop, ClonePost, Locations, NeedsRequest, CloneCalls
<1>2. RestTyped'
  BY DEF Clone, futex
<1>3. QED
  BY <1>1, <1>2, GotoStep DEF Clone

LEMMA IntoReadLockType ==
  ASSUME TypeInv, NEW t \in Threads, IntoReadLock(t)
  PROVE  TypeInv'
<1>t. ThreadTyped(t)
  BY TypeFacts
<1> USE <1>t DEF ThreadTyped, RestTyped
<1>1. guard[t].init \in Phases /\ guard[t].on_unlock \in Phases
  BY GuardType
<1>2. word' \in Word
  BY <1>1, XorType DEF IntoReadLock
<1>3. PICK l \in {"conv_xor", "held"}, r \in {"held", "idle"}, g \in Guard :
         Goto(t, l, Blank, 0, r) /\ guard' = [guard EXCEPT ![t] = g]
  <2>1. ReadLock(guard[t].on_unlock) \in Guard
    BY <1>1, GuardType
  <2>2. [guard[t] EXCEPT !.kind = "read", !.count = 1] \in Guard
    BY GuardType
  <2>3. CASE word.rw
    <3>1. guard' = [guard EXCEPT ![t].kind = "read", ![t].count = 1]
      BY <2>3 DEF IntoReadLock
    <3>2. guard' = [guard EXCEPT ![t] = [guard[t] EXCEPT !.kind = "read", !.count = 1]]
      BY <3>1
    <3>3. QED
      BY <2>2, <2>3, <3>2 DEF IntoReadLock
  <2>4. CASE ~word.rw
    BY <2>1, <2>4 DEF IntoReadLock
  <2>5. QED
    BY <2>3, <2>4
<1>4. guard' \in [Threads -> Guard]
  BY <1>3
<1>5. RestTyped'
  BY <1>2, <1>4 DEF IntoReadLock, futex
<1>6. l \in Locations \ Calling
  BY DEF Locations, Calling
<1>7. QED
  BY <1>3, <1>5, <1>6, KeepStep

LEMMA DropLockType ==
  ASSUME TypeInv, NEW t \in Threads, DropLock(t)
  PROVE  TypeInv'
<1>t. ThreadTyped(t)
  BY TypeFacts
<1> USE <1>t DEF ThreadTyped, RestTyped
<1>1. CASE word' = Free(guard[t].on_unlock) /\ guard' = [guard EXCEPT ![t] = NoGuard] /\ Finish(t)
  <2>0. guard[t].on_unlock \in Phases
    BY GuardType
  <2>1. word' \in Word
    BY <1>1, <2>0 DEF Free, Word
  <2>2. NoGuard \in Guard
    BY GuardType
  <2>3. RestTyped'
    BY <1>1, <2>1, <2>2 DEF DropLock, futex
  <2>4. QED
    BY <1>1, <2>3, FinishStep
<1>2. CASE Goto(t, "drop_xor", Blank, 0, ret[t]) /\ UNCHANGED <<word, guard>>
  <2>1. RestTyped' /\ "drop_xor" \in Locations \ Calling
    BY <1>2 DEF DropLock, futex, Locations, Calling
  <2>2. QED
    BY <1>2, <2>1, RetSlow, KeepStep
<1>3. QED
  BY <1>1, <1>2 DEF DropLock

LEMMA DropXorType ==
  ASSUME TypeInv, NEW t \in Threads, DropXor(t)
  PROVE  TypeInv'
<1>t. ThreadTyped(t)
  BY TypeFacts
<1> USE <1>t DEF ThreadTyped, RestTyped
<1>1. guard[t].init \in Phases /\ guard[t].on_unlock \in Phases /\ NoGuard \in Guard
  BY GuardType
<1>2. word' \in Word
  BY <1>1, XorType DEF DropXor
<1>3. RestTyped' /\ "transfer" \in Locations \ Calling
  BY <1>1, <1>2 DEF DropXor, futex, Locations, Calling
<1>4. CASE Finish(t)
  BY <1>3, <1>4, FinishStep
<1>5. CASE Goto(t, "transfer", word', 0, ret[t])
  BY <1>2, <1>3, <1>5, RetSlow, KeepStep
<1>6. QED
  BY <1>4, <1>5 DEF DropXor

LEMMA DropReadLockType ==
  ASSUME TypeInv, NEW t \in Threads, DropReadLock(t)
  PROVE  TypeInv'
<1>t. ThreadTyped(t)
  BY TypeFacts
<1> USE <1>t DEF ThreadTyped, RestTyped
<1>1. word' \in Word
  <2>1. word' = [word EXCEPT !.readers = @ - 1] /\ 1 \in Int
    BY DEF DropReadLock
  <2>2. QED
    BY <2>1, WordType
<1>2. PICK g \in Guard : guard' = [guard EXCEPT ![t] = g]
  <2>1. NoGuard \in Guard /\ (guard[t].count > 1 => [guard[t] EXCEPT !.count = @ - 1] \in Guard)
    BY GuardType
  <2>2. QED
    BY <2>1 DEF DropReadLock
<1>3. RestTyped' /\ "transfer" \in Locations \ Calling
  BY <1>1, <1>2 DEF DropReadLock, futex, Locations, Calling
<1>4. PICK r \in {"held", ret[t]} : \/ Goto(t, "transfer", word', 0, r)
                                   \/ Goto(t, ReturnTo(r), Blank, 0, r)
  BY DEF DropReadLock
<1>5. r \in Returns /\ (r = "slow" => req[t] \in Requests)
  BY RetSlow
<1>6. QED
  BY <1>1, <1>3, <1>4, <1>5, KeepStep, ReturnStep

LEMMA TransferLockType ==
  ASSUME TypeInv, NEW t \in Threads, TransferLock(t)
  PROVE  TypeInv'
<1>t. ThreadTyped(t)
  BY TypeFacts
<1> USE <1>t DEF ThreadTyped, RestTyped
<1>1. RestTyped'
  BY DEF TransferLock, futex, prefer_wake_one_writer
<1>2. CASE Panic(t)
  BY <1>1, <1>2, PanicStep
<1>3. ASSUME NEW l \in {"give_xor", "wake_xor"}, Goto(t, l, cur[t], 0, ret[t])
      PROVE  TypeInv'
  <2>1. l \in Locations \ Calling
    BY DEF Locations, Calling
  <2>2. QED
    BY <1>1, <1>3, <2>1, RetSlow, KeepStep
<1>4. QED
  BY <1>2, <1>3 DEF TransferLock, TransferNext

LEMMA GiveXorType ==
  ASSUME TypeInv, NEW t \in Threads, GiveXor(t)
  PROVE  TypeInv'
<1>t. ThreadTyped(t)
  BY TypeFacts
<1> USE <1>t DEF ThreadTyped, RestTyped
<1>1. word' \in Word /\ [cur[t] EXCEPT !.ww = ~@, !.locked = ~@] \in Word
  BY WordType DEF GiveXor
<1>2. RestTyped' /\ "give_wake" \in Locations \ Calling
  BY <1>1 DEF GiveXor, futex, Locations, Calling
<1>3. CASE Panic(t)
  BY <1>2, <1>3, PanicStep
<1>4. CASE Goto(t, "give_wake", [cur[t] EXCEPT !.ww = ~@, !.locked = ~@], 0, ret[t])
  BY <1>1, <1>2, <1>4, RetSlow, KeepStep
<1>5. QED
  BY <1>3, <1>4 DEF GiveXor

LEMMA GiveWakeType ==
  ASSUME TypeInv, NEW t \in Threads, GiveWake(t)
  PROVE  TypeInv'
<1>t. ThreadTyped(t)
  BY TypeFacts
<1> USE <1>t DEF ThreadTyped, RestTyped
<1>1. fairness' \in 0..(Period - 1)
  BY SyncAssumption DEF GiveWake
<1>2. ASSUME NEW u \in {x \in Threads : pc[x] = "sleep_w"},
             pc' = [pc EXCEPT ![u] = "woken_w", ![t] = ReturnTo(ret[t])],
             cur' = [cur EXCEPT ![t] = Blank],
             req' = [req EXCEPT ![t] = IF ReturnTo(ret[t]) = "idle" THEN NoRequest ELSE @],
             prefer' = [prefer EXCEPT ![t] = FALSE],
             UNCHANGED <<spin, ret>>
      PROVE  TypeInv'
  <2>1. u # t /\ pc[t] = "give_wake" /\ pc[u] = "sleep_w"
    BY <1>2 DEF GiveWake
  <2>2. ReturnTo(ret[t]) \in {"idle", "slow_load", "dead", "held"} /\ "woken_w" \in Locations
    BY DEF ReturnTo, Locations
  <2>3. {"idle", "slow_load", "dead", "held", "woken_w"} \subseteq Locations
    BY DEF Locations
  <2>4. TypeOK'
    BY <1>1, <1>2, <2>2, <2>3 DEF GiveWake, TypeInv, TypeOK
  <2>5. pc \in [Threads -> Locations] /\ req \in [Threads -> Requests \cup {NoRequest}]
    BY DEF TypeInv, TypeOK
  <2>6. SpinBounded'
    BY <1>2, <2>1, <2>2, <2>5 DEF TypeInv, SpinBounded
  <2>7. RequestKnown'
    <3>1. SUFFICES ASSUME NEW x \in Threads, NeedsRequest(pc'[x], ret'[x])
                   PROVE  req'[x] \in Requests
      BY DEF RequestKnown
    <3>2. CASE x = t
      <4>1. NeedsRequest(ReturnTo(ret[t]), ret[t])
        BY <1>2, <2>1, <2>5, <3>1, <3>2
      <4>2. ret[t] = "slow"
        BY <4>1 DEF NeedsRequest, ReturnTo, Calling
      <4>3. QED
        BY <1>2, <2>5, <3>2, <4>2, RetSlow DEF ReturnTo
    <3>3. CASE x = u
      <4>1. req[u] \in Requests
        BY <2>1 DEF TypeInv, RequestKnown, NeedsRequest, Calling, CloneCalls
      <4>2. QED
        BY <1>2, <2>1, <2>5, <3>3, <4>1
    <3>4. CASE x # t /\ x # u
      BY <1>2, <2>5, <3>1, <3>4 DEF TypeInv, RequestKnown
    <3>5. QED
      BY <3>2, <3>3, <3>4
  <2>8. QED
    BY <2>4, <2>6, <2>7 DEF TypeInv
<1>3. ASSUME NEW l \in {"wake_xor", "give_and"}, Goto(t, l, cur[t], 0, ret[t]), UNCHANGED prefer
      PROVE  TypeInv'
  <2>1. RestTyped' /\ l \in Locations \ Calling
    BY <1>1, <1>3 DEF GiveWake, Locations, Calling
  <2>2. QED
    BY <1>3, <2>1, RetSlow, KeepStep
<1>4. QED
  BY <1>2, <1>3 DEF GiveWake

LEMMA GiveAndType ==
  ASSUME TypeInv, NEW t \in Threads, GiveAnd(t)
  PROVE  TypeInv'
<1>t. ThreadTyped(t)
  BY TypeFacts
<1> USE <1>t DEF ThreadTyped, RestTyped
<1>1. [word EXCEPT !.locked = FALSE] \in Word
  BY WordType
<1>2. RestTyped'
  BY <1>1 DEF GiveAnd, futex, has_no_waiters
<1>3. CASE Panic(t)
  BY <1>2, <1>3, PanicStep
<1>4. CASE Finish(t)
  BY <1>2, <1>4, FinishStep
<1>5. ASSUME NEW l \in {"give_xor", "wake_xor"},
             Goto(t, l, [word EXCEPT !.locked = FALSE], 0, ret[t])
      PROVE  TypeInv'
  <2>1. l \in Locations \ Calling
    BY DEF Locations, Calling
  <2>2. QED
    BY <1>1, <1>2, <1>5, <2>1, RetSlow, KeepStep
<1>6. QED
  BY <1>3, <1>4, <1>5 DEF GiveAnd, TransferNext

LEMMA WakeXorType ==
  ASSUME TypeInv, NEW t \in Threads, WakeXor(t)
  PROVE  TypeInv'
<1>t. ThreadTyped(t)
  BY TypeFacts
<1> USE <1>t DEF ThreadTyped, RestTyped
<1>1. FlipOverf(FlipUnity(word.readers)) \in Int
  <2>1. word.readers \in Int /\ Overf \in Int
    BY SyncAssumption DEF Word
  <2>2. FlipUnity(word.readers) \in Int
    BY <2>1 DEF FlipUnity
  <2>3. QED
    BY <2>1, <2>2 DEF FlipOverf
<1>2. word' \in Word
  BY <1>1 DEF WakeXor, Word
<1>3. RestTyped' /\ "wake_call" \in Locations \ Calling
  BY <1>2 DEF WakeXor, futex, Locations, Calling
<1>4. CASE Panic(t)
  BY <1>3, <1>4, PanicStep
<1>5. CASE Goto(t, "wake_call", Blank, 0, ret[t])
  BY <1>3, <1>5, RetSlow, KeepStep
<1>6. QED
  BY <1>4, <1>5 DEF WakeXor

LEMMA ConvertXorType ==
  ASSUME TypeInv, NEW t \in Threads, ConvertXor(t)
  PROVE  TypeInv'
<1>t. ThreadTyped(t)
  BY TypeFacts
<1> USE <1>t DEF ThreadTyped, RestTyped
<1>1. word.readers \in Int /\ Overf \in Int
  BY SyncAssumption DEF Word
<1>2. FlipOverf(word.readers) \in Int
  BY <1>1 DEF FlipOverf
<1>3. word' \in Word
  BY <1>2 DEF ConvertXor, Word
<1>4. CASE /\ Goto(t, "drop", Blank, 0, "dead")
           /\ guard' = [guard EXCEPT ![t].kind = "none", ![t].count = 0]
  <2>1. guard' = [guard EXCEPT ![t] = [guard[t] EXCEPT !.kind = "none", !.count = 0]]
    BY <1>4
  <2>2. [guard[t] EXCEPT !.kind = "none", !.count = 0] \in Guard
    BY GuardType
  <2>3. guard' \in [Threads -> Guard]
    BY <2>1, <2>2
  <2>4. RestTyped' /\ "drop" \in Locations \ Calling
    BY <1>3, <2>3 DEF ConvertXor, futex, Locations, Calling
  <2>5. QED
    BY <1>4, <2>4, KeepStep
<1>5. CASE Goto(t, "conv_call", Blank, 0, ret[t]) /\ UNCHANGED guard
  <2>1. RestTyped' /\ "conv_call" \in Locations \ Calling
    BY <1>3, <1>5 DEF ConvertXor, futex, Locations, Calling
  <2>2. QED
    BY <1>5, <2>1, RetSlow, KeepStep
<1>6. QED
  BY <1>4, <1>5 DEF ConvertXor

LEMMA FutexWakeReadersType ==
  ASSUME TypeInv, NEW t \in Threads, FutexWakeReaders(t)
  PROVE  TypeInv'
<1>t. ThreadTyped(t)
  BY TypeFacts
<1> USE <1>t DEF ThreadTyped, RestTyped
<1>1. fairness' \in 0..(Period - 1)
  BY SyncAssumption DEF FutexWakeReaders
<1> DEFINE next(n) == IF pc[t] = "wake_call" THEN IF n = Overf THEN "wake_or" ELSE "wake_sub"
                                           ELSE IF n = Overf THEN "conv_or" ELSE "conv_sub"
<1>s. PICK S \in SUBSET {u \in Threads : pc[u] = "sleep_r"} :
        /\ count' = [count EXCEPT ![t] = Cardinality(S)]
        /\ pc' = [u \in Threads |-> IF u = t THEN next(Cardinality(S))
                                    ELSE IF u \in S THEN "woken_r" ELSE pc[u]]
  BY Zenon DEF FutexWakeReaders
<1>l. PICK l \in {"wake_or", "wake_sub", "conv_or", "conv_sub"} : l = next(Cardinality(S))
  OBVIOUS
<1>2. /\ count' = [count EXCEPT ![t] = Cardinality(S)]
      /\ pc' = [u \in Threads |-> IF u = t THEN l ELSE IF u \in S THEN "woken_r" ELSE pc[u]]
  BY <1>s, <1>l
<1> HIDE DEF next
<1>3. Cardinality(S) \in Nat
  <2>1. IsFiniteSet(S)
    BY FS_Subset, SyncAssumption
  <2>2. QED
    BY <2>1, FS_CardinalityType
<1>4. TypeOK'
  <2>1. {"wake_or", "wake_sub", "conv_or", "conv_sub", "woken_r"} \subseteq Locations
    BY DEF Locations
  <2>2. pc' \in [Threads -> Locations] /\ count' \in [Threads -> Nat]
    BY <1>2, <1>3, <2>1 DEF TypeInv, TypeOK
  <2>3. QED
    BY <1>1, <2>2 DEF FutexWakeReaders, TypeInv, TypeOK
<1>5. \A u \in Threads : pc'[u] = IF u = t THEN l ELSE IF u \in S THEN "woken_r" ELSE pc[u]
  BY <1>2
<1>6. SpinBounded'
  BY <1>5 DEF FutexWakeReaders, TypeInv, SpinBounded
<1>7. RequestKnown'
  <2>1. SUFFICES ASSUME NEW x \in Threads, NeedsRequest(pc'[x], ret'[x])
                 PROVE  req'[x] \in Requests
    BY DEF RequestKnown
  <2>2. req' = req /\ ret' = ret
    BY DEF FutexWakeReaders
  <2>3. CASE x = t
    <3>1. ret[t] = "slow"
      BY <1>5, <2>1, <2>2, <2>3 DEF NeedsRequest, Calling
    <3>2. QED
      BY <2>2, <2>3, <3>1, RetSlow
  <2>4. CASE x # t /\ x \in S
    <3>1. pc[x] = "sleep_r" /\ NeedsRequest("woken_r", ret[x])
      BY <1>5, <2>1, <2>2, <2>4
    <3>2. NeedsRequest(pc[x], ret[x])
      BY <3>1 DEF NeedsRequest, Calling, CloneCalls
    <3>3. QED
      BY <2>2, <3>2 DEF TypeInv, RequestKnown
  <2>5. CASE x # t /\ x \notin S
    BY <1>5, <2>1, <2>2, <2>5 DEF TypeInv, RequestKnown
  <2>6. QED
    BY <2>3, <2>4, <2>5
<1>8. QED
  BY <1>4, <1>6, <1>7 DEF TypeInv

LEMMA OrReadWaiterType ==
  ASSUME TypeInv, NEW t \in Threads, OrReadWaiter(t)
  PROVE  TypeInv'
<1>t. ThreadTyped(t)
  BY TypeFacts
<1> USE <1>t DEF ThreadTyped, RestTyped
<1>1. word' \in Word
  BY WordType DEF OrReadWaiter
<1>2. RestTyped' /\ {"wake_sub", "conv_sub"} \subseteq Locations \ Calling
  BY <1>1 DEF OrReadWaiter, futex, Locations, Calling
<1>3. PICK l \in {"wake_sub", "conv_sub"} : Goto(t, l, Blank, 0, ret[t])
  BY DEF OrReadWaiter
<1>4. QED
  BY <1>2, <1>3, RetSlow, KeepStep

LEMMA WakeSubType ==
  ASSUME TypeInv, NEW t \in Threads, WakeSub(t)
  PROVE  TypeInv'
<1>t. ThreadTyped(t)
  BY TypeFacts
<1> USE <1>t DEF ThreadTyped, RestTyped
<1>1. word' \in Word
  <2>1. Overf - count[t] \in Int
    BY SyncAssumption
  <2>2. QED
    BY <2>1, WordType DEF WakeSub
<1>2. count' \in [Threads -> Nat]
  BY DEF WakeSub
<1>3. CASE Goto(t, "read_drop", Blank, 0, ret[t]) /\ UNCHANGED guard
  <2>1. RestTyped' /\ "read_drop" \in Locations \ Calling
    BY <1>1, <1>2, <1>3 DEF WakeSub, futex, Locations, Calling
  <2>2. QED
    BY <1>3, <2>1, RetSlow, KeepStep
<1>4. CASE Acquired(t, ReadLock(word.phase))
  <2>1. ReadLock(word.phase) \in Guard
    BY WordType, GuardType
  <2>2. QED
    BY <1>1, <1>2, <1>4, <2>1, AcquiredStep DEF WakeSub
<1>5. QED
  BY <1>3, <1>4 DEF WakeSub

LEMMA OptimisticLockType ==
  ASSUME TypeInv, NEW t \in Threads, NEW q \in Requests, OptimisticLock(t, q)
  PROVE  TypeInv'
<1>t. ThreadTyped(t)
  BY TypeFacts
<1> USE <1>t DEF ThreadTyped, RestTyped
<1>1. calls' \in [Threads -> 0..MaxCalls]
  BY SyncAssumption DEF OptimisticLock
<1>2. /\ pc \in [Threads -> Locations] /\ req \in [Threads -> Requests \cup {NoRequest}]
      /\ ret \in [Threads -> Returns] /\ cur \in [Threads -> Word]
  BY DEF TypeInv, TypeOK
<1>3. ret[t] # "slow" \/ req[t] \in Requests
  BY RetSlow
<1>4. ASSUME NEW w \in Word, NEW g \in Guard, word' = w,
             guard' = [guard EXCEPT ![t] = g],
             pc' = [pc EXCEPT ![t] = "held"], req' = [req EXCEPT ![t] = q],
             UNCHANGED <<cur, spin, ret>>
      PROVE  TypeInv'
  <2>1. TypeOK'
    BY <1>1, <1>2, <1>4, "held" \in Locations DEF OptimisticLock, TypeInv, TypeOK, Locations
  <2>2. RequestKnown'
    BY <1>2, <1>4 DEF TypeInv, RequestKnown
  <2>3. SpinBounded'
    BY <1>2, <1>4 DEF TypeInv, SpinBounded
  <2>4. QED
    BY <2>1, <2>2, <2>3 DEF TypeInv
<1>5. ASSUME NEW l \in {"idle", "second_write", "try_write", "try_read", "read_cas", "slow_load"},
             pc' = [pc EXCEPT ![t] = l],
             req' = [req EXCEPT ![t] = IF l = "idle" THEN NoRequest ELSE q],
             cur' = [cur EXCEPT ![t] = IF l \in Forgetful THEN Blank ELSE word],
             ret' = [ret EXCEPT ![t] = CASE l = "read_cas" -> "fast"
                                         [] l = "slow_load" -> "slow"
                                         [] OTHER -> "idle"],
             UNCHANGED <<word, guard, spin>>
      PROVE  TypeInv'
  <2>1. l \in Locations
    BY DEF Locations
  <2>2. pc' \in [Threads -> Locations] /\ cur' \in [Threads -> Word]
    BY <1>2, <1>5, <2>1
  <2>3. ret' \in [Threads -> Returns] /\ req' \in [Threads -> Requests \cup {NoRequest}]
    BY <1>2, <1>5 DEF Returns
  <2>4. TypeOK'
    BY <1>1, <1>5, <2>2, <2>3 DEF OptimisticLock, TypeInv, TypeOK
  <2>5. SpinBounded'
    BY <1>2, <1>5 DEF TypeInv, SpinBounded
  <2>6. RequestKnown'
    BY <1>2, <1>5 DEF TypeInv, RequestKnown, NeedsRequest, Calling
  <2>7. QED
    BY <2>4, <2>5, <2>6 DEF TypeInv
<1>6. How[q][word.phase] \in {"None", "Read", "Write"}
  BY SyncAssumption DEF Word, Natures
<1>7. /\ SecondTry(q, word) \in {"idle", "try_write", "try_read"}
      /\ SecondAttempt(q, word) \in {"idle", "second_write", "read_cas", "slow_load"}
  BY <1>6 DEF SecondTry, SecondAttempt
<1>8. /\ [word EXCEPT !.locked = TRUE] \in Word /\ [word EXCEPT !.readers = 1] \in Word
      /\ Lock(word) \in Guard /\ ReadLock(word.phase) \in Guard
  <2>1. [word EXCEPT !.locked = TRUE] \in Word /\ [word EXCEPT !.readers = 1] \in Word
    BY WordType
  <2>2. Lock(word) \in Guard /\ ReadLock(word.phase) \in Guard
    BY WordType, GuardType
  <2>3. QED
    BY <2>1, <2>2
<1>9. QED
  BY <1>4, <1>5, <1>7, <1>8 DEF OptimisticLock
-----------------------------------------------------------------------------
LEMMA InitType == Init => TypeInv
<1> SUFFICES ASSUME Init PROVE TypeInv
  OBVIOUS
<1>1. Blank \in Word /\ Free({}) \in Word
  BY DEF Blank, Free, Word, Phases
<1>2. NoGuard \in Guard
  BY DEF NoGuard, Guard, Phases
<1>3. 0 \in 0..(Period - 1) /\ 0 \in 0..SpinLimit /\ 0 \in 0..MaxCalls
  BY SyncAssumption
<1>4. TypeOK
  BY <1>1, <1>2, <1>3 DEF Init, TypeOK, Locations, Returns
<1>5. RequestKnown /\ SpinBounded
  BY DEF Init, RequestKnown, SpinBounded, NeedsRequest, Calling
<1>6. QED
  BY <1>4, <1>5 DEF TypeInv

LEMMA NextType == TypeInv /\ [Next]_vars => TypeInv'
<1> SUFFICES ASSUME TypeInv, [Next]_vars PROVE TypeInv'
  OBVIOUS
<1>1. CASE UNCHANGED vars
  BY <1>1 DEF vars, TypeInv, TypeOK, RequestKnown, SpinBounded
<1>2. ASSUME NEW t \in Threads, Begin(t) PROVE TypeInv'
  BY <1>2, OptimisticLockType, LockMutType, CloneType, FutexWaitType, SetPhaseType DEF Begin
<1>3. ASSUME NEW t \in Threads, Proceed(t) PROVE TypeInv'
  <2>1. CASE \/ WriteCas(t) \/ TryRead(t) \/ ReadCas(t) \/ ReadLoad(t) \/ SlowLoad(t)
             \/ LockWhileReaders(t) \/ ReadersLoad(t) \/ ReadersCas(t)
    BY <2>1, WriteCasType, TryReadType, ReadCasType, ReadLoadType, SlowLoadType,
       LockWhileReadersType, ReadersLoadType, ReadersCasType
  <2>2. CASE \/ SetWaiter(t) \/ CountAdd(t) \/ FutexWait(t) \/ CountSub(t)
             \/ OrWriteWaiter(t) \/ LockedLoad(t) \/ WokenReader(t)
    BY <2>2, SetWaiterType, CountAddType, FutexWaitType, CountSubType, OrWriteWaiterType,
       LockedLoadType, WokenReaderType
  <2>3. CASE \/ IntoReadLock(t) \/ DropLock(t) \/ DropXor(t) \/ DropReadLock(t)
             \/ TransferLock(t) \/ GiveXor(t) \/ GiveWake(t) \/ GiveAnd(t)
    BY <2>3, IntoReadLockType, DropLockType, DropXorType, DropReadLockType, TransferLockType,
       GiveXorType, GiveWakeType, GiveAndType
  <2>4. CASE \/ WakeXor(t) \/ ConvertXor(t) \/ FutexWakeReaders(t) \/ OrReadWaiter(t)
             \/ WakeSub(t)
    BY <2>4, WakeXorType, ConvertXorType, FutexWakeReadersType, OrReadWaiterType, WakeSubType
  <2>5. QED
    BY <1>3, <2>1, <2>2, <2>3, <2>4 DEF Proceed
<1>4. QED
  BY <1>1, <1>2, <1>3 DEF Next

(* Every table of the control flow is defined where it is applied: a       *)
(* thread goes by a request's closures only while it serves one, spins at  *)
(* most SpinLimit times, and every field keeps its type.                   *)
THEOREM TypeCorrect == Spec => []TypeOK
<1>1. TypeInv => TypeOK
  BY DEF TypeInv
<1>2. QED
  BY <1>1, InitType, NextType, PTL DEF Spec
-----------------------------------------------------------------------------
(***************************************************************************)
(* The inductive invariant.  A thread is classified by its location l, the *)
(* value v it goes by and its guard g.                                     *)
(***************************************************************************)

(* It owns the lock for writing, or is the one that hands it over.         *)
Owns(l, g) ==
  \/ g.kind = "write"
  \/ l \in {"woken_w", "or_ww", "locked_load", "transfer", "give_xor", "give_wake", "give_and",
            "wake_xor"}

(* It hands the lock over while only the waiter bits keep others out.      *)
Passes(l, v) == l \in {"transfer", "give_xor"} \/ (l = "wake_xor" /\ ~v.locked)

(* It has set LOCKED_BIT and waits for the readers to leave.               *)
Drains(l) == l \in {"readers_load", "readers_cas"}

(* It is in wake_readers, and then READER_OVERF is not settled.            *)
Unsettling == {"wake_call", "wake_or", "wake_sub", "conv_call", "conv_or", "conv_sub"}
Wakes(l) == l = "conv_xor" \/ l \in Unsettling

Converting == {"conv_xor", "conv_call", "conv_or", "conv_sub"}
Dropping == {"drop", "drop_xor", "read_drop", "transfer", "give_xor", "give_wake", "give_and",
             "wake_xor", "wake_call", "wake_or", "wake_sub"}

(* Request q may turn a write guard into a read guard in phase p.          *)
MayConvert(q, p) ==
  \/ p \in Converts[q]
  \/ How[q][p] = "Read" /\ \E o \in Phases : OnWait[q][o] = "Write"

(* No request writes in a phase in which another converts: the contract    *)
(* that into_read_lock needs of the closures.                              *)
ConvertersAgree ==
  \A q, r \in Requests, p \in Phases : MayConvert(q, p) => How[r][p] # "Write"

(* The guards that a thread may own at location l.                         *)
GuardFits(l, r, g) ==
  /\ g.kind # "read" => g.count = 0
  /\ g.kind = "read" => g.count \in 1..MaxGuards
  /\ g.kind = "none" => l \notin {"held", "convert", "drop", "drop_xor"} \cup Converting
  /\ g.kind = "write" => l \in {"held", "convert", "drop", "drop_xor"}
  /\ g.kind = "read" => l \in {"held", "read_drop"} \cup Converting \/ r = "clone"
  /\ l \in {"read_drop"} \cup Converting => g.count <= 1
  /\ r = "clone" => l \in CloneCalls /\ g.kind = "read" /\ g.count < MaxGuards

(* Where its call returns to.                                              *)
RetFits(l, r) ==
  /\ l \notin {"dead", "aborted"} /\ r # "dead"
  /\ l \in {"idle", "held", "convert"} => r = "idle"
  /\ l \in Dropping => r \in {"idle", "slow"}

(* The value it is about to exchange is one that may be exchanged.         *)
CasFits(l, v, r, q) ==
  /\ l = "idle" => q = NoRequest
  /\ l \in {"second_write", "try_write", "lock_cas"} =>
       is_write_lockable(v) /\ has_no_readers(v) /\ How[q][v.phase] = "Write"
  /\ l = "lock_while_readers" =>
       is_write_lockable(v) /\ has_readers(v) /\ How[q][v.phase] = "Write"
  /\ l = "try_read" \/ (l = "read_cas" /\ r # "clone") =>
       is_read_lockable(v) /\ How[q][v.phase] = "Read"
  /\ l = "read_cas" => ~has_readers_max(v)
  /\ Drains(l) => has_readers(v)
  /\ l \in {"set_ww", "count_add", "wait_w", "sleep_w", "woken_w", "or_ww", "locked_load"} =>
       \E o \in Phases : OnWait[q][o] = "Write"

(* The phase p of the word is the one its guard and its request go by.     *)
PhaseFits(l, r, q, g, p) ==
  /\ g.kind = "write" => g.init = p
  /\ g.kind = "write" /\ g.on_unlock # g.init =>
       q \in Requests /\ g.on_unlock \in Unlocks[q] /\ How[q][p] = "Write"
  /\ l = "held" \/ r = "clone" =>
       /\ g.init = p
       /\ q # NoRequest =>
            \/ g.kind = "write" /\ How[q][p] = "Write"
            \/ g.kind = "read" /\ How[q][p] = "Read"
            \/ g.kind = "read" /\ p \in Converts[q]
  /\ Drains(l) => How[q][p] = "Write"
  /\ l = "convert" => q \in Requests /\ MayConvert(q, p) /\ g.on_unlock = p
  /\ l \in Converting => q \in Requests /\ MayConvert(q, p)

(* In a hand-over, the bits of v that it goes by are still set in the word.*)
BitsFit(l, v, w) ==
  /\ l = "transfer" => /\ ~v.locked /\ has_no_readers(v) /\ ~has_no_waiters(v)
                       /\ v.ww => w.ww
                       /\ v.rw => w.rw
  /\ l = "give_xor" => ~v.locked /\ v.ww /\ w.ww /\ (v.rw => w.rw)
  /\ l = "give_wake" => v.locked /\ (v.rw => w.rw)
  /\ l = "wake_xor" => w.rw
  /\ l = "conv_xor" => w.rw /\ w.readers < Overf

(* The number n it has counted.                                            *)
CountFits(l, n) ==
  /\ n \in Nat
  /\ l \in {"wake_call", "conv_call"} => n = 0
  /\ l \in Unsettling => n <= Overf
  /\ n # 0 => l \in Unsettling \cup {"readers_load"}

Local(l, v, r, q, g, n, w) ==
  /\ GuardFits(l, r, g)
  /\ RetFits(l, r)
  /\ CasFits(l, v, r, q)
  /\ PhaseFits(l, r, q, g, w.phase)
  /\ BitsFit(l, v, w)
  /\ CountFits(l, n)

ThreadInv ==
  \A t \in Threads : Local(pc[t], cur[t], ret[t], req[t], guard[t], count[t], word)

OwnsT(t) == Owns(pc[t], guard[t])
LocksT(t) == Drains(pc[t]) \/ (OwnsT(t) /\ ~Passes(pc[t], cur[t]))

(* At most one thread owns, drains or wakes, save that a thread may lock   *)
(* while another wakes readers; who owns the lock owns it against every    *)
(* reader; LOCKED_BIT is set exactly while a thread has set it.            *)
OwnerInv ==
  /\ \A t, u \in Threads : t # u =>
       /\ OwnsT(t) => ~OwnsT(u) /\ ~Wakes(pc[u]) /\ ~Drains(pc[u])
       /\ Wakes(pc[t]) => ~Wakes(pc[u])
       /\ Drains(pc[t]) => ~Drains(pc[u])
  /\ \A t \in Threads : OwnsT(t) => word.readers = 0
  /\ word.locked <=> \E t \in Threads : LocksT(t)

(* The reader field: wakers come one at a time.                            *)
FieldInv ==
  /\ \A t \in Threads : pc[t] \in Unsettling =>
       word.readers = Cardinality(ReadLocks) + (Overf - count[t])
  /\ (\A t \in Threads : pc[t] \notin Unsettling) => word.readers = Cardinality(ReadLocks)
  /\ word.readers < 2 * Overf

(* writer_count counts the threads in compare_and_wait_as_writer.          *)
Counted == {"wait_w", "sleep_w", "woken_w", "failed_w"}
CountedWriters == {t \in Threads : pc[t] \in Counted}
WritersInv == writer_count = Cardinality(CountedWriters)

IInv == TypeInv /\ ThreadInv /\ OwnerInv /\ FieldInv /\ WritersInv
-----------------------------------------------------------------------------
(***************************************************************************)
(* What waiting adds.                                                      *)
(***************************************************************************)

(* A change of phase takes no request from reading to anything else.       *)
ReadStaysRead ==
  \A q, r \in Requests, p \in Phases : How[q][p] = "Read" /\ How[r][p] = "Write" =>
    \A o \in Unlocks[r] : How[q][o] = "Read"

Busy(v) == v.locked \/ has_readers(v) \/ ~has_no_waiters(v)

(* Only its waiter bits keep the lock from being taken.                    *)
Unclaimed(v) == ~has_no_waiters(v) /\ ~v.locked /\ has_no_readers(v)

(* Who is going to wake one writer, or to set WRITE_WAITER_BIT again; and  *)
(* who is going to wake the readers, or to set READ_WAITER_BIT again.      *)
WriterWakers == {"give_wake", "woken_w", "or_ww"}
ReaderWakers == {"wake_call", "conv_call", "wake_or", "conv_or"}

(* A thread prepares to wait only for a lock that was busy, and waits with *)
(* its waiter bit set.                                                     *)
WaitFits(l, v, r, q, w) ==
  /\ l \in {"set_ww", "set_rw"} => Busy(v)
  /\ l \in {"count_add", "wait_w"} => v.ww
  /\ l = "wait_r" => v.rw
  /\ l \in {"read_cas", "read_load"} /\ r # "clone" => How[q][w.phase] = "Read"

WaitersReady == \A t \in Threads : WaitFits(pc[t], cur[t], ret[t], req[t], word)

(* A waiter bit is left behind only by a thread that passes the lock on.   *)
HandedOver == Unclaimed(word) => \E t \in Threads : Passes(pc[t], cur[t])

(* Sleepers are announced by their bit, or are about to be woken.          *)
WritersAnnounced ==
  (\E t \in Threads : pc[t] = "sleep_w") => word.ww \/ \E t \in Threads : pc[t] \in WriterWakers
ReadersAnnounced ==
  (\E t \in Threads : pc[t] = "sleep_r") => word.rw \/ \E t \in Threads : pc[t] \in ReaderWakers

WaitInv == WaitersReady /\ HandedOver /\ WritersAnnounced /\ ReadersAnnounced
-----------------------------------------------------------------------------
(* Types that the proofs below keep using.                                 *)
LEMMA Facts ==
  ASSUME IInv
  PROVE  /\ TypeInv /\ word \in Word
         /\ word.readers \in Int /\ word.phase \in Phases
         /\ word.locked \in BOOLEAN /\ word.ww \in BOOLEAN /\ word.rw \in BOOLEAN
         /\ Overf \in Nat /\ Overf > 1 /\ MaxGuards \in Nat /\ MaxGuards >= 1
         /\ guard \in [Threads -> Guard] /\ count \in [Threads -> Nat]
         /\ \A t \in Threads :
              /\ Local(pc[t], cur[t], ret[t], req[t], guard[t], count[t], word)
              /\ guard[t] \in Guard /\ guard[t].kind \in {"none", "read", "write"}
              /\ guard[t].count \in 0..MaxGuards
              /\ count[t] \in Nat
              /\ cur[t] \in Word
              /\ ret[t] \in Returns
              /\ NeedsRequest(pc[t], ret[t]) => req[t] \in Requests
<1>1. TypeInv /\ word \in Word
  BY DEF IInv, TypeInv, TypeOK
<1>2. /\ word.readers \in Int /\ word.phase \in Phases
      /\ word.locked \in BOOLEAN /\ word.ww \in BOOLEAN /\ word.rw \in BOOLEAN
  BY <1>1 DEF Word
<1>3. guard \in [Threads -> Guard] /\ count \in [Threads -> Nat]
  BY DEF IInv, TypeInv, TypeOK
<1>4. ASSUME NEW t \in Threads
      PROVE  /\ Local(pc[t], cur[t], ret[t], req[t], guard[t], count[t], word)
             /\ guard[t] \in Guard /\ guard[t].kind \in {"none", "read", "write"}
             /\ guard[t].count \in 0..MaxGuards
             /\ count[t] \in Nat
             /\ cur[t] \in Word
             /\ ret[t] \in Returns
             /\ NeedsRequest(pc[t], ret[t]) => req[t] \in Requests
  <2>1. Local(pc[t], cur[t], ret[t], req[t], guard[t], count[t], word)
    BY DEF IInv, ThreadInv
  <2>2. /\ guard[t] \in Guard /\ guard[t].kind \in {"none", "read", "write"}
        /\ guard[t].count \in Nat /\ count[t] \in Nat
    BY <1>3 DEF Guard
  <2>3. guard[t].count \in 0..MaxGuards
    BY <2>1, <2>2, SyncAssumption DEF Local, GuardFits
  <2>4. QED
    BY <1>1, <2>1, <2>2, <2>3, TypeFacts DEF ThreadTyped
<1>5. QED
  BY <1>1, <1>2, <1>3, <1>4, SyncAssumption

(* The threads other than t are left alone.                                *)
Others(t) ==
  \A u \in Threads : u # t =>
    /\ pc'[u] = pc[u] /\ cur'[u] = cur[u] /\ ret'[u] = ret[u] /\ req'[u] = req[u]
    /\ guard'[u] = guard[u] /\ count'[u] = count[u]

LEMMA GotoEffect ==
  ASSUME TypeInv, NEW t \in Threads, NEW l, NEW v, NEW s, NEW r, Goto(t, l, v, s, r)
  PROVE  /\ pc'[t] = l
         /\ cur'[t] = IF l \in Forgetful THEN Blank ELSE v
         /\ ret'[t] = IF l \in {"idle", "held", "convert"} THEN "idle" ELSE r
         /\ req'[t] = IF l = "idle" THEN NoRequest ELSE req[t]
         /\ \A u \in Threads : u # t =>
              pc'[u] = pc[u] /\ cur'[u] = cur[u] /\ ret'[u] = ret[u] /\ req'[u] = req[u]
BY DEF Goto, TypeInv, TypeOK

LEMMA GuardEffect ==
  ASSUME IInv, NEW t \in Threads, NEW g, guard' = [guard EXCEPT ![t] = g]
  PROVE  guard'[t] = g /\ \A u \in Threads : u # t => guard'[u] = guard[u]
BY Facts

LEMMA CountEffect ==
  ASSUME IInv, NEW t \in Threads, NEW n, count' = [count EXCEPT ![t] = n]
  PROVE  count'[t] = n /\ \A u \in Threads : u # t => count'[u] = count[u]
BY Facts
-----------------------------------------------------------------------------
(* Counting the units of the reader field.                                 *)
LEMMA UnitsType ==
  ASSUME IInv, NEW t \in Threads
  PROVE  /\ Units(t) \in 0..MaxGuards
         /\ Wakes(pc[t]) => Units(t) = 1
         /\ guard[t].count <= Units(t)
         /\ pc[t] \in {"woken_r", "read_drop"} => Units(t) >= 1
         /\ guard[t].kind = "read" => Units(t) >= 1
<1>1. GuardFits(pc[t], ret[t], guard[t])
  BY Facts DEF Local
<1>2. guard[t].count \in 0..MaxGuards /\ MaxGuards \in Nat /\ MaxGuards >= 1
      /\ guard[t].kind \in {"none", "read", "write"}
  BY Facts
<1>3. /\ Units(t) \in 0..MaxGuards
      /\ guard[t].count <= Units(t)
      /\ pc[t] \in {"woken_r", "read_drop"} => Units(t) >= 1
      /\ guard[t].kind = "read" => Units(t) >= 1
  BY <1>1, <1>2 DEF Units, GuardFits, Converting
<1>4. Wakes(pc[t]) => Units(t) = 1
  BY <1>1, <1>2 DEF Units, GuardFits, Converting, Wakes, Unsettling, CloneCalls
<1>5. QED
  BY <1>3, <1>4

LEMMA ReadLocksFinite ==
  /\ IsFiniteSet(ReadLocks) /\ Cardinality(ReadLocks) \in Nat
  /\ IsFiniteSet(ReadLocks') /\ Cardinality(ReadLocks') \in Nat
<1>1. IsFiniteSet(1..MaxGuards)
  BY FS_Interval, SyncAssumption
<1>2. IsFiniteSet(Threads \X (1..MaxGuards))
  BY <1>1, FS_Product, SyncAssumption
<1>3. ReadLocks \in SUBSET (Threads \X (1..MaxGuards)) /\ ReadLocks' \in SUBSET (Threads \X (1..MaxGuards))
  BY DEF ReadLocks
<1>4. IsFiniteSet(ReadLocks) /\ IsFiniteSet(ReadLocks')
  BY <1>2, <1>3, FS_Subset
<1>5. QED
  BY <1>4, FS_CardinalityType

LEMMA UnitsSame ==
  ASSUME \A u \in Threads : Units(u)' = Units(u)
  PROVE  ReadLocks' = ReadLocks
BY DEF ReadLocks

LEMMA UnitsUp ==
  ASSUME NEW t \in Threads, Units(t) \in Nat, Units(t) < MaxGuards, Units(t)' = Units(t) + 1,
         \A u \in Threads : u # t => Units(u)' = Units(u)
  PROVE  Cardinality(ReadLocks') = Cardinality(ReadLocks) + 1
<1>1. ReadLocks' = ReadLocks \cup {<<t, Units(t) + 1>>}
  <2>1. ASSUME NEW x \in Threads \X (1..MaxGuards)
        PROVE  x[2] <= Units(x[1])' <=> (x[2] <= Units(x[1]) \/ x = <<t, Units(t) + 1>>)
    <3>1. CASE x[1] = t
      BY <3>1
    <3>2. CASE x[1] # t
      BY <3>2
    <3>3. QED
      BY <3>1, <3>2
  <2>2. <<t, Units(t) + 1>> \in Threads \X (1..MaxGuards)
    BY SyncAssumption
  <2>3. QED
    BY <2>1, <2>2 DEF ReadLocks
<1>2. <<t, Units(t) + 1>> \notin ReadLocks
  BY DEF ReadLocks
<1>3. QED
  BY <1>1, <1>2, ReadLocksFinite, FS_AddElement

LEMMA UnitsDown ==
  ASSUME NEW t \in Threads, Units(t) \in 1..MaxGuards, Units(t)' = Units(t) - 1,
         \A u \in Threads : u # t => Units(u)' = Units(u)
  PROVE  Cardinality(ReadLocks') = Cardinality(ReadLocks) - 1
<1>1. ReadLocks' = ReadLocks \ {<<t, Units(t)>>}
  <2>1. ASSUME NEW x \in Threads \X (1..MaxGuards)
        PROVE  x[2] <= Units(x[1])' <=> (x[2] <= Units(x[1]) /\ x # <<t, Units(t)>>)
    <3>1. CASE x[1] = t
      BY <3>1
    <3>2. CASE x[1] # t
      BY <3>2
    <3>3. QED
      BY <3>1, <3>2
  <2>2. QED
    BY <2>1 DEF ReadLocks
<1>2. <<t, Units(t)>> \in ReadLocks
  BY DEF ReadLocks
<1>3. QED
  BY <1>1, <1>2, ReadLocksFinite, FS_RemoveElement

(* A unit keeps the field above zero, the units of two threads above one.  *)
LEMMA UnitsBound ==
  ASSUME IInv
  PROVE  /\ word.readers >= Cardinality(ReadLocks)
         /\ word.readers >= 0
         /\ \A t \in Threads : Units(t) >= 1 => word.readers >= 1
         /\ word.readers = 1 =>
              \A t, u \in Threads : Units(t) >= 1 /\ (u # t \/ Units(u) >= 2) => Units(u) = 0
<1> DEFINE C == Cardinality(ReadLocks)
<1>1. C \in Nat /\ word.readers \in Int
  BY ReadLocksFinite, Facts
<1>2. word.readers >= C
  <2>1. CASE \A t \in Threads : pc[t] \notin Unsettling
    BY <1>1, <2>1 DEF IInv, FieldInv
  <2>2. ASSUME NEW t \in Threads, pc[t] \in Unsettling
        PROVE  word.readers >= C
    <3>1. word.readers = C + (Overf - count[t])
      BY <2>2 DEF IInv, FieldInv
    <3>2. count[t] \in Nat /\ count[t] <= Overf /\ Overf \in Nat
      BY <2>2, Facts DEF Local, CountFits
    <3>3. QED
      BY <1>1, <3>1, <3>2
  <2>3. QED
    BY <2>1, <2>2
<1>3. ASSUME NEW t \in Threads, Units(t) >= 1
      PROVE  <<t, 1>> \in ReadLocks
  BY <1>3, Facts, UnitsType DEF ReadLocks
<1>4. ASSUME NEW t \in Threads, Units(t) >= 1
      PROVE  C >= 1
  <2>1. ReadLocks # {}
    BY <1>3, <1>4
  <2>2. C # 0
    BY <2>1, ReadLocksFinite, FS_EmptySet
  <2>3. QED
    BY <1>1, <2>2
<1>5. ASSUME word.readers = 1, NEW t \in Threads, NEW u \in Threads, Units(t) >= 1,
             u # t \/ Units(u) >= 2, Units(u) # 0
      PROVE  FALSE
  <2>1. C = 1
    BY <1>1, <1>2, <1>4, <1>5
  <2>2. \E x : ReadLocks = {x}
    BY <2>1, ReadLocksFinite, FS_Singleton
  <2>3. <<t, 1>> \in ReadLocks
    BY <1>3, <1>5
  <2>4. Units(u) \in 0..MaxGuards
    BY UnitsType
  <2>5. CASE u # t
    <3>1. <<u, 1>> \in ReadLocks
      BY <1>3, <1>5, <2>4
    <3>2. QED
      BY <2>2, <2>3, <2>5, <3>1
  <2>6. CASE Units(u) >= 2
    <3>1. <<u, 1>> \in ReadLocks /\ <<u, 2>> \in ReadLocks
      BY <1>3, <2>4, <2>6, Facts DEF ReadLocks
    <3>2. QED
      BY <2>2, <3>1
  <2>7. QED
    BY <1>5, <2>5, <2>6
<1>6. QED
  BY <1>1, <1>2, <1>4, <1>5
-----------------------------------------------------------------------------
(* What the classes say of one another.                                    *)

(* With the field at zero nobody reads and nobody wakes.                   *)
LEMMA NoReaders ==
  ASSUME IInv, word.readers = 0
  PROVE  \A t \in Threads : /\ Units(t) = 0 /\ guard[t].count = 0 /\ guard[t].kind # "read"
                            /\ ~Wakes(pc[t])
                            /\ ret[t] # "clone"
<1> SUFFICES ASSUME NEW t \in Threads
             PROVE  /\ Units(t) = 0 /\ guard[t].count = 0 /\ guard[t].kind # "read"
                    /\ ~Wakes(pc[t]) /\ ret[t] # "clone"
  OBVIOUS
<1>1. Units(t) = 0
  BY UnitsBound, UnitsType
<1>2. guard[t].count = 0 /\ guard[t].kind # "read" /\ ~Wakes(pc[t])
  BY <1>1, UnitsType, Facts
<1>3. ret[t] # "clone"
  BY <1>2, Facts DEF Local, GuardFits
<1>4. QED
  BY <1>1, <1>2, <1>3

(* Who owns the lock is alone.                                             *)
LEMMA OwnerAlone ==
  ASSUME IInv, NEW t \in Threads, OwnsT(t)
  PROVE  /\ word.readers = 0
         /\ \A u \in Threads : u # t =>
              /\ ~OwnsT(u) /\ ~Wakes(pc[u]) /\ ~Drains(pc[u])
              /\ guard[u].kind = "none" /\ guard[u].count = 0 /\ Units(u) = 0
              /\ ret[u] # "clone"
<1>1. word.readers = 0
  BY DEF IInv, OwnerInv
<1>2. \A u \in Threads : u # t => ~OwnsT(u) /\ ~Wakes(pc[u]) /\ ~Drains(pc[u])
  BY DEF IInv, OwnerInv
<1>3. \A u \in Threads : guard[u].kind \in {"none", "read", "write"}
  BY Facts
<1>4. QED
  BY <1>1, <1>2, <1>3, NoReaders DEF OwnsT, Owns

(* A thread that passes the lock on is protected by a waiter bit.          *)
LEMMA PassesBits ==
  ASSUME IInv, NEW t \in Threads, Passes(pc[t], cur[t])
  PROVE  ~has_no_waiters(word) /\ OwnsT(t)
<1>1. BitsFit(pc[t], cur[t], word)
  BY Facts DEF Local
<1>2. QED
  BY <1>1 DEF Passes, BitsFit, OwnsT, Owns, has_no_waiters

(* Nobody owns, drains or wakes while the word is free.                    *)
LEMMA FreeWord ==
  ASSUME IInv, ~word.locked, has_no_readers(word), has_no_waiters(word)
  PROVE  \A t \in Threads : /\ ~OwnsT(t) /\ ~Wakes(pc[t]) /\ ~Drains(pc[t])
                            /\ guard[t].kind = "none" /\ guard[t].count = 0 /\ Units(t) = 0
<1> SUFFICES ASSUME NEW t \in Threads
             PROVE  /\ ~OwnsT(t) /\ ~Wakes(pc[t]) /\ ~Drains(pc[t])
                    /\ guard[t].kind = "none" /\ guard[t].count = 0 /\ Units(t) = 0
  OBVIOUS
<1>1. ~LocksT(t)
  BY DEF IInv, OwnerInv
<1>2. ~Passes(pc[t], cur[t])
  BY PassesBits
<1>3. ~OwnsT(t) /\ ~Drains(pc[t])
  BY <1>1, <1>2 DEF LocksT
<1>4. ~Wakes(pc[t]) /\ guard[t].count = 0 /\ guard[t].kind # "read" /\ Units(t) = 0
  BY NoReaders DEF has_no_readers
<1>5. guard[t].kind = "none"
  BY <1>3, <1>4, Facts DEF OwnsT, Owns
<1>6. QED
  BY <1>3, <1>4, <1>5

(* Nobody owns the lock while the field is above zero.                     *)
LEMMA ReadersOnly ==
  ASSUME IInv, has_readers(word)
  PROVE  \A t \in Threads : ~OwnsT(t) /\ guard[t].kind # "write"
BY DEF IInv, OwnerInv, has_readers, OwnsT, Owns

(* Only a thread that drains locks a word that is read.                    *)
LEMMA UnlockedWord ==
  ASSUME IInv, has_readers(word), ~word.locked
  PROVE  \A t \in Threads : ~OwnsT(t) /\ ~Drains(pc[t])
BY ReadersOnly DEF IInv, OwnerInv, LocksT
-----------------------------------------------------------------------------
(* A step of one thread: what it must show for the invariant to survive.   *)

(* It does not take away what the other threads go by.                     *)
Calm ==
  /\ word'.phase = word.phase
  /\ word.rw => word'.rw
  /\ word.ww => word'.ww
  /\ word.readers < Overf => word'.readers < Overf

LocalT(t) == Local(pc[t], cur[t], ret[t], req[t], guard[t], count[t], word)

LEMMA LocalStep ==
  ASSUME IInv, NEW t \in Threads, Others(t), LocalT(t)',
         \/ OwnsT(t)
         \/ Calm
         \/ Wakes(pc[t]) /\ word'.phase = word.phase
  PROVE  ThreadInv'
<1>1. SUFFICES ASSUME NEW u \in Threads, u # t
               PROVE  Local(pc[u], cur[u], ret[u], req[u], guard[u], count[u], word')
  BY DEF ThreadInv, Others, LocalT
<1>2. LocalT(u)
  BY Facts DEF LocalT
<1>3. CASE OwnsT(t)
  <2>1. /\ ~Owns(pc[u], guard[u]) /\ ~Wakes(pc[u]) /\ ~Drains(pc[u])
        /\ guard[u].kind = "none" /\ ret[u] # "clone"
    BY <1>1, <1>3, OwnerAlone DEF OwnsT
  <2>2. BitsFit(pc[u], cur[u], word')
    BY <2>1 DEF BitsFit, Owns, Wakes
  <2>3. PhaseFits(pc[u], ret[u], req[u], guard[u], word'.phase)
    BY <1>2, <2>1 DEF LocalT, Local, PhaseFits, GuardFits, Converting
  <2>4. QED
    BY <1>2, <2>2, <2>3 DEF LocalT, Local
<1>4. CASE Calm
  <2>1. BitsFit(pc[u], cur[u], word')
    BY <1>2, <1>4 DEF LocalT, Local, BitsFit, Calm
  <2>2. QED
    BY <1>2, <1>4, <2>1 DEF LocalT, Local, Calm
<1>5. CASE Wakes(pc[t]) /\ word'.phase = word.phase
  <2>1. ~Owns(pc[u], guard[u]) /\ ~Wakes(pc[u])
    BY <1>1, <1>5 DEF IInv, OwnerInv, OwnsT
  <2>2. BitsFit(pc[u], cur[u], word')
    BY <2>1 DEF BitsFit, Owns, Wakes
  <2>3. QED
    BY <1>2, <1>5, <2>2 DEF LocalT, Local
<1>6. QED
  BY <1>3, <1>4, <1>5

(* What a step of t that is no step of a hand-over does to the classes.    *)
LEMMA OwnerStep ==
  ASSUME IInv, NEW t \in Threads, Others(t), word' \in Word,
         OwnsT(t)' => \/ OwnsT(t)
                      \/ \A u \in Threads : u # t => ~OwnsT(u) /\ ~Wakes(pc[u]) /\ ~Drains(pc[u]),
         Wakes(pc'[t]) => Wakes(pc[t]) \/ OwnsT(t),
         Drains(pc'[t]) => \/ Drains(pc[t])
                           \/ \A u \in Threads : u # t => ~OwnsT(u) /\ ~Drains(pc[u]),
         OwnsT(t)' => word'.readers = 0,
         word'.readers = word.readers \/ \A u \in Threads : u # t => ~OwnsT(u),
         word'.locked <=> (LocksT(t)' \/ (word.locked /\ ~LocksT(t)))
  PROVE  OwnerInv'
<1>1. \A u \in Threads : u # t => /\ OwnsT(u)' = OwnsT(u) /\ LocksT(u)' = LocksT(u)
                                  /\ pc'[u] = pc[u]
  BY DEF Others, OwnsT, LocksT
<1>2. OwnerInv
  BY DEF IInv
<1>3. ASSUME NEW u \in Threads, NEW x \in Threads, u # x
      PROVE  /\ OwnsT(u)' => ~OwnsT(x)' /\ ~Wakes(pc'[x]) /\ ~Drains(pc'[x])
             /\ Wakes(pc'[u]) => ~Wakes(pc'[x])
             /\ Drains(pc'[u]) => ~Drains(pc'[x])
  <2>1. CASE u # t /\ x # t
    BY <1>1, <1>2, <1>3, <2>1 DEF OwnerInv
  <2>2. CASE u = t
    BY <1>1, <1>2, <1>3, <2>2 DEF OwnerInv
  <2>3. CASE x = t
    BY <1>1, <1>2, <1>3, <2>3 DEF OwnerInv
  <2>4. QED
    BY <2>1, <2>2, <2>3
<1>4. ASSUME NEW u \in Threads, OwnsT(u)' PROVE word'.readers = 0
  BY <1>1, <1>2, <1>4 DEF OwnerInv
<1>5. word'.locked <=> \E u \in Threads : LocksT(u)'
  <2>1. word.locked <=> \E u \in Threads : LocksT(u)
    BY <1>2 DEF OwnerInv
  <2>2. LocksT(t) => \A u \in Threads : u # t => ~LocksT(u)
    BY <1>2 DEF OwnerInv, LocksT
  <2>3. QED
    BY <1>1, <2>1, <2>2
<1>6. QED
  BY <1>3, <1>4, <1>5 DEF OwnerInv

(* A step in which t neither enters nor leaves wake_readers: the field     *)
(* follows its units.                                                      *)
LEMMA FieldStep ==
  ASSUME IInv, NEW t \in Threads, Others(t),
         pc[t] \notin Unsettling, pc'[t] \notin Unsettling,
         Units(t)' \in 0..MaxGuards,
         Units(t)' \in {Units(t) - 1, Units(t), Units(t) + 1},
         word'.readers = word.readers + (Units(t)' - Units(t)),
         word'.readers < 2 * Overf
  PROVE  FieldInv'
<1> DEFINE C == Cardinality(ReadLocks)
           D == Cardinality(ReadLocks')
<1>1. C \in Nat /\ D \in Nat /\ word.readers \in Int /\ MaxGuards \in Nat /\ Overf \in Nat
      /\ Units(t) \in 0..MaxGuards
  BY ReadLocksFinite, Facts, UnitsType
<1>2. \A u \in Threads : u # t => Units(u)' = Units(u)
  BY DEF Others, Units
<1>3. D = C + (Units(t)' - Units(t))
  <2>1. CASE Units(t)' = Units(t)
    <3>1. ReadLocks' = ReadLocks
      BY <1>2, <2>1, UnitsSame
    <3>2. QED
      BY <1>1, <2>1, <3>1
  <2>2. CASE Units(t)' = Units(t) + 1
    <3>1. Units(t) < MaxGuards /\ Units(t) \in Nat
      BY <1>1, <2>2
    <3>2. D = C + 1
      BY <1>2, <2>2, <3>1, UnitsUp
    <3>3. QED
      BY <1>1, <2>2, <3>2
  <2>3. CASE Units(t)' = Units(t) - 1
    <3>1. Units(t) \in 1..MaxGuards
      BY <1>1, <2>3
    <3>2. D = C - 1
      BY <1>2, <2>3, <3>1, UnitsDown
    <3>3. QED
      BY <1>1, <2>3, <3>2
  <2>4. QED
    BY <2>1, <2>2, <2>3
<1>4. FieldInv
  BY DEF IInv
<1>5. ASSUME NEW u \in Threads, pc'[u] \in Unsettling
      PROVE  word'.readers = D + (Overf - count'[u])
  <2>1. u # t /\ pc[u] \in Unsettling /\ count'[u] = count[u] /\ count[u] \in Nat
    BY <1>5, Facts DEF Others
  <2>2. word.readers = C + (Overf - count[u])
    BY <1>4, <2>1 DEF FieldInv
  <2>3. QED
    BY <1>1, <1>3, <2>1, <2>2
<1>6. ASSUME \A u \in Threads : pc'[u] \notin Unsettling
      PROVE  word'.readers = D
  <2>1. \A u \in Threads : pc[u] \notin Unsettling
    BY <1>6 DEF Others
  <2>2. word.readers = C
    BY <1>4, <2>1 DEF FieldInv
  <2>3. QED
    BY <1>1, <1>3, <2>2
<1>7. QED
  BY <1>5, <1>6 DEF FieldInv

LEMMA WritersStep ==
  ASSUME IInv, NEW t \in Threads, Others(t),
         pc[t] \in Counted <=> pc'[t] \in Counted, writer_count' = writer_count
  PROVE  WritersInv'
<1>1. CountedWriters' = CountedWriters
  BY DEF CountedWriters, Others
<1>2. QED
  BY <1>1 DEF IInv, WritersInv
-----------------------------------------------------------------------------
(* The steps of the abstract lock that the steps map to.                   *)
Mapped == Abstract!Next \/ UNCHANGED Abstract!vars

LEMMA MapStutter ==
  ASSUME word'.phase = word.phase,
         \A u \in Threads : /\ guard'[u].kind = "write" <=> guard[u].kind = "write"
                            /\ guard'[u].count = guard[u].count
  PROVE  Mapped
BY DEF Mapped, Abstract!vars

LEMMA MapAcquireWrite ==
  ASSUME NEW t \in Threads, word'.phase = word.phase,
         \A u \in Threads : guard[u].kind # "write" /\ guard[u].count = 0,
         guard'[t].kind = "write", guard'[t].count = 0,
         \A u \in Threads : u # t => guard'[u] = guard[u]
  PROVE  Mapped
<1>1. \A u \in Threads : guard'[u].count = 0 /\ (guard'[u].kind = "write" <=> u = t)
  OBVIOUS
<1>2. Abstract!AcquireWrite(t)
  BY <1>1 DEF Abstract!AcquireWrite, Abstract!NoReader
<1>3. QED
  BY <1>2 DEF Mapped, Abstract!Next

LEMMA MapAcquireRead ==
  ASSUME NEW t \in Threads, word'.phase = word.phase,
         \A u \in Threads : guard[u].kind # "write",
         guard[t].count \in Nat, guard[t].count < MaxGuards,
         guard'[t].kind # "write", guard'[t].count = guard[t].count + 1,
         \A u \in Threads : u # t => guard'[u] = guard[u]
  PROVE  Mapped
<1>1. \A u \in Threads : guard'[u].kind # "write"
  OBVIOUS
<1>2. [u \in Threads |-> guard'[u].count] =
        [[u \in Threads |-> guard[u].count] EXCEPT ![t] = @ + 1]
  OBVIOUS
<1>3. Abstract!AcquireRead(t)
  BY <1>1, <1>2 DEF Abstract!AcquireRead
<1>4. QED
  BY <1>3 DEF Mapped, Abstract!Next

LEMMA MapReleaseRead ==
  ASSUME NEW t \in Threads, word'.phase = word.phase,
         guard[t].kind # "write", guard'[t].kind # "write",
         guard[t].count \in Nat, guard[t].count > 0, guard'[t].count = guard[t].count - 1,
         \A u \in Threads : u # t => guard'[u] = guard[u]
  PROVE  Mapped
<1>1. \A u \in Threads : guard'[u].kind = "write" <=> guard[u].kind = "write"
  OBVIOUS
<1>2. [u \in Threads |-> guard'[u].count] =
        [[u \in Threads |-> guard[u].count] EXCEPT ![t] = @ - 1]
  OBVIOUS
<1>3. Abstract!ReleaseRead(t)
  BY <1>1, <1>2 DEF Abstract!ReleaseRead
<1>4. QED
  BY <1>3 DEF Mapped, Abstract!Next

LEMMA MapReleaseWrite ==
  ASSUME NEW t \in Threads, word'.phase \in Phases,
         guard[t].kind = "write", guard'[t].kind # "write", guard'[t].count = guard[t].count,
         \A u \in Threads : u # t => guard'[u] = guard[u]
  PROVE  Mapped
<1>0. PICK p \in Phases : p = word'.phase
  OBVIOUS
<1>1. \A u \in Threads : guard'[u].count = guard[u].count
  OBVIOUS
<1>2. \A u \in Threads : guard'[u].kind = "write" <=> (guard[u].kind = "write" /\ u # t)
  OBVIOUS
<1>3. Abstract!ReleaseWrite(t, p)
  <2>1. {u \in Threads : guard'[u].kind = "write"} = {u \in Threads : guard[u].kind = "write"} \ {t}
    BY <1>2
  <2>2. [u \in Threads |-> guard'[u].count] = [u \in Threads |-> guard[u].count]
    BY <1>1
  <2>3. QED
    BY <1>0, <2>1, <2>2 DEF Abstract!ReleaseWrite
<1>4. QED
  BY <1>3 DEF Mapped, Abstract!Next

LEMMA MapDowngrade ==
  ASSUME NEW t \in Threads, word'.phase \in Phases,
         guard[t].kind = "write", guard'[t].kind # "write", guard'[t].count = 1,
         \A u \in Threads : u # t => guard'[u] = guard[u]
  PROVE  Mapped
<1>0. PICK p \in Phases : p = word'.phase
  OBVIOUS
<1>1. \A u \in Threads : guard'[u].kind = "write" <=> (guard[u].kind = "write" /\ u # t)
  OBVIOUS
<1>2. [u \in Threads |-> guard'[u].count] =
        [[u \in Threads |-> guard[u].count] EXCEPT ![t] = 1]
  OBVIOUS
<1>3. Abstract!Downgrade(t, p)
  <2>1. {u \in Threads : guard'[u].kind = "write"} = {u \in Threads : guard[u].kind = "write"} \ {t}
    BY <1>1
  <2>2. QED
    BY <1>0, <1>2, <2>1 DEF Abstract!Downgrade
<1>4. QED
  BY <1>3 DEF Mapped, Abstract!Next
-----------------------------------------------------------------------------
(* Steps on the way to the lock, which change nothing but a waiter bit.    *)
Quiet == {"idle", "second_write", "try_write", "try_read", "read_cas", "read_load", "slow_load",
          "spin_load", "lock_cas", "lock_while_readers", "set_ww", "set_rw", "count_add",
          "wait_w", "sleep_w", "failed_w", "wait_r", "sleep_r"}

Touched ==
  /\ word' \in Word /\ word'.phase = word.phase
  /\ word'.readers = word.readers /\ word'.locked = word.locked
  /\ word.rw => word'.rw
  /\ word.ww => word'.ww

LEMMA QuietStep ==
  ASSUME IInv, TypeInv', NEW t \in Threads, Others(t), LocalT(t)', Touched, WritersInv',
         guard'[t] = guard[t], guard[t].kind # "write",
         pc[t] \in Quiet \cup {"held"}, pc'[t] \in Quiet
  PROVE  IInv' /\ Mapped
<1>1. /\ ~OwnsT(t) /\ ~Wakes(pc[t]) /\ ~Drains(pc[t]) /\ ~LocksT(t)
      /\ ~OwnsT(t)' /\ ~Wakes(pc'[t]) /\ ~Drains(pc'[t]) /\ ~LocksT(t)'
      /\ pc[t] \notin Unsettling /\ pc'[t] \notin Unsettling
  BY DEF OwnsT, Owns, Wakes, Drains, LocksT, Quiet, Unsettling
<1>2. Units(t)' = Units(t)
  BY DEF Units, Quiet
<1>3. ThreadInv'
  BY LocalStep DEF Calm, Touched
<1>4. OwnerInv'
  BY <1>1, OwnerStep DEF Touched
<1>5. FieldInv'
  <2>1. Units(t) \in 0..MaxGuards /\ MaxGuards \in Nat /\ word.readers \in Int /\ Overf \in Nat
    BY UnitsType, Facts
  <2>2. word.readers < 2 * Overf
    BY DEF IInv, FieldInv
  <2>3. QED
    BY <1>1, <1>2, <2>1, <2>2, FieldStep DEF Touched
<1>6. Mapped
  BY MapStutter DEF Touched, Others
<1>7. QED
  BY <1>3, <1>4, <1>5, <1>6 DEF IInv

(* A thread that calls owns nothing, or the guard that it clones.          *)
LEMMA Caller ==
  ASSUME IInv, NEW t \in Threads, pc[t] \in Quiet
  PROVE  /\ guard[t].kind # "write" /\ count[t] = 0
         /\ ret[t] = "clone" <=> guard[t].kind = "read"
         /\ ret[t] = "clone" => guard[t].count < MaxGuards
         /\ ret[t] # "clone" => guard[t].kind = "none" /\ guard[t].count = 0 /\ Units(t) = 0
         /\ Units(t) = guard[t].count
         /\ ~OwnsT(t) /\ ~Wakes(pc[t]) /\ ~Drains(pc[t]) /\ ~LocksT(t)
         /\ pc[t] \notin Unsettling
<1>1. GuardFits(pc[t], ret[t], guard[t]) /\ CountFits(pc[t], count[t])
      /\ guard[t].kind \in {"none", "read", "write"}
  BY Facts DEF Local
<1>2. guard[t].kind # "write" /\ count[t] = 0
  BY <1>1 DEF GuardFits, CountFits, Quiet, Unsettling
<1>3. /\ ret[t] = "clone" <=> guard[t].kind = "read"
      /\ ret[t] = "clone" => guard[t].count < MaxGuards
      /\ ret[t] # "clone" => guard[t].kind = "none" /\ guard[t].count = 0
  BY <1>1, <1>2 DEF GuardFits, Quiet, Converting
<1>4. Units(t) = guard[t].count
  BY DEF Units, Quiet
<1>5. /\ ~OwnsT(t) /\ ~Wakes(pc[t]) /\ ~Drains(pc[t]) /\ ~LocksT(t)
      /\ pc[t] \notin Unsettling
  BY <1>2 DEF OwnsT, Owns, Wakes, Drains, LocksT, Quiet, Unsettling
<1>6. QED
  BY <1>2, <1>3, <1>4, <1>5

LEMMA QuietGoto ==
  ASSUME IInv, TypeInv', NEW t \in Threads, NEW l \in Quiet, NEW v, NEW s, NEW r,
         Goto(t, l, v, s, r), pc[t] \in Quiet \cup {"held"},
         guard[t].kind # "write", UNCHANGED guard, Touched,
         count' = count \/ count' = [count EXCEPT ![t] = 0],
         r \in Returns \ {"dead"}, r = "clone" <=> guard[t].kind = "read",
         r = "clone" => l \in CloneCalls /\ guard[t].count < MaxGuards,
         l = "idle" \/ CasFits(l, v, r, req[t]),
         WritersInv'
  PROVE  IInv' /\ Mapped
<1>1. /\ pc'[t] = l
      /\ cur'[t] = IF l \in Forgetful THEN Blank ELSE v
      /\ ret'[t] = IF l \in {"idle", "held", "convert"} THEN "idle" ELSE r
      /\ req'[t] = IF l = "idle" THEN NoRequest ELSE req[t]
      /\ \A u \in Threads : u # t =>
           pc'[u] = pc[u] /\ cur'[u] = cur[u] /\ ret'[u] = ret[u] /\ req'[u] = req[u]
  BY GotoEffect, Facts
<1>2. LocalT(t)
  BY Facts DEF LocalT
<1>3. count[t] = 0 /\ count'[t] = 0
  BY <1>2, Facts DEF LocalT, Local, CountFits, Quiet, Unsettling
<1>4. Others(t)
  BY <1>1, Facts DEF Others
<1>5. GuardFits(pc[t], ret[t], guard[t])
  BY <1>2 DEF LocalT, Local
<1>6. GuardFits(pc'[t], ret'[t], guard'[t]) /\ RetFits(pc'[t], ret'[t])
  BY <1>1, <1>5, Facts DEF GuardFits, RetFits, Quiet, CloneCalls, Converting, Dropping
<1>7. CasFits(pc'[t], cur'[t], ret'[t], req'[t])
  <2>1. CASE l = "idle"
    BY <1>1, <2>1 DEF CasFits, Drains
  <2>2. CASE l # "idle" /\ l \notin Forgetful
    BY <1>1, <2>2 DEF CasFits, Quiet, Forgetful
  <2>3. CASE l # "idle" /\ l \in Forgetful
    BY <1>1, <2>3 DEF CasFits, Quiet, Forgetful, Drains
  <2>4. QED
    BY <2>1, <2>2, <2>3
<1>8. PhaseFits(pc'[t], ret'[t], req'[t], guard'[t], word'.phase)
  <2>1. CASE r = "clone"
    <3>1. pc[t] = "held" \/ ret[t] = "clone"
      BY <1>5, <2>1 DEF GuardFits, Quiet, Converting
    <3>2. PhaseFits(pc[t], ret[t], req[t], guard[t], word.phase)
      BY <1>2 DEF LocalT, Local
    <3>3. QED
      BY <1>1, <2>1, <3>1, <3>2 DEF PhaseFits, Touched, Quiet, Drains, CloneCalls, Converting
  <2>2. CASE r # "clone"
    BY <1>1, <2>2 DEF PhaseFits, Quiet, Drains, Converting
  <2>3. QED
    BY <2>1, <2>2
<1>9. BitsFit(pc'[t], cur'[t], word') /\ CountFits(pc'[t], count'[t])
  BY <1>1, <1>3 DEF BitsFit, CountFits, Quiet, Unsettling
<1>10. LocalT(t)'
  BY <1>6, <1>7, <1>8, <1>9 DEF LocalT, Local
<1>11. QED
  BY <1>1, <1>4, <1>10, QuietStep
-----------------------------------------------------------------------------
(* The tables of next locations choose only exchanges that may be made.    *)
LEMMA WaitingFits ==
  ASSUME NEW q \in Requests, NEW v \in Word, NEW r, r # "clone"
  PROVE  Waiting(q, v) \in Quiet /\ (Waiting(q, v) = "idle" \/ CasFits(Waiting(q, v), v, r, q))
<1>1. OnWait[q][v.phase] \in {"None", "Read", "Write"} /\ v.phase \in Phases
  BY SyncAssumption DEF Word, Natures
<1>2. CASE OnWait[q][v.phase] = "None"
  BY <1>2 DEF Waiting, Quiet
<1>3. CASE OnWait[q][v.phase] = "Read"
  BY <1>3 DEF Waiting, Quiet, CasFits, Drains
<1>4. CASE OnWait[q][v.phase] = "Write"
  <2>1. Waiting(q, v) \in {"count_add", "set_ww"}
    BY <1>4 DEF Waiting
  <2>2. QED
    BY <1>1, <1>4, <2>1 DEF Quiet, CasFits, Drains
<1>5. QED
  BY <1>1, <1>2, <1>3, <1>4

LEMMA SpinFits == \A v, r, q : CasFits("spin_load", v, r, q) /\ CasFits("slow_load", v, r, q)
BY DEF CasFits, Drains

LEMMA LoopTopFits ==
  ASSUME NEW q \in Requests, NEW v \in Word, NEW s, NEW r, r # "clone"
  PROVE  /\ LoopTop(q, v, s) \in Quiet
         /\ LoopTop(q, v, s) = "idle" \/ CasFits(LoopTop(q, v, s), v, r, q)
         /\ AfterRead(q, v, s) \in Quiet
         /\ AfterRead(q, v, s) = "idle" \/ CasFits(AfterRead(q, v, s), v, r, q)
<1>1. How[q][v.phase] \in {"None", "Read", "Write"}
  BY SyncAssumption DEF Word, Natures
<1>2. /\ AfterRead(q, v, s) \in Quiet
      /\ AfterRead(q, v, s) = "idle" \/ CasFits(AfterRead(q, v, s), v, r, q)
      /\ AfterWrite(q, v, s) \in Quiet
      /\ AfterWrite(q, v, s) = "idle" \/ CasFits(AfterWrite(q, v, s), v, r, q)
  BY WaitingFits, SpinFits DEF AfterRead, AfterWrite, Quiet
<1>3. CASE How[q][v.phase] = "None"
  BY <1>2, <1>3 DEF LoopTop, Quiet
<1>4. CASE How[q][v.phase] = "Read"
  <2>1. CASE is_read_lockable(v)
    BY <1>2, <1>4, <2>1 DEF LoopTop, Quiet, CasFits, Drains, is_read_lockable
  <2>2. CASE ~is_read_lockable(v)
    BY <1>2, <1>4, <2>2 DEF LoopTop
  <2>3. QED
    BY <2>1, <2>2
<1>5. CASE How[q][v.phase] = "Write"
  <2>1. CASE ~is_write_lockable(v)
    BY <1>2, <1>5, <2>1 DEF LoopTop
  <2>2. CASE is_write_lockable(v) /\ has_no_readers(v)
    BY <1>2, <1>5, <2>2 DEF LoopTop, Quiet, CasFits, Drains
  <2>3. CASE is_write_lockable(v) /\ ~has_no_readers(v)
    BY <1>2, <1>5, <2>3 DEF LoopTop, Quiet, CasFits, Drains, has_readers, has_no_readers
  <2>4. QED
    BY <2>1, <2>2, <2>3
<1>6. QED
  BY <1>1, <1>2, <1>3, <1>4, <1>5

LEMMA CloneFits ==
  ASSUME NEW v \in Word, NEW s, NEW q
  PROVE  /\ CloneTop(v, s) \in Quiet \cap CloneCalls /\ CasFits(CloneTop(v, s), v, "clone", q)
         /\ ClonePost(v, s) \in Quiet \cap CloneCalls /\ CasFits(ClonePost(v, s), v, "clone", q)
<1>1. /\ ClonePost(v, s) \in Quiet \cap CloneCalls /\ CasFits(ClonePost(v, s), v, "clone", q)
  BY DEF ClonePost, Quiet, CloneCalls, CasFits, Drains
<1>2. CASE has_readers_max(v)
  BY <1>1, <1>2 DEF CloneTop
<1>3. CASE ~has_readers_max(v)
  BY <1>1, <1>3 DEF CloneTop, Quiet, CloneCalls, CasFits, Drains
<1>4. QED
  BY <1>1, <1>2, <1>3

LEMMA TopFits ==
  ASSUME NEW t \in Threads, NEW v \in Word, NEW s, NEW r, r = "clone" <=> ret[t] = "clone",
         ret[t] # "clone" => req[t] \in Requests
  PROVE  /\ Top(t, v, s) \in Quiet
         /\ Top(t, v, s) = "idle" \/ CasFits(Top(t, v, s), v, r, req[t])
         /\ ret[t] = "clone" => Top(t, v, s) \in CloneCalls
<1>1. CASE ret[t] = "clone"
  BY <1>1, CloneFits DEF Top
<1>2. CASE ret[t] # "clone"
  BY <1>2, LoopTopFits DEF Top
<1>3. QED
  BY <1>1, <1>2

LEMMA SecondFits ==
  ASSUME NEW q \in Requests, NEW v \in Word
  PROVE  /\ SecondTry(q, v) \in {"idle", "try_write", "try_read"}
         /\ SecondAttempt(q, v) \in {"idle", "second_write", "read_cas", "slow_load"}
         /\ SecondTry(q, v) = "idle" \/ \A r : r # "clone" => CasFits(SecondTry(q, v), v, r, q)
         /\ SecondAttempt(q, v) = "idle"
              \/ \A r : r # "clone" => CasFits(SecondAttempt(q, v), v, r, q)
<1>1. How[q][v.phase] \in {"None", "Read", "Write"}
  BY SyncAssumption DEF Word, Natures
<1>2. CASE How[q][v.phase] = "None"
  BY <1>2 DEF SecondTry, SecondAttempt
<1>3. CASE How[q][v.phase] = "Read"
  BY <1>3 DEF SecondTry, SecondAttempt, CasFits, Drains, is_read_lockable
<1>4. CASE How[q][v.phase] = "Write"
  BY <1>4 DEF SecondTry, SecondAttempt, CasFits, Drains
<1>5. QED
  BY <1>1, <1>2, <1>3, <1>4

(* Nobody owns a word that may be read-locked.                             *)
LEMMA ReadLockable ==
  ASSUME IInv, is_read_lockable(word)
  PROVE  \A u \in Threads : ~OwnsT(u)
<1>1. CASE has_readers(word)
  BY <1>1, ReadersOnly
<1>2. CASE ~has_readers(word)
  BY <1>2, FreeWord DEF is_read_lockable, has_readers, has_no_readers
<1>3. QED
  BY <1>1, <1>2

(* A thread is counted as a waiting writer only from CountAdd on.          *)
LEMMA TopNotCounted ==
  ASSUME NEW t \in Threads, NEW v \in Word, NEW s, ret[t] # "clone" => req[t] \in Requests
  PROVE  /\ Top(t, v, s) \notin Counted
         /\ ret[t] # "clone" => AfterRead(req[t], v, s) \notin Counted
         /\ ret[t] # "clone" => Waiting(req[t], v) \notin Counted
<1>1. CASE ret[t] = "clone"
  BY <1>1 DEF Top, CloneTop, ClonePost, Counted
<1>2. CASE ret[t] # "clone"
  <2>1. Waiting(req[t], v) \notin Counted
    BY <1>2, WaitingType DEF Counted
  <2>2. AfterRead(req[t], v, s) \notin Counted /\ AfterWrite(req[t], v, s) \notin Counted
    BY <2>1 DEF AfterRead, AfterWrite, Counted
  <2>3. How[req[t]][v.phase] \in {"None", "Read", "Write"}
    BY <1>2, SyncAssumption DEF Word, Natures
  <2>4. QED
    BY <1>2, <2>1, <2>2, <2>3 DEF Top, LoopTop, Counted
<1>3. QED
  BY <1>1, <1>2

(* has_readers_max keeps the field within READER_OVERF | READER_BITS, and  *)
(* below READER_OVERF when it was.                                         *)
LEMMA RoomForOne ==
  ASSUME NEW n \in Nat, Overf \in Nat, Overf > 1, n < 2 * Overf, n % Overf # Overf - 1
  PROVE  n + 1 < 2 * Overf /\ (n < Overf => n + 1 < Overf)
<1>1. n < Overf => n % Overf = n
  OBVIOUS
<1>2. n >= Overf => n % Overf = n - Overf
  OBVIOUS
<1>3. QED
  BY <1>1, <1>2
-----------------------------------------------------------------------------
(* A thread is granted the write lock of a lock that nobody uses.          *)
LEMMA GrantWrite ==
  ASSUME IInv, TypeInv', NEW t \in Threads, Others(t), pc[t] \in Quiet \ Counted,
         ~word.locked, word.readers = 0,
         \A u \in Threads : /\ ~OwnsT(u) /\ ~Wakes(pc[u]) /\ ~Drains(pc[u])
                            /\ guard[u].kind = "none" /\ guard[u].count = 0,
         word' = [word EXCEPT !.locked = TRUE],
         pc'[t] = "held", ret'[t] = "idle", guard'[t] = Lock(word), count'[t] = count[t],
         req'[t] = NoRequest \/ How[req'[t]][word.phase] = "Write",
         writer_count' = writer_count
  PROVE  IInv' /\ Mapped
<1>1. /\ word' \in Word /\ word'.locked /\ word'.readers = word.readers
      /\ word'.phase = word.phase /\ word'.rw = word.rw /\ word'.ww = word.ww
  <2>1. word \in Word
    BY Facts
  <2>2. word' \in Word
    BY <2>1, WordType
  <2>3. QED
    BY <2>1, <2>2 DEF Word
<1>2. /\ guard'[t].kind = "write" /\ guard'[t].count = 0
      /\ guard'[t].init = word.phase /\ guard'[t].on_unlock = word.phase
  BY DEF Lock
<1>3. count[t] = 0 /\ ~LocksT(t) /\ Units(t) = 0 /\ pc[t] \notin Unsettling
  BY Caller DEF Quiet
<1>4. OwnsT(t)' /\ LocksT(t)' /\ pc'[t] \notin Unsettling /\ ~Wakes(pc'[t]) /\ ~Drains(pc'[t])
  BY <1>2 DEF OwnsT, Owns, LocksT, Passes, Wakes, Drains, Unsettling
<1>5. LocalT(t)'
  <2>1. GuardFits(pc'[t], ret'[t], guard'[t]) /\ RetFits(pc'[t], ret'[t])
    BY <1>2 DEF GuardFits, RetFits, Converting, Dropping
  <2>2. CasFits(pc'[t], cur'[t], ret'[t], req'[t])
    BY DEF CasFits, Drains
  <2>3. PhaseFits(pc'[t], ret'[t], req'[t], guard'[t], word'.phase)
    BY <1>1, <1>2 DEF PhaseFits, Drains, Converting
  <2>4. BitsFit(pc'[t], cur'[t], word') /\ CountFits(pc'[t], count'[t])
    BY <1>3 DEF BitsFit, CountFits, Unsettling
  <2>5. QED
    BY <2>1, <2>2, <2>3, <2>4 DEF LocalT, Local
<1>6. ThreadInv'
  BY <1>1, <1>5, LocalStep DEF Calm
<1>7. OwnerInv'
  BY <1>1, <1>3, <1>4, OwnerStep
<1>8. FieldInv'
  <2>1. Units(t)' = 0 /\ MaxGuards \in Nat /\ Overf \in Nat /\ Overf > 1
    BY <1>2, Facts DEF Units
  <2>2. QED
    BY <1>1, <1>3, <1>4, <2>1, FieldStep
<1>9. WritersInv'
  BY WritersStep DEF Counted
<1>10. Mapped
  BY <1>1, <1>2, MapAcquireWrite DEF Others
<1>11. QED
  BY <1>6, <1>7, <1>8, <1>9, <1>10 DEF IInv

(* A thread adds itself to the readers.                                    *)
LEMMA GrantRead ==
  ASSUME IInv, TypeInv', NEW t \in Threads, Others(t), pc[t] \in Quiet \ Counted,
         ~has_readers_max(word),
         \A u \in Threads : ~OwnsT(u),
         word'.readers = word.readers + 1, word'.phase = word.phase, word'.locked = word.locked,
         word'.rw = word.rw, word'.ww = word.ww,
         pc'[t] = "held", ret'[t] = "idle", count'[t] = count[t],
         guard'[t].kind = "read", guard'[t].count = guard[t].count + 1,
         guard[t].count < MaxGuards,
         guard'[t].init = word.phase,
         req'[t] = NoRequest \/ How[req'[t]][word.phase] = "Read"
           \/ word.phase \in Converts[req'[t]],
         writer_count' = writer_count
  PROVE  IInv' /\ Mapped
<1>1. word' \in Word /\ word.readers \in Nat /\ word.readers < 2 * Overf
      /\ Overf \in Nat /\ Overf > 1 /\ MaxGuards \in Nat
  BY Facts, UnitsBound DEF IInv, FieldInv, TypeInv, TypeOK
<1>2. word.readers + 1 < 2 * Overf /\ (word.readers < Overf => word.readers + 1 < Overf)
  BY <1>1, RoomForOne DEF has_readers_max
<1>3. /\ count[t] = 0 /\ ~LocksT(t) /\ Units(t) = guard[t].count /\ pc[t] \notin Unsettling
      /\ guard[t].count \in 0..MaxGuards
  BY Caller, Facts DEF Quiet
<1>4. ~OwnsT(t)' /\ ~LocksT(t)' /\ pc'[t] \notin Unsettling /\ ~Wakes(pc'[t]) /\ ~Drains(pc'[t])
  BY DEF OwnsT, Owns, LocksT, Passes, Wakes, Drains, Unsettling
<1>5. LocalT(t)'
  <2>1. GuardFits(pc'[t], ret'[t], guard'[t]) /\ RetFits(pc'[t], ret'[t])
    BY <1>1, <1>3 DEF GuardFits, RetFits, Converting, Dropping
  <2>2. CasFits(pc'[t], cur'[t], ret'[t], req'[t])
    BY DEF CasFits, Drains
  <2>3. PhaseFits(pc'[t], ret'[t], req'[t], guard'[t], word'.phase)
    BY DEF PhaseFits, Drains, Converting
  <2>4. BitsFit(pc'[t], cur'[t], word') /\ CountFits(pc'[t], count'[t])
    BY <1>3 DEF BitsFit, CountFits, Unsettling
  <2>5. QED
    BY <2>1, <2>2, <2>3, <2>4 DEF LocalT, Local
<1>6. ThreadInv'
  BY <1>2, <1>5, LocalStep DEF Calm
<1>7. OwnerInv'
  BY <1>1, <1>3, <1>4, OwnerStep
<1>8. FieldInv'
  <2>1. Units(t)' = Units(t) + 1 /\ Units(t)' \in 0..MaxGuards
    BY <1>1, <1>3 DEF Units
  <2>2. QED
    BY <1>1, <1>2, <1>3, <1>4, <2>1, FieldStep
<1>9. WritersInv'
  BY WritersStep DEF Counted
<1>10. Mapped
  <2>1. \A u \in Threads : guard[u].kind # "write"
    BY DEF OwnsT, Owns
  <2>2. QED
    BY <1>3, <2>1, MapAcquireRead DEF Others
<1>11. QED
  BY <1>6, <1>7, <1>8, <1>9, <1>10 DEF IInv
-----------------------------------------------------------------------------
(* One lemma per action: it preserves the invariant and is a step of the   *)
(* abstract lock, or a stutter.                                            *)
LEMMA QuietMove ==
  ASSUME IInv, TypeInv', NEW t \in Threads, NEW l \in Quiet, NEW v, NEW s, NEW r,
         Goto(t, l, v, s, r), pc[t] \in Quiet, UNCHANGED <<guard, writer_count>>, Touched,
         count' = count \/ count' = [count EXCEPT ![t] = 0],
         r \in Returns \ {"dead"}, r = "clone" <=> ret[t] = "clone",
         r = "clone" => l \in CloneCalls,
         l = "idle" \/ CasFits(l, v, r, req[t]),
         pc[t] \in Counted <=> l \in Counted
  PROVE  IInv' /\ Mapped
<1>1. /\ guard[t].kind # "write" /\ count[t] = 0
      /\ ret[t] = "clone" <=> guard[t].kind = "read"
      /\ ret[t] = "clone" => guard[t].count < MaxGuards
  BY Caller
<1>2. /\ pc'[t] = l
      /\ \A u \in Threads : u # t =>
           pc'[u] = pc[u] /\ cur'[u] = cur[u] /\ ret'[u] = ret[u] /\ req'[u] = req[u]
  BY GotoEffect, Facts
<1>3. Others(t)
  BY <1>2, Facts DEF Others
<1>4. WritersInv'
  BY <1>2, <1>3, WritersStep
<1>5. QED
  BY <1>1, <1>4, QuietGoto

LEMMA SameWord ==
  ASSUME IInv, word' = word
  PROVE  Touched
BY Facts DEF Touched

(* A call other than clone serves a request.                               *)
LEMMA CallFacts ==
  ASSUME IInv, NEW t \in Threads, pc[t] \in Calling
  PROVE  /\ CasFits(pc[t], cur[t], ret[t], req[t])
         /\ ret[t] # "clone" => req[t] \in Requests
         /\ ret[t] = "clone" => pc[t] \in CloneCalls
         /\ ret[t] \in Returns \ {"dead"}
<1>1. /\ CasFits(pc[t], cur[t], ret[t], req[t])
      /\ GuardFits(pc[t], ret[t], guard[t]) /\ RetFits(pc[t], ret[t])
      /\ NeedsRequest(pc[t], ret[t]) => req[t] \in Requests
      /\ ret[t] \in Returns
  BY Facts DEF Local
<1>2. QED
  BY <1>1 DEF GuardFits, RetFits, NeedsRequest

LEMMA AcquiredEffect ==
  ASSUME IInv, NEW t \in Threads, NEW g, Acquired(t, g),
         count' = count \/ count' = [count EXCEPT ![t] = 0]
  PROVE  /\ pc'[t] = "held" /\ ret'[t] = "idle" /\ req'[t] = req[t] /\ guard'[t] = g
         /\ Others(t)
<1>1. /\ pc'[t] = "held" /\ ret'[t] = "idle" /\ req'[t] = req[t]
      /\ \A u \in Threads : u # t =>
           pc'[u] = pc[u] /\ cur'[u] = cur[u] /\ ret'[u] = ret[u] /\ req'[u] = req[u]
  BY GotoEffect, Facts DEF Acquired
<1>2. guard'[t] = g /\ \A u \in Threads : u # t => guard'[u] = guard[u]
  BY GuardEffect DEF Acquired
<1>3. \A u \in Threads : u # t => count'[u] = count[u]
  BY CountEffect
<1>4. QED
  BY <1>1, <1>2, <1>3 DEF Others

LEMMA WriteCasInv ==
  ASSUME IInv, NEW t \in Threads, WriteCas(t)
  PROVE  IInv' /\ Mapped
<1>1. TypeInv'
  BY WriteCasType, Facts
<1>2. /\ pc[t] \in {"second_write", "try_write", "lock_cas"} /\ pc[t] \in Calling
      /\ pc[t] \in Quiet /\ pc[t] \notin Counted /\ pc[t] \notin CloneCalls
  BY DEF WriteCas, Calling, Quiet, Counted, CloneCalls
<1>3. /\ CasFits(pc[t], cur[t], ret[t], req[t])
      /\ ret[t] # "clone" /\ req[t] \in Requests
  BY <1>2, CallFacts
<1>4. CASE word = cur[t] /\ word' = [word EXCEPT !.locked = TRUE] /\ Acquired(t, Lock(word))
  <2>1. is_write_lockable(word) /\ has_no_readers(word) /\ How[req[t]][word.phase] = "Write"
    BY <1>2, <1>3, <1>4 DEF CasFits
  <2>2. ~word.locked /\ has_no_waiters(word) /\ word.readers = 0
    BY <2>1 DEF is_write_lockable, has_readers, has_no_readers
  <2>3. \A u \in Threads : /\ ~OwnsT(u) /\ ~Wakes(pc[u]) /\ ~Drains(pc[u])
                           /\ guard[u].kind = "none" /\ guard[u].count = 0
    BY <2>1, <2>2, FreeWord
  <2>4. count' = count /\ writer_count' = writer_count
    BY DEF WriteCas, futex
  <2>5. /\ pc'[t] = "held" /\ ret'[t] = "idle" /\ req'[t] = req[t] /\ guard'[t] = Lock(word)
        /\ Others(t)
    BY <1>4, <2>4, AcquiredEffect
  <2>6. QED
    BY <1>1, <1>2, <1>4, <2>1, <2>2, <2>3, <2>4, <2>5, GrantWrite
<1>5. CASE /\ CASE pc[t] = "second_write" -> Goto(t, "slow_load", Blank, 0, "slow")
              [] pc[t] = "try_write" -> Goto(t, "idle", Blank, 0, "idle")
              [] pc[t] = "lock_cas" -> Goto(t, Top(t, word, spin[t]), word, spin[t], "slow")
           /\ UNCHANGED <<word, guard>>
  <2>1. Touched /\ UNCHANGED <<guard, writer_count, count>>
    BY <1>5, SameWord DEF WriteCas, futex
  <2>2. CASE Goto(t, "slow_load", Blank, 0, "slow")
    BY <1>1, <1>2, <1>3, <2>1, <2>2, SpinFits, QuietMove DEF Quiet, Returns, Counted
  <2>3. CASE Goto(t, "idle", Blank, 0, "idle")
    BY <1>1, <1>2, <1>3, <2>1, <2>3, QuietMove DEF Quiet, Returns, Counted
  <2>4. CASE Goto(t, Top(t, word, spin[t]), word, spin[t], "slow")
    <3>1. /\ Top(t, word, spin[t]) \in Quiet
          /\ Top(t, word, spin[t]) = "idle" \/ CasFits(Top(t, word, spin[t]), word, "slow", req[t])
      BY <1>3, TopFits, Facts
    <3>2. Top(t, word, spin[t]) \notin Counted
      BY <1>3, TopNotCounted, Facts
    <3>3. QED
      BY <1>1, <1>2, <1>3, <2>1, <2>4, <3>1, <3>2, QuietMove DEF Returns
  <2>5. QED
    BY <1>2, <1>5, <2>2, <2>3, <2>4
<1>6. QED
  BY <1>4, <1>5 DEF WriteCas

LEMMA TryReadInv ==
  ASSUME IInv, NEW t \in Threads, TryRead(t)
  PROVE  IInv' /\ Mapped
<1>1. TypeInv'
  BY TryReadType, Facts
<1>2. /\ pc[t] = "try_read" /\ pc[t] \in Calling
      /\ pc[t] \in Quiet /\ pc[t] \notin Counted /\ pc[t] \notin CloneCalls
  BY DEF TryRead, Calling, Quiet, Counted, CloneCalls
<1>3. /\ CasFits(pc[t], cur[t], ret[t], req[t])
      /\ ret[t] # "clone" /\ req[t] \in Requests
  BY <1>2, CallFacts
<1>4. CASE word = cur[t] /\ word' = [word EXCEPT !.readers = @ + 1]
           /\ Acquired(t, ReadLock(word.phase))
  <2>1. is_read_lockable(word) /\ How[req[t]][word.phase] = "Read"
    BY <1>2, <1>3, <1>4 DEF CasFits
  <2>2. \A u \in Threads : ~OwnsT(u)
    BY <2>1, ReadLockable
  <2>3. count' = count /\ writer_count' = writer_count
    BY DEF TryRead, futex
  <2>4. /\ pc'[t] = "held" /\ ret'[t] = "idle" /\ req'[t] = req[t]
        /\ guard'[t] = ReadLock(word.phase) /\ Others(t)
    BY <1>4, <2>3, AcquiredEffect
  <2>5. /\ word'.readers = word.readers + 1 /\ word'.phase = word.phase
        /\ word'.locked = word.locked /\ word'.rw = word.rw /\ word'.ww = word.ww
    BY <1>4, Facts DEF Word
  <2>6. /\ guard'[t].kind = "read" /\ guard'[t].count = 1 /\ guard'[t].init = word.phase
        /\ guard[t].count = 0 /\ MaxGuards >= 1 /\ MaxGuards \in Nat
    BY <1>2, <1>3, <2>4, Caller, Facts DEF ReadLock
  <2>7. QED
    BY <1>1, <1>2, <2>1, <2>2, <2>3, <2>4, <2>5, <2>6, GrantRead DEF is_read_lockable
<1>5. CASE /\ LET again == How[req[t]][word.phase] = "Read" /\ is_read_lockable(word)
              IN Goto(t, IF again THEN "try_read" ELSE "idle", word, 0, "idle")
           /\ UNCHANGED <<word, guard>>
  <2>1. Touched /\ UNCHANGED <<guard, writer_count, count>>
    BY <1>5, SameWord DEF TryRead, futex
  <2>2. CASE Goto(t, "idle", word, 0, "idle")
    BY <1>1, <1>2, <1>3, <2>1, <2>2, QuietMove DEF Quiet, Returns, Counted
  <2>3. CASE /\ How[req[t]][word.phase] = "Read" /\ is_read_lockable(word)
             /\ Goto(t, "try_read", word, 0, "idle")
    <3>1. CasFits("try_read", word, "idle", req[t])
      BY <2>3 DEF CasFits, Drains
    <3>2. QED
      BY <1>1, <1>2, <1>3, <2>1, <2>3, <3>1, QuietMove DEF Quiet, Returns, Counted
  <2>4. QED
    BY <1>5, <2>2, <2>3
<1>6. QED
  BY <1>4, <1>5 DEF TryRead

LEMMA ReadCasInv ==
  ASSUME IInv, NEW t \in Threads, ReadCas(t)
  PROVE  IInv' /\ Mapped
<1>1. TypeInv'
  BY ReadCasType, Facts
<1>2. pc[t] = "read_cas" /\ pc[t] \in Calling /\ pc[t] \in Quiet /\ pc[t] \notin Counted
  BY DEF ReadCas, Calling, Quiet, Counted
<1>3. /\ CasFits(pc[t], cur[t], ret[t], req[t])
      /\ ret[t] # "clone" => req[t] \in Requests
      /\ ret[t] \in Returns \ {"dead"}
  BY <1>2, CallFacts
<1>4. count' = count /\ writer_count' = writer_count
  BY DEF ReadCas, futex
<1>5. CASE word = cur[t] /\ word' = [word EXCEPT !.readers = @ + 1]
           /\ Acquired(t, IF ret[t] = "clone"
                            THEN [guard[t] EXCEPT !.count = @ + 1, !.init = word.phase]
                            ELSE ReadLock(word.phase))
  <2>1. /\ word'.readers = word.readers + 1 /\ word'.phase = word.phase
        /\ word'.locked = word.locked /\ word'.rw = word.rw /\ word'.ww = word.ww
    BY <1>5, Facts DEF Word
  <2>2. ~has_readers_max(word)
    BY <1>2, <1>3, <1>5 DEF CasFits
  <2>3. /\ pc'[t] = "held" /\ ret'[t] = "idle" /\ req'[t] = req[t] /\ Others(t)
        /\ guard'[t] = IF ret[t] = "clone"
                            THEN [guard[t] EXCEPT !.count = @ + 1, !.init = word.phase]
                            ELSE ReadLock(word.phase)
    BY <1>4, <1>5, AcquiredEffect
  <2>4. CASE ret[t] # "clone"
    <3>1. is_read_lockable(word) /\ How[req[t]][word.phase] = "Read"
      BY <1>2, <1>3, <1>5, <2>4 DEF CasFits
    <3>2. \A u \in Threads : ~OwnsT(u)
      BY <3>1, ReadLockable
    <3>3. /\ guard'[t].kind = "read" /\ guard'[t].count = 1 /\ guard'[t].init = word.phase
          /\ guard[t].count = 0 /\ MaxGuards >= 1 /\ MaxGuards \in Nat
      BY <1>2, <2>3, <2>4, Caller, Facts DEF ReadLock
    <3>4. /\ pc'[t] = "held" /\ ret'[t] = "idle" /\ req'[t] = req[t] /\ Others(t)
          /\ guard'[t].count = guard[t].count + 1 /\ guard[t].count < MaxGuards
          /\ count'[t] = count[t]
      BY <1>4, <2>3, <3>3
    <3>5. QED
      BY <1>1, <1>2, <1>4, <2>1, <2>2, <3>1, <3>2, <3>3, <3>4, GrantRead
  <2>5. CASE ret[t] = "clone"
    <3>1. guard[t].kind = "read" /\ guard[t].count < MaxGuards /\ guard[t].count \in 0..MaxGuards
          /\ guard[t] \in Guard
      BY <1>2, <2>5, Caller, Facts
    <3>2. has_readers(word)
      BY <3>1, UnitsType, UnitsBound, Facts DEF has_readers
    <3>3. \A u \in Threads : ~OwnsT(u)
      BY <3>2, ReadersOnly
    <3>4. /\ guard'[t].kind = "read" /\ guard'[t].count = guard[t].count + 1
          /\ guard'[t].init = word.phase
      BY <2>3, <2>5, <3>1 DEF Guard
    <3>5. req[t] = NoRequest \/ How[req[t]][word.phase] = "Read" \/ word.phase \in Converts[req[t]]
      BY <2>5, <3>1, Facts DEF Local, PhaseFits
    <3>6. QED
      BY <1>1, <1>2, <1>4, <2>1, <2>2, <2>3, <3>1, <3>3, <3>4, <3>5, GrantRead
  <2>6. QED
    BY <2>4, <2>5
<1>6. CASE Goto(t, "read_load", Blank, spin[t], ret[t]) /\ UNCHANGED <<word, guard>>
  <2>1. Touched
    BY <1>6, SameWord
  <2>2. CasFits("read_load", Blank, ret[t], req[t])
    BY DEF CasFits, Drains
  <2>3. QED
    BY <1>1, <1>2, <1>3, <1>4, <1>6, <2>1, <2>2, QuietMove DEF Quiet, Counted, CloneCalls
<1>7. QED
  BY <1>5, <1>6 DEF ReadCas

LEMMA ReadLoadInv ==
  ASSUME IInv, NEW t \in Threads, ReadLoad(t)
  PROVE  IInv' /\ Mapped
<1> DEFINE again == IF ret[t] = "clone" THEN ~has_readers_max(word)
                    ELSE How[req[t]][word.phase] = "Read" /\ is_read_lockable(word)
<1>1. TypeInv'
  BY ReadLoadType, Facts
<1>2. pc[t] = "read_load" /\ pc[t] \in Calling /\ pc[t] \in Quiet /\ pc[t] \notin Counted
  BY DEF ReadLoad, Calling, Quiet, Counted
<1>3. /\ ret[t] # "clone" => req[t] \in Requests
      /\ ret[t] \in Returns \ {"dead"}
  BY <1>2, CallFacts
<1>4. /\ Touched /\ UNCHANGED <<guard, writer_count>> /\ count' = count
      /\ word \in Word
  BY SameWord, Facts DEF ReadLoad, futex
<1>5. CASE again
  <2>1. Goto(t, "read_cas", word, spin[t], ret[t])
    BY <1>5 DEF ReadLoad
  <2>2. CasFits("read_cas", word, ret[t], req[t])
    BY <1>5 DEF CasFits, Drains, is_read_lockable
  <2>3. QED
    BY <1>1, <1>2, <1>3, <1>4, <2>1, <2>2, QuietMove DEF Quiet, Counted, CloneCalls
<1>6. CASE ~again /\ ret[t] = "fast"
  <2>1. Goto(t, "slow_load", Blank, 0, "slow")
    BY <1>6 DEF ReadLoad
  <2>2. QED
    BY <1>1, <1>2, <1>3, <1>4, <1>6, <2>1, SpinFits, QuietMove DEF Quiet, Counted, Returns
<1>7. CASE ~again /\ ret[t] = "clone"
  <2>1. Goto(t, ClonePost(word, spin[t]), word, spin[t], "clone")
    BY <1>7 DEF ReadLoad
  <2>2. /\ ClonePost(word, spin[t]) \in Quiet \cap CloneCalls
        /\ CasFits(ClonePost(word, spin[t]), word, "clone", req[t])
    BY <1>4, CloneFits
  <2>3. ClonePost(word, spin[t]) \notin Counted
    BY DEF ClonePost, Counted
  <2>4. QED
    BY <1>1, <1>2, <1>3, <1>4, <1>7, <2>1, <2>2, <2>3, QuietMove DEF Returns
<1>8. CASE ~again /\ ret[t] \notin {"fast", "clone"}
  <2>1. Goto(t, AfterRead(req[t], word, spin[t]), word, spin[t], "slow")
    BY <1>8 DEF ReadLoad
  <2>2. /\ AfterRead(req[t], word, spin[t]) \in Quiet
        /\ \/ AfterRead(req[t], word, spin[t]) = "idle"
           \/ CasFits(AfterRead(req[t], word, spin[t]), word, "slow", req[t])
    BY <1>3, <1>4, <1>8, LoopTopFits
  <2>3. AfterRead(req[t], word, spin[t]) \notin Counted
    BY <1>3, <1>4, <1>8, TopNotCounted
  <2>4. QED
    BY <1>1, <1>2, <1>3, <1>4, <1>8, <2>1, <2>2, <2>3, QuietMove DEF Returns
<1>9. QED
  BY <1>5, <1>6, <1>7, <1>8

(* Back to the top of a loop.                                              *)
LEMMA TopInv ==
  ASSUME IInv, TypeInv', NEW t \in Threads, NEW s, NEW r, Goto(t, Top(t, word, s), word, s, r),
         pc[t] \in Quiet \cap Calling, pc[t] \notin Counted, UNCHANGED <<word, guard, writer_count>>,
         count' = count \/ count' = [count EXCEPT ![t] = 0],
         r \in Returns \ {"dead"}, r = "clone" <=> ret[t] = "clone"
  PROVE  IInv' /\ Mapped
<1>1. ret[t] # "clone" => req[t] \in Requests
  BY CallFacts
<1>2. Touched /\ word \in Word
  BY SameWord, Facts
<1>3. /\ Top(t, word, s) \in Quiet
      /\ Top(t, word, s) = "idle" \/ CasFits(Top(t, word, s), word, r, req[t])
      /\ ret[t] = "clone" => Top(t, word, s) \in CloneCalls
  BY <1>1, <1>2, TopFits
<1>4. Top(t, word, s) \notin Counted
  BY <1>1, <1>2, TopNotCounted
<1>5. QED
  BY <1>2, <1>3, <1>4, QuietMove

LEMMA SlowLoadInv ==
  ASSUME IInv, NEW t \in Threads, SlowLoad(t)
  PROVE  IInv' /\ Mapped
<1>1. TypeInv'
  BY SlowLoadType, Facts
<1>2. pc[t] \in Quiet \cap Calling /\ pc[t] \notin Counted
  BY DEF SlowLoad, Calling, Quiet, Counted
<1>3. ret[t] \in Returns \ {"dead"}
  BY <1>2, CallFacts
<1>4. UNCHANGED <<word, guard, writer_count>> /\ count' = count
  BY DEF SlowLoad, futex
<1>5. PICK s : Goto(t, Top(t, word, s), word, s, ret[t])
  BY DEF SlowLoad
<1>6. QED
  BY <1>1, <1>2, <1>3, <1>4, <1>5, TopInv

LEMMA SetWaiterInv ==
  ASSUME IInv, NEW t \in Threads, SetWaiter(t)
  PROVE  IInv' /\ Mapped
<1>1. TypeInv' /\ word \in Word
  BY SetWaiterType, Facts
<1>2. /\ pc[t] \in {"set_ww", "set_rw"}
      /\ pc[t] \in Quiet \cap Calling /\ pc[t] \notin Counted
  BY DEF SetWaiter, Calling, Quiet, Counted
<1>3. /\ CasFits(pc[t], cur[t], ret[t], req[t])
      /\ ret[t] = "clone" => pc[t] \in CloneCalls
      /\ ret[t] \in Returns \ {"dead"}
  BY <1>2, CallFacts
<1>4. UNCHANGED <<guard, writer_count>> /\ count' = count
  BY DEF SetWaiter, futex
<1>5. CASE pc[t] = "set_ww" /\ word' = [word EXCEPT !.ww = TRUE]
           /\ Goto(t, "count_add", word', spin[t], ret[t])
  <2>1. Touched
    BY <1>1, <1>5 DEF Touched, Word
  <2>2. CasFits("count_add", word', ret[t], req[t])
    BY <1>3, <1>5 DEF CasFits, Drains
  <2>3. ret[t] # "clone"
    BY <1>3, <1>5 DEF CloneCalls
  <2>4. QED
    BY <1>1, <1>2, <1>3, <1>4, <1>5, <2>1, <2>2, <2>3, QuietMove DEF Quiet, Counted
<1>6. CASE pc[t] = "set_rw" /\ word' = [word EXCEPT !.rw = TRUE]
           /\ Goto(t, "wait_r", word', spin[t], ret[t])
  <2>1. Touched
    BY <1>1, <1>6 DEF Touched, Word
  <2>2. CasFits("wait_r", word', ret[t], req[t])
    BY DEF CasFits, Drains
  <2>3. QED
    BY <1>1, <1>2, <1>3, <1>4, <1>6, <2>1, <2>2, QuietMove DEF Quiet, Counted, CloneCalls
<1>7. CASE Goto(t, Top(t, word, spin[t]), word, spin[t], ret[t]) /\ UNCHANGED word
  BY <1>1, <1>2, <1>3, <1>4, <1>7, TopInv
<1>8. QED
  BY <1>2, <1>5, <1>6, <1>7 DEF SetWaiter
-----------------------------------------------------------------------------
(* Entering and leaving compare_and_wait_as_writer.                        *)
LEMMA WritersAdd ==
  ASSUME IInv, NEW t \in Threads, Others(t), pc[t] \notin Counted, pc'[t] \in Counted,
         writer_count' = writer_count + 1
  PROVE  WritersInv'
<1>1. IsFiniteSet(CountedWriters)
  BY FS_Subset, SyncAssumption DEF CountedWriters
<1>2. CountedWriters' = CountedWriters \cup {t} /\ t \notin CountedWriters
  BY DEF CountedWriters, Others
<1>3. Cardinality(CountedWriters') = Cardinality(CountedWriters) + 1
  BY <1>1, <1>2, FS_AddElement
<1>4. QED
  BY <1>3 DEF IInv, WritersInv

LEMMA WritersCount ==
  ASSUME IInv
  PROVE  /\ writer_count \in Nat
         /\ \A t \in Threads : pc[t] \in Counted => writer_count >= 1
<1>1. IsFiniteSet(CountedWriters) /\ Cardinality(CountedWriters) \in Nat
  BY FS_Subset, FS_CardinalityType, SyncAssumption DEF CountedWriters
<1>2. ASSUME NEW t \in Threads, pc[t] \in Counted PROVE Cardinality(CountedWriters) # 0
  BY <1>1, <1>2, FS_EmptySet DEF CountedWriters
<1>3. QED
  BY <1>1, <1>2 DEF IInv, WritersInv

LEMMA WritersRemove ==
  ASSUME IInv, NEW t \in Threads, Others(t), pc[t] \in Counted, pc'[t] \notin Counted,
         writer_count' = writer_count - 1
  PROVE  WritersInv'
<1>1. IsFiniteSet(CountedWriters)
  BY FS_Subset, SyncAssumption DEF CountedWriters
<1>2. CountedWriters' = CountedWriters \ {t} /\ t \in CountedWriters
  BY DEF CountedWriters, Others
<1>3. Cardinality(CountedWriters') = Cardinality(CountedWriters) - 1
  BY <1>1, <1>2, FS_RemoveElement
<1>4. QED
  BY <1>3 DEF IInv, WritersInv

(* The threads that a Goto leaves alone.                                   *)
LEMMA GotoOthers ==
  ASSUME IInv, NEW t \in Threads, NEW l, NEW v, NEW s, NEW r, Goto(t, l, v, s, r),
         guard' = guard \/ \E g : guard' = [guard EXCEPT ![t] = g],
         count' = count \/ \E n : count' = [count EXCEPT ![t] = n]
  PROVE  Others(t) /\ pc'[t] = l
<1>1. /\ pc'[t] = l
      /\ \A u \in Threads : u # t =>
           pc'[u] = pc[u] /\ cur'[u] = cur[u] /\ ret'[u] = ret[u] /\ req'[u] = req[u]
  BY GotoEffect, Facts
<1>2. \A u \in Threads : u # t => guard'[u] = guard[u]
  BY GuardEffect
<1>3. \A u \in Threads : u # t => count'[u] = count[u]
  BY CountEffect
<1>4. QED
  BY <1>1, <1>2, <1>3 DEF Others

LEMMA CountAddInv ==
  ASSUME IInv, NEW t \in Threads, CountAdd(t)
  PROVE  IInv' /\ Mapped
<1>1. TypeInv'
  BY CountAddType, Facts
<1>2. /\ pc[t] = "count_add" /\ pc[t] \in Quiet /\ pc[t] \in Calling
      /\ pc[t] \notin Counted /\ pc[t] \notin CloneCalls
  BY DEF CountAdd, Calling, Quiet, Counted, CloneCalls
<1>3. CasFits(pc[t], cur[t], ret[t], req[t]) /\ ret[t] # "clone"
  BY <1>2, CallFacts
<1>4. guard' = guard /\ count' = count /\ Touched
  BY SameWord DEF CountAdd
<1>5. Goto(t, "wait_w", cur[t], 0, "slow")
  BY DEF CountAdd
<1>6. Others(t) /\ pc'[t] = "wait_w"
  BY <1>4, <1>5, GotoOthers
<1>7. WritersInv'
  BY <1>2, <1>6, WritersAdd DEF CountAdd, Counted
<1>8. CasFits("wait_w", cur[t], "slow", req[t])
  BY <1>2, <1>3 DEF CasFits, Drains
<1>9. guard[t].kind = "none"
  BY <1>2, <1>3, Caller
<1>10. QED
  BY <1>1, <1>2, <1>4, <1>5, <1>7, <1>8, <1>9, QuietGoto DEF Quiet, Returns

LEMMA FutexWaitInv ==
  ASSUME IInv, NEW t \in Threads, FutexWait(t) \/ Interrupt(t)
  PROVE  IInv' /\ Mapped
<1>1. TypeInv'
  BY FutexWaitType, Facts
<1>2. UNCHANGED <<guard, writer_count>> /\ count' = count /\ Touched
  BY SameWord DEF FutexWait, Interrupt, futex
<1>3. CASE pc[t] \in {"wait_w", "sleep_w"} /\ \/ Goto(t, "sleep_w", Blank, 0, "slow")
                                              \/ Goto(t, "failed_w", Blank, 0, "slow")
  <2>1. pc[t] \in Quiet /\ pc[t] \in Calling /\ pc[t] \in Counted /\ pc[t] \notin CloneCalls
    BY <1>3 DEF Calling, Quiet, Counted, CloneCalls
  <2>2. CasFits(pc[t], cur[t], ret[t], req[t]) /\ ret[t] # "clone"
    BY <2>1, CallFacts
  <2>3. CasFits("sleep_w", Blank, "slow", req[t]) /\ CasFits("failed_w", Blank, "slow", req[t])
    BY <1>3, <2>2 DEF CasFits, Drains
  <2>4. QED
    BY <1>1, <1>2, <1>3, <2>1, <2>2, <2>3, QuietMove DEF Quiet, Counted, Returns
<1>4. CASE pc[t] \in {"wait_r", "sleep_r"} /\ \/ Goto(t, "sleep_r", Blank, 0, ret[t])
                                              \/ Goto(t, "slow_load", Blank, 0, ret[t])
  <2>1. pc[t] \in Quiet /\ pc[t] \in Calling /\ pc[t] \notin Counted
    BY <1>4 DEF Calling, Quiet, Counted
  <2>2. ret[t] \in Returns \ {"dead"}
    BY <2>1, CallFacts
  <2>3. CasFits("sleep_r", Blank, ret[t], req[t]) /\ CasFits("slow_load", Blank, ret[t], req[t])
    BY DEF CasFits, Drains
  <2>4. QED
    BY <1>1, <1>2, <1>4, <2>1, <2>2, <2>3, QuietMove DEF Quiet, Counted, CloneCalls
<1>5. QED
  BY <1>3, <1>4 DEF FutexWait, Interrupt

LEMMA CloneInv ==
  ASSUME IInv, NEW t \in Threads, Clone(t)
  PROVE  IInv' /\ Mapped
<1>1. TypeInv' /\ word \in Word
  BY CloneType, Facts
<1>2. /\ pc[t] = "held" /\ guard[t].kind = "read" /\ guard[t].count < MaxGuards
      /\ Goto(t, CloneTop(word, 0), word, 0, "clone")
      /\ guard' = guard /\ count' = count /\ writer_count' = writer_count /\ Touched
  BY SameWord DEF Clone, futex
<1>3. /\ CloneTop(word, 0) \in Quiet \cap CloneCalls
      /\ CasFits(CloneTop(word, 0), word, "clone", req[t])
  BY <1>1, CloneFits
<1>4. WritersInv'
  <2>1. Others(t) /\ pc'[t] = CloneTop(word, 0)
    BY <1>2, GotoOthers
  <2>2. pc[t] \notin Counted /\ pc'[t] \notin Counted
    BY <1>2, <1>3, <2>1 DEF CloneCalls, Counted
  <2>3. QED
    BY <1>2, <2>1, <2>2, WritersStep
<1>5. QED
  BY <1>1, <1>2, <1>3, <1>4, QuietGoto DEF Returns

LEMMA OptimisticLockInv ==
  ASSUME IInv, NEW t \in Threads, NEW q \in Requests, OptimisticLock(t, q)
  PROVE  IInv' /\ Mapped
<1> DEFINE second == IF q \in Tries THEN SecondTry(q, word) ELSE SecondAttempt(q, word)
<1>1. TypeInv' /\ word \in Word
  BY OptimisticLockType, Facts
<1>2. pc[t] = "idle" /\ pc[t] \in Quiet /\ pc[t] \notin Counted
  BY DEF OptimisticLock, Quiet, Counted
<1>3. ret[t] = "idle" /\ guard[t].kind = "none" /\ guard[t].count = 0 /\ count[t] = 0
  <2>1. ret[t] = "idle"
    BY <1>2, Facts DEF Local, RetFits
  <2>2. QED
    BY <1>2, <2>1, Caller
<1>4. count' = count /\ writer_count' = writer_count
  BY DEF OptimisticLock
<1>5. pc \in [Threads -> Locations] /\ req \in [Threads -> Requests \cup {NoRequest}]
      /\ ret \in [Threads -> Returns] /\ cur \in [Threads -> Word]
  BY Facts DEF TypeInv, TypeOK
<1>6. word = Free(Hint[q]) =>
        /\ ~word.locked /\ word.readers = 0 /\ has_no_readers(word) /\ has_no_waiters(word)
        /\ word.phase = Hint[q]
  BY DEF Free, has_no_readers, has_no_waiters
<1>7. CASE /\ How[q][Hint[q]] = "Write" /\ word = Free(Hint[q])
           /\ word' = [word EXCEPT !.locked = TRUE]
           /\ guard' = [guard EXCEPT ![t] = Lock(word)]
           /\ pc' = [pc EXCEPT ![t] = "held"]
           /\ req' = [req EXCEPT ![t] = q]
           /\ UNCHANGED <<cur, spin, ret>>
  <2>1. Others(t) /\ pc'[t] = "held" /\ ret'[t] = "idle" /\ req'[t] = q /\ guard'[t] = Lock(word)
    BY <1>3, <1>4, <1>5, <1>7, GuardEffect DEF Others
  <2>2. QED
    BY <1>1, <1>2, <1>4, <1>6, <1>7, <2>1, FreeWord, GrantWrite
<1>8. CASE /\ How[q][Hint[q]] = "Read" /\ word = Free(Hint[q])
           /\ word' = [word EXCEPT !.readers = 1]
           /\ guard' = [guard EXCEPT ![t] = ReadLock(word.phase)]
           /\ pc' = [pc EXCEPT ![t] = "held"]
           /\ req' = [req EXCEPT ![t] = q]
           /\ UNCHANGED <<cur, spin, ret>>
  <2>1. /\ Others(t) /\ pc'[t] = "held" /\ ret'[t] = "idle" /\ req'[t] = q
        /\ guard'[t] = ReadLock(word.phase)
    BY <1>3, <1>4, <1>5, <1>8, GuardEffect DEF Others
  <2>2. /\ word'.readers = word.readers + 1 /\ word'.phase = word.phase
        /\ word'.locked = word.locked /\ word'.rw = word.rw /\ word'.ww = word.ww
    BY <1>1, <1>6, <1>8 DEF Word
  <2>3. /\ guard'[t].kind = "read" /\ guard'[t].count = guard[t].count + 1
        /\ guard[t].count < MaxGuards /\ guard'[t].init = word.phase
    BY <1>3, <2>1, Facts DEF ReadLock
  <2>4. ~has_readers_max(word)
    BY <1>6, <1>8, Facts DEF has_readers_max
  <2>5. \A u \in Threads : ~OwnsT(u)
    BY <1>6, <1>8, FreeWord
  <2>6. QED
    BY <1>1, <1>2, <1>4, <1>6, <1>8, <2>1, <2>2, <2>3, <2>4, <2>5, GrantRead
<1>9. CASE /\ pc' = [pc EXCEPT ![t] = second]
           /\ req' = [req EXCEPT ![t] = IF second = "idle" THEN NoRequest ELSE q]
           /\ cur' = [cur EXCEPT ![t] = IF second \in Forgetful THEN Blank ELSE word]
           /\ ret' = [ret EXCEPT ![t] = CASE second = "read_cas" -> "fast"
                                          [] second = "slow_load" -> "slow"
                                          [] OTHER -> "idle"]
           /\ UNCHANGED <<word, guard, spin>>
  <2>1. /\ second \in {"idle", "try_write", "try_read", "second_write", "read_cas", "slow_load"}
        /\ second = "idle" \/ \A r : r # "clone" => CasFits(second, word, r, q)
    BY <1>1, SecondFits
  <2>2. HIDE DEF second
  <2>3. /\ pc'[t] = second
        /\ req'[t] = IF second = "idle" THEN NoRequest ELSE q
        /\ cur'[t] = IF second \in Forgetful THEN Blank ELSE word
        /\ ret'[t] \in {"fast", "slow", "idle"}
        /\ second = "idle" => ret'[t] = "idle"
        /\ guard'[t] = guard[t] /\ count'[t] = 0
    BY <1>3, <1>4, <1>5, <1>9
  <2>4. Others(t)
    BY <1>4, <1>5, <1>9 DEF Others
  <2>5. GuardFits(pc'[t], ret'[t], guard'[t]) /\ RetFits(pc'[t], ret'[t])
    BY <1>3, <2>1, <2>3 DEF GuardFits, RetFits, Converting, Dropping
  <2>6. CasFits(pc'[t], cur'[t], ret'[t], req'[t])
    <3>1. CASE second = "idle"
      BY <2>3, <3>1 DEF CasFits, Drains
    <3>2. CASE second = "slow_load"
      BY <2>3, <3>2, SpinFits
    <3>3. CASE second \notin {"idle", "slow_load"}
      <4>1. second \notin Forgetful
        BY <2>1, <3>3 DEF Forgetful
      <4>2. ret'[t] # "clone" /\ cur'[t] = word /\ req'[t] = q /\ CasFits(second, word, ret'[t], q)
        BY <2>1, <2>3, <3>3, <4>1
      <4>3. QED
        BY <2>3, <4>2
    <3>4. QED
      BY <3>1, <3>2, <3>3
  <2>7. PhaseFits(pc'[t], ret'[t], req'[t], guard'[t], word'.phase)
    BY <1>3, <2>1, <2>3 DEF PhaseFits, Drains, Converting
  <2>8. BitsFit(pc'[t], cur'[t], word') /\ CountFits(pc'[t], count'[t])
    BY <2>1, <2>3 DEF BitsFit, CountFits, Unsettling
  <2>9. LocalT(t)'
    BY <2>5, <2>6, <2>7, <2>8 DEF LocalT, Local
  <2>10. WritersInv'
    BY <1>2, <1>4, <2>1, <2>3, <2>4, WritersStep DEF Counted
  <2>11. Touched
    BY <1>9, SameWord
  <2>12. QED
    BY <1>1, <1>2, <1>3, <2>1, <2>3, <2>4, <2>9, <2>10, <2>11, QuietStep DEF Quiet
<1>10. QED
  BY <1>7, <1>8, <1>9 DEF OptimisticLock
-----------------------------------------------------------------------------
(* Pieces of the steps that take, keep or give up the lock.                *)

(* A thread that owns nothing and goes on with a call, or returns.         *)
LEMMA QuietLocal ==
  ASSUME IInv, NEW t \in Threads, NEW l \in Quiet, NEW v, NEW s, NEW r, Goto(t, l, v, s, r),
         guard'[t].kind = "none", guard'[t].count = 0, count'[t] = 0,
         r \in {"idle", "fast", "slow"},
         l = "idle" \/ CasFits(l, v, r, req[t])
  PROVE  LocalT(t)'
<1>1. /\ pc'[t] = l
      /\ cur'[t] = IF l \in Forgetful THEN Blank ELSE v
      /\ ret'[t] = IF l \in {"idle", "held", "convert"} THEN "idle" ELSE r
      /\ req'[t] = IF l = "idle" THEN NoRequest ELSE req[t]
  BY GotoEffect, Facts
<1>2. GuardFits(pc'[t], ret'[t], guard'[t]) /\ RetFits(pc'[t], ret'[t])
  BY <1>1 DEF GuardFits, RetFits, Quiet, Converting, Dropping
<1>3. CasFits(pc'[t], cur'[t], ret'[t], req'[t])
  <2>1. CASE l = "idle"
    BY <1>1, <2>1 DEF CasFits, Drains
  <2>2. CASE l # "idle" /\ l \notin Forgetful
    BY <1>1, <2>2 DEF CasFits, Quiet, Forgetful
  <2>3. CASE l # "idle" /\ l \in Forgetful
    BY <1>1, <2>3 DEF CasFits, Quiet, Forgetful, Drains
  <2>4. QED
    BY <2>1, <2>2, <2>3
<1>4. PhaseFits(pc'[t], ret'[t], req'[t], guard'[t], word'.phase)
  BY <1>1 DEF PhaseFits, Quiet, Drains, Converting
<1>5. BitsFit(pc'[t], cur'[t], word') /\ CountFits(pc'[t], count'[t])
  BY <1>1 DEF BitsFit, CountFits, Quiet, Unsettling
<1>6. QED
  BY <1>2, <1>3, <1>4, <1>5 DEF LocalT, Local

(* A location on the way to the lock belongs to no class.                  *)
LEMMA QuietClass ==
  ASSUME NEW l \in Quiet, NEW g, g.kind # "write"
  PROVE  ~Owns(l, g) /\ ~Wakes(l) /\ ~Drains(l) /\ l \notin Unsettling
BY DEF Owns, Wakes, Drains, Unsettling, Quiet

LEMMA SameUnits ==
  ASSUME IInv, NEW t \in Threads, Others(t), pc[t] \notin Unsettling, pc'[t] \notin Unsettling,
         Units(t)' = Units(t), word'.readers = word.readers
  PROVE  FieldInv'
<1>1. Units(t) \in 0..MaxGuards /\ MaxGuards \in Nat /\ word.readers \in Int /\ Overf \in Nat
  BY UnitsType, Facts
<1>2. word.readers < 2 * Overf
  BY DEF IInv, FieldInv
<1>3. QED
  BY <1>1, <1>2, FieldStep

(* The locations of an owner.                                              *)
LEMMA OwnerFacts ==
  ASSUME NEW l, NEW r, NEW g, GuardFits(l, r, g), Owns(l, g)
  PROVE  /\ l \notin Unsettling /\ ~Drains(l) /\ ~Wakes(l) /\ l # "woken_r"
         /\ l \notin {"wake_call", "wake_or", "wake_sub", "read_drop"}
         /\ g.kind \in {"none", "read", "write"} => g.kind # "read" /\ g.count = 0
BY DEF GuardFits, Owns, Unsettling, Drains, Wakes, Converting, CloneCalls

(* LOCKED_BIT tells whether the owner relies on it.                        *)
LEMMA OwnerBit ==
  ASSUME IInv, NEW t \in Threads, OwnsT(t)
  PROVE  word.locked <=> LocksT(t)
<1>1. word.locked <=> \E u \in Threads : LocksT(u)
  BY DEF IInv, OwnerInv
<1>2. \A u \in Threads : u # t => ~LocksT(u)
  BY OwnerAlone DEF LocksT
<1>3. QED
  BY <1>1, <1>2

(* The owner moves on and stays the owner.                                 *)
LEMMA OwnerMove ==
  ASSUME IInv, TypeInv', NEW t \in Threads, Others(t), OwnsT(t), OwnsT(t)', LocalT(t)',
         guard'[t] = guard[t], word'.readers = word.readers, word'.phase = word.phase,
         word'.locked <=> LocksT(t)', WritersInv'
  PROVE  IInv' /\ Mapped
<1>1. GuardFits(pc[t], ret[t], guard[t]) /\ GuardFits(pc'[t], ret'[t], guard'[t])
  BY Facts DEF LocalT, Local
<1>2. /\ pc[t] \notin Unsettling /\ pc'[t] \notin Unsettling
      /\ ~Wakes(pc'[t]) /\ ~Drains(pc'[t])
      /\ Units(t)' = guard[t].count /\ Units(t) = guard[t].count
  BY <1>1, OwnerFacts DEF OwnsT, Units
<1>3. ThreadInv'
  BY LocalStep
<1>4. word.readers = 0 /\ word' \in Word
  BY OwnerAlone DEF TypeInv, TypeOK
<1>5. OwnerInv'
  BY <1>2, <1>4, OwnerBit, OwnerStep
<1>6. FieldInv'
  BY <1>2, SameUnits
<1>7. Mapped
  BY MapStutter DEF Others
<1>8. QED
  BY <1>3, <1>5, <1>6, <1>7 DEF IInv
-----------------------------------------------------------------------------
(* A thread that drains: nobody owns, and only it drains.                  *)
LEMMA DrainFacts ==
  ASSUME IInv, NEW t \in Threads, Drains(pc[t])
  PROVE  /\ word.locked /\ pc[t] \in Calling /\ pc[t] \notin Counted
         /\ \A u \in Threads : ~OwnsT(u) /\ (u # t => ~Drains(pc[u]))
         /\ guard[t].kind = "none" /\ guard[t].count = 0 /\ ret[t] # "clone"
         /\ req[t] \in Requests /\ How[req[t]][word.phase] = "Write"
         /\ LocksT(t) /\ Units(t) = 0 /\ pc[t] \notin Unsettling /\ ~Wakes(pc[t])
         /\ CasFits(pc[t], cur[t], ret[t], req[t]) /\ CountFits(pc[t], count[t])
<1>1. pc[t] \in Calling \ CloneCalls /\ pc[t] \notin Unsettling /\ ~Wakes(pc[t])
      /\ pc[t] \notin Counted
  BY DEF Drains, Calling, CloneCalls, Unsettling, Wakes, Counted
<1>2. req[t] \in Requests /\ ret[t] # "clone"
  BY <1>1, CallFacts
<1>3. /\ GuardFits(pc[t], ret[t], guard[t]) /\ PhaseFits(pc[t], ret[t], req[t], guard[t], word.phase)
      /\ CasFits(pc[t], cur[t], ret[t], req[t]) /\ CountFits(pc[t], count[t])
      /\ guard[t].kind \in {"none", "read", "write"}
  BY Facts DEF Local
<1>4. guard[t].kind = "none" /\ guard[t].count = 0
  BY <1>2, <1>3 DEF GuardFits, Drains, Converting
<1>5. LocksT(t) /\ word.locked
  BY DEF LocksT, IInv, OwnerInv
<1>6. ~OwnsT(t)
  BY <1>4 DEF OwnsT, Owns, Drains
<1>7. \A u \in Threads : ~OwnsT(u) /\ (u # t => ~Drains(pc[u]))
  BY <1>6 DEF IInv, OwnerInv
<1>8. Units(t) = 0
  BY <1>4 DEF Units, Drains
<1>9. How[req[t]][word.phase] = "Write"
  BY <1>3 DEF PhaseFits
<1>10. QED
  BY <1>1, <1>2, <1>3, <1>4, <1>5, <1>7, <1>8, <1>9

(* Drains goes on, or begins.                                              *)
LEMMA DrainStep ==
  ASSUME IInv, TypeInv', NEW t \in Threads, NEW l, Drains(l), NEW v, NEW s,
         has_readers(v), Goto(t, l, v, s, "slow"),
         guard' = guard, guard[t].kind = "none", guard[t].count = 0, Units(t) = 0,
         pc[t] \notin Unsettling, pc[t] \notin Counted,
         \A u \in Threads : ~OwnsT(u) /\ (u # t => ~Drains(pc[u])),
         How[req[t]][word.phase] = "Write",
         count'[t] \in Nat, count'[t] # 0 => l = "readers_load",
         \A u \in Threads : u # t => count'[u] = count[u],
         word'.readers = word.readers, word'.phase = word.phase, word'.rw = word.rw,
         word'.ww = word.ww, word'.locked, writer_count' = writer_count
  PROVE  IInv' /\ Mapped
<1>1. l \in {"readers_load", "readers_cas"}
  BY DEF Drains
<1>2. /\ pc'[t] = l /\ cur'[t] = v /\ ret'[t] = "slow" /\ req'[t] = req[t]
      /\ \A u \in Threads : u # t =>
           pc'[u] = pc[u] /\ cur'[u] = cur[u] /\ ret'[u] = ret[u] /\ req'[u] = req[u]
  BY <1>1, GotoEffect, Facts DEF Forgetful
<1>3. Others(t) /\ guard'[t] = guard[t]
  BY <1>2 DEF Others
<1>4. /\ ~OwnsT(t)' /\ LocksT(t)' /\ ~Wakes(pc'[t]) /\ pc'[t] \notin Unsettling
      /\ Units(t)' = 0 /\ pc'[t] \notin Counted
  BY <1>1, <1>2, <1>3 DEF OwnsT, Owns, LocksT, Drains, Wakes, Unsettling, Units, Counted
<1>5. LocalT(t)'
  <2>1. GuardFits(pc'[t], ret'[t], guard'[t]) /\ RetFits(pc'[t], ret'[t])
    BY <1>1, <1>2, <1>3 DEF GuardFits, RetFits, Converting, Dropping
  <2>2. CasFits(pc'[t], cur'[t], ret'[t], req'[t])
    BY <1>1, <1>2 DEF CasFits
  <2>3. PhaseFits(pc'[t], ret'[t], req'[t], guard'[t], word'.phase)
    BY <1>1, <1>2, <1>3 DEF PhaseFits, Converting
  <2>4. BitsFit(pc'[t], cur'[t], word') /\ CountFits(pc'[t], count'[t])
    BY <1>1, <1>2 DEF BitsFit, CountFits, Unsettling
  <2>5. QED
    BY <2>1, <2>2, <2>3, <2>4 DEF LocalT, Local
<1>6. word' \in Word
  BY DEF TypeInv, TypeOK
<1>7. ThreadInv'
  BY <1>3, <1>5, LocalStep DEF Calm
<1>8. OwnerInv'
  BY <1>3, <1>4, <1>6, OwnerStep
<1>9. FieldInv'
  BY <1>3, <1>4, SameUnits
<1>10. WritersInv'
  BY <1>3, <1>4, WritersStep
<1>11. Mapped
  BY MapStutter
<1>12. QED
  BY <1>7, <1>8, <1>9, <1>10, <1>11 DEF IInv

(* The readers have left: the thread that drained owns the lock.           *)
LEMMA DrainedStep ==
  ASSUME IInv, TypeInv', NEW t \in Threads, Drains(pc[t]), has_no_readers(word), word' = word,
         Acquired(t, Lock(word)), count' = [count EXCEPT ![t] = 0] \/ (count' = count /\ count[t] = 0),
         writer_count' = writer_count
  PROVE  IInv' /\ Mapped
<1>1. /\ pc'[t] = "held" /\ ret'[t] = "idle" /\ req'[t] = req[t] /\ guard'[t] = Lock(word)
      /\ Others(t) /\ count'[t] = 0
  BY AcquiredEffect, CountEffect
<1>2. /\ guard'[t].kind = "write" /\ guard'[t].count = 0
      /\ guard'[t].init = word.phase /\ guard'[t].on_unlock = word.phase
  BY <1>1 DEF Lock
<1>3. OwnsT(t)' /\ LocksT(t)' /\ pc'[t] \notin Unsettling /\ ~Wakes(pc'[t]) /\ ~Drains(pc'[t])
      /\ Units(t)' = 0 /\ pc'[t] \notin Counted
  BY <1>1, <1>2 DEF OwnsT, Owns, LocksT, Passes, Wakes, Drains, Unsettling, Units, Counted
<1>4. LocalT(t)'
  <2>1. GuardFits(pc'[t], ret'[t], guard'[t]) /\ RetFits(pc'[t], ret'[t])
    BY <1>1, <1>2 DEF GuardFits, RetFits, Converting, Dropping
  <2>2. CasFits(pc'[t], cur'[t], ret'[t], req'[t])
    BY <1>1 DEF CasFits, Drains
  <2>3. PhaseFits(pc'[t], ret'[t], req'[t], guard'[t], word'.phase)
    BY <1>1, <1>2, DrainFacts DEF PhaseFits, Drains, Converting
  <2>4. BitsFit(pc'[t], cur'[t], word') /\ CountFits(pc'[t], count'[t])
    BY <1>1 DEF BitsFit, CountFits, Unsettling
  <2>5. QED
    BY <2>1, <2>2, <2>3, <2>4 DEF LocalT, Local
<1>5. ThreadInv'
  BY <1>1, <1>4, LocalStep DEF Calm
<1>6. \A u \in Threads : /\ ~OwnsT(u) /\ ~Wakes(pc[u]) /\ guard[u].count = 0
                         /\ guard[u].kind # "write"
  BY DrainFacts, NoReaders DEF has_no_readers, OwnsT, Owns
<1>7. OwnerInv'
  BY <1>1, <1>3, <1>6, DrainFacts, Facts, OwnerStep DEF has_no_readers
<1>8. FieldInv'
  BY <1>1, <1>3, DrainFacts, SameUnits
<1>9. WritersInv'
  BY <1>1, <1>3, DrainFacts, WritersStep
<1>10. Mapped
  BY <1>1, <1>2, <1>6, MapAcquireWrite DEF Others
<1>11. QED
  BY <1>5, <1>7, <1>8, <1>9, <1>10 DEF IInv

LEMMA LockWhileReadersInv ==
  ASSUME IInv, NEW t \in Threads, LockWhileReaders(t)
  PROVE  IInv' /\ Mapped
<1>1. TypeInv' /\ word \in Word
  BY LockWhileReadersType, Facts
<1>2. /\ pc[t] = "lock_while_readers" /\ pc[t] \in Quiet /\ pc[t] \in Calling
      /\ pc[t] \notin Counted /\ pc[t] \notin CloneCalls
  BY DEF LockWhileReaders, Quiet, Calling, Counted, CloneCalls
<1>3. /\ CasFits(pc[t], cur[t], ret[t], req[t]) /\ ret[t] # "clone" /\ req[t] \in Requests
  BY <1>2, CallFacts
<1>4. guard' = guard /\ writer_count' = writer_count /\ count' = [count EXCEPT ![t] = 0]
  BY DEF LockWhileReaders, futex
<1>5. CASE /\ word = cur[t] /\ word' = [word EXCEPT !.locked = TRUE]
           /\ Goto(t, IF SpinLimit > 0 THEN "readers_load" ELSE "readers_cas", word', spin[t], "slow")
  <2>1. is_write_lockable(word) /\ has_readers(word) /\ How[req[t]][word.phase] = "Write"
    BY <1>2, <1>3, <1>5 DEF CasFits
  <2>2. \A u \in Threads : ~OwnsT(u) /\ ~Drains(pc[u])
    BY <2>1, UnlockedWord DEF is_write_lockable
  <2>3. /\ word'.readers = word.readers /\ word'.phase = word.phase /\ word'.locked
        /\ word'.rw = word.rw /\ word'.ww = word.ww
    BY <1>1, <1>5 DEF Word
  <2>4. has_readers(word')
    BY <2>1, <2>3 DEF has_readers
  <2>5. count'[t] = 0 /\ \A u \in Threads : u # t => count'[u] = count[u]
    BY <1>4, CountEffect
  <2>6. guard[t].kind = "none" /\ guard[t].count = 0 /\ Units(t) = 0 /\ pc[t] \notin Unsettling
    BY <1>2, <1>3, Caller
  <2>7. PICK l : Drains(l) /\ Goto(t, l, word', spin[t], "slow")
    BY <1>5 DEF Drains
  <2>8. QED
    BY <1>1, <1>2, <1>4, <2>1, <2>2, <2>3, <2>4, <2>5, <2>6, <2>7, DrainStep
<1>6. CASE Goto(t, Top(t, word, spin[t]), word, spin[t], "slow") /\ UNCHANGED word
  <2>1. "slow" \in Returns \ {"dead"} /\ UNCHANGED <<word, guard, writer_count>>
    BY <1>4, <1>6 DEF Returns
  <2>2. "slow" = "clone" <=> ret[t] = "clone"
    BY <1>3
  <2>3. QED
    BY <1>1, <1>2, <1>4, <1>6, <2>1, <2>2, TopInv
<1>7. QED
  BY <1>5, <1>6 DEF LockWhileReaders

LEMMA ReadersLoadInv ==
  ASSUME IInv, NEW t \in Threads, ReadersLoad(t)
  PROVE  IInv' /\ Mapped
<1>1. TypeInv' /\ word \in Word
  BY ReadersLoadType, Facts
<1>2. pc[t] = "readers_load" /\ Drains(pc[t])
  BY DEF ReadersLoad, Drains
<1>3. word' = word /\ writer_count' = writer_count
  BY DEF ReadersLoad, futex
<1>4. CASE /\ has_no_readers(word) /\ Acquired(t, Lock(word))
           /\ count' = [count EXCEPT ![t] = 0]
  BY <1>1, <1>2, <1>3, <1>4, DrainedStep
<1>5. CASE has_readers(word) /\ guard' = guard
  <2>1. PICK l, n : /\ n \in Nat /\ Drains(l) /\ (n # 0 => l = "readers_load")
                    /\ count' = [count EXCEPT ![t] = n]
                    /\ Goto(t, l, word, spin[t], "slow")
    <3>1. count[t] \in Nat /\ count \in [Threads -> Nat]
      BY Facts
    <3>2. CASE count[t] + 1 < SpinLimit
      <4>1. /\ count' = [count EXCEPT ![t] = count[t] + 1]
            /\ Goto(t, "readers_load", word, spin[t], "slow")
        BY <1>5, <3>2 DEF ReadersLoad, has_readers, has_no_readers
      <4>2. count[t] + 1 \in Nat /\ Drains("readers_load")
        BY <3>1 DEF Drains
      <4>3. QED
        BY <4>1, <4>2, Zenon
    <3>3. CASE ~(count[t] + 1 < SpinLimit)
      <4>1. /\ count' = [count EXCEPT ![t] = 0]
            /\ Goto(t, "readers_cas", word, spin[t], "slow")
        BY <1>5, <3>3 DEF ReadersLoad, has_readers, has_no_readers
      <4>2. QED
        BY <4>1 DEF Drains
    <3>4. QED
      BY <3>2, <3>3
  <2>2. count'[t] = n /\ \A u \in Threads : u # t => count'[u] = count[u]
    BY <2>1, CountEffect
  <2>3. QED
    BY <1>1, <1>2, <1>3, <1>5, <2>1, <2>2, DrainFacts, DrainStep
<1>6. QED
  BY <1>4, <1>5 DEF ReadersLoad

LEMMA ReadersCasInv ==
  ASSUME IInv, NEW t \in Threads, ReadersCas(t)
  PROVE  IInv' /\ Mapped
<1>1. TypeInv' /\ word \in Word
  BY ReadersCasType, Facts
<1>2. pc[t] = "readers_cas" /\ Drains(pc[t])
  BY DEF ReadersCas, Drains
<1>3. count' = count /\ writer_count' = writer_count
  BY DEF ReadersCas, futex
<1>4. count[t] = 0
  BY <1>2, DrainFacts DEF CountFits, Unsettling
<1>5. CASE has_no_readers(word) /\ Acquired(t, Lock(word)) /\ UNCHANGED word
  BY <1>1, <1>2, <1>3, <1>4, <1>5, DrainedStep
<1>6. CASE has_readers(word) /\ Goto(t, "readers_cas", word, spin[t], "slow")
           /\ UNCHANGED <<word, guard>>
  BY <1>1, <1>2, <1>3, <1>4, <1>6, DrainFacts, DrainStep
<1>7. CASE /\ word = cur[t] /\ word' = [word EXCEPT !.ww = TRUE, !.locked = FALSE]
           /\ Goto(t, Waiting(req[t], word'), word', spin[t], "slow") /\ UNCHANGED guard
  <2> DEFINE l == Waiting(req[t], word')
  <2>1. /\ word' \in Word /\ word'.readers = word.readers /\ word'.phase = word.phase
        /\ ~word'.locked /\ word'.ww /\ word'.rw = word.rw
    BY <1>1, <1>7 DEF Word
  <2>2. req[t] \in Requests
    BY <1>2, DrainFacts
  <2>3. l \in Quiet /\ (l = "idle" \/ CasFits(l, word', "slow", req[t])) /\ l \notin Counted
    <3>1. l \in {"idle", "count_add", "set_ww", "wait_r", "set_rw"}
      BY <2>1, <2>2, WaitingType
    <3>2. QED
      BY <2>1, <2>2, <3>1, WaitingFits DEF Counted
  <2>4. HIDE DEF l
  <2>5. Goto(t, l, word', spin[t], "slow")
    BY <1>7 DEF l
  <2>6. Others(t) /\ pc'[t] = l /\ guard'[t] = guard[t]
    BY <1>3, <1>7, <2>5, GotoOthers
  <2>7. guard[t].kind = "none" /\ guard[t].count = 0
    BY <1>2, DrainFacts
  <2>8. LocalT(t)'
    BY <1>3, <1>4, <2>3, <2>5, <2>6, <2>7, QuietLocal
  <2>9. /\ ~OwnsT(t)' /\ ~Wakes(pc'[t]) /\ ~Drains(pc'[t]) /\ pc'[t] \notin Unsettling
        /\ ~LocksT(t)'
    BY <2>3, <2>6, <2>7, QuietClass DEF OwnsT, LocksT
  <2>10. ThreadInv'
    BY <2>1, <2>6, <2>8, LocalStep DEF Calm
  <2>11. OwnerInv'
    BY <1>2, <2>1, <2>6, <2>9, DrainFacts, OwnerStep
  <2>12. FieldInv'
    <3>1. Units(t)' = Units(t)
      BY <1>2, <2>3, <2>6, <2>7 DEF Units, Quiet
    <3>2. QED
      BY <1>2, <2>1, <2>6, <2>9, <3>1, DrainFacts, SameUnits
  <2>13. WritersInv'
    BY <1>2, <1>3, <2>3, <2>6, DrainFacts, WritersStep
  <2>14. Mapped
    BY <1>7, <2>1, MapStutter
  <2>15. QED
    BY <1>1, <2>10, <2>11, <2>12, <2>13, <2>14 DEF IInv
<1>8. QED
  BY <1>5, <1>6, <1>7 DEF ReadersCas
-----------------------------------------------------------------------------
(* When every thread is idle nobody owns anything.                         *)
LEMMA AllIdle ==
  ASSUME IInv, \A u \in Threads : pc[u] = "idle"
  PROVE  /\ ~word.locked /\ word.readers = 0
         /\ \A u \in Threads : /\ ~OwnsT(u) /\ ~Wakes(pc[u]) /\ ~Drains(pc[u])
                               /\ guard[u].kind = "none" /\ guard[u].count = 0
                               /\ req[u] = NoRequest
<1>1. ASSUME NEW u \in Threads
      PROVE  /\ ~OwnsT(u) /\ ~Wakes(pc[u]) /\ ~Drains(pc[u]) /\ ~LocksT(u)
             /\ guard[u].kind = "none" /\ guard[u].count = 0 /\ Units(u) = 0
             /\ pc[u] \notin Unsettling /\ req[u] = NoRequest
  <2>1. ret[u] = "idle" /\ req[u] = NoRequest
    BY Facts DEF Local, RetFits, CasFits
  <2>2. pc[u] \in Quiet
    BY DEF Quiet
  <2>3. QED
    BY <2>1, <2>2, Caller
<1>2. ~word.locked
  BY <1>1 DEF IInv, OwnerInv
<1>3. ReadLocks = {}
  BY <1>1 DEF ReadLocks
<1>4. word.readers = 0
  BY <1>1, <1>3, FS_EmptySet DEF IInv, FieldInv
<1>5. QED
  BY <1>1, <1>2, <1>4

LEMMA LockMutInv ==
  ASSUME IInv, NEW t \in Threads, LockMut(t)
  PROVE  IInv' /\ Mapped
<1>1. TypeInv'
  BY LockMutType, Facts
<1>2. count' = count /\ writer_count' = writer_count /\ Acquired(t, Lock(word))
  BY DEF LockMut, futex
<1>3. /\ pc'[t] = "held" /\ ret'[t] = "idle" /\ req'[t] = req[t] /\ guard'[t] = Lock(word)
      /\ Others(t)
  BY <1>2, AcquiredEffect
<1>4. pc[t] \in Quiet \ Counted
  BY DEF LockMut, Quiet, Counted
<1>5. QED
  BY <1>1, <1>2, <1>3, <1>4, AllIdle, GrantWrite DEF LockMut
-----------------------------------------------------------------------------
(* A writer that has been handed the lock owns no guard yet.               *)
LEMMA WokenWriter ==
  ASSUME IInv, NEW t \in Threads, pc[t] \in {"woken_w", "or_ww", "locked_load"}
  PROVE  /\ OwnsT(t) /\ LocksT(t) /\ word.locked /\ pc[t] \in Calling
         /\ guard[t].kind = "none" /\ guard[t].count = 0 /\ count[t] = 0
         /\ req[t] \in Requests /\ \E o \in Phases : OnWait[req[t]][o] = "Write"
<1>1. OwnsT(t) /\ LocksT(t) /\ word.locked
  BY OwnerBit DEF OwnsT, Owns, LocksT, Passes
<1>2. pc[t] \in Calling \ CloneCalls
  BY DEF Calling, CloneCalls
<1>3. req[t] \in Requests /\ ret[t] # "clone" /\ CasFits(pc[t], cur[t], ret[t], req[t])
  BY <1>2, CallFacts
<1>4. /\ GuardFits(pc[t], ret[t], guard[t]) /\ CountFits(pc[t], count[t])
      /\ guard[t].kind \in {"none", "read", "write"}
  BY Facts DEF Local
<1>5. guard[t].kind = "none" /\ guard[t].count = 0 /\ count[t] = 0
  BY <1>3, <1>4 DEF GuardFits, CountFits, Converting, Unsettling
<1>6. QED
  BY <1>1, <1>2, <1>3, <1>5 DEF CasFits

(* It goes on towards its guard.                                           *)
LEMMA WokenWriterStep ==
  ASSUME IInv, TypeInv', NEW t \in Threads, pc[t] \in {"woken_w", "or_ww"},
         NEW l \in {"or_ww", "locked_load"}, Goto(t, l, Blank, 0, "slow"),
         guard' = guard, count' = count, word'.readers = word.readers,
         word'.phase = word.phase, word'.locked = word.locked, WritersInv'
  PROVE  IInv' /\ Mapped
<1>1. /\ pc'[t] = l /\ cur'[t] = Blank /\ ret'[t] = "slow" /\ req'[t] = req[t]
      /\ Others(t) /\ guard'[t] = guard[t] /\ count'[t] = count[t]
  BY GotoEffect, GotoOthers, Facts DEF Forgetful
<1>2. OwnsT(t)' /\ LocksT(t)'
  BY <1>1 DEF OwnsT, Owns, LocksT, Passes
<1>3. GuardFits(pc'[t], ret'[t], guard'[t]) /\ RetFits(pc'[t], ret'[t])
  BY <1>1, WokenWriter DEF GuardFits, RetFits, Converting, Dropping
<1>4. CasFits(pc'[t], cur'[t], ret'[t], req'[t])
  BY <1>1, WokenWriter DEF CasFits, Drains
<1>5. PhaseFits(pc'[t], ret'[t], req'[t], guard'[t], word'.phase)
  BY <1>1, WokenWriter DEF PhaseFits, Drains, Converting
<1>6. BitsFit(pc'[t], cur'[t], word') /\ CountFits(pc'[t], count'[t])
  BY <1>1, WokenWriter DEF BitsFit, CountFits, Unsettling
<1>7. LocalT(t)'
  BY <1>3, <1>4, <1>5, <1>6 DEF LocalT, Local
<1>8. QED
  BY <1>1, <1>2, <1>7, WokenWriter, OwnerMove

LEMMA CountSubInv ==
  ASSUME IInv, NEW t \in Threads, CountSub(t)
  PROVE  IInv' /\ Mapped
<1>1. TypeInv'
  BY CountSubType, Facts
<1>2. pc[t] \in Counted /\ writer_count \in Nat /\ writer_count # 0
  BY WritersCount DEF CountSub, Counted
<1>3. guard' = guard /\ count' = count /\ word' = word /\ writer_count' = writer_count - 1
  BY DEF CountSub
<1>4. CASE pc[t] = "failed_w"
  <2>1. Goto(t, "slow_load", Blank, 0, "slow")
    BY <1>2, <1>4 DEF CountSub
  <2>2. Others(t) /\ pc'[t] = "slow_load"
    BY <1>3, <2>1, GotoOthers
  <2>3. WritersInv'
    BY <1>2, <1>3, <2>2, WritersRemove DEF Counted
  <2>4. pc[t] \in Quiet /\ pc[t] \in Calling /\ pc[t] \notin CloneCalls
    BY <1>4 DEF Quiet, Calling, CloneCalls
  <2>5. guard[t].kind = "none"
    BY <2>4, CallFacts, Caller
  <2>6. Touched
    BY <1>3, SameWord
  <2>7. QED
    BY <1>1, <1>3, <2>1, <2>3, <2>4, <2>5, <2>6, SpinFits, QuietGoto DEF Quiet, Returns
<1>5. CASE pc[t] = "woken_w"
  <2>1. PICK l \in {"or_ww", "locked_load"} : Goto(t, l, Blank, 0, "slow")
    BY <1>2, <1>5 DEF CountSub
  <2>2. Others(t) /\ pc'[t] = l
    BY <1>3, <2>1, GotoOthers
  <2>3. WritersInv'
    BY <1>2, <1>3, <2>2, WritersRemove DEF Counted
  <2>4. QED
    BY <1>1, <1>3, <1>5, <2>1, <2>3, WokenWriterStep
<1>6. QED
  BY <1>4, <1>5 DEF CountSub

LEMMA OrWriteWaiterInv ==
  ASSUME IInv, NEW t \in Threads, OrWriteWaiter(t)
  PROVE  IInv' /\ Mapped
<1>1. TypeInv' /\ word \in Word
  BY OrWriteWaiterType, Facts
<1>2. /\ pc[t] = "or_ww" /\ guard' = guard /\ count' = count /\ writer_count' = writer_count
      /\ Goto(t, "locked_load", Blank, 0, "slow") /\ word' = [word EXCEPT !.ww = TRUE]
  BY DEF OrWriteWaiter, futex
<1>3. word'.readers = word.readers /\ word'.phase = word.phase /\ word'.locked = word.locked
  BY <1>1, <1>2 DEF Word
<1>4. Others(t) /\ pc'[t] = "locked_load"
  BY <1>2, GotoOthers
<1>5. WritersInv'
  BY <1>2, <1>4, WritersStep DEF Counted
<1>6. QED
  BY <1>1, <1>2, <1>3, <1>5, WokenWriterStep

LEMMA LockedLoadInv ==
  ASSUME IInv, NEW t \in Threads, LockedLoad(t)
  PROVE  IInv' /\ Mapped
<1>1. TypeInv' /\ word \in Word
  BY LockedLoadType, Facts
<1>2. pc[t] = "locked_load" /\ count' = count /\ writer_count' = writer_count /\ word' = word
  BY DEF LockedLoad, futex
<1>3. /\ OwnsT(t) /\ LocksT(t) /\ word.locked /\ count[t] = 0
      /\ guard[t].kind = "none" /\ guard[t].count = 0
      /\ req[t] \in Requests /\ \E o \in Phases : OnWait[req[t]][o] = "Write"
  BY <1>2, WokenWriter
<1>4. How[req[t]][word.phase] \in {"None", "Read", "Write"}
  BY <1>1, <1>3, SyncAssumption DEF Word, Natures
<1>5. PICK l \in {"held", "convert", "drop"} :
        /\ l = "held" => How[req[t]][word.phase] = "Write"
        /\ l = "convert" => How[req[t]][word.phase] = "Read"
        /\ guard' = [guard EXCEPT ![t] = Lock(word)]
        /\ Goto(t, l, Blank, 0, "idle")
  BY <1>3, <1>4 DEF LockedLoad
<1>6. /\ pc'[t] = l /\ ret'[t] = "idle" /\ req'[t] = req[t]
      /\ guard'[t] = Lock(word) /\ count'[t] = 0
  BY <1>2, <1>3, <1>5, GotoEffect, GuardEffect, Facts
<1>7. Others(t)
  BY <1>2, <1>5, GotoOthers
<1>8. /\ guard'[t].kind = "write" /\ guard'[t].count = 0
      /\ guard'[t].init = word.phase /\ guard'[t].on_unlock = word.phase
  BY <1>6 DEF Lock
<1>9. /\ OwnsT(t)' /\ LocksT(t)' /\ pc[t] \notin Unsettling /\ pc'[t] \notin Unsettling
      /\ ~Wakes(pc'[t]) /\ ~Drains(pc'[t]) /\ Units(t)' = 0 /\ Units(t) = 0
      /\ pc[t] \notin Counted /\ pc'[t] \notin Counted
  BY <1>2, <1>3, <1>6, <1>8
     DEF OwnsT, Owns, LocksT, Passes, Wakes, Drains, Unsettling, Units, Counted
<1>10. LocalT(t)'
  <2>1. GuardFits(pc'[t], ret'[t], guard'[t]) /\ RetFits(pc'[t], ret'[t])
    BY <1>6, <1>8 DEF GuardFits, RetFits, Converting, Dropping
  <2>2. CasFits(pc'[t], cur'[t], ret'[t], req'[t])
    BY <1>6 DEF CasFits, Drains
  <2>3. PhaseFits(pc'[t], ret'[t], req'[t], guard'[t], word'.phase)
    BY <1>2, <1>3, <1>5, <1>6, <1>8 DEF PhaseFits, Drains, Converting, MayConvert
  <2>4. BitsFit(pc'[t], cur'[t], word') /\ CountFits(pc'[t], count'[t])
    BY <1>6 DEF BitsFit, CountFits, Unsettling
  <2>5. QED
    BY <2>1, <2>2, <2>3, <2>4 DEF LocalT, Local
<1>11. ThreadInv'
  BY <1>3, <1>7, <1>10, LocalStep
<1>12. OwnerInv'
  BY <1>1, <1>2, <1>3, <1>7, <1>9, OwnerAlone, OwnerStep
<1>13. FieldInv'
  BY <1>2, <1>7, <1>9, SameUnits
<1>14. WritersInv'
  BY <1>2, <1>7, <1>9, WritersStep
<1>15. Mapped
  <2>1. \A u \in Threads : guard[u].kind # "write" /\ guard[u].count = 0
    BY <1>3, OwnerAlone
  <2>2. QED
    BY <1>2, <1>7, <1>8, <2>1, MapAcquireWrite DEF Others
<1>16. QED
  BY <1>1, <1>11, <1>12, <1>13, <1>14, <1>15 DEF IInv

(* What a woken reader is before it looks at the phase.                    *)
LEMMA WokenReaderFacts ==
  ASSUME IInv, NEW t \in Threads, pc[t] = "woken_r"
  PROVE  /\ has_readers(word) /\ ~has_no_readers(word)
         /\ GuardFits(pc[t], ret[t], guard[t])
         /\ PhaseFits(pc[t], ret[t], req[t], guard[t], word.phase)
         /\ guard[t].kind \in {"none", "read", "write"} /\ guard[t].count \in 0..MaxGuards
         /\ guard[t] \in Guard /\ MaxGuards \in Nat /\ MaxGuards >= 1
         /\ ret[t] # "clone" => req[t] \in Requests /\ guard[t].count = 0
         /\ ~OwnsT(t) /\ ~LocksT(t) /\ pc[t] \notin Unsettling /\ ~Wakes(pc[t])
         /\ ~Drains(pc[t]) /\ count[t] = 0 /\ pc[t] \notin Counted
         /\ Units(t) = guard[t].count + 1
<1>1. has_readers(word) /\ ~has_no_readers(word)
  BY UnitsType, UnitsBound, Facts DEF has_readers, has_no_readers
<1>2. /\ GuardFits(pc[t], ret[t], guard[t]) /\ CountFits(pc[t], count[t])
      /\ PhaseFits(pc[t], ret[t], req[t], guard[t], word.phase)
      /\ guard[t].kind \in {"none", "read", "write"} /\ guard[t].count \in 0..MaxGuards
      /\ guard[t] \in Guard /\ MaxGuards \in Nat /\ MaxGuards >= 1
  BY Facts DEF Local
<1>3. ret[t] # "clone" => req[t] \in Requests
  BY CallFacts DEF Calling
<1>4. ret[t] # "clone" => guard[t].count = 0
  BY <1>2 DEF GuardFits, Converting
<1>5. /\ ~OwnsT(t) /\ ~LocksT(t) /\ pc[t] \notin Unsettling /\ ~Wakes(pc[t]) /\ ~Drains(pc[t])
      /\ count[t] = 0 /\ pc[t] \notin Counted
      /\ Units(t) = guard[t].count + 1
  BY <1>2
     DEF OwnsT, Owns, LocksT, Drains, Wakes, Unsettling, Counted, GuardFits, CountFits, Units,
         Converting
<1>6. QED
  BY <1>1, <1>2, <1>3, <1>4, <1>5

(* It turns the read lock that it was woken with into a guard g.           *)
LEMMA WokenReaderStep ==
  ASSUME IInv, TypeInv', NEW t \in Threads, pc[t] = "woken_r", word' = word, count' = count,
         writer_count' = writer_count,
         NEW l \in {"held", "read_drop"}, NEW r \in {"idle", "slow"}, NEW g,
         guard' = [guard EXCEPT ![t] = g], Goto(t, l, Blank, 0, r),
         g.kind = "read", g.count = guard[t].count + 1, g.count <= MaxGuards,
         g.init = word.phase,
         l = "held" => \/ req[t] = NoRequest
                       \/ How[req[t]][word.phase] = "Read"
                       \/ word.phase \in Converts[req[t]],
         l = "read_drop" => g.count = 1
  PROVE  IInv' /\ Mapped
<1>1. /\ pc'[t] = l /\ ret'[t] \in {"idle", "slow"} /\ (l = "held" => ret'[t] = "idle")
      /\ req'[t] = req[t] /\ guard'[t] = g /\ count'[t] = 0
  BY WokenReaderFacts, GotoEffect, GuardEffect, Facts
<1>2. Others(t)
  BY GotoOthers
<1>3. /\ ~OwnsT(t)' /\ ~LocksT(t)' /\ pc'[t] \notin Unsettling
       /\ ~Wakes(pc'[t]) /\ ~Drains(pc'[t]) /\ pc'[t] \notin Counted
       /\ Units(t)' = Units(t)
  BY <1>1, WokenReaderFacts DEF OwnsT, Owns, LocksT, Drains, Wakes, Unsettling, Counted, Units
<1>4. LocalT(t)'
  <2>1. GuardFits(pc'[t], ret'[t], guard'[t]) /\ RetFits(pc'[t], ret'[t])
    BY <1>1, WokenReaderFacts DEF GuardFits, RetFits, Converting, Dropping
  <2>2. CasFits(pc'[t], cur'[t], ret'[t], req'[t])
    BY <1>1 DEF CasFits, Drains
  <2>3. PhaseFits(pc'[t], ret'[t], req'[t], guard'[t], word'.phase)
    BY <1>1 DEF PhaseFits, Drains, Converting
  <2>4. BitsFit(pc'[t], cur'[t], word') /\ CountFits(pc'[t], count'[t])
    BY <1>1 DEF BitsFit, CountFits, Unsettling
  <2>5. QED
    BY <2>1, <2>2, <2>3, <2>4 DEF LocalT, Local
<1>5. ThreadInv'
  BY <1>2, <1>4, LocalStep DEF Calm
<1>6. OwnerInv'
  BY <1>2, <1>3, WokenReaderFacts, Facts, OwnerStep
<1>7. FieldInv'
  BY <1>2, <1>3, WokenReaderFacts, SameUnits
<1>8. WritersInv'
  BY <1>2, <1>3, WokenReaderFacts, WritersStep
<1>9. Mapped
  <2>1. \A u \in Threads : guard[u].kind # "write"
    BY WokenReaderFacts, ReadersOnly
  <2>2. guard[t].count \in Nat /\ guard[t].count < MaxGuards
    BY WokenReaderFacts
  <2>3. QED
    BY <1>1, <1>2, <2>1, <2>2, MapAcquireRead DEF Others
<1>10. QED
  BY <1>5, <1>6, <1>7, <1>8, <1>9 DEF IInv

LEMMA WokenReaderInv ==
  ASSUME IInv, NEW t \in Threads, WokenReader(t)
  PROVE  IInv' /\ Mapped
<1>1. TypeInv' /\ word \in Word /\ word.phase \in Phases
  BY WokenReaderType, Facts
<1>2. pc[t] = "woken_r" /\ count' = count /\ writer_count' = writer_count /\ word' = word
  BY DEF WokenReader, futex
<1>3. /\ has_readers(word) /\ ~has_no_readers(word)
      /\ MaxGuards \in Nat /\ MaxGuards >= 1
  BY <1>2, WokenReaderFacts
<1>4. CASE ret[t] = "clone"
  <2> DEFINE g == [guard[t] EXCEPT !.count = @ + 1, !.init = word.phase]
  <2>1. guard' = [guard EXCEPT ![t] = g] /\ Goto(t, "held", Blank, 0, "idle")
    BY <1>3, <1>4 DEF WokenReader, Acquired
  <2>2. /\ guard[t].kind = "read" /\ guard[t].count < MaxGuards /\ guard[t].count \in 0..MaxGuards
        /\ guard[t] \in Guard
    BY <1>2, <1>4, WokenReaderFacts DEF GuardFits
  <2>3. /\ g.kind = "read" /\ g.count = guard[t].count + 1 /\ g.init = word.phase
    BY <2>2 DEF Guard
  <2>4. g.count <= MaxGuards
    BY <1>3, <2>2, <2>3
  <2>5. req[t] = NoRequest \/ How[req[t]][word.phase] = "Read" \/ word.phase \in Converts[req[t]]
    BY <1>2, <1>4, <2>2, WokenReaderFacts DEF PhaseFits
  <2>6. HIDE DEF g
  <2>7. QED
    BY <1>1, <1>2, <2>1, <2>3, <2>4, <2>5, WokenReaderStep
<1>5. CASE ret[t] # "clone"
  <2> DEFINE g == ReadLock(word.phase)
  <2>1. guard[t].count = 0 /\ req[t] \in Requests
    BY <1>2, <1>5, WokenReaderFacts
  <2>2. g.kind = "read" /\ g.count = guard[t].count + 1 /\ g.count = 1 /\ g.init = word.phase
    BY <2>1 DEF ReadLock
  <2>3. How[req[t]][word.phase] \in {"None", "Read", "Write"}
    BY <1>1, <2>1, SyncAssumption DEF Natures
  <2>4. guard' = [guard EXCEPT ![t] = g]
    BY <1>3, <1>5 DEF WokenReader
  <2>5. g.count <= MaxGuards
    BY <1>3, <2>2
  <2>6. HIDE DEF g
  <2>7. CASE How[req[t]][word.phase] = "Read"
    <3>1. Goto(t, "held", Blank, 0, "idle")
      BY <1>3, <1>5, <2>7 DEF WokenReader
    <3>2. QED
      BY <1>1, <1>2, <2>2, <2>4, <2>5, <2>7, <3>1, WokenReaderStep
  <2>8. CASE How[req[t]][word.phase] # "Read"
    <3>1. PICK r \in {"idle", "slow"} : Goto(t, "read_drop", Blank, 0, r)
      BY <1>3, <1>5, <2>3, <2>8 DEF WokenReader
    <3>2. QED
      BY <1>1, <1>2, <2>2, <2>4, <2>5, <3>1, WokenReaderStep
  <2>9. QED
    BY <2>7, <2>8
<1>6. QED
  BY <1>4, <1>5
-----------------------------------------------------------------------------
(* fetch_xor with the difference of two phases puts one for the other.     *)
LEMMA XorPhase ==
  ASSUME NEW p, NEW o
  PROVE  SymDiff(p, SymDiff(p, o)) = o
BY DEF SymDiff

(* The owner of a write guard.                                             *)
LEMMA WriterFacts ==
  ASSUME IInv, NEW t \in Threads, guard[t].kind = "write"
  PROVE  /\ OwnsT(t) /\ LocksT(t) /\ word.locked /\ word.readers = 0
         /\ pc[t] \in {"held", "convert", "drop", "drop_xor"}
         /\ pc[t] \notin Unsettling /\ pc[t] \notin Counted
         /\ guard[t].count = 0 /\ Units(t) = 0 /\ count[t] = 0
         /\ guard[t].init = word.phase /\ guard[t].on_unlock \in Phases
         /\ PhaseFits(pc[t], ret[t], req[t], guard[t], word.phase)
         /\ ret[t] \in {"idle", "slow"} /\ (pc[t] = "held" => ret[t] = "idle")
<1>1. /\ GuardFits(pc[t], ret[t], guard[t]) /\ RetFits(pc[t], ret[t])
      /\ PhaseFits(pc[t], ret[t], req[t], guard[t], word.phase) /\ CountFits(pc[t], count[t])
      /\ guard[t] \in Guard
  BY Facts DEF Local
<1>2. pc[t] \in {"held", "convert", "drop", "drop_xor"} /\ guard[t].count = 0
  BY <1>1 DEF GuardFits
<1>3. OwnsT(t) /\ LocksT(t) /\ pc[t] \notin Unsettling /\ pc[t] \notin Counted
  BY <1>2 DEF OwnsT, Owns, LocksT, Passes, Unsettling, Counted
<1>4. word.locked /\ word.readers = 0 /\ Units(t) = 0
  BY <1>3, OwnerBit, OwnerAlone, NoReaders
<1>5. count[t] = 0 /\ guard[t].init = word.phase /\ guard[t].on_unlock \in Phases
  BY <1>1, <1>2 DEF CountFits, PhaseFits, Guard, Unsettling
<1>6. ret[t] \in {"idle", "slow"} /\ (pc[t] = "held" => ret[t] = "idle")
  BY <1>1, <1>2 DEF RetFits, Dropping
<1>7. QED
  BY <1>1, <1>2, <1>3, <1>4, <1>5, <1>6

(* The owner lets go of the lock.                                          *)
LEMMA ReleaseStep ==
  ASSUME IInv, TypeInv', NEW t \in Threads, OwnsT(t), Finish(t), ret[t] \in {"idle", "slow"},
         pc[t] \notin Counted, count[t] = 0,
         guard'[t].kind = "none", guard'[t].count = 0, count' = count,
         guard' = guard \/ \E g : guard' = [guard EXCEPT ![t] = g],
         word'.readers = word.readers, ~word'.locked, writer_count' = writer_count
  PROVE  IInv' /\ Others(t)
<1>1. PICK l \in {"idle", "slow_load"} : Goto(t, l, Blank, 0, ret[t])
  BY DEF Finish, ReturnTo
<1>2. Others(t) /\ pc'[t] = l
  BY <1>1, GotoOthers
<1>3. LocalT(t)'
  BY <1>1, SpinFits, QuietLocal DEF Quiet
<1>4. ThreadInv'
  BY <1>2, <1>3, LocalStep
<1>5. /\ ~OwnsT(t)' /\ ~LocksT(t)' /\ ~Wakes(pc'[t]) /\ ~Drains(pc'[t])
      /\ pc'[t] \notin Unsettling /\ pc'[t] \notin Counted /\ Units(t)' = 0
  BY <1>2 DEF OwnsT, Owns, LocksT, Wakes, Drains, Unsettling, Counted, Units
<1>6. /\ word.readers = 0 /\ word' \in Word /\ Units(t) = 0 /\ (word.locked <=> LocksT(t))
      /\ pc[t] \notin Unsettling
  <2>1. word.readers = 0 /\ (word.locked <=> LocksT(t))
    BY OwnerAlone, OwnerBit
  <2>2. GuardFits(pc[t], ret[t], guard[t])
    BY Facts DEF Local
  <2>3. QED
    BY <2>1, <2>2, NoReaders, OwnerFacts DEF OwnsT, TypeInv, TypeOK
<1>7. OwnerInv'
  BY <1>2, <1>5, <1>6, OwnerStep
<1>8. FieldInv'
  BY <1>2, <1>5, <1>6, SameUnits
<1>9. WritersInv'
  BY <1>2, <1>5, WritersStep
<1>10. QED
  BY <1>2, <1>4, <1>7, <1>8, <1>9 DEF IInv

LEMMA SetPhaseInv ==
  ASSUME IInv, NEW t \in Threads, NEW p \in Phases, SetPhase(t, p)
  PROVE  IInv' /\ Mapped
<1>1. TypeInv' /\ guard[t] \in Guard /\ guard \in [Threads -> Guard]
  BY SetPhaseType, Facts
<1>2. /\ pc[t] = "held" /\ guard[t].kind = "write" /\ req[t] # NoRequest /\ p \in Unlocks[req[t]]
      /\ guard' = [guard EXCEPT ![t].on_unlock = p]
      /\ word' = word /\ writer_count' = writer_count /\ pc' = pc /\ req' = req /\ cur' = cur
      /\ ret' = ret /\ count' = count
  BY DEF SetPhase, futex
<1>3. /\ guard'[t].kind = "write" /\ guard'[t].count = guard[t].count
      /\ guard'[t].init = guard[t].init /\ guard'[t].on_unlock = p
      /\ \A u \in Threads : u # t => guard'[u] = guard[u]
  BY <1>1, <1>2 DEF Guard
<1>4. Others(t)
  BY <1>2, <1>3 DEF Others
<1>5. req[t] \in Requests
  BY <1>2, Facts DEF TypeInv, TypeOK
<1>6. LocalT(t)'
  <2>1. Local(pc[t], cur[t], ret[t], req[t], guard[t], count[t], word)
    BY Facts
  <2>2. GuardFits(pc[t], ret[t], guard'[t])
    BY <1>2, <1>3, <2>1 DEF Local, GuardFits, CloneCalls
  <2>3. PhaseFits(pc[t], ret[t], req[t], guard'[t], word.phase)
    BY <1>2, <1>3, <1>5, <2>1 DEF Local, PhaseFits, Drains, Converting
  <2>4. QED
    BY <1>2, <2>1, <2>2, <2>3 DEF LocalT, Local
<1>7. OwnsT(t)' /\ LocksT(t)'
  BY <1>2, <1>3 DEF OwnsT, Owns, LocksT, Passes
<1>8. ThreadInv'
  BY <1>2, <1>4, <1>6, WriterFacts, LocalStep
<1>9. ~Wakes(pc'[t]) /\ ~Drains(pc'[t])
  BY <1>2 DEF Wakes, Drains, Unsettling
<1>10. OwnerInv'
  BY <1>2, <1>4, <1>7, <1>9, Facts, WriterFacts, OwnerStep
<1>11. FieldInv'
  <2>1. Units(t)' = Units(t)
    BY <1>2, <1>3 DEF Units
  <2>2. QED
    BY <1>2, <1>4, <2>1, WriterFacts, SameUnits
<1>12. WritersInv'
  BY <1>2, <1>4, WritersStep
<1>13. Mapped
  BY <1>2, <1>3, MapStutter
<1>14. QED
  BY <1>1, <1>8, <1>10, <1>11, <1>12, <1>13 DEF IInv

LEMMA IntoReadLockInv ==
  ASSUME IInv, NEW t \in Threads, IntoReadLock(t)
  PROVE  IInv' /\ Mapped
<1> DEFINE o == guard[t].on_unlock
<1>1. TypeInv' /\ word \in Word /\ guard[t] \in Guard /\ guard \in [Threads -> Guard]
      /\ word.readers \in Int /\ Overf \in Nat /\ Overf > 1 /\ MaxGuards \in Nat /\ MaxGuards >= 1
  BY IntoReadLockType, Facts
<1>2. guard[t].kind = "write"
  <2>1. CASE pc[t] = "convert"
    <3>1. GuardFits(pc[t], ret[t], guard[t]) /\ guard[t].kind \in {"none", "read", "write"}
      BY Facts DEF Local
    <3>2. QED
      BY <2>1, <3>1 DEF GuardFits, Converting, CloneCalls
  <2>2. QED
    BY <2>1 DEF IntoReadLock
<1>3. /\ OwnsT(t) /\ LocksT(t) /\ word.locked /\ word.readers = 0 /\ guard[t].init = word.phase
      /\ guard[t].count = 0 /\ Units(t) = 0 /\ count[t] = 0 /\ o \in Phases
      /\ pc[t] \notin Counted /\ pc[t] \notin Unsettling
      /\ PhaseFits(pc[t], ret[t], req[t], guard[t], word.phase)
  BY <1>2, WriterFacts
<1>4. req[t] \in Requests /\ MayConvert(req[t], o)
  <2>1. CASE pc[t] = "convert"
    BY <1>3, <2>1 DEF PhaseFits
  <2>2. CASE pc[t] # "convert"
    <3>1. req[t] # NoRequest /\ o \in Converts[req[t]]
      BY <2>2 DEF IntoReadLock
    <3>2. QED
      BY <3>1, Facts DEF TypeInv, TypeOK, MayConvert
  <2>3. QED
    BY <2>1, <2>2
<1>5. FlipUnity(word.readers) = 1 /\ SymDiff(word.phase, SymDiff(guard[t].init, o)) = o
  BY <1>3, XorPhase DEF FlipUnity
<1>6. /\ word'.phase = o /\ ~word'.locked /\ word'.readers = 1 /\ word'.rw = word.rw
      /\ word' \in Word
  <2>1. word' = [word EXCEPT !.phase = o, !.locked = ~@, !.readers = 1]
    BY <1>5 DEF IntoReadLock
  <2>2. /\ word'.phase = o /\ word'.locked = ~word.locked /\ word'.readers = 1
        /\ word'.rw = word.rw
    BY <1>1, <2>1 DEF Word
  <2>3. QED
    BY <1>1, <1>3, <2>2 DEF TypeInv, TypeOK
<1>7. count' = count /\ writer_count' = writer_count
  BY DEF IntoReadLock, futex
<1>8. ASSUME pc'[t] \in {"held", "conv_xor"}, Others(t), req'[t] = req[t],
             pc'[t] = "held" => ret'[t] = "idle" /\ guard'[t].init = o,
             pc'[t] = "conv_xor" => ret'[t] = "held" /\ word.rw,
             guard'[t].kind = "read", guard'[t].count = 1
      PROVE  IInv' /\ Mapped
  <2>1. LocalT(t)'
    <3>1. GuardFits(pc'[t], ret'[t], guard'[t]) /\ RetFits(pc'[t], ret'[t])
      BY <1>1, <1>8 DEF GuardFits, RetFits, Converting, Dropping
    <3>2. CasFits(pc'[t], cur'[t], ret'[t], req'[t])
      BY <1>8 DEF CasFits, Drains
    <3>3. PhaseFits(pc'[t], ret'[t], req'[t], guard'[t], word'.phase)
      <4>1. CASE pc'[t] = "held"
        BY <1>4, <1>6, <1>8, <4>1 DEF PhaseFits, Drains, Converting, MayConvert
      <4>2. CASE pc'[t] = "conv_xor"
        BY <1>4, <1>6, <1>8, <4>2 DEF PhaseFits, Drains
      <4>3. QED
        BY <1>8, <4>1, <4>2
    <3>4. BitsFit(pc'[t], cur'[t], word') /\ CountFits(pc'[t], count'[t])
      BY <1>1, <1>3, <1>6, <1>7, <1>8 DEF BitsFit, CountFits, Unsettling
    <3>5. QED
      BY <3>1, <3>2, <3>3, <3>4 DEF LocalT, Local
  <2>2. /\ ~OwnsT(t)' /\ ~LocksT(t)' /\ ~Drains(pc'[t]) /\ pc'[t] \notin Unsettling
        /\ pc'[t] \notin Counted /\ Units(t)' = 1
    BY <1>8 DEF OwnsT, Owns, LocksT, Drains, Unsettling, Counted, Units
  <2>3. ThreadInv'
    BY <1>3, <1>8, <2>1, LocalStep
  <2>4. OwnerInv'
    BY <1>3, <1>6, <1>8, <2>2, OwnerAlone, OwnerStep
  <2>5. FieldInv'
    BY <1>1, <1>3, <1>6, <1>8, <2>2, FieldStep
  <2>6. WritersInv'
    BY <1>3, <1>7, <1>8, <2>2, WritersStep
  <2>7. Mapped
    BY <1>2, <1>3, <1>6, <1>8, MapDowngrade DEF Others
  <2>8. QED
    BY <1>1, <2>3, <2>4, <2>5, <2>6, <2>7 DEF IInv
<1>9. CASE word.rw
  <2>1. /\ Goto(t, "conv_xor", Blank, 0, "held")
        /\ guard' = [guard EXCEPT ![t].kind = "read", ![t].count = 1]
    BY <1>9 DEF IntoReadLock
  <2>2. /\ guard'[t].kind = "read" /\ guard'[t].count = 1
        /\ \A u \in Threads : u # t => guard'[u] = guard[u]
    BY <1>1, <2>1 DEF Guard
  <2>3. /\ pc'[t] = "conv_xor" /\ ret'[t] = "held" /\ req'[t] = req[t]
        /\ \A u \in Threads : u # t =>
             pc'[u] = pc[u] /\ cur'[u] = cur[u] /\ ret'[u] = ret[u] /\ req'[u] = req[u]
    BY <2>1, GotoEffect, Facts
  <2>4. Others(t)
    BY <1>7, <2>2, <2>3 DEF Others
  <2>5. QED
    BY <1>8, <1>9, <2>2, <2>3, <2>4
<1>10. CASE ~word.rw
  <2>1. Goto(t, "held", Blank, 0, "idle") /\ guard' = [guard EXCEPT ![t] = ReadLock(o)]
    BY <1>10 DEF IntoReadLock
  <2>2. /\ pc'[t] = "held" /\ ret'[t] = "idle" /\ req'[t] = req[t] /\ guard'[t] = ReadLock(o)
    BY <2>1, GotoEffect, GuardEffect, Facts
  <2>3. Others(t)
    BY <1>7, <2>1, GotoOthers
  <2>4. guard'[t].kind = "read" /\ guard'[t].count = 1 /\ guard'[t].init = o
    BY <2>2 DEF ReadLock
  <2>5. QED
    BY <1>8, <2>2, <2>3, <2>4
<1>11. QED
  BY <1>9, <1>10

LEMMA NoGuardFields == NoGuard.kind = "none" /\ NoGuard.count = 0
BY DEF NoGuard

LEMMA DropLockInv ==
  ASSUME IInv, NEW t \in Threads, DropLock(t)
  PROVE  IInv' /\ Mapped
<1>1. TypeInv' /\ word \in Word
  BY DropLockType, Facts
<1>2. guard[t].kind = "write"
  <2>1. CASE pc[t] = "drop"
    <3>1. GuardFits(pc[t], ret[t], guard[t]) /\ guard[t].kind \in {"none", "read", "write"}
      BY Facts DEF Local
    <3>2. QED
      BY <2>1, <3>1 DEF GuardFits, Converting, CloneCalls
  <2>2. QED
    BY <2>1 DEF DropLock
<1>3. /\ OwnsT(t) /\ LocksT(t) /\ word.locked /\ word.readers = 0
      /\ guard[t].count = 0 /\ count[t] = 0 /\ guard[t].on_unlock \in Phases
      /\ pc[t] \notin Counted /\ ret[t] \in {"idle", "slow"}
      /\ PhaseFits(pc[t], ret[t], req[t], guard[t], word.phase)
  BY <1>2, WriterFacts
<1>4. count' = count /\ writer_count' = writer_count
  BY DEF DropLock, futex
<1>5. CASE /\ word' = Free(guard[t].on_unlock) /\ guard' = [guard EXCEPT ![t] = NoGuard]
           /\ Finish(t)
  <2>1. /\ word'.readers = word.readers /\ ~word'.locked /\ word'.phase \in Phases
    BY <1>3, <1>5 DEF Free
  <2>2. guard'[t].kind = "none" /\ guard'[t].count = 0
        /\ \A u \in Threads : u # t => guard'[u] = guard[u]
    BY <1>5, GuardEffect, NoGuardFields
  <2>3. IInv'
    BY <1>1, <1>3, <1>4, <1>5, <2>1, <2>2, ReleaseStep
  <2>4. Mapped
    BY <1>2, <1>3, <2>1, <2>2, MapReleaseWrite
  <2>5. QED
    BY <2>3, <2>4
<1>6. CASE Goto(t, "drop_xor", Blank, 0, ret[t]) /\ UNCHANGED <<word, guard>>
  <2>1. /\ pc'[t] = "drop_xor" /\ ret'[t] = ret[t] /\ req'[t] = req[t] /\ guard'[t] = guard[t]
        /\ Others(t)
    BY <1>4, <1>6, GotoEffect, GotoOthers, Facts
  <2>2. OwnsT(t)' /\ LocksT(t)'
    BY <1>2, <2>1 DEF OwnsT, Owns, LocksT, Passes
  <2>3. LocalT(t)'
    <3>1. GuardFits(pc'[t], ret'[t], guard'[t]) /\ RetFits(pc'[t], ret'[t])
      BY <1>2, <1>3, <2>1 DEF GuardFits, RetFits, Converting, Dropping
    <3>2. CasFits(pc'[t], cur'[t], ret'[t], req'[t])
      BY <2>1 DEF CasFits, Drains
    <3>3. PhaseFits(pc'[t], ret'[t], req'[t], guard'[t], word'.phase)
      BY <1>3, <1>6, <2>1 DEF PhaseFits, Drains, Converting
    <3>4. BitsFit(pc'[t], cur'[t], word') /\ CountFits(pc'[t], count'[t])
      BY <1>3, <1>4, <2>1 DEF BitsFit, CountFits, Unsettling
    <3>5. QED
      BY <3>1, <3>2, <3>3, <3>4 DEF LocalT, Local
  <2>4. WritersInv'
    BY <1>3, <1>4, <2>1, WritersStep DEF Counted
  <2>5. QED
    BY <1>1, <1>3, <1>6, <2>1, <2>2, <2>3, <2>4, OwnerMove
<1>7. QED
  BY <1>5, <1>6 DEF DropLock

(* A thread begins to hand the lock over: only the waiter bits are left.   *)
LEMMA TransferLocal ==
  ASSUME IInv, NEW t \in Threads, NEW r \in {"idle", "slow"}, Goto(t, "transfer", word', 0, r),
         guard'[t] = NoGuard, count'[t] = 0,
         ~word'.locked, word'.readers = 0, ~has_no_waiters(word')
  PROVE  /\ LocalT(t)' /\ OwnsT(t)' /\ ~LocksT(t)' /\ pc'[t] \notin Unsettling
         /\ pc'[t] \notin Counted /\ ~Wakes(pc'[t]) /\ ~Drains(pc'[t]) /\ Units(t)' = 0
<1>1. pc'[t] = "transfer" /\ cur'[t] = word' /\ ret'[t] = r /\ req'[t] = req[t]
  BY GotoEffect, Facts DEF Forgetful
<1>2. guard'[t].kind = "none" /\ guard'[t].count = 0
  BY DEF NoGuard
<1>3. GuardFits(pc'[t], ret'[t], guard'[t]) /\ RetFits(pc'[t], ret'[t])
  BY <1>1, <1>2 DEF GuardFits, RetFits, Converting, Dropping
<1>4. CasFits(pc'[t], cur'[t], ret'[t], req'[t])
  BY <1>1 DEF CasFits, Drains
<1>5. PhaseFits(pc'[t], ret'[t], req'[t], guard'[t], word'.phase)
  BY <1>1, <1>2 DEF PhaseFits, Drains, Converting
<1>6. BitsFit(pc'[t], cur'[t], word') /\ CountFits(pc'[t], count'[t])
  BY <1>1 DEF BitsFit, CountFits, Unsettling, has_no_readers
<1>7. LocalT(t)'
  BY <1>3, <1>4, <1>5, <1>6 DEF LocalT, Local
<1>8. /\ OwnsT(t)' /\ ~LocksT(t)' /\ pc'[t] \notin Unsettling /\ pc'[t] \notin Counted
      /\ ~Wakes(pc'[t]) /\ ~Drains(pc'[t]) /\ Units(t)' = 0
  BY <1>1, <1>2 DEF OwnsT, Owns, LocksT, Passes, Drains, Wakes, Unsettling, Counted, Units
<1>9. QED
  BY <1>7, <1>8

LEMMA DropXorInv ==
  ASSUME IInv, NEW t \in Threads, DropXor(t)
  PROVE  IInv' /\ Mapped
<1> DEFINE o == guard[t].on_unlock
<1>1. TypeInv' /\ word \in Word
  BY DropXorType, Facts
<1>2. guard[t].kind = "write"
  <2>1. GuardFits(pc[t], ret[t], guard[t]) /\ guard[t].kind \in {"none", "read", "write"}
    BY Facts DEF Local
  <2>2. QED
    BY <2>1 DEF DropXor, GuardFits, Converting, CloneCalls
<1>3. /\ OwnsT(t) /\ LocksT(t) /\ word.locked /\ word.readers = 0 /\ guard[t].init = word.phase
      /\ guard[t].count = 0 /\ count[t] = 0 /\ o \in Phases /\ Units(t) = 0
      /\ pc[t] \notin Counted /\ pc[t] \notin Unsettling /\ ret[t] \in {"idle", "slow"}
  BY <1>2, WriterFacts
<1>4. /\ count' = count /\ writer_count' = writer_count
      /\ guard' = [guard EXCEPT ![t] = NoGuard]
  BY DEF DropXor, futex
<1>5. /\ word'.phase = o /\ ~word'.locked /\ word'.readers = 0
      /\ word'.rw = word.rw /\ word'.ww = word.ww /\ word' \in Word
  <2>1. SymDiff(word.phase, SymDiff(guard[t].init, o)) = o
    BY <1>3, XorPhase
  <2>2. word' = [word EXCEPT !.phase = o, !.locked = ~@]
    BY <2>1 DEF DropXor
  <2>3. /\ word'.phase = o /\ word'.locked = ~word.locked /\ word'.readers = word.readers
        /\ word'.rw = word.rw /\ word'.ww = word.ww
    BY <1>1, <2>2 DEF Word
  <2>4. QED
    BY <1>1, <1>3, <2>3 DEF TypeInv, TypeOK
<1>6. /\ guard'[t] = NoGuard /\ guard'[t].kind = "none" /\ guard'[t].count = 0
      /\ \A u \in Threads : u # t => guard'[u] = guard[u]
  BY <1>4, GuardEffect, NoGuardFields
<1>7. Mapped
  BY <1>2, <1>3, <1>5, <1>6, MapReleaseWrite
<1>8. CASE has_no_waiters(word) /\ Finish(t)
  <2>1. IInv'
    BY <1>1, <1>3, <1>4, <1>5, <1>6, <1>8, ReleaseStep
  <2>2. QED
    BY <1>7, <2>1
<1>9. CASE ~has_no_waiters(word) /\ Goto(t, "transfer", word', 0, ret[t])
  <2>1. ~has_no_waiters(word')
    BY <1>5, <1>9 DEF has_no_waiters
  <2>2. Others(t)
    BY <1>4, <1>9, GotoOthers
  <2>3. /\ LocalT(t)' /\ OwnsT(t)' /\ ~LocksT(t)' /\ pc'[t] \notin Unsettling
        /\ pc'[t] \notin Counted /\ ~Wakes(pc'[t]) /\ ~Drains(pc'[t]) /\ Units(t)' = 0
    <3>1. count'[t] = 0
      BY <1>3, <1>4
    <3>2. QED
      BY <1>3, <1>5, <1>6, <1>9, <2>1, <3>1, TransferLocal
  <2>4. ThreadInv'
    BY <1>3, <2>2, <2>3, LocalStep
  <2>5. OwnerInv'
    BY <1>3, <1>5, <2>2, <2>3, OwnerStep
  <2>6. FieldInv'
    BY <1>3, <1>5, <2>2, <2>3, SameUnits
  <2>7. WritersInv'
    BY <1>3, <1>4, <2>2, <2>3, WritersStep
  <2>8. QED
    BY <1>1, <1>7, <2>4, <2>5, <2>6, <2>7 DEF IInv
<1>10. QED
  BY <1>8, <1>9 DEF DropXor

LEMMA DropReadLockInv ==
  ASSUME IInv, NEW t \in Threads, DropReadLock(t)
  PROVE  IInv' /\ Mapped
<1> DEFINE g == guard[t]
           left == IF g.count > 1 THEN [g EXCEPT !.count = @ - 1] ELSE NoGuard
           r == IF pc[t] = "held" /\ g.count > 1 THEN "held" ELSE ret[t]
<1>1. TypeInv' /\ word \in Word /\ word.readers \in Int /\ Overf \in Nat /\ MaxGuards \in Nat
      /\ word' \in Word
  BY DropReadLockType, Facts DEF TypeInv, TypeOK
<1>2. /\ pc[t] = "read_drop" \/ (pc[t] = "held" /\ g.kind = "read")
      /\ word' = [word EXCEPT !.readers = @ - 1] /\ guard' = [guard EXCEPT ![t] = left]
      /\ count' = count /\ writer_count' = writer_count
  BY DEF DropReadLock, futex
<1>3. /\ GuardFits(pc[t], ret[t], g) /\ RetFits(pc[t], ret[t]) /\ CountFits(pc[t], count[t])
      /\ PhaseFits(pc[t], ret[t], req[t], g, word.phase)
      /\ g \in Guard /\ g.kind \in {"none", "read", "write"} /\ g.count \in 0..MaxGuards
  BY Facts DEF Local
<1>4. /\ g.kind # "write" /\ count[t] = 0 /\ ret[t] \in {"idle", "slow"}
      /\ pc[t] = "held" => ret[t] = "idle"
      /\ g.kind = "none" => g.count = 0 /\ pc[t] = "read_drop"
      /\ g.kind = "read" => g.count >= 1
      /\ pc[t] = "read_drop" => g.count <= 1
      /\ pc[t] \notin Unsettling /\ pc[t] \notin Counted /\ ~Wakes(pc[t]) /\ ~Drains(pc[t])
      /\ ~OwnsT(t) /\ ~LocksT(t)
  BY <1>2, <1>3 DEF GuardFits, RetFits, CountFits, Unsettling, Counted, Wakes, Drains, OwnsT,
     Owns, LocksT, Dropping
<1>5. Units(t) = (IF g.count > 1 THEN g.count ELSE 1) /\ Units(t) >= 1
  BY <1>2, <1>3, <1>4 DEF Units
<1>6. /\ word'.phase = word.phase /\ word'.readers = word.readers - 1
      /\ word'.locked = word.locked /\ word'.rw = word.rw /\ word'.ww = word.ww
  BY <1>1, <1>2 DEF Word
<1>7. /\ has_readers(word) /\ word.readers >= 1
      /\ \A u \in Threads : ~OwnsT(u)
  <2>1. word.readers >= 1
    BY <1>5, UnitsBound
  <2>2. has_readers(word)
    BY <1>1, <2>1 DEF has_readers
  <2>3. QED
    BY <2>1, <2>2, ReadersOnly
<1>8. /\ guard'[t] = left /\ \A u \in Threads : u # t => guard'[u] = guard[u]
  BY <1>2, GuardEffect
<1>9. /\ left.count = (IF g.count > 1 THEN g.count - 1 ELSE 0) /\ left.kind # "write"
      /\ g.count > 1 => left.kind = g.kind /\ left.init = g.init
      /\ g.count <= 1 => left = NoGuard /\ left.kind = "none"
  BY <1>3, <1>4 DEF NoGuard, Guard
<1>10. HIDE DEF left
<1>11. Mapped
  <2>1. CASE g.kind = "none"
    BY <1>4, <1>6, <1>8, <1>9, <2>1, MapStutter
  <2>2. CASE g.kind = "read"
    <3>1. g.count \in Nat /\ g.count > 0 /\ left.count = g.count - 1
      BY <1>3, <1>4, <1>9, <2>2
    <3>2. QED
      BY <1>4, <1>6, <1>8, <1>9, <3>1, MapReleaseRead
  <2>3. QED
    BY <1>3, <1>4, <2>1, <2>2
<1>12. word.readers < 2 * Overf
  BY DEF IInv, FieldInv
<1>13. CASE /\ has_one_reader(word) /\ ~word.locked /\ ~has_no_waiters(word)
            /\ Goto(t, "transfer", word', 0, r)
  <2>1. word.readers = 1 /\ word'.readers = 0
    BY <1>6, <1>13 DEF has_one_reader
  <2>2. g.count <= 1
    BY <1>1, <1>3, <1>5, <2>1, UnitsBound
  <2>3. guard'[t] = NoGuard /\ r = ret[t]
    BY <1>3, <1>8, <1>9, <2>2
  <2>4. \A u \in Threads : u # t => ~Wakes(pc[u])
    <3>1. \A u \in Threads : u # t => Units(u) = 0
      BY <1>5, <2>1, UnitsBound
    <3>2. QED
      BY <3>1, UnitsType
  <2>5. \A u \in Threads : ~Drains(pc[u])
    BY <1>7, <1>13, UnlockedWord
  <2>6. Others(t)
    BY <1>2, <1>13, GotoOthers
  <2>7. /\ LocalT(t)' /\ OwnsT(t)' /\ ~LocksT(t)' /\ pc'[t] \notin Unsettling
        /\ pc'[t] \notin Counted /\ ~Wakes(pc'[t]) /\ ~Drains(pc'[t]) /\ Units(t)' = 0
    <3>1. count'[t] = 0
      BY <1>2, <1>4
    <3>2. ~word'.locked /\ ~has_no_waiters(word')
      BY <1>6, <1>13 DEF has_no_waiters
    <3>3. Goto(t, "transfer", word', 0, ret[t])
      BY <1>13, <2>3
    <3>4. QED
      BY <1>4, <2>1, <2>3, <3>1, <3>2, <3>3, TransferLocal
  <2>8. ThreadInv'
    BY <1>6, <2>1, <2>6, <2>7, Facts, LocalStep DEF Calm
  <2>9. OwnerInv'
    BY <1>1, <1>4, <1>6, <1>7, <1>13, <2>1, <2>4, <2>5, <2>6, <2>7, OwnerStep
  <2>10. FieldInv'
    <3>1. Units(t) = 1
      BY <1>3, <1>5, <2>2
    <3>2. QED
      BY <1>1, <1>4, <1>6, <1>12, <2>1, <2>6, <2>7, <3>1, Facts, FieldStep
  <2>11. WritersInv'
    BY <1>2, <1>4, <2>6, <2>7, WritersStep
  <2>12. QED
    BY <1>1, <1>11, <2>8, <2>9, <2>10, <2>11 DEF IInv
<1>14. CASE Goto(t, ReturnTo(r), Blank, 0, r)
  <2>1. Others(t) /\ pc'[t] = ReturnTo(r)
    BY <1>2, <1>14, GotoOthers
  <2>2. CASE pc[t] = "held" /\ g.count > 1
    <3>1. /\ pc'[t] = "held" /\ ret'[t] = "idle" /\ req'[t] = req[t]
      BY <1>14, <2>2, GotoEffect, Facts DEF ReturnTo
    <3>2. guard'[t].kind = "read" /\ guard'[t].init = g.init /\ guard'[t].count = g.count - 1
      BY <1>2, <1>8, <1>9, <2>2
    <3>3. LocalT(t)'
      <4>1. GuardFits(pc'[t], ret'[t], guard'[t]) /\ RetFits(pc'[t], ret'[t])
        BY <1>1, <1>3, <2>2, <3>1, <3>2 DEF GuardFits, RetFits, Converting, Dropping
      <4>2. CasFits(pc'[t], cur'[t], ret'[t], req'[t])
        BY <3>1 DEF CasFits, Drains
      <4>3. PhaseFits(pc'[t], ret'[t], req'[t], guard'[t], word'.phase)
        BY <1>2, <1>3, <1>6, <2>2, <3>1, <3>2 DEF PhaseFits, Drains, Converting
      <4>4. BitsFit(pc'[t], cur'[t], word') /\ CountFits(pc'[t], count'[t])
        BY <1>2, <1>4, <3>1 DEF BitsFit, CountFits, Unsettling
      <4>5. QED
        BY <4>1, <4>2, <4>3, <4>4 DEF LocalT, Local
    <3>4. /\ ~OwnsT(t)' /\ ~LocksT(t)' /\ pc'[t] \notin Unsettling
          /\ pc'[t] \notin Counted /\ ~Wakes(pc'[t]) /\ ~Drains(pc'[t])
          /\ Units(t)' = Units(t) - 1
      BY <1>3, <1>5, <2>2, <3>1, <3>2 DEF OwnsT, Owns, LocksT, Unsettling, Counted, Wakes, Drains, Units
    <3>5. ThreadInv'
      BY <1>1, <1>6, <2>1, <3>3, LocalStep DEF Calm
    <3>6. OwnerInv'
      BY <1>1, <1>4, <1>6, <1>7, <2>1, <3>4, OwnerStep
    <3>7. FieldInv'
      BY <1>1, <1>4, <1>5, <1>6, <1>12, <2>1, <3>4, UnitsType, FieldStep
    <3>8. WritersInv'
      BY <1>2, <1>4, <2>1, <3>4, WritersStep
    <3>9. QED
      BY <1>1, <1>11, <3>5, <3>6, <3>7, <3>8 DEF IInv
  <2>3. CASE ~(pc[t] = "held" /\ g.count > 1)
    <3>1. r = ret[t] /\ g.count <= 1
      BY <1>2, <1>3, <1>4, <2>3
    <3>2. PICK l \in {"idle", "slow_load"} : Goto(t, l, Blank, 0, ret[t]) /\ pc'[t] = l
      BY <1>4, <1>14, <2>1, <3>1 DEF ReturnTo
    <3>3. guard'[t] = NoGuard /\ guard'[t].kind = "none" /\ guard'[t].count = 0
      BY <1>8, <1>9, <3>1, NoGuardFields
    <3>4. LocalT(t)'
      BY <1>2, <1>4, <3>2, <3>3, SpinFits, QuietLocal DEF Quiet
    <3>5. /\ ~OwnsT(t)' /\ ~LocksT(t)' /\ pc'[t] \notin Unsettling
          /\ pc'[t] \notin Counted /\ ~Wakes(pc'[t]) /\ ~Drains(pc'[t])
          /\ Units(t)' = Units(t) - 1
      BY <1>3, <1>5, <3>1, <3>2, <3>3 DEF OwnsT, Owns, LocksT, Unsettling, Counted, Wakes, Drains, Units
    <3>6. ThreadInv'
      BY <1>1, <1>6, <2>1, <3>4, LocalStep DEF Calm
    <3>7. OwnerInv'
      BY <1>1, <1>4, <1>6, <1>7, <2>1, <3>5, OwnerStep
    <3>8. FieldInv'
      BY <1>1, <1>4, <1>5, <1>6, <1>12, <2>1, <3>5, UnitsType, FieldStep
    <3>9. WritersInv'
      BY <1>2, <1>4, <2>1, <3>5, WritersStep
    <3>10. QED
      BY <1>1, <1>11, <3>6, <3>7, <3>8, <3>9 DEF IInv
  <2>4. QED
    BY <2>2, <2>3
<1>15. QED
  BY <1>13, <1>14 DEF DropReadLock
-----------------------------------------------------------------------------
(* transfer_lock: the thread that hands the lock over.                     *)
HandOver == {"transfer", "give_xor", "give_wake", "give_and", "wake_xor"}

LEMMA HandOverFacts ==
  ASSUME IInv, NEW t \in Threads, pc[t] \in HandOver
  PROVE  /\ OwnsT(t) /\ (LocksT(t) <=> ~Passes(pc[t], cur[t])) /\ (word.locked <=> LocksT(t))
         /\ word.readers = 0 /\ guard[t].kind = "none" /\ guard[t].count = 0 /\ count[t] = 0
         /\ Units(t) = 0 /\ ret[t] \in {"idle", "slow"} /\ BitsFit(pc[t], cur[t], word)
         /\ pc[t] \notin Counted /\ pc[t] \notin Unsettling
         /\ cur[t] \in Word
<1>1. OwnsT(t) /\ pc[t] \notin Counted /\ pc[t] \notin Unsettling /\ ~Drains(pc[t])
  BY DEF HandOver, OwnsT, Owns, Counted, Unsettling, Drains
<1>2. (LocksT(t) <=> ~Passes(pc[t], cur[t])) /\ (word.locked <=> LocksT(t)) /\ word.readers = 0
  BY <1>1, OwnerBit, OwnerAlone DEF LocksT
<1>3. /\ GuardFits(pc[t], ret[t], guard[t]) /\ RetFits(pc[t], ret[t]) /\ CountFits(pc[t], count[t])
      /\ BitsFit(pc[t], cur[t], word) /\ guard[t].kind \in {"none", "read", "write"}
      /\ cur[t] \in Word
  BY Facts DEF Local
<1>4. guard[t].kind = "none" /\ guard[t].count = 0 /\ count[t] = 0 /\ ret[t] \in {"idle", "slow"}
  BY <1>3 DEF HandOver, GuardFits, RetFits, CountFits, Converting, CloneCalls, Unsettling, Dropping
<1>5. QED
  BY <1>1, <1>2, <1>3, <1>4, NoReaders

(* It goes on handing over.                                                *)
LEMMA HandOverStep ==
  ASSUME IInv, TypeInv', NEW t \in Threads, pc[t] \in HandOver,
         NEW l \in HandOver \ {"transfer"}, NEW v, Goto(t, l, v, 0, ret[t]), BitsFit(l, v, word'),
         guard' = guard, count' = count, writer_count' = writer_count,
         word'.readers = word.readers, word'.phase = word.phase,
         word'.locked <=> ~Passes(l, v)
  PROVE  IInv' /\ Mapped
<1>1. /\ pc'[t] = l /\ cur'[t] = v /\ ret'[t] = ret[t] /\ req'[t] = req[t]
  BY GotoEffect, Facts DEF Forgetful, HandOver
<1>2. Others(t) /\ guard'[t] = guard[t] /\ count'[t] = count[t]
  BY GotoOthers
<1>3. /\ OwnsT(t)' /\ (LocksT(t)' <=> ~Passes(l, v)) /\ pc'[t] \notin Counted
  BY <1>1 DEF HandOver, OwnsT, Owns, LocksT, Drains, Counted
<1>4. LocalT(t)'
  <2>1. GuardFits(pc'[t], ret'[t], guard'[t]) /\ RetFits(pc'[t], ret'[t])
    BY <1>1, <1>2, HandOverFacts DEF GuardFits, RetFits, Converting, Dropping, HandOver
  <2>2. CasFits(pc'[t], cur'[t], ret'[t], req'[t])
    BY <1>1 DEF CasFits, Drains, HandOver
  <2>3. PhaseFits(pc'[t], ret'[t], req'[t], guard'[t], word'.phase)
    BY <1>1, <1>2, HandOverFacts DEF PhaseFits, Drains, Converting, HandOver
  <2>4. BitsFit(pc'[t], cur'[t], word') /\ CountFits(pc'[t], count'[t])
    BY <1>1, <1>2, HandOverFacts DEF CountFits, Unsettling, HandOver
  <2>5. QED
    BY <2>1, <2>2, <2>3, <2>4 DEF LocalT, Local
<1>5. WritersInv'
  BY <1>2, <1>3, HandOverFacts, WritersStep
<1>6. QED
  BY <1>2, <1>3, <1>4, <1>5, HandOverFacts, OwnerMove

(* TransferNext turns to a waiter whose bit is set.                        *)
LEMMA TransferNextFits ==
  ASSUME NEW b, NEW v, NEW w, ~v.locked, ~has_no_waiters(v), v.ww => w.ww, v.rw => w.rw
  PROVE  /\ TransferNext(b, v) \in {"give_xor", "wake_xor"}
         /\ BitsFit(TransferNext(b, v), v, w)
         /\ Passes(TransferNext(b, v), v)
<1>1. v.rw \/ v.ww
  BY DEF has_no_waiters
<1>2. \/ TransferNext(b, v) = "give_xor" /\ v.ww
      \/ TransferNext(b, v) = "wake_xor" /\ v.rw
  BY <1>1 DEF TransferNext
<1>3. QED
  BY <1>2 DEF BitsFit, Passes

LEMMA TransferLockInv ==
  ASSUME IInv, NEW t \in Threads, TransferLock(t)
  PROVE  IInv' /\ Mapped
<1>1. TypeInv'
  BY TransferLockType, Facts
<1>2. /\ pc[t] = "transfer" /\ pc[t] \in HandOver
      /\ word' = word /\ guard' = guard /\ count' = count /\ writer_count' = writer_count
  BY DEF TransferLock, futex, HandOver
<1>3. /\ ~cur[t].locked /\ has_no_readers(cur[t]) /\ ~has_no_waiters(cur[t])
      /\ cur[t].ww => word.ww
      /\ cur[t].rw => word.rw
      /\ ~word.locked
  BY <1>2, HandOverFacts DEF BitsFit, Passes
<1>4. Goto(t, TransferNext(prefer_wake_one_writer, cur[t]), cur[t], 0, ret[t])
  BY <1>3 DEF TransferLock, has_readers, has_no_readers
<1>5. PICK l \in {"give_xor", "wake_xor"} : /\ l = TransferNext(prefer_wake_one_writer, cur[t])
                                            /\ BitsFit(l, cur[t], word) /\ Passes(l, cur[t])
  BY <1>3, TransferNextFits
<1>6. QED
  BY <1>1, <1>2, <1>3, <1>4, <1>5, HandOverStep DEF HandOver

LEMMA GiveXorInv ==
  ASSUME IInv, NEW t \in Threads, GiveXor(t)
  PROVE  IInv' /\ Mapped
<1>1. TypeInv' /\ word \in Word /\ cur[t] \in Word
  BY GiveXorType, Facts
<1>2. /\ pc[t] = "give_xor" /\ pc[t] \in HandOver
      /\ word' = [word EXCEPT !.ww = ~@, !.locked = ~@]
      /\ guard' = guard /\ count' = count /\ writer_count' = writer_count
  BY DEF GiveXor, futex, HandOver
<1>3. /\ ~cur[t].locked /\ cur[t].ww /\ word.ww
      /\ cur[t].rw => word.rw
      /\ ~word.locked /\ word.readers = 0
  BY <1>2, HandOverFacts DEF BitsFit, Passes
<1>4. Goto(t, "give_wake", [cur[t] EXCEPT !.ww = ~@, !.locked = ~@], 0, ret[t])
  BY <1>3 DEF GiveXor, has_readers
<1>5. PICK v : v = [cur[t] EXCEPT !.ww = ~@, !.locked = ~@]
  OBVIOUS
<1>6. v.locked = ~cur[t].locked /\ v.rw = cur[t].rw
  BY <1>1, <1>5 DEF Word
<1>7. /\ word'.locked = ~word.locked /\ word'.readers = word.readers /\ word'.phase = word.phase
      /\ word'.rw = word.rw
  BY <1>1, <1>2 DEF Word
<1>8. BitsFit("give_wake", v, word') /\ ~Passes("give_wake", v)
  BY <1>3, <1>6, <1>7 DEF BitsFit, Passes
<1>9. QED
  BY <1>1, <1>2, <1>3, <1>4, <1>5, <1>7, <1>8, HandOverStep DEF HandOver

LEMMA GiveAndInv ==
  ASSUME IInv, NEW t \in Threads, GiveAnd(t)
  PROVE  IInv' /\ Mapped
<1>1. TypeInv' /\ word \in Word
  BY GiveAndType, Facts
<1>2. /\ pc[t] = "give_and" /\ pc[t] \in HandOver /\ word' = [word EXCEPT !.locked = FALSE]
      /\ guard' = guard /\ count' = count /\ writer_count' = writer_count
  BY DEF GiveAnd, futex, HandOver
<1>3. word.locked
  BY <1>2, HandOverFacts DEF Passes
<1>4. /\ ~word'.locked /\ word'.readers = word.readers /\ word'.phase = word.phase
      /\ word'.rw = word.rw /\ word'.ww = word.ww
  BY <1>1, <1>2 DEF Word
<1>5. CASE has_no_waiters(word)
  <2>1. Finish(t)
    BY <1>3, <1>5 DEF GiveAnd
  <2>2. guard'[t].kind = "none" /\ guard'[t].count = 0
    BY <1>2, HandOverFacts
  <2>3. IInv'
    BY <1>1, <1>2, <1>4, <2>1, <2>2, HandOverFacts, ReleaseStep
  <2>4. QED
    BY <1>2, <1>4, <2>3, MapStutter
<1>6. CASE ~has_no_waiters(word)
  <2>1. Goto(t, TransferNext(prefer[t], word'), word', 0, ret[t])
    BY <1>2, <1>3, <1>6 DEF GiveAnd
  <2>2. ~has_no_waiters(word')
    BY <1>4, <1>6 DEF has_no_waiters
  <2>3. PICK v : v = word'
    OBVIOUS
  <2>4. ~v.locked /\ ~has_no_waiters(v)
    BY <1>4, <2>2, <2>3
  <2>5. PICK l \in {"give_xor", "wake_xor"} : /\ l = TransferNext(prefer[t], v)
                                              /\ BitsFit(l, v, v) /\ Passes(l, v)
    BY <2>4, TransferNextFits
  <2>6. QED
    BY <1>1, <1>2, <1>4, <2>1, <2>3, <2>5, HandOverStep DEF HandOver
<1>7. QED
  BY <1>5, <1>6

(* The writer that is woken becomes the owner in the place of the thread   *)
(* that wakes it: the one step, with FutexWakeReaders, that moves two.     *)
LEMMA GiveWakeInv ==
  ASSUME IInv, NEW t \in Threads, GiveWake(t)
  PROVE  IInv' /\ Mapped
<1>1. TypeInv' /\ word \in Word
  BY GiveWakeType, Facts
<1>2. /\ pc[t] = "give_wake" /\ pc[t] \in HandOver
      /\ word' = word /\ guard' = guard /\ count' = count /\ writer_count' = writer_count
  BY DEF GiveWake, futex, HandOver
<1>3. /\ OwnsT(t) /\ LocksT(t) /\ word.locked /\ cur[t].locked
      /\ cur[t].rw => word.rw
      /\ guard[t].kind = "none" /\ guard[t].count = 0 /\ count[t] = 0 /\ word.readers = 0
      /\ ret[t] \in {"idle", "slow"}
  BY <1>2, HandOverFacts DEF BitsFit, Passes
<1>4. CASE Goto(t, IF prefer[t] /\ cur[t].rw THEN "wake_xor" ELSE "give_and", cur[t], 0, ret[t])
  <2>1. PICK l \in {"wake_xor", "give_and"} : /\ Goto(t, l, cur[t], 0, ret[t])
                                              /\ l = "wake_xor" => word.rw
    BY <1>3, <1>4
  <2>2. BitsFit(l, cur[t], word) /\ ~Passes(l, cur[t])
    BY <1>3, <2>1 DEF BitsFit, Passes
  <2>3. QED
    BY <1>1, <1>2, <1>3, <2>1, <2>2, HandOverStep DEF HandOver
<1>5. ASSUME NEW u \in Threads, pc[u] = "sleep_w",
             pc' = [pc EXCEPT ![u] = "woken_w", ![t] = ReturnTo(ret[t])],
             cur' = [cur EXCEPT ![t] = Blank],
             req' = [req EXCEPT ![t] = IF ReturnTo(ret[t]) = "idle" THEN NoRequest ELSE @],
             ret' = ret
      PROVE  IInv' /\ Mapped
  <2>1. /\ pc \in [Threads -> Locations] /\ cur \in [Threads -> Word]
        /\ req \in [Threads -> Requests \cup {NoRequest}]
    BY Facts DEF TypeInv, TypeOK
  <2>2. /\ u # t /\ pc'[u] = "woken_w" /\ pc'[t] = ReturnTo(ret[t])
        /\ \A x \in Threads : x # u /\ x # t => pc'[x] = pc[x]
        /\ \A x \in Threads : x # t => cur'[x] = cur[x] /\ req'[x] = req[x]
        /\ cur'[t] = Blank
        /\ req'[t] = IF ReturnTo(ret[t]) = "idle" THEN NoRequest ELSE req[t]
    BY <1>2, <1>5, <2>1
  <2>3. \/ ret[t] = "idle" /\ pc'[t] = "idle" /\ req'[t] = NoRequest
        \/ ret[t] = "slow" /\ pc'[t] = "slow_load"
    BY <1>3, <2>2 DEF ReturnTo
  <2>4. /\ guard[u].kind = "none" /\ guard[u].count = 0 /\ Units(u) = 0 /\ count[u] = 0
        /\ ret[u] # "clone" /\ pc[u] \in Quiet /\ pc[u] \in Calling
    BY <1>3, <1>5, <2>2, OwnerAlone, Caller DEF Quiet, Calling
  <2>5. Local(pc'[u], cur'[u], ret'[u], req'[u], guard'[u], count'[u], word')
    <3>1. CasFits(pc[u], cur[u], ret[u], req[u]) /\ ret[u] \in Returns \ {"dead"}
      BY <2>4, CallFacts
    <3>2. GuardFits("woken_w", ret[u], guard[u]) /\ RetFits("woken_w", ret[u])
      BY <2>4, <3>1 DEF GuardFits, RetFits, Converting, Dropping
    <3>3. CasFits("woken_w", cur[u], ret[u], req[u])
      BY <1>5, <3>1 DEF CasFits, Drains
    <3>4. PhaseFits("woken_w", ret[u], req[u], guard[u], word.phase)
      BY <2>4 DEF PhaseFits, Drains, Converting
    <3>5. BitsFit("woken_w", cur[u], word) /\ CountFits("woken_w", count[u])
      BY <2>4 DEF BitsFit, CountFits, Unsettling
    <3>6. QED
      BY <1>2, <1>5, <2>2, <3>2, <3>3, <3>4, <3>5 DEF Local
  <2>6. Local(pc'[t], cur'[t], ret'[t], req'[t], guard'[t], count'[t], word')
    <3>1. GuardFits(pc'[t], ret[t], guard[t]) /\ RetFits(pc'[t], ret[t])
      BY <1>3, <2>3 DEF GuardFits, RetFits, Converting, Dropping
    <3>2. CasFits(pc'[t], cur'[t], ret[t], req'[t])
      BY <2>3 DEF CasFits, Drains
    <3>3. PhaseFits(pc'[t], ret[t], req'[t], guard[t], word.phase)
      BY <1>3, <2>3 DEF PhaseFits, Drains, Converting
    <3>4. BitsFit(pc'[t], cur'[t], word) /\ CountFits(pc'[t], count[t])
      BY <1>3, <2>3 DEF BitsFit, CountFits, Unsettling
    <3>5. QED
      BY <1>2, <1>5, <3>1, <3>2, <3>3, <3>4 DEF Local
  <2>7. ThreadInv'
    <3>1. ASSUME NEW x \in Threads, x # t, x # u
          PROVE  Local(pc'[x], cur'[x], ret'[x], req'[x], guard'[x], count'[x], word')
      BY <1>2, <1>5, <2>2, <3>1, Facts
    <3>2. QED
      BY <2>5, <2>6, <3>1 DEF ThreadInv
  <2>8. OwnsT(u)' /\ LocksT(u)' /\ ~Wakes(pc'[u]) /\ ~Drains(pc'[u]) /\ pc'[u] \notin Unsettling
    BY <1>2, <2>2 DEF OwnsT, Owns, LocksT, Passes, Wakes, Drains, Unsettling
  <2>9. ASSUME NEW x \in Threads, x # u
        PROVE  /\ ~OwnsT(x)' /\ ~LocksT(x)' /\ ~Wakes(pc'[x]) /\ ~Drains(pc'[x])
               /\ pc'[x] \notin Unsettling
    <3>1. CASE x = t
      BY <1>2, <1>3, <2>3, <3>1 DEF OwnsT, Owns, LocksT, Wakes, Drains, Unsettling
    <3>2. CASE x # t
      BY <1>2, <1>3, <2>2, <2>9, <3>2, OwnerAlone DEF OwnsT, LocksT, Wakes
    <3>3. QED
      BY <3>1, <3>2
  <2>10. OwnerInv'
    BY <1>2, <1>3, <2>8, <2>9 DEF OwnerInv
  <2>11. FieldInv'
    <3>1. \A x \in Threads : Units(x)' = Units(x)
      <4>1. ASSUME NEW x \in Threads PROVE Units(x)' = Units(x)
        <5>1. CASE x = u
          BY <1>2, <1>5, <2>2, <5>1 DEF Units
        <5>2. CASE x = t
          BY <1>2, <2>3, <5>2 DEF Units
        <5>3. CASE x # u /\ x # t
          BY <1>2, <2>2, <5>3 DEF Units
        <5>4. QED
          BY <5>1, <5>2, <5>3
      <4>2. QED
        BY <4>1
    <3>2. ReadLocks' = ReadLocks
      BY <3>1, UnitsSame
    <3>3. \A x \in Threads : pc[x] \notin Unsettling
      BY <1>2, <1>3, OwnerAlone DEF Wakes, Unsettling
    <3>4. word.readers = Cardinality(ReadLocks) /\ word.readers < 2 * Overf
      BY <3>3 DEF IInv, FieldInv
    <3>5. QED
      BY <1>2, <2>8, <2>9, <3>2, <3>4 DEF FieldInv
  <2>12. WritersInv'
    <3>1. CountedWriters' = CountedWriters
      BY <1>2, <1>5, <2>2, <2>3 DEF CountedWriters, Counted
    <3>2. QED
      BY <1>2, <3>1 DEF IInv, WritersInv
  <2>13. Mapped
    BY <1>2, MapStutter
  <2>14. QED
    BY <1>1, <2>7, <2>10, <2>11, <2>12, <2>13 DEF IInv
<1>6. QED
  BY <1>4, <1>5 DEF GiveWake
-----------------------------------------------------------------------------
(* wake_readers.                                                           *)

(* Each thread of S gets one unit more.                                    *)
LEMMA UnitsUpAll ==
  ASSUME NEW S \in SUBSET Threads,
         \A u \in S : Units(u) \in Nat /\ Units(u) < MaxGuards /\ Units(u)' = Units(u) + 1,
         \A u \in Threads : u \notin S => Units(u)' = Units(u)
  PROVE  Cardinality(ReadLocks') = Cardinality(ReadLocks) + Cardinality(S)
<1> DEFINE f == [u \in S |-> <<u, Units(u) + 1>>]
           New == {<<u, Units(u) + 1>> : u \in S}
<1>1. ReadLocks' = ReadLocks \cup New
  <2>1. ASSUME NEW x \in Threads \X (1..MaxGuards)
        PROVE  x[2] <= Units(x[1])' <=> (x[2] <= Units(x[1]) \/ x \in New)
    <3>1. CASE x[1] \in S
      <4>1. x \in New <=> x[2] = Units(x[1]) + 1
        BY <3>1
      <4>2. x[2] \in Nat
        BY SyncAssumption
      <4>3. QED
        BY <3>1, <4>1, <4>2
    <3>2. CASE x[1] \notin S
      BY <3>2
    <3>3. QED
      BY <3>1, <3>2
  <2>2. New \subseteq Threads \X (1..MaxGuards)
    BY SyncAssumption
  <2>3. QED
    BY <2>1, <2>2 DEF ReadLocks
<1>2. ReadLocks \cap New = {}
  BY DEF ReadLocks
<1>3. IsFiniteSet(S)
  BY FS_Subset, SyncAssumption
<1>4. f \in Bijection(S, New)
  <2>1. f \in [S -> New] /\ \A u \in S : f[u] = <<u, Units(u) + 1>>
    OBVIOUS
  <2>2. \A u, x \in S : f[u] = f[x] => u = x
    BY <2>1
  <2>3. \A y \in New : \E u \in S : f[u] = y
    BY <2>1
  <2>4. HIDE DEF f, New
  <2>5. QED
    BY <2>1, <2>2, <2>3 DEF Bijection, Injection, IsInjective, Surjection
<1>5. IsFiniteSet(New) /\ Cardinality(New) = Cardinality(S)
  <2>1. HIDE DEF f, New
  <2>2. ExistsBijection(S, New)
    BY <1>4 DEF ExistsBijection
  <2>3. QED
    BY <1>3, <2>2, FS_Bijection
<1>6. Cardinality(S) \in Nat
  BY <1>3, FS_CardinalityType
<1>7. HIDE DEF f, New
<1>8. Cardinality(ReadLocks \cup New)
        = Cardinality(ReadLocks) + Cardinality(New) - Cardinality(ReadLocks \cap New)
  BY <1>5, ReadLocksFinite, FS_Union
<1>9. Cardinality(ReadLocks \cap New) = 0
  BY <1>2, FS_EmptySet
<1>10. QED
  BY <1>1, <1>5, <1>6, <1>8, <1>9, ReadLocksFinite

(* While one thread wakes readers, only it settles the field.              *)
LEMMA WakerField ==
  ASSUME IInv, NEW t \in Threads, Others(t), Wakes(pc[t]), Units(t)' = Units(t),
         pc'[t] \in Unsettling =>
           word'.readers = Cardinality(ReadLocks) + (Overf - count'[t]),
         pc'[t] \notin Unsettling => word'.readers = Cardinality(ReadLocks),
         word'.readers < 2 * Overf
  PROVE  FieldInv'
<1>1. \A u \in Threads : u # t => ~Wakes(pc[u])
  BY DEF IInv, OwnerInv
<1>2. \A u \in Threads : u # t => pc'[u] \notin Unsettling
  BY <1>1 DEF Others, Wakes
<1>3. \A u \in Threads : Units(u)' = Units(u)
  BY DEF Others, Units
<1>4. ReadLocks' = ReadLocks
  BY <1>3, UnitsSame
<1>5. QED
  BY <1>2, <1>4 DEF FieldInv

(* What a thread is that wakes readers.                                    *)
LEMMA WakerFacts ==
  ASSUME IInv, NEW t \in Threads, Wakes(pc[t])
  PROVE  /\ ~OwnsT(t) /\ ~Drains(pc[t]) /\ ~LocksT(t) /\ pc[t] \notin Counted
         /\ Units(t) = 1 /\ word.readers >= 1 /\ has_readers(word)
         /\ \A u \in Threads : ~OwnsT(u) /\ (u # t => ~Wakes(pc[u]))
         /\ pc[t] \in Converting => guard[t].kind = "read" /\ guard[t].count = 1
         /\ pc[t] \notin Converting => guard[t].kind = "none" /\ guard[t].count = 0
                                       /\ ret[t] \in {"idle", "slow"}
         /\ GuardFits(pc[t], ret[t], guard[t]) /\ RetFits(pc[t], ret[t])
         /\ CountFits(pc[t], count[t]) /\ BitsFit(pc[t], cur[t], word)
         /\ PhaseFits(pc[t], ret[t], req[t], guard[t], word.phase)
         /\ guard[t] \in Guard /\ count[t] \in Nat /\ word.readers \in Int
         /\ ret[t] # "clone"
<1>1. /\ GuardFits(pc[t], ret[t], guard[t]) /\ RetFits(pc[t], ret[t])
      /\ CountFits(pc[t], count[t]) /\ BitsFit(pc[t], cur[t], word)
      /\ PhaseFits(pc[t], ret[t], req[t], guard[t], word.phase)
      /\ guard[t] \in Guard /\ count[t] \in Nat /\ guard[t].kind \in {"none", "read", "write"}
      /\ word.readers \in Int /\ guard[t].count \in 0..MaxGuards /\ MaxGuards \in Nat
  BY Facts DEF Local
<1>2. ret[t] # "clone"
  BY <1>1 DEF Wakes, Unsettling, GuardFits, CloneCalls
<1>3. /\ pc[t] \in Converting => guard[t].kind = "read" /\ guard[t].count = 1
      /\ pc[t] \notin Converting => guard[t].kind = "none" /\ guard[t].count = 0
  BY <1>1, <1>2 DEF Wakes, Unsettling, GuardFits, Converting
<1>4. pc[t] \notin Converting => ret[t] \in {"idle", "slow"}
  BY <1>1 DEF Wakes, Unsettling, RetFits, Dropping, Converting
<1>5. ~OwnsT(t) /\ ~Drains(pc[t]) /\ ~LocksT(t) /\ pc[t] \notin Counted
  BY <1>3 DEF Wakes, Unsettling, OwnsT, Owns, Drains, LocksT, Counted
<1>6. Units(t) = 1 /\ word.readers >= 1 /\ has_readers(word)
  BY <1>1, UnitsType, UnitsBound DEF has_readers
<1>7. \A u \in Threads : ~OwnsT(u) /\ (u # t => ~Wakes(pc[u]))
  BY <1>6, ReadersOnly DEF IInv, OwnerInv
<1>8. QED
  BY <1>1, <1>2, <1>3, <1>4, <1>5, <1>6, <1>7

(* It goes on waking, or is done with it.                                  *)
LEMMA WakerStep ==
  ASSUME IInv, TypeInv', NEW t \in Threads, Others(t), Wakes(pc[t]), LocalT(t)', FieldInv',
         ~OwnsT(t)', ~LocksT(t)', ~Drains(pc'[t]), pc'[t] \notin Counted,
         word'.phase = word.phase, word'.locked = word.locked,
         writer_count' = writer_count, guard'[t].count = guard[t].count,
         guard'[t].kind # "write"
  PROVE  IInv' /\ Mapped
<1>1. ThreadInv'
  BY LocalStep
<1>2. word' \in Word
  BY DEF TypeInv, TypeOK
<1>3. OwnerInv'
  BY <1>2, WakerFacts, OwnerStep
<1>4. WritersInv'
  BY WakerFacts, WritersStep
<1>5. guard[t].kind # "write"
  BY WakerFacts DEF OwnsT, Owns
<1>6. Mapped
  BY <1>5, MapStutter DEF Others
<1>7. QED
  BY <1>1, <1>3, <1>4, <1>6 DEF IInv

(* wake_readers has been entered: where it goes after its first access.    *)
LEMMA WakingLocal ==
  ASSUME IInv, NEW t \in Threads, NEW l \in Unsettling, pc'[t] = l, ret'[t] = ret[t],
         req'[t] = req[t], guard'[t] = guard[t], word'.phase = word.phase,
         CountFits(l, count'[t]),
         \/ Wakes(pc[t]) /\ (l \in Converting <=> pc[t] \in Converting)
         \/ pc[t] \in HandOver /\ l \notin Converting
  PROVE  /\ LocalT(t)' /\ ~OwnsT(t)' /\ ~LocksT(t)' /\ ~Drains(pc'[t]) /\ pc'[t] \notin Counted
         /\ Units(t)' = 1
<1>1. /\ l \in Converting => guard[t].kind = "read" /\ guard[t].count = 1 /\ Wakes(pc[t])
                             /\ pc[t] \in Converting
      /\ l \notin Converting => guard[t].kind = "none" /\ guard[t].count = 0
                                /\ ret[t] \in {"idle", "slow"}
      /\ ret[t] # "clone" /\ ret[t] # "dead"
  BY WakerFacts, HandOverFacts DEF RetFits
<1>2. MaxGuards \in Nat /\ MaxGuards >= 1
  BY Facts
<1>3. GuardFits(pc'[t], ret'[t], guard'[t]) /\ RetFits(pc'[t], ret'[t])
  BY <1>1, <1>2 DEF GuardFits, RetFits, Unsettling, Converting, Dropping
<1>4. CasFits(pc'[t], cur'[t], ret'[t], req'[t]) /\ BitsFit(pc'[t], cur'[t], word')
  BY DEF CasFits, Drains, BitsFit, Unsettling
<1>5. PhaseFits(pc'[t], ret'[t], req'[t], guard'[t], word'.phase)
  <2>1. CASE l \in Converting
    <3>1. PhaseFits(pc[t], ret[t], req[t], guard[t], word.phase)
      BY <1>1, <2>1, WakerFacts
    <3>2. QED
      BY <1>1, <2>1, <3>1 DEF PhaseFits, Drains, Converting, Unsettling
  <2>2. CASE l \notin Converting
    BY <1>1, <2>2 DEF PhaseFits, Drains, Unsettling
  <2>3. QED
    BY <2>1, <2>2
<1>6. LocalT(t)'
  BY <1>3, <1>4, <1>5 DEF LocalT, Local
<1>7. ~OwnsT(t)' /\ ~LocksT(t)' /\ ~Drains(pc'[t]) /\ pc'[t] \notin Counted
  BY <1>1 DEF Unsettling, OwnsT, Owns, LocksT, Drains, Counted
<1>8. Units(t)' = 1
  BY <1>1 DEF Units, Unsettling, Converting
<1>9. QED
  BY <1>6, <1>7, <1>8

LEMMA WakeXorInv ==
  ASSUME IInv, NEW t \in Threads, WakeXor(t)
  PROVE  IInv' /\ Mapped
<1>1. TypeInv' /\ word \in Word /\ Overf \in Nat /\ Overf > 1 /\ MaxGuards \in Nat /\ MaxGuards >= 1
      /\ word' \in Word
  BY WakeXorType, Facts DEF TypeInv, TypeOK
<1>2. /\ pc[t] = "wake_xor" /\ pc[t] \in HandOver
      /\ word' = [word EXCEPT !.rw = ~@, !.readers = FlipOverf(FlipUnity(@)),
                              !.locked = IF cur[t].locked THEN ~@ ELSE @]
      /\ guard' = guard /\ count' = count /\ writer_count' = writer_count
  BY DEF WakeXor, futex, HandOver
<1>3. /\ OwnsT(t) /\ word.readers = 0 /\ guard[t].kind = "none" /\ guard[t].count = 0
      /\ count[t] = 0 /\ Units(t) = 0 /\ ret[t] \in {"idle", "slow"}
      /\ (word.locked <=> LocksT(t)) /\ pc[t] \notin Counted
      /\ cur[t] \in Word
  BY <1>2, HandOverFacts
<1>4. word.locked = cur[t].locked
  <2>1. word.locked <=> cur[t].locked
    BY <1>2, HandOverFacts DEF Passes
  <2>2. QED
    BY <1>1, <1>3, <2>1 DEF Word
<1>5. Goto(t, "wake_call", Blank, 0, ret[t])
  BY <1>3, <1>4 DEF WakeXor
<1>6. FlipOverf(FlipUnity(word.readers)) = 1 + Overf
  BY <1>1, <1>3 DEF FlipOverf, FlipUnity
<1>7. word'.phase = word.phase /\ word'.readers = 1 + Overf
  BY <1>1, <1>2, <1>6 DEF Word
<1>8. ~word'.locked
  <2>1. word'.locked = IF cur[t].locked THEN ~word.locked ELSE word.locked
    BY <1>1, <1>2 DEF Word
  <2>2. QED
    BY <1>4, <2>1
<1>9. /\ pc'[t] = "wake_call" /\ ret'[t] = ret[t] /\ req'[t] = req[t]
      /\ guard'[t] = guard[t] /\ count'[t] = 0
  BY <1>2, <1>3, <1>5, GotoEffect, Facts
<1>10. Others(t)
  BY <1>2, <1>5, GotoOthers
<1>11. /\ LocalT(t)' /\ ~OwnsT(t)' /\ ~LocksT(t)' /\ ~Drains(pc'[t]) /\ pc'[t] \notin Counted
       /\ Units(t)' = 1
  <2>1. CountFits("wake_call", 0) /\ "wake_call" \in Unsettling /\ "wake_call" \notin Converting
    BY <1>1 DEF CountFits, Unsettling, Converting
  <2>2. QED
    BY <1>2, <1>7, <1>9, <2>1, WakingLocal
<1>12. ThreadInv'
  BY <1>3, <1>10, <1>11, LocalStep
<1>13. OwnerInv'
  BY <1>1, <1>3, <1>8, <1>10, <1>11, OwnerAlone, OwnerStep
<1>14. FieldInv'
  <2>1. \A u \in Threads : pc[u] \notin Unsettling
    BY <1>2, <1>3, OwnerAlone DEF Wakes, Unsettling
  <2>2. Cardinality(ReadLocks) = 0
    BY <1>3, <2>1 DEF IInv, FieldInv
  <2>3. \A u \in Threads : u # t => Units(u)' = Units(u)
    BY <1>10 DEF Others, Units
  <2>4. Cardinality(ReadLocks') = 1
    BY <1>1, <1>3, <1>11, <2>2, <2>3, UnitsUp
  <2>5. \A u \in Threads : u # t => pc'[u] \notin Unsettling
    BY <1>10, <2>1 DEF Others
  <2>6. pc'[t] \in Unsettling
    BY <1>9 DEF Unsettling
  <2>7. QED
    BY <1>1, <1>7, <1>9, <2>4, <2>5, <2>6 DEF FieldInv
<1>15. WritersInv'
  BY <1>2, <1>3, <1>10, <1>11, WritersStep
<1>16. Mapped
  BY <1>2, <1>7, MapStutter
<1>17. QED
  BY <1>1, <1>12, <1>13, <1>14, <1>15, <1>16 DEF IInv

(* In a conversion nobody else holds LOCKED_BIT: a thread that drains      *)
(* would write in a phase in which another converts.                       *)
LEMMA ConvertUnlocked ==
  ASSUME ConvertersAgree, IInv, NEW t \in Threads, pc[t] = "conv_xor"
  PROVE  ~word.locked
<1>1. Wakes(pc[t]) /\ pc[t] \in Converting /\ word.phase \in Phases
  BY Facts DEF Wakes, Converting
<1>2. ASSUME NEW u \in Threads, LocksT(u) PROVE FALSE
  <2>1. u # t /\ Drains(pc[u])
    BY <1>1, <1>2, WakerFacts DEF LocksT
  <2>2. req[u] \in Requests /\ How[req[u]][word.phase] = "Write"
    BY <2>1, DrainFacts
  <2>3. req[t] \in Requests /\ MayConvert(req[t], word.phase)
    BY <1>1, WakerFacts DEF PhaseFits
  <2>4. QED
    BY <1>1, <2>2, <2>3 DEF ConvertersAgree
<1>3. QED
  BY <1>2 DEF IInv, OwnerInv

LEMMA ConvertXorInv ==
  ASSUME IInv, NEW t \in Threads, ConvertXor(t), ~word.locked
  PROVE  IInv' /\ Mapped
<1>1. TypeInv' /\ word \in Word /\ Overf \in Nat /\ Overf > 1 /\ word.readers \in Int
      /\ word.phase \in Phases
  BY ConvertXorType, Facts
<1>2. /\ pc[t] = "conv_xor" /\ Wakes(pc[t]) /\ pc[t] \in Converting
      /\ word' = [word EXCEPT !.rw = ~@, !.readers = FlipOverf(@)]
      /\ count' = count /\ writer_count' = writer_count
  BY DEF ConvertXor, futex, Wakes, Converting
<1>4. Goto(t, "conv_call", Blank, 0, ret[t]) /\ guard' = guard
  BY DEF ConvertXor
<1>5. /\ pc'[t] = "conv_call" /\ ret'[t] = ret[t] /\ req'[t] = req[t]
      /\ guard'[t] = guard[t] /\ count'[t] = count[t]
  BY <1>2, <1>4, GotoEffect, Facts
<1>6. Others(t)
  BY <1>2, <1>4, GotoOthers
<1>7. count[t] = 0 /\ word.readers < Overf /\ word.readers >= 1 /\ Units(t) = 1
  BY <1>2, WakerFacts DEF CountFits, BitsFit, Unsettling
<1>8. /\ word'.phase = word.phase /\ word'.locked = word.locked
      /\ word'.readers = word.readers + Overf
  BY <1>1, <1>2, <1>7 DEF Word, FlipOverf
<1>9. "conv_call" \in Unsettling /\ "conv_call" \in Converting /\ CountFits("conv_call", count'[t])
  BY <1>1, <1>5, <1>7 DEF Unsettling, Converting, CountFits
<1>10. /\ LocalT(t)' /\ ~OwnsT(t)' /\ ~LocksT(t)' /\ ~Drains(pc'[t]) /\ pc'[t] \notin Counted
       /\ Units(t)' = 1
  BY <1>2, <1>5, <1>8, <1>9, WakingLocal
<1>11. FieldInv'
  <2>1. \A u \in Threads : pc[u] \notin Unsettling
    BY <1>2, WakerFacts DEF Wakes, Unsettling
  <2>2. word.readers = Cardinality(ReadLocks)
    BY <2>1 DEF IInv, FieldInv
  <2>3. QED
    BY <1>1, <1>2, <1>5, <1>6, <1>7, <1>8, <1>9, <1>10, <2>2, WakerField
<1>12. guard'[t].count = guard[t].count /\ guard'[t].kind # "write"
  BY <1>2, <1>5, WakerFacts
<1>13. QED
  BY <1>1, <1>2, <1>6, <1>8, <1>10, <1>11, <1>12, WakerStep

LEMMA OrReadWaiterInv ==
  ASSUME IInv, NEW t \in Threads, OrReadWaiter(t)
  PROVE  IInv' /\ Mapped
<1>1. TypeInv' /\ word \in Word /\ Overf \in Nat
  BY OrReadWaiterType, Facts
<1>2. /\ pc[t] \in {"wake_or", "conv_or"} /\ Wakes(pc[t]) /\ pc[t] \in Unsettling
      /\ word' = [word EXCEPT !.rw = TRUE]
      /\ guard' = guard /\ count' = count /\ writer_count' = writer_count
  BY DEF OrReadWaiter, futex, Wakes, Unsettling
<1>3. PICK l \in Unsettling : /\ Goto(t, l, Blank, 0, ret[t])
                              /\ l \in {"wake_sub", "conv_sub"}
                              /\ l \in Converting <=> pc[t] \in Converting
  BY <1>2 DEF OrReadWaiter, Unsettling, Converting
<1>4. /\ pc'[t] = l /\ ret'[t] = ret[t] /\ req'[t] = req[t]
      /\ guard'[t] = guard[t] /\ count'[t] = count[t]
  BY <1>2, <1>3, GotoEffect, Facts
<1>5. Others(t)
  BY <1>2, <1>3, GotoOthers
<1>6. /\ word'.phase = word.phase /\ word'.locked = word.locked /\ word'.readers = word.readers
  BY <1>1, <1>2 DEF Word
<1>7. CountFits(l, count'[t])
  BY <1>2, <1>3, <1>4, WakerFacts DEF CountFits
<1>8. /\ LocalT(t)' /\ ~OwnsT(t)' /\ ~LocksT(t)' /\ ~Drains(pc'[t]) /\ pc'[t] \notin Counted
      /\ Units(t)' = 1
  BY <1>2, <1>3, <1>4, <1>6, <1>7, WakingLocal
<1>9. FieldInv'
  <2>1. word.readers = Cardinality(ReadLocks) + (Overf - count[t]) /\ word.readers < 2 * Overf
    BY <1>2 DEF IInv, FieldInv
  <2>2. Units(t) = 1
    BY <1>2, WakerFacts
  <2>3. QED
    BY <1>2, <1>3, <1>4, <1>5, <1>6, <1>8, <2>1, <2>2, WakerField
<1>10. guard'[t].count = guard[t].count /\ guard'[t].kind # "write"
  BY <1>2, <1>4, WakerFacts
<1>11. QED
  BY <1>1, <1>2, <1>5, <1>6, <1>8, <1>9, <1>10, WakerStep

LEMMA WakeSubInv ==
  ASSUME IInv, NEW t \in Threads, WakeSub(t)
  PROVE  IInv' /\ Mapped
<1>1. TypeInv' /\ word \in Word /\ Overf \in Nat /\ word.readers \in Int /\ MaxGuards \in Nat
      /\ MaxGuards >= 1
  BY WakeSubType, Facts
<1>2. /\ pc[t] \in {"wake_sub", "conv_sub"} /\ Wakes(pc[t]) /\ pc[t] \in Unsettling
      /\ word' = [word EXCEPT !.readers = @ - (Overf - count[t])]
      /\ count' = [count EXCEPT ![t] = 0] /\ writer_count' = writer_count
  BY DEF WakeSub, futex, Wakes, Unsettling
<1>3. count[t] \in Nat /\ count[t] <= Overf /\ Units(t) = 1
  BY <1>2, WakerFacts DEF CountFits
<1>4. /\ word'.phase = word.phase /\ word'.locked = word.locked
      /\ word'.readers = word.readers - (Overf - count[t])
  BY <1>1, <1>2 DEF Word
<1>5. word.readers = Cardinality(ReadLocks) + (Overf - count[t]) /\ word.readers < 2 * Overf
  BY <1>2 DEF IInv, FieldInv
<1>6. word'.readers = Cardinality(ReadLocks) /\ word'.readers < 2 * Overf
  BY <1>1, <1>3, <1>4, <1>5, ReadLocksFinite
<1>7. count'[t] = 0
  BY <1>2, CountEffect
<1>8. CASE pc[t] = "wake_sub"
  <2>1. Goto(t, "read_drop", Blank, 0, ret[t]) /\ guard' = guard
    BY <1>8 DEF WakeSub
  <2>2. /\ pc'[t] = "read_drop" /\ ret'[t] = ret[t] /\ req'[t] = req[t] /\ guard'[t] = guard[t]
    BY <2>1, GotoEffect, Facts
  <2>3. Others(t)
    BY <1>2, <2>1, GotoOthers
  <2>4. guard[t].kind = "none" /\ guard[t].count = 0 /\ ret[t] \in {"idle", "slow"}
    BY <1>2, <1>8, WakerFacts DEF Converting
  <2>5. LocalT(t)'
    <3>1. GuardFits(pc'[t], ret'[t], guard'[t]) /\ RetFits(pc'[t], ret'[t])
      BY <2>2, <2>4 DEF GuardFits, RetFits, Converting, Dropping
    <3>2. CasFits(pc'[t], cur'[t], ret'[t], req'[t]) /\ BitsFit(pc'[t], cur'[t], word')
      BY <2>2 DEF CasFits, Drains, BitsFit
    <3>3. PhaseFits(pc'[t], ret'[t], req'[t], guard'[t], word'.phase)
      BY <2>2, <2>4 DEF PhaseFits, Drains, Converting
    <3>4. CountFits(pc'[t], count'[t])
      BY <1>7, <2>2 DEF CountFits, Unsettling
    <3>5. QED
      BY <3>1, <3>2, <3>3, <3>4 DEF LocalT, Local
  <2>6. /\ ~OwnsT(t)' /\ ~LocksT(t)' /\ ~Drains(pc'[t]) /\ pc'[t] \notin Counted
        /\ pc'[t] \notin Unsettling /\ Units(t)' = 1
    BY <2>2, <2>4 DEF OwnsT, Owns, LocksT, Drains, Counted, Unsettling, Units
  <2>7. FieldInv'
    BY <1>2, <1>3, <1>6, <2>3, <2>6, WakerField
  <2>8. QED
    BY <1>1, <1>2, <1>4, <2>2, <2>3, <2>4, <2>5, <2>6, <2>7, WakerStep
<1>9. CASE pc[t] = "conv_sub"
  <2>1. Acquired(t, ReadLock(word.phase))
    BY <1>9 DEF WakeSub
  <2>2. /\ pc'[t] = "held" /\ ret'[t] = "idle" /\ req'[t] = req[t]
        /\ guard'[t] = ReadLock(word.phase) /\ Others(t)
    BY <1>2, <2>1, AcquiredEffect
  <2>3. guard'[t].kind = "read" /\ guard'[t].count = 1 /\ guard'[t].init = word.phase
    BY <2>2 DEF ReadLock
  <2>4. guard[t].count = 1 /\ PhaseFits(pc[t], ret[t], req[t], guard[t], word.phase)
    BY <1>2, <1>9, WakerFacts DEF Converting
  <2>5. LocalT(t)'
    <3>1. GuardFits(pc'[t], ret'[t], guard'[t]) /\ RetFits(pc'[t], ret'[t])
      BY <1>1, <2>2, <2>3 DEF GuardFits, RetFits, Converting, Dropping
    <3>2. CasFits(pc'[t], cur'[t], ret'[t], req'[t]) /\ BitsFit(pc'[t], cur'[t], word')
      BY <2>2 DEF CasFits, Drains, BitsFit
    <3>3. PhaseFits(pc'[t], ret'[t], req'[t], guard'[t], word'.phase)
      <4>1. MayConvert(req[t], word.phase)
        BY <1>9, <2>4 DEF PhaseFits, Converting
      <4>2. QED
        BY <1>4, <2>2, <2>3, <4>1 DEF PhaseFits, Drains, Converting, MayConvert
    <3>4. CountFits(pc'[t], count'[t])
      BY <1>7, <2>2 DEF CountFits, Unsettling
    <3>5. QED
      BY <3>1, <3>2, <3>3, <3>4 DEF LocalT, Local
  <2>6. /\ ~OwnsT(t)' /\ ~LocksT(t)' /\ ~Drains(pc'[t]) /\ pc'[t] \notin Counted
        /\ pc'[t] \notin Unsettling /\ Units(t)' = 1
    BY <2>2, <2>3 DEF OwnsT, Owns, LocksT, Drains, Counted, Unsettling, Units
  <2>7. FieldInv'
    BY <1>2, <1>3, <1>6, <2>2, <2>6, WakerField
  <2>8. QED
    BY <1>1, <1>2, <1>4, <2>2, <2>3, <2>4, <2>5, <2>6, <2>7, WakerStep
<1>10. QED
  BY <1>2, <1>8, <1>9

(* Each reader that is woken gets a unit, and the waker owes one less.     *)
LEMMA FutexWakeReadersInv ==
  ASSUME IInv, NEW t \in Threads, FutexWakeReaders(t)
  PROVE  IInv' /\ Mapped
<1> DEFINE sleepers == {u \in Threads : pc[u] = "sleep_r"}
<1>1. TypeInv' /\ word \in Word /\ Overf \in Nat /\ MaxGuards \in Nat /\ word.readers \in Int
  BY FutexWakeReadersType, Facts
<1>2. /\ pc[t] \in {"wake_call", "conv_call"} /\ Wakes(pc[t]) /\ pc[t] \in Unsettling
      /\ word' = word /\ guard' = guard /\ writer_count' = writer_count
      /\ req' = req /\ cur' = cur /\ ret' = ret
  BY DEF FutexWakeReaders, Wakes, Unsettling
<1>3. PICK S \in SUBSET sleepers :
        /\ Cardinality(S) = IF Cardinality(sleepers) < Overf THEN Cardinality(sleepers) ELSE Overf
        /\ count' = [count EXCEPT ![t] = Cardinality(S)]
        /\ pc' = [u \in Threads |->
                    IF u = t
                      THEN IF pc[t] = "wake_call"
                             THEN IF Cardinality(S) = Overf THEN "wake_or" ELSE "wake_sub"
                             ELSE IF Cardinality(S) = Overf THEN "conv_or" ELSE "conv_sub"
                      ELSE IF u \in S THEN "woken_r" ELSE pc[u]]
  BY DEF FutexWakeReaders
<1>4. /\ IsFiniteSet(S) /\ Cardinality(S) \in Nat /\ Cardinality(sleepers) \in Nat
      /\ S \in SUBSET Threads /\ \A u \in S : pc[u] = "sleep_r" /\ u # t
  <2>1. S \in SUBSET Threads /\ sleepers \in SUBSET Threads
    OBVIOUS
  <2>2. IsFiniteSet(S) /\ IsFiniteSet(sleepers)
    BY <2>1, FS_Subset, SyncAssumption
  <2>3. QED
    BY <1>2, <2>1, <2>2, FS_CardinalityType
<1>5. PICK n \in Nat : n = Cardinality(S)
  BY <1>4
<1>6. n <= Overf
  BY <1>1, <1>3, <1>4, <1>5
<1>7. /\ pc'[t] \in {"wake_or", "wake_sub", "conv_or", "conv_sub"}
      /\ pc'[t] \in Converting <=> pc[t] \in Converting
      /\ \A u \in S : pc'[u] = "woken_r"
      /\ \A u \in Threads : u # t /\ u \notin S => pc'[u] = pc[u]
      /\ count'[t] = n
      /\ \A u \in Threads : u # t => count'[u] = count[u]
  <2>1. /\ pc'[t] \in {"wake_or", "wake_sub", "conv_or", "conv_sub"}
        /\ pc'[t] \in Converting <=> pc[t] \in Converting
    BY <1>2, <1>3 DEF Converting
  <2>2. /\ \A u \in S : pc'[u] = "woken_r"
        /\ \A u \in Threads : u # t /\ u \notin S => pc'[u] = pc[u]
    BY <1>3, <1>4
  <2>3. count'[t] = n /\ \A u \in Threads : u # t => count'[u] = count[u]
    BY <1>3, <1>5, CountEffect
  <2>4. QED
    BY <2>1, <2>2, <2>3
<1>8. /\ LocalT(t)' /\ ~OwnsT(t)' /\ ~LocksT(t)' /\ ~Drains(pc'[t]) /\ pc'[t] \notin Counted
      /\ Units(t)' = 1 /\ pc'[t] \in Unsettling
  <2>1. pc'[t] \in Unsettling /\ CountFits(pc'[t], count'[t])
    BY <1>6, <1>7 DEF Unsettling, CountFits
  <2>2. PICK l \in Unsettling : l = pc'[t]
    BY <2>1
  <2>3. QED
    BY <1>2, <1>7, <2>1, <2>2, WakingLocal
<1>9. ASSUME NEW u \in S
      PROVE  /\ LocalT(u)' /\ ~OwnsT(u)' /\ ~LocksT(u)' /\ ~Drains(pc'[u]) /\ ~Wakes(pc'[u])
             /\ pc'[u] \notin Unsettling /\ pc[u] \notin Counted /\ pc'[u] \notin Counted
             /\ Units(u) \in Nat /\ Units(u) < MaxGuards /\ Units(u)' = Units(u) + 1
             /\ ~Wakes(pc[u]) /\ ~Drains(pc[u]) /\ ~LocksT(u)
  <2>1. u \in Threads /\ pc[u] = "sleep_r" /\ pc[u] \in Quiet /\ pc'[u] = "woken_r"
        /\ pc[u] \in Calling /\ pc[u] \notin Counted
    BY <1>4, <1>7 DEF Quiet, Calling, Counted
  <2>2. /\ guard[u].kind # "write" /\ count[u] = 0 /\ guard[u].kind \in {"none", "read", "write"}
        /\ ret[u] = "clone" <=> guard[u].kind = "read"
        /\ ret[u] = "clone" => guard[u].count < MaxGuards
        /\ ret[u] # "clone" => guard[u].kind = "none" /\ guard[u].count = 0
        /\ Units(u) = guard[u].count /\ guard[u].count \in 0..MaxGuards /\ MaxGuards >= 1
        /\ ~Wakes(pc[u]) /\ ~Drains(pc[u]) /\ ~LocksT(u)
    BY <2>1, Caller, Facts
  <2>3. Local(pc[u], cur[u], ret[u], req[u], guard[u], count[u], word)
    BY <2>1, Facts
  <2>4. GuardFits("woken_r", ret[u], guard[u]) /\ RetFits("woken_r", ret[u])
    BY <2>1, <2>2, <2>3 DEF Local, GuardFits, RetFits, Converting, CloneCalls, Dropping
  <2>5. CasFits("woken_r", cur[u], ret[u], req[u]) /\ BitsFit("woken_r", cur[u], word)
    BY DEF CasFits, Drains, BitsFit
  <2>6. PhaseFits("woken_r", ret[u], req[u], guard[u], word.phase)
    BY <2>1, <2>3 DEF Local, PhaseFits, Drains, Converting
  <2>7. CountFits("woken_r", count[u])
    BY <2>2 DEF CountFits, Unsettling
  <2>8. Local("woken_r", cur[u], ret[u], req[u], guard[u], count[u], word)
    BY <2>4, <2>5, <2>6, <2>7 DEF Local
  <2>9. u # t
    BY <1>4
  <2>10. LocalT(u)'
    BY <1>2, <1>7, <2>1, <2>8, <2>9 DEF LocalT
  <2>11. /\ ~OwnsT(u)' /\ ~LocksT(u)' /\ ~Drains(pc'[u]) /\ ~Wakes(pc'[u])
         /\ pc'[u] \notin Unsettling /\ pc'[u] \notin Counted
    BY <1>2, <2>1, <2>2 DEF OwnsT, Owns, LocksT, Drains, Wakes, Unsettling, Counted
  <2>12. Units(u) \in Nat /\ Units(u) < MaxGuards /\ Units(u)' = Units(u) + 1
    BY <1>1, <1>2, <2>1, <2>2 DEF Units
  <2>13. QED
    BY <2>1, <2>2, <2>10, <2>11, <2>12
<1>10. ASSUME NEW u \in Threads, u # t, u \notin S
       PROVE  /\ LocalT(u)' /\ OwnsT(u)' = OwnsT(u) /\ LocksT(u)' = LocksT(u)
              /\ pc'[u] = pc[u] /\ Units(u)' = Units(u)
  BY <1>2, <1>7, <1>10, Facts DEF LocalT, OwnsT, LocksT, Units
<1>11. ThreadInv'
  <2>1. \A u \in Threads : LocalT(u)'
    BY <1>8, <1>9, <1>10
  <2>2. QED
    BY <2>1 DEF LocalT, ThreadInv
<1>12. OwnerInv'
  <2>1. \A u \in Threads : ~OwnsT(u)'
    BY <1>2, <1>8, <1>9, <1>10, WakerFacts
  <2>2. \A u \in Threads : u # t => ~Wakes(pc'[u])
    BY <1>2, <1>9, <1>10, WakerFacts
  <2>3. \A u \in Threads : LocksT(u)' <=> LocksT(u)
    BY <1>2, <1>8, <1>9, <1>10, WakerFacts
  <2>4. \A u \in Threads : Drains(pc'[u]) <=> Drains(pc[u])
    BY <1>2, <1>8, <1>9, <1>10, WakerFacts
  <2>5. QED
    BY <1>2, <2>1, <2>2, <2>3, <2>4 DEF IInv, OwnerInv
<1>13. FieldInv'
  <2>1. Units(t)' = Units(t) /\ count[t] = 0
    BY <1>2, <1>8, WakerFacts DEF CountFits
  <2>2. \A u \in Threads : u \notin S => Units(u)' = Units(u)
    BY <1>10, <2>1
  <2>3. Cardinality(ReadLocks') = Cardinality(ReadLocks) + n
    BY <1>4, <1>5, <1>9, <2>2, UnitsUpAll
  <2>4. word.readers = Cardinality(ReadLocks) + (Overf - count[t]) /\ word.readers < 2 * Overf
    BY <1>2 DEF IInv, FieldInv
  <2>5. word'.readers = Cardinality(ReadLocks') + (Overf - count'[t])
    BY <1>1, <1>2, <1>7, <2>1, <2>3, <2>4, ReadLocksFinite
  <2>6. \A u \in Threads : u # t => pc'[u] \notin Unsettling
    BY <1>2, <1>9, <1>10, WakerFacts DEF Wakes
  <2>7. QED
    BY <1>2, <1>8, <2>4, <2>5, <2>6 DEF FieldInv
<1>14. WritersInv'
  <2>1. \A u \in Threads : pc'[u] \in Counted <=> pc[u] \in Counted
    BY <1>2, <1>8, <1>9, <1>10, WakerFacts
  <2>2. CountedWriters' = CountedWriters
    BY <2>1 DEF CountedWriters
  <2>3. QED
    BY <1>2, <2>2 DEF IInv, WritersInv
<1>15. Mapped
  BY <1>2, MapStutter
<1>16. QED
  BY <1>1, <1>11, <1>12, <1>13, <1>14, <1>15 DEF IInv
-----------------------------------------------------------------------------
(* The invariant holds at the start and is kept by every step.             *)
LEMMA InitInv == Init => IInv
<1> SUFFICES ASSUME Init PROVE IInv
  OBVIOUS
<1>1. TypeInv /\ Overf \in Nat /\ Overf > 1
  BY InitType, SyncAssumption
<1>2. /\ word = Free({}) /\ word.readers = 0 /\ ~word.locked /\ writer_count = 0
      /\ \A t \in Threads : /\ pc[t] = "idle" /\ cur[t] = Blank /\ ret[t] = "idle"
                            /\ req[t] = NoRequest /\ guard[t] = NoGuard /\ count[t] = 0
  BY DEF Init, Free
<1>3. ThreadInv
  <2>1. ASSUME NEW t \in Threads
        PROVE  Local(pc[t], cur[t], ret[t], req[t], guard[t], count[t], word)
    <3>1. GuardFits("idle", "idle", NoGuard) /\ RetFits("idle", "idle") /\ CountFits("idle", 0)
      BY DEF GuardFits, RetFits, CountFits, NoGuard, Converting, Dropping, Unsettling
    <3>2. CasFits("idle", cur[t], "idle", NoRequest) /\ BitsFit("idle", cur[t], word)
      BY DEF CasFits, BitsFit, Drains
    <3>3. PhaseFits("idle", "idle", NoRequest, NoGuard, word.phase)
      BY DEF PhaseFits, NoGuard, Drains, Converting
    <3>4. QED
      BY <1>2, <3>1, <3>2, <3>3 DEF Local
  <2>2. QED
    BY <2>1 DEF ThreadInv
<1>4. OwnerInv
  BY <1>2 DEF OwnerInv, OwnsT, LocksT, Owns, Wakes, Drains, Unsettling, NoGuard
<1>5. FieldInv
  <2>1. \A t \in Threads : pc[t] \notin Unsettling /\ Units(t) = 0
    BY <1>2 DEF Unsettling, Units, NoGuard
  <2>2. ReadLocks = {}
    BY <2>1 DEF ReadLocks
  <2>3. QED
    BY <1>1, <1>2, <2>1, <2>2, FS_EmptySet DEF FieldInv
<1>6. WritersInv
  <2>1. CountedWriters = {}
    BY <1>2 DEF CountedWriters, Counted
  <2>2. QED
    BY <1>2, <2>1, FS_EmptySet DEF WritersInv
<1>7. QED
  BY <1>1, <1>3, <1>4, <1>5, <1>6 DEF IInv

LEMMA StutterInv == ASSUME IInv, UNCHANGED vars PROVE IInv' /\ Mapped
<1>1. /\ word' = word /\ pc' = pc /\ cur' = cur /\ ret' = ret /\ req' = req /\ guard' = guard
      /\ count' = count /\ writer_count' = writer_count
  BY DEF vars
<1>2. TypeInv'
  BY NextType, Facts
<1>3. ThreadInv' /\ OwnerInv'
  BY <1>1 DEF IInv, ThreadInv, OwnerInv, OwnsT, LocksT
<1>4. FieldInv'
  <2>1. ReadLocks' = ReadLocks
    BY <1>1 DEF ReadLocks, Units
  <2>2. QED
    BY <1>1, <2>1 DEF IInv, FieldInv
<1>5. WritersInv'
  BY <1>1 DEF IInv, WritersInv, CountedWriters
<1>6. Mapped
  BY <1>1, MapStutter
<1>7. QED
  BY <1>2, <1>3, <1>4, <1>5, <1>6 DEF IInv

(* A conversion has found the word locked by another thread.               *)
ConversionPanics == \E t \in Threads : ConvertXor(t) /\ word.locked

LEMMA NextInv ==
  IInv /\ [Next]_vars => ConversionPanics \/ (IInv' /\ Mapped)
<1> SUFFICES ASSUME IInv, [Next]_vars, ~ConversionPanics PROVE IInv' /\ Mapped
  OBVIOUS
<1>1. CASE UNCHANGED vars
  BY <1>1, StutterInv
<1>2. ASSUME NEW t \in Threads, Begin(t) PROVE IInv' /\ Mapped
  BY <1>2, OptimisticLockInv, LockMutInv, CloneInv, FutexWaitInv, SetPhaseInv DEF Begin
<1>3. ASSUME NEW t \in Threads, Proceed(t) PROVE IInv' /\ Mapped
  <2>1. CASE \/ WriteCas(t) \/ TryRead(t) \/ ReadCas(t) \/ ReadLoad(t) \/ SlowLoad(t)
             \/ LockWhileReaders(t) \/ ReadersLoad(t) \/ ReadersCas(t)
    BY <2>1, WriteCasInv, TryReadInv, ReadCasInv, ReadLoadInv, SlowLoadInv, LockWhileReadersInv,
       ReadersLoadInv, ReadersCasInv
  <2>2. CASE \/ SetWaiter(t) \/ CountAdd(t) \/ FutexWait(t) \/ CountSub(t)
             \/ OrWriteWaiter(t) \/ LockedLoad(t) \/ WokenReader(t)
    BY <2>2, SetWaiterInv, CountAddInv, FutexWaitInv, CountSubInv, OrWriteWaiterInv,
       LockedLoadInv, WokenReaderInv
  <2>3. CASE \/ IntoReadLock(t) \/ DropLock(t) \/ DropXor(t) \/ DropReadLock(t)
             \/ TransferLock(t) \/ GiveXor(t) \/ GiveWake(t) \/ GiveAnd(t)
    BY <2>3, IntoReadLockInv, DropLockInv, DropXorInv, DropReadLockInv, TransferLockInv,
       GiveXorInv, GiveWakeInv, GiveAndInv
  <2>4. CASE \/ WakeXor(t) \/ ConvertXor(t) \/ FutexWakeReaders(t) \/ OrReadWaiter(t)
             \/ WakeSub(t)
    BY <2>4, WakeXorInv, ConvertXorInv, FutexWakeReadersInv, OrReadWaiterInv, WakeSubInv
       DEF ConversionPanics
  <2>5. QED
    BY <1>3, <2>1, <2>2, <2>3, <2>4 DEF Proceed
<1>4. QED
  BY <1>1, <1>2, <1>3 DEF Next

-----------------------------------------------------------------------------
(* While wake_readers runs, all but the readers it has woken is unsettled. *)
LEMMA UnsettledCount ==
  ASSUME IInv
  PROVE  /\ \A t \in Threads : pc[t] \in Unsettling => Cardinality(Unsettled) = Overf - count[t]
         /\ (\A t \in Threads : pc[t] \notin Unsettling) => Cardinality(Unsettled) = 0
<1>1. ASSUME NEW t \in Threads, pc[t] \in Unsettling
      PROVE  Cardinality(Unsettled) = Overf - count[t]
  <2>1. Overf \in Nat /\ count[t] \in Nat /\ count[t] <= Overf
    BY <1>1, Facts DEF Local, CountFits
  <2>2. \A u \in Threads : u # t => pc[u] \notin Unsettling
    BY <1>1 DEF IInv, OwnerInv, Wakes
  <2>3. Unsettled = {t} \X ((count[t] + 1)..Overf)
    <3>1. ASSUME NEW x \in Unsettled PROVE x \in {t} \X ((count[t] + 1)..Overf)
      <4>1. x \in Threads \X (1..Overf) /\ x[1] \in Threads /\ x[2] \in 1..Overf
            /\ pc[x[1]] \in Unsettling /\ x[2] > count[x[1]] /\ x = <<x[1], x[2]>>
        BY DEF Unsettled, Unsettling
      <4>2. x[1] = t
        BY <2>2, <4>1
      <4>3. x[2] \in (count[t] + 1)..Overf
        BY <2>1, <4>1, <4>2
      <4>4. QED
        BY <4>1, <4>2, <4>3
    <3>2. ASSUME NEW x \in {t} \X ((count[t] + 1)..Overf) PROVE x \in Unsettled
      <4>1. x = <<x[1], x[2]>> /\ x[1] = t /\ x[2] \in (count[t] + 1)..Overf
        OBVIOUS
      <4>2. x[2] \in 1..Overf /\ x[2] > count[t]
        BY <2>1, <4>1
      <4>3. QED
        BY <1>1, <4>1, <4>2 DEF Unsettled, Unsettling
    <3>3. QED
      BY <3>1, <3>2
  <2>4. /\ IsFiniteSet((count[t] + 1)..Overf)
        /\ Cardinality((count[t] + 1)..Overf) = Overf - count[t]
    <3>1. \A a, b \in Int : /\ IsFiniteSet(a..b)
                            /\ Cardinality(a..b) = IF a > b THEN 0 ELSE b - a + 1
      BY FS_Interval
    <3>2. count[t] + 1 \in Int /\ Overf \in Int
      BY <2>1
    <3>3. /\ IsFiniteSet((count[t] + 1)..Overf)
          /\ Cardinality((count[t] + 1)..Overf)
               = IF count[t] + 1 > Overf THEN 0 ELSE Overf - (count[t] + 1) + 1
      BY <3>1, <3>2, Zenon
    <3>4. QED
      BY <2>1, <3>3
  <2>5. IsFiniteSet({t}) /\ Cardinality({t}) = 1
    BY FS_Singleton
  <2>6. Cardinality({t} \X ((count[t] + 1)..Overf)) = Cardinality({t}) * Cardinality((count[t] + 1)..Overf)
    BY <2>4, <2>5, FS_Product
  <2>7. QED
    BY <2>1, <2>3, <2>4, <2>5, <2>6
<1>2. ASSUME \A t \in Threads : pc[t] \notin Unsettling
      PROVE  Cardinality(Unsettled) = 0
  <2>1. Unsettled = {}
    BY <1>2 DEF Unsettled, Unsettling
  <2>2. QED
    BY <2>1, FS_EmptySet
<1>3. QED
  BY <1>1, <1>2

LEMMA InvAccounting == IInv => ReaderAccounting
<1> SUFFICES ASSUME IInv PROVE ReaderAccounting
  OBVIOUS
<1>1. CASE \A t \in Threads : pc[t] \notin Unsettling
  BY <1>1, UnsettledCount, ReadLocksFinite DEF IInv, FieldInv, ReaderAccounting
<1>2. CASE \E t \in Threads : pc[t] \in Unsettling
  BY <1>2, UnsettledCount, ReadLocksFinite DEF IInv, FieldInv, ReaderAccounting
<1>3. QED
  BY <1>1, <1>2

LEMMA InvExclusion == IInv => Exclusion
<1> SUFFICES ASSUME IInv, NEW t \in Threads, guard[t].kind = "write"
             PROVE  \A u \in Threads : (guard[u].kind = "write" => u = t) /\ guard[u].count = 0
  BY DEF Exclusion, Abstract!Exclusion, Abstract!NoReader
<1>1. OwnsT(t)
  BY DEF OwnsT, Owns
<1>2. \A u \in Threads : u # t => ~OwnsT(u)
  BY <1>1, OwnerAlone
<1>3. \A u \in Threads : guard[u].kind = "write" => u = t
  BY <1>2 DEF OwnsT, Owns
<1>4. word.readers = 0
  BY <1>1 DEF IInv, OwnerInv
<1>5. \A u \in Threads : guard[u].count = 0
  BY <1>1, <1>4, OwnerAlone, NoReaders
<1>6. QED
  BY <1>3, <1>5

LEMMA InvAssertions == IInv => AssertionsHold
BY Facts DEF AssertionsHold, Local, RetFits

LEMMA InvAnswer == IInv => AnswerFits
BY Facts DEF AnswerFits, Local, PhaseFits
-----------------------------------------------------------------------------
(***************************************************************************)
(* An assertion that has failed is never forgotten: the thread unwinds,    *)
(* dropping the Lock it was converting, and stops, or the process aborts.  *)
(***************************************************************************)
Failed(t) == pc[t] \in {"dead", "aborted"} \/ (pc[t] \in Dropping /\ ret[t] = "dead")
UnwindInv == \A t \in Threads : ret[t] = "dead" => Failed(t)
StaysFailed == UnwindInv' /\ \A t \in Threads : Failed(t) => Failed(t)'

LEMMA UnwindGoto ==
  ASSUME TypeInv, UnwindInv, NEW t \in Threads, NEW l, NEW v, NEW s, NEW r,
         Goto(t, l, v, s, r), pc[t] \notin {"dead", "aborted"},
         ret[t] = "dead" => r = "dead", r = "dead" => l \in Dropping \cup {"dead"}
  PROVE  StaysFailed
<1>1. /\ pc'[t] = l
      /\ ret'[t] = IF l \in {"idle", "held", "convert"} THEN "idle" ELSE r
      /\ \A u \in Threads : u # t => pc'[u] = pc[u] /\ ret'[u] = ret[u]
  BY DEF Goto, TypeInv, TypeOK
<1>2. ASSUME NEW u \in Threads, u # t PROVE (ret'[u] = "dead" => Failed(u)') /\ (Failed(u) => Failed(u)')
  BY <1>1, <1>2 DEF UnwindInv, Failed
<1>3. ret'[t] = "dead" => Failed(t)'
  BY <1>1 DEF Failed, Dropping
<1>4. Failed(t) => Failed(t)'
  <2>1. Failed(t) => r = "dead"
    BY DEF Failed
  <2>2. QED
    BY <1>1, <2>1 DEF Failed, Dropping
<1>5. QED
  BY <1>2, <1>3, <1>4 DEF StaysFailed, UnwindInv

LEMMA UnwindPanic ==
  ASSUME TypeInv, UnwindInv, NEW t \in Threads, Panic(t)
  PROVE  StaysFailed
<1>1. /\ ret' = ret
      /\ \A u \in Threads : pc'[u] = pc[u] \/ pc'[u] \in {"dead", "aborted"}
  BY DEF Panic, TypeInv, TypeOK
<1>2. QED
  BY <1>1 DEF StaysFailed, UnwindInv, Failed, Dropping

(* The steps of a call, outside of the drops.                              *)
LEMMA UnwindCall ==
  ASSUME TypeInv, UnwindInv, NEW t \in Threads, pc[t] \notin {"dead", "aborted"} \cup Dropping
  PROVE  \A l, v, s, r : Goto(t, l, v, s, r) /\ r \in {"idle", "held", "fast", "slow", "clone", ret[t]}
           => StaysFailed
<1>1. ret[t] # "dead"
  BY DEF UnwindInv, Failed
<1>2. QED
  BY <1>1, UnwindGoto

(* The steps of a drop keep the place it returns to.                       *)
LEMMA UnwindDrop ==
  ASSUME TypeInv, UnwindInv, NEW t \in Threads, pc[t] \notin {"dead", "aborted"}
  PROVE  /\ \A l \in Dropping : \A v, s : Goto(t, l, v, s, ret[t]) => StaysFailed
         /\ Finish(t) => StaysFailed
<1>1. ASSUME Finish(t) PROVE StaysFailed
  <2>1. Goto(t, ReturnTo(ret[t]), Blank, 0, ret[t])
    BY <1>1 DEF Finish
  <2>2. ret[t] = "dead" => ReturnTo(ret[t]) = "dead"
    BY DEF ReturnTo
  <2>3. QED
    BY <2>1, <2>2, UnwindGoto
<1>2. ASSUME NEW l \in Dropping, NEW v, NEW s, Goto(t, l, v, s, ret[t]) PROVE StaysFailed
  BY <1>2, UnwindGoto
<1>3. QED
  BY <1>1, <1>2

LEMMA UnwindStep ==
  ASSUME TypeInv, UnwindInv, NEW t \in Threads, Proceed(t) \/ Begin(t)
  PROVE  StaysFailed
<1>1. /\ pc \in [Threads -> Locations] /\ ret \in [Threads -> Returns]
      /\ Dropping \subseteq Locations
  BY DEF TypeInv, TypeOK, Dropping, Locations
<1>2. CASE \/ WriteCas(t) \/ TryRead(t) \/ ReadCas(t) \/ ReadLoad(t) \/ SlowLoad(t)
            \/ LockWhileReaders(t) \/ ReadersLoad(t) \/ ReadersCas(t)
  <2>1. pc[t] \notin {"dead", "aborted"} \cup Dropping
    BY <1>2 DEF WriteCas, TryRead, ReadCas, ReadLoad, SlowLoad, LockWhileReaders, ReadersLoad,
       ReadersCas, Dropping
  <2>2. QED
    BY <1>2, <2>1, UnwindCall DEF WriteCas, TryRead, ReadCas, ReadLoad, SlowLoad,
       LockWhileReaders, ReadersLoad, ReadersCas, Acquired
<1>3. CASE SetWaiter(t) \/ CountAdd(t) \/ FutexWait(t) \/ CountSub(t) \/ OrWriteWaiter(t)
  <2>1. pc[t] \notin {"dead", "aborted"} \cup Dropping
    BY <1>3 DEF SetWaiter, CountAdd, FutexWait, CountSub, OrWriteWaiter, Dropping
  <2>2. QED
    BY <1>3, <2>1, UnwindCall, UnwindPanic DEF SetWaiter, CountAdd, FutexWait, CountSub,
       OrWriteWaiter
<1>4. CASE LockedLoad(t) \/ WokenReader(t)
  <2>1. pc[t] \notin {"dead", "aborted"} \cup Dropping
    BY <1>4 DEF LockedLoad, WokenReader, Dropping
  <2>2. CASE pc[t] = "locked_load" \/ ret[t] # "clone"
    <3>1. NeedsRequest(pc[t], ret[t])
      BY <1>4, <2>2 DEF LockedLoad, WokenReader, NeedsRequest, Calling, CloneCalls
    <3>2. How[req[t]][word.phase] \in Natures
      BY <3>1, TypeFacts, SyncAssumption DEF ThreadTyped, RestTyped, Word
    <3>3. QED
      BY <1>4, <2>1, <3>2, UnwindCall, UnwindPanic DEF LockedLoad, WokenReader, Acquired, Natures
  <2>3. CASE pc[t] # "locked_load" /\ ret[t] = "clone"
    BY <1>4, <2>1, <2>3, UnwindCall, UnwindPanic DEF LockedLoad, WokenReader, Acquired
  <2>4. QED
    BY <2>2, <2>3
<1>5. CASE IntoReadLock(t)
  <2>1. pc[t] \notin {"dead", "aborted"} \cup Dropping
    BY <1>5 DEF IntoReadLock, Dropping
  <2>2. QED
    BY <1>5, <2>1, UnwindCall DEF IntoReadLock
<1>6. CASE DropLock(t) \/ DropXor(t)
  <2>1. pc[t] \notin {"dead", "aborted"}
    BY <1>6 DEF DropLock, DropXor
  <2>2. {"drop_xor", "transfer"} \subseteq Dropping
    BY DEF Dropping
  <2>3. QED
    BY <1>6, <2>1, <2>2, UnwindDrop DEF DropLock, DropXor
<1>7. CASE DropReadLock(t)
  <2>1. pc[t] \in {"read_drop", "held"}
    BY <1>7 DEF DropReadLock
  <2>2. pc[t] = "held" => ret[t] # "dead"
    BY DEF UnwindInv, Failed, Dropping
  <2>3. PICK r : /\ r = IF pc[t] = "held" /\ guard[t].count > 1 THEN "held" ELSE ret[t]
                 /\ Goto(t, "transfer", word', 0, r) \/ Goto(t, ReturnTo(r), Blank, 0, r)
    BY <1>7 DEF DropReadLock
  <2>4. ret[t] = "dead" => r = "dead"
    BY <2>2, <2>3
  <2>5. "transfer" \in Dropping /\ (r = "dead" => ReturnTo(r) = "dead")
    BY DEF ReturnTo, Dropping
  <2>6. QED
    BY <2>1, <2>3, <2>4, <2>5, UnwindGoto
<1>8. CASE TransferLock(t) \/ GiveXor(t) \/ GiveAnd(t)
  <2>1. pc[t] \notin {"dead", "aborted"}
    BY <1>8 DEF TransferLock, GiveXor, GiveAnd
  <2>2. "give_wake" \in Dropping /\ \A w, v : TransferNext(w, v) \in Dropping
    BY DEF Dropping, TransferNext
  <2>3. QED
    BY <1>8, <2>1, <2>2, UnwindDrop, UnwindPanic DEF TransferLock, GiveXor, GiveAnd
<1>9. CASE GiveWake(t)
  <2>1. pc[t] = "give_wake"
    BY <1>9 DEF GiveWake
  <2>2. CASE \E l : l \in {"wake_xor", "give_and"} /\ Goto(t, l, cur[t], 0, ret[t])
    <3>1. {"wake_xor", "give_and"} \subseteq Dropping
      BY DEF Dropping
    <3>2. QED
      BY <2>1, <2>2, <3>1, UnwindDrop
  <2>3. CASE \E u \in Threads : /\ pc[u] = "sleep_w" /\ ret' = ret
                                /\ pc' = [pc EXCEPT ![u] = "woken_w", ![t] = ReturnTo(ret[t])]
    <3>1. PICK u \in Threads : /\ pc[u] = "sleep_w" /\ ret' = ret
                               /\ pc' = [pc EXCEPT ![u] = "woken_w", ![t] = ReturnTo(ret[t])]
      BY <2>3
    <3>2. /\ u # t /\ pc'[u] = "woken_w" /\ pc'[t] = ReturnTo(ret[t])
          /\ \A w \in Threads : w \notin {u, t} => pc'[w] = pc[w]
      BY <1>1, <2>1, <3>1
    <3>3. ~Failed(u) /\ ret[u] # "dead"
      BY <3>1 DEF UnwindInv, Failed, Dropping
    <3>4. ret[t] = "dead" => ReturnTo(ret[t]) = "dead"
      BY DEF ReturnTo
    <3>5. Failed(t) => ret[t] = "dead"
      BY <2>1 DEF Failed
    <3>6. \A w \in Threads : (ret'[w] = "dead" => Failed(w)') /\ (Failed(w) => Failed(w)')
      <4> TAKE w \in Threads
      <4>1. CASE w = u
        BY <3>1, <3>3, <4>1
      <4>2. CASE w = t
        BY <3>1, <3>2, <3>4, <3>5, <4>2 DEF Failed
      <4>3. CASE w \notin {u, t}
        BY <3>1, <3>2, <4>3 DEF Failed, UnwindInv
      <4>4. QED
        BY <4>1, <4>2, <4>3
    <3>7. QED
      BY <3>6 DEF StaysFailed, UnwindInv
  <2>4. QED
    BY <1>9, <2>2, <2>3 DEF GiveWake
<1>10. CASE WakeXor(t) \/ OrReadWaiter(t) \/ WakeSub(t)
  <2>1. CASE pc[t] \in {"conv_or", "conv_sub"}
    <3>1. pc[t] \notin {"dead", "aborted"} \cup Dropping
      BY <2>1 DEF Dropping
    <3>2. QED
      BY <1>10, <2>1, <3>1, UnwindCall DEF WakeXor, OrReadWaiter, WakeSub, Acquired
  <2>2. CASE pc[t] \notin {"conv_or", "conv_sub"}
    <3>1. pc[t] \in {"wake_xor", "wake_or", "wake_sub"}
      BY <1>10, <2>2 DEF WakeXor, OrReadWaiter, WakeSub
    <3>2. {"wake_call", "wake_sub", "read_drop"} \subseteq Dropping
      BY DEF Dropping
    <3>3. QED
      BY <1>10, <3>1, <3>2, UnwindDrop, UnwindPanic DEF WakeXor, OrReadWaiter, WakeSub
  <2>3. QED
    BY <2>1, <2>2
<1>11. CASE ConvertXor(t)
  <2>1. pc[t] \notin {"dead", "aborted"} \cup Dropping
    BY <1>11 DEF ConvertXor, Dropping
  <2>2. Goto(t, "drop", Blank, 0, "dead") => StaysFailed
    <3>1. "drop" \in Dropping
      BY DEF Dropping
    <3>2. QED
      BY <2>1, <3>1, UnwindGoto
  <2>3. QED
    BY <1>11, <2>1, <2>2, UnwindCall DEF ConvertXor
<1>12. CASE FutexWakeReaders(t)
  <2>1. /\ ret' = ret /\ pc[t] \in {"wake_call", "conv_call"}
        /\ \A u \in Threads : u # t => pc'[u] = pc[u] \/ pc[u] = "sleep_r"
        /\ pc[t] = "wake_call" => pc'[t] \in {"wake_or", "wake_sub"}
    <3>1. PICK S \in SUBSET {u \in Threads : pc[u] = "sleep_r"} :
            pc' = [u \in Threads |->
                     IF u = t THEN IF pc[t] = "wake_call"
                                     THEN IF Cardinality(S) = Overf THEN "wake_or" ELSE "wake_sub"
                                     ELSE IF Cardinality(S) = Overf THEN "conv_or" ELSE "conv_sub"
                     ELSE IF u \in S THEN "woken_r" ELSE pc[u]]
      BY <1>12 DEF FutexWakeReaders
    <3>2. ret' = ret /\ pc[t] \in {"wake_call", "conv_call"}
      BY <1>12 DEF FutexWakeReaders
    <3>3. QED
      BY <3>1, <3>2
  <2>2. \A u \in Threads : pc[u] \in {"sleep_r", "conv_call"} => ~Failed(u) /\ ret[u] # "dead"
    BY DEF UnwindInv, Failed, Dropping
  <2>3. \A w \in Threads : (ret'[w] = "dead" => Failed(w)') /\ (Failed(w) => Failed(w)')
    <3> TAKE w \in Threads
    <3>1. CASE w = t /\ pc[t] = "wake_call"
      BY <2>1, <3>1 DEF Failed, Dropping
    <3>2. CASE pc[w] \in {"sleep_r", "conv_call"}
      BY <2>1, <2>2, <3>2
    <3>3. CASE w # t /\ pc'[w] = pc[w]
      BY <2>1, <3>3 DEF Failed, UnwindInv
    <3>4. QED
      BY <2>1, <3>1, <3>2, <3>3
  <2>4. QED
    BY <2>3 DEF StaysFailed, UnwindInv
<1>13. CASE Begin(t)
  <2>1. ASSUME NEW q \in Requests, OptimisticLock(t, q) PROVE StaysFailed
    <3>1. pc[t] = "idle" /\ \A u \in Threads : u # t => pc'[u] = pc[u] /\ ret'[u] = ret[u]
      BY <1>1, <2>1 DEF OptimisticLock
    <3>2. ret[t] # "dead" /\ ~Failed(t)
      BY <3>1 DEF UnwindInv, Failed, Dropping
    <3>3. ret'[t] # "dead"
      BY <1>1, <2>1, <3>2 DEF OptimisticLock
    <3>4. \A w \in Threads : (ret'[w] = "dead" => Failed(w)') /\ (Failed(w) => Failed(w)')
      BY <3>1, <3>2, <3>3 DEF UnwindInv, Failed
    <3>5. QED
      BY <3>4 DEF StaysFailed, UnwindInv
  <2>2. CASE LockMut(t) \/ Clone(t) \/ Interrupt(t)
    <3>1. pc[t] \notin {"dead", "aborted"} \cup Dropping
      BY <2>2 DEF LockMut, Clone, Interrupt, Dropping
    <3>2. QED
      BY <2>2, <3>1, UnwindCall DEF LockMut, Clone, Interrupt, Acquired
  <2>3. ASSUME NEW p \in Phases, SetPhase(t, p) PROVE StaysFailed
    BY <2>3 DEF SetPhase, StaysFailed, UnwindInv, Failed
  <2>4. QED
    BY <1>13, <2>1, <2>2, <2>3 DEF Begin
<1>14. QED
  BY <1>2, <1>3, <1>4, <1>5, <1>6, <1>7, <1>8, <1>9, <1>10, <1>11, <1>12, <1>13 DEF Proceed

LEMMA InitUnwind == Init => UnwindInv
BY DEF Init, UnwindInv

LEMMA NextUnwind ==
  TypeInv /\ UnwindInv /\ [Next]_vars => UnwindInv' /\ (AssertionsHold' => AssertionsHold)
<1> SUFFICES ASSUME TypeInv, UnwindInv, [Next]_vars
             PROVE  UnwindInv' /\ (AssertionsHold' => AssertionsHold)
  OBVIOUS
<1>1. StaysFailed
  <2>1. CASE UNCHANGED vars
    BY <2>1 DEF vars, StaysFailed, UnwindInv, Failed
  <2>2. QED
    BY <2>1, UnwindStep DEF Next
<1>2. QED
  BY <1>1 DEF StaysFailed, AssertionsHold, UnwindInv, Failed

LEMMA PanicFails == TypeInv /\ ConversionPanics => ~AssertionsHold'
<1> SUFFICES ASSUME TypeInv, NEW t \in Threads, ConvertXor(t), word.locked
             PROVE  ~AssertionsHold'
  BY DEF ConversionPanics
<1>1. Goto(t, "drop", Blank, 0, "dead")
  BY DEF ConvertXor
<1>2. ret'[t] = "dead"
  BY <1>1 DEF Goto, TypeInv, TypeOK
<1>3. QED
  BY <1>2 DEF AssertionsHold
-----------------------------------------------------------------------------
(* What the word says of the threads, and each thread of the word, holds   *)
(* after every access of every thread, whatever the clients mix, until the *)
(* first assertion fails: the invariant of sync.rs.                        *)
THEOREM InvHolds == Spec => []((AssertionsHold => IInv) /\ TypeInv)
<1>1. IInv /\ [Next]_vars /\ AssertionsHold' => IInv'
  BY NextInv, PanicFails DEF IInv
<1> DEFINE J == UnwindInv /\ (AssertionsHold => IInv)
<1>2. Init => J
  BY InitInv, InitUnwind
<1>3. TypeInv /\ J /\ [Next]_vars => J'
  BY <1>1, NextUnwind
<1>4. J => (AssertionsHold => IInv)
  OBVIOUS
<1> HIDE DEF J
<1>5. QED
  BY <1>2, <1>3, <1>4, InitType, NextType, PTL DEF Spec

(* Until an assertion fails no two guards conflict, whatever the requests  *)
(* and the interleaving of the accesses by which sleeping threads are      *)
(* handed the lock, the spurious failures and the interrupted waits:       *)
(* raw_lock, transfer_lock and wake_readers.                               *)
THEOREM ExclusionHolds == Spec => [](AssertionsHold => Exclusion)
<1>1. (AssertionsHold => IInv) => (AssertionsHold => Exclusion)
  BY InvExclusion
<1>2. QED
  BY <1>1, InvHolds, PTL

(* Until an assertion fails the reader field is exact, also while          *)
(* wake_readers holds READER_OVERF for readers it has not counted yet, and *)
(* never runs over.                                                        *)
THEOREM ReaderAccountingHolds == Spec => [](AssertionsHold => ReaderAccounting)
<1>1. (AssertionsHold => IInv) => (AssertionsHold => ReaderAccounting)
  BY InvAccounting
<1>2. QED
  BY <1>1, InvHolds, PTL

(* Until an assertion fails, a caller of lock gets the guard that its      *)
(* closure asks for in the phase of the static, although that phase was    *)
(* read before the thread waited.                                          *)
THEOREM AnswersFit == Spec => [](AssertionsHold => AnswerFits)
<1>1. (AssertionsHold => IInv) => (AssertionsHold => AnswerFits)
  BY InvAnswer
<1>2. QED
  BY <1>1, InvHolds, PTL

(* The first assertion to fail, if one ever does, is the one of            *)
(* wake_readers in a conversion (sync.rs:601): no clients, no schedule and *)
(* no interrupt make another one fail first.                               *)
THEOREM FirstPanic == Spec => OnlyConversionPanics
<1>1. IInv' => AssertionsHold'
  BY InvAssertions, PTL
<1>2. (AssertionsHold => IInv) /\ [Next]_vars =>
        [AssertionsHold => \/ AssertionsHold'
                           \/ \E t \in Threads : ConvertXor(t) /\ word.locked]_vars
  BY <1>1, NextInv DEF ConversionPanics
<1>3. QED
  BY <1>2, InvHolds, PTL DEF Spec, OnlyConversionPanics

(* In every behaviour in which no assertion fails, SyncPhaseLocker         *)
(* implements the abstract phase lock, whatever the requests: every access *)
(* to the word acquires, releases or converts one guard there, or none.    *)
THEOREM SyncImplements == Spec /\ []AssertionsHold => ImplementsPhaseLock
<1>1. Init => Abstract!Init
  BY DEF Init, Abstract!Init, Free, Phases, NoGuard
<1>2. (AssertionsHold => IInv) /\ TypeInv /\ AssertionsHold /\ [Next]_vars /\ AssertionsHold'
        => [Abstract!Next]_(Abstract!vars)
  BY NextInv, PanicFails DEF Mapped
<1>3. QED
  BY <1>1, <1>2, InvHolds, PTL DEF Spec, ImplementsPhaseLock, Abstract!Spec

(* No assertion of sync.rs or futex.rs fails, as long as no request writes *)
(* in a phase in which another converts its write guard.                   *)
THEOREM AssertionsNeverFail == ASSUME ConvertersAgree PROVE Spec => []AssertionsHold
<1>1. IInv /\ [Next]_vars => IInv'
  <2>1. IInv => ~ConversionPanics
    BY ConvertUnlocked DEF ConversionPanics, ConvertXor
  <2>2. QED
    BY <2>1, NextInv
<1>2. QED
  BY <1>1, InitInv, InvAssertions, PTL DEF Spec
-----------------------------------------------------------------------------
(***************************************************************************)
(* Waiting: nobody sleeps unless the lock is going to be handed over.      *)
(***************************************************************************)

(* One thread moves, and may change the word.                              *)
LEMMA WaitStep ==
  ASSUME IInv, WaitInv, NEW t \in Threads,
         \A u \in Threads : u # t =>
           pc'[u] = pc[u] /\ cur'[u] = cur[u] /\ ret'[u] = ret[u] /\ req'[u] = req[u],
         WaitFits(pc'[t], cur'[t], ret'[t], req'[t], word'),
         \A q \in Requests : How[q][word.phase] = "Read" => How[q][word'.phase] = "Read",
         Unclaimed(word') =>
           Passes(pc'[t], cur'[t]) \/ (Unclaimed(word) /\ ~Passes(pc[t], cur[t])),
         pc'[t] = "sleep_w" => word'.ww,
         pc'[t] = "sleep_r" => word'.rw,
         word.ww \/ pc[t] \in WriterWakers =>
           \/ word'.ww \/ pc'[t] \in WriterWakers
           \/ \A u \in Threads : u # t => pc[u] # "sleep_w",
         word.rw \/ pc[t] \in ReaderWakers =>
           \/ word'.rw \/ pc'[t] \in ReaderWakers
           \/ \A u \in Threads : u # t => pc[u] # "sleep_r"
  PROVE  WaitInv'
<1>1. WaitersReady'
  <2>1. ASSUME NEW u \in Threads, u # t PROVE WaitFits(pc'[u], cur'[u], ret'[u], req'[u], word')
    <3>1. WaitFits(pc[u], cur[u], ret[u], req[u], word)
      BY DEF WaitInv, WaitersReady
    <3>2. pc[u] \in {"read_cas", "read_load"} /\ ret[u] # "clone" => req[u] \in Requests
      BY Facts DEF NeedsRequest, Calling
    <3>3. QED
      BY <2>1, <3>1, <3>2 DEF WaitFits
  <2>2. QED
    BY <2>1 DEF WaitersReady
<1>2. HandedOver'
  BY DEF WaitInv, HandedOver
<1>3. WritersAnnounced'
  <2>1. ASSUME NEW u \in Threads, pc'[u] = "sleep_w"
        PROVE  word'.ww \/ \E x \in Threads : pc'[x] \in WriterWakers
    <3>1. CASE u = t
      BY <2>1, <3>1
    <3>2. CASE u # t
      <4>1. pc[u] = "sleep_w"
        BY <2>1, <3>2
      <4>2. word.ww \/ \E x \in Threads : pc[x] \in WriterWakers
        BY <4>1 DEF WaitInv, WritersAnnounced
      <4>3. QED
        BY <3>2, <4>1, <4>2
    <3>3. QED
      BY <3>1, <3>2
  <2>2. QED
    BY <2>1 DEF WritersAnnounced
<1>4. ReadersAnnounced'
  <2>1. ASSUME NEW u \in Threads, pc'[u] = "sleep_r"
        PROVE  word'.rw \/ \E x \in Threads : pc'[x] \in ReaderWakers
    <3>1. CASE u = t
      BY <2>1, <3>1
    <3>2. CASE u # t
      <4>1. pc[u] = "sleep_r"
        BY <2>1, <3>2
      <4>2. word.rw \/ \E x \in Threads : pc[x] \in ReaderWakers
        BY <4>1 DEF WaitInv, ReadersAnnounced
      <4>3. QED
        BY <3>2, <4>1, <4>2
    <3>3. QED
      BY <3>1, <3>2
  <2>2. QED
    BY <2>1 DEF ReadersAnnounced
<1>5. QED
  BY <1>1, <1>2, <1>3, <1>4 DEF WaitInv

(* Where a thread has no part in a hand-over.                              *)
HandsOver == {"transfer", "give_xor", "wake_xor"} \cup WriterWakers \cup ReaderWakers
Sleeps == {"sleep_w", "sleep_r"}

(* The word keeps its waiter bits, and no waiter bit is left on a free one.*)
KeepsWaiters ==
  /\ word.ww => word'.ww
  /\ word.rw => word'.rw
  /\ Unclaimed(word') => Unclaimed(word)
  /\ \A q \in Requests : How[q][word.phase] = "Read" => How[q][word'.phase] = "Read"

LEMMA WaitGoto ==
  ASSUME IInv, WaitInv, NEW t \in Threads, NEW l, NEW v, NEW s, NEW r, Goto(t, l, v, s, r),
         pc[t] \notin HandsOver, l \notin Sleeps, KeepsWaiters,
         WaitFits(l, v, r, req[t], word')
  PROVE  WaitInv'
<1>1. /\ pc'[t] = l
      /\ cur'[t] = IF l \in Forgetful THEN Blank ELSE v
      /\ ret'[t] = IF l \in {"idle", "held", "convert"} THEN "idle" ELSE r
      /\ req'[t] = IF l = "idle" THEN NoRequest ELSE req[t]
      /\ \A u \in Threads : u # t =>
           pc'[u] = pc[u] /\ cur'[u] = cur[u] /\ ret'[u] = ret[u] /\ req'[u] = req[u]
  BY GotoEffect, Facts
<1>2. WaitFits(pc'[t], cur'[t], ret'[t], req'[t], word')
  BY <1>1 DEF WaitFits, Forgetful
<1>3. ~Passes(pc[t], cur[t]) /\ pc[t] \notin WriterWakers /\ pc[t] \notin ReaderWakers
      /\ pc'[t] # "sleep_w" /\ pc'[t] # "sleep_r"
  BY <1>1 DEF Passes, HandsOver, Sleeps
<1>4. QED
  BY <1>1, <1>2, <1>3, WaitStep DEF KeepsWaiters

LEMMA KeptWord == ASSUME word' = word PROVE KeepsWaiters
BY DEF KeepsWaiters

(* Locations of which WaitFits asks something.                             *)
WaitPoints == {"set_ww", "set_rw", "count_add", "wait_w", "wait_r", "read_cas", "read_load"}

LEMMA RestFits ==
  ASSUME NEW l, NEW v, NEW r, NEW q, NEW w, l \notin WaitPoints
  PROVE  WaitFits(l, v, r, q, w)
BY DEF WaitFits, WaitPoints

(* The tables of the control flow send a thread to wait only for a lock    *)
(* that is busy.                                                           *)
LEMMA MaxIsBusy ==
  ASSUME NEW v \in Word, has_readers_max(v)
  PROVE  has_readers(v)
BY SyncAssumption DEF has_readers_max, has_readers, Word

LEMMA WaitingReady ==
  ASSUME NEW q \in Requests, NEW v \in Word, NEW r, NEW w, Busy(v)
  PROVE  WaitFits(Waiting(q, v), v, r, q, w) /\ Waiting(q, v) \notin Sleeps
<1>1. OnWait[q][v.phase] \in {"None", "Read", "Write"}
  BY SyncAssumption DEF Word, Natures
<1>2. QED
  BY <1>1 DEF Waiting, WaitFits, Sleeps

LEMMA AfterReadReady ==
  ASSUME NEW q \in Requests, NEW v \in Word, NEW s, NEW r, NEW w, ~is_read_lockable(v)
  PROVE  WaitFits(AfterRead(q, v, s), v, r, q, w) /\ AfterRead(q, v, s) \notin Sleeps
<1>1. Busy(v)
  BY MaxIsBusy DEF is_read_lockable, Busy
<1>2. QED
  BY <1>1, WaitingReady, RestFits DEF AfterRead, WaitPoints, Sleeps

LEMMA LoopTopReady ==
  ASSUME NEW q \in Requests, NEW v \in Word, NEW s, NEW r
  PROVE  WaitFits(LoopTop(q, v, s), v, r, q, v) /\ LoopTop(q, v, s) \notin Sleeps
<1>1. How[q][v.phase] \in {"None", "Read", "Write"}
  BY SyncAssumption DEF Word, Natures
<1>2. CASE How[q][v.phase] = "None"
  <2>1. LoopTop(q, v, s) = "idle"
    BY <1>2 DEF LoopTop
  <2>2. QED
    BY <2>1, RestFits DEF WaitPoints, Sleeps
<1>3. CASE How[q][v.phase] = "Write"
  <2>1. CASE ~is_write_lockable(v)
    <3>1. Busy(v) /\ LoopTop(q, v, s) = AfterWrite(q, v, s)
      BY <1>3, <2>1 DEF is_write_lockable, Busy, LoopTop
    <3>2. QED
      BY <3>1, WaitingReady, RestFits DEF AfterWrite, WaitPoints, Sleeps
  <2>2. CASE is_write_lockable(v)
    <3>1. LoopTop(q, v, s) \in {"lock_cas", "lock_while_readers"}
      BY <1>3, <2>2 DEF LoopTop
    <3>2. QED
      BY <3>1, RestFits DEF WaitPoints, Sleeps
  <2>3. QED
    BY <2>1, <2>2
<1>4. CASE How[q][v.phase] = "Read"
  <2>1. CASE is_read_lockable(v)
    <3>1. LoopTop(q, v, s) = "read_cas"
      BY <1>4, <2>1 DEF LoopTop
    <3>2. QED
      BY <1>4, <3>1 DEF WaitFits, Sleeps
  <2>2. CASE ~is_read_lockable(v)
    <3>1. LoopTop(q, v, s) = AfterRead(q, v, s)
      BY <1>4, <2>2 DEF LoopTop
    <3>2. QED
      BY <2>2, <3>1, AfterReadReady
  <2>3. QED
    BY <2>1, <2>2
<1>5. QED
  BY <1>1, <1>2, <1>3, <1>4

LEMMA CloneReady ==
  ASSUME NEW v \in Word, NEW s, NEW q, NEW w
  PROVE  /\ has_readers_max(v) => /\ WaitFits(ClonePost(v, s), v, "clone", q, w)
                                  /\ ClonePost(v, s) \notin Sleeps
         /\ WaitFits(CloneTop(v, s), v, "clone", q, w) /\ CloneTop(v, s) \notin Sleeps
<1>1. has_readers_max(v) => Busy(v)
  BY MaxIsBusy DEF Busy
<1>2. QED
  BY <1>1 DEF ClonePost, CloneTop, WaitFits, Sleeps

LEMMA TopWait ==
  ASSUME IInv, WaitInv, NEW t \in Threads, NEW s, NEW r, Goto(t, Top(t, word, s), word, s, r),
         pc[t] \in Calling \ HandsOver, word' = word, r = "clone" <=> ret[t] = "clone"
  PROVE  WaitInv'
<1>1. ret[t] # "clone" => req[t] \in Requests
  BY CallFacts
<1>2. word \in Word
  BY Facts
<1>3. /\ WaitFits(Top(t, word, s), word, r, req[t], word)
      /\ Top(t, word, s) \notin Sleeps
  BY <1>1, <1>2, LoopTopReady, CloneReady DEF Top
<1>4. QED
  BY <1>3, KeptWord, WaitGoto
-----------------------------------------------------------------------------
(* A thread goes where nothing is asked of it.                             *)
LEMMA RestGoto ==
  ASSUME IInv, WaitInv, NEW t \in Threads, NEW l, NEW v, NEW s, NEW r, Goto(t, l, v, s, r),
         pc[t] \notin HandsOver, l \notin Sleeps \cup WaitPoints, KeepsWaiters
  PROVE  WaitInv'
BY RestFits, WaitGoto

LEMMA LockedKeeps ==
  ASSUME IInv, word' = [word EXCEPT !.locked = TRUE]
  PROVE  KeepsWaiters
<1>1. word \in Word
  BY Facts
<1>2. word'.locked /\ word'.phase = word.phase /\ word'.rw = word.rw /\ word'.ww = word.ww
  BY <1>1 DEF Word
<1>3. QED
  BY <1>2 DEF KeepsWaiters, Unclaimed

LEMMA ReaderKeeps ==
  ASSUME IInv, word' = [word EXCEPT !.readers = @ + 1]
  PROVE  KeepsWaiters
<1>1. word \in Word /\ word.readers >= 0
  BY Facts, UnitsBound
<1>2. /\ word'.readers # 0 /\ word'.phase = word.phase /\ word'.rw = word.rw
      /\ word'.ww = word.ww
  BY <1>1 DEF Word
<1>3. QED
  BY <1>2 DEF KeepsWaiters, Unclaimed, has_no_readers

LEMMA AcquiredWait ==
  ASSUME IInv, WaitInv, NEW t \in Threads, NEW g, Acquired(t, g), pc[t] \notin HandsOver,
         KeepsWaiters
  PROVE  WaitInv'
BY RestGoto DEF Acquired, Sleeps, WaitPoints

LEMMA WriteCasWait ==
  ASSUME IInv, WaitInv, NEW t \in Threads, WriteCas(t)
  PROVE  WaitInv'
<1>1. pc[t] \in Calling \ HandsOver /\ pc[t] \notin CloneCalls
  BY DEF WriteCas, Calling, HandsOver, CloneCalls, WriterWakers, ReaderWakers
<1>2. ret[t] # "clone"
  BY <1>1, CallFacts
<1>3. CASE word' = [word EXCEPT !.locked = TRUE] /\ Acquired(t, Lock(word))
  BY <1>1, <1>3, LockedKeeps, AcquiredWait
<1>4. CASE word' = word /\ (Goto(t, "slow_load", Blank, 0, "slow") \/ Goto(t, "idle", Blank, 0, "idle"))
  BY <1>1, <1>4, KeptWord, RestGoto DEF Sleeps, WaitPoints
<1>5. CASE word' = word /\ Goto(t, Top(t, word, spin[t]), word, spin[t], "slow")
  BY <1>1, <1>2, <1>5, TopWait
<1>6. QED
  BY <1>3, <1>4, <1>5 DEF WriteCas

LEMMA TryReadWait ==
  ASSUME IInv, WaitInv, NEW t \in Threads, TryRead(t)
  PROVE  WaitInv'
<1>1. pc[t] \notin HandsOver
  BY DEF TryRead, HandsOver, WriterWakers, ReaderWakers
<1>2. CASE word' = [word EXCEPT !.readers = @ + 1] /\ Acquired(t, ReadLock(word.phase))
  BY <1>1, <1>2, ReaderKeeps, AcquiredWait
<1>3. CASE word' = word /\ \E l \in {"try_read", "idle"} : Goto(t, l, word, 0, "idle")
  BY <1>1, <1>3, KeptWord, RestGoto DEF Sleeps, WaitPoints
<1>4. QED
  BY <1>2, <1>3 DEF TryRead

LEMMA ReadCasWait ==
  ASSUME IInv, WaitInv, NEW t \in Threads, ReadCas(t)
  PROVE  WaitInv'
<1>1. pc[t] = "read_cas" /\ pc[t] \notin HandsOver
  BY DEF ReadCas, HandsOver, WriterWakers, ReaderWakers
<1>2. CASE word' = [word EXCEPT !.readers = @ + 1] /\ \E g : Acquired(t, g)
  BY <1>1, <1>2, ReaderKeeps, AcquiredWait
<1>3. CASE word' = word /\ Goto(t, "read_load", Blank, spin[t], ret[t])
  <2>1. WaitFits("read_load", Blank, ret[t], req[t], word')
    BY <1>1, <1>3 DEF WaitInv, WaitersReady, WaitFits
  <2>2. QED
    BY <1>1, <1>3, <2>1, KeptWord, WaitGoto DEF Sleeps
<1>4. QED
  BY <1>2, <1>3 DEF ReadCas

(* read_lock gives up only because the lock is not free for reading: the   *)
(* phase still makes the request read.                                     *)
LEMMA ReadLoadWait ==
  ASSUME IInv, WaitInv, NEW t \in Threads, ReadLoad(t)
  PROVE  WaitInv'
<1>1. /\ pc[t] = "read_load" /\ pc[t] \notin HandsOver /\ pc[t] \in Calling
      /\ word' = word /\ KeepsWaiters
  BY KeptWord DEF ReadLoad, HandsOver, WriterWakers, ReaderWakers, Calling
<1>2. ret[t] # "clone" => req[t] \in Requests /\ How[req[t]][word.phase] = "Read"
  BY <1>1, CallFacts DEF WaitInv, WaitersReady, WaitFits
<1>3. word \in Word
  BY Facts
<1>4. CASE Goto(t, "read_cas", word, spin[t], ret[t])
  <2>1. WaitFits("read_cas", word, ret[t], req[t], word')
    BY <1>1, <1>2 DEF WaitFits
  <2>2. QED
    BY <1>1, <1>4, <2>1, WaitGoto DEF Sleeps
<1>5. CASE Goto(t, "slow_load", Blank, 0, "slow")
  BY <1>1, <1>5, RestGoto DEF Sleeps, WaitPoints
<1>6. CASE has_readers_max(word) /\ Goto(t, ClonePost(word, spin[t]), word, spin[t], "clone")
  <2>1. /\ WaitFits(ClonePost(word, spin[t]), word, "clone", req[t], word')
        /\ ClonePost(word, spin[t]) \notin Sleeps
    BY <1>3, <1>6, CloneReady
  <2>2. QED
    BY <1>1, <1>6, <2>1, WaitGoto
<1>7. CASE /\ ret[t] # "clone" /\ ~is_read_lockable(word)
           /\ Goto(t, AfterRead(req[t], word, spin[t]), word, spin[t], "slow")
  <2>1. /\ WaitFits(AfterRead(req[t], word, spin[t]), word, "slow", req[t], word')
        /\ AfterRead(req[t], word, spin[t]) \notin Sleeps
    BY <1>2, <1>3, <1>7, AfterReadReady
  <2>2. QED
    BY <1>1, <1>7, <2>1, WaitGoto
<1>8. QED
  <2>1. CASE ret[t] = "clone"
    BY <1>4, <1>6, <2>1 DEF ReadLoad
  <2>2. CASE ret[t] # "clone"
    BY <1>2, <1>4, <1>5, <1>7, <2>2 DEF ReadLoad
  <2>3. QED
    BY <2>1, <2>2

LEMMA SlowLoadWait ==
  ASSUME IInv, WaitInv, NEW t \in Threads, SlowLoad(t)
  PROVE  WaitInv'
<1>1. pc[t] \in Calling \ HandsOver /\ word' = word
  BY DEF SlowLoad, Calling, HandsOver, WriterWakers, ReaderWakers
<1>2. PICK s : Goto(t, Top(t, word, s), word, s, ret[t])
  BY DEF SlowLoad
<1>3. QED
  BY <1>1, <1>2, TopWait

LEMMA LockWhileReadersWait ==
  ASSUME IInv, WaitInv, NEW t \in Threads, LockWhileReaders(t)
  PROVE  WaitInv'
<1>1. pc[t] \in Calling \ HandsOver /\ pc[t] \notin CloneCalls
  BY DEF LockWhileReaders, Calling, HandsOver, CloneCalls, WriterWakers, ReaderWakers
<1>2. ret[t] # "clone"
  BY <1>1, CallFacts
<1>3. CASE /\ word' = [word EXCEPT !.locked = TRUE]
           /\ \E l \in {"readers_load", "readers_cas"} : Goto(t, l, word', spin[t], "slow")
  BY <1>1, <1>3, LockedKeeps, RestGoto DEF Sleeps, WaitPoints
<1>4. CASE word' = word /\ Goto(t, Top(t, word, spin[t]), word, spin[t], "slow")
  BY <1>1, <1>2, <1>4, TopWait
<1>5. QED
  BY <1>3, <1>4 DEF LockWhileReaders

LEMMA ReadersLoadWait ==
  ASSUME IInv, WaitInv, NEW t \in Threads, ReadersLoad(t)
  PROVE  WaitInv'
<1>1. pc[t] \notin HandsOver /\ KeepsWaiters
  BY KeptWord DEF ReadersLoad, HandsOver, WriterWakers, ReaderWakers
<1>2. PICK l, v, s, r : l \in {"held", "readers_load", "readers_cas"} /\ Goto(t, l, v, s, r)
  BY DEF ReadersLoad, Acquired
<1>3. QED
  BY <1>1, <1>2, RestGoto DEF Sleeps, WaitPoints

(* A writer that stops waiting for the readers leaves WRITE_WAITER_BIT to  *)
(* the last of them.                                                       *)
LEMMA ReadersCasWait ==
  ASSUME IInv, WaitInv, NEW t \in Threads, ReadersCas(t)
  PROVE  WaitInv'
<1>1. pc[t] = "readers_cas" /\ pc[t] \notin HandsOver /\ Drains(pc[t]) /\ word \in Word
  BY Facts DEF ReadersCas, HandsOver, WriterWakers, ReaderWakers, Drains
<1>2. CASE /\ word = cur[t] /\ word' = [word EXCEPT !.ww = TRUE, !.locked = FALSE]
           /\ Goto(t, Waiting(req[t], word'), word', spin[t], "slow")
  <2>1. has_readers(word) /\ req[t] \in Requests
    BY <1>1, <1>2, DrainFacts DEF CasFits
  <2>2. /\ word' \in Word /\ word'.ww /\ word'.rw = word.rw /\ word'.phase = word.phase
        /\ word'.readers = word.readers
    BY <1>1, <1>2 DEF Word
  <2>3. Busy(word') /\ KeepsWaiters
    BY <2>1, <2>2 DEF Busy, has_no_waiters, KeepsWaiters, Unclaimed, has_no_readers, has_readers
  <2>4. PICK v \in Word : v = word'
    BY <2>2
  <2>5. WaitFits(Waiting(req[t], v), v, "slow", req[t], v) /\ Waiting(req[t], v) \notin Sleeps
    BY <2>1, <2>3, <2>4, WaitingReady
  <2>6. QED
    BY <1>1, <1>2, <2>3, <2>4, <2>5, WaitGoto
<1>3. CASE word' = word /\ Acquired(t, Lock(word))
  BY <1>1, <1>3, KeptWord, AcquiredWait
<1>4. CASE word' = word /\ Goto(t, "readers_cas", word, spin[t], "slow")
  BY <1>1, <1>4, KeptWord, RestGoto DEF Sleeps, WaitPoints
<1>5. QED
  BY <1>2, <1>3, <1>4 DEF ReadersCas

LEMMA LockMutWait ==
  ASSUME IInv, WaitInv, NEW t \in Threads, LockMut(t)
  PROVE  WaitInv'
<1>1. pc[t] \notin HandsOver
  BY DEF LockMut, HandsOver, WriterWakers, ReaderWakers
<1>2. QED
  BY <1>1, LockedKeeps, AcquiredWait DEF LockMut
-----------------------------------------------------------------------------
(* Only a busy lock gets a waiter bit.                                     *)
LEMMA SetWaiterWait ==
  ASSUME IInv, WaitInv, NEW t \in Threads, SetWaiter(t)
  PROVE  WaitInv'
<1>1. pc[t] \in Calling \ HandsOver /\ word \in Word
  BY Facts DEF SetWaiter, Calling, HandsOver, WriterWakers, ReaderWakers
<1>2. Busy(cur[t])
  BY DEF SetWaiter, WaitInv, WaitersReady, WaitFits
<1>3. CASE /\ word = cur[t] /\ word' = [word EXCEPT !.ww = TRUE]
           /\ Goto(t, "count_add", word', spin[t], ret[t])
  <2>1. /\ word'.ww /\ word'.rw = word.rw /\ word'.phase = word.phase
        /\ word'.readers = word.readers /\ word'.locked = word.locked
    BY <1>1, <1>3 DEF Word
  <2>2. KeepsWaiters
    BY <1>2, <1>3, <2>1 DEF KeepsWaiters, Unclaimed, Busy, has_no_readers, has_readers
  <2>3. WaitFits("count_add", word', ret[t], req[t], word')
    BY <2>1 DEF WaitFits
  <2>4. \E v : Goto(t, "count_add", v, spin[t], ret[t]) /\ WaitFits("count_add", v, ret[t], req[t], word')
    BY <1>3, <2>3
  <2>5. QED
    BY <1>1, <2>2, <2>4, WaitGoto DEF Sleeps
<1>4. CASE /\ word = cur[t] /\ word' = [word EXCEPT !.rw = TRUE]
           /\ Goto(t, "wait_r", word', spin[t], ret[t])
  <2>1. /\ word'.rw /\ word'.ww = word.ww /\ word'.phase = word.phase
        /\ word'.readers = word.readers /\ word'.locked = word.locked
    BY <1>1, <1>4 DEF Word
  <2>2. KeepsWaiters
    BY <1>2, <1>4, <2>1 DEF KeepsWaiters, Unclaimed, Busy, has_no_readers, has_readers
  <2>3. WaitFits("wait_r", word', ret[t], req[t], word')
    BY <2>1 DEF WaitFits
  <2>4. \E v : Goto(t, "wait_r", v, spin[t], ret[t]) /\ WaitFits("wait_r", v, ret[t], req[t], word')
    BY <1>4, <2>3
  <2>5. QED
    BY <1>1, <2>2, <2>4, WaitGoto DEF Sleeps
<1>5. CASE word' = word /\ Goto(t, Top(t, word, spin[t]), word, spin[t], ret[t])
  BY <1>1, <1>5, TopWait
<1>6. QED
  BY <1>3, <1>4, <1>5 DEF SetWaiter

LEMMA CountAddWait ==
  ASSUME IInv, WaitInv, NEW t \in Threads, CountAdd(t)
  PROVE  WaitInv'
<1>1. pc[t] = "count_add" /\ pc[t] \notin HandsOver /\ KeepsWaiters
  BY KeptWord DEF CountAdd, HandsOver, WriterWakers, ReaderWakers
<1>2. WaitFits("wait_w", cur[t], "slow", req[t], word')
  BY <1>1 DEF WaitInv, WaitersReady, WaitFits
<1>3. QED
  BY <1>1, <1>2, WaitGoto DEF CountAdd, Sleeps

(* A thread falls asleep only while its waiter bit is set.                 *)
LEMMA FutexWaitWait ==
  ASSUME IInv, WaitInv, NEW t \in Threads, FutexWait(t) \/ Interrupt(t)
  PROVE  WaitInv'
<1>1. pc[t] \notin HandsOver /\ word' = word /\ KeepsWaiters
  BY KeptWord DEF FutexWait, Interrupt, HandsOver, WriterWakers, ReaderWakers
<1>2. CASE \E l \in {"failed_w", "slow_load"} : \E r : Goto(t, l, Blank, 0, r)
  BY <1>1, <1>2, RestGoto DEF Sleeps, WaitPoints
<1>3. ASSUME NEW l \in Sleeps, NEW r, Goto(t, l, Blank, 0, r),
             l = "sleep_w" => word.ww, l = "sleep_r" => word.rw
      PROVE  WaitInv'
  <2>1. /\ pc'[t] = l
        /\ \A u \in Threads : u # t =>
             pc'[u] = pc[u] /\ cur'[u] = cur[u] /\ ret'[u] = ret[u] /\ req'[u] = req[u]
    BY <1>3, GotoEffect, Facts
  <2>2. WaitFits(pc'[t], cur'[t], ret'[t], req'[t], word')
    BY <2>1, RestFits DEF Sleeps, WaitPoints
  <2>3. ~Passes(pc[t], cur[t]) /\ pc[t] \notin WriterWakers /\ pc[t] \notin ReaderWakers
    BY <1>1 DEF Passes, HandsOver
  <2>4. QED
    BY <1>1, <1>3, <2>1, <2>2, <2>3, WaitStep
<1>4. CASE FutexWait(t) /\ word = cur[t]
  <2>1. WaitFits(pc[t], cur[t], ret[t], req[t], word)
    BY DEF WaitInv, WaitersReady
  <2>2. CASE pc[t] = "wait_w"
    <3>1. word.ww /\ Goto(t, "sleep_w", Blank, 0, "slow")
      BY <1>4, <2>1, <2>2 DEF FutexWait, WaitFits
    <3>2. QED
      BY <1>3, <3>1 DEF Sleeps
  <2>3. CASE pc[t] = "wait_r"
    <3>1. word.rw /\ Goto(t, "sleep_r", Blank, 0, ret[t])
      BY <1>4, <2>1, <2>3 DEF FutexWait, WaitFits
    <3>2. QED
      BY <1>3, <3>1 DEF Sleeps
  <2>4. QED
    BY <1>4, <2>2, <2>3 DEF FutexWait
<1>5. QED
  BY <1>2, <1>4 DEF FutexWait, Interrupt

(* A woken writer leaves WRITE_WAITER_BIT cleared only if it was the last  *)
(* thread that writer_count counted.                                       *)
LEMMA LastWriter ==
  ASSUME IInv, NEW t \in Threads, pc[t] \in Counted, ~(writer_count > 1)
  PROVE  \A u \in Threads : u # t => pc[u] \notin Counted
<1>1. IsFiniteSet(CountedWriters) /\ writer_count = Cardinality(CountedWriters)
      /\ writer_count \in Nat
  <2>1. IsFiniteSet(CountedWriters)
    BY SyncAssumption, FS_Subset DEF CountedWriters
  <2>2. QED
    BY <2>1, WritersCount DEF IInv, WritersInv
<1>2. SUFFICES ASSUME NEW u \in Threads, u # t, pc[u] \in Counted PROVE FALSE
  OBVIOUS
<1>3. {t, u} \subseteq CountedWriters
  BY <1>2 DEF CountedWriters
<1>4. Cardinality({t, u}) = 2
  <2>1. IsFiniteSet({t}) /\ Cardinality({t}) = 1
    BY FS_Singleton
  <2>2. Cardinality({t} \cup {u}) = Cardinality({t}) + 1
    BY <1>2, <2>1, FS_AddElement
  <2>3. {t} \cup {u} = {t, u}
    OBVIOUS
  <2>4. QED
    BY <2>1, <2>2, <2>3
<1>5. Cardinality({t, u}) <= Cardinality(CountedWriters)
  BY <1>1, <1>3, FS_Subset
<1>6. QED
  BY <1>1, <1>4, <1>5

LEMMA CountSubWait ==
  ASSUME IInv, WaitInv, NEW t \in Threads, CountSub(t)
  PROVE  WaitInv'
<1>1. pc[t] \in Counted /\ writer_count \in Nat /\ writer_count # 0 /\ word' = word /\ KeepsWaiters
  BY WritersCount, KeptWord DEF CountSub, Counted
<1>2. CASE pc[t] = "failed_w"
  <2>1. Goto(t, "slow_load", Blank, 0, "slow") /\ pc[t] \notin HandsOver
    BY <1>1, <1>2 DEF CountSub, HandsOver, WriterWakers, ReaderWakers
  <2>2. QED
    BY <1>1, <2>1, RestGoto DEF Sleeps, WaitPoints
<1>3. CASE pc[t] = "woken_w"
  <2>1. PICK l : /\ Goto(t, l, Blank, 0, "slow")
                 /\ l = IF writer_count > 1 THEN "or_ww" ELSE "locked_load"
    BY <1>1, <1>3 DEF CountSub
  <2>2. /\ pc'[t] = l
        /\ \A u \in Threads : u # t =>
             pc'[u] = pc[u] /\ cur'[u] = cur[u] /\ ret'[u] = ret[u] /\ req'[u] = req[u]
    BY <2>1, GotoEffect, Facts
  <2>3. WaitFits(pc'[t], cur'[t], ret'[t], req'[t], word')
    BY <2>1, <2>2, RestFits DEF WaitPoints
  <2>4. pc'[t] \in WriterWakers \/ \A u \in Threads : u # t => pc[u] # "sleep_w"
    BY <1>1, <2>1, <2>2, LastWriter DEF WriterWakers, Counted
  <2>5. ~Passes(pc[t], cur[t]) /\ pc[t] \notin ReaderWakers /\ pc'[t] \notin Sleeps
    BY <1>3, <2>1, <2>2 DEF Passes, ReaderWakers, Sleeps
  <2>6. QED
    BY <1>1, <2>2, <2>3, <2>4, <2>5, WaitStep DEF Sleeps
<1>4. QED
  BY <1>2, <1>3 DEF CountSub

LEMMA OrWriteWaiterWait ==
  ASSUME IInv, WaitInv, NEW t \in Threads, OrWriteWaiter(t)
  PROVE  WaitInv'
<1>1. pc[t] = "or_ww" /\ word \in Word /\ word' = [word EXCEPT !.ww = TRUE]
      /\ Goto(t, "locked_load", Blank, 0, "slow")
  BY Facts DEF OrWriteWaiter
<1>2. word.locked
  BY <1>1, WokenWriter
<1>3. /\ word'.ww /\ word'.rw = word.rw /\ word'.phase = word.phase /\ word'.locked
  BY <1>1, <1>2 DEF Word
<1>4. /\ pc'[t] = "locked_load"
      /\ \A u \in Threads : u # t =>
           pc'[u] = pc[u] /\ cur'[u] = cur[u] /\ ret'[u] = ret[u] /\ req'[u] = req[u]
  BY <1>1, GotoEffect, Facts
<1>5. WaitFits(pc'[t], cur'[t], ret'[t], req'[t], word') /\ pc[t] \notin ReaderWakers
  BY <1>1, <1>4, RestFits DEF WaitPoints, ReaderWakers
<1>6. ~Unclaimed(word')
  BY <1>3 DEF Unclaimed
<1>7. QED
  BY <1>3, <1>4, <1>5, <1>6, WaitStep

LEMMA LockedLoadWait ==
  ASSUME IInv, WaitInv, NEW t \in Threads, LockedLoad(t)
  PROVE  WaitInv'
<1>1. pc[t] = "locked_load" /\ pc[t] \notin HandsOver /\ KeepsWaiters
  BY KeptWord DEF LockedLoad, HandsOver, WriterWakers, ReaderWakers
<1>2. word.locked /\ req[t] \in Requests /\ word.phase \in Phases
  BY <1>1, WokenWriter, Facts
<1>3. How[req[t]][word.phase] \in {"None", "Read", "Write"}
  BY <1>2, SyncAssumption DEF Natures
<1>4. PICK l \in {"held", "convert", "drop"} : Goto(t, l, Blank, 0, "idle")
  BY <1>2, <1>3 DEF LockedLoad
<1>5. QED
  BY <1>1, <1>4, RestGoto DEF Sleeps, WaitPoints

LEMMA WokenReaderWait ==
  ASSUME IInv, WaitInv, NEW t \in Threads, WokenReader(t)
  PROVE  WaitInv'
<1>1. pc[t] = "woken_r" /\ pc[t] \notin HandsOver /\ KeepsWaiters /\ word.phase \in Phases
  BY KeptWord, Facts DEF WokenReader, HandsOver, WriterWakers, ReaderWakers
<1>2. ~has_no_readers(word) /\ (ret[t] # "clone" => req[t] \in Requests)
  BY <1>1, WokenReaderFacts
<1>3. ret[t] # "clone" => How[req[t]][word.phase] \in {"None", "Read", "Write"}
  BY <1>1, <1>2, SyncAssumption DEF Natures
<1>4. PICK l \in {"held", "read_drop"}, r \in {"idle", "slow"} : Goto(t, l, Blank, 0, r)
  BY <1>2, <1>3 DEF WokenReader, Acquired
<1>5. QED
  BY <1>1, <1>4, RestGoto DEF Sleeps, WaitPoints

LEMMA StillWait ==
  ASSUME WaitInv, UNCHANGED <<word, pc, cur, ret, req>>
  PROVE  WaitInv'
BY DEF WaitInv, WaitersReady, HandedOver, WritersAnnounced, ReadersAnnounced

LEMMA CloneWait ==
  ASSUME IInv, WaitInv, NEW t \in Threads, Clone(t)
  PROVE  WaitInv'
<1>1. pc[t] \notin HandsOver /\ word' = word /\ KeepsWaiters /\ word \in Word
  BY KeptWord, Facts DEF Clone, HandsOver, WriterWakers, ReaderWakers
<1>2. WaitFits(CloneTop(word, 0), word, "clone", req[t], word') /\ CloneTop(word, 0) \notin Sleeps
  BY <1>1, CloneReady
<1>3. QED
  BY <1>1, <1>2, WaitGoto DEF Clone

LEMMA OptimisticLockWait ==
  ASSUME IInv, WaitInv, NEW t \in Threads, NEW q \in Requests, OptimisticLock(t, q)
  PROVE  WaitInv'
<1> DEFINE second == IF q \in Tries THEN SecondTry(q, word) ELSE SecondAttempt(q, word)
<1>1. /\ pc \in [Threads -> Locations] /\ cur \in [Threads -> Word] /\ ret \in [Threads -> Returns]
      /\ req \in [Threads -> Requests \cup {NoRequest}] /\ word \in Word /\ word.readers >= 0
  BY Facts, UnitsBound DEF TypeInv, TypeOK
<1>2. pc[t] = "idle" /\ ~Passes(pc[t], cur[t]) /\ pc[t] \notin WriterWakers
      /\ pc[t] \notin ReaderWakers
  BY DEF OptimisticLock, Passes, WriterWakers, ReaderWakers
<1>3. \A u \in Threads : u # t =>
        pc'[u] = pc[u] /\ cur'[u] = cur[u] /\ ret'[u] = ret[u] /\ req'[u] = req[u]
  BY <1>1 DEF OptimisticLock
<1>4. CASE /\ pc' = [pc EXCEPT ![t] = "held"]
           /\ word' = [word EXCEPT !.locked = TRUE] \/ word' = [word EXCEPT !.readers = 1]
  <2>1. KeepsWaiters
    BY <1>1, <1>4 DEF KeepsWaiters, Unclaimed, has_no_readers, has_no_waiters, Word
  <2>2. pc'[t] = "held" /\ WaitFits(pc'[t], cur'[t], ret'[t], req'[t], word')
    BY <1>1, <1>4, RestFits DEF WaitPoints
  <2>3. QED
    BY <1>2, <1>3, <2>1, <2>2, WaitStep DEF KeepsWaiters
<1>5. CASE /\ pc' = [pc EXCEPT ![t] = second]
           /\ req' = [req EXCEPT ![t] = IF second = "idle" THEN NoRequest ELSE q]
           /\ word' = word
  <2>1. /\ second \in {"idle", "try_write", "try_read", "second_write", "read_cas", "slow_load"}
        /\ second = "read_cas" => CasFits(second, word, "fast", q)
    BY <1>1, SecondFits
  <2>2. HIDE DEF second
  <2>3. pc'[t] = second /\ (second = "read_cas" => req'[t] = q)
    BY <1>1, <1>5
  <2>4. WaitFits(pc'[t], cur'[t], ret'[t], req'[t], word')
    BY <1>5, <2>1, <2>3 DEF WaitFits, CasFits
  <2>5. pc'[t] # "sleep_w" /\ pc'[t] # "sleep_r"
    BY <2>1, <2>3
  <2>6. QED
    BY <1>2, <1>3, <1>5, <2>4, <2>5, WaitStep
<1>6. QED
  BY <1>4, <1>5 DEF OptimisticLock
-----------------------------------------------------------------------------
(* A thread that takes part in a hand-over.                                *)
LEMMA PassGoto ==
  ASSUME IInv, WaitInv, NEW t \in Threads, NEW l, NEW v, NEW s, NEW r, Goto(t, l, v, s, r),
         l \notin Sleeps \cup WaitPoints,
         \A q \in Requests : How[q][word.phase] = "Read" => How[q][word'.phase] = "Read",
         Unclaimed(word') => Passes(l, v) \/ (Unclaimed(word) /\ ~Passes(pc[t], cur[t])),
         word.ww \/ pc[t] \in WriterWakers => word'.ww \/ l \in WriterWakers,
         word.rw \/ pc[t] \in ReaderWakers => word'.rw \/ l \in ReaderWakers
  PROVE  WaitInv'
<1>1. /\ pc'[t] = l
      /\ cur'[t] = IF l \in Forgetful THEN Blank ELSE v
      /\ \A u \in Threads : u # t =>
           pc'[u] = pc[u] /\ cur'[u] = cur[u] /\ ret'[u] = ret[u] /\ req'[u] = req[u]
  BY GotoEffect, Facts
<1>2. Passes(l, v) => Passes(pc'[t], cur'[t])
  BY <1>1 DEF Passes, Forgetful
<1>3. WaitFits(pc'[t], cur'[t], ret'[t], req'[t], word')
  BY <1>1, RestFits
<1>4. pc'[t] # "sleep_w" /\ pc'[t] # "sleep_r"
  BY <1>1 DEF Sleeps
<1>5. QED
  BY <1>1, <1>2, <1>3, <1>4, WaitStep

(* The phase that a write guard leaves behind keeps the readers reading.   *)
LEMMA LeavesReaders ==
  ASSUME ReadStaysRead, IInv, NEW t \in Threads, guard[t].kind = "write",
         word'.phase = guard[t].on_unlock
  PROVE  \A q \in Requests : How[q][word.phase] = "Read" => How[q][word'.phase] = "Read"
<1>1. /\ guard[t].init = word.phase
      /\ PhaseFits(pc[t], ret[t], req[t], guard[t], word.phase)
  BY WriterFacts
<1>2. CASE guard[t].on_unlock = guard[t].init
  BY <1>1, <1>2
<1>3. CASE guard[t].on_unlock # guard[t].init
  <2>1. /\ req[t] \in Requests /\ guard[t].on_unlock \in Unlocks[req[t]]
        /\ How[req[t]][word.phase] = "Write" /\ word.phase \in Phases
    BY <1>1, <1>3, Facts DEF PhaseFits
  <2>2. QED
    BY <2>1 DEF ReadStaysRead
<1>4. QED
  BY <1>2, <1>3

LEMMA WriteGuardAt ==
  ASSUME IInv, NEW t \in Threads, pc[t] \in {"convert", "drop", "drop_xor"}
  PROVE  guard[t].kind = "write"
<1>1. GuardFits(pc[t], ret[t], guard[t]) /\ guard[t].kind \in {"none", "read", "write"}
  BY Facts DEF Local
<1>2. QED
  BY <1>1 DEF GuardFits, Converting, CloneCalls

LEMMA IntoReadLockWait ==
  ASSUME ReadStaysRead, IInv, WaitInv, NEW t \in Threads, IntoReadLock(t)
  PROVE  WaitInv'
<1> DEFINE o == guard[t].on_unlock
<1>1. guard[t].kind = "write" /\ word \in Word /\ pc[t] \notin HandsOver
  BY WriteGuardAt, Facts DEF IntoReadLock, HandsOver, WriterWakers, ReaderWakers
<1>2. word.readers = 0 /\ guard[t].init = word.phase /\ o \in Phases
  BY <1>1, WriterFacts
<1>3. FlipUnity(word.readers) = 1 /\ SymDiff(word.phase, SymDiff(guard[t].init, o)) = o
  BY <1>2, XorPhase DEF FlipUnity
<1>4. word' = [word EXCEPT !.phase = o, !.locked = ~@, !.readers = 1]
  BY <1>3 DEF IntoReadLock
<1>5. word'.phase = o /\ word'.readers = 1 /\ word'.rw = word.rw /\ word'.ww = word.ww
  BY <1>1, <1>4 DEF Word
<1>6. KeepsWaiters
  BY <1>1, <1>5, LeavesReaders DEF KeepsWaiters, Unclaimed, has_no_readers
<1>7. PICK l, r : l \in {"conv_xor", "held"} /\ Goto(t, l, Blank, 0, r)
  BY DEF IntoReadLock
<1>8. QED
  BY <1>1, <1>6, <1>7, RestGoto DEF Sleeps, WaitPoints

LEMMA FinishGoto ==
  ASSUME NEW t \in Threads, Finish(t)
  PROVE  \E l \in {"slow_load", "dead", "held", "idle"} : \E v, s, r : Goto(t, l, v, s, r)
BY DEF Finish, ReturnTo

LEMMA DropLockWait ==
  ASSUME ReadStaysRead, IInv, WaitInv, NEW t \in Threads, DropLock(t)
  PROVE  WaitInv'
<1>1. guard[t].kind = "write" /\ word \in Word /\ pc[t] \notin HandsOver
  BY WriteGuardAt, Facts DEF DropLock, HandsOver, WriterWakers, ReaderWakers
<1>2. CASE /\ word = [Free(guard[t].init) EXCEPT !.locked = TRUE]
           /\ word' = Free(guard[t].on_unlock) /\ Finish(t)
  <2>1. /\ ~word.ww /\ ~word.rw /\ ~word'.ww /\ ~word'.rw /\ word'.phase = guard[t].on_unlock
    BY <1>2 DEF Free
  <2>2. KeepsWaiters
    BY <1>1, <2>1, LeavesReaders DEF KeepsWaiters, Unclaimed, has_no_waiters
  <2>3. QED
    BY <1>1, <1>2, <2>2, FinishGoto, RestGoto DEF Sleeps, WaitPoints
<1>3. CASE Goto(t, "drop_xor", Blank, 0, ret[t]) /\ word' = word
  BY <1>1, <1>3, KeptWord, RestGoto DEF Sleeps, WaitPoints
<1>4. QED
  BY <1>2, <1>3 DEF DropLock

(* Whoever frees a word with waiter bits goes on to transfer_lock.         *)
LEMMA DropXorWait ==
  ASSUME ReadStaysRead, IInv, WaitInv, NEW t \in Threads, DropXor(t)
  PROVE  WaitInv'
<1> DEFINE o == guard[t].on_unlock
<1>1. pc[t] = "drop_xor" /\ guard[t].kind = "write" /\ word \in Word /\ pc[t] \notin HandsOver
  BY WriteGuardAt, Facts DEF DropXor, HandsOver, WriterWakers, ReaderWakers
<1>2. guard[t].init = word.phase /\ o \in Phases
  BY <1>1, WriterFacts
<1>3. SymDiff(word.phase, SymDiff(guard[t].init, o)) = o
  BY <1>2, XorPhase
<1>4. word' = [word EXCEPT !.phase = o, !.locked = ~@]
  BY <1>3 DEF DropXor
<1>5. word'.phase = o /\ word'.rw = word.rw /\ word'.ww = word.ww
  BY <1>1, <1>4 DEF Word
<1>6. \A q \in Requests : How[q][word.phase] = "Read" => How[q][word'.phase] = "Read"
  BY <1>1, <1>5, LeavesReaders
<1>7. CASE has_no_waiters(word)
  <2>1. KeepsWaiters
    BY <1>5, <1>6, <1>7 DEF KeepsWaiters, Unclaimed, has_no_waiters
  <2>2. Finish(t)
    BY <1>7 DEF DropXor
  <2>3. QED
    BY <1>1, <2>1, <2>2, FinishGoto, RestGoto DEF Sleeps, WaitPoints
<1>8. CASE ~has_no_waiters(word)
  <2>1. PICK v : Goto(t, "transfer", v, 0, ret[t])
    BY <1>8 DEF DropXor
  <2>2. Passes("transfer", v)
    BY DEF Passes
  <2>3. pc[t] \notin WriterWakers /\ pc[t] \notin ReaderWakers
    BY <1>1 DEF HandsOver
  <2>4. QED
    BY <1>5, <1>6, <2>1, <2>2, <2>3, PassGoto DEF Sleeps, WaitPoints
<1>9. QED
  BY <1>7, <1>8

LEMMA DropReadLockWait ==
  ASSUME IInv, WaitInv, NEW t \in Threads, DropReadLock(t)
  PROVE  WaitInv'
<1>1. /\ word \in Word /\ pc[t] \notin HandsOver /\ word' = [word EXCEPT !.readers = @ - 1]
  BY Facts DEF DropReadLock, HandsOver, WriterWakers, ReaderWakers
<1>2. /\ word'.phase = word.phase /\ word'.readers = word.readers - 1
      /\ word'.locked = word.locked /\ word'.rw = word.rw /\ word'.ww = word.ww
      /\ word.readers \in Int
  BY <1>1 DEF Word
<1>3. Unclaimed(word') => has_one_reader(word) /\ ~word.locked /\ ~has_no_waiters(word)
  BY <1>2 DEF Unclaimed, has_one_reader, has_no_readers, has_no_waiters
<1>4. CASE has_one_reader(word) /\ ~word.locked /\ ~has_no_waiters(word)
  <2>1. PICK v, r : Goto(t, "transfer", v, 0, r)
    BY <1>4 DEF DropReadLock
  <2>2. Passes("transfer", v)
    BY DEF Passes
  <2>3. pc[t] \notin WriterWakers /\ pc[t] \notin ReaderWakers
    BY <1>1 DEF HandsOver
  <2>4. QED
    BY <1>2, <2>1, <2>2, <2>3, PassGoto DEF Sleeps, WaitPoints
<1>5. CASE ~(has_one_reader(word) /\ ~word.locked /\ ~has_no_waiters(word))
  <2>1. PICK l, r : l \in {"slow_load", "dead", "held", "idle"} /\ Goto(t, l, Blank, 0, r)
    BY <1>5 DEF DropReadLock, ReturnTo
  <2>2. KeepsWaiters
    BY <1>2, <1>3, <1>5 DEF KeepsWaiters
  <2>3. QED
    BY <1>1, <2>1, <2>2, RestGoto DEF Sleeps, WaitPoints
<1>6. QED
  BY <1>4, <1>5
-----------------------------------------------------------------------------
LEMMA TransferLockWait ==
  ASSUME IInv, WaitInv, NEW t \in Threads, TransferLock(t)
  PROVE  WaitInv'
<1>1. pc[t] = "transfer" /\ pc[t] \in HandOver /\ word' = word
  BY DEF TransferLock, HandOver
<1>2. ~cur[t].locked /\ has_no_readers(cur[t]) /\ ~has_no_waiters(cur[t])
  BY <1>1, HandOverFacts DEF BitsFit
<1>3. PICK l \in {"give_xor", "wake_xor"} : Passes(l, cur[t]) /\ Goto(t, l, cur[t], 0, ret[t])
  <2>1. Goto(t, TransferNext(prefer_wake_one_writer, cur[t]), cur[t], 0, ret[t])
    BY <1>2 DEF TransferLock, has_no_readers, has_readers
  <2>2. /\ TransferNext(prefer_wake_one_writer, cur[t]) \in {"give_xor", "wake_xor"}
        /\ Passes(TransferNext(prefer_wake_one_writer, cur[t]), cur[t])
    BY <1>2, TransferNextFits
  <2>3. QED
    BY <2>1, <2>2
<1>4. pc[t] \notin WriterWakers /\ pc[t] \notin ReaderWakers
  BY <1>1 DEF WriterWakers, ReaderWakers
<1>5. QED
  BY <1>1, <1>3, <1>4, PassGoto DEF Sleeps, WaitPoints

(* WRITE_WAITER_BIT is cleared by a thread that goes on to wake a writer.  *)
LEMMA GiveXorWait ==
  ASSUME IInv, WaitInv, NEW t \in Threads, GiveXor(t)
  PROVE  WaitInv'
<1>1. /\ pc[t] = "give_xor" /\ pc[t] \in HandOver /\ word \in Word
      /\ word' = [word EXCEPT !.ww = ~@, !.locked = ~@]
  BY Facts DEF GiveXor, HandOver
<1>2. word.ww /\ ~word.locked /\ word.readers = 0
  BY <1>1, HandOverFacts DEF BitsFit, Passes
<1>3. word'.locked /\ word'.rw = word.rw /\ word'.phase = word.phase
  BY <1>1, <1>2 DEF Word
<1>4. PICK v : Goto(t, "give_wake", v, 0, ret[t])
  BY <1>2 DEF GiveXor, has_readers
<1>5. pc[t] \notin ReaderWakers /\ "give_wake" \in WriterWakers /\ ~Unclaimed(word')
  BY <1>1, <1>3 DEF WriterWakers, ReaderWakers, Unclaimed
<1>6. QED
  BY <1>3, <1>4, <1>5, PassGoto DEF Sleeps, WaitPoints

LEMMA GiveAndWait ==
  ASSUME IInv, WaitInv, NEW t \in Threads, GiveAnd(t)
  PROVE  WaitInv'
<1>1. /\ pc[t] = "give_and" /\ pc[t] \in HandOver /\ word \in Word
      /\ word' = [word EXCEPT !.locked = FALSE] /\ pc[t] \notin HandsOver
  BY Facts DEF GiveAnd, HandOver, HandsOver, WriterWakers, ReaderWakers
<1>2. word.locked
  BY <1>1, HandOverFacts DEF Passes
<1>3. ~word'.locked /\ word'.rw = word.rw /\ word'.ww = word.ww /\ word'.phase = word.phase
  BY <1>1 DEF Word
<1>4. CASE has_no_waiters(word)
  <2>1. Finish(t)
    BY <1>2, <1>4 DEF GiveAnd
  <2>2. KeepsWaiters
    BY <1>3, <1>4 DEF KeepsWaiters, Unclaimed, has_no_waiters
  <2>3. QED
    BY <1>1, <2>1, <2>2, FinishGoto, RestGoto DEF Sleeps, WaitPoints
<1>5. CASE ~has_no_waiters(word)
  <2>1. PICK v : v = word'
    OBVIOUS
  <2>2. Goto(t, TransferNext(prefer[t], v), v, 0, ret[t])
    BY <1>1, <1>2, <1>5, <2>1 DEF GiveAnd
  <2>3. ~v.locked /\ ~has_no_waiters(v)
    BY <1>3, <1>5, <2>1 DEF has_no_waiters
  <2>4. PICK l \in {"give_xor", "wake_xor"} : l = TransferNext(prefer[t], v) /\ Passes(l, v)
    BY <2>3, TransferNextFits
  <2>5. pc[t] \notin WriterWakers /\ pc[t] \notin ReaderWakers
    BY <1>1 DEF HandsOver
  <2>6. QED
    BY <1>3, <2>2, <2>4, <2>5, PassGoto DEF Sleeps, WaitPoints
<1>6. QED
  BY <1>4, <1>5

(* The woken writer sees to the writers that still sleep.                  *)
LEMMA GiveWakeWait ==
  ASSUME IInv, WaitInv, NEW t \in Threads, GiveWake(t)
  PROVE  WaitInv'
<1>1. pc[t] = "give_wake" /\ pc[t] \in HandOver /\ word' = word
  BY DEF GiveWake, HandOver
<1>2. word.locked /\ ~Unclaimed(word') /\ ~Passes(pc[t], cur[t]) /\ ret[t] \in {"idle", "slow"}
      /\ pc[t] \notin ReaderWakers
  BY <1>1, HandOverFacts DEF Passes, Unclaimed, ReaderWakers
<1>3. CASE /\ {u \in Threads : pc[u] = "sleep_w"} = {}
           /\ \E l \in {"wake_xor", "give_and"} : \E v : Goto(t, l, v, 0, ret[t])
  <2>1. PICK l, v : l \in {"wake_xor", "give_and"} /\ Goto(t, l, v, 0, ret[t])
    BY <1>3
  <2>2. /\ pc'[t] = l
        /\ \A u \in Threads : u # t =>
             pc'[u] = pc[u] /\ cur'[u] = cur[u] /\ ret'[u] = ret[u] /\ req'[u] = req[u]
    BY <2>1, GotoEffect, Facts
  <2>3. WaitFits(pc'[t], cur'[t], ret'[t], req'[t], word') /\ pc'[t] \notin Sleeps
    BY <2>1, <2>2, RestFits DEF WaitPoints, Sleeps
  <2>4. \A u \in Threads : u # t => pc[u] # "sleep_w"
    BY <1>3
  <2>5. QED
    BY <1>1, <1>2, <2>2, <2>3, <2>4, WaitStep DEF Sleeps
<1>4. ASSUME NEW u \in Threads, pc[u] = "sleep_w",
             pc' = [pc EXCEPT ![u] = "woken_w", ![t] = ReturnTo(ret[t])],
             cur' = [cur EXCEPT ![t] = Blank],
             req' = [req EXCEPT ![t] = IF ReturnTo(ret[t]) = "idle" THEN NoRequest ELSE @],
             ret' = ret
      PROVE  WaitInv'
  <2>1. /\ pc \in [Threads -> Locations] /\ cur \in [Threads -> Word]
        /\ req \in [Threads -> Requests \cup {NoRequest}]
    BY Facts DEF TypeInv, TypeOK
  <2>2. /\ u # t /\ pc'[u] = "woken_w" /\ pc'[t] \in {"idle", "slow_load"}
        /\ \A x \in Threads : x # u /\ x # t => pc'[x] = pc[x]
        /\ \A x \in Threads : x # t => cur'[x] = cur[x] /\ req'[x] = req[x]
    BY <1>1, <1>2, <1>4, <2>1 DEF ReturnTo
  <2>3. WaitersReady'
    <3>1. ASSUME NEW x \in Threads, x = t \/ x = u
          PROVE  WaitFits(pc'[x], cur'[x], ret'[x], req'[x], word')
      BY <2>2, <3>1, RestFits DEF WaitPoints
    <3>2. ASSUME NEW x \in Threads, x # t, x # u
          PROVE  WaitFits(pc'[x], cur'[x], ret'[x], req'[x], word')
      BY <1>1, <1>4, <2>2, <3>2 DEF WaitInv, WaitersReady
    <3>3. QED
      BY <3>1, <3>2 DEF WaitersReady
  <2>4. HandedOver'
    BY <1>2 DEF HandedOver
  <2>5. WritersAnnounced'
    BY <2>2 DEF WritersAnnounced, WriterWakers
  <2>6. ReadersAnnounced'
    <3>1. SUFFICES ASSUME NEW x \in Threads, pc'[x] = "sleep_r"
                   PROVE  word'.rw \/ \E y \in Threads : pc'[y] \in ReaderWakers
      BY DEF ReadersAnnounced
    <3>2. pc[x] = "sleep_r"
      BY <2>2, <3>1
    <3>3. word.rw \/ \E y \in Threads : pc[y] \in ReaderWakers
      BY <3>2 DEF WaitInv, ReadersAnnounced
    <3>4. pc[u] \notin ReaderWakers
      BY <1>4 DEF ReaderWakers
    <3>5. QED
      BY <1>1, <1>2, <2>2, <3>3, <3>4
  <2>7. QED
    BY <2>3, <2>4, <2>5, <2>6 DEF WaitInv
<1>5. QED
  BY <1>3, <1>4 DEF GiveWake

(* READ_WAITER_BIT is cleared by a thread that goes on to wake the readers.*)
LEMMA WakeXorWait ==
  ASSUME IInv, WaitInv, NEW t \in Threads, WakeXor(t)
  PROVE  WaitInv'
<1>1. /\ pc[t] = "wake_xor" /\ pc[t] \in HandOver /\ word \in Word /\ cur[t] \in Word
      /\ word' = [word EXCEPT !.rw = ~@, !.readers = FlipOverf(FlipUnity(@)),
                              !.locked = IF cur[t].locked THEN ~@ ELSE @]
  BY Facts DEF WakeXor, HandOver
<1>2. /\ word.readers = 0 /\ (word.locked <=> ~Passes(pc[t], cur[t]))
  BY <1>1, HandOverFacts
<1>3. word.locked = cur[t].locked
  <2>1. word.locked <=> cur[t].locked
    BY <1>1, <1>2 DEF Passes
  <2>2. word.locked \in BOOLEAN /\ cur[t].locked \in BOOLEAN
    BY <1>1 DEF Word
  <2>3. QED
    BY <2>1, <2>2
<1>4. FlipOverf(FlipUnity(word.readers)) = Overf + 1
  BY <1>2, SyncAssumption DEF FlipOverf, FlipUnity
<1>5. word'.readers = Overf + 1 /\ word'.ww = word.ww /\ word'.phase = word.phase
  BY <1>1, <1>4 DEF Word
<1>6. Goto(t, "wake_call", Blank, 0, ret[t])
  BY <1>2, <1>3 DEF WakeXor
<1>7. pc[t] \notin WriterWakers /\ "wake_call" \in ReaderWakers /\ ~Unclaimed(word')
  BY <1>1, <1>5, SyncAssumption DEF WriterWakers, ReaderWakers, Unclaimed, has_no_readers
<1>8. QED
  BY <1>5, <1>6, <1>7, PassGoto DEF Sleeps, WaitPoints

LEMMA ConvertXorWait ==
  ASSUME IInv, WaitInv, NEW t \in Threads, ConvertXor(t), ~word.locked
  PROVE  WaitInv'
<1>1. /\ pc[t] = "conv_xor" /\ Wakes(pc[t]) /\ word \in Word
      /\ word' = [word EXCEPT !.rw = ~@, !.readers = FlipOverf(@)]
  BY Facts DEF ConvertXor, Wakes
<1>2. word.readers >= 1 /\ word.readers < Overf /\ word.readers \in Int
  BY <1>1, WakerFacts DEF BitsFit
<1>3. word'.readers = word.readers + Overf /\ word'.ww = word.ww /\ word'.phase = word.phase
  BY <1>1, <1>2 DEF Word, FlipOverf
<1>5. Goto(t, "conv_call", Blank, 0, ret[t])
  BY DEF ConvertXor
<1>6. pc[t] \notin WriterWakers /\ "conv_call" \in ReaderWakers /\ ~Unclaimed(word')
  BY <1>1, <1>2, <1>3, SyncAssumption DEF WriterWakers, ReaderWakers, Unclaimed, has_no_readers
<1>7. QED
  BY <1>3, <1>5, <1>6, PassGoto DEF Sleeps, WaitPoints

LEMMA OrReadWaiterWait ==
  ASSUME IInv, WaitInv, NEW t \in Threads, OrReadWaiter(t)
  PROVE  WaitInv'
<1>1. /\ pc[t] \in {"wake_or", "conv_or"} /\ Wakes(pc[t]) /\ word \in Word
      /\ word' = [word EXCEPT !.rw = TRUE]
  BY Facts DEF OrReadWaiter, Wakes, Unsettling
<1>2. word.readers >= 1
  BY <1>1, WakerFacts
<1>3. word'.rw /\ word'.readers = word.readers /\ word'.ww = word.ww /\ word'.phase = word.phase
  BY <1>1 DEF Word
<1>4. PICK l \in {"wake_sub", "conv_sub"} : Goto(t, l, Blank, 0, ret[t])
  BY DEF OrReadWaiter
<1>5. pc[t] \notin WriterWakers /\ ~Unclaimed(word')
  BY <1>1, <1>2, <1>3 DEF WriterWakers, Unclaimed, has_no_readers
<1>6. QED
  BY <1>3, <1>4, <1>5, PassGoto DEF Sleeps, WaitPoints

LEMMA WakeSubWait ==
  ASSUME IInv, WaitInv, NEW t \in Threads, WakeSub(t)
  PROVE  WaitInv'
<1>1. /\ pc[t] \in {"wake_sub", "conv_sub"} /\ Wakes(pc[t]) /\ pc[t] \in Unsettling
      /\ word' = [word EXCEPT !.readers = @ - (Overf - count[t])] /\ word \in Word
      /\ pc[t] \notin HandsOver
  BY Facts DEF WakeSub, Wakes, Unsettling, HandsOver, WriterWakers, ReaderWakers
<1>2. Overf \in Nat /\ count[t] \in Nat /\ Units(t) = 1 /\ word.readers \in Int
      /\ 1 \in 1..MaxGuards
  BY <1>1, WakerFacts, SyncAssumption
<1>3. Cardinality(ReadLocks) \in Nat /\ Cardinality(ReadLocks) # 0
  <2>1. <<t, 1>> \in ReadLocks
    BY <1>2 DEF ReadLocks
  <2>2. QED
    BY <2>1, ReadLocksFinite, FS_EmptySet
<1>4. word.readers = Cardinality(ReadLocks) + (Overf - count[t])
  BY <1>1 DEF IInv, FieldInv
<1>5. /\ word'.readers = word.readers - (Overf - count[t])
      /\ word'.rw = word.rw /\ word'.ww = word.ww /\ word'.phase = word.phase
  BY <1>1 DEF Word
<1>6. word'.readers # 0
  BY <1>2, <1>3, <1>4, <1>5
<1>7. KeepsWaiters
  BY <1>5, <1>6 DEF KeepsWaiters, Unclaimed, has_no_readers
<1>8. PICK l, v, s, r : l \in {"read_drop", "held"} /\ Goto(t, l, v, s, r)
  BY DEF WakeSub, Acquired
<1>9. QED
  BY <1>1, <1>7, <1>8, RestGoto DEF Sleeps, WaitPoints

(* Either no reader is left asleep, or READ_WAITER_BIT is set again.       *)
LEMMA FutexWakeReadersWait ==
  ASSUME IInv, WaitInv, NEW t \in Threads, FutexWakeReaders(t)
  PROVE  WaitInv'
<1> DEFINE sleepers == {u \in Threads : pc[u] = "sleep_r"}
<1>1. /\ pc[t] \in {"wake_call", "conv_call"} /\ Wakes(pc[t]) /\ Overf \in Nat
      /\ word' = word /\ req' = req /\ cur' = cur /\ ret' = ret
  BY Facts DEF FutexWakeReaders, Wakes, Unsettling
<1>2. PICK S \in SUBSET sleepers :
        /\ Cardinality(S) = IF Cardinality(sleepers) < Overf THEN Cardinality(sleepers) ELSE Overf
        /\ pc' = [u \in Threads |->
                    IF u = t
                      THEN IF pc[t] = "wake_call"
                             THEN IF Cardinality(S) = Overf THEN "wake_or" ELSE "wake_sub"
                             ELSE IF Cardinality(S) = Overf THEN "conv_or" ELSE "conv_sub"
                      ELSE IF u \in S THEN "woken_r" ELSE pc[u]]
  BY DEF FutexWakeReaders
<1>3. /\ t \notin S
      /\ pc'[t] \in {"wake_or", "conv_or", "wake_sub", "conv_sub"}
      /\ Cardinality(S) = Overf => pc'[t] \in ReaderWakers
      /\ \A u \in S : pc[u] = "sleep_r" /\ pc'[u] = "woken_r"
      /\ \A u \in Threads \ S : u # t => pc'[u] = pc[u]
  BY <1>1, <1>2 DEF ReaderWakers
<1>4. ~Unclaimed(word')
  BY <1>1, WakerFacts DEF Unclaimed, has_no_readers, has_readers
<1>5. WaitersReady'
  <2>1. ASSUME NEW u \in Threads, u = t \/ u \in S
        PROVE  WaitFits(pc'[u], cur'[u], ret'[u], req'[u], word')
    BY <1>3, <2>1, RestFits DEF WaitPoints
  <2>2. ASSUME NEW u \in Threads, u # t, u \notin S
        PROVE  WaitFits(pc'[u], cur'[u], ret'[u], req'[u], word')
    BY <1>1, <1>3, <2>2 DEF WaitInv, WaitersReady
  <2>3. QED
    BY <2>1, <2>2 DEF WaitersReady
<1>6. HandedOver'
  BY <1>4 DEF HandedOver
<1>7. WritersAnnounced'
  <2>1. SUFFICES ASSUME NEW x \in Threads, pc'[x] = "sleep_w"
                 PROVE  word'.ww \/ \E y \in Threads : pc'[y] \in WriterWakers
    BY DEF WritersAnnounced
  <2>2. pc[x] = "sleep_w"
    BY <1>3, <2>1
  <2>3. word.ww \/ \E y \in Threads : pc[y] \in WriterWakers
    BY <2>2 DEF WaitInv, WritersAnnounced
  <2>4. pc[t] \notin WriterWakers /\ \A u \in S : pc[u] \notin WriterWakers
    BY <1>1, <1>3 DEF WriterWakers
  <2>5. QED
    BY <1>1, <1>3, <2>3, <2>4
<1>8. ReadersAnnounced'
  <2>1. CASE Cardinality(S) = Overf
    BY <1>3, <2>1 DEF ReadersAnnounced
  <2>2. CASE Cardinality(S) # Overf
    <3>1. IsFiniteSet(sleepers) /\ S \subseteq sleepers
      BY FS_Subset, SyncAssumption
    <3>2. Cardinality(S) = Cardinality(sleepers)
      BY <1>2, <2>2
    <3>3. S = sleepers
      BY <3>1, <3>2, FS_Subset
    <3>4. \A u \in Threads : pc'[u] # "sleep_r"
      BY <1>3, <3>3
    <3>5. QED
      BY <3>4 DEF ReadersAnnounced
  <2>3. QED
    BY <2>1, <2>2
<1>9. QED
  BY <1>5, <1>6, <1>7, <1>8 DEF WaitInv
-----------------------------------------------------------------------------
LEMMA InitWait == Init => WaitInv
<1> SUFFICES ASSUME Init PROVE WaitInv
  OBVIOUS
<1>1. /\ has_no_waiters(word)
      /\ \A t \in Threads : pc[t] = "idle"
  BY DEF Init, Free, has_no_waiters
<1>2. WaitersReady
  BY <1>1, RestFits DEF WaitersReady, WaitPoints
<1>3. HandedOver /\ WritersAnnounced /\ ReadersAnnounced
  BY <1>1 DEF HandedOver, Unclaimed, WritersAnnounced, ReadersAnnounced
<1>4. QED
  BY <1>2, <1>3 DEF WaitInv

LEMMA NextWait ==
  ASSUME ReadStaysRead
  PROVE  IInv /\ WaitInv /\ [Next]_vars => ConversionPanics \/ WaitInv'
<1> SUFFICES ASSUME IInv, WaitInv, [Next]_vars, ~ConversionPanics PROVE WaitInv'
  OBVIOUS
<1>1. CASE UNCHANGED vars
  BY <1>1, StillWait DEF vars
<1>2. ASSUME NEW t \in Threads, Begin(t) PROVE WaitInv'
  <2>1. ASSUME NEW p \in Phases, SetPhase(t, p) PROVE WaitInv'
    BY <2>1, StillWait DEF SetPhase
  <2>2. QED
    BY <1>2, <2>1, OptimisticLockWait, LockMutWait, CloneWait, FutexWaitWait DEF Begin
<1>3. ASSUME NEW t \in Threads, Proceed(t) PROVE WaitInv'
  <2>1. CASE \/ WriteCas(t) \/ TryRead(t) \/ ReadCas(t) \/ ReadLoad(t) \/ SlowLoad(t)
             \/ LockWhileReaders(t) \/ ReadersLoad(t) \/ ReadersCas(t)
    BY <2>1, WriteCasWait, TryReadWait, ReadCasWait, ReadLoadWait, SlowLoadWait,
       LockWhileReadersWait, ReadersLoadWait, ReadersCasWait
  <2>2. CASE \/ SetWaiter(t) \/ CountAdd(t) \/ FutexWait(t) \/ CountSub(t)
             \/ OrWriteWaiter(t) \/ LockedLoad(t) \/ WokenReader(t)
    BY <2>2, SetWaiterWait, CountAddWait, FutexWaitWait, CountSubWait, OrWriteWaiterWait,
       LockedLoadWait, WokenReaderWait
  <2>3. CASE \/ IntoReadLock(t) \/ DropLock(t) \/ DropXor(t) \/ DropReadLock(t)
             \/ TransferLock(t) \/ GiveXor(t) \/ GiveWake(t) \/ GiveAnd(t)
    BY <2>3, IntoReadLockWait, DropLockWait, DropXorWait, DropReadLockWait, TransferLockWait,
       GiveXorWait, GiveWakeWait, GiveAndWait
  <2>4. CASE \/ WakeXor(t) \/ ConvertXor(t) \/ FutexWakeReaders(t) \/ OrReadWaiter(t)
             \/ WakeSub(t)
    BY <2>4, WakeXorWait, ConvertXorWait, FutexWakeReadersWait, OrReadWaiterWait, WakeSubWait
       DEF ConversionPanics
  <2>5. QED
    BY <1>3, <2>1, <2>2, <2>3, <2>4 DEF Proceed
<1>4. QED
  BY <1>1, <1>2, <1>3 DEF Next

(* Every waiter bit has a sleeper's waker behind it and every sleeper a    *)
(* waiter bit or a waker, until the first assertion fails: the invariant of*)
(* transfer_lock and of the futex.                                         *)
THEOREM WaitHolds ==
  ASSUME ReadStaysRead
  PROVE  Spec => [](AssertionsHold => IInv /\ WaitInv)
<1>1. IInv /\ WaitInv /\ [Next]_vars /\ AssertionsHold' => IInv' /\ WaitInv'
  BY NextInv, NextWait, PanicFails DEF IInv
<1> DEFINE J == UnwindInv /\ (AssertionsHold => IInv /\ WaitInv)
<1>2. Init => J
  BY InitInv, InitWait, InitUnwind
<1>3. TypeInv /\ J /\ [Next]_vars => J'
  BY <1>1, NextUnwind
<1>4. J => (AssertionsHold => IInv /\ WaitInv)
  OBVIOUS
<1> HIDE DEF J
<1>5. QED
  BY <1>2, <1>3, <1>4, InitType, NextType, PTL DEF Spec
-----------------------------------------------------------------------------
LEMMA WaitQuiet == IInv /\ WaitInv => QuietWordIsFree
<1> SUFFICES ASSUME IInv, WaitInv, \A t \in Threads : pc[t] = "idle"
             PROVE  word = Free(word.phase)
  BY DEF QuietWordIsFree
<1>1. ~word.locked /\ word.readers = 0 /\ word \in Word
  BY AllIdle, Facts
<1>2. \A t \in Threads : ~Passes(pc[t], cur[t])
  BY DEF Passes
<1>3. has_no_waiters(word)
  BY <1>1, <1>2 DEF WaitInv, HandedOver, Unclaimed, has_no_readers
<1>4. QED
  BY <1>1, <1>3 DEF Free, Word, has_no_waiters

(* ReadLock::clone may sleep on a lock that its own guard keeps busy.      *)
CloneSleeps == \E t \in Threads : pc[t] = "sleep_r" /\ ret[t] = "clone"

(* If every thread sleeps or is idle, nobody owns anything: then the bit   *)
(* that announces a sleeper is on a free word, and some thread must pass.  *)
LEMMA WaitWakeup == IInv /\ WaitInv => NoLostWakeup \/ CloneSleeps
<1> SUFFICES ASSUME IInv, WaitInv, ~CloneSleeps, NEW s \in Threads, pc[s] \in {"sleep_r", "sleep_w"},
                    \A t \in Threads : pc[t] \in {"sleep_r", "sleep_w", "idle"}
             PROVE  FALSE
  BY DEF NoLostWakeup
<1>1. ASSUME NEW t \in Threads
      PROVE  /\ ~LocksT(t) /\ Units(t) = 0 /\ pc[t] \notin Unsettling
             /\ ~Passes(pc[t], cur[t]) /\ pc[t] \notin WriterWakers /\ pc[t] \notin ReaderWakers
  <2>1. pc[t] \in Quiet
    BY DEF Quiet
  <2>2. ret[t] # "clone"
    <3>1. GuardFits(pc[t], ret[t], guard[t])
      BY Facts DEF Local
    <3>2. pc[t] # "sleep_r" => pc[t] \notin CloneCalls
      BY DEF CloneCalls
    <3>3. QED
      BY <3>1, <3>2 DEF GuardFits, CloneSleeps
  <2>3. QED
    BY <2>1, <2>2, Caller DEF Passes, WriterWakers, ReaderWakers
<1>2. ~word.locked
  BY <1>1 DEF IInv, OwnerInv
<1>3. word.readers = 0
  <2>1. ReadLocks = {}
    BY <1>1 DEF ReadLocks
  <2>2. QED
    BY <1>1, <2>1, FS_EmptySet DEF IInv, FieldInv
<1>4. word.ww \/ word.rw
  BY <1>1 DEF WaitInv, WritersAnnounced, ReadersAnnounced
<1>5. QED
  BY <1>1, <1>2, <1>3, <1>4 DEF WaitInv, HandedOver, Unclaimed, has_no_waiters, has_no_readers

LEMMA NoCloneSleeps == ASSUME MaxGuards = 1 PROVE IInv => ~CloneSleeps
<1> SUFFICES ASSUME IInv, NEW t \in Threads, ret[t] = "clone" PROVE FALSE
  BY DEF CloneSleeps
<1>1. GuardFits(pc[t], ret[t], guard[t])
  BY Facts DEF Local
<1>2. QED
  BY <1>1 DEF GuardFits

(* Until an assertion fails, and if no change of phase makes a reader      *)
(* write: a lock that nobody uses is free, waiter bits included; no        *)
(* hand-over leaves a bit behind that would keep every later caller out.   *)
THEOREM QuietIsFree ==
  ASSUME ReadStaysRead
  PROVE  Spec => [](AssertionsHold => QuietWordIsFree)
<1>1. (AssertionsHold => IInv /\ WaitInv) => (AssertionsHold => QuietWordIsFree)
  BY WaitQuiet
<1>2. Spec => [](AssertionsHold => IInv /\ WaitInv)
  BY WaitHolds
<1>3. QED
  BY <1>1, <1>2, PTL

(* Until an assertion fails, and if no change of phase makes a reader      *)
(* write: while a thread sleeps some thread is awake in the locker, or a   *)
(* clone sleeps on its own guard; no other wake-up is lost between the     *)
(* waiter bits, writer_count and the futex queues.                         *)
THEOREM WakeupNotLost ==
  ASSUME ReadStaysRead
  PROVE  Spec => [](AssertionsHold => NoLostWakeup \/ CloneSleeps)
<1>1. (AssertionsHold => IInv /\ WaitInv) => (AssertionsHold => NoLostWakeup \/ CloneSleeps)
  BY WaitWakeup
<1>2. Spec => [](AssertionsHold => IInv /\ WaitInv)
  BY WaitHolds
<1>3. QED
  BY <1>1, <1>2, PTL

(* Where no read guard is cloned and no change of phase makes a reader     *)
(* write, the word, the guards, writer_count and the futex queues agree    *)
(* after every access, until an assertion fails.                           *)
THEOREM WordIsSound ==
  ASSUME ReadStaysRead, MaxGuards = 1
  PROVE  Spec => []SoundUntilPanic
<1>1. (AssertionsHold => IInv /\ WaitInv) => SoundUntilPanic
  BY InvAccounting, InvAnswer, WaitQuiet, WaitWakeup, NoCloneSleeps DEF SoundUntilPanic, WordAgrees
<1>2. Spec => [](AssertionsHold => IInv /\ WaitInv)
  BY WaitHolds
<1>3. QED
  BY <1>1, <1>2, PTL
=============================================================================
