-------------------------- MODULE LesserLazy_proof --------------------------
(***************************************************************************)
(* Proofs about LesserLazy, for every program: any statics and threads,    *)
(* constructors in any order, and any accesses before, between and after   *)
(* them.                                                                   *)
(***************************************************************************)
EXTENDS LesserLazy, LazySequentializer_proof

(* A lesser lazy that is handed out by reference is not try_init_once (for *)
(* one that is, HintSound does not hold), and its checker is one of        *)
(* InitializedChecker and InitializedSoftFinalizedCheckerLesser, for which *)
(* registration succeeds before main (lazy.rs 116-124 and 594-604).        *)
ReferencesInit ==
  \A s \in Lesser : ~locked(s) => tolerant(s) /\ (registering(s) => Tolerance[s].REG_ALWAYS)

(* Main is in the constructor of a lesser lazy, on its way to the target.  *)
ConstructorInv ==
  constructing # NoStatic =>
    /\ on[Main] = constructing
    /\ pc[Main] \in {"lock", "register", "generate", "using"}
    /\ op[Main] = IF locked(constructing) THEN "init_then_write_guard" ELSE "init"

(* Calls are made on statics of the program.                               *)
LinkedInv == \A t \in Threads : on[t] \in linked \cup {NoStatic}

(* While the process goes on, what has been constructed is initialized.    *)
ConstructedInv ==
  /\ ~aborted => \A s \in (linked \cap Lesser) \ (uninited \cup {constructing}) :
                   "INITIALIZED" \in phase[s]
  /\ LAZY_INIT_ENSURED => uninited = {} /\ constructing = NoStatic /\ ~aborted

LesserInv == LazyInv /\ LesserTypeOK /\ ConstructorInv /\ LinkedInv /\ ConstructedInv
-----------------------------------------------------------------------------
LEMMA HintFacts ==
  ASSUME LesserInv, LAZY_INIT_ENSURED, NEW s \in linked \cap Lesser
  PROVE  s \in Statics /\ "INITIALIZED" \in phase[s] /\ data[s] # "uninit"
<1>1. s \in Statics
  BY LesserAssumption
<1>2. "INITIALIZED" \in phase[s]
  BY <1>1, LazyAssumption DEF LesserInv, ConstructedInv
<1>3. QED
  BY <1>1, <1>2 DEF LesserInv, LazyInv, StaticsInv, StaticOK

(***************************************************************************)
(* Main in a constructor: it reaches the target, or the process ends.      *)
(***************************************************************************)

(* Main has come nearer to the target, and is in the same constructor.     *)
Nearer ==
  /\ pc'[Main] \in {"lock", "register", "generate", "using"}
  /\ op'[Main] = op[Main] /\ on'[Main] = on[Main]

LEMMA CompleteNearer ==
  ASSUME TypeOK, Main \in Threads, op[Main] \notin primed, NEW p, Complete(Main, p)
  PROVE  pc'[Main] = "idle" \/ Nearer
BY DEF Complete, Obtain, Idle, Nearer, TypeOK

LEMMA TransitionNearer ==
  ASSUME TypeOK, Main \in Threads, NEW l \in {"register", "generate"}, NEW p, Transition(Main, l, p)
  PROVE  Nearer
BY DEF Transition, Nearer, TypeOK

LEMMA StartInitNearer ==
  ASSUME TypeOK, Main \in Threads, op[Main] \notin primed, NEW r, StartInit(Main, r)
  PROVE  /\ pc'[Main] = "idle" \/ Nearer
         /\ ~registering(on[Main]) \/ "REGISTERED" \in r => Nearer
<1>1. ASSUME NEW p, Transition(Main, "generate", p) PROVE Nearer
  BY <1>1, TransitionNearer
<1>2. ASSUME NEW p, Complete(Main, p) PROVE pc'[Main] = "idle" \/ Nearer
  BY <1>2, CompleteNearer
<1>3. QED
  BY <1>1, <1>2 DEF StartInit

(* For the constructor of a locked static, back from lock or register      *)
(* means a panic.                                                          *)
LEMMA LockedNearer ==
  ASSUME LesserInv, constructing # NoStatic, op[Main] = "init_then_write_guard",
         pc[Main] \in {"lock", "register"},
         \/ Proceed(Main)
         \/ \E a \in {"registered", "refused", "panicked"} : Register(Main, a)
  PROVE  pc'[Main] = "idle" \/ Nearer
<1>1. TypeOK /\ Main \in Threads /\ op[Main] \notin primed /\ op[Main] \notin tries
      /\ op[Main] \notin reading
  BY LesserAssumption DEF LesserInv, LazyInv, primed, tries, reading
<1>2. Idle(Main) => pc'[Main] = "idle"
  BY <1>1 DEF Idle, TypeOK
<1>3. CASE LockNone(Main) \/ LockRead(Main)
  BY <1>1, <1>2, <1>3 DEF LockNone, LockRead, Obtain, Nearer, TypeOK
<1>4. CASE LockWrite(Main)
  <2>1. lazy_initialization(Main) => pc'[Main] = "idle" \/ Nearer
    BY <1>1, StartInitNearer, TransitionNearer DEF lazy_initialization
  <2>2. QED
    BY <1>1, <1>4, <2>1, CompleteNearer DEF LockWrite
<1>5. CASE TryFails(Main) \/ Generate(Main) \/ GeneratorPanics(Main) \/ Release(Main) \/ FinalyReturns(Main)
  BY <1>1, <1>5 DEF TryFails, Generate, GeneratorPanics, Release, FinalyReturns
<1>6. ASSUME NEW a \in {"registered", "refused", "panicked"}, Register(Main, a)
      PROVE  pc'[Main] = "idle" \/ Nearer
  BY <1>1, <1>2, <1>6, StartInitNearer DEF Register, Unwind
<1>7. QED
  BY <1>3, <1>4, <1>5, <1>6 DEF Proceed

(* For one that is handed out by reference, neither the lock nor           *)
(* registration sends Main back.                                           *)
LEMMA ReferenceNearer ==
  ASSUME LesserInv, DropsAreLocked, ReferencesInit, constructing # NoStatic, op[Main] = "init",
         pc[Main] \in {"lock", "register"},
         \/ Proceed(Main)
         \/ \E a \in Answers(on[Main]) : Register(Main, a)
  PROVE  Nearer
<1> DEFINE s == on[Main]
           shall == shall_init(tolerant(s), phase[s])
<1>1. /\ TypeOK /\ Main \in Threads /\ op[Main] \notin primed /\ op[Main] \notin tries
      /\ op[Main] \in Operations \ {"lock"} /\ op[Main] \notin reading /\ op[Main] \notin writing
      /\ op[Main] # "finalize_callback" /\ op[Main] \in initializing
  BY LesserAssumption DEF LesserInv, LazyInv, primed, tries, reading, writing, Operations, initializing
<1>2. /\ s = constructing /\ s \in Lesser /\ s \in Statics /\ ~locked(s)
  BY LesserAssumption DEF LesserInv, ConstructorInv, LesserTypeOK
<1>3. tolerant(s) /\ ~hard(s) /\ (registering(s) => Tolerance[s].REG_ALWAYS)
  BY <1>2 DEF ReferencesInit, DropsAreLocked, locked
<1>4. /\ StaticOK(s, writers[s], phase[s], data[s], node[s], finals[s])
      /\ ThreadOK(Main)
  BY <1>1, <1>2 DEF LesserInv, LazyInv, StaticsInv, ThreadsInv
<1>5. /\ nature(Main) = "Read" => FALSE
      /\ nature(Main) = "None" => ~shall
      /\ nature(Main) = "Write" => shall
  <2>1. shall \in BOOLEAN
    BY DEF shall_init
  <2> HIDE DEF shall
  <2>2. lock_nature(op[Main], phase[s], shall) = nature(Main)
    BY DEF nature, shall
  <2>3. QED
    BY <1>1, <2>1, <2>2, Natures
<1>6. CASE LockNone(Main)
  <2>1. "INITIALIZED" \in phase[s] /\ post_init_is_accessible(s, phase[s])
    BY <1>3, <1>5, <1>6
       DEF LockNone, shall_init, post_init_is_accessible, initialized_is_accessible
  <2>2. QED
    BY <1>1, <1>6, <2>1 DEF LockNone, Obtain, Nearer, TypeOK
<1>7. CASE LockRead(Main)
  BY <1>5, <1>7 DEF LockRead
<1>8. CASE LockWrite(Main)
  <2>1. lazy_initialization(Main)
    BY <1>1, <1>5, <1>8 DEF LockWrite
  <2>2. registering(s) /\ phase[s] # {} => "REGISTERED" \in phase[s]
    BY <1>3, <1>4 DEF StaticOK
  <2>3. QED
    BY <1>1, <1>3, <2>1, <2>2, StartInitNearer, TransitionNearer DEF lazy_initialization
<1>9. CASE TryFails(Main) \/ Generate(Main) \/ GeneratorPanics(Main) \/ Release(Main) \/ FinalyReturns(Main)
  BY <1>1, <1>9 DEF TryFails, Generate, GeneratorPanics, Release, FinalyReturns
<1>10. ASSUME NEW a \in Answers(s), Register(Main, a)
       PROVE  Nearer
  <2>1. registering(s)
    BY <1>4, <1>10 DEF Register, ThreadOK, HoldsOK
  <2>2. StartInit(Main, {"REGISTERED"})
    BY <1>3, <1>10, <2>1 DEF Answers, Register
  <2>3. QED
    BY <1>1, <2>2, StartInitNearer
<1>11. QED
  BY <1>6, <1>7, <1>8, <1>9, <1>10 DEF Proceed

(* When Main is back from a constructor and the process goes on, the       *)
(* static is initialized.                                                  *)
LEMMA ConstructorStep ==
  ASSUME LesserInv, DropsAreLocked, ReferencesInit, constructing # NoStatic, Step(Main)
  PROVE  \/ Nearer
         \/ /\ pc'[Main] = "idle"
            /\ aborted' \/ "INITIALIZED" \in phase'[constructing]
<1> DEFINE s == constructing
           P == \/ Proceed(Main)
                \/ \E a \in Answers(on[Main]) : Register(Main, a)
<1>1. /\ TypeOK /\ LazyInv /\ Main \in Threads /\ on[Main] = s /\ s \in Statics
      /\ pc[Main] \in {"lock", "register", "generate", "using"}
      /\ op[Main] = IF locked(s) THEN "init_then_write_guard" ELSE "init"
      /\ ThreadOK(Main)
  BY LesserAssumption DEF LesserInv, LazyInv, ThreadsInv, ConstructorInv, LesserTypeOK
<1>2. P
  BY <1>1 DEF Step, PrimedAnswer
<1>3. Answers(on[Main]) \subseteq {"registered", "refused", "panicked"}
  BY DEF Answers
<1>4. pc'[Main] = "idle" =>
        (aborted' <=> \/ pc[Main] = "generate"
                      \/ pc[Main] \in {"lock", "register"} /\ locked(s))
  BY DEF Step
<1>5. CASE pc[Main] \in {"lock", "register"} /\ locked(s)
  BY <1>1, <1>2, <1>3, <1>4, <1>5, LockedNearer
<1>6. CASE pc[Main] \in {"lock", "register"} /\ ~locked(s)
  BY <1>1, <1>2, <1>6, ReferenceNearer
<1>7. CASE pc[Main] = "generate"
  <2>1. Generate(Main) \/ GeneratorPanics(Main)
    BY <1>2, <1>7 DEF Proceed, LockNone, LockRead, LockWrite, TryFails, Release, FinalyReturns, Register
  <2>2. op[Main] \notin primed
    BY <1>1 DEF primed
  <2>3. pc'[Main] = "idle" \/ Nearer
    BY <1>1, <2>1, <2>2, CompleteNearer DEF Generate, GeneratorPanics, Unwind, Idle, TypeOK
  <2>4. QED
    BY <1>4, <1>7, <2>3
<1>8. CASE pc[Main] = "using"
  <2>1. Release(Main)
    BY <1>2, <1>8 DEF Proceed, LockNone, LockRead, LockWrite, TryFails, Generate, GeneratorPanics,
                      FinalyReturns, Register
  <2>2. pc'[Main] = "idle"
    BY <1>1, <2>1 DEF Release, Idle, TypeOK
  <2>3. CASE op[Main] = "init"
    <3>1. "INITIALIZED" \in phase[s]
      BY <1>1, <1>8, <2>3 DEF ThreadOK, UsesOK, loose
    <3>2. UNCHANGED phase
      BY <2>1, <2>3 DEF Release, writing
    <3>3. QED
      BY <2>2, <3>1, <3>2
  <2>4. CASE op[Main] = "init_then_write_guard"
    <3>1. op[Main] \in writing
      BY <2>4 DEF writing
    <3>2. phase'[s] = pending[s]
      BY <1>1, <2>1, <3>1, UnlockPhase DEF Release
    <3>3. "INITIALIZED" \in pending[s]
      BY <1>1, <1>8, <3>1 DEF ThreadOK, UsesOK, HoldsOK, Shows
    <3>4. QED
      BY <2>2, <3>2, <3>3
  <2>5. QED
    BY <1>1, <2>3, <2>4
<1>9. QED
  BY <1>1, <1>5, <1>6, <1>7, <1>8
-----------------------------------------------------------------------------
(***************************************************************************)
(* The steps of the program.                                               *)
(***************************************************************************)

(* A step that is none of Main in a constructor, and neither begins nor    *)
(* ends one: INITIALIZED never leaves a phase.                             *)
LEMMA OtherStep ==
  ASSUME LesserInv, LazyInv', ~aborted, NEW t \in Threads, Acts(t), Free(t),
         on'[t] \in linked \cup {NoStatic}, UNCHANGED lesserVars
  PROVE  LesserInv'
<1>1. Moves(t)
  BY ActsMoves DEF LesserInv, LazyInv
<1>2. \A s \in Statics : "INITIALIZED" \in phase[s] => "INITIALIZED" \in phase'[s]
  BY HistoryActs DEF LesserInv, HistoryOK
<1>3. UNCHANGED <<linked, uninited, constructing, LAZY_INIT_ENSURED, aborted>>
  BY DEF lesserVars
<1>4. LesserTypeOK'
  BY <1>3 DEF LesserInv, LesserTypeOK, LazyInv
<1>5. ConstructorInv'
  BY <1>1, <1>3, LesserAssumption DEF LesserInv, ConstructorInv, Moves, Free
<1>6. LinkedInv'
  BY <1>1, <1>3 DEF LesserInv, LinkedInv, Moves
<1>7. ConstructedInv'
  BY <1>2, <1>3, LesserAssumption DEF LesserInv, ConstructedInv
<1>8. QED
  BY <1>4, <1>5, <1>6, <1>7 DEF LesserInv

LEMMA StepStep ==
  ASSUME LesserInv, DropsAreLocked, ReferencesInit, ~aborted, NEW t \in Threads, Step(t)
  PROVE  LesserInv'
<1> DEFINE hint == on[t] \in Lesser /\ LAZY_INIT_ENSURED
           Q == \/ Proceed(t) \/ PrimedAnswer(t, hint)
                \/ \E a \in Answers(on[t]) : Register(t, a)
<1>1. Q /\ UNCHANGED <<linked, uninited, LAZY_INIT_ENSURED>>
  BY DEF Step
<1>2. hint \in BOOLEAN /\ Answers(on[t]) \subseteq {"registered", "refused", "panicked"}
  BY DEF LesserInv, LesserTypeOK, Answers
<1>3. PrimedAnswer(t, hint) /\ hint => "INITIALIZED" \in phase[on[t]]
  BY HintFacts, LesserAssumption, LazyAssumption DEF LesserInv, LinkedInv
<1>4. LazyInv /\ TypeOK
  BY DEF LesserInv, LazyInv
<1>5. LazyInv'
  <2>1. PrimedAnswer(t, hint) => LazyInv'
    BY <1>2, <1>3, <1>4, PrimedAnswerStep
  <2>2. ASSUME NEW a \in Answers(on[t]), Register(t, a) PROVE LazyInv'
    BY <1>4, <2>2, RegisterStep DEF Answers
  <2>3. QED
    BY <1>1, <1>4, <2>1, <2>2, ProceedStep
<1>6. Acts(t) /\ Moves(t) /\ on'[t] \in {on[t], NoStatic}
  <2> HIDE DEF hint
  <2>1. QED
    BY <1>1, <1>2, <1>4, StaysOn DEF Acts
<1>7. on'[t] \in linked \cup {NoStatic}
  BY <1>6 DEF LesserInv, LinkedInv
<1>8. CASE t # Main \/ constructing = NoStatic
  <2>1. UNCHANGED lesserVars
    <3>1. aborted = FALSE
      BY DEF LesserInv, LesserTypeOK
    <3>2. aborted' = FALSE /\ constructing' = constructing
      BY <1>8 DEF Step
    <3>3. QED
      BY <1>1, <3>1, <3>2 DEF lesserVars
  <2>2. QED
    BY <1>5, <1>6, <1>7, <1>8, <2>1, OtherStep DEF Free
<1>9. CASE t = Main /\ constructing # NoStatic
  <2>1. \A s \in Statics : "INITIALIZED" \in phase[s] => "INITIALIZED" \in phase'[s]
    BY <1>4, <1>6, HistoryActs DEF HistoryOK
  <2>2. LinkedInv'
    BY <1>1, <1>6, <1>7 DEF LesserInv, LinkedInv, Moves
  <2>3. ~LAZY_INIT_ENSURED /\ ~LAZY_INIT_ENSURED'
    BY <1>1, <1>9 DEF LesserInv, ConstructedInv
  <2>4. \/ Nearer
        \/ /\ pc'[Main] = "idle"
           /\ aborted' \/ "INITIALIZED" \in phase'[constructing]
    BY <1>9, ConstructorStep
  <2>5. /\ constructing' = IF pc'[Main] = "idle" THEN NoStatic ELSE constructing
        /\ aborted' \in BOOLEAN
        /\ pc'[Main] # "idle" => ~aborted'
    BY <1>9 DEF Step
  <2>6. LesserTypeOK'
    BY <1>1, <1>5, <2>5 DEF LesserInv, LesserTypeOK, LazyInv
  <2>7. CASE Nearer
    <3>1. constructing' = constructing /\ ~aborted'
      BY <2>5, <2>7 DEF Nearer
    <3>2. ConstructorInv'
      BY <2>7, <3>1 DEF Nearer, LesserInv, ConstructorInv
    <3>3. ConstructedInv'
      BY <1>1, <2>1, <2>3, <3>1, LesserAssumption DEF LesserInv, ConstructedInv
    <3>4. QED
      BY <1>5, <2>2, <2>6, <3>2, <3>3 DEF LesserInv
  <2>8. CASE pc'[Main] = "idle" /\ (aborted' \/ "INITIALIZED" \in phase'[constructing])
    <3>1. constructing' = NoStatic
      BY <2>5, <2>8
    <3>2. ConstructorInv'
      BY <3>1 DEF ConstructorInv
    <3>3. ConstructedInv'
      BY <1>1, <2>1, <2>3, <2>8, <3>1, LesserAssumption DEF LesserInv, ConstructedInv
    <3>4. QED
      BY <1>5, <2>2, <2>6, <3>2, <3>3 DEF LesserInv
  <2>9. QED
    BY <2>4, <2>7, <2>8
<1>10. QED
  BY <1>8, <1>9

LEMMA LazyInitStep ==
  ASSUME LesserInv, ~aborted, NEW s \in Lesser, lazy_init(s)
  PROVE  LesserInv'
<1> DEFINE q == IF locked(s) THEN "init_then_write_guard" ELSE "init"
<1>1. /\ constructing = NoStatic /\ s \in uninited /\ Call(Main, s, q)
      /\ uninited' = uninited \ {s} /\ constructing' = s
      /\ UNCHANGED <<node, linked, LAZY_INIT_ENSURED, aborted>>
  BY DEF lazy_init
<1>2. /\ Main \in Threads /\ s \in Statics /\ s \in linked /\ LazyInv /\ TypeOK
  BY <1>1, LesserAssumption DEF LesserInv, LesserTypeOK, LazyInv
<1>3. /\ q \in Operations \ {"lock"} /\ q \notin ensured /\ q # "finalize_callback"
      /\ q = "init" => "init" \in Calls[s]
  BY DEF Operations, initializing, ensured, locked
<1>4. LazyInv'
  <2> HIDE DEF q
  <2>1. QED
    BY <1>1, <1>2, <1>3, CallStep
<1>5. /\ pc'[Main] = "lock" /\ op'[Main] = q /\ on'[Main] = s /\ Moves(Main)
      /\ UNCHANGED phase
  BY <1>1, <1>2 DEF Call, Moves, locker, TypeOK
<1>6. LesserTypeOK'
  BY <1>1, <1>2, <1>4 DEF LesserInv, LesserTypeOK, LazyInv
<1>7. ConstructorInv'
  BY <1>1, <1>5 DEF ConstructorInv
<1>8. LinkedInv'
  BY <1>1, <1>2, <1>5 DEF LesserInv, LinkedInv, Moves
<1>9. ConstructedInv'
  <2>1. ~LAZY_INIT_ENSURED /\ ~LAZY_INIT_ENSURED'
    BY <1>1 DEF LesserInv, ConstructedInv
  <2>2. \A x \in (linked \cap Lesser) \ (uninited \cup {NoStatic}) : "INITIALIZED" \in phase[x]
    BY <1>1 DEF LesserInv, ConstructedInv
  <2>3. NoStatic \notin Lesser
    BY LesserAssumption, LazyAssumption
  <2>4. QED
    BY <1>1, <1>5, <2>1, <2>2, <2>3 DEF ConstructedInv
<1>10. QED
  BY <1>4, <1>6, <1>7, <1>8, <1>9 DEF LesserInv

LEMMA MarkInitedStep ==
  ASSUME LesserInv, ~aborted, mark_inited
  PROVE  LesserInv'
<1>1. LazyInv'
  BY LazyUnchanged DEF LesserInv, mark_inited
<1>2. UNCHANGED <<phase, pc, op, on>>
  BY DEF mark_inited, vars
<1>3. LesserTypeOK'
  BY <1>1 DEF LesserInv, LesserTypeOK, mark_inited, LazyInv
<1>4. ConstructorInv' /\ LinkedInv' /\ ConstructedInv'
  BY <1>2 DEF LesserInv, ConstructorInv, LinkedInv, ConstructedInv, mark_inited
<1>5. QED
  BY <1>1, <1>3, <1>4 DEF LesserInv

LEMMA UnhintedStep ==
  ASSUME LesserInv, DropsAreLocked, ~aborted, NEW t \in Threads, Unhinted(t)
  PROVE  LesserInv'
<1>1. Free(t) /\ UNCHANGED lesserVars /\ LazyInv /\ TypeOK /\ linked \subseteq Statics
  BY DEF Unhinted, LesserInv, LazyInv, LesserTypeOK
<1>2. ASSUME NEW s \in linked, NEW q \in Calls[s], Call(t, s, q), UNCHANGED node
      PROVE  LazyInv' /\ Acts(t) /\ on'[t] \in linked \cup {NoStatic}
  <2>1. q \in Operations \ {"lock"} /\ q \notin ensured /\ q # "finalize_callback" /\ s \in Statics
    BY <1>1, LazyAssumption
  <2>2. LazyInv'
    BY <1>1, <1>2, <2>1, CallStep
  <2>3. on'[t] = s
    BY <1>1, <1>2 DEF Call, TypeOK
  <2>4. QED
    BY <1>2, <2>1, <2>2, <2>3 DEF Acts
<1>3. ASSUME NEW s \in linked, TryGet(t, s)
      PROVE  LazyInv' /\ Acts(t) /\ on'[t] \in linked \cup {NoStatic}
  <2>1. LazyInv' /\ s \in Statics
    BY <1>1, <1>3, TryGetStep
  <2>2. on'[t] = s
    BY <1>1, <1>3 DEF TryGet, TypeOK
  <2>3. QED
    BY <1>3, <2>1, <2>2 DEF Acts
<1>4. CASE Downgrade(t)
  <2>1. LazyInv' /\ on'[t] \in {on[t], NoStatic}
    BY <1>1, <1>4, DowngradeStep, StaysOn
  <2>2. QED
    BY <1>1, <1>4, <2>1, OtherStep DEF Acts, LesserInv, LinkedInv
<1>5. ASSUME NEW u \in Threads, Clone(u, t)
      PROVE  LesserInv'
  <2>1. LazyInv' /\ on'[t] = on[u]
    BY <1>1, <1>5, CloneStep DEF Clone, TypeOK
  <2>2. QED
    BY <1>1, <1>5, <2>1, OtherStep DEF Acts, LesserInv, LinkedInv
<1>6. QED
  BY <1>1, <1>2, <1>3, <1>4, <1>5, OtherStep DEF Unhinted, Access

LEMMA HintedStep ==
  ASSUME LesserInv, DropsAreLocked, ~aborted, NEW t \in Threads, NEW s \in Lesser,
         get_unchecked(t, s) \/ lock_unchecked(t, s)
  PROVE  LesserInv'
<1>1. /\ Free(t) /\ s \in linked /\ LAZY_INIT_ENSURED /\ UNCHANGED <<node, lesserVars>>
      /\ LazyInv /\ TypeOK
  BY DEF get_unchecked, lock_unchecked, LesserInv, LazyInv
<1>2. s \in Statics /\ "INITIALIZED" \in phase[s]
  BY <1>1, HintFacts
<1>3. CASE get_unchecked(t, s)
  <2>1. "get_unchecked" \in loose /\ "init" \in Calls[s]
    BY <1>3 DEF loose, get_unchecked, locked
  <2>2. LazyInv'
    BY <1>1, <1>2, <1>3, <2>1, ReferenceStep DEF get_unchecked
  <2>3. /\ Moves(t) /\ on'[t] = s /\ UNCHANGED phase
    BY <1>1, <1>3 DEF get_unchecked, Moves, TypeOK, locker
  <2>4. UNCHANGED <<linked, uninited, constructing, LAZY_INIT_ENSURED, aborted>>
    BY <1>1 DEF lesserVars
  <2>5. LesserTypeOK'
    BY <2>2, <2>4 DEF LesserInv, LesserTypeOK, LazyInv
  <2>6. ConstructorInv' /\ LinkedInv' /\ ConstructedInv'
    BY <1>1, <2>3, <2>4, LesserAssumption
       DEF LesserInv, ConstructorInv, LinkedInv, ConstructedInv, Moves, Free
  <2>7. QED
    BY <2>2, <2>5, <2>6 DEF LesserInv
<1>4. CASE lock_unchecked(t, s)
  <2>1. PICK q \in ensured : Call(t, s, q)
    BY <1>4 DEF lock_unchecked
  <2>2. q \in Operations \ {"lock"} /\ q # "init" /\ q # "finalize_callback"
    BY DEF ensured, Operations
  <2>3. LazyInv'
    BY <1>1, <1>2, <2>1, <2>2, CallStep
  <2>4. on'[t] = s
    BY <1>1, <2>1 DEF Call, TypeOK
  <2>5. QED
    BY <1>1, <1>2, <2>1, <2>2, <2>3, <2>4, OtherStep DEF Acts
<1>5. QED
  BY <1>3, <1>4

LEMMA FinalizationStep ==
  ASSUME LesserInv, DropsAreLocked, ~aborted, NEW t \in Threads,
         FinalizeLinked(t) \/ (FinalyFails(t) /\ Free(t))
  PROVE  LesserInv'
<1>1. UNCHANGED lesserVars /\ Free(t) /\ LazyInv /\ TypeOK /\ linked \subseteq Statics
  BY DEF FinalizeLinked, FinalyFails, LesserInv, LesserTypeOK, LazyInv
<1>2. ASSUME NEW s \in linked, Finalize(t, s)
      PROVE  LesserInv'
  <2>1. LazyInv' /\ s \in Statics
    BY <1>1, <1>2, FinalizeStep
  <2>2. on'[t] = s /\ Acts(t)
    BY <1>1, <1>2, <2>1 DEF Finalize, Call, TypeOK, Acts, Operations
  <2>3. QED
    BY <1>1, <2>1, <2>2, OtherStep
<1>3. CASE FinalyFails(t)
  <2>1. LazyInv' /\ on'[t] \in {on[t], NoStatic} /\ Acts(t)
    BY <1>1, <1>3, FinalyPanicsStep, StaysOn DEF FinalyFails, Acts
  <2>2. QED
    BY <1>1, <2>1, OtherStep DEF LesserInv, LinkedInv
<1>4. QED
  BY <1>2, <1>3 DEF FinalizeLinked

LEMMA LesserUnchanged ==
  ASSUME LesserInv, UNCHANGED allVars
  PROVE  LesserInv'
<1>1. LazyInv'
  BY LazyUnchanged DEF LesserInv, allVars
<1>2. LesserTypeOK'
  BY <1>1 DEF LesserInv, LesserTypeOK, allVars, lesserVars, LazyInv
<1>3. ConstructorInv' /\ LinkedInv' /\ ConstructedInv'
  BY DEF LesserInv, ConstructorInv, LinkedInv, ConstructedInv, allVars, vars, lesserVars
<1>4. QED
  BY <1>1, <1>2, <1>3 DEF LesserInv

LEMMA LesserNextStep ==
  ASSUME LesserInv, DropsAreLocked, ReferencesInit, [LesserNext]_allVars
  PROVE  LesserInv'
<1>1. CASE UNCHANGED allVars
  BY <1>1, LesserUnchanged
<1>2. CASE LesserNext
  <2>1. ~aborted
    BY <1>2 DEF LesserNext
  <2>2. ASSUME NEW t \in Threads, FinalyFails(t) PROVE Free(t)
    BY <2>2 DEF FinalyFails, FinalyPanics, LesserInv, ConstructorInv, Free
  <2>3. QED
    BY <1>2, <2>1, <2>2, MarkInitedStep, LazyInitStep, StepStep, UnhintedStep, FinalizationStep,
       HintedStep DEF LesserNext
<1>3. QED
  BY <1>1, <1>2

LEMMA LesserInitInv ==
  ASSUME LesserInit
  PROVE  LesserInv
<1>1. LazyInv
  BY LazyInit DEF LesserInit
<1>2. LesserTypeOK
  BY <1>1 DEF LesserInit, LesserTypeOK, LazyInv
<1>3. ConstructorInv /\ LinkedInv /\ ConstructedInv
  BY DEF LesserInit, Init, ConstructorInv, LinkedInv, ConstructedInv
<1>4. QED
  BY <1>1, <1>2, <1>3 DEF LesserInv
-----------------------------------------------------------------------------
(* While the process goes on, every lesser lazy whose constructor has run  *)
(* is initialized, and the invariant of the sequentializer holds although  *)
(* the access functions trust LAZY_INIT_ENSURED.                           *)
THEOREM LesserInvariance ==
  ASSUME DropsAreLocked, ReferencesInit
  PROVE  LesserSpec => []LesserInv
<1>1. LesserInit => LesserInv
  BY LesserInitInv
<1>2. LesserInv /\ [LesserNext]_allVars => LesserInv'
  BY LesserNextStep
<1>3. QED
  BY <1>1, <1>2, PTL DEF LesserSpec

(* The state of the lesser lazies and of their constructors has its type.  *)
THEOREM LesserTypeCorrect ==
  ASSUME DropsAreLocked, ReferencesInit
  PROVE  LesserSpec => []LesserTypeOK
<1>1. LesserInv => LesserTypeOK
  BY DEF LesserInv
<1>2. QED
  BY <1>1, LesserInvariance, PTL

(* mark_inited sets LAZY_INIT_ENSURED only when all lesser lazies are      *)
(* initialized, whatever constructors and threads did before.              *)
THEOREM HintIsSound ==
  ASSUME DropsAreLocked, ReferencesInit
  PROVE  LesserSpec => []HintSound
<1>1. LesserInv => HintSound
  BY HintFacts DEF HintSound
<1>2. QED
  BY <1>1, LesserInvariance, PTL

(* The access functions of lesser lazies hand out generated targets that   *)
(* are not dropped although they skip the check of the phase once          *)
(* LAZY_INIT_ENSURED is set; finaly is called at most once, and no         *)
(* debug_assert! fails.                                                    *)
THEOREM LesserAccessIsSound ==
  ASSUME DropsAreLocked, ReferencesInit
  PROVE  LesserSpec => [](AccessSound /\ FinalyOnce /\ AssertionsHold)
<1>1. LesserInv => AccessSound /\ FinalyOnce /\ AssertionsHold
  BY LazyInvSound, LazyInvFinaly, LazyInvAssertions DEF LesserInv
<1>2. QED
  BY <1>1, LesserInvariance, PTL

LEMMA LesserNextActs ==
  ASSUME [LesserNext]_allVars
  PROVE  \/ \E t \in Threads : Acts(t)
         \/ UNCHANGED <<phase, data>>
<1>1. CASE UNCHANGED allVars \/ mark_inited
  BY <1>1 DEF allVars, vars, mark_inited
<1>2. ASSUME NEW s \in Lesser, lazy_init(s)
      PROVE  UNCHANGED <<phase, data>>
  BY <1>2 DEF lazy_init, Call, locker
<1>3. ASSUME NEW t \in Threads, NEW s \in Lesser, get_unchecked(t, s) \/ lock_unchecked(t, s)
      PROVE  UNCHANGED <<phase, data>>
  BY <1>3 DEF get_unchecked, lock_unchecked, Call, locker
<1>4. ASSUME NEW t \in Threads, Unhinted(t)
      PROVE  Acts(t) \/ UNCHANGED <<phase, data>>
  BY <1>4 DEF Unhinted, Access, Acts, Call, TryGet, locker, Clone
<1>5. ASSUME NEW t \in Threads, Step(t)
      PROVE  Acts(t) \/ UNCHANGED <<phase, data>>
  <2> DEFINE hint == on[t] \in Lesser /\ LAZY_INIT_ENSURED
  <2>1. Answers(on[t]) \subseteq {"registered", "refused", "panicked"}
    BY DEF Answers
  <2>2. CASE PrimedAnswer(t, hint)
    <3>1. CASE hint
      <4>1. PrimedAnswer(t, TRUE)
        BY <2>2, <3>1 DEF PrimedAnswer
      <4>2. QED
        BY <4>1 DEF Acts
    <3>2. CASE ~hint
      <4>1. PrimedAnswer(t, FALSE)
        BY <2>2, <3>2 DEF PrimedAnswer
      <4>2. QED
        BY <4>1 DEF Acts
    <3>3. QED
      BY <3>1, <3>2
  <2>3. QED
    BY <1>5, <2>1, <2>2 DEF Step, Acts
<1>6. ASSUME NEW t \in Threads, FinalizeLinked(t) \/ FinalyFails(t)
      PROVE  Acts(t) \/ UNCHANGED <<phase, data>>
  BY <1>6 DEF FinalizeLinked, FinalyFails, Finalize, Call, locker, Acts
<1>7. QED
  BY <1>1, <1>2, <1>3, <1>4, <1>5, <1>6 DEF LesserNext

(* Statics are generated once and stay poisoned in the whole program, with *)
(* its constructors and with accesses that trust the hint.                 *)
THEOREM LesserHistory ==
  ASSUME DropsAreLocked, ReferencesInit
  PROVE  LesserSpec => GeneratedOnce /\ Poisoned
<1>1. LesserInv /\ [LesserNext]_allVars => [GeneratedStep]_vars /\ [PoisonedStep]_vars
  BY HistoryStep, LesserNextActs DEF LesserInv
<1>2. QED
  BY <1>1, LesserInvariance, PTL DEF LesserSpec, GeneratedOnce, GeneratedStep, Poisoned, PoisonedStep
=============================================================================
