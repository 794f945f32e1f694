---------------------- MODULE LazySequentializer_proof ----------------------
(***************************************************************************)
(* Proofs about LazySequentializer, for every set of threads and statics,  *)
(* all kinds and tolerances and all operations.  The lemmas about single   *)
(* actions are also used for LesserLazy, ExitSequentializer and ThreadExit,*)
(* which perform the same actions around other registries.                 *)
(***************************************************************************)
EXTENDS LazySequentializer, TLAPS

FIN == {"FINALIZED", "FINALIZATION_PANICKED"}

(* Accesses that hand out a reference and hold no guard.                   *)
loose == {"init", "try_get", "get_unchecked"}

(* "Droped lazy must be mutable" (the macro, lib.rs 618 and 631): a static *)
(* that is dropped is not handed out by reference.                         *)
DropsAreLocked == \A s \in Statics : hard(s) => "init" \notin Calls[s]

writes(l, q) == \/ l \in {"register", "generate", "finaly"}
                \/ l \in {"primed", "using"} /\ q \in writing
reads(l, q) == l \in {"primed", "using", "fallback"} /\ q \in reading

(* Location, operation and static of one thread.                           *)
OpOK(l, q, s) ==
  /\ l = "idle" <=> s = NoStatic
  /\ l = "idle" => q = "none"
  /\ l = "lock" => q \in Operations \ {"lock"}
  /\ l \in {"register", "generate"} => q \in initializing
  /\ l = "primed" => q \in primed
  /\ l = "using" => q \in reading \cup writing \cup loose
  /\ l = "fallback" => q \in reading
  /\ (l = "finaly" \/ q = "finalize_callback") => q = "finalize_callback" /\ l \in {"lock", "finaly"}
  /\ q \in loose => "init" \in Calls[s]

(* The phase p that a guard shows tells what the target d is: generated or *)
(* not, dropped or not; it tells whether the registry may know the static  *)
(* (n), and whether finaly has been called (f).                            *)
Shows(s, p, d, n, f) ==
  /\ d = "uninit" <=> "INITIALIZED" \notin p
  /\ d = "dropped" <=> hard(s) /\ p \cap FIN # {}
  /\ p \cap FIN # {} => "INITIALIZED" \in p /\ f # 0
  /\ "INITIALIZED" \in p => "INITIALIZATION_PANICKED" \notin p
  /\ n # "out" => "REGISTERED" \in p
  /\ registering(s) /\ Tolerance[s].REG_ALWAYS /\ p # {} => "REGISTERED" \in p

(* What a thread at l in operation q on s relies on, when the word has     *)
(* phase ph and the write guard will leave pe.                             *)
HoldsOK(l, q, s, ph, pe, d, n, f) ==
  /\ l = "register" =>
       /\ ph = {} /\ pe = {"REGISTRATION_PANICKED", "INITIALIZATION_SKIPED"}
       /\ d = "uninit" /\ n = "out" /\ registering(s)
  /\ l = "generate" =>
       /\ ph \cap ({"INITIALIZED"} \cup FIN) = {}
       /\ "INITIALIZED" \notin pe /\ initialization_panic \subseteq pe
       /\ ~tolerant(s) => ph = {}
       /\ Shows(s, pe, d, n, f)
  /\ l = "finaly" =>
       /\ "INITIALIZED" \in ph /\ ph \cap FIN = {} /\ f # 0
       /\ pe = ph \cup {"FINALIZATION_PANICKED"}
       /\ Shows(s, ph, d, n, f)
  /\ l \in {"primed", "using"} /\ q \in writing =>
       /\ Shows(s, pe, d, n, f)
       /\ ~tolerant(s) /\ ph # {} => pe = ph

UsesOK(l, q, ph, d) ==
  /\ l = "using" => d = "ready"
  /\ l = "fallback" => d # "ready"
  /\ l = "using" /\ q \in loose => "INITIALIZED" \in ph
  /\ l = "lock" /\ q \in ensured => "INITIALIZED" \in ph

StaticOK(s, w, ph, d, n, f) ==
  /\ w = {} => Shows(s, ph, d, n, f)
  /\ "INITIALIZED" \in ph => d # "uninit"
  /\ d = "dropped" => hard(s)
  /\ registering(s) /\ Tolerance[s].REG_ALWAYS /\ ph # {} => "REGISTERED" \in ph
  /\ n # "out" => registering(s)
  /\ n # "taken" => f = 0
  /\ f \in {0, 1}

ThreadOK(t) ==
  /\ OpOK(pc[t], op[t], on[t])
  /\ HoldsOK(pc[t], op[t], on[t], phase[on[t]], pending[on[t]], data[on[t]], node[on[t]], finals[on[t]])
  /\ UsesOK(pc[t], op[t], phase[on[t]], data[on[t]])
  /\ op[t] = "finalize_callback" =>
       /\ node[on[t]] = "taken"
       /\ pc[t] = "lock" => finals[on[t]] = 0

(* Guards are owned by the threads that think so, and exclude each other.  *)
GuardOK(s, t) ==
  /\ t \in writers[s] <=> on[t] = s /\ writes(pc[t], op[t])
  /\ t \in readers[s] <=> on[t] = s /\ reads(pc[t], op[t])
  /\ t \in writers[s] => writers[s] = {t} /\ readers[s] = {}

ThreadsInv == \A t \in Threads : ThreadOK(t)
GuardsInv == \A s \in Statics, t \in Threads : GuardOK(s, t)
StaticsInv == \A s \in Statics : StaticOK(s, writers[s], phase[s], data[s], node[s], finals[s])

(* finalize_callback is in progress once per static.                       *)
OneFinalizer ==
  \A t, u \in Threads :
    op[t] = "finalize_callback" /\ op[u] = "finalize_callback" /\ on[t] = on[u] => t = u

(* The inductive invariant.                                                *)
LazyInv == TypeOK /\ ThreadsInv /\ GuardsInv /\ StaticsInv /\ OneFinalizer
-----------------------------------------------------------------------------
(***************************************************************************)
(* Two kinds of steps: those of a thread that shares the static with       *)
(* others, and those of a thread that has it for itself.                   *)
(***************************************************************************)

(* Only thread t moves.                                                    *)
Moves(t) == \A u \in Threads \ {t} : pc'[u] = pc[u] /\ op'[u] = op[u] /\ on'[u] = on[u]

LEMMA ShareStep ==
  ASSUME LazyInv, NEW t \in Threads, NEW s \in Statics,
         TypeOK', Moves(t),
         UNCHANGED <<phase, writers, pending, data, finals>>,
         on[t] \in {s, NoStatic}, on'[t] \in {s, NoStatic},
         \A r \in Statics \ {s} : readers'[r] = readers[r] /\ node'[r] = node[r],
         \A u \in Threads \ {t} : u \in readers'[s] <=> u \in readers[s],
         t \in readers'[s] <=> on'[t] = s /\ reads(pc'[t], op'[t]),
         t \in readers'[s] => writers[s] = {},
         writes(pc'[t], op'[t]) <=> writes(pc[t], op[t]),
         writes(pc'[t], op'[t]) => on'[t] = s,
         node'[s] = node[s] \/ (node[s] = "in" /\ node'[s] = "taken"),
         op'[t] = "finalize_callback" => op[t] = "finalize_callback" \/ node[s] # "taken",
         ThreadOK(t)'
  PROVE  LazyInv'
<1>1. ThreadsInv'
  <2> SUFFICES ASSUME NEW u \in Threads, u # t PROVE ThreadOK(u)'
    BY DEF ThreadsInv
  <2>1. /\ ThreadOK(u)
        /\ pc'[u] = pc[u] /\ op'[u] = op[u] /\ on'[u] = on[u]
    BY DEF LazyInv, ThreadsInv, Moves
  <2>2. CASE on[u] = s
    <3>1. phase'[s] = phase[s] /\ pending'[s] = pending[s] /\ data'[s] = data[s] /\ finals'[s] = finals[s]
      OBVIOUS
    <3>2. QED
      BY <2>1, <2>2, <3>1 DEF ThreadOK, OpOK, HoldsOK, UsesOK, Shows
  <2>3. CASE on[u] \in Statics \ {s}
    BY <2>1, <2>3 DEF ThreadOK
  <2>4. CASE on[u] = NoStatic
    BY <2>1, <2>4 DEF ThreadOK, OpOK, HoldsOK, UsesOK
  <2>5. QED
    BY <2>2, <2>3, <2>4 DEF LazyInv, TypeOK
<1>2. GuardsInv'
  <2> SUFFICES ASSUME NEW r \in Statics, NEW u \in Threads PROVE GuardOK(r, u)'
    BY DEF GuardsInv
  <2>1. GuardOK(r, u) /\ GuardOK(s, t) /\ GuardOK(s, u) /\ GuardOK(r, t)
    BY DEF LazyInv, GuardsInv
  <2>2. NoStatic \notin Statics
    BY LazyAssumption
  <2>3. CASE u = t /\ r = s
    <3>1. writes(pc[t], op[t]) => on[t] = s
      BY DEF LazyInv, ThreadsInv, ThreadOK, OpOK, writes
    <3>2. t \in writers[s] <=> on'[t] = s /\ writes(pc'[t], op'[t])
      BY <2>1, <3>1 DEF GuardOK
    <3>3. t \in writers[s] => readers'[s] = {}
      BY <2>1, <3>1 DEF GuardOK, LazyInv, TypeOK
    <3>4. QED
      BY <2>1, <2>3, <3>2, <3>3 DEF GuardOK
  <2>4. CASE u # t /\ r = s
    <3>1. t \in readers'[s] => u \notin writers[s]
      BY <2>1
    <3>2. QED
      BY <2>1, <2>4, <3>1 DEF GuardOK, Moves, LazyInv, TypeOK
  <2>5. CASE u = t /\ r # s
    BY <2>1, <2>2, <2>5 DEF GuardOK
  <2>6. CASE u # t /\ r # s
    BY <2>1, <2>6 DEF GuardOK, Moves
  <2>7. QED
    BY <2>3, <2>4, <2>5, <2>6
<1>3. StaticsInv'
  <2> SUFFICES ASSUME NEW r \in Statics
               PROVE  StaticOK(r, writers[r], phase[r], data[r], node[r], finals[r])'
    BY DEF StaticsInv
  <2>1. StaticOK(r, writers[r], phase[r], data[r], node[r], finals[r])
    BY DEF LazyInv, StaticsInv
  <2>2. node'[r] = node[r] \/ (node[r] = "in" /\ node'[r] = "taken")
    OBVIOUS
  <2>3. QED
    BY <2>1, <2>2 DEF StaticOK, Shows
<1>4. OneFinalizer'
  <2> SUFFICES ASSUME NEW u \in Threads, u # t, op[u] = "finalize_callback",
                      op'[t] = "finalize_callback", on[u] = on'[t]
               PROVE  FALSE
    BY DEF OneFinalizer, Moves, LazyInv
  <2>1. ThreadOK(u) /\ ThreadOK(t)
    BY DEF LazyInv, ThreadsInv
  <2>2. on'[t] = s
    BY DEF ThreadOK, OpOK
  <2>3. node[s] = "taken"
    BY <2>1, <2>2 DEF ThreadOK
  <2>4. op[t] = "finalize_callback" /\ on[t] = s
    BY <2>1, <2>3 DEF ThreadOK, OpOK
  <2>5. QED
    BY <2>2, <2>4 DEF LazyInv, OneFinalizer
<1>5. QED
  BY <1>1, <1>2, <1>3, <1>4 DEF LazyInv

(* Nobody else has a guard of s.                                           *)
Alone(t, s) == \A u \in Threads \ {t} : u \notin writers[s] /\ u \notin readers[s]

LEMMA AloneStep ==
  ASSUME LazyInv, DropsAreLocked, NEW t \in Threads, NEW s \in Statics,
         on[t] = s, Alone(t, s),
         TypeOK', Moves(t), on'[t] \in {s, NoStatic},
         \A r \in Statics \ {s} :
           /\ phase'[r] = phase[r] /\ writers'[r] = writers[r] /\ readers'[r] = readers[r]
           /\ pending'[r] = pending[r] /\ data'[r] = data[r] /\ finals'[r] = finals[r]
           /\ node'[r] = node[r],
         writers'[s] = IF writes(pc'[t], op'[t]) THEN {t} ELSE {},
         readers'[s] = IF reads(pc'[t], op'[t]) THEN {t} ELSE {},
         StaticOK(s, writers[s], phase[s], data[s], node[s], finals[s])',
         ThreadOK(t)',
         "INITIALIZED" \in phase[s] => "INITIALIZED" \in phase'[s],
         data[s] = "ready" /\ ~hard(s) => data'[s] = "ready",
         node[s] = "taken" => node'[s] = "taken",
         finals'[s] = finals[s] \/ op[t] = "finalize_callback",
         op'[t] = "finalize_callback" => op[t] = "finalize_callback"
  PROVE  LazyInv'
<1>0. NoStatic \notin Statics
  BY LazyAssumption
<1>1. ThreadsInv'
  <2> SUFFICES ASSUME NEW u \in Threads, u # t PROVE ThreadOK(u)'
    BY DEF ThreadsInv
  <2>1. /\ ThreadOK(u)
        /\ pc'[u] = pc[u] /\ op'[u] = op[u] /\ on'[u] = on[u]
    BY DEF LazyInv, ThreadsInv, Moves
  <2>2. CASE on[u] = s
    <3>1. ~writes(pc[u], op[u]) /\ ~reads(pc[u], op[u])
      BY <2>2 DEF LazyInv, GuardsInv, GuardOK, Alone
    <3>2. primed \subseteq reading \cup writing
      BY DEF primed, reading, writing
    <3>3. pc[u] \notin {"register", "generate", "finaly", "primed", "fallback"}
      BY <2>1, <3>1, <3>2 DEF ThreadOK, OpOK, writes, reads
    <3>4. pc[u] = "using" => op[u] \in loose /\ ~hard(s)
      BY <2>1, <2>2, <3>1 DEF ThreadOK, OpOK, writes, reads, DropsAreLocked
    <3>5. OpOK(pc'[u], op'[u], on'[u])
      BY <2>1 DEF ThreadOK
    <3>6. HoldsOK(pc'[u], op'[u], on'[u], phase'[s], pending'[s], data'[s], node'[s], finals'[s])
      BY <2>1, <3>1, <3>3 DEF HoldsOK, writes
    <3>7. UsesOK(pc'[u], op'[u], phase'[s], data'[s])
      BY <2>1, <2>2, <3>3, <3>4 DEF UsesOK, ThreadOK
    <3>8. op[u] = "finalize_callback" =>
            node'[s] = "taken" /\ (pc[u] = "lock" => finals'[s] = 0)
      BY <2>1, <2>2 DEF ThreadOK, LazyInv, OneFinalizer
    <3>9. QED
      BY <2>1, <2>2, <3>5, <3>6, <3>7, <3>8 DEF ThreadOK
  <2>3. CASE on[u] \in Statics \ {s}
    BY <2>1, <2>3 DEF ThreadOK
  <2>4. CASE on[u] = NoStatic
    BY <2>1, <2>4 DEF ThreadOK, OpOK, HoldsOK, UsesOK
  <2>5. QED
    BY <2>2, <2>3, <2>4 DEF LazyInv, TypeOK
<1>2. GuardsInv'
  <2> SUFFICES ASSUME NEW r \in Statics, NEW u \in Threads PROVE GuardOK(r, u)'
    BY DEF GuardsInv
  <2>1. GuardOK(r, u) /\ GuardOK(s, u) /\ GuardOK(r, t)
    BY DEF LazyInv, GuardsInv
  <2>2. ~(writes(pc'[t], op'[t]) /\ reads(pc'[t], op'[t]))
    BY DEF writes, reads, writing, reading
  <2>3. (writes(pc'[t], op'[t]) \/ reads(pc'[t], op'[t])) => on'[t] = s
    BY DEF writes, reads, ThreadOK, OpOK
  <2>4. CASE u = t /\ r = s
    BY <2>2, <2>3, <2>4 DEF GuardOK
  <2>5. CASE u # t /\ r = s
    BY <2>1, <2>5 DEF GuardOK, Moves, Alone
  <2>6. CASE u = t /\ r # s
    BY <2>1, <2>6, <1>0 DEF GuardOK
  <2>7. CASE u # t /\ r # s
    BY <2>1, <2>7 DEF GuardOK, Moves
  <2>8. QED
    BY <2>4, <2>5, <2>6, <2>7
<1>3. StaticsInv'
  BY DEF StaticsInv, LazyInv
<1>4. OneFinalizer'
  <2> SUFFICES ASSUME NEW u \in Threads, u # t, op[u] = "finalize_callback",
                      op'[t] = "finalize_callback", on[u] = on'[t]
               PROVE  FALSE
    BY DEF OneFinalizer, Moves, LazyInv
  <2>1. on'[t] = s
    BY DEF ThreadOK, OpOK
  <2>2. QED
    BY <2>1 DEF LazyInv, OneFinalizer
<1>5. QED
  BY <1>1, <1>2, <1>3, <1>4 DEF LazyInv
-----------------------------------------------------------------------------
(***************************************************************************)
(* What the closures and the checkers promise.                             *)
(***************************************************************************)
LEMMA Natures ==
  ASSUME NEW q \in Operations \ {"lock"}, NEW p, NEW shall \in BOOLEAN
  PROVE  /\ lock_nature(q, p, shall) = "Read" => q \in reading /\ (q \in initializing => ~shall)
         /\ lock_nature(q, p, shall) = "None" => (q = "init" /\ ~shall) \/ q = "finalize_callback"
         /\ lock_nature(q, p, shall) = "Write" =>
              \/ q \in writing
              \/ q \in initializing /\ shall
              \/ q = "finalize_callback" /\ "INITIALIZED" \in p
BY DEF lock_nature, Operations, initializing, tries, primed, ensured, reading, writing

(* The checker of operation q need not look for INITIALIZED in p, or does. *)
Earned(q, s, p) ==
  \/ "INITIALIZED" \in p
  \/ /\ q \notin ensured
     /\ q \in initializing => ~(/\ tolerant(s)
                               /\ \/ ~registering(s)
                                  \/ Tolerance[s].REG_ALWAYS
                                  \/ Tolerance[s].FINAL_REGISTRATION_FAILURE)

LEMMA AccessReady ==
  ASSUME NEW s \in Statics, NEW p, NEW n, NEW f, NEW d \in {"uninit", "ready", "dropped"},
         NEW q \in Operations \ primed,
         Shows(s, p, d, n, f), Earned(q, s, p), accessible(q, s, p)
  PROVE  d = "ready"
<1>1. initialized_is_accessible(s, p) /\ "INITIALIZED" \in p
  BY DEF Earned, accessible, post_init_is_accessible, is_accessible
<1>2. QED
  BY <1>1 DEF Shows, initialized_is_accessible, FIN
-----------------------------------------------------------------------------
(***************************************************************************)
(* The parts of actions in which a thread has the static for itself.       *)
(***************************************************************************)

(* t, which has s for itself, changes nothing elsewhere, and s keeps its   *)
(* history.                                                                *)
Exclusive(t, s) ==
  /\ on[t] = s /\ Alone(t, s) /\ readers[s] = {}
  /\ data' \in [Statics -> {"uninit", "ready", "dropped"}]
  /\ finals' \in [Statics -> Nat]
  /\ node' \in [Statics -> {"out", "in", "taken"}]
  /\ \A r \in Statics \ {s} : data'[r] = data[r] /\ finals'[r] = finals[r] /\ node'[r] = node[r]
  /\ data[s] = "ready" /\ ~hard(s) => data'[s] = "ready"
  /\ node[s] = "taken" => node'[s] = "taken"
  /\ node'[s] # "out" => registering(s)
  /\ node'[s] # "taken" => finals'[s] = 0
  /\ finals'[s] \in {0, 1}
  /\ finals'[s] = finals[s] \/ op[t] = "finalize_callback"

LEMMA UnlockStep ==
  ASSUME LazyInv, DropsAreLocked, NEW t \in Threads, NEW s \in Statics, Exclusive(t, s),
         NEW p \in Phases, Unlock(s, p), UNCHANGED readers, Idle(t),
         Shows(s, p, data'[s], node'[s], finals'[s]),
         "INITIALIZED" \in phase[s] => "INITIALIZED" \in p
  PROVE  LazyInv'
<1>1. TypeOK'
  BY DEF LazyInv, TypeOK, Exclusive, Unlock, Idle, Phases
<1>2. /\ pc'[t] = "idle" /\ op'[t] = "none" /\ on'[t] = NoStatic
      /\ Moves(t)
  BY DEF LazyInv, TypeOK, Idle, Moves
<1>3. /\ phase'[s] = p /\ writers'[s] = {} /\ pending'[s] = {} /\ readers'[s] = {}
      /\ \A r \in Statics \ {s} :
           /\ phase'[r] = phase[r] /\ writers'[r] = writers[r]
           /\ pending'[r] = pending[r] /\ readers'[r] = readers[r]
  BY DEF LazyInv, TypeOK, Unlock, Exclusive
<1>4. ~writes("idle", "none") /\ ~reads("idle", "none")
  BY DEF writes, reads
<1>5. ThreadOK(t)'
  BY <1>2 DEF ThreadOK, OpOK, HoldsOK, UsesOK, loose
<1>6. StaticOK(s, writers[s], phase[s], data[s], node[s], finals[s])'
  BY <1>3 DEF StaticOK, Exclusive, Shows
<1>7. QED
  BY <1>1, <1>2, <1>3, <1>4, <1>5, <1>6, AloneStep DEF Exclusive

LEMMA TransitionStep ==
  ASSUME LazyInv, DropsAreLocked, NEW t \in Threads, NEW s \in Statics, Exclusive(t, s),
         NEW l \in {"register", "generate", "finaly"}, NEW p \in Phases, Transition(t, l, p),
         UNCHANGED data,
         l = "finaly" <=> op[t] = "finalize_callback",
         l # "finaly" => op[t] \in initializing,
         HoldsOK(l, op[t], s, phase[s], p, data[s], node'[s], finals'[s]),
         l = "finaly" => node'[s] = "taken"
  PROVE  LazyInv'
<1>1. TypeOK'
  BY DEF LazyInv, TypeOK, Exclusive, Transition
<1>2. /\ pc'[t] = l /\ op'[t] = op[t] /\ on'[t] = s
      /\ Moves(t)
  BY DEF LazyInv, TypeOK, Transition, Moves, Exclusive
<1>3. /\ phase'[s] = phase[s] /\ writers'[s] = {t} /\ pending'[s] = p /\ readers'[s] = {}
      /\ \A r \in Statics \ {s} :
           /\ phase'[r] = phase[r] /\ writers'[r] = writers[r]
           /\ pending'[r] = pending[r] /\ readers'[r] = readers[r]
  BY DEF LazyInv, TypeOK, Transition, Exclusive
<1>4. writes(l, op[t]) /\ ~reads(l, op[t])
  BY DEF writes, reads
<1>5. ThreadOK(t)'
  <2>1. OpOK(l, op[t], s)
    BY LazyAssumption DEF OpOK, LazyInv, ThreadsInv, ThreadOK, Exclusive
  <2>2. QED
    BY <1>2, <1>3, <2>1 DEF ThreadOK, UsesOK
<1>6. StaticOK(s, writers[s], phase[s], data[s], node[s], finals[s])'
  BY <1>3 DEF StaticOK, Exclusive, LazyInv, StaticsInv
<1>7. QED
  BY <1>1, <1>2, <1>3, <1>4, <1>5, <1>6, AloneStep DEF Exclusive

LEMMA CompleteStep ==
  ASSUME LazyInv, DropsAreLocked, NEW t \in Threads, NEW s \in Statics, Exclusive(t, s),
         NEW p \in Phases, Complete(t, p),
         op[t] \in initializing \cup writing,
         Earned(op[t], s, p),
         Shows(s, p, data'[s], node'[s], finals'[s]),
         "INITIALIZED" \in phase[s] => "INITIALIZED" \in p,
         ~tolerant(s) /\ phase[s] # {} => p = phase[s]
  PROVE  LazyInv'
<1> DEFINE ok == accessible(op[t], s, p)
<1>0. on[t] = s /\ readers[s] = {} /\ OpOK(pc[t], op[t], s)
  BY DEF Exclusive, LazyInv, ThreadsInv, ThreadOK
<1>1. CASE ok
  <2> DEFINE l == IF op[t] \in primed THEN "primed" ELSE "using"
  <2>1. pc' = [pc EXCEPT ![t] = l] /\ UNCHANGED <<op, on>>
    BY <1>0, <1>1 DEF Complete, Obtain
  <2>2. /\ pc'[t] = l /\ op'[t] = op[t] /\ on'[t] = s
        /\ Moves(t) /\ l \in {"primed", "using"}
    BY <1>0, <2>1 DEF LazyInv, TypeOK, Moves
  <2>3. op[t] \in Operations /\ op[t] # "finalize_callback"
    BY DEF Operations, initializing, writing, primed, ensured, tries
  <2>4. l = "using" => data'[s] = "ready"
    BY <1>1, <2>3, AccessReady DEF Exclusive
  <2>5. OpOK(l, op[t], s)
    BY <1>0, LazyAssumption DEF OpOK, initializing, reading, writing, loose, primed
  <2>6. data'[s] = "ready" => "INITIALIZED" \in p
    BY DEF Shows
  <2>7. CASE op[t] \in writing
    <3>1. /\ writers' = [writers EXCEPT ![s] = {t}] /\ pending' = [pending EXCEPT ![s] = p]
          /\ UNCHANGED <<phase, readers>>
      BY <1>0, <1>1, <2>7 DEF Complete
    <3>2. TypeOK'
      BY <2>1, <2>2, <3>1 DEF LazyInv, TypeOK, Exclusive
    <3>3. /\ phase'[s] = phase[s] /\ writers'[s] = {t} /\ pending'[s] = p /\ readers'[s] = {}
          /\ \A r \in Statics \ {s} :
               /\ phase'[r] = phase[r] /\ writers'[r] = writers[r]
               /\ pending'[r] = pending[r] /\ readers'[r] = readers[r]
      BY <1>0, <3>1 DEF LazyInv, TypeOK
    <3>4. writes(l, op[t]) /\ ~reads(l, op[t])
      BY <2>7 DEF writes, reads, writing, reading
    <3>5. HoldsOK(l, op[t], s, phase[s], p, data'[s], node'[s], finals'[s])
      BY DEF HoldsOK
    <3>6. UsesOK(l, op[t], phase[s], data'[s])
      BY <2>4, <2>7 DEF UsesOK, writing, loose
    <3>7. ThreadOK(t)'
      BY <2>2, <2>3, <2>5, <3>3, <3>5, <3>6 DEF ThreadOK
    <3>8. StaticOK(s, writers[s], phase[s], data[s], node[s], finals[s])'
      BY <3>3 DEF StaticOK, Exclusive, LazyInv, StaticsInv, Shows
    <3>9. QED
      BY <2>2, <2>3, <3>2, <3>3, <3>4, <3>7, <3>8, AloneStep DEF Exclusive
  <2>8. CASE op[t] \notin writing
    <3> DEFINE rd == IF op[t] \in reading THEN {t} ELSE {}
    <3>1. Unlock(s, p) /\ readers' = [readers EXCEPT ![s] = rd]
      BY <1>0, <1>1, <2>8 DEF Complete
    <3>2. TypeOK'
      BY <2>1, <2>2, <3>1 DEF LazyInv, TypeOK, Exclusive, Unlock, Phases
    <3>3. /\ phase'[s] = p /\ writers'[s] = {} /\ pending'[s] = {} /\ readers'[s] = rd
          /\ \A r \in Statics \ {s} :
               /\ phase'[r] = phase[r] /\ writers'[r] = writers[r]
               /\ pending'[r] = pending[r] /\ readers'[r] = readers[r]
      BY <3>1 DEF LazyInv, TypeOK, Unlock
    <3>4. ~writes(l, op[t]) /\ (reads(l, op[t]) <=> op[t] \in reading)
      BY <2>8 DEF writes, reads
    <3>5. HoldsOK(l, op[t], s, p, {}, data'[s], node'[s], finals'[s])
      BY <2>8 DEF HoldsOK
    <3>6. UsesOK(l, op[t], p, data'[s])
      BY <2>4, <2>6 DEF UsesOK
    <3>7. ThreadOK(t)'
      BY <2>2, <2>3, <2>5, <3>3, <3>5, <3>6 DEF ThreadOK
    <3>8. StaticOK(s, writers[s], phase[s], data[s], node[s], finals[s])'
      BY <3>3 DEF StaticOK, Exclusive, Shows
    <3>9. QED
      BY <2>2, <2>3, <3>2, <3>3, <3>4, <3>7, <3>8, AloneStep DEF Exclusive
  <2>9. QED
    BY <2>7, <2>8
<1>2. CASE ~ok
  <2>1. Idle(t) /\ Unlock(s, p) /\ readers' = [readers EXCEPT ![s] = readers[s]]
    BY <1>0, <1>2 DEF Complete, Obtain
  <2>2. UNCHANGED readers
    BY <2>1 DEF LazyInv, TypeOK
  <2>3. QED
    BY <2>1, <2>2, UnlockStep
<1>3. QED
  BY <1>1, <1>2
-----------------------------------------------------------------------------
(***************************************************************************)
(* The actions of a thread that owns, or takes, the write guard.           *)
(***************************************************************************)
LEMMA WriterAlone ==
  ASSUME LazyInv, NEW t \in Threads, writes(pc[t], op[t])
  PROVE  on[t] \in Statics /\ Alone(t, on[t]) /\ readers[on[t]] = {} /\ writers[on[t]] = {t}
<1>1. on[t] \in Statics
  BY DEF LazyInv, TypeOK, ThreadsInv, ThreadOK, OpOK, writes
<1>2. GuardOK(on[t], t)
  BY <1>1 DEF LazyInv, GuardsInv
<1>3. QED
  BY <1>1, <1>2 DEF GuardOK, Alone

(* A thread that has the static for itself starts the generator, or skips  *)
(* it because registration failed.                                         *)
LEMMA StartInitStep ==
  ASSUME LazyInv, DropsAreLocked, NEW t \in Threads, NEW s \in Statics, Exclusive(t, s),
         NEW r \in Phases, StartInit(t, r), UNCHANGED data,
         op[t] \in initializing, data[s] = "uninit",
         phase[s] \cap ({"INITIALIZED"} \cup FIN) = {}, ~tolerant(s) => phase[s] = {},
         r \cap ({"INITIALIZED"} \cup FIN) = {},
         node'[s] # "out" => "REGISTERED" \in r,
         registering(s) /\ Tolerance[s].REG_ALWAYS => "REGISTERED" \in r
  PROVE  LazyInv'
<1> DEFINE go == \/ ~registering(s)
                 \/ "REGISTERED" \in r
                 \/ Tolerance[s].FINAL_REGISTRATION_FAILURE
<1>0. on[t] = s /\ op[t] # "finalize_callback"
  BY DEF Exclusive, initializing
<1>1. CASE go
  <2> DEFINE p == before_init(s, r) \cup initialization_panic
  <2>1. Transition(t, "generate", p)
    BY <1>0, <1>1 DEF StartInit
  <2>2. p \in Phases
    BY DEF Phases, before_init, initialization_panic, Flags
  <2>3. /\ p \cap ({"INITIALIZED"} \cup FIN) = {} /\ initialization_panic \subseteq p
        /\ "REGISTERED" \in r => "REGISTERED" \in p
    BY DEF before_init, initialization_panic, FIN
  <2>4. Shows(s, p, data[s], node'[s], finals'[s])
    BY <2>3 DEF Shows
  <2>5. HoldsOK("generate", op[t], s, phase[s], p, data[s], node'[s], finals'[s])
    BY <2>3, <2>4 DEF HoldsOK
  <2> HIDE DEF p
  <2>6. QED
    BY <1>0, <2>1, <2>2, <2>5, TransitionStep
<1>2. CASE ~go
  <2> DEFINE p == r \cup {"INITIALIZATION_SKIPED"}
  <2>1. Complete(t, p)
    BY <1>0, <1>2 DEF StartInit
  <2>2. p \in Phases
    BY DEF Phases, Flags
  <2>3. Shows(s, p, data'[s], node'[s], finals'[s])
    BY DEF Shows, FIN
  <2>4. Earned(op[t], s, p)
    BY <1>2 DEF Earned, initializing, ensured
  <2> HIDE DEF p
  <2>5. QED
    BY <2>1, <2>2, <2>3, <2>4, CompleteStep
<1>3. QED
  BY <1>1, <1>2

LEMMA RegisterStep ==
  ASSUME LazyInv, DropsAreLocked, NEW t \in Threads, NEW a, Register(t, a),
         Tolerance[on[t]].REG_ALWAYS => a = "registered"
  PROVE  LazyInv'
<1> DEFINE s == on[t]
<1>1. pc[t] = "register" /\ UNCHANGED <<data, finals>>
  BY DEF Register
<1>2. s \in Statics /\ Alone(t, s) /\ readers[s] = {}
  BY <1>1, WriterAlone DEF writes
<1>3. /\ op[t] \in initializing
      /\ phase[s] = {} /\ pending[s] = {"REGISTRATION_PANICKED", "INITIALIZATION_SKIPED"}
      /\ data[s] = "uninit" /\ node[s] = "out" /\ registering(s)
  BY <1>1 DEF LazyInv, ThreadsInv, ThreadOK, OpOK, HoldsOK
<1>4. finals[s] = 0
  BY <1>2, <1>3 DEF LazyInv, StaticsInv, StaticOK
<1>5. /\ node' \in [Statics -> {"out", "in", "taken"}]
      /\ \A r \in Statics \ {s} : node'[r] = node[r]
      /\ node'[s] = IF a = "registered" THEN "in" ELSE "out"
  BY <1>2, <1>3 DEF Register, LazyInv, TypeOK
<1>6. Exclusive(t, s)
  BY <1>1, <1>2, <1>3, <1>4, <1>5 DEF Exclusive, LazyInv, TypeOK
<1>7. CASE a = "registered"
  <2>1. StartInit(t, {"REGISTERED"})
    BY <1>7 DEF Register
  <2>2. {"REGISTERED"} \in Phases /\ {"REGISTERED"} \cap ({"INITIALIZED"} \cup FIN) = {}
    BY DEF Phases, Flags, FIN
  <2>3. QED
    BY <1>1, <1>2, <1>3, <1>6, <2>1, <2>2, StartInitStep
<1>8. CASE a = "refused"
  <2>1. StartInit(t, {"REGISTRATION_REFUSED"})
    BY <1>8 DEF Register
  <2>2. {"REGISTRATION_REFUSED"} \in Phases /\ {"REGISTRATION_REFUSED"} \cap ({"INITIALIZED"} \cup FIN) = {}
    BY DEF Phases, Flags, FIN
  <2>3. node'[s] = "out" /\ ~Tolerance[s].REG_ALWAYS
    BY <1>5, <1>8
  <2>4. QED
    BY <1>1, <1>2, <1>3, <1>6, <2>1, <2>2, <2>3, StartInitStep
<1>9. CASE a = "panicked"
  <2>1. Unlock(s, pending[s]) /\ UNCHANGED readers /\ Idle(t)
    BY <1>9 DEF Register, Unwind
  <2>2. pending[s] \in Phases
    BY <1>2 DEF LazyInv, TypeOK
  <2>3. Shows(s, pending[s], data'[s], node'[s], finals'[s])
    BY <1>1, <1>3, <1>5, <1>9 DEF Shows, FIN
  <2>4. QED
    BY <1>2, <1>3, <1>6, <2>1, <2>2, <2>3, UnlockStep
<1>10. QED
  BY <1>7, <1>8, <1>9 DEF Register

LEMMA GeneratingOK ==
  ASSUME LazyInv, NEW t \in Threads, pc[t] = "generate"
  PROVE  /\ on[t] \in Statics /\ Alone(t, on[t]) /\ readers[on[t]] = {}
         /\ op[t] \in initializing
         /\ phase[on[t]] \cap ({"INITIALIZED"} \cup FIN) = {}
         /\ ~tolerant(on[t]) => phase[on[t]] = {}
         /\ pending[on[t]] \in Phases /\ "INITIALIZED" \notin pending[on[t]]
         /\ initialization_panic \subseteq pending[on[t]]
         /\ Shows(on[t], pending[on[t]], data[on[t]], node[on[t]], finals[on[t]])
         /\ data[on[t]] = "uninit"
         /\ node[on[t]] # "out" => registering(on[t])
         /\ node[on[t]] # "taken" => finals[on[t]] = 0
         /\ finals[on[t]] \in {0, 1}
<1>1. on[t] \in Statics /\ Alone(t, on[t]) /\ readers[on[t]] = {}
  BY WriterAlone DEF writes
<1>2. OpOK("generate", op[t], on[t])
  BY DEF LazyInv, ThreadsInv, ThreadOK
<1>3. HoldsOK("generate", op[t], on[t], phase[on[t]], pending[on[t]], data[on[t]], node[on[t]], finals[on[t]])
  BY DEF LazyInv, ThreadsInv, ThreadOK
<1>4. StaticOK(on[t], writers[on[t]], phase[on[t]], data[on[t]], node[on[t]], finals[on[t]])
  BY <1>1 DEF LazyInv, StaticsInv
<1>5. pending[on[t]] \in Phases
  BY <1>1 DEF LazyInv, TypeOK
<1>6. QED
  BY <1>1, <1>2, <1>3, <1>4, <1>5 DEF OpOK, HoldsOK, StaticOK, Shows

LEMMA GenerateStep ==
  ASSUME LazyInv, DropsAreLocked, NEW t \in Threads, Generate(t)
  PROVE  LazyInv'
<1> DEFINE s == on[t]
           p == (pending[s] \ initialization_panic) \cup {"INITIALIZED"}
<1>1. pc[t] = "generate" /\ UNCHANGED <<finals, node>> /\ Complete(t, p)
  BY DEF Generate
<1>2. /\ s \in Statics /\ Alone(t, s) /\ readers[s] = {}
      /\ op[t] \in initializing
      /\ phase[s] \cap ({"INITIALIZED"} \cup FIN) = {} /\ (~tolerant(s) => phase[s] = {})
      /\ pending[s] \in Phases /\ "INITIALIZED" \notin pending[s]
      /\ initialization_panic \subseteq pending[s]
      /\ Shows(s, pending[s], data[s], node[s], finals[s])
      /\ node[s] # "out" => registering(s)
      /\ node[s] # "taken" => finals[s] = 0
      /\ finals[s] \in {0, 1}
  BY <1>1, GeneratingOK
<1>3. /\ data' \in [Statics -> {"uninit", "ready", "dropped"}] /\ data'[s] = "ready"
      /\ \A r \in Statics \ {s} : data'[r] = data[r]
  BY <1>2 DEF Generate, LazyInv, TypeOK
<1>4. Exclusive(t, s)
  BY <1>1, <1>2, <1>3 DEF Exclusive, LazyInv, TypeOK
<1>5. p \in Phases
  BY <1>2 DEF Phases, Flags
<1>6. pending[s] \cap FIN = {}
  BY <1>2 DEF Shows
<1>7. Shows(s, p, "ready", node[s], finals[s])
  BY <1>2, <1>6 DEF Shows, FIN, initialization_panic
<1>8. Earned(op[t], s, p) /\ "INITIALIZED" \in p
  BY DEF Earned
<1> HIDE DEF p
<1>9. QED
  BY <1>1, <1>2, <1>3, <1>4, <1>5, <1>7, <1>8, CompleteStep

LEMMA GeneratorPanicsStep ==
  ASSUME LazyInv, DropsAreLocked, NEW t \in Threads, GeneratorPanics(t)
  PROVE  LazyInv'
<1> DEFINE s == on[t]
<1>1. /\ pc[t] = "generate" /\ UNCHANGED <<data, finals, node>>
      /\ Unlock(s, pending[s]) /\ UNCHANGED readers /\ Idle(t)
  BY DEF GeneratorPanics, Unwind
<1>2. /\ s \in Statics /\ Alone(t, s) /\ readers[s] = {}
      /\ phase[s] \cap ({"INITIALIZED"} \cup FIN) = {}
      /\ pending[s] \in Phases
      /\ Shows(s, pending[s], data[s], node[s], finals[s])
      /\ node[s] # "out" => registering(s)
      /\ node[s] # "taken" => finals[s] = 0
      /\ finals[s] \in {0, 1}
  BY <1>1, GeneratingOK
<1>3. Exclusive(t, s)
  BY <1>1, <1>2 DEF Exclusive, LazyInv, TypeOK
<1>4. QED
  BY <1>1, <1>2, <1>3, UnlockStep

(* finaly has returned or panicked, and leaves p behind.                   *)
LEMMA FinalyStep ==
  ASSUME LazyInv, DropsAreLocked, NEW t \in Threads, pc[t] = "finaly",
         NEW p \in Phases,
         p = phase[on[t]] \cup {"FINALIZED"} \/ p = phase[on[t]] \cup {"FINALIZATION_PANICKED"},
         Unlock(on[t], p), UNCHANGED <<readers, finals, node>>, Idle(t), Dropped(on[t])
  PROVE  LazyInv'
<1> DEFINE s == on[t]
<1>1. s \in Statics /\ Alone(t, s) /\ readers[s] = {}
  BY WriterAlone DEF writes
<1>2. HoldsOK("finaly", op[t], s, phase[s], pending[s], data[s], node[s], finals[s])
  BY DEF LazyInv, ThreadsInv, ThreadOK
<1>3. StaticOK(s, writers[s], phase[s], data[s], node[s], finals[s])
  BY <1>1 DEF LazyInv, StaticsInv
<1>4. /\ data' \in [Statics -> {"uninit", "ready", "dropped"}]
      /\ data'[s] = IF hard(s) THEN "dropped" ELSE data[s]
      /\ \A r \in Statics \ {s} : data'[r] = data[r]
  BY <1>1 DEF Dropped, LazyInv, TypeOK
<1>5. Exclusive(t, s)
  BY <1>1, <1>3, <1>4 DEF Exclusive, LazyInv, TypeOK, StaticOK
<1>6. Shows(s, p, data'[s], node[s], finals[s])
  BY <1>1, <1>2, <1>4 DEF HoldsOK, Shows, FIN
<1>7. QED
  BY <1>1, <1>5, <1>6, UnlockStep

LEMMA FinalyReturnsStep ==
  ASSUME LazyInv, DropsAreLocked, NEW t \in Threads, FinalyReturns(t)
  PROVE  LazyInv'
<1> DEFINE p == (pending[on[t]] \ {"FINALIZATION_PANICKED"}) \cup {"FINALIZED"}
<1>1. /\ pc[t] = "finaly" /\ Unlock(on[t], p) /\ UNCHANGED <<readers, finals, node>>
      /\ Idle(t) /\ Dropped(on[t])
  BY DEF FinalyReturns
<1>2. phase[on[t]] \in Phases /\ pending[on[t]] \in Phases
  BY <1>1, WriterAlone DEF LazyInv, TypeOK, writes
<1>3. p = phase[on[t]] \cup {"FINALIZED"} /\ p \in Phases
  BY <1>1, <1>2 DEF LazyInv, ThreadsInv, ThreadOK, HoldsOK, Phases, Flags, FIN
<1> HIDE DEF p
<1>4. QED
  BY <1>1, <1>3, FinalyStep

LEMMA FinalyPanicsStep ==
  ASSUME LazyInv, DropsAreLocked, NEW t \in Threads, FinalyPanics(t)
  PROVE  LazyInv'
<1>1. /\ pc[t] = "finaly" /\ Unlock(on[t], pending[on[t]]) /\ UNCHANGED <<readers, finals, node>>
      /\ Idle(t) /\ Dropped(on[t])
  BY DEF FinalyPanics, Unwind
<1>2. pending[on[t]] \in Phases
  BY <1>1, WriterAlone DEF LazyInv, TypeOK, writes
<1>3. pending[on[t]] = phase[on[t]] \cup {"FINALIZATION_PANICKED"}
  BY <1>1 DEF LazyInv, ThreadsInv, ThreadOK, HoldsOK
<1>4. QED
  BY <1>1, <1>2, <1>3, FinalyStep

LEMMA LockWriteStep ==
  ASSUME LazyInv, DropsAreLocked, NEW t \in Threads, LockWrite(t)
  PROVE  LazyInv'
<1> DEFINE s == on[t]
           shall == shall_init(tolerant(s), phase[s])
<1>1. /\ pc[t] = "lock" /\ nature(t) = "Write" /\ writers[s] = {} /\ readers[s] = {}
      /\ UNCHANGED <<data, node>>
  BY DEF LockWrite
<1>2. ThreadOK(t)
  BY DEF LazyInv, ThreadsInv
<1>3. op[t] \in Operations \ {"lock"} /\ s \in Statics /\ phase[s] \in Phases
  BY <1>1, <1>2 DEF ThreadOK, OpOK, LazyInv, TypeOK
<1>4. /\ Shows(s, phase[s], data[s], node[s], finals[s])
      /\ data[s] \in {"uninit", "ready", "dropped"}
      /\ node[s] # "out" => registering(s)
      /\ node[s] # "taken" => finals[s] = 0
      /\ finals[s] \in {0, 1}
  BY <1>1, <1>3 DEF LazyInv, TypeOK, StaticsInv, StaticOK
<1>5. \/ op[t] \in writing
      \/ op[t] \in initializing /\ shall
      \/ op[t] = "finalize_callback" /\ "INITIALIZED" \in phase[s]
  <2>1. shall \in BOOLEAN
    BY DEF shall_init
  <2> HIDE DEF shall
  <2>2. lock_nature(op[t], phase[s], shall) = "Write"
    BY <1>1 DEF nature, shall
  <2>3. QED
    BY <1>3, <2>1, <2>2, Natures
<1>6. Alone(t, s)
  BY <1>1 DEF Alone
<1>7. CASE op[t] = "finalize_callback"
  <2>1. Transition(t, "finaly", phase[s] \cup {"FINALIZATION_PANICKED"})
    BY <1>1, <1>7 DEF LockWrite, initializing
  <2>2. finals' = [finals EXCEPT ![s] = @ + 1] /\ finals[s] = 0 /\ node[s] = "taken"
    BY <1>1, <1>2, <1>7 DEF LockWrite, initializing, ThreadOK
  <2>3. /\ finals' \in [Statics -> Nat] /\ finals'[s] = 1
        /\ \A r \in Statics \ {s} : finals'[r] = finals[r]
    BY <1>3, <2>2 DEF LazyInv, TypeOK
  <2>4. Exclusive(t, s)
    BY <1>1, <1>3, <1>4, <1>6, <1>7, <2>2, <2>3 DEF Exclusive, LazyInv, TypeOK
  <2>5. "INITIALIZED" \in phase[s] /\ phase[s] \cap FIN = {}
    BY <1>4, <1>5, <1>7, <2>2 DEF Shows, writing, initializing
  <2>6. Shows(s, phase[s], data[s], node[s], 1)
    BY <1>4, <2>5 DEF Shows
  <2>7. HoldsOK("finaly", op[t], s, phase[s], phase[s] \cup {"FINALIZATION_PANICKED"},
                data[s], node'[s], finals'[s])
    BY <1>1, <2>3, <2>5, <2>6 DEF HoldsOK
  <2>8. phase[s] \cup {"FINALIZATION_PANICKED"} \in Phases
    BY <1>3 DEF Phases, Flags
  <2>9. QED
    BY <1>1, <1>3, <1>7, <2>1, <2>2, <2>4, <2>7, <2>8, TransitionStep
<1>8. CASE op[t] \in initializing /\ shall
  <2>1. op[t] # "finalize_callback" /\ UNCHANGED finals /\ lazy_initialization(t)
    BY <1>1, <1>8 DEF LockWrite, initializing
  <2>2. Exclusive(t, s)
    BY <1>1, <1>3, <1>4, <1>6, <2>1 DEF Exclusive, LazyInv, TypeOK
  <2>3. /\ "INITIALIZED" \notin phase[s] /\ (~tolerant(s) => phase[s] = {})
    BY <1>8 DEF shall_init
  <2>4. /\ data[s] = "uninit" /\ phase[s] \cap ({"INITIALIZED"} \cup FIN) = {}
    BY <1>4, <2>3 DEF Shows
  <2>5. CASE ~registering(s)
    <3>1. StartInit(t, {})
      BY <2>1, <2>5 DEF lazy_initialization
    <3>2. {} \in Phases /\ {} \cap ({"INITIALIZED"} \cup FIN) = {}
      BY DEF Phases
    <3>3. node'[s] = "out"
      BY <1>1, <1>4, <2>5
    <3>4. QED
      BY <1>1, <1>3, <1>8, <2>2, <2>3, <2>4, <2>5, <3>1, <3>2, <3>3, StartInitStep
  <2>6. CASE registering(s) /\ phase[s] = {}
    <3> DEFINE p == {"REGISTRATION_PANICKED", "INITIALIZATION_SKIPED"}
    <3>1. Transition(t, "register", p)
      BY <2>1, <2>6 DEF lazy_initialization
    <3>2. HoldsOK("register", op[t], s, phase[s], p, data[s], node'[s], finals'[s])
      BY <1>1, <1>4, <2>4, <2>6 DEF HoldsOK, Shows
    <3>3. p \in Phases
      BY DEF Phases, Flags
    <3> HIDE DEF p
    <3>4. QED
      BY <1>1, <1>3, <1>8, <2>1, <2>2, <3>1, <3>2, <3>3, TransitionStep
  <2>7. CASE registering(s) /\ phase[s] # {}
    <3>1. StartInit(t, phase[s])
      BY <2>1, <2>3, <2>7 DEF lazy_initialization
    <3>2. /\ node'[s] # "out" => "REGISTERED" \in phase[s]
          /\ registering(s) /\ Tolerance[s].REG_ALWAYS => "REGISTERED" \in phase[s]
      BY <1>1, <1>4, <2>7 DEF Shows
    <3>3. QED
      BY <1>1, <1>3, <1>8, <2>2, <2>3, <2>4, <3>1, <3>2, StartInitStep
  <2>8. QED
    BY <2>5, <2>6, <2>7
<1>9. CASE op[t] # "finalize_callback" /\ ~(op[t] \in initializing /\ shall)
  <2>1. Complete(t, phase[s]) /\ UNCHANGED finals
    BY <1>9 DEF LockWrite
  <2>2. Exclusive(t, s)
    BY <1>1, <1>3, <1>4, <1>6, <2>1 DEF Exclusive, LazyInv, TypeOK
  <2>3. Earned(op[t], s, phase[s])
    <3>1. op[t] \in ensured => "INITIALIZED" \in phase[s]
      BY <1>1, <1>2 DEF ThreadOK, UsesOK
    <3>2. op[t] \in initializing /\ tolerant(s) => "INITIALIZED" \in phase[s]
      BY <1>9 DEF shall_init
    <3>3. QED
      BY <3>1, <3>2 DEF Earned
  <2>4. op[t] \in writing
    BY <1>5, <1>9
  <2>5. QED
    BY <1>1, <1>3, <1>4, <2>1, <2>2, <2>3, <2>4, CompleteStep
<1>10. QED
  BY <1>7, <1>8, <1>9

(* A thread that uses the target, or is about to, with a write guard.      *)
LEMMA WritingOK ==
  ASSUME LazyInv, NEW t \in Threads, pc[t] \in {"primed", "using"}, op[t] \in writing
  PROVE  /\ on[t] \in Statics /\ Alone(t, on[t]) /\ readers[on[t]] = {}
         /\ Shows(on[t], pending[on[t]], data[on[t]], node[on[t]], finals[on[t]])
         /\ pending[on[t]] \in Phases
         /\ data[on[t]] \in {"uninit", "ready", "dropped"}
         /\ "INITIALIZED" \in phase[on[t]] => "INITIALIZED" \in pending[on[t]]
         /\ UNCHANGED <<data, finals, node>> => Exclusive(t, on[t])
<1> DEFINE s == on[t]
<1>1. s \in Statics /\ Alone(t, s) /\ readers[s] = {}
  BY WriterAlone DEF writes
<1>2. Shows(s, pending[s], data[s], node[s], finals[s])
  BY DEF LazyInv, ThreadsInv, ThreadOK, HoldsOK
<1>3. StaticOK(s, writers[s], phase[s], data[s], node[s], finals[s])
  BY <1>1 DEF LazyInv, StaticsInv
<1>4. QED
  BY <1>1, <1>2, <1>3 DEF LazyInv, TypeOK, StaticOK, Shows, Exclusive

(* A write guard is turned into a read guard.                              *)
LEMMA ConvertStep ==
  ASSUME LazyInv, DropsAreLocked, NEW t \in Threads,
         pc[t] \in {"primed", "using"}, op[t] \in writing,
         NEW l \in {"using", "fallback"}, pc' = [pc EXCEPT ![t] = l],
         NEW q \in {"read_lock", "primed_read"}, op' = [op EXCEPT ![t] = q],
         Unlock(on[t], pending[on[t]]),
         readers' = [readers EXCEPT ![on[t]] = @ \cup {t}],
         UNCHANGED <<on, data, finals, node>>,
         l = "using" => data[on[t]] = "ready",
         l = "fallback" => data[on[t]] # "ready"
  PROVE  LazyInv'
<1> DEFINE s == on[t]
<1>1. /\ s \in Statics /\ Alone(t, s) /\ readers[s] = {}
      /\ Shows(s, pending[s], data[s], node[s], finals[s])
      /\ pending[s] \in Phases
      /\ "INITIALIZED" \in phase[s] => "INITIALIZED" \in pending[s]
      /\ Exclusive(t, s)
  BY WritingOK
<1>2. TypeOK'
  BY <1>1 DEF LazyInv, TypeOK, Unlock, Phases, Operations, primed
<1>3. /\ pc'[t] = l /\ op'[t] = q /\ on'[t] = s
      /\ Moves(t)
  BY DEF LazyInv, TypeOK, Moves
<1>4. /\ phase'[s] = pending[s] /\ writers'[s] = {} /\ pending'[s] = {} /\ readers'[s] = {t}
      /\ \A r \in Statics \ {s} :
           /\ phase'[r] = phase[r] /\ writers'[r] = writers[r]
           /\ pending'[r] = pending[r] /\ readers'[r] = readers[r]
  BY <1>1 DEF LazyInv, TypeOK, Unlock
<1>5. ~writes(l, q) /\ reads(l, q) /\ q \in reading
  BY DEF writes, reads, writing, reading
<1>6. ThreadOK(t)'
  <2>1. OpOK(l, q, s)
    BY <1>1, <1>5, LazyAssumption DEF OpOK, loose
  <2>2. HoldsOK(l, q, s, pending[s], {}, data[s], node[s], finals[s])
    BY <1>5 DEF HoldsOK, writes
  <2>3. UsesOK(l, q, pending[s], data[s])
    BY DEF UsesOK, loose
  <2>4. QED
    BY <1>3, <1>4, <2>1, <2>2, <2>3 DEF ThreadOK
<1>7. StaticOK(s, writers[s], phase[s], data[s], node[s], finals[s])'
  BY <1>1, <1>4 DEF StaticOK, Shows, LazyInv, StaticsInv
<1>8. q # "finalize_callback"
  OBVIOUS
<1>9. QED
  BY <1>1, <1>2, <1>3, <1>4, <1>5, <1>6, <1>7, <1>8, AloneStep

LEMMA DowngradeStep ==
  ASSUME LazyInv, DropsAreLocked, NEW t \in Threads, Downgrade(t)
  PROVE  LazyInv'
<1>1. /\ pc[t] = "using" /\ op[t] \in writing
      /\ Unlock(on[t], pending[on[t]])
      /\ readers' = [readers EXCEPT ![on[t]] = @ \cup {t}]
      /\ op' = [op EXCEPT ![t] = "read_lock"]
      /\ UNCHANGED <<pc, on, data, finals, node>>
  BY DEF Downgrade
<1>2. pc' = [pc EXCEPT ![t] = "using"]
  BY <1>1 DEF LazyInv, TypeOK
<1>3. data[on[t]] = "ready"
  BY <1>1 DEF LazyInv, ThreadsInv, ThreadOK, UsesOK
<1>4. QED
  BY <1>1, <1>2, <1>3, ConvertStep
-----------------------------------------------------------------------------
(***************************************************************************)
(* The actions of a thread that shares the static.                         *)
(***************************************************************************)
LEMMA ReaderShares ==
  ASSUME LazyInv, NEW t \in Threads, reads(pc[t], op[t])
  PROVE  /\ on[t] \in Statics /\ t \in readers[on[t]] /\ writers[on[t]] = {}
         /\ Shows(on[t], phase[on[t]], data[on[t]], node[on[t]], finals[on[t]])
<1>1. on[t] \in Statics
  BY DEF LazyInv, TypeOK, ThreadsInv, ThreadOK, OpOK, reads
<1>2. t \in readers[on[t]]
  BY <1>1 DEF LazyInv, GuardsInv, GuardOK
<1>3. writers[on[t]] = {}
  BY <1>1, <1>2 DEF LazyInv, GuardsInv, GuardOK, TypeOK
<1>4. QED
  BY <1>1, <1>2, <1>3 DEF LazyInv, StaticsInv, StaticOK

(* A thread that waits for the lock, or uses a reference, owns no guard.   *)
LEMMA NoGuard ==
  ASSUME LazyInv, NEW t \in Threads,
         pc[t] \in {"idle", "lock"} \/ (pc[t] = "using" /\ op[t] \in loose)
  PROVE  /\ ~writes(pc[t], op[t]) /\ ~reads(pc[t], op[t])
         /\ \A s \in Statics : t \notin readers[s]
BY DEF writes, reads, writing, reading, loose, LazyInv, GuardsInv, GuardOK

(* The operation ends without a guard, or is given up.                     *)
LEMMA IdleStep ==
  ASSUME LazyInv, NEW t \in Threads, pc[t] = "lock" \/ (pc[t] = "using" /\ op[t] \in loose),
         Idle(t), UNCHANGED <<locker, data, finals, node>>
  PROVE  LazyInv'
<1> DEFINE s == on[t]
<1>1. s \in Statics
  BY DEF LazyInv, TypeOK, ThreadsInv, ThreadOK, OpOK
<1>2. /\ ~writes(pc[t], op[t]) /\ t \notin readers[s]
  BY <1>1, NoGuard
<1>3. /\ pc'[t] = "idle" /\ op'[t] = "none" /\ on'[t] = NoStatic
      /\ Moves(t)
  BY DEF LazyInv, TypeOK, Idle, Moves
<1>4. TypeOK'
  BY DEF LazyInv, TypeOK, Idle, locker
<1>5. UNCHANGED <<phase, writers, readers, pending>>
  BY DEF locker
<1>6. ~writes("idle", "none") /\ ~reads("idle", "none")
  BY DEF writes, reads
<1>7. ThreadOK(t)'
  BY <1>3 DEF ThreadOK, OpOK, HoldsOK, UsesOK, loose
<1>8. QED
  BY <1>1, <1>2, <1>3, <1>4, <1>5, <1>6, <1>7, ShareStep

(* A call: the registry may note that it has called finalize_callback.     *)
LEMMA CallStep ==
  ASSUME LazyInv, NEW t \in Threads, NEW s \in Statics, NEW q \in Operations \ {"lock"},
         Call(t, s, q),
         q \in ensured => "INITIALIZED" \in phase[s],
         q = "init" => "init" \in Calls[s],
         \/ q # "finalize_callback" /\ UNCHANGED node
         \/ /\ q = "finalize_callback" /\ node[s] = "in"
            /\ node' = [node EXCEPT ![s] = "taken"]
  PROVE  LazyInv'
<1>1. /\ pc[t] = "idle" /\ on[t] = NoStatic
      /\ UNCHANGED <<phase, writers, readers, pending, data, finals>>
  BY DEF Call, locker, LazyInv, ThreadsInv, ThreadOK, OpOK
<1>2. /\ pc'[t] = "lock" /\ op'[t] = q /\ on'[t] = s
      /\ Moves(t)
  BY DEF Call, Moves, LazyInv, TypeOK
<1>3. TypeOK'
  BY <1>1 DEF Call, LazyInv, TypeOK
<1>4. /\ ~writes(pc[t], op[t]) /\ t \notin readers[s]
      /\ ~writes("lock", q) /\ ~reads("lock", q)
  BY <1>1, NoGuard DEF writes, reads
<1>5. /\ \A r \in Statics \ {s} : node'[r] = node[r]
      /\ node'[s] = IF q = "finalize_callback" THEN "taken" ELSE node[s]
  BY DEF LazyInv, TypeOK
<1>6. ThreadOK(t)'
  <2>1. OpOK("lock", q, s)
    BY LazyAssumption DEF OpOK, loose, Operations, initializing, tries, primed, ensured
  <2>2. HoldsOK("lock", q, s, phase[s], pending[s], data[s], node'[s], finals[s])
    BY DEF HoldsOK
  <2>3. UsesOK("lock", q, phase[s], data[s])
    BY DEF UsesOK
  <2>4. q = "finalize_callback" => node'[s] = "taken" /\ finals[s] = 0
    BY <1>5 DEF LazyInv, StaticsInv, StaticOK
  <2>5. QED
    BY <1>1, <1>2, <2>1, <2>2, <2>3, <2>4 DEF ThreadOK
<1>7. q = "finalize_callback" => node[s] # "taken"
  OBVIOUS
<1>8. QED
  BY <1>1, <1>2, <1>3, <1>4, <1>5, <1>6, <1>7, ShareStep

(* A reference is handed out, without looking at the lock.                 *)
LEMMA ReferenceStep ==
  ASSUME LazyInv, DropsAreLocked, NEW t \in Threads, NEW s \in Statics, NEW q \in loose,
         "init" \in Calls[s], "INITIALIZED" \in phase[s],
         \/ pc[t] = "idle" /\ on' = [on EXCEPT ![t] = s]
         \/ pc[t] = "lock" /\ on[t] = s /\ UNCHANGED on,
         pc' = [pc EXCEPT ![t] = "using"], op' = [op EXCEPT ![t] = q],
         UNCHANGED <<locker, data, finals, node>>
  PROVE  LazyInv'
<1>1. UNCHANGED <<phase, writers, readers, pending>> /\ on[t] \in {s, NoStatic}
  BY DEF locker, LazyInv, ThreadsInv, ThreadOK, OpOK
<1>2. /\ pc'[t] = "using" /\ op'[t] = q /\ on'[t] = s
      /\ Moves(t)
  BY DEF Moves, LazyInv, TypeOK
<1>3. TypeOK'
  BY <1>1 DEF LazyInv, TypeOK, loose, Operations, initializing
<1>4. /\ ~writes(pc[t], op[t]) /\ t \notin readers[s]
      /\ ~writes("using", q) /\ ~reads("using", q)
  BY <1>1, NoGuard DEF writes, reads, writing, reading, loose
<1>5. data[s] = "ready"
  BY DEF LazyInv, TypeOK, StaticsInv, StaticOK, DropsAreLocked
<1>6. ThreadOK(t)'
  <2>1. OpOK("using", q, s)
    BY LazyAssumption DEF OpOK, loose
  <2>2. HoldsOK("using", q, s, phase[s], pending[s], data[s], node[s], finals[s])
    BY DEF HoldsOK, loose, writing
  <2>3. UsesOK("using", q, phase[s], data[s])
    BY <1>5 DEF UsesOK
  <2>4. q # "finalize_callback"
    BY DEF loose
  <2>5. QED
    BY <1>1, <1>2, <2>1, <2>2, <2>3, <2>4 DEF ThreadOK
<1>7. q # "finalize_callback"
  BY DEF loose
<1>8. QED
  BY <1>1, <1>2, <1>3, <1>4, <1>6, <1>7, ShareStep

LEMMA TryGetStep ==
  ASSUME LazyInv, DropsAreLocked, NEW t \in Threads, NEW s \in Statics, TryGet(t, s)
  PROVE  LazyInv'
BY ReferenceStep DEF TryGet, is_accessible, loose

LEMMA LockNoneStep ==
  ASSUME LazyInv, DropsAreLocked, NEW t \in Threads, LockNone(t)
  PROVE  LazyInv'
<1> DEFINE s == on[t]
           shall == shall_init(tolerant(s), phase[s])
           ok == op[t] = "init" /\ post_init_is_accessible(s, phase[s])
<1>1. /\ pc[t] = "lock" /\ nature(t) = "None"
      /\ Obtain(t, ok) /\ UNCHANGED <<locker, data, finals, node>>
  BY DEF LockNone
<1>2. /\ op[t] \in Operations \ {"lock"} /\ s \in Statics
      /\ op[t] = "init" => "init" \in Calls[s]
  BY <1>1 DEF LazyInv, TypeOK, ThreadsInv, ThreadOK, OpOK, loose
<1>3. (op[t] = "init" /\ ~shall) \/ op[t] = "finalize_callback"
  <2>1. shall \in BOOLEAN
    BY DEF shall_init
  <2> HIDE DEF shall
  <2>2. lock_nature(op[t], phase[s], shall) = "None"
    BY <1>1 DEF nature, shall
  <2>3. QED
    BY <1>2, <2>1, <2>2, Natures
<1>4. CASE ok
  <2>1. /\ pc' = [pc EXCEPT ![t] = "using"] /\ UNCHANGED <<op, on>>
    BY <1>1, <1>4 DEF Obtain, primed
  <2>2. "INITIALIZED" \in phase[s]
    BY <1>3, <1>4 DEF shall_init, post_init_is_accessible, is_accessible
  <2>3. op' = [op EXCEPT ![t] = "init"]
    BY <1>4, <2>1 DEF LazyInv, TypeOK
  <2>4. "init" \in loose
    BY DEF loose
  <2>5. QED
    BY <1>1, <1>2, <1>4, <2>1, <2>2, <2>3, <2>4, ReferenceStep
<1>5. CASE ~ok
  BY <1>1, <1>5, IdleStep DEF Obtain
<1>6. QED
  BY <1>4, <1>5

LEMMA TryFailsStep ==
  ASSUME LazyInv, NEW t \in Threads, TryFails(t)
  PROVE  LazyInv'
BY IdleStep DEF TryFails

(* t gets a read guard of s.                                               *)
LEMMA ReadStep ==
  ASSUME LazyInv, NEW t \in Threads, pc[t] \in {"idle", "lock"},
         NEW s \in Statics, on[t] \in {s, NoStatic}, writers[s] = {},
         NEW l \in {"primed", "using", "fallback"}, NEW q \in reading,
         pc' = [pc EXCEPT ![t] = l], op' = [op EXCEPT ![t] = q], on' = [on EXCEPT ![t] = s],
         readers' = [readers EXCEPT ![s] = @ \cup {t}],
         UNCHANGED <<phase, writers, pending, data, finals, node>>,
         l = "primed" => q \in primed,
         l = "using" => data[s] = "ready",
         l = "fallback" => data[s] # "ready"
  PROVE  LazyInv'
<1>1. /\ pc'[t] = l /\ op'[t] = q /\ on'[t] = s
      /\ Moves(t)
  BY DEF Moves, LazyInv, TypeOK
<1>2. reading \subseteq Operations \ {"finalize_callback"}
  BY DEF reading, Operations, initializing, tries, primed, ensured
<1>3. TypeOK'
  BY <1>2 DEF LazyInv, TypeOK
<1>4. /\ ~writes(pc[t], op[t]) /\ t \notin readers[s]
      /\ ~writes(l, q) /\ reads(l, q) /\ q \notin writing
  BY NoGuard DEF writes, reads, writing, reading
<1>5. /\ \A r \in Statics \ {s} : readers'[r] = readers[r]
      /\ readers'[s] = readers[s] \cup {t}
  BY DEF LazyInv, TypeOK
<1>6. ThreadOK(t)'
  <2>1. OpOK(l, q, s) /\ q \notin loose
    BY LazyAssumption, <1>2 DEF OpOK, loose, reading
  <2>2. HoldsOK(l, q, s, phase[s], pending[s], data[s], node[s], finals[s])
    BY <1>4 DEF HoldsOK
  <2>3. UsesOK(l, q, phase[s], data[s])
    BY <2>1 DEF UsesOK
  <2>4. QED
    BY <1>1, <1>2, <2>1, <2>2, <2>3 DEF ThreadOK
<1>7. QED
  BY <1>1, <1>2, <1>3, <1>4, <1>5, <1>6, ShareStep

LEMMA LockReadStep ==
  ASSUME LazyInv, NEW t \in Threads, LockRead(t)
  PROVE  LazyInv'
<1> DEFINE s == on[t]
           shall == shall_init(tolerant(s), phase[s])
           ok == accessible(op[t], s, phase[s])
<1>1. /\ pc[t] = "lock" /\ nature(t) = "Read" /\ writers[s] = {}
      /\ readers' = [readers EXCEPT ![s] = IF ok THEN @ \cup {t} ELSE @]
      /\ Obtain(t, ok)
      /\ UNCHANGED <<phase, writers, pending, data, finals, node>>
  BY DEF LockRead
<1>2. /\ op[t] \in Operations \ {"lock"} /\ s \in Statics
      /\ op[t] \in ensured => "INITIALIZED" \in phase[s]
  BY <1>1 DEF LazyInv, TypeOK, ThreadsInv, ThreadOK, OpOK, UsesOK
<1>3. op[t] \in reading /\ (op[t] \in initializing => ~shall)
  <2>1. shall \in BOOLEAN
    BY DEF shall_init
  <2> HIDE DEF shall
  <2>2. lock_nature(op[t], phase[s], shall) = "Read"
    BY <1>1 DEF nature, shall
  <2>3. QED
    BY <1>2, <2>1, <2>2, Natures
<1>4. /\ Shows(s, phase[s], data[s], node[s], finals[s])
      /\ data[s] \in {"uninit", "ready", "dropped"}
  BY <1>1, <1>2 DEF LazyInv, TypeOK, StaticsInv, StaticOK
<1>5. Earned(op[t], s, phase[s])
  BY <1>2, <1>3 DEF Earned, shall_init
<1>6. CASE ok
  <2> DEFINE l == IF op[t] \in primed THEN "primed" ELSE "using"
  <2>1. /\ pc' = [pc EXCEPT ![t] = l] /\ UNCHANGED <<op, on>>
        /\ readers' = [readers EXCEPT ![s] = @ \cup {t}]
    BY <1>1, <1>6 DEF Obtain
  <2>2. op' = [op EXCEPT ![t] = op[t]] /\ on' = [on EXCEPT ![t] = s]
    BY <2>1 DEF LazyInv, TypeOK
  <2>3. l = "using" => data[s] = "ready"
    BY <1>2, <1>4, <1>5, <1>6, AccessReady
  <2>4. l \in {"primed", "using", "fallback"} /\ l # "fallback" /\ (l = "primed" => op[t] \in primed)
    OBVIOUS
  <2>5. /\ pc[t] \in {"idle", "lock"} /\ writers[s] = {} /\ s \in Statics /\ op[t] \in reading
        /\ UNCHANGED <<phase, writers, pending, data, finals, node>>
    BY <1>1, <1>2, <1>3
  <2> HIDE DEF l, ok
  <2>6. QED
    BY <2>1, <2>2, <2>3, <2>4, <2>5, ReadStep
<1>7. CASE ~ok
  <2>1. UNCHANGED readers /\ Idle(t)
    BY <1>1, <1>7 DEF Obtain, LazyInv, TypeOK
  <2>2. QED
    BY <1>1, <2>1, IdleStep DEF locker
<1>8. QED
  BY <1>6, <1>7

LEMMA CloneStep ==
  ASSUME LazyInv, NEW t \in Threads, NEW u \in Threads, Clone(t, u)
  PROVE  LazyInv'
<1> DEFINE s == on[t]
<1>1. /\ pc[t] \in {"using", "fallback"} /\ op[t] \in reading /\ pc[u] = "idle"
      /\ readers' = [readers EXCEPT ![s] = @ \cup {u}]
      /\ pc' = [pc EXCEPT ![u] = pc[t]]
      /\ op' = [op EXCEPT ![u] = op[t]]
      /\ on' = [on EXCEPT ![u] = s]
      /\ UNCHANGED <<phase, writers, pending, data, finals, node>>
  BY DEF Clone
<1>2. s \in Statics /\ writers[s] = {}
  BY <1>1, ReaderShares DEF reads
<1>3. /\ pc[t] = "using" => data[s] = "ready"
      /\ pc[t] = "fallback" => data[s] # "ready"
  BY DEF LazyInv, ThreadsInv, ThreadOK, UsesOK
<1>4. on[u] = NoStatic
  BY <1>1 DEF LazyInv, ThreadsInv, ThreadOK, OpOK
<1>5. QED
  BY <1>1, <1>2, <1>3, <1>4, ReadStep

LEMMA ReleaseStep ==
  ASSUME LazyInv, DropsAreLocked, NEW t \in Threads, Release(t)
  PROVE  LazyInv'
<1> DEFINE s == on[t]
<1>1. /\ pc[t] \in {"using", "fallback"} /\ Idle(t)
      /\ UNCHANGED <<data, finals, node>>
  BY DEF Release
<1>2. OpOK(pc[t], op[t], s) /\ s \in Statics
  BY <1>1 DEF LazyInv, ThreadsInv, ThreadOK, OpOK, TypeOK
<1>3. CASE op[t] \in writing
  <2>1. Unlock(s, pending[s]) /\ UNCHANGED readers
    BY <1>3 DEF Release
  <2>2. pc[t] = "using"
    BY <1>1, <1>2, <1>3 DEF OpOK, reading, writing
  <2>3. QED
    BY <1>1, <1>3, <2>1, <2>2, WritingOK, UnlockStep
<1>4. CASE op[t] \in reading
  <2>1. /\ readers' = [readers EXCEPT ![s] = @ \ {t}]
        /\ UNCHANGED <<phase, writers, pending>>
    BY <1>4 DEF Release, reading, writing
  <2>2. /\ \A r \in Statics \ {s} : readers'[r] = readers[r]
        /\ readers'[s] = readers[s] \ {t}
    BY <1>2, <2>1 DEF LazyInv, TypeOK
  <2>3. /\ pc'[t] = "idle" /\ op'[t] = "none" /\ on'[t] = NoStatic
        /\ Moves(t)
    BY <1>1 DEF LazyInv, TypeOK, Idle, Moves
  <2>4. TypeOK'
    BY <1>1, <2>1 DEF LazyInv, TypeOK, Idle
  <2>5. /\ ~writes("idle", "none") /\ ~reads("idle", "none") /\ ~writes(pc[t], op[t])
    BY <1>1, <1>4 DEF writes, reads, writing, reading
  <2>6. ThreadOK(t)'
    BY <2>3 DEF ThreadOK, OpOK, HoldsOK, UsesOK, loose
  <2>7. QED
    BY <1>1, <1>2, <2>1, <2>2, <2>3, <2>4, <2>5, <2>6, ShareStep
<1>5. CASE op[t] \in loose
  <2>1. op[t] \notin writing /\ op[t] \notin reading
    BY <1>5 DEF loose, writing, reading
  <2>2. pc[t] = "using"
    BY <1>1, <1>2, <2>1 DEF OpOK
  <2>3. /\ readers' = [readers EXCEPT ![s] = @ \ {t}]
        /\ UNCHANGED <<phase, writers, pending>>
    BY <2>1 DEF Release
  <2>4. t \notin readers[s]
    BY <1>2, <1>5, <2>2, NoGuard
  <2>5. UNCHANGED readers
    BY <1>2, <2>3, <2>4 DEF LazyInv, TypeOK
  <2>6. QED
    BY <1>1, <1>5, <2>2, <2>3, <2>5, IdleStep DEF locker
<1>6. QED
  BY <1>1, <1>2, <1>3, <1>4, <1>5 DEF OpOK

LEMMA PrimedAnswerStep ==
  ASSUME LazyInv, DropsAreLocked, NEW t \in Threads, NEW hint \in BOOLEAN, PrimedAnswer(t, hint),
         hint => "INITIALIZED" \in phase[on[t]]
  PROVE  LazyInv'
<1> DEFINE s == on[t]
           p == IF op[t] \in writing THEN pending[s] ELSE phase[s]
           ok == IF hint THEN initialized_is_accessible(s, p) ELSE is_accessible(s, p)
           l == IF ok THEN "using" ELSE "fallback"
<1>1. /\ pc[t] = "primed" /\ pc' = [pc EXCEPT ![t] = l]
      /\ UNCHANGED <<on, data, finals, node>>
  BY DEF PrimedAnswer
<1>2. op[t] \in primed /\ (op[t] \in reading \/ op[t] \in writing) /\ s \in Statics
  <2>1. OpOK(pc[t], op[t], s) /\ on[t] \in Statics \cup {NoStatic}
    BY DEF LazyInv, ThreadsInv, ThreadOK, TypeOK
  <2>2. QED
    BY <1>1, <2>1 DEF OpOK, primed, reading, writing
<1>3. /\ Shows(s, p, data[s], node[s], finals[s])
      /\ hint => "INITIALIZED" \in p
  <2>1. CASE op[t] \in writing
    BY <1>1, <2>1, WritingOK
  <2>2. CASE op[t] \in reading
    <3>1. op[t] \notin writing /\ reads(pc[t], op[t])
      BY <1>1, <2>2 DEF reading, writing, reads
    <3>2. QED
      BY <3>1, ReaderShares
  <2>3. QED
    BY <1>2, <2>1, <2>2
<1>4. ok <=> data[s] = "ready"
  <2>1. data[s] \in {"uninit", "ready", "dropped"}
    BY <1>2 DEF LazyInv, TypeOK
  <2>2. QED
    BY <1>3, <2>1 DEF is_accessible, initialized_is_accessible, Shows, FIN
<1>5. CASE op[t] \in writing /\ ~ok
  <2>1. /\ Unlock(s, pending[s])
        /\ readers' = [readers EXCEPT ![s] = @ \cup {t}]
        /\ op' = [op EXCEPT ![t] = "primed_read"]
    BY <1>5 DEF PrimedAnswer
  <2>2. pc' = [pc EXCEPT ![t] = "fallback"]
    BY <1>1, <1>5
  <2>3. data[s] # "ready"
    BY <1>4, <1>5
  <2>4. QED
    BY <1>1, <1>5, <2>1, <2>2, <2>3, ConvertStep
<1>6. CASE ok \/ op[t] \notin writing
  <2>1. UNCHANGED <<phase, writers, readers, pending, op>>
    BY <1>6 DEF PrimedAnswer, locker
  <2>2. /\ pc'[t] = l /\ op'[t] = op[t] /\ on'[t] = s
        /\ Moves(t) /\ l \in {"using", "fallback"} /\ (l = "using" <=> data[s] = "ready")
    BY <1>1, <1>4, <2>1 DEF LazyInv, TypeOK, Moves
  <2>3. TypeOK'
    BY <1>1, <2>1, <2>2 DEF LazyInv, TypeOK
  <2>4. OpOK(l, op[t], s) /\ op[t] \notin loose /\ op[t] # "finalize_callback"
    BY <1>2, <1>6, LazyAssumption DEF OpOK, primed, loose
  <2>5. /\ writes(l, op[t]) <=> writes(pc[t], op[t])
        /\ reads(l, op[t]) <=> reads(pc[t], op[t])
    BY <1>1, <1>2, <1>6 DEF writes, reads
  <2>6. ThreadOK(t)'
    <3>1. HoldsOK(l, op[t], s, phase[s], pending[s], data[s], node[s], finals[s])
      BY <1>1 DEF HoldsOK, LazyInv, ThreadsInv, ThreadOK
    <3>2. UsesOK(l, op[t], phase[s], data[s])
      BY <2>2, <2>4 DEF UsesOK
    <3>3. QED
      BY <1>1, <2>1, <2>2, <2>4, <3>1, <3>2 DEF ThreadOK
  <2>7. /\ t \in readers[s] <=> reads(pc[t], op[t])
        /\ t \in readers[s] => writers[s] = {}
    BY <1>2, ReaderShares DEF LazyInv, GuardsInv, GuardOK
  <2> HIDE DEF l
  <2>8. QED
    BY <1>1, <1>2, <2>1, <2>2, <2>3, <2>4, <2>5, <2>6, <2>7, ShareStep
<1>7. QED
  BY <1>5, <1>6
-----------------------------------------------------------------------------
(***************************************************************************)
(* The invariant of the specification, and what follows from it.           *)
(***************************************************************************)
LEMMA LazyInit ==
  ASSUME Init
  PROVE  LazyInv
<1>1. TypeOK
  BY DEF Init, TypeOK, Phases
<1>2. ThreadsInv
  BY DEF Init, ThreadsInv, ThreadOK, OpOK, HoldsOK, UsesOK, loose
<1>3. GuardsInv
  BY DEF Init, GuardsInv, GuardOK, writes, reads
<1>4. StaticsInv
  BY DEF Init, StaticsInv, StaticOK, Shows
<1>5. OneFinalizer
  BY DEF Init, OneFinalizer
<1>6. QED
  BY <1>1, <1>2, <1>3, <1>4, <1>5 DEF LazyInv

LEMMA AccessStep ==
  ASSUME LazyInv, DropsAreLocked, NEW t \in Threads, NEW s \in Statics, Access(t, s)
  PROVE  LazyInv'
<1>1. CASE TryGet(t, s)
  BY <1>1, TryGetStep
<1>2. ASSUME NEW q \in Calls[s], Call(t, s, q), UNCHANGED node
      PROVE  LazyInv'
  <2>1. q \in Operations /\ q \notin ensured /\ q # "lock" /\ q # "finalize_callback"
    BY LazyAssumption
  <2>2. QED
    BY <1>2, <2>1, CallStep
<1>3. QED
  BY <1>1, <1>2 DEF Access

LEMMA ProceedStep ==
  ASSUME LazyInv, DropsAreLocked, NEW t \in Threads, Proceed(t)
  PROVE  LazyInv'
BY LockNoneStep, LockReadStep, LockWriteStep, TryFailsStep, GenerateStep, GeneratorPanicsStep,
   ReleaseStep, FinalyReturnsStep DEF Proceed

LEMMA FinalizeStep ==
  ASSUME LazyInv, NEW t \in Threads, NEW s \in Statics, Finalize(t, s)
  PROVE  LazyInv'
<1>1. "finalize_callback" \in Operations \ {"lock"} /\ "finalize_callback" \notin ensured
  BY DEF Operations, ensured
<1>2. QED
  BY <1>1, CallStep DEF Finalize

LEMMA LazyUnchanged ==
  ASSUME LazyInv, UNCHANGED vars
  PROVE  LazyInv'
<1>1. /\ TypeOK' /\ OneFinalizer'
  BY DEF vars, LazyInv, TypeOK, OneFinalizer
<1>2. ThreadsInv'
  BY DEF vars, LazyInv, ThreadsInv, ThreadOK
<1>3. GuardsInv' /\ StaticsInv'
  BY DEF vars, LazyInv, GuardsInv, GuardOK, StaticsInv
<1>4. QED
  BY <1>1, <1>2, <1>3 DEF LazyInv

LEMMA NextStep ==
  ASSUME LazyInv, DropsAreLocked, [Next]_vars
  PROVE  LazyInv'
<1>1. CASE UNCHANGED vars
  BY <1>1, LazyUnchanged
<1>2. ASSUME NEW t \in Threads, Begin(t)
      PROVE  LazyInv'
  BY <1>2, AccessStep, DowngradeStep, CloneStep DEF Begin
<1>3. ASSUME NEW t \in Threads, Proceed(t)
      PROVE  LazyInv'
  BY <1>3, ProceedStep
<1>4. ASSUME NEW t \in Threads, PrimedAnswer(t, FALSE)
      PROVE  LazyInv'
  BY <1>4, PrimedAnswerStep
<1>5. ASSUME NEW t \in Threads, FinalyPanics(t)
      PROVE  LazyInv'
  BY <1>5, FinalyPanicsStep
<1>6. ASSUME NEW t \in Threads, NEW a \in Answers(on[t]), Register(t, a)
      PROVE  LazyInv'
  BY <1>6, RegisterStep DEF Answers
<1>7. ASSUME NEW t \in Threads, NEW s \in Statics, Finalize(t, s)
      PROVE  LazyInv'
  BY <1>7, FinalizeStep
<1>8. QED
  BY <1>1, <1>2, <1>3, <1>4, <1>5, <1>6, <1>7 DEF Next

(* Whatever the registry answers and whenever it calls finalize_callback,  *)
(* guards exclude each other, phase and target agree, and what the threads *)
(* hold on to between two calls of foreign code remains true.              *)
THEOREM LazyInvariance ==
  ASSUME DropsAreLocked
  PROVE  Spec => []LazyInv
<1>1. Init => LazyInv
  BY LazyInit
<1>2. LazyInv /\ [Next]_vars => LazyInv'
  BY NextStep
<1>3. QED
  BY <1>1, <1>2, PTL DEF Spec

LEMMA LazyInvSound ==
  ASSUME LazyInv
  PROVE  AccessSound
BY DEF LazyInv, ThreadsInv, ThreadOK, UsesOK, AccessSound

LEMMA LazyInvFinaly ==
  ASSUME LazyInv, DropsAreLocked
  PROVE  FinalyOnce
<1>1. \A s \in Statics : finals[s] <= 1
  BY DEF LazyInv, StaticsInv, StaticOK
<1>2. ASSUME NEW t \in Threads, pc[t] = "finaly"
      PROVE  /\ data[on[t]] = "ready"
             /\ hard(on[t]) => \A u \in Threads : ~(pc[u] \in {"using", "fallback"} /\ on[u] = on[t])
  <2>1. on[t] \in Statics /\ Alone(t, on[t]) /\ readers[on[t]] = {}
    BY <1>2, WriterAlone DEF writes
  <2>2. HoldsOK("finaly", op[t], on[t], phase[on[t]], pending[on[t]], data[on[t]], node[on[t]], finals[on[t]])
    BY <1>2 DEF LazyInv, ThreadsInv, ThreadOK
  <2>3. data[on[t]] \in {"uninit", "ready", "dropped"}
    BY <2>1 DEF LazyInv, TypeOK
  <2>4. data[on[t]] = "ready"
    BY <2>2, <2>3 DEF HoldsOK, Shows
  <2>5. ASSUME hard(on[t]), NEW u \in Threads, pc[u] \in {"using", "fallback"}, on[u] = on[t]
        PROVE  FALSE
    <3>1. u # t
      BY <1>2, <2>5
    <3>2. ~writes(pc[u], op[u]) /\ ~reads(pc[u], op[u])
      BY <2>1, <2>5, <3>1 DEF Alone, LazyInv, GuardsInv, GuardOK
    <3>3. OpOK(pc[u], op[u], on[u])
      BY DEF LazyInv, ThreadsInv, ThreadOK
    <3>4. op[u] \in loose
      BY <2>5, <3>2, <3>3 DEF OpOK, writes, reads
    <3>5. QED
      BY <2>1, <2>5, <3>3, <3>4 DEF OpOK, DropsAreLocked
  <2>6. QED
    BY <2>4, <2>5
<1>3. QED
  BY <1>1, <1>2 DEF FinalyOnce

LEMMA LazyInvAssertions ==
  ASSUME LazyInv
  PROVE  AssertionsHold
<1>1. ASSUME NEW t \in Threads
      PROVE  /\ pc[t] \in {"register", "generate"} =>
                  phase[on[t]] \cap {"INITIALIZED", "FINALIZED", "FINALIZATION_PANICKED"} = {}
             /\ pc[t] = "register" => phase[on[t]] = {}
             /\ pc[t] = "finaly" => phase[on[t]] \cap {"FINALIZED", "FINALIZATION_PANICKED"} = {}
  BY DEF LazyInv, ThreadsInv, ThreadOK, HoldsOK, FIN
<1>2. ASSUME NEW s \in Statics, registering(s), Tolerance[s].REG_ALWAYS
      PROVE  /\ phase[s] # {} => "REGISTERED" \in phase[s]
             /\ \A t \in Threads : pc[t] = "using" /\ op[t] \in writing /\ on[t] = s
                                   => "REGISTERED" \in pending[s]
  <2>1. phase[s] # {} => "REGISTERED" \in phase[s]
    BY <1>2 DEF LazyInv, StaticsInv, StaticOK
  <2>2. ASSUME NEW t \in Threads, pc[t] = "using", op[t] \in writing, on[t] = s
        PROVE  "REGISTERED" \in pending[s]
    BY <1>2, <2>2 DEF LazyInv, ThreadsInv, ThreadOK, HoldsOK, UsesOK, Shows
  <2>3. QED
    BY <2>1, <2>2
<1>3. QED
  BY <1>1, <1>2 DEF AssertionsHold

(* Whoever gets a reference or a guard from one of the access functions    *)
(* (generic_lazy.rs) gets a target that is generated and not dropped, for  *)
(* all tolerances and interleavings, and Err of a primed static only with  *)
(* the primed or the uninited value.                                       *)
THEOREM AccessIsSound ==
  ASSUME DropsAreLocked
  PROVE  Spec => []AccessSound
<1>1. LazyInv => AccessSound
  BY LazyInvSound
<1>2. QED
  BY <1>1, LazyInvariance, PTL

(* lazy_finalization calls finaly at most once, on a generated target, and *)
(* nobody uses a target that finaly drops.                                 *)
THEOREM FinalyAtMostOnce ==
  ASSUME DropsAreLocked
  PROVE  Spec => []FinalyOnce
<1>1. LazyInv => FinalyOnce
  BY LazyInvFinaly
<1>2. QED
  BY <1>1, LazyInvariance, PTL

(* The debug_assert!s of lazy_initialization, finalize_callback and        *)
(* post_init_is_accessible never fail.                                     *)
THEOREM NoAssertionFails ==
  ASSUME DropsAreLocked
  PROVE  Spec => []AssertionsHold
<1>1. LazyInv => AssertionsHold
  BY LazyInvAssertions
<1>2. QED
  BY <1>1, LazyInvariance, PTL
-----------------------------------------------------------------------------
(***************************************************************************)
(* Generated once, and poisoned for good.                                  *)
(***************************************************************************)

(* What a step may do to the history of s.                                 *)
HistoryOK(s) ==
  /\ data[s] # "uninit" => data'[s] \in {data[s], "dropped"}
  /\ "INITIALIZED" \in phase[s] => "INITIALIZED" \in phase'[s]
  /\ ~tolerant(s) /\ "INITIALIZATION_PANICKED" \in phase[s] =>
       phase'[s] = phase[s] /\ data'[s] = data[s]

(* A step of any of the actions, whatever the registry.                    *)
Acts(t) ==
  \/ \E s \in Statics, q \in Operations : Call(t, s, q)
  \/ \E s \in Statics : TryGet(t, s)
  \/ \E u \in Threads : Clone(u, t)
  \/ Downgrade(t) \/ Proceed(t) \/ FinalyPanics(t)
  \/ \E hint \in BOOLEAN : PrimedAnswer(t, hint)
  \/ \E a \in {"registered", "refused", "panicked"} : Register(t, a)

LEMMA HistoryKept ==
  ASSUME UNCHANGED <<phase, data>>
  PROVE  \A s \in Statics : HistoryOK(s)
BY DEF HistoryOK

(* An action of t moves t only, and t stays on its static until it is idle.*)
LEMMA ObtainMoves ==
  ASSUME TypeOK, NEW t \in Threads, NEW ok, Obtain(t, ok)
  PROVE  Moves(t) /\ on'[t] \in {on[t], NoStatic}
BY DEF TypeOK, Obtain, Idle, Moves

LEMMA StartInitMoves ==
  ASSUME TypeOK, NEW t \in Threads, NEW r, StartInit(t, r)
  PROVE  Moves(t) /\ on'[t] \in {on[t], NoStatic}
<1>1. ASSUME NEW l, NEW p, Transition(t, l, p)
      PROVE  Moves(t) /\ on'[t] = on[t]
  BY <1>1 DEF TypeOK, Transition, Moves
<1>2. ASSUME NEW p, Complete(t, p)
      PROVE  Moves(t) /\ on'[t] \in {on[t], NoStatic}
  BY <1>2, ObtainMoves DEF Complete
<1>3. QED
  BY <1>1, <1>2 DEF StartInit

LEMMA StaysOn ==
  ASSUME TypeOK, NEW t \in Threads,
         \/ Proceed(t) \/ Downgrade(t) \/ FinalyPanics(t)
         \/ \E hint \in BOOLEAN : PrimedAnswer(t, hint)
         \/ \E a \in {"registered", "refused", "panicked"} : Register(t, a)
  PROVE  Moves(t) /\ on'[t] \in {on[t], NoStatic}
<1> DEFINE M == Moves(t) /\ on'[t] \in {on[t], NoStatic}
<1>1. Idle(t) => M
  BY DEF TypeOK, Idle, Moves
<1>2. CASE LockNone(t) \/ LockRead(t)
  BY <1>2, ObtainMoves DEF LockNone, LockRead
<1>3. CASE LockWrite(t)
  <2>1. ASSUME NEW l, NEW p, Transition(t, l, p)
        PROVE  M
    BY <2>1 DEF TypeOK, Transition, Moves
  <2>2. ASSUME NEW p, Complete(t, p)
        PROVE  M
    BY <2>2, ObtainMoves DEF Complete
  <2>3. lazy_initialization(t) => M
    BY <2>1, StartInitMoves DEF lazy_initialization
  <2>4. QED
    BY <1>3, <2>1, <2>2, <2>3 DEF LockWrite
<1>4. CASE Generate(t)
  BY <1>4, ObtainMoves DEF Generate, Complete
<1>5. CASE TryFails(t) \/ GeneratorPanics(t) \/ Release(t) \/ FinalyReturns(t) \/ FinalyPanics(t)
  BY <1>1, <1>5 DEF TryFails, GeneratorPanics, Release, FinalyReturns, FinalyPanics, Unwind
<1>6. CASE Downgrade(t)
  BY <1>6 DEF TypeOK, Downgrade, Moves
<1>7. ASSUME NEW hint \in BOOLEAN, PrimedAnswer(t, hint)
      PROVE  M
  BY <1>7 DEF TypeOK, PrimedAnswer, Moves
<1>8. ASSUME NEW a \in {"registered", "refused", "panicked"}, Register(t, a)
      PROVE  M
  BY <1>1, <1>8, StartInitMoves DEF Register, Unwind
<1>9. QED
  BY <1>2, <1>3, <1>4, <1>5, <1>6, <1>7, <1>8 DEF Proceed

LEMMA ActsMoves ==
  ASSUME TypeOK, NEW t \in Threads, Acts(t)
  PROVE  Moves(t)
<1>1. CASE \/ \E s \in Statics, q \in Operations : Call(t, s, q)
           \/ \E s \in Statics : TryGet(t, s)
           \/ \E u \in Threads : Clone(u, t)
  BY <1>1 DEF TypeOK, Call, TryGet, Clone, Moves
<1>2. QED
  BY <1>1, StaysOn DEF Acts

(* Steps that touch one static only, by a thread that owns its write guard.*)
LEMMA HistoryWrite ==
  ASSUME LazyInv, NEW t \in Threads, NEW s \in Statics, on[t] = s,
         \A r \in Statics \ {s} : phase'[r] = phase[r] /\ data'[r] = data[r],
         data[s] # "uninit" => data'[s] \in {data[s], "dropped"},
         \/ /\ pc[t] \in {"register", "generate"}
         \/ /\ pc[t] \in {"primed", "using"} /\ op[t] \in writing
            /\ phase'[s] = pending[s] /\ UNCHANGED data
         \/ /\ pc[t] = "finaly" /\ phase[s] \subseteq phase'[s]
  PROVE  \A r \in Statics : HistoryOK(r)
<1>1. HoldsOK(pc[t], op[t], s, phase[s], pending[s], data[s], node[s], finals[s])
  BY DEF LazyInv, ThreadsInv, ThreadOK
<1>2. StaticOK(s, writers[s], phase[s], data[s], node[s], finals[s])
  BY DEF LazyInv, StaticsInv
<1>3. HistoryOK(s)
  <2>1. CASE pc[t] \in {"register", "generate"}
    BY <1>1, <2>1 DEF HoldsOK, HistoryOK
  <2>2. CASE /\ pc[t] \in {"primed", "using"} /\ op[t] \in writing
             /\ phase'[s] = pending[s] /\ UNCHANGED data
    BY <1>1, <1>2, <2>2 DEF HoldsOK, HistoryOK, Shows, StaticOK
  <2>3. CASE pc[t] = "finaly" /\ phase[s] \subseteq phase'[s]
    BY <1>1, <2>3 DEF HoldsOK, HistoryOK, Shows
  <2>4. QED
    BY <2>1, <2>2, <2>3
<1>4. QED
  BY <1>3 DEF HistoryOK

LEMMA UnlockPhase ==
  ASSUME TypeOK, NEW s \in Statics, NEW p, Unlock(s, p)
  PROVE  phase'[s] = p /\ \A r \in Statics \ {s} : phase'[r] = phase[r]
BY DEF TypeOK, Unlock

LEMMA CompletePhase ==
  ASSUME TypeOK, NEW t \in Threads, on[t] \in Statics, NEW p, Complete(t, p)
  PROVE  \A r \in Statics \ {on[t]} : phase'[r] = phase[r]
BY DEF TypeOK, Complete, Unlock

LEMMA StartInitPhase ==
  ASSUME TypeOK, NEW t \in Threads, on[t] \in Statics, NEW r, StartInit(t, r)
  PROVE  \A x \in Statics \ {on[t]} : phase'[x] = phase[x]
BY CompletePhase DEF StartInit, Transition

LEMMA HistoryLockWrite ==
  ASSUME LazyInv, NEW t \in Threads, LockWrite(t)
  PROVE  \A s \in Statics : HistoryOK(s)
<1> DEFINE s == on[t]
<1>1. pc[t] = "lock" /\ writers[s] = {} /\ UNCHANGED data
  BY DEF LockWrite
<1>2. s \in Statics /\ TypeOK
  BY <1>1 DEF LazyInv, TypeOK, ThreadsInv, ThreadOK, OpOK
<1>3. CASE op[t] = "finalize_callback"
  BY <1>1, <1>3, HistoryKept DEF LockWrite, Transition, initializing
<1>4. CASE op[t] \in initializing /\ shall_init(tolerant(s), phase[s])
  <2>1. lazy_initialization(t)
    BY <1>4 DEF LockWrite, initializing
  <2>2. "INITIALIZED" \notin phase[s] /\ (~tolerant(s) => phase[s] = {})
    BY <1>4 DEF shall_init
  <2>3. \A r \in Statics \ {s} : phase'[r] = phase[r]
    BY <1>2, <2>1, StartInitPhase DEF lazy_initialization, Transition
  <2>4. QED
    BY <1>1, <2>2, <2>3 DEF HistoryOK
<1>5. CASE op[t] # "finalize_callback" /\ ~(op[t] \in initializing /\ shall_init(tolerant(s), phase[s]))
  <2>1. Complete(t, phase[s])
    BY <1>5 DEF LockWrite
  <2>2. UNCHANGED phase
    BY <1>2, <2>1 DEF Complete, Unlock, TypeOK
  <2>3. QED
    BY <1>1, <2>2, HistoryKept
<1>6. QED
  BY <1>3, <1>4, <1>5

LEMMA HistoryActs ==
  ASSUME LazyInv, NEW t \in Threads, Acts(t)
  PROVE  \A s \in Statics : HistoryOK(s)
<1> DEFINE s == on[t]
           D == \A r \in Statics \ {s} : phase'[r] = phase[r] /\ data'[r] = data[r]
<1>0. TypeOK /\ ThreadOK(t)
  BY DEF LazyInv, ThreadsInv
<1>1. CASE \/ \E x \in Statics, q \in Operations : Call(t, x, q)
           \/ \E x \in Statics : TryGet(t, x)
           \/ \E u \in Threads : Clone(u, t)
           \/ LockNone(t) \/ LockRead(t) \/ TryFails(t)
  BY <1>1, HistoryKept DEF Call, TryGet, Clone, LockNone, LockRead, TryFails, locker
<1>2. CASE LockWrite(t)
  BY <1>2, HistoryLockWrite
<1>3. CASE Downgrade(t)
  <2>1. pc[t] = "using" /\ op[t] \in writing /\ Unlock(s, pending[s]) /\ UNCHANGED data
    BY <1>3 DEF Downgrade
  <2>2. s \in Statics
    BY <2>1, WritingOK
  <2>3. QED
    BY <1>0, <2>1, <2>2, UnlockPhase, HistoryWrite
<1>4. CASE Release(t)
  <2>1. CASE op[t] \in writing
    <3>1. pc[t] \in {"using", "fallback"} /\ Unlock(s, pending[s]) /\ UNCHANGED data
      BY <1>4, <2>1 DEF Release
    <3>2. pc[t] = "using"
      BY <1>0, <2>1, <3>1 DEF ThreadOK, OpOK, writing, reading
    <3>3. s \in Statics
      BY <2>1, <3>2, WritingOK
    <3>4. QED
      BY <1>0, <2>1, <3>1, <3>2, <3>3, UnlockPhase, HistoryWrite
  <2>2. CASE op[t] \notin writing
    BY <1>4, <2>2, HistoryKept DEF Release
  <2>3. QED
    BY <2>1, <2>2
<1>5. ASSUME NEW hint \in BOOLEAN, PrimedAnswer(t, hint)
      PROVE  \A r \in Statics : HistoryOK(r)
  <2>1. CASE UNCHANGED phase
    BY <1>5, <2>1, HistoryKept DEF PrimedAnswer
  <2>2. CASE ~UNCHANGED phase
    <3>1. pc[t] = "primed" /\ op[t] \in writing /\ Unlock(s, pending[s]) /\ UNCHANGED data
      BY <1>5, <2>2 DEF PrimedAnswer, locker
    <3>2. s \in Statics
      BY <3>1, WritingOK
    <3>3. QED
      BY <1>0, <3>1, <3>2, UnlockPhase, HistoryWrite
  <2>3. QED
    BY <2>1, <2>2
<1>6. CASE Generate(t)
  <2>1. pc[t] = "generate" /\ \E p : Complete(t, p)
    BY <1>6 DEF Generate
  <2>2. s \in Statics /\ data[s] = "uninit"
    BY <2>1, GeneratingOK
  <2>3. D
    BY <1>0, <1>6, <2>1, <2>2, CompletePhase DEF Generate, TypeOK
  <2>4. QED
    BY <2>1, <2>2, <2>3, HistoryWrite
<1>7. CASE GeneratorPanics(t)
  <2>1. pc[t] = "generate" /\ Unlock(s, pending[s]) /\ UNCHANGED data
    BY <1>7 DEF GeneratorPanics, Unwind
  <2>2. s \in Statics
    BY <2>1, GeneratingOK
  <2>3. QED
    BY <1>0, <2>1, <2>2, UnlockPhase, HistoryWrite
<1>8. ASSUME NEW a \in {"registered", "refused", "panicked"}, Register(t, a)
      PROVE  \A r \in Statics : HistoryOK(r)
  <2>1. pc[t] = "register" /\ UNCHANGED data
    BY <1>8 DEF Register
  <2>2. s \in Statics
    BY <2>1, WriterAlone DEF writes
  <2>3. Unlock(s, pending[s]) \/ \E r : StartInit(t, r)
    BY <1>8 DEF Register, Unwind
  <2>4. D
    BY <1>0, <2>1, <2>2, <2>3, UnlockPhase, StartInitPhase
  <2>5. QED
    BY <2>1, <2>2, <2>4, HistoryWrite
<1>9. CASE FinalyReturns(t) \/ FinalyPanics(t)
  <2>1. pc[t] = "finaly"
    BY <1>9 DEF FinalyReturns, FinalyPanics
  <2>2. s \in Statics
    BY <2>1, WriterAlone DEF writes
  <2>3. /\ pending[s] = phase[s] \cup {"FINALIZATION_PANICKED"}
        /\ phase[s] \cap FIN = {}
    BY <1>0, <2>1 DEF ThreadOK, HoldsOK
  <2>4. \/ Unlock(s, (pending[s] \ {"FINALIZATION_PANICKED"}) \cup {"FINALIZED"})
        \/ Unlock(s, pending[s])
    BY <1>9 DEF FinalyReturns, FinalyPanics, Unwind
  <2>5. /\ phase[s] \subseteq phase'[s]
        /\ \A r \in Statics \ {s} : phase'[r] = phase[r]
    BY <1>0, <2>2, <2>3, <2>4, UnlockPhase DEF FIN
  <2>6. /\ data'[s] \in {data[s], "dropped"}
        /\ \A r \in Statics \ {s} : data'[r] = data[r]
    BY <1>0, <1>9, <2>2 DEF FinalyReturns, FinalyPanics, Dropped, TypeOK
  <2>7. QED
    BY <2>1, <2>2, <2>5, <2>6, HistoryWrite
<1>10. QED
  BY <1>1, <1>2, <1>3, <1>4, <1>5, <1>6, <1>7, <1>8, <1>9 DEF Acts, Proceed

LEMMA PoisonedUninit ==
  ASSUME LazyInv, NEW s \in Statics, ~tolerant(s), "INITIALIZATION_PANICKED" \in phase[s]
  PROVE  data[s] = "uninit"
<1>1. StaticOK(s, writers[s], phase[s], data[s], node[s], finals[s])
  BY DEF LazyInv, StaticsInv
<1>2. CASE writers[s] = {}
  BY <1>1, <1>2 DEF StaticOK, Shows
<1>3. CASE writers[s] # {}
  <2>1. PICK t \in Threads : t \in writers[s]
    BY <1>3 DEF LazyInv, TypeOK
  <2>2. on[t] = s /\ writes(pc[t], op[t])
    BY <2>1 DEF LazyInv, GuardsInv, GuardOK
  <2>3. HoldsOK(pc[t], op[t], s, phase[s], pending[s], data[s], node[s], finals[s])
    BY <2>2 DEF LazyInv, ThreadsInv, ThreadOK
  <2>4. QED
    BY <2>2, <2>3 DEF HoldsOK, Shows, writes
<1>4. QED
  BY <1>2, <1>3

(* A step of GeneratedOnce, and one of Poisoned.                           *)
GeneratedStep ==
  \A s \in Statics :
    /\ data[s] # "uninit" => data'[s] \in {data[s], "dropped"} /\ (\A t \in Threads :
         pc[t] = "generate" => on[t] # s)
    /\ "INITIALIZED" \in phase[s] => "INITIALIZED" \in phase'[s]

PoisonedStep ==
  \A s \in Statics :
    ~tolerant(s) /\ "INITIALIZATION_PANICKED" \in phase[s] =>
      phase'[s] = phase[s] /\ data'[s] = "uninit"

LEMMA HistoryStep ==
  ASSUME LazyInv, \/ \E t \in Threads : Acts(t)
                  \/ UNCHANGED <<phase, data>>
  PROVE  GeneratedStep /\ PoisonedStep
<1>1. \A s \in Statics : HistoryOK(s)
  BY HistoryActs, HistoryKept
<1>2. GeneratedStep
  BY <1>1, GeneratingOK DEF HistoryOK, GeneratedStep
<1>3. PoisonedStep
  BY <1>1, PoisonedUninit DEF HistoryOK, PoisonedStep
<1>4. QED
  BY <1>2, <1>3

MayStep(t) ==
  \/ Begin(t) \/ Proceed(t) \/ PrimedAnswer(t, FALSE) \/ FinalyPanics(t)
  \/ pc[t] = "register" /\ \E a \in Answers(on[t]) : Register(t, a)
  \/ \E s \in Statics : Finalize(t, s)

LEMMA StepActs ==
  ASSUME NEW t \in Threads, MayStep(t)
  PROVE  Acts(t)
<1>1. \A s \in Statics : Calls[s] \subseteq Operations
  BY LazyAssumption
<1>2. Answers(on[t]) \subseteq {"registered", "refused", "panicked"} /\ FALSE \in BOOLEAN
  BY DEF Answers
<1>3. "finalize_callback" \in Operations
  BY DEF Operations
<1>4. QED
  BY <1>1, <1>2, <1>3 DEF MayStep, Acts, Begin, Access, Finalize

LEMMA NextActs ==
  ASSUME [Next]_vars
  PROVE  (\E t \in Threads : Acts(t)) \/ UNCHANGED <<phase, data>>
<1>1. CASE UNCHANGED vars
  BY <1>1 DEF vars
<1>2. CASE \E t \in Threads : MayStep(t)
  BY <1>2, StepActs
<1>3. QED
  BY <1>1, <1>2 DEF Next, MayStep

(* The generator of a static succeeds at most once: a target that has been *)
(* generated is never written again, and INITIALIZED never leaves its      *)
(* phase (lazy_initialization).                                            *)
THEOREM GeneratesOnce ==
  ASSUME DropsAreLocked
  PROVE  Spec => GeneratedOnce
<1>1. LazyInv /\ [Next]_vars => [GeneratedStep]_vars
  BY HistoryStep, NextActs
<1>2. QED
  BY <1>1, LazyInvariance, PTL DEF Spec, GeneratedOnce, GeneratedStep

(* try_init_once: a lazy whose generator has panicked stays as it is,      *)
(* whatever the other operations that had begun before do.                 *)
THEOREM StaysPoisoned ==
  ASSUME DropsAreLocked
  PROVE  Spec => Poisoned
<1>1. LazyInv /\ [Next]_vars => [PoisonedStep]_vars
  BY HistoryStep, NextActs
<1>2. QED
  BY <1>1, LazyInvariance, PTL DEF Spec, Poisoned, PoisonedStep
-----------------------------------------------------------------------------
(***************************************************************************)
(* What the registries of ExitSequentializer and ThreadExit add to the     *)
(* invariant: REGISTERED is only in the phase of a static that has been    *)
(* registered, and FINALIZED never leaves a phase.                         *)
(***************************************************************************)
WordOK(s) ==
  /\ "REGISTERED" \in phase[s] \cup pending[s] => node[s] # "out"
  /\ "FINALIZED" \in phase[s] /\ writers[s] # {} => "FINALIZED" \in pending[s]

WordInv == \A s \in Statics : WordOK(s)

StaysFinalized == \A s \in Statics : "FINALIZED" \in phase[s] => "FINALIZED" \in phase'[s]

(* The write guard of s leaves p, at once or when it is dropped.           *)
Leaves(s, p) ==
  /\ \A r \in Statics \ {s} :
       phase'[r] = phase[r] /\ pending'[r] = pending[r] /\ writers'[r] = writers[r]
  /\ \/ phase'[s] = p /\ writers'[s] = {} /\ pending'[s] = {}
     \/ phase'[s] = phase[s] /\ pending'[s] = p

LEMMA WordLeaves ==
  ASSUME WordInv, NEW s \in Statics, NEW p, Leaves(s, p),
         \A r \in Statics : node[r] # "out" => node'[r] # "out",
         "REGISTERED" \in p => node'[s] # "out",
         "FINALIZED" \in phase[s] => "FINALIZED" \in p
  PROVE  WordInv' /\ StaysFinalized
<1>1. ASSUME NEW r \in Statics, r # s
      PROVE  WordOK(r)' /\ ("FINALIZED" \in phase[r] => "FINALIZED" \in phase'[r])
  BY <1>1 DEF WordInv, WordOK, Leaves
<1>2. WordOK(s)' /\ ("FINALIZED" \in phase[s] => "FINALIZED" \in phase'[s])
  BY DEF WordInv, WordOK, Leaves
<1>3. QED
  BY <1>1, <1>2 DEF WordInv, StaysFinalized

LEMMA WordKept ==
  ASSUME WordInv, UNCHANGED <<phase, writers, pending>>,
         \A r \in Statics : node[r] # "out" => node'[r] # "out"
  PROVE  WordInv' /\ StaysFinalized
BY DEF WordInv, WordOK, StaysFinalized

LEMMA UnlockLeaves ==
  ASSUME TypeOK, NEW s \in Statics, NEW p, Unlock(s, p)
  PROVE  Leaves(s, p)
BY DEF TypeOK, Unlock, Leaves

LEMMA CompleteLeaves ==
  ASSUME TypeOK, NEW t \in Threads, on[t] \in Statics, NEW p, Complete(t, p)
  PROVE  Leaves(on[t], p)
BY DEF TypeOK, Complete, Unlock, Leaves

LEMMA TransitionLeaves ==
  ASSUME TypeOK, NEW t \in Threads, on[t] \in Statics, NEW l, NEW p, Transition(t, l, p)
  PROVE  Leaves(on[t], p)
BY DEF TypeOK, Transition, Leaves

LEMMA StartInitLeaves ==
  ASSUME TypeOK, NEW t \in Threads, on[t] \in Statics, NEW r, StartInit(t, r)
  PROVE  \E p : Leaves(on[t], p) /\ ("REGISTERED" \in p => "REGISTERED" \in r)
<1> DEFINE p1 == before_init(on[t], r) \cup initialization_panic
           p2 == r \cup {"INITIALIZATION_SKIPED"}
<1>1. Transition(t, "generate", p1) \/ Complete(t, p2)
  BY DEF StartInit
<1>2. /\ "REGISTERED" \in p1 => "REGISTERED" \in r
      /\ "REGISTERED" \in p2 => "REGISTERED" \in r
  BY DEF before_init, initialization_panic
<1> HIDE DEF p1, p2
<1>3. QED
  BY <1>1, <1>2, TransitionLeaves, CompleteLeaves

LEMMA LockWriteWord ==
  ASSUME LazyInv, WordInv, NEW t \in Threads, LockWrite(t)
  PROVE  WordInv' /\ StaysFinalized
<1> DEFINE s == on[t]
<1>1. pc[t] = "lock" /\ writers[s] = {} /\ UNCHANGED node
  BY DEF LockWrite
<1>2. s \in Statics /\ TypeOK
  BY <1>1 DEF LazyInv, TypeOK, ThreadsInv, ThreadOK, OpOK
<1>3. "REGISTERED" \in phase[s] => node[s] # "out"
  BY <1>2 DEF WordInv, WordOK
<1>4. CASE op[t] = "finalize_callback"
  <2>1. Transition(t, "finaly", phase[s] \cup {"FINALIZATION_PANICKED"})
    BY <1>4 DEF LockWrite, initializing
  <2>2. Leaves(s, phase[s] \cup {"FINALIZATION_PANICKED"})
    BY <1>2, <2>1, TransitionLeaves
  <2>3. QED
    BY <1>1, <1>2, <1>3, <2>2, WordLeaves
<1>5. CASE op[t] \in initializing /\ shall_init(tolerant(s), phase[s])
  <2>1. lazy_initialization(t)
    BY <1>5 DEF LockWrite, initializing
  <2>2. "INITIALIZED" \notin phase[s]
    BY <1>5 DEF shall_init
  <2>3. "FINALIZED" \notin phase[s]
    BY <1>1, <1>2, <2>2 DEF LazyInv, StaticsInv, StaticOK, Shows, FIN
  <2>4. \E p : Leaves(s, p) /\ ("REGISTERED" \in p => "REGISTERED" \in phase[s])
    <3>1. CASE Transition(t, "register", {"REGISTRATION_PANICKED", "INITIALIZATION_SKIPED"})
      BY <1>2, <3>1, TransitionLeaves
    <3>2. CASE StartInit(t, {}) \/ StartInit(t, phase[s])
      BY <1>2, <3>2, StartInitLeaves
    <3>3. QED
      BY <2>1, <3>1, <3>2 DEF lazy_initialization
  <2>5. QED
    BY <1>1, <1>2, <1>3, <2>3, <2>4, WordLeaves
<1>6. CASE op[t] # "finalize_callback" /\ ~(op[t] \in initializing /\ shall_init(tolerant(s), phase[s]))
  <2>1. Complete(t, phase[s])
    BY <1>6 DEF LockWrite
  <2>2. Leaves(s, phase[s])
    BY <1>2, <2>1, CompleteLeaves
  <2>3. QED
    BY <1>1, <1>2, <1>3, <2>2, WordLeaves
<1>7. QED
  BY <1>4, <1>5, <1>6

(* The owner of a write guard drops it.                                    *)
LEMMA DropWord ==
  ASSUME LazyInv, WordInv, NEW t \in Threads, writes(pc[t], op[t]), Unlock(on[t], pending[on[t]]),
         UNCHANGED node
  PROVE  WordInv' /\ StaysFinalized
<1>1. on[t] \in Statics /\ writers[on[t]] = {t} /\ TypeOK
  BY WriterAlone DEF LazyInv
<1>2. Leaves(on[t], pending[on[t]])
  BY <1>1, UnlockLeaves
<1>3. /\ "REGISTERED" \in pending[on[t]] => node[on[t]] # "out"
      /\ "FINALIZED" \in phase[on[t]] => "FINALIZED" \in pending[on[t]]
  BY <1>1 DEF WordInv, WordOK
<1>4. QED
  BY <1>1, <1>2, <1>3, WordLeaves

LEMMA WordActs ==
  ASSUME LazyInv, WordInv, NEW t \in Threads, Acts(t),
         \A r \in Statics : node[r] # "out" => node'[r] # "out"
  PROVE  WordInv' /\ StaysFinalized
<1> DEFINE s == on[t]
<1>0. TypeOK /\ ThreadOK(t)
  BY DEF LazyInv, ThreadsInv
<1>1. CASE \/ \E x \in Statics, q \in Operations : Call(t, x, q)
           \/ \E x \in Statics : TryGet(t, x)
           \/ \E u \in Threads : Clone(u, t)
           \/ LockNone(t) \/ LockRead(t) \/ TryFails(t)
  BY <1>1, WordKept DEF Call, TryGet, Clone, LockNone, LockRead, TryFails, locker
<1>2. CASE LockWrite(t)
  BY <1>2, LockWriteWord
<1>3. CASE Downgrade(t)
  BY <1>3, DropWord DEF Downgrade, writes
<1>4. CASE Release(t)
  <2>1. CASE op[t] \in writing
    <3>1. pc[t] \in {"using", "fallback"} /\ Unlock(s, pending[s]) /\ UNCHANGED node
      BY <1>4, <2>1 DEF Release
    <3>2. pc[t] = "using"
      BY <1>0, <2>1, <3>1 DEF ThreadOK, OpOK, writing, reading
    <3>3. QED
      BY <2>1, <3>1, <3>2, DropWord DEF writes
  <2>2. CASE op[t] \notin writing
    BY <1>4, <2>2, WordKept DEF Release
  <2>3. QED
    BY <2>1, <2>2
<1>5. ASSUME NEW hint \in BOOLEAN, PrimedAnswer(t, hint)
      PROVE  WordInv' /\ StaysFinalized
  <2>1. CASE UNCHANGED locker
    BY <1>5, <2>1, WordKept DEF PrimedAnswer, locker
  <2>2. CASE ~UNCHANGED locker
    <3>1. pc[t] = "primed" /\ op[t] \in writing /\ Unlock(s, pending[s]) /\ UNCHANGED node
      BY <1>5, <2>2 DEF PrimedAnswer
    <3>2. QED
      BY <3>1, DropWord DEF writes
  <2>3. QED
    BY <2>1, <2>2
<1>6. CASE Generate(t)
  <2> DEFINE p == (pending[s] \ initialization_panic) \cup {"INITIALIZED"}
  <2>1. pc[t] = "generate" /\ Complete(t, p) /\ UNCHANGED node
    BY <1>6 DEF Generate
  <2>2. s \in Statics /\ "FINALIZED" \notin phase[s]
    BY <2>1, GeneratingOK DEF FIN
  <2>3. "REGISTERED" \in p => node[s] # "out"
    BY <2>2 DEF WordInv, WordOK
  <2> HIDE DEF p
  <2>4. Leaves(s, p)
    BY <1>0, <2>1, <2>2, CompleteLeaves
  <2>5. QED
    BY <2>1, <2>2, <2>3, <2>4, WordLeaves
<1>7. CASE GeneratorPanics(t)
  BY <1>7, DropWord DEF GeneratorPanics, Unwind, writes
<1>8. ASSUME NEW a \in {"registered", "refused", "panicked"}, Register(t, a)
      PROVE  WordInv' /\ StaysFinalized
  <2>1. pc[t] = "register"
    BY <1>8 DEF Register
  <2>2. s \in Statics
    BY <2>1, WriterAlone DEF writes
  <2>3. "FINALIZED" \notin phase[s] /\ "REGISTERED" \notin pending[s]
    BY <1>0, <2>1 DEF ThreadOK, HoldsOK
  <2>4. a = "registered" => node'[s] = "in"
    BY <1>0, <1>8, <2>2 DEF Register, TypeOK
  <2>5. \E p : Leaves(s, p) /\ ("REGISTERED" \in p => a = "registered")
    <3>1. CASE a = "panicked"
      <4>1. Unlock(s, pending[s])
        BY <1>8, <3>1 DEF Register, Unwind
      <4>2. QED
        BY <1>0, <2>2, <2>3, <4>1, UnlockLeaves
    <3>2. CASE a = "registered"
      <4>1. StartInit(t, {"REGISTERED"})
        BY <1>8, <3>2 DEF Register
      <4>2. QED
        BY <1>0, <2>2, <3>2, <4>1, StartInitLeaves
    <3>3. CASE a = "refused"
      <4>1. StartInit(t, {"REGISTRATION_REFUSED"})
        BY <1>8, <3>3 DEF Register
      <4>2. QED
        BY <1>0, <2>2, <4>1, StartInitLeaves
    <3>4. QED
      BY <3>1, <3>2, <3>3
  <2>6. QED
    BY <2>2, <2>3, <2>4, <2>5, WordLeaves
<1>9. CASE FinalyReturns(t)
  <2> DEFINE p == (pending[s] \ {"FINALIZATION_PANICKED"}) \cup {"FINALIZED"}
  <2>1. pc[t] = "finaly" /\ Unlock(s, p) /\ UNCHANGED node
    BY <1>9 DEF FinalyReturns
  <2>2. s \in Statics
    BY <2>1, WriterAlone DEF writes
  <2>3. ("REGISTERED" \in p => node[s] # "out") /\ "FINALIZED" \in p
    BY <2>2 DEF WordInv, WordOK
  <2> HIDE DEF p
  <2>4. Leaves(s, p)
    BY <1>0, <2>1, <2>2, UnlockLeaves
  <2>5. QED
    BY <2>1, <2>2, <2>3, <2>4, WordLeaves
<1>10. CASE FinalyPanics(t)
  BY <1>10, DropWord DEF FinalyPanics, Unwind, writes
<1>11. QED
  BY <1>1, <1>2, <1>3, <1>4, <1>5, <1>6, <1>7, <1>8, <1>9, <1>10 DEF Acts, Proceed

(* A step on the way leaves the operation and the static as they are, or   *)
(* ends the operation; finalize_callback ends by finaly or finds the       *)
(* static uninitialized.                                                   *)
LEMMA ProceedOp ==
  ASSUME LazyInv, NEW t \in Threads,
         Proceed(t) \/ \E a \in {"registered", "refused", "panicked"} : Register(t, a)
  PROVE  \/ op'[t] = op[t] /\ on'[t] = on[t]
         \/ /\ op'[t] = "none" /\ on'[t] = NoStatic
            /\ op[t] = "finalize_callback" =>
                 "INITIALIZED" \notin phase[on[t]] \/ "FINALIZED" \in phase'[on[t]]
<1>0. TypeOK /\ ThreadOK(t)
  BY DEF LazyInv, ThreadsInv
<1> DEFINE Same == op'[t] = op[t] /\ on'[t] = on[t]
           Ends == op'[t] = "none" /\ on'[t] = NoStatic
<1>1. ASSUME NEW ok, Obtain(t, ok) PROVE Same \/ Ends
  BY <1>0, <1>1 DEF Obtain, Idle, TypeOK
<1>2. ASSUME NEW p, Complete(t, p) PROVE Same \/ Ends
  BY <1>1, <1>2 DEF Complete
<1>3. ASSUME NEW r, StartInit(t, r) PROVE Same \/ Ends
  BY <1>2, <1>3 DEF StartInit, Transition
<1>4. Idle(t) => Ends
  BY <1>0 DEF Idle, TypeOK
<1>5. \/ Same \/ Ends
  <2>1. LockWrite(t) => Same \/ Ends
    BY <1>2, <1>3 DEF LockWrite, lazy_initialization, Transition
  <2>2. ASSUME NEW a \in {"registered", "refused", "panicked"}, Register(t, a)
        PROVE  Same \/ Ends
    BY <1>3, <1>4, <2>2 DEF Register, Unwind
  <2>3. LockNone(t) \/ LockRead(t) => Same \/ Ends
    BY <1>1 DEF LockNone, LockRead
  <2>4. Generate(t) => Same \/ Ends
    BY <1>2 DEF Generate
  <2>5. TryFails(t) \/ GeneratorPanics(t) \/ Release(t) \/ FinalyReturns(t) => Ends
    BY <1>4 DEF TryFails, GeneratorPanics, Unwind, Release, FinalyReturns
  <2>6. QED
    BY <2>1, <2>2, <2>3, <2>4, <2>5 DEF Proceed
<1>6. ASSUME op[t] = "finalize_callback", "INITIALIZED" \in phase[on[t]]
      PROVE  Same \/ "FINALIZED" \in phase'[on[t]]
  <2>1. pc[t] \in {"lock", "finaly"} /\ on[t] \in Statics
    BY <1>0, <1>6 DEF ThreadOK, OpOK, TypeOK
  <2>2. CASE pc[t] = "lock"
    <3>1. nature(t) = "Write"
      BY <1>6 DEF nature, lock_nature
    <3>2. op[t] \notin tries
      BY <1>6 DEF tries
    <3>3. LockWrite(t)
      BY <2>2, <3>1, <3>2 DEF Proceed, Register, LockNone, LockRead, TryFails, Generate, GeneratorPanics,
           Release, FinalyReturns
    <3>4. QED
      BY <1>6, <3>3 DEF LockWrite, Transition, initializing
  <2>3. CASE pc[t] = "finaly"
    <3>1. FinalyReturns(t)
      BY <2>3 DEF Proceed, Register, LockNone, LockRead, LockWrite, TryFails, Generate, GeneratorPanics, Release
    <3>2. QED
      BY <1>0, <2>1, <3>1 DEF FinalyReturns, Unlock, TypeOK
  <2>4. QED
    BY <2>1, <2>2, <2>3
<1>7. QED
  BY <1>5, <1>6
-----------------------------------------------------------------------------
(***************************************************************************)
(* The phase tells what has happened to the target.  LazyInv and WordInv   *)
(* say most of it; what is left is about the phase that the word has, or   *)
(* will have when the write guard is dropped or its owner panics.          *)
(***************************************************************************)
Coming(s) == IF writers[s] = {} THEN phase[s] ELSE pending[s]

Told(p, f) ==
  /\ "INITIALIZED" \in p => "INITIALIZATION_SKIPED" \notin p
  /\ f # 0 => p \cap FIN # {}

ToldInv == \A s \in Statics : Told(Coming(s), finals[s])

(* A step makes p the coming phase of s.                                   *)
Comes(s, p) == IF writers'[s] = {} THEN phase'[s] = p ELSE pending'[s] = p
Brings(s, p) == Comes(s, p) /\ \A r \in Statics \ {s} : Comes(r, Coming(r))

LEMMA ToldBrings ==
  ASSUME ToldInv, NEW s \in Statics, NEW p, Brings(s, p),
         \A r \in Statics \ {s} : finals'[r] = finals[r], Told(p, finals'[s])
  PROVE  ToldInv'
BY DEF ToldInv, Brings, Comes, Coming, Told

LEMMA ToldKept ==
  ASSUME ToldInv, UNCHANGED <<phase, writers, pending, finals>>
  PROVE  ToldInv'
BY DEF ToldInv, Coming, Told

LEMMA UnlockBrings ==
  ASSUME TypeOK, NEW s \in Statics, NEW p, Unlock(s, p)
  PROVE  Brings(s, p)
BY DEF TypeOK, Unlock, Brings, Comes, Coming

LEMMA CompleteBrings ==
  ASSUME TypeOK, NEW t \in Threads, on[t] \in Statics, NEW p, Complete(t, p)
  PROVE  Brings(on[t], p)
<1>1. CASE Unlock(on[t], p)
  BY <1>1, UnlockBrings
<1>2. CASE /\ writers' = [writers EXCEPT ![on[t]] = {t}]
           /\ pending' = [pending EXCEPT ![on[t]] = p]
           /\ UNCHANGED phase
  BY <1>2 DEF TypeOK, Brings, Comes, Coming
<1>3. QED
  BY <1>1, <1>2 DEF Complete

LEMMA TransitionBrings ==
  ASSUME TypeOK, NEW t \in Threads, on[t] \in Statics, NEW l, NEW p, Transition(t, l, p)
  PROVE  Brings(on[t], p)
BY DEF TypeOK, Transition, Brings, Comes, Coming

(* Before the target is generated finaly has not been called.              *)
LEMMA StartInitTells ==
  ASSUME TypeOK, ToldInv, NEW t \in Threads, on[t] \in Statics, NEW r, StartInit(t, r),
         "INITIALIZED" \notin r, finals[on[t]] = 0, UNCHANGED finals
  PROVE  ToldInv'
<1> DEFINE p1 == before_init(on[t], r) \cup initialization_panic
           p2 == r \cup {"INITIALIZATION_SKIPED"}
<1>1. Transition(t, "generate", p1) \/ Complete(t, p2)
  BY DEF StartInit
<1>2. "INITIALIZED" \notin p1 /\ "INITIALIZED" \notin p2
  BY DEF before_init, initialization_panic
<1>3. Told(p1, finals'[on[t]]) /\ Told(p2, finals'[on[t]])
  BY <1>2 DEF Told
<1> HIDE DEF p1, p2
<1>4. Brings(on[t], p1) \/ Brings(on[t], p2)
  BY <1>1, TransitionBrings, CompleteBrings
<1>5. QED
  BY <1>3, <1>4, ToldBrings

LEMMA LockWriteTells ==
  ASSUME LazyInv, ToldInv, NEW t \in Threads, LockWrite(t)
  PROVE  ToldInv'
<1> DEFINE s == on[t]
<1>1. pc[t] = "lock" /\ writers[s] = {}
  BY DEF LockWrite
<1>2. s \in Statics /\ TypeOK
  BY <1>1 DEF LazyInv, TypeOK, ThreadsInv, ThreadOK, OpOK
<1>3. Told(phase[s], finals[s])
  BY <1>1, <1>2 DEF ToldInv, Coming
<1>4. CASE op[t] = "finalize_callback"
  <2> DEFINE p == phase[s] \cup {"FINALIZATION_PANICKED"}
  <2>1. Transition(t, "finaly", p) /\ finals' = [finals EXCEPT ![s] = @ + 1]
    BY <1>4 DEF LockWrite, initializing
  <2>2. Told(p, finals'[s])
    BY <1>3 DEF Told, FIN
  <2> HIDE DEF p
  <2>3. Brings(s, p)
    BY <1>2, <2>1, TransitionBrings
  <2>4. \A r \in Statics \ {s} : finals'[r] = finals[r]
    BY <1>2, <2>1 DEF TypeOK
  <2>5. QED
    BY <1>2, <2>2, <2>3, <2>4, ToldBrings
<1>5. CASE op[t] \in initializing /\ shall_init(tolerant(s), phase[s])
  <2>1. lazy_initialization(t) /\ UNCHANGED finals
    BY <1>5 DEF LockWrite, initializing
  <2>2. "INITIALIZED" \notin phase[s]
    BY <1>5 DEF shall_init
  <2>3. finals[s] = 0
    BY <1>1, <1>2, <1>3, <2>2 DEF LazyInv, StaticsInv, StaticOK, Shows, Told
  <2>4. CASE Transition(t, "register", {"REGISTRATION_PANICKED", "INITIALIZATION_SKIPED"})
    <3>1. Brings(s, {"REGISTRATION_PANICKED", "INITIALIZATION_SKIPED"})
      BY <1>2, <2>4, TransitionBrings
    <3>2. QED
      BY <1>2, <2>1, <2>3, <3>1, ToldBrings DEF Told
  <2>5. CASE StartInit(t, {}) \/ StartInit(t, phase[s])
    BY <1>2, <2>1, <2>2, <2>3, <2>5, StartInitTells
  <2>6. QED
    BY <2>1, <2>4, <2>5 DEF lazy_initialization
<1>6. CASE op[t] # "finalize_callback" /\ ~(op[t] \in initializing /\ shall_init(tolerant(s), phase[s]))
  <2>1. Complete(t, phase[s]) /\ UNCHANGED finals
    BY <1>6 DEF LockWrite
  <2>2. Brings(s, phase[s])
    BY <1>2, <2>1, CompleteBrings
  <2>3. QED
    BY <1>2, <1>3, <2>1, <2>2, ToldBrings
<1>7. QED
  BY <1>4, <1>5, <1>6

(* The owner of a write guard drops it.                                    *)
LEMMA DropTells ==
  ASSUME LazyInv, ToldInv, NEW t \in Threads, writes(pc[t], op[t]), Unlock(on[t], pending[on[t]]),
         UNCHANGED finals
  PROVE  ToldInv'
<1>1. on[t] \in Statics /\ writers[on[t]] = {t} /\ TypeOK
  BY WriterAlone DEF LazyInv
<1>2. Brings(on[t], pending[on[t]])
  BY <1>1, UnlockBrings
<1>3. Told(pending[on[t]], finals[on[t]])
  BY <1>1 DEF ToldInv, Coming
<1>4. QED
  BY <1>1, <1>2, <1>3, ToldBrings

LEMMA ToldActs ==
  ASSUME LazyInv, ToldInv, NEW t \in Threads, Acts(t)
  PROVE  ToldInv'
<1> DEFINE s == on[t]
<1>0. TypeOK /\ ThreadOK(t)
  BY DEF LazyInv, ThreadsInv
<1>1. CASE \/ \E x \in Statics, q \in Operations : Call(t, x, q)
           \/ \E x \in Statics : TryGet(t, x)
           \/ \E u \in Threads : Clone(u, t)
           \/ LockNone(t) \/ LockRead(t) \/ TryFails(t)
  BY <1>1, ToldKept DEF Call, TryGet, Clone, LockNone, LockRead, TryFails, locker
<1>2. CASE LockWrite(t)
  BY <1>2, LockWriteTells
<1>3. CASE Downgrade(t)
  BY <1>3, DropTells DEF Downgrade, writes
<1>4. CASE Release(t)
  <2>1. CASE op[t] \in writing
    <3>1. pc[t] \in {"using", "fallback"} /\ Unlock(s, pending[s]) /\ UNCHANGED finals
      BY <1>4, <2>1 DEF Release
    <3>2. pc[t] = "using"
      BY <1>0, <2>1, <3>1 DEF ThreadOK, OpOK, writing, reading
    <3>3. QED
      BY <2>1, <3>1, <3>2, DropTells DEF writes
  <2>2. CASE op[t] \notin writing
    BY <1>4, <2>2, ToldKept DEF Release
  <2>3. QED
    BY <2>1, <2>2
<1>5. ASSUME NEW hint \in BOOLEAN, PrimedAnswer(t, hint)
      PROVE  ToldInv'
  <2>1. CASE UNCHANGED locker
    BY <1>5, <2>1, ToldKept DEF PrimedAnswer, locker
  <2>2. CASE ~UNCHANGED locker
    <3>1. pc[t] = "primed" /\ op[t] \in writing /\ Unlock(s, pending[s]) /\ UNCHANGED finals
      BY <1>5, <2>2 DEF PrimedAnswer
    <3>2. QED
      BY <3>1, DropTells DEF writes
  <2>3. QED
    BY <2>1, <2>2
<1>6. CASE Generate(t)
  <2> DEFINE p == (pending[s] \ initialization_panic) \cup {"INITIALIZED"}
  <2>1. pc[t] = "generate" /\ Complete(t, p) /\ UNCHANGED finals
    BY <1>6 DEF Generate
  <2>2. s \in Statics /\ writers[s] = {t}
    BY <2>1, WriterAlone DEF writes
  <2>3. Told(pending[s], finals[s])
    BY <2>2 DEF ToldInv, Coming
  <2>4. Told(p, finals'[s])
    BY <2>1, <2>3 DEF Told, initialization_panic, FIN
  <2> HIDE DEF p
  <2>5. Brings(s, p)
    BY <1>0, <2>1, <2>2, CompleteBrings
  <2>6. QED
    BY <2>1, <2>2, <2>4, <2>5, ToldBrings
<1>7. CASE GeneratorPanics(t)
  BY <1>7, DropTells DEF GeneratorPanics, Unwind, writes
<1>8. ASSUME NEW a \in {"registered", "refused", "panicked"}, Register(t, a)
      PROVE  ToldInv'
  <2>1. pc[t] = "register" /\ UNCHANGED finals
    BY <1>8 DEF Register
  <2>2. s \in Statics /\ writers[s] = {t}
    BY <2>1, WriterAlone DEF writes
  <2>3. finals[s] = 0
    BY <1>0, <2>1, <2>2 DEF ThreadOK, HoldsOK, LazyInv, StaticsInv, StaticOK
  <2>4. CASE a = "panicked"
    <3>1. Unlock(s, pending[s])
      BY <1>8, <2>4 DEF Register, Unwind
    <3>2. QED
      BY <2>1, <3>1, DropTells DEF writes
  <2>5. CASE a = "registered"
    <3>1. StartInit(t, {"REGISTERED"})
      BY <1>8, <2>5 DEF Register
    <3>2. QED
      BY <1>0, <2>1, <2>2, <2>3, <3>1, StartInitTells
  <2>6. CASE a = "refused"
    <3>1. StartInit(t, {"REGISTRATION_REFUSED"})
      BY <1>8, <2>6 DEF Register
    <3>2. QED
      BY <1>0, <2>1, <2>2, <2>3, <3>1, StartInitTells
  <2>7. QED
    BY <2>4, <2>5, <2>6
<1>9. CASE FinalyReturns(t)
  <2> DEFINE p == (pending[s] \ {"FINALIZATION_PANICKED"}) \cup {"FINALIZED"}
  <2>1. pc[t] = "finaly" /\ Unlock(s, p) /\ UNCHANGED finals
    BY <1>9 DEF FinalyReturns
  <2>2. s \in Statics /\ writers[s] = {t}
    BY <2>1, WriterAlone DEF writes
  <2>3. Told(pending[s], finals[s])
    BY <2>2 DEF ToldInv, Coming
  <2>4. Told(p, finals'[s])
    BY <2>1, <2>3 DEF Told, FIN
  <2> HIDE DEF p
  <2>5. Brings(s, p)
    BY <1>0, <2>1, <2>2, UnlockBrings
  <2>6. QED
    BY <2>1, <2>2, <2>4, <2>5, ToldBrings
<1>10. CASE FinalyPanics(t)
  BY <1>10, DropTells DEF FinalyPanics, Unwind, writes
<1>11. QED
  BY <1>1, <1>2, <1>3, <1>4, <1>5, <1>6, <1>7, <1>8, <1>9, <1>10 DEF Acts, Proceed

LEMMA ToldPhase ==
  ASSUME LazyInv, WordInv, ToldInv
  PROVE  PhaseTells
<1> SUFFICES ASSUME NEW s \in Statics, writers[s] = {}
             PROVE  LET finished == phase[s] \cap {"FINALIZED", "FINALIZATION_PANICKED"} # {}
                    IN /\ "INITIALIZED" \in phase[s] <=> data[s] # "uninit"
                       /\ "INITIALIZED" \in phase[s] => phase[s] \cap initialization_panic = {}
                       /\ finished <=> finals[s] # 0
                       /\ finished /\ hard(s) <=> data[s] = "dropped"
                       /\ "REGISTERED" \in phase[s] <=> node[s] # "out"
  BY DEF PhaseTells
<1>1. Shows(s, phase[s], data[s], node[s], finals[s])
  BY DEF LazyInv, StaticsInv, StaticOK
<1>2. Told(phase[s], finals[s])
  BY DEF ToldInv, Coming
<1>3. "REGISTERED" \in phase[s] => node[s] # "out"
  BY DEF WordInv, WordOK
<1>4. QED
  BY <1>1, <1>2, <1>3 DEF Shows, Told, FIN, initialization_panic

(* What the registry knows it does not forget.                             *)
LEMMA NodeStays ==
  ASSUME TypeOK, NEW t \in Threads, MayStep(t)
  PROVE  \A r \in Statics : node[r] # "out" => node'[r] # "out"
<1> DEFINE Stays == \A r \in Statics : node[r] # "out" => node'[r] # "out"
<1>1. Begin(t) => Stays
  BY DEF Begin, Access, TryGet, Downgrade, Clone
<1>2. Proceed(t) => Stays
  BY DEF Proceed, LockNone, LockRead, LockWrite, TryFails, Generate, GeneratorPanics, Release, FinalyReturns
<1>3. PrimedAnswer(t, FALSE) \/ FinalyPanics(t) => Stays
  BY DEF PrimedAnswer, FinalyPanics
<1>4. (\E a \in Answers(on[t]) : Register(t, a)) => Stays
  BY DEF TypeOK, Register
<1>5. (\E s \in Statics : Finalize(t, s)) => Stays
  BY DEF TypeOK, Finalize
<1>6. QED
  BY <1>1, <1>2, <1>3, <1>4, <1>5 DEF MayStep

(* While nobody writes, the phase tells whether the target was generated,  *)
(* finalized and dropped and whether the registry knows the static,        *)
(* whatever panicked, was refused or was retried (lazy_initialization,     *)
(* lazy_finalization), for all tolerances and interleavings.               *)
THEOREM PhaseIsTrue ==
  ASSUME DropsAreLocked
  PROVE  Spec => []PhaseTells
<1>1. Init => WordInv /\ ToldInv
  BY DEF Init, WordInv, WordOK, ToldInv, Told, Coming
<1>2. LazyInv /\ WordInv /\ ToldInv /\ [Next]_vars => (WordInv /\ ToldInv)'
  <2> SUFFICES ASSUME LazyInv, WordInv, ToldInv, [Next]_vars PROVE WordInv' /\ ToldInv'
    OBVIOUS
  <2>1. CASE UNCHANGED vars
    BY <2>1, WordKept, ToldKept DEF vars
  <2>2. ASSUME NEW t \in Threads, MayStep(t)
        PROVE  WordInv' /\ ToldInv'
    <3>1. Acts(t)
      BY <2>2, StepActs
    <3>2. \A r \in Statics : node[r] # "out" => node'[r] # "out"
      BY <2>2, NodeStays DEF LazyInv
    <3>3. QED
      BY <3>1, <3>2, WordActs, ToldActs
  <2>3. QED
    BY <2>1, <2>2 DEF Next, MayStep
<1>3. LazyInv /\ WordInv /\ ToldInv => PhaseTells
  BY ToldPhase
<1>4. QED
  BY <1>1, <1>2, <1>3, LazyInvariance, PTL DEF Spec
-----------------------------------------------------------------------------
(***************************************************************************)
(* Chains: the intrusive lists of exit_sequentializer.rs.                  *)
(***************************************************************************)

(* s is on the chain that starts at a, when f gives the successors.        *)
OnChain(f, a, s) ==
  \A C \in SUBSET Statics : a \in C /\ (\A x \in C : f[x] \in C \cup {NoStatic}) => s \in C

Links == [Statics -> Statics \cup {NoStatic}]

(* A node is put in front of a chain.                                      *)
LEMMA ChainPush ==
  ASSUME NEW f \in Links, NEW s \in Statics, f[s] = NoStatic,
         NEW h \in Statics \cup {NoStatic}, NEW a \in Statics, NEW x \in Statics
  PROVE  /\ OnChain(f, a, x) => OnChain([f EXCEPT ![s] = h], a, x)
         /\ h # NoStatic /\ OnChain(f, h, x) => OnChain([f EXCEPT ![s] = h], s, x)
<1> DEFINE g == [f EXCEPT ![s] = h]
<1>1. ASSUME NEW C \in SUBSET Statics, \A y \in C : g[y] \in C \cup {NoStatic}
      PROVE  \A y \in C : f[y] \in C \cup {NoStatic}
  BY <1>1 DEF Links
<1>2. ASSUME NEW C \in SUBSET Statics, s \in C, \A y \in C : g[y] \in C \cup {NoStatic}
      PROVE  h \in C \cup {NoStatic}
  BY <1>2 DEF Links
<1> HIDE DEF g
<1>3. OnChain(f, a, x) => OnChain(g, a, x)
  BY <1>1 DEF OnChain
<1>4. h # NoStatic /\ OnChain(f, h, x) => OnChain(g, s, x)
  BY <1>1, <1>2 DEF OnChain
<1>5. QED
  BY <1>3, <1>4 DEF g

(* The head of a chain is taken off.                                       *)
LEMMA ChainCut ==
  ASSUME NEW f \in Links, NEW l \in Statics, \A y \in Statics : f[y] # l,
         NEW a \in Statics, a # l, NEW x \in Statics, x # l
  PROVE  OnChain(f, a, x) => OnChain([f EXCEPT ![l] = NoStatic], a, x)
<1> DEFINE g == [f EXCEPT ![l] = NoStatic]
<1>1. ASSUME NEW C \in SUBSET Statics, \A y \in C : g[y] \in C \cup {NoStatic}
      PROVE  \A y \in C \ {l} : f[y] \in (C \ {l}) \cup {NoStatic}
  BY <1>1 DEF Links
<1> HIDE DEF g
<1>2. ASSUME OnChain(f, a, x), NEW C \in SUBSET Statics, a \in C, \A y \in C : g[y] \in C \cup {NoStatic}
      PROVE  x \in C
  <2>1. C \ {l} \in SUBSET Statics /\ a \in C \ {l}
    BY <1>2
  <2>2. x \in C \ {l}
    BY <1>1, <1>2, <2>1 DEF OnChain
  <2>3. QED
    BY <2>2
<1>3. QED
  BY <1>2 DEF OnChain, g

LEMMA ChainRest ==
  ASSUME NEW f \in Links, NEW l \in Statics, NEW x \in Statics, x # l, OnChain(f, l, x),
         NoStatic \notin Statics
  PROVE  /\ f[l] # NoStatic
         /\ OnChain([f EXCEPT ![l] = NoStatic], f[l], x)
<1> DEFINE g == [f EXCEPT ![l] = NoStatic]
<1>1. f[l] # NoStatic
  <2> SUFFICES ASSUME f[l] = NoStatic PROVE FALSE
    OBVIOUS
  <2>1. {l} \in SUBSET Statics /\ \A y \in {l} : f[y] \in {l} \cup {NoStatic}
    OBVIOUS
  <2>2. x \in {l}
    BY <2>1 DEF OnChain
  <2>3. QED
    BY <2>2
<1>2. ASSUME NEW C \in SUBSET Statics, f[l] \in C, \A y \in C : g[y] \in C \cup {NoStatic}
      PROVE  \A y \in C \cup {l} : f[y] \in (C \cup {l}) \cup {NoStatic}
  BY <1>2 DEF Links
<1> HIDE DEF g
<1>3. ASSUME NEW C \in SUBSET Statics, f[l] \in C, \A y \in C : g[y] \in C \cup {NoStatic}
      PROVE  x \in C
  <2>1. C \cup {l} \in SUBSET Statics
    BY <1>3
  <2>2. x \in C \cup {l}
    BY <1>2, <1>3, <2>1 DEF OnChain
  <2>3. QED
    BY <2>2
<1>4. QED
  BY <1>1, <1>3 DEF OnChain, g
=============================================================================
