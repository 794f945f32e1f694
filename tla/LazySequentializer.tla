------------------------- MODULE LazySequentializer -------------------------
(***************************************************************************)
(* Lazy initialization and finalization of statics: lazy_initialization,   *)
(* lazy_initialization_only, lazy_finalization and the operations of       *)
(* generic::LazySequentializer (src/src/lazy_sequentializer.rs), with the  *)
(* access policies of src/src/lazy.rs that src/src/generic_lazy.rs applies *)
(* to their results.                                                       *)
(*                                                                         *)
(* The phase locker is the abstract PhaseLock: taking and giving up a      *)
(* guard are single steps.  A thread pauses where it waits for the lock    *)
(* and where it runs foreign code: the closures reg and init, and finaly.  *)
(* Each of those may panic; the guard is then dropped by unwinding.        *)
(***************************************************************************)
EXTENDS LazyRequests, Naturals

CONSTANTS
  Threads,
  Statics,
  NoStatic,
  Kind,        \* Kind[s]: what the target is before and after its use (Kinds)
  Tolerance,   \* Tolerance[s]: INIT_FAILURE, FINAL_REGISTRATION_FAILURE, REG_ALWAYS
  Calls        \* Calls[s]: the operations that clients call on s

Flags == {"INITIALIZED", "INITIALIZATION_PANICKED", "INITIALIZATION_SKIPED",
          "REGISTERED", "REGISTRATION_PANICKED", "REGISTRATION_REFUSED",
          "FINALIZED", "FINALIZATION_PANICKED"}
Phases == SUBSET Flags

(* A target is left alone, finalized or dropped at exit; a primed one has  *)
(* a value before it is initialized, and may get one after (Uninit).       *)
Kinds == {"plain", "finalize", "drop", "prime", "prime_drop"}
registering(s) == Kind[s] \in {"finalize", "drop", "prime_drop"}
hard(s) == Kind[s] \in {"drop", "prime_drop"}

ASSUME LazyAssumption ==
  /\ NoStatic \notin Statics
  /\ Kind \in [Statics -> Kinds]
  /\ Tolerance \in [Statics -> [INIT_FAILURE : BOOLEAN, FINAL_REGISTRATION_FAILURE : BOOLEAN,
                                REG_ALWAYS : BOOLEAN]]
  /\ Calls \in [Statics -> SUBSET (Operations \ (ensured \cup {"lock", "finalize_callback"}))]
  /\ \A s \in Statics : Calls[s] \cap primed # {} => Kind[s] \in {"prime", "prime_drop"}

VARIABLES
  phase,     \* the phase in the word of each locker
  writers,   \* the thread that owns the write guard, if any
  readers,   \* the threads that own a read guard
  pending,   \* the phase that the write guard leaves behind
  data,      \* the target: not yet generated (or primed), usable, or dropped (uninited)
  finals,    \* calls of Finaly::finaly
  node,      \* what the registry that reg talks to knows of the static
  pc, op, on \* where each thread is, in which operation, on which static

vars == <<phase, writers, readers, pending, data, finals, node, pc, op, on>>
locker == <<phase, writers, readers, pending>>

TypeOK ==
  /\ phase \in [Statics -> Phases]
  /\ writers \in [Statics -> SUBSET Threads]
  /\ readers \in [Statics -> SUBSET Threads]
  /\ pending \in [Statics -> Phases]
  /\ data \in [Statics -> {"uninit", "ready", "dropped"}]
  /\ finals \in [Statics -> Nat]
  /\ node \in [Statics -> {"out", "in", "taken"}]
  /\ pc \in [Threads -> {"idle", "lock", "register", "generate", "primed", "using",
                     "fallback", "finaly"}]
  /\ op \in [Threads -> Operations \cup {"try_get", "get_unchecked", "none"}]
  /\ on \in [Threads -> Statics \cup {NoStatic}]

Init ==
  /\ phase = [s \in Statics |-> {}]
  /\ writers = [s \in Statics |-> {}]
  /\ readers = [s \in Statics |-> {}]
  /\ pending = [s \in Statics |-> {}]
  /\ data = [s \in Statics |-> "uninit"]
  /\ finals = [s \in Statics |-> 0]
  /\ node = [s \in Statics |-> "out"]
  /\ pc = [t \in Threads |-> "idle"]
  /\ op = [t \in Threads |-> "none"]
  /\ on = [t \in Threads |-> NoStatic]
-----------------------------------------------------------------------------
(***************************************************************************)
(* The checkers of lazy.rs.                                                *)
(***************************************************************************)
tolerant(s) == Tolerance[s].INIT_FAILURE

initialized_is_accessible(s, p) ==
  hard(s) => p \cap {"FINALIZED", "FINALIZATION_PANICKED"} = {}

is_accessible(s, p) == "INITIALIZED" \in p /\ initialized_is_accessible(s, p)

post_init_unchecked(s, p) ==   \* mutant: forgets that registration may fail
  IF tolerant(s) THEN initialized_is_accessible(s, p) ELSE is_accessible(s, p)

post_init_is_accessible(s, p) ==
  IF tolerant(s) /\ (\/ ~registering(s)
                     \/ Tolerance[s].REG_ALWAYS
                     \/ Tolerance[s].FINAL_REGISTRATION_FAILURE)
    THEN initialized_is_accessible(s, p)
    ELSE is_accessible(s, p)

accessible(q, s, p) ==
  CASE q \in primed -> TRUE
    [] q \in ensured -> initialized_is_accessible(s, p)
    [] q \in initializing \ primed -> post_init_is_accessible(s, p)
    [] OTHER -> is_accessible(s, p)

nature_final(t) ==   \* mutant: finalize_callback does not ask for INITIALIZED
  IF op[t] = "finalize_callback" THEN "Write"
  ELSE lock_nature(op[t], phase[on[t]], shall_init(tolerant(on[t]), phase[on[t]]))

nature(t) == lock_nature(op[t], phase[on[t]], shall_init(tolerant(on[t]), phase[on[t]]))

(* The operation ends: the caller uses the target, or gets an AccessError  *)
(* or None.  With a primed static it gets a guard in any case, and goes on *)
(* to look at its phase.                                                   *)
Idle(t) ==
  /\ pc' = [pc EXCEPT ![t] = "idle"]
  /\ op' = [op EXCEPT ![t] = "none"]
  /\ on' = [on EXCEPT ![t] = NoStatic]

Obtain(t, ok) ==
  \/ /\ ok
     /\ pc' = [pc EXCEPT ![t] = IF op[t] \in primed THEN "primed" ELSE "using"]
     /\ UNCHANGED <<op, on>>
  \/ ~ok /\ Idle(t)

(* The write guard is dropped, and the phase p takes effect.               *)
Unlock(s, p) ==
  /\ phase' = [phase EXCEPT ![s] = p]
  /\ writers' = [writers EXCEPT ![s] = {}]
  /\ pending' = [pending EXCEPT ![s] = {}]

(* A panic unwinds through the operation and drops the guard.              *)
Unwind(t) == Unlock(on[t], pending[on[t]]) /\ UNCHANGED readers /\ Idle(t)

(* The operation is done with the write guard, which has phase p: it is    *)
(* returned, turned into a read guard, or dropped.                         *)
reading == {"init_then_read_guard", "try_init_then_read_guard", "read_lock", "fast_read_lock",
            "primed_read", "primed_read_non_initializing", "read_ensured", "fast_read_ensured"}
writing == {"init_then_write_guard", "try_init_then_write_guard", "write_lock", "fast_write_lock",
            "primed_write", "primed_write_non_initializing", "write_ensured", "fast_write_ensured"}

Complete(t, p) ==
  LET s == on[t]
      ok == accessible(op[t], s, p)
  IN /\ Obtain(t, ok)
     /\ \/ /\ ok /\ op[t] \in writing
           /\ writers' = [writers EXCEPT ![s] = {t}]
           /\ pending' = [pending EXCEPT ![s] = p]
           /\ UNCHANGED <<phase, readers>>
        \/ /\ ~(ok /\ op[t] \in writing)
           /\ Unlock(s, p)
           /\ readers' = [readers EXCEPT ![s] = IF ok /\ op[t] \in reading THEN @ \cup {t} ELSE @]
-----------------------------------------------------------------------------
(***************************************************************************)
(* lazy_initialization: registration, then the generator.  r is            *)
(* registration_finished, and {} for lazy_initialization_only.             *)
(***************************************************************************)
initialization_panic == {"INITIALIZATION_PANICKED", "INITIALIZATION_SKIPED"}

before_init(s, r) == IF tolerant(s) THEN r \ ({"INITIALIZED"} \cup initialization_panic) ELSE r

Transition(t, l, on_panic) ==
  /\ pc' = [pc EXCEPT ![t] = l]
  /\ writers' = [writers EXCEPT ![on[t]] = {t}]
  /\ pending' = [pending EXCEPT ![on[t]] = on_panic]
  /\ UNCHANGED <<phase, readers, op, on>>

StartInit(t, r) ==
  LET s == on[t]
      go == \/ ~registering(s)
            \/ "REGISTERED" \in r
            \/ Tolerance[s].FINAL_REGISTRATION_FAILURE
  IN \/ go /\ Transition(t, "generate", before_init(s, r) \cup initialization_panic)
     \/ ~go /\ Complete(t, r \cup {"INITIALIZATION_SKIPED"})

lazy_initialization_again(t) ==   \* mutant: registers at each attempt
  IF ~registering(on[t]) THEN StartInit(t, {})
  ELSE Transition(t, "register", {"REGISTRATION_PANICKED", "INITIALIZATION_SKIPED"})

lazy_initialization(t) ==
  LET s == on[t]
  IN \/ /\ ~registering(s)
        /\ StartInit(t, {})
     \/ /\ registering(s) /\ (~tolerant(s) \/ phase[s] = {})
        /\ Transition(t, "register", {"REGISTRATION_PANICKED", "INITIALIZATION_SKIPED"})
     \/ /\ registering(s) /\ ~(~tolerant(s) \/ phase[s] = {})
        /\ StartInit(t, phase[s])

(* The closure reg returns true or false, or panics.                       *)
Register(t, answer) ==
  /\ pc[t] = "register"
  /\ \/ answer = "registered" /\ StartInit(t, {"REGISTERED"})
     \/ answer = "refused" /\ StartInit(t, {"REGISTRATION_REFUSED"})
     \/ answer = "panicked" /\ Unwind(t)
  /\ node' = [node EXCEPT ![on[t]] = IF answer = "registered" THEN "in" ELSE @]
  /\ UNCHANGED <<data, finals>>

GenerateKeeps(t) ==   \* mutant: the flags of the guard's panic phase stay
  /\ pc[t] = "generate"
  /\ data' = [data EXCEPT ![on[t]] = "ready"]
  /\ Complete(t, pending[on[t]] \cup {"INITIALIZED"})
  /\ UNCHANGED <<finals, node>>

(* The generator returns, and its value is written to the target.          *)
Generate(t) ==
  /\ pc[t] = "generate"
  /\ data' = [data EXCEPT ![on[t]] = "ready"]
  /\ Complete(t, (pending[on[t]] \ initialization_panic) \cup {"INITIALIZED"})
  /\ UNCHANGED <<finals, node>>

GeneratorPanics(t) ==
  /\ pc[t] = "generate"
  /\ Unwind(t)
  /\ UNCHANGED <<data, finals, node>>
-----------------------------------------------------------------------------
(***************************************************************************)
(* The operations: a call, then the answer of the locker.                  *)
(***************************************************************************)
Call(t, s, q) ==
  /\ pc[t] = "idle"
  /\ pc' = [pc EXCEPT ![t] = "lock"]
  /\ op' = [op EXCEPT ![t] = q]
  /\ on' = [on EXCEPT ![t] = s]
  /\ UNCHANGED <<locker, data, finals>>

(* LockResult::None: init finds the static initialized, finalize_callback  *)
(* finds it uninitialized.                                                 *)
LockNone(t) ==
  /\ pc[t] = "lock" /\ nature(t) = "None"
  /\ Obtain(t, op[t] = "init" /\ post_init_is_accessible(on[t], phase[on[t]]))
  /\ UNCHANGED <<locker, data, finals, node>>

LockRead(t) ==
  LET s == on[t]
      ok == accessible(op[t], s, phase[s])
  IN /\ pc[t] = "lock" /\ nature(t) = "Read" /\ writers[s] = {}
     /\ readers' = [readers EXCEPT ![s] = IF ok THEN @ \cup {t} ELSE @]
     /\ Obtain(t, ok)
     /\ UNCHANGED <<phase, writers, pending, data, finals, node>>

LockWrite(t) ==
  LET s == on[t]
  IN /\ pc[t] = "lock" /\ nature(t) = "Write" /\ writers[s] = {} /\ readers[s] = {}
     /\ \/ /\ op[t] = "finalize_callback"
           /\ Transition(t, "finaly", phase[s] \cup {"FINALIZATION_PANICKED"})
           /\ finals' = [finals EXCEPT ![s] = @ + 1]
        \/ /\ op[t] \in initializing /\ shall_init(tolerant(s), phase[s])
           /\ lazy_initialization(t)
           /\ UNCHANGED finals
        \/ /\ op[t] # "finalize_callback"
           /\ ~(op[t] \in initializing /\ shall_init(tolerant(s), phase[s]))
           /\ Complete(t, phase[s])
           /\ UNCHANGED finals
     /\ UNCHANGED <<data, node>>

(* try_lock gives up when somebody else holds, takes or drops the lock.    *)
TryFails(t) ==
  /\ pc[t] = "lock" /\ op[t] \in tries
  /\ Idle(t)
  /\ UNCHANGED <<locker, data, finals, node>>

(* GenericLazy::try_get looks at the phase without locking.                *)
TryGet(t, s) ==
  /\ pc[t] = "idle" /\ "init" \in Calls[s]
  /\ is_accessible(s, phase[s])
  /\ pc' = [pc EXCEPT ![t] = "using"]
  /\ op' = [op EXCEPT ![t] = "try_get"]
  /\ on' = [on EXCEPT ![t] = s]
  /\ UNCHANGED <<locker, data, finals, node>>

(* primed_read and the like answer Ok with the guard, or Err with a read   *)
(* guard, into which a write guard is turned.  The phase is that of the    *)
(* guard.  Where LAZY_INIT_ENSURED is read to be set (hint), the checker   *)
(* does not ask for INITIALIZED.                                           *)
PrimedAnswer(t, hint) ==
  LET s == on[t]
      write == op[t] \in writing
      p == IF write THEN pending[s] ELSE phase[s]
      ok == IF hint THEN initialized_is_accessible(s, p) ELSE is_accessible(s, p)
  IN /\ pc[t] = "primed"
     /\ pc' = [pc EXCEPT ![t] = IF ok THEN "using" ELSE "fallback"]
     /\ \/ (ok \/ ~write) /\ UNCHANGED <<locker, op>>
        \/ /\ ~ok /\ write
           /\ Unlock(s, p)
           /\ readers' = [readers EXCEPT ![s] = @ \cup {t}]
           /\ op' = [op EXCEPT ![t] = "primed_read"]
     /\ UNCHANGED <<on, data, finals, node>>

(* A write guard is turned into a read guard.                              *)
Downgrade(t) ==
  /\ pc[t] = "using" /\ op[t] \in writing
  /\ Unlock(on[t], pending[on[t]])
  /\ readers' = [readers EXCEPT ![on[t]] = @ \cup {t}]
  /\ op' = [op EXCEPT ![t] = "read_lock"]
  /\ UNCHANGED <<pc, on, data, finals, node>>

(* A clone of t's read guard is handed to u, which never saw the phase.    *)
Clone(t, u) ==
  /\ pc[t] \in {"using", "fallback"} /\ op[t] \in reading /\ pc[u] = "idle"
  /\ readers' = [readers EXCEPT ![on[t]] = @ \cup {u}]
  /\ pc' = [pc EXCEPT ![u] = pc[t]]
  /\ op' = [op EXCEPT ![u] = op[t]]
  /\ on' = [on EXCEPT ![u] = on[t]]
  /\ UNCHANGED <<phase, writers, pending, data, finals, node>>

(* The caller drops its guard or its reference.                            *)
Release(t) ==
  LET s == on[t]
  IN /\ pc[t] \in {"using", "fallback"}
     /\ \/ op[t] \in writing /\ Unlock(s, pending[s]) /\ UNCHANGED readers
        \/ /\ op[t] \notin writing
           /\ readers' = [readers EXCEPT ![s] = @ \ {t}]
           /\ UNCHANGED <<phase, writers, pending>>
     /\ Idle(t)
     /\ UNCHANGED <<data, finals, node>>

(* lazy_finalization.  A panic in finaly leaves the target half dropped.   *)
Dropped(s) == data' = [data EXCEPT ![s] = IF hard(s) THEN "dropped" ELSE @]

FinalyReturns(t) ==
  /\ pc[t] = "finaly"
  /\ Unlock(on[t], (pending[on[t]] \ {"FINALIZATION_PANICKED"}) \cup {"FINALIZED"})
  /\ Dropped(on[t])
  /\ Idle(t)
  /\ UNCHANGED <<readers, finals, node>>

FinalyPanics(t) ==
  /\ pc[t] = "finaly"
  /\ Unwind(t)
  /\ Dropped(on[t])
  /\ UNCHANGED <<finals, node>>
-----------------------------------------------------------------------------
(* A client's free choice, and what a thread does next whatever registry   *)
(* reg talks to.                                                           *)
Access(t, s) == (\E q \in Calls[s] : Call(t, s, q) /\ UNCHANGED node) \/ TryGet(t, s)

Begin(t) ==
  \/ \E s \in Statics : Access(t, s)
  \/ Downgrade(t)
  \/ \E u \in Threads : Clone(u, t)

Proceed(t) ==
  \/ LockNone(t) \/ LockRead(t) \/ LockWrite(t) \/ TryFails(t)
  \/ Generate(t) \/ GeneratorPanics(t) \/ Release(t) \/ FinalyReturns(t)

(* A registry that answers as it likes and calls finalize_callback once    *)
(* for each registration.                                                  *)
Answers(s) == IF Tolerance[s].REG_ALWAYS THEN {"registered"}
                                         ELSE {"registered", "refused", "panicked"}

Finalize(t, s) ==
  /\ node[s] = "in"
  /\ node' = [node EXCEPT ![s] = "taken"]
  /\ Call(t, s, "finalize_callback")

Next ==
  \E t \in Threads :
    \/ Begin(t) \/ Proceed(t) \/ PrimedAnswer(t, FALSE) \/ FinalyPanics(t)
    \/ pc[t] = "register" /\ \E a \in Answers(on[t]) : Register(t, a)
    \/ \E s \in Statics : Finalize(t, s)

Spec == Init /\ [][Next]_vars
-----------------------------------------------------------------------------
(***************************************************************************)
(* Properties.                                                             *)
(***************************************************************************)

(* Whoever gets a reference or a guard out of an access function gets a    *)
(* target that is generated and not dropped, although the policies skip    *)
(* the check of the phase where they consider it redundant                 *)
(* (post_init_is_accessible), and although initialization may have         *)
(* panicked, been refused or been retried in other threads before.  A      *)
(* primed static answers Err only with the primed or the uninited value.   *)
AccessSound ==
  \A t \in Threads :
    /\ pc[t] = "using" => data[on[t]] = "ready"
    /\ pc[t] = "fallback" => data[on[t]] # "ready"

(* finaly is called at most once, on a target that is generated, and, when *)
(* it drops the target, while nobody uses it.                              *)
FinalyOnce ==
  /\ \A s \in Statics : finals[s] <= 1
  /\ \A t \in Threads : pc[t] = "finaly" =>
       /\ data[on[t]] = "ready"
       /\ hard(on[t]) => \A u \in Threads : ~(pc[u] \in {"using", "fallback"} /\ on[u] = on[t])

(* While nobody writes, the phase tells what has happened to the target:   *)
(* generated or not, finalized, dropped, known to the registry, whatever   *)
(* panicked, was refused or was tried again in between.  The access        *)
(* functions go by nothing else, and phase() shows it to the user.         *)
PhaseTells ==
  \A s \in Statics : writers[s] = {} =>
    LET finished == phase[s] \cap {"FINALIZED", "FINALIZATION_PANICKED"} # {}
    IN /\ "INITIALIZED" \in phase[s] <=> data[s] # "uninit"
       /\ "INITIALIZED" \in phase[s] => phase[s] \cap initialization_panic = {}
       /\ finished <=> finals[s] # 0
       /\ finished /\ hard(s) <=> data[s] = "dropped"
       /\ "REGISTERED" \in phase[s] <=> node[s] # "out"

(* The debug_assert!s of lazy_initialization, finalize_callback and        *)
(* post_init_is_accessible.  The last looks at the phase that an           *)
(* initialization has left in the word, or leaves in the hands of the      *)
(* writer, whether or not the caller then gets the target.                 *)
AssertionsHold ==
  /\ \A t \in Threads :
       /\ pc[t] \in {"register", "generate"} =>
            phase[on[t]] \cap {"INITIALIZED", "FINALIZED", "FINALIZATION_PANICKED"} = {}
       /\ pc[t] = "register" => phase[on[t]] = {}
       /\ pc[t] = "finaly" => phase[on[t]] \cap {"FINALIZED", "FINALIZATION_PANICKED"} = {}
  /\ \A s \in Statics : registering(s) /\ tolerant(s) /\ Tolerance[s].REG_ALWAYS =>
       /\ phase[s] # {} => "REGISTERED" \in phase[s]
       /\ \A t \in Threads : pc[t] = "using" /\ op[t] \in writing /\ on[t] = s
                             => "REGISTERED" \in pending[s]

(* A static is generated once: a generated target is never written again,  *)
(* and INITIALIZED never leaves the phase.                                 *)
GeneratedOnce ==
  [][\A s \in Statics :
       /\ data[s] # "uninit" => data'[s] \in {data[s], "dropped"} /\ (\A t \in Threads :
            pc[t] = "generate" => on[t] # s)
       /\ "INITIALIZED" \in phase[s] => "INITIALIZED" \in phase'[s]]_vars

(* try_init_once: the lazy is poisoned if its initialization panics; no    *)
(* later access changes its phase or runs the generator.                   *)
Poisoned ==
  [][\A s \in Statics :
       ~tolerant(s) /\ "INITIALIZATION_PANICKED" \in phase[s] =>
         phase'[s] = phase[s] /\ data'[s] = "uninit"]_vars
=============================================================================
