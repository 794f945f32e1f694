----------------------------- MODULE LesserLazy -----------------------------
(***************************************************************************)
(* Statics attributed with #[dynamic] and neither lazy nor a priority: the *)
(* "lesser lazies" of src/src/lazy.rs, which a constructor of their own    *)
(* initializes before main (__static_init_initializer, written by          *)
(* src/static_init_macro/src/lib.rs).  When all of these constructors have *)
(* run, one more sets LAZY_INIT_ENSURED (mod inited), and from then on the *)
(* access functions trust it instead of the phase.                         *)
(*                                                                         *)
(* Main runs the constructors in the order of their priorities, those of   *)
(* the user before, between and after these; they may access any static    *)
(* and spawn threads that do.  A panic that reaches a constructor, an      *)
(* extern "C" function, ends the process.                                  *)
(***************************************************************************)
EXTENDS LazySequentializer

CONSTANTS
  Main,     \* the thread that runs the constructors
  Lesser    \* the lesser lazies among the statics

ASSUME LesserAssumption ==
  /\ Main \in Threads
  /\ Lesser \subseteq Statics
  /\ NoStatic \notin Threads

VARIABLES
  linked,             \* the statics of the program
  uninited,           \* the lesser lazies whose constructor has not been called
  constructing,       \* the one whose constructor Main is in
  LAZY_INIT_ENSURED,
  aborted

lesserVars == <<linked, uninited, constructing, LAZY_INIT_ENSURED, aborted>>
allVars == <<vars, lesserVars>>

LesserTypeOK ==
  /\ TypeOK
  /\ linked \subseteq Statics
  /\ uninited \subseteq linked \cap Lesser
  /\ constructing \in (linked \cap Lesser) \cup {NoStatic}
  /\ LAZY_INIT_ENSURED \in BOOLEAN
  /\ aborted \in BOOLEAN

LesserInit ==
  /\ Init
  /\ linked \in SUBSET Statics
  /\ uninited = linked \cap Lesser
  /\ constructing = NoStatic
  /\ LAZY_INIT_ENSURED = FALSE
  /\ aborted = FALSE
-----------------------------------------------------------------------------
(* References are handed out to statics that have init among their calls,  *)
(* guards to the others.                                                   *)
locked(s) == "init" \notin Calls[s]

(* LesserLazy::init reports the phase it reaches, LesserLockedLazy::init   *)
(* panics when that is not accessible.                                     *)
lazy_init(s) ==
  /\ constructing = NoStatic /\ s \in uninited
  /\ Call(Main, s, IF locked(s) THEN "init_then_write_guard" ELSE "init")
  /\ uninited' = uninited \ {s}
  /\ constructing' = s
  /\ UNCHANGED <<node, linked, LAZY_INIT_ENSURED, aborted>>

mark_inited_early ==   \* mutant: the two constructors have the same priority
  /\ constructing = NoStatic /\ pc[Main] = "idle" /\ ~LAZY_INIT_ENSURED
  /\ LAZY_INIT_ENSURED' = TRUE
  /\ UNCHANGED <<vars, linked, uninited, constructing, aborted>>

mark_inited ==
  /\ constructing = NoStatic /\ pc[Main] = "idle" /\ ~LAZY_INIT_ENSURED
  /\ uninited = {}
  /\ LAZY_INIT_ENSURED' = TRUE
  /\ UNCHANGED <<vars, linked, uninited, constructing, aborted>>

(* A thread goes on.  Main is back from a constructor when it is idle; it  *)
(* got there by a panic when the generator did not return, or when a       *)
(* locked static was not accessible.                                       *)
Step(t) ==
  /\ \/ Proceed(t) \/ PrimedAnswer(t, on[t] \in Lesser /\ LAZY_INIT_ENSURED)
     \/ pc[t] = "register" /\ \E a \in Answers(on[t]) : Register(t, a)
  /\ LET back == t = Main /\ constructing # NoStatic /\ pc'[Main] = "idle"
     IN /\ constructing' = IF back THEN NoStatic ELSE constructing
        /\ aborted' = (back /\ \/ pc[Main] = "generate"
                               \/ pc[Main] \in {"lock", "register"} /\ locked(constructing))
  /\ UNCHANGED <<linked, uninited, LAZY_INIT_ENSURED>>

Free(t) == t # Main \/ constructing = NoStatic

(* The access functions when global_inited_hint is not set, and those that *)
(* do not look at it: those of other statics, init and the primed ones.    *)
Unhinted(t) ==
  /\ Free(t)
  /\ \/ \E s \in linked :
          \/ (s \notin Lesser \/ ~LAZY_INIT_ENSURED) /\ Access(t, s)
          \/ \E q \in Calls[s] \cap (primed \cup {"init"}) : Call(t, s, q) /\ UNCHANGED node
     \/ Downgrade(t)
     \/ \E u \in Threads : Clone(u, t)
  /\ UNCHANGED lesserVars

(* Deref, get and try_get when global_inited_hint is set.                  *)
get_unchecked(t, s) ==
  /\ Free(t) /\ pc[t] = "idle"
  /\ s \in linked \cap Lesser /\ ~locked(s) /\ LAZY_INIT_ENSURED
  /\ pc' = [pc EXCEPT ![t] = "using"]
  /\ op' = [op EXCEPT ![t] = "get_unchecked"]
  /\ on' = [on EXCEPT ![t] = s]
  /\ UNCHANGED <<locker, data, finals, node, lesserVars>>

(* read, write, try_read and the like when global_inited_hint is set.      *)
lock_unchecked(t, s) ==
  /\ Free(t) /\ s \in linked \cap Lesser /\ locked(s) /\ LAZY_INIT_ENSURED
  /\ \E q \in ensured : Call(t, s, q)
  /\ UNCHANGED <<node, lesserVars>>

FinalizeLinked(t) ==
  /\ Free(t)
  /\ \E s \in linked : Finalize(t, s)
  /\ UNCHANGED lesserVars

(* A panic of finaly ends the process if it is reached at exit; the        *)
(* sequentializer does not depend on it.                                   *)
FinalyFails(t) == FinalyPanics(t) /\ UNCHANGED lesserVars

LesserNext ==
  /\ ~aborted
  /\ \/ mark_inited
     \/ \E s \in Lesser : lazy_init(s)
     \/ \E t \in Threads :
          \/ Step(t) \/ Unhinted(t) \/ FinalizeLinked(t) \/ FinalyFails(t)
          \/ \E s \in Lesser : get_unchecked(t, s) \/ lock_unchecked(t, s)

LesserSpec == LesserInit /\ [][LesserNext]_allVars
-----------------------------------------------------------------------------
(***************************************************************************)
(* Properties.                                                             *)
(***************************************************************************)

(* "If initialization failed, the program terminates before the            *)
(* global_inited_hint is set.  So if the global_initied_hint is set all    *)
(* LesserLazy are guaranteed to be initialized" (lazy.rs), although        *)
(* constructors and threads may have used and failed to initialize them    *)
(* before, and may be doing so while the hint is set.                      *)
HintSound ==
  LAZY_INIT_ENSURED => \A s \in linked \cap Lesser : "INITIALIZED" \in phase[s] /\ data[s] # "uninit"
=============================================================================
