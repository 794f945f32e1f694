---------------------------- MODULE LazyRequests ----------------------------
(***************************************************************************)
(* How the lazy sequentializer (src/src/lazy_sequentializer.rs) and the    *)
(* generic lazies (src/src/generic_lazy.rs) call their phase locker: for   *)
(* each operation, the closures that tell the locker what to take in a     *)
(* given phase and how to wait.                                            *)
(***************************************************************************)

(* "lock" is Sequentializer::lock with a closure that depends on the phase:*)
(* the interface allows it, the callers in the crate pass a constant one   *)
(* (read_lock, write_lock and their fast forms).                           *)
initializing == {"init", "init_then_read_guard", "init_then_write_guard",
                 "try_init_then_read_guard", "try_init_then_write_guard",
                 "primed_read", "primed_write"}

(* The accesses to a primed static, which give access to the primed value  *)
(* when they do not find the initialized one; and the accesses to a static *)
(* that LAZY_INIT_ENSURED says to be initialized already.                  *)
primed == {"primed_read", "primed_write",
           "primed_read_non_initializing", "primed_write_non_initializing"}
ensured == {"read_ensured", "write_ensured", "fast_read_ensured", "fast_write_ensured"}

tries == {"try_init_then_read_guard", "try_init_then_write_guard",
          "fast_read_lock", "fast_write_lock", "fast_read_ensured", "fast_write_ensured"}
Operations == initializing \cup tries \cup primed \cup ensured
              \cup {"read_lock", "write_lock", "lock", "finalize_callback"}

shall_init_always(INIT_FAILURE, p) == TRUE                     \* mutant: no look at the phase
shall_init_again(INIT_FAILURE, p) == "INITIALIZED" \notin p    \* mutant: forgets try_init_once

(* LazyPolicy::shall_init of the three checkers of lazy.rs, INIT_FAILURE   *)
(* being the tolerance of the generator.                                   *)
shall_init(INIT_FAILURE, p) == IF INIT_FAILURE THEN "INITIALIZED" \notin p ELSE p = {}

(* shall is the answer of shall_init in phase p.                           *)
lock_nature(q, p, shall) ==
  CASE q = "init" -> IF shall THEN "Write" ELSE "None"
    [] q \in {"init_then_read_guard", "try_init_then_read_guard", "primed_read", "lock"} ->
         IF shall THEN "Write" ELSE "Read"
    [] q \in {"init_then_write_guard", "try_init_then_write_guard",
              "write_lock", "fast_write_lock", "primed_write", "primed_write_non_initializing",
              "write_ensured", "fast_write_ensured"} -> "Write"
    [] q = "finalize_callback" -> IF "INITIALIZED" \in p THEN "Write" ELSE "None"
    [] q \in {"read_lock", "fast_read_lock", "primed_read_non_initializing",
              "read_ensured", "fast_read_ensured"} -> "Read"

on_wake_nature(q, p, shall) ==
  IF q \in {"init", "init_then_read_guard", "primed_read"} THEN "Read" ELSE lock_nature(q, p, shall)

(* The phases that an operation may leave behind when it holds the write   *)
(* guard: that of a finished initialization, or of a finalization.         *)
leaves(q) ==
  CASE q = "finalize_callback" -> {{"INITIALIZED", "FINALIZED"}}
    [] q \in {"read_lock", "fast_read_lock", "write_lock", "fast_write_lock"} -> {}
    [] OTHER -> {{"INITIALIZED"}}

converts(q) ==
  IF q \in {"init_then_read_guard", "try_init_then_read_guard"} THEN {{"INITIALIZED"}} ELSE {}
=============================================================================
