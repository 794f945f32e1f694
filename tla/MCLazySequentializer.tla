------------------------ MODULE MCLazySequentializer ------------------------
(* Statics of every kind and tolerance for TLC.                            *)
EXTENDS LesserLazy, FiniteSets, TLC

Tol(i, r, a) == [INIT_FAILURE |-> i, FINAL_REGISTRATION_FAILURE |-> r, REG_ALWAYS |-> a]

(* Lazy statics: never finalized; finalized at exit, leak-tolerant; dropped*)
(* at exit, with the default tolerances and with try_init_once and leak;   *)
(* primed with try_init_once.  Lesser ones: finalized at exit, which always*)
(* succeeds in registering; with try_init_once, locked (lesser_lock) or    *)
(* not (lesser_once); primed and uninited at exit.                         *)
MCKind == [s \in Statics |->
  CASE s \in {"plain", "lesser_once", "lesser_lock"} -> "plain"
    [] s \in {"lesser", "leaky"} -> "finalize"
    [] s \in {"default", "once"} -> "drop"
    [] s = "prime" -> "prime"
    [] s = "lesser_prime" -> "prime_drop"]

MCTolerance == [s \in Statics |->
  CASE s = "lesser" -> Tol(TRUE, FALSE, TRUE)
    [] s = "leaky" -> Tol(TRUE, TRUE, FALSE)
    [] s = "once" -> Tol(FALSE, TRUE, FALSE)
    [] s \in {"lesser_once", "lesser_lock", "prime"} -> Tol(FALSE, FALSE, FALSE)
    [] OTHER -> Tol(TRUE, FALSE, FALSE)]

(* References to statics that are not mut, guards of the others.           *)
MCCalls == [s \in Statics |->
  CASE s \in {"plain", "lesser", "lesser_once"} -> {"init"}
    [] s \in {"prime", "lesser_prime"} -> primed \cup {"init_then_write_guard", "read_lock"}
    [] OTHER -> (initializing \ ({"init"} \cup primed))
                \cup {"read_lock", "write_lock", "fast_read_lock", "fast_write_lock"}]

(* A bound: the statics of one program.                                    *)
CONSTANT MaxLinked
FewLinked == Cardinality(linked) <= MaxLinked \/ linked \subseteq {"lesser", "lesser_lock"}

Symmetry == Permutations(Threads \ {Main})
=============================================================================
