---------------------------- MODULE MCThreadExit ----------------------------
(* Thread-local statics for TLC.                                           *)
EXTENDS ThreadExit, TLC

(* Refs are finalized and handed out by reference; RefDrops are dropped    *)
(* and handed out by reference (#[dynamic(drop)] on a thread_local that is *)
(* not mut); the others are primed, locked and dropped.  CxaStatics are    *)
(* the statics of the program where it is built for cxa.                   *)
CONSTANTS Refs, RefDrops, CxaStatics

MCKind == [s \in Statics |->
  IF s \in Refs THEN "finalize" ELSE IF s \in RefDrops THEN "drop" ELSE "prime_drop"]

MCTolerance == [s \in Statics |->
  [INIT_FAILURE |-> TRUE, FINAL_REGISTRATION_FAILURE |-> FALSE, REG_ALWAYS |-> s \in CxaStatics]]

MCCalls == [s \in Statics |->
  IF s \in Refs \cup RefDrops THEN {"init"}
  ELSE {"primed_read", "primed_write_non_initializing", "try_init_then_write_guard"}]

(* A bound: calls nest deepest while the list is walked.                   *)
Shallow ==
  \A k \in Threads : pc[k] # "idle" =>
    k <= CASE stage = "walk" -> MaxDepth
           [] stage = "alive" -> 1
           [] OTHER -> base + 1

Symmetry == Permutations(Refs \ CxaStatics) \cup Permutations(Refs \cap CxaStatics)
=============================================================================
