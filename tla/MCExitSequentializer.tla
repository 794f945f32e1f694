------------------------ MODULE MCExitSequentializer ------------------------
(* Instances of ExitSequentializer for TLC.                                *)
EXTENDS ExitSequentializer

(* The default tolerances.                                                 *)
MCTolerance == [s \in Statics |->
  [INIT_FAILURE |-> TRUE, FINAL_REGISTRATION_FAILURE |-> FALSE, REG_ALWAYS |-> FALSE]]

(* Dropped statics, which are locked.                                      *)
DropKind == [s \in Statics |-> "drop"]
DropCalls == [s \in Statics |-> {"init_then_read_guard"}]
=============================================================================
