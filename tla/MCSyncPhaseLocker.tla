-------------------------- MODULE MCSyncPhaseLocker --------------------------
(***************************************************************************)
(* Instances of SyncPhaseLocker for TLC: the clients are the operations of *)
(* the lazy sequentializer.                                                *)
(***************************************************************************)
EXTENDS SyncPhaseLocker, LazyRequests, TLC

MCHow == [q \in Requests |-> [p \in Phases |-> lock_nature(q, p, shall_init(TRUE, p))]]
MCOnWait == [q \in Requests |-> [p \in Phases |-> on_wake_nature(q, p, shall_init(TRUE, p))]]
MCHint == [q \in Requests |-> {"INITIALIZED"}]
MCTries == Requests \cap tries
MCUnlocks == [q \in Requests |-> leaves(q) \cap Phases]
MCConverts == [q \in Requests |-> converts(q) \cap Phases]

Symmetry == Permutations(Threads)
=============================================================================
