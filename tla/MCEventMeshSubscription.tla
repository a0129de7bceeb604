---------------------- MODULE MCEventMeshSubscription ----------------------
(***************************************************************************)
(* Small instances of EventMeshSubscription for TLC.                       *)
(***************************************************************************)
EXTENDS EventMeshSubscription, TLC

Symmetry == Permutations(Sub) \cup Permutations(Service) \cup Permutations(EventTypes)

=============================================================================
