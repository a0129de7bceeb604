---------------------- MODULE MCJetStreamSubscription ----------------------
(***************************************************************************)
(* Small instances of JetStreamSubscription for TLC.                       *)
(***************************************************************************)
EXTENDS JetStreamSubscription, TLC

Symmetry == Permutations(Subject) \cup Permutations(Sink) \cup Permutations(MaxInFlight)

=============================================================================
