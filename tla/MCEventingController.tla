----------------------- MODULE MCEventingController -----------------------
(***************************************************************************)
(* Small instances of EventingController for TLC.                          *)
(***************************************************************************)
EXTENDS EventingController, TLC

\* Configuration values and credentials are only compared with each other.
Symmetry == Permutations(Built) \cup Permutations(Creds)

=============================================================================
