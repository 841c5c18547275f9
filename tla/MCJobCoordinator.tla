-------------------------- MODULE MCJobCoordinator --------------------------
(***************************************************************************)
(* Small instances of JobCoordinator for TLC.                              *)
(***************************************************************************)
EXTENDS JobCoordinator, TLC

(* Job ids are compared only for equality.  Not for liveness.              *)
Symmetry == Permutations(Jobs)
=============================================================================
