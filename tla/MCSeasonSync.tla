--------------------------- MODULE MCSeasonSync ---------------------------
(***************************************************************************)
(* Three videos, two of which share a title.                               *)
(***************************************************************************)
EXTENDS SeasonSync, TLC

CONSTANTS v1, v2, v3, shared, own

MCTitle == (v1 :> shared) @@ (v2 :> shared) @@ (v3 :> own)
Symmetry == Permutations({v1, v2})
=============================================================================
