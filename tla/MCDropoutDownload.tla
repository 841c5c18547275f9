------------------------- MODULE MCDropoutDownload -------------------------
(***************************************************************************)
(* Three listings for two slots: the first two share one.                  *)
(***************************************************************************)
EXTENDS DropoutDownload, TLC

MCDest == (1 :> 1) @@ (2 :> 1) @@ (3 :> 2)
=============================================================================
