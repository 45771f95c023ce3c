--------------------------- MODULE MCReplayCursor ---------------------------
(* The runs of ReplayCursor. *)
EXTENDS ReplayCursor
=============================================================================
