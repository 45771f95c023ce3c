------------------------------ MODULE MCClient ------------------------------
(* The run of Client. *)
EXTENDS Client
=============================================================================
