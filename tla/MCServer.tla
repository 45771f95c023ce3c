------------------------------ MODULE MCServer ------------------------------
(* Model values for the run of Server. *)
EXTENDS Server
=============================================================================
