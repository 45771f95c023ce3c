---------------------------- MODULE MCBalancers ----------------------------
(***************************************************************************)
(* Instances of Balancers.  There is no symmetry over the backends: their  *)
(* order in the list decides, and TLC gains little from it.                *)
(***************************************************************************)
EXTENDS Balancers, TLC
=============================================================================
