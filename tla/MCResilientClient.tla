------------------------- MODULE MCResilientClient -------------------------
(* The module of the run of ResilientClient; its model values are in the    *)
(* configuration.  No symmetry: the run checks liveness, and Connect and    *)
(* Dial choose among calls and links.                                       *)
EXTENDS ResilientClient
=============================================================================
