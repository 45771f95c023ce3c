------------------------- MODULE MCProtocolHandler -------------------------
(* Model values for the runs of ProtocolHandler. *)
EXTENDS ProtocolHandler

MCSymmetry == Permutations(Conns \ Watched) \cup Permutations(Tokens)
                \cup Permutations(Publishers) \cup Permutations(Topics)
=============================================================================
