----------------------------- MODULE MCReactor -----------------------------
(* Model values for the runs of Reactor. *)
EXTENDS Reactor, TLC

MCSymmetry == Permutations(Registered)
                \cup Permutations(Conns \ Registered)
                \cup Permutations(Workers)
=============================================================================
