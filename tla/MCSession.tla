------------------------------ MODULE MCSession ------------------------------
(* Model checking Session: a few requests racing on a few sessions. *)
EXTENDS Session, TLC

Symmetry == Permutations(Session) \union Permutations(Request)
=============================================================================
