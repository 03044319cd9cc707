------------------------- MODULE MCBehaviorStreams -------------------------
(* BehaviorStreams for TLC. *)
EXTENDS BehaviorStreams, TLC

Symmetry == Permutations(Socket) \union Permutations(Signal)
=============================================================================
