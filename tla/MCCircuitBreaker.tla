-------------------------- MODULE MCCircuitBreaker --------------------------
(* Model checking CircuitBreaker: enough calls to trip the circuit twice,   *)
(* with one more still running from before.                                 *)
EXTENDS CircuitBreaker, TLC

Symmetry == Permutations(Call)
=============================================================================
