--------------------------- MODULE MCSessionHistory ---------------------------
(* Model checking SessionHistory: one device revokes another, and a request  *)
(* of the revoked one follows.                                               *)
EXTENDS SessionHistory, TLC
=============================================================================
