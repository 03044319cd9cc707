--------------------------- MODULE MCPresentation ---------------------------
(* Presentation for TLC: trees of four leaves, credentials with one or three *)
(* attributes, two credentials, one proof request and two claims.            *)
EXTENDS Presentation

CONSTANTS degree, govId, r1, c1, c2

MCAttributes == {<<0, 0, 1>>, <<0>>}
=============================================================================
