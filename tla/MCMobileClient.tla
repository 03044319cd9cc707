--------------------------- MODULE MCMobileClient ---------------------------
(* MobileClient for TLC: five calls of any kind, three sessions.  The calls   *)
(* are interchangeable.                                                      *)
EXTENDS MobileClient, TLC

CONSTANTS c1, c2, c3, c4, c5

CallsAlike == Permutations(Call)
=============================================================================
