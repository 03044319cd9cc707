--------------------------- MODULE MCVerifyRequests ---------------------------
(* VerifyRequests for TLC, three decisions from a device that may reload    *)
(* while one is under way, and one watcher; and the verifier's page.  The   *)
(* page never gets to watch a request, so they meet nowhere, and a          *)
(* behaviour is of one or of the other.                                     *)
EXTENDS VerifyRequests, VerifierPage

CONSTANTS c1, c2, c3, v1, w1, q1, q2

VARIABLE subject

MCInit == Init /\ VerifierInit /\ subject \in {"request", "page"}

MCNext ==
  /\ \/ subject = "request" /\ Next /\ UNCHANGED pageVars
     \/ subject = "page" /\ VerifierNext /\ UNCHANGED vars
  /\ UNCHANGED subject

MCSpec ==
  /\ MCInit /\ [][MCNext]_<<vars, pageVars, subject>>
  /\ Fairness
=============================================================================
