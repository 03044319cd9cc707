---------------------------- MODULE OneTimeProof ----------------------------
(***************************************************************************)
(* What the verification endpoints promise about proofs, and nothing about *)
(* how: each request that carries a proof is eventually decided at most    *)
(* once, and of all the requests that answer the same challenge at most    *)
(* one is accepted ("Nonce is single-use", challenge.service.ts header;    *)
(* "Once recorded, the same nullifier MUST NEVER be accepted again",       *)
(* nullifier.service.ts header).                                           *)
(***************************************************************************)

CONSTANTS
  Request,        \* the HTTP requests that submit a proof
  Challenge       \* the challenges the server issues

VARIABLES
  answers,        \* answers[r]: the challenge request r answers
  decision        \* decision[r]: what the server decided about r

vars == <<answers, decision>>

TypeOK ==
  /\ answers \in [Request -> Challenge]
  /\ decision \in [Request -> {"undecided", "accepted", "refused"}]

Init ==
  /\ answers \in [Request -> Challenge]
  /\ decision = [r \in Request |-> "undecided"]

(* The one way to be accepted: nobody was, for this challenge. *)
Accept(r) ==
  /\ decision[r] = "undecided"
  /\ \A q \in Request : answers[q] = answers[r] => decision[q] # "accepted"
  /\ decision' = [decision EXCEPT ![r] = "accepted"]
  /\ UNCHANGED answers

(* A request may be refused, or die with the process serving it, at any time. *)
Refuse(r) ==
  /\ decision[r] = "undecided"
  /\ decision' = [decision EXCEPT ![r] = "refused"]
  /\ UNCHANGED answers

Next == \E r \in Request : Accept(r) \/ Refuse(r)

Spec == Init /\ [][Next]_vars
=============================================================================
