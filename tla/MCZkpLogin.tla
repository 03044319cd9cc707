----------------------------- MODULE MCZkpLogin -----------------------------
(* ZkpLogin for TLC, a few requests racing on one challenge; and the rate   *)
(* limiter that is mounted before the same routes.  They share no state, so *)
(* a behaviour is of one or of the other.                                   *)
EXTENDS ZkpLogin, RateLimiter, TLC

VARIABLE subject

Symmetry ==
  Permutations(Request) \union Permutations(User)

MCInit == Init /\ LimiterInit /\ subject \in {"login", "limiter"}

MCNext ==
  /\ \/ subject = "login" /\ Next /\ UNCHANGED limiterVars
     \/ subject = "limiter" /\ LimiterNext /\ UNCHANGED vars
  /\ UNCHANGED subject

MCSpec == MCInit /\ [][MCNext]_<<vars, limiterVars, subject>>
=============================================================================
