----------------------------- MODULE MCAccount -----------------------------
(* Account for TLC, and the registration of institutes.  They share no      *)
(* state, so a behaviour is of one or of the other.  Pages and attempts are *)
(* named by the model values of users and requests: the permutations that   *)
(* do for the one do for the other.                                         *)
EXTENDS Account, Institutes, TLC

VARIABLE subject

Symmetry ==
  Permutations(User) \union Permutations(Secret) \union Permutations(Request)

MCInit ==
  /\ Init /\ InstitutesInit
  /\ subject \in {"users", "institutes"}
  /\ subject = "institutes" => \A u \in User : commitment[u] = {}

MCNext ==
  /\ \/ subject = "users" /\ Next /\ UNCHANGED instituteVars
     \/ subject = "institutes" /\ InstitutesNext /\ UNCHANGED vars
  /\ UNCHANGED subject

MCSpec == MCInit /\ [][MCNext]_<<vars, instituteVars, subject>>
=============================================================================
