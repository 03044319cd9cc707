------------------------------ MODULE MCStepUp ------------------------------
(* StepUp for TLC: two scores, either of which may be a call of the         *)
(* development endpoint, two attempts to re-authenticate and a revocation,  *)
(* of which MaxBegun take place in a behaviour; and the monitor that        *)
(* demonstrates it.  The monitor takes scores and answers as they come, so  *)
(* a behaviour is of one or of the other.                                   *)
EXTENDS StepUp, BehaviorDemo

CONSTANTS p1, p2, a1, a2, r1, i1, i2, i3, MaxBegun

VARIABLE subject

Begun ==
  {p \in Score : score[p] # "idle"} \union {a \in Attempt : attempt[a] # "idle"}
    \union {r \in Revocation : revocation[r] # "idle"}

MCInit == Init /\ DemoInit /\ subject \in {"step-up", "monitor"}

MCNext ==
  /\ \/ subject = "step-up" /\ Next /\ Cardinality(Begun') <= MaxBegun /\ UNCHANGED demoVars
     \/ subject = "monitor" /\ DemoNext /\ UNCHANGED vars
  /\ UNCHANGED subject

MCSpec ==
  /\ MCInit /\ [][MCNext]_<<vars, demoVars, subject>>
  /\ Fairness
=============================================================================
