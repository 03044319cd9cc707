SPECIFICATION MCSpec
CONSTANTS
  c1 = c1
  c2 = c2
  c3 = c3
  v1 = v1
  w1 = w1
  q1 = q1
  q2 = q2
  Decision = {c1, c2, c3}
  Device = {v1}
  Watcher = {w1}
  ProofRequest = {q1, q2}
  NoRequest = NoRequest
  MaxFetches = 2
INVARIANTS
  DecisionsStand
  GrantIsOfThisRequest
PROPERTY
  CardUnlocks
CHECK_DEADLOCK FALSE
