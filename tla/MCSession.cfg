SPECIFICATION Spec
CONSTANTS
  Session = {s1, s2}
  Request = {r1, r2, r3}
SYMMETRY Symmetry
INVARIANTS
  RevocationIsDurable
  RotationReplaces
CHECK_DEADLOCK FALSE
