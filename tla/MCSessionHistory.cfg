SPECIFICATION SpecH
CONSTANTS
  Session = {s1, s2}
  Request = {r1, r2}
INVARIANT RevokedIsRefused
CHECK_DEADLOCK FALSE
