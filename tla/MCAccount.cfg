SPECIFICATION MCSpec
CONSTANTS
  User = {u1, u2}
  Secret = {a, b, c}
  Request = {r1, r2, r3}
  Page = {u1, u2}
  Attempt = {r1, r2, r3}
  Name = {n1}
  Suffix = {x}
  Email = {e1, e2}
SYMMETRY Symmetry
INVARIANTS
  OneAccountPerSecret
  PendingIffBurned
  SpentCodeYieldsNothing
  RecoveryEndsSessions
  IdentityIsOwned
CHECK_DEADLOCK FALSE
