SPECIFICATION MCSpec
CONSTANTS
  User = {u1, u2}
  Challenge = {c1}
  Request = {r1, r2, r3}
  Hit = {h1, h2, h3}
  Limit = 2
SYMMETRY Symmetry
INVARIANTS
  EachGatePassesOne
  GrantIsDurable
  LoginRecordsBeforeConsuming
  StoresAgree
  RecordedProofCounts
  WindowsAreFair
PROPERTY ImplementsOneTimeProof
CHECK_DEADLOCK FALSE
