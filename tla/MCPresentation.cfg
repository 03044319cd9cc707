SPECIFICATION Spec
CONSTANTS
  DEPTH = 2
  MaxValue = 1
  degree = degree
  govId = govId
  r1 = r1
  c1 = c1
  c2 = c2
  Type = {degree}
  GovernmentID = govId
  Attributes <- MCAttributes
  Request = {r1}
  Claim = {c1, c2}
  Threshold = {1}
  MaxIssued = 2
INVARIANTS
  ClaimIsTrue
  DeadIsRefused
  RequestIsOneTime
  ProofsComplete
CHECK_DEADLOCK FALSE
