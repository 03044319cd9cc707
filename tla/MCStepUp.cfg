SPECIFICATION MCSpec
CONSTANTS
  p1 = p1
  p2 = p2
  a1 = a1
  a2 = a2
  r1 = r1
  i1 = i1
  i2 = i2
  i3 = i3
  Score = {p1, p2}
  Attempt = {a1, a2}
  Revocation = {r1}
  Interval = {i1, i2, i3}
  MaxDelayed = 2
  MaxBegun = 4
INVARIANTS
  HighScoreIsGated
  ResolutionClearsBoth
  MonitorIsHonest
PROPERTY
  ModalLeaves
CHECK_DEADLOCK FALSE
