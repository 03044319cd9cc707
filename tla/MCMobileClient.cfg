SPECIFICATION MobileSpec
CONSTANTS
  c1 = c1
  c2 = c2
  c3 = c3
  c4 = c4
  c5 = c5
  Call = {c1, c2, c3, c4, c5}
  MaxSession = 3
SYMMETRY CallsAlike
INVARIANTS
  NoReplayWithoutCrash
  NeverDeaf
CHECK_DEADLOCK FALSE
