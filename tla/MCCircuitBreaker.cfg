SPECIFICATION LiveSpec
CONSTANTS
  Call = {c1, c2, c3, c4, c5}
  OpenThreshold = 2
INVARIANTS
  TripsOnThreshold
  OneProbeAtATime
PROPERTY CallsSettle
CHECK_DEADLOCK FALSE
