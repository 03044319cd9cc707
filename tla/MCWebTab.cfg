SPECIFICATION FairTabSpec
CONSTANTS
  s1 = s1
  s2 = s2
  Socket = {s1, s2}
  NoSocket = NoSocket
  MaxStray = 1
INVARIANTS
  NeverDeaf
PROPERTY
  CallersSettle
CHECK_DEADLOCK FALSE
