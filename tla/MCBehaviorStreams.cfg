SPECIFICATION Spec
CONSTANTS
  Socket = {c1, c2, c3}
  Signal = {k1}
  MaxQueue = 1
  BatchSize = 2
  MaxSent = 3
SYMMETRY Symmetry
INVARIANTS
  RegistryIsLive
  NeverStuck
  InOrder
  TimersMatch
  ShutdownFlushes
CHECK_DEADLOCK FALSE
