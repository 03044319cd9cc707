SPECIFICATION FairSpec
CONSTANTS
  t1 = t1
  t2 = t2
  t3 = t3
  s1 = s1
  s2 = s2
  Stream = {t1, t2, t3}
  Session = {s1, s2}
  SessionOf <- SessionOfStream
  Window = {w1, w2}
  NoWindow = NoWindow
  WindowSize = 2
  MaxWorkers = 2
  MaxEvents = 2
  MaxReaps = 1
INVARIANTS
  NothingLeaks
  UndisturbedUnlessShared
PROPERTY
  StreamsDrain
CHECK_DEADLOCK FALSE
