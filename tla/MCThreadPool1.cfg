CONSTANTS
  min_thr_num = 2
  Adders = {a1, a2}
  Owner = owner
  Admin = admin
SPECIFICATION FairSpec
INVARIANTS
  LockExcludes
  FreedAfterThreads
PROPERTIES
  DestoryReturnsUnlessMissed
CHECK_DEADLOCK FALSE
