CONSTANTS
  Threads = {t1, t2, t3}
  HasC11Atomics = TRUE
SPECIFICATION FairSpec
INVARIANTS
  MutualExclusion
PROPERTIES
  TryFailsOnlyOnHeldLock
  ImplementsMutex
  WaitersAreServed
