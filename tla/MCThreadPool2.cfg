CONSTANTS
  NWorkers = 2
  Posters = {p1, p2}
  Owner = owner
  Tasks = {x1, x2}
  NULL = NULL
  Junk = Junk
SPECIFICATION FairSpec
INVARIANTS
  TasksAreKept
  MemoryOutlivesUsers
  StrandedOnlyIfMissed
PROPERTIES
  NoRunAfterTerminate
  EverybodyGetsOn
CHECK_DEADLOCK FALSE
