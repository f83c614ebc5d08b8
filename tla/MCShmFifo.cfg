CONSTANTS
  Readers = {r1, r2}
  Writers = {w1, w2}
  Data = {d1, d2}
  Zero = Zero
  NULL = NULL
  blockNum = 2
  MaxKilled = 1
SPECIFICATION FairSpec
INVARIANTS
  RingAndSemaphoresAgree
  NobodyBeforeInit
PROPERTIES
  ImplementsFifo
  BlocksPass
CHECK_DEADLOCK FALSE
