CONSTANTS
  Elements = {"a", "b", "a2", "d"}
  Namesakes = {"a", "a2"}
  MaxRemovals = 2
SPECIFICATION Spec
INVARIANTS
  RemovesAllPairs
CHECK_DEADLOCK FALSE
