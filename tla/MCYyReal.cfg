CONSTANTS
  SafeDigits = 2
  Max64 = 103
  Half64 = 52
  MaxExp = 3
  LowExp = 5
  Numbers = {}
  Literals = {}
  WriteFlags = {}
  SigBits = 5
  ExpBits = 5
  LowDot = 2
  HighDot = 4
  Chunk = 2
  Half = 1
  Values = {}
SPECIFICATION Spec
INVARIANTS
  RealsAreJson
CHECK_DEADLOCK FALSE
