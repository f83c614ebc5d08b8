CONSTANTS
  Procs = {c1, p, q}
  Creator = c1
  MaxSegs = 2
  NULL = NULL
  BAD = BAD
  Threads = {t1, t2}
  Blocks = {b1, b2}
  Sizes = {1, 2}
  MaxTotal = 4
  MaxMisuses = 2
  NONE = NONE
  TORN = TORN
  Keys = {1, 2, 3}
  Units <- MCUnits
  Sector = 6
  MaxSaves = 4
  MaxSize = 3
  MaxUpdates = 3
  MaxLosses = 2
  Drivers = {"imxrt1020", "same54", "stm32", "stm32h", "tm4c"}
  Count = 2
  Batch = 3
  Room = 2
  MaxIn = 3
  MaxOut = 2
SPECIFICATION Spec
INVARIANTS
  FramesGetThrough
  FirmwareBoots
  SegmentsAreCurrent
  LeaksAreNamed
PROPERTIES
  FlashSurvivesPowerFailures
CHECK_DEADLOCK FALSE
