CONSTANTS
  min_thr_num = 1
  Adders = {a1}
  Owner = owner
  Admin = admin
SPECIFICATION FairSpec
PROPERTIES
  DestoryReturns
CHECK_DEADLOCK FALSE
