CONSTANTS
  c1 = c1
  c2 = c2
  Listener = listener
  Clients = {c1, c2}
  Scripts <- MCScripts
  Uris = {"status"}
  MaxRecvSize = 5
  IoSize = 4
  MayLeave = {c1}
SPECIFICATION FairSpec
INVARIANTS
  DeliveredInOrder
  AnsweredInOrder
PROPERTIES
  DroppedForCause
  RequestsEnd
CHECK_DEADLOCK FALSE
