CONSTANTS
  Threads = {t1, t2, t3}
  Tasks = {x1, x2, x3}
  NULL = NULL
  HEAD = HEAD
  Clients = {c1, c2}
  Fds = {f1, f2}
  ReactorFds = {f1}
  MaxSent = 3
  BUFFER_LENGTH = 2
  MAX_BUFFER_SIZE = 2
  Service = service
  MaxRounds <- MCMaxRounds
  MayFree <- MCMayFree
  Room = 2
SPECIFICATION FairServers
INVARIANTS
  ListSpellsQueue
  EachTaskOnce
  RepliesAreTrue
PROPERTIES
  ImplementsFifo
  EverythingComesBack
CHECK_DEADLOCK FALSE
