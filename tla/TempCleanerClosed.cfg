SPECIFICATION CleanSpec
CONSTANTS
  Holders = {p1, p2}
  ShmNames = {shm1, shm2}
  MaxNumber = 2
  MaxInode = 2
PROPERTIES RemovesClosed
CHECK_DEADLOCK FALSE
