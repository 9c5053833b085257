CONSTANTS
  t1 = t1
  t2 = t2
  t3 = t3
  Thread <- TwoThreads
  Order = {1, 2}
  LARGE_BLOCK_THRESHOLD = 2
  FILE_TRUNC_SIZE = 5
  Capacity = 14
SPECIFICATION Spec
SYMMETRY Threads
INVARIANTS
  TypeOK
  SingleOwner
  NothingLeaked
CHECK_DEADLOCK FALSE
