SPECIFICATION FairSpec
CONSTANTS
  r1 = r1
  r2 = r2
  writer = writer
  Reader <- TwoReaders
  Slots = 4
  MaxVersion = 2
  RefillsOvertake = FALSE
INVARIANTS TypeOK HeldAlive LatestAcquirable OldVersionsGoAway
PROPERTIES LockFree
