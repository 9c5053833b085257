SPECIFICATION Spec
CONSTANTS
  r1 = r1
  r2 = r2
  writer = writer
  Reader <- OneReader
  Slots = 5
  MaxVersion = 3
  RefillsOvertake = TRUE
INVARIANTS LatestAcquirable
