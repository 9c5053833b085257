CONSTANTS
  t1 = t1
  t2 = t2
  t3 = t3
  Thread <- ThreeThreads
  MaxCalls = 2
SPECIFICATION Spec
INVARIANTS
  TypeOK
  MutualExclusion
  NoLostWakeup
PROPERTY CallsReturn
CHECK_DEADLOCK FALSE
