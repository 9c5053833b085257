SPECIFICATION Spec
CONSTANTS
  r1 = r1
  w1 = w1
  o1 = o1
  c1 = c1
  c2 = c2
  m1 = m1
  None = None
  Promise = Promise
  Reader <- OneReader
  Writer <- OneWriter
  Optimist <- OneOptimist
  Service <- TwoServices
  Merger <- OneMerger
  NumSegments = 3
  Full <- Ends
  MaxNest = 1
  Target <- Targets
  MaxCalls <- Once
SYMMETRY Renamings
CHECK_DEADLOCK FALSE
INVARIANTS TypeOK SoleAccess NobodyForgotten

