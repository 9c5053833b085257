SPECIFICATION FairSpec
CONSTANTS
  w1 = w1
  w2 = w2
  reader = reader
  t1 = t1
  t2 = t2
  t3 = t3
  Client <- Writers
  Thread <- TwoThreads
  ThreadOf <- WritersOnly
  ReadOnly <- NoClient
  Loaded = 1
  COMPACTION_CYCLE = 10
  PreemptedBegins = FALSE
  Recycle <- Always
  Reuse <- Always
  MaxVertex = 1
  MaxBlock = 3
  MaxTxn <- FirstTwice
  MaxOp <- FirstTwice
  MaxCompact = 0
CHECK_DEADLOCK FALSE
INVARIANTS ReadsYourWrites VersionsNewestFirst
PROPERTIES CallsReturn
