SPECIFICATION Spec
CONSTANTS
  w1 = w1
  w2 = w2
  reader = reader
  t1 = t1
  t2 = t2
  t3 = t3
  Client <- AllClients
  Thread <- AllThreads
  ThreadOf <- OneEach
  ReadOnly <- OnlyReader
  Loaded = 1
  COMPACTION_CYCLE = 2
  PreemptedBegins = TRUE
  Recycle <- Never
  Reuse <- Never
  MaxVertex = 1
  MaxBlock = 3
  MaxTxn <- Once
  MaxOp <- Once
  MaxCompact = 1
SYMMETRY Renamings
CHECK_DEADLOCK FALSE
INVARIANTS ReadersKeepVersions
