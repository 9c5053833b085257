SPECIFICATION Spec
CONSTANTS
  x1 = x1
  x2 = x2
  reader = reader
  h1 = h1
  h2 = h2
  h3 = h3
  merger = merger
  None = None
  Loader = Loader
  Txn <- AllTxns
  ReadOnly <- OneReader
  Thread <- AllThreads
  ThreadOf <- OneEach
  Background <- Merger
  Vertex <- TwoVertices
  LoadedVertices <- TwoVertices
  LoadedEdges <- BothWays
  MAX_UNDO_LENGTH = 2
  PreemptedBegins = FALSE
  PreemptedCommits = FALSE
  MaxOp <- EachOnce
  MaxRefresh = 1
  Target <- Targets
  Unended <- OneReader
SYMMETRY Renamings
CHECK_DEADLOCK FALSE
INVARIANTS TypeOK SnapshotReads NoLostUpdate OwnersCounted EdgesPaired
