SPECIFICATION Spec
CONSTANTS
  w1 = w1
  w2 = w2
  knows = knows
  likes = likes
  hates = hates
  d1 = d1
  d2 = d2
  Client <- TwoWriters
  ReadOnly <- NoClient
  Label <- TwoLabels
  Dst <- OneDst
  LoadedLabels <- LoadedTwo
  LoadedEdges <- Rewritten
  EntrySize = 240
  COMPACTION_CYCLE = 2
  Reverse <- Backwards
  MaxBlock = 5
  MaxOp = 2
  Budgets <- OneCompacts
CHECK_DEADLOCK FALSE
INVARIANTS ReadersKeepBlocks
