SPECIFICATION FairSpec
CONSTANTS
  l1 = l1
  l2 = l2
  y1 = y1
  y2 = y2
  Torn = Torn
  NoItem = NoItem
  Lossless <- TwoLossless
  Lossy <- OneLossy
  Capacity = 2
  Gated = TRUE
  MaxSeq = 4
INVARIANTS TypeOK LosslessBacklogIntact
PROPERTIES LosslessInOrder EveryItemReceived
CHECK_DEADLOCK FALSE
