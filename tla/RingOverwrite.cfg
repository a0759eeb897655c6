SPECIFICATION FairReadersSpec
CONSTANTS
  l1 = l1
  l2 = l2
  y1 = y1
  y2 = y2
  Torn = Torn
  NoItem = NoItem
  Lossless <- None
  Lossy <- TwoLossy
  Capacity = 2
  Gated = FALSE
  MaxSeq = 4
INVARIANTS Accounting
PROPERTIES LogSpec EveryReaderDrains
CHECK_DEADLOCK FALSE
