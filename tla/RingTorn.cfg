SPECIFICATION Spec
CONSTANTS
  l1 = l1
  l2 = l2
  y1 = y1
  y2 = y2
  Torn = Torn
  NoItem = NoItem
  Lossless <- None
  Lossy <- OneLossy
  Capacity = 2
  Gated = FALSE
  MaxSeq = 4
INVARIANT LossyDeliversIntact
CHECK_DEADLOCK FALSE
