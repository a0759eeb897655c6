SPECIFICATION FairSpec
CONSTANTS
  c1 = c1
  c2 = c2
  empty = empty
  quoted = quoted
  NoTop = NoTop
  TornTop = TornTop
  NoSymbol = NoSymbol
  Symbols = {0, 1, 2}
  Hash <- IdentityHash
  ShardCount = 2
  Connections <- TwoConnections
  Tops <- TwoTops
  EmptyTop = empty
  QueueCapacity = 1
  InboundCapacity = 1
  OutboundCapacity = 2
  MaxOrders = 3
  MaxStarts = 2
INVARIANTS TypeOK ShutdownLosesNothing QuotesAfterStop
PROPERTIES ExchangeSpec EveryOrderProcessed StopEnds
CHECK_DEADLOCK FALSE
