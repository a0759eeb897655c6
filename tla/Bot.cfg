SPECIFICATION FairSpec
CONSTANTS
  b1 = b1
  b2 = b2
  NoOrder = NoOrder
  Bots = {b1, b2}
  Views = {b1}
  Sources <- SourcesOf
  HeaderSize = 2
  PayloadSize = 1
  Buffer = 3
  IdModulus = 3
  MaxAttempts = 2
  MaxMade = 2
  MaxServerStops = 1
INVARIANTS TypeOK OrderFate DeadOnceTorn SocketsOutliveThreads
PROPERTY BotStops
CHECK_DEADLOCK FALSE
