SPECIFICATION FairSpec
CONSTANTS
  c1 = c1
  c2 = c2
  c3 = c3
  NoClient = NoClient
  Clients <- ThreeClients
  MaxFrames = 1
  MaxStarts = 2
INVARIANTS TypeOK ThreadsOwned QuietWhenStopped
PROPERTIES StopEnds
CHECK_DEADLOCK FALSE
