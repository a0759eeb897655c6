SPECIFICATION Spec
CONSTANTS
  c1 = c1
  c2 = c2
  c3 = c3
  NoClient = NoClient
  Clients <- ThreeClients
  MaxFrames = 1
  MaxStarts = 1
INVARIANTS ReapOnlyReclaims
CHECK_DEADLOCK FALSE
