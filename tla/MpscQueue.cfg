SPECIFICATION FairSpec
CONSTANTS
  p1 = p1
  p2 = p2
  p3 = p3
  Producers <- ThreeProducers
  Capacity = 2
  MaxCalls = 2
INVARIANTS TypeOK NoWakeUpLost DrainedWhenDone NothingLost
PROPERTIES PushReturns ConsumerStops
CHECK_DEADLOCK FALSE
