SPECIFICATION Spec
CONSTANTS
  o1 = o1
  o2 = o2
  o3 = o3
  None = None
  NoPrice = NoPrice
  Ids <- ThreeOrders
  Prices = {1, 2}
  Quantities = {1, 2, 3}
  Types = {"GoodTillCancel", "FillAndKill", "FillOrKill", "Market"}
  Wrap = 16
INVARIANTS TypeOK IndexConsistent NotCrossedAtRest FillAndKillNeverRests MarketExhaustsOpposite TakerAccountedFor LevelDataExactUntilCollision FillOrKillFillsUntilCollision
PROPERTIES PriceTimePriority MatchingProgresses
SYMMETRY IdSymmetry
