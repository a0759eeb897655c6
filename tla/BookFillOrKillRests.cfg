SPECIFICATION Spec
CONSTANTS
  o1 = o1
  o2 = o2
  o3 = o3
  None = None
  NoPrice = NoPrice
  Ids <- ThreeOrders
  Prices = {1, 2}
  Quantities = {1, 2}
  Types = {"GoodTillCancel", "FillOrKill"}
  Wrap = 16
INVARIANT FillOrKillNeverRests
SYMMETRY IdSymmetry
