SPECIFICATION Spec
CONSTANTS
  Others = Others
  NoOrder = NoOrder
  Prices = {1, 3}
  Quantities = {1, 2}
  MaxOrders = 2
  MaxTrades = 3
  MaxReceipts = 3
INVARIANT ReportAsDocumented
CHECK_DEADLOCK FALSE
