SPECIFICATION Spec
CONSTANTS
  Others = Others
  NoOrder = NoOrder
  Prices = {1, 3}
  Quantities = {1, 2}
  MaxOrders = 2
  MaxTrades = 2
  MaxReceipts = 4
INVARIANTS FillsGivePosition ReportBalances
CHECK_DEADLOCK FALSE
