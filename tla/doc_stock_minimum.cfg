SPECIFICATION Spec
CONSTANTS
  Orders = {o1, o2}
  Products = {p1}
  OrderWorkers = {w1}
  StockWorkers = {s1}
  PaymentWorkers = {g1}
  PaymentIds = {r1, r2}
  Redeliveries = 0
  Losses = 0
  Throws = 0
  OneLine = TRUE
  Quantities = {1}
  StockLevel = 1
  Operators = {}
  StockLevels = {0}
  Users <- DemoUsers
  ItemLists <- MCItemLists
  MaxFaults <- MCMaxFaults
  InitialStock <- MCInitialStock
INVARIANT StockNeverNegative
CHECK_DEADLOCK FALSE
