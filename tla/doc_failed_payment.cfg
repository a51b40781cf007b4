SPECIFICATION Spec
CONSTANTS
  Orders = {o1}
  Products = {p1}
  OrderWorkers = {w1}
  StockWorkers = {s1}
  PaymentWorkers = {g1}
  PaymentIds = {r1}
  Redeliveries = 0
  Losses = 0
  Throws = 0
  OneLine = FALSE
  Quantities = {1}
  StockLevel = 2
  Operators = {}
  StockLevels = {0}
  Users <- DemoUsers
  ItemLists <- MCItemLists
  MaxFaults <- MCMaxFaults
  InitialStock <- MCInitialStock
INVARIANT FailedPaymentIsUndone
CHECK_DEADLOCK FALSE
