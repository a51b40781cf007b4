SPECIFICATION FairSpec
CONSTANTS
  Orders = {o1}
  Products = {p1}
  OrderWorkers = {w1, w2}
  StockWorkers = {s1, s2}
  PaymentWorkers = {g1, g2}
  PaymentIds = {r1, r2}
  Redeliveries = 1
  Losses = 0
  Throws = 0
  OneLine = FALSE
  Quantities = {1}
  StockLevel = 1
  Operators = {}
  StockLevels = {0}
  Users <- AllUsers
  ItemLists <- MCItemLists
  MaxFaults <- MCMaxFaults
  InitialStock <- MCInitialStock
PROPERTIES
  EveryOrderSettles
  FulfilsContract
CHECK_DEADLOCK FALSE
