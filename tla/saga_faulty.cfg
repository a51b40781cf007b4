SPECIFICATION Spec
CONSTANTS
  Orders = {o1}
  Products = {p1, p2}
  OrderWorkers = {w1, w2}
  StockWorkers = {s1, s2}
  PaymentWorkers = {g1, g2}
  PaymentIds = {r1, r2, r3}
  Redeliveries = 1
  Losses = 1
  Throws = 1
  OneLine = FALSE
  Quantities = {1}
  StockLevel = 1
  Operators = {}
  StockLevels = {0}
  Users <- AllUsers
  ItemLists <- MCItemLists
  MaxFaults <- MCMaxFaults
  InitialStock <- MCInitialStock
SYMMETRY Sym
INVARIANTS
  TypeOK
  NoOrphanEvent
  CompletedMeansPaidAndDeducted
  DeductOnlyAfterPayment
  PaidRowsAreCharged
  OncePerDelivery
  MoneyComesBack
  LossesStrand
CHECK_DEADLOCK FALSE
