SPECIFICATION Spec
CONSTANTS
  Orders = {o1, o2}
  Products = {p1}
  OrderWorkers = {w1, w2}
  StockWorkers = {s1, s2}
  PaymentWorkers = {g1}
  PaymentIds = {r1, r2}
  Redeliveries = 0
  Losses = 1
  Throws = 1
  OneLine = FALSE
  Quantities = {1, 2}
  StockLevel = 1
  Operators = {a1}
  StockLevels = {0}
  Users <- DemoUsers
  ItemLists <- MCItemLists
  MaxFaults <- MCMaxFaults
  InitialStock <- MCInitialStock
SYMMETRY Sym
INVARIANTS
  AtMostOnce
  SettledOutcome
  OversoldByTwo
  LossesStrand
PROPERTIES
  OutcomeIsFinal
  SagaAdvances
  KeepsContract
CHECK_DEADLOCK FALSE
