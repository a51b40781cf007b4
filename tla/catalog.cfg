SPECIFICATION RacesSpec
CONSTANTS
  Products = {p1, p2}
  Listed = {p1}
  Workers = {w1, w2}
  MaxRequests = 4
  MaxThrows = 1
  Dtos <- MCDtos
  NewRows <- MCNewRows
  InitialRows <- MCInitialRows
INVARIANTS
  TypeOK
  FreshUnlessExposed
  StockAccounted
PROPERTIES
  RemovedStaysRemoved
  CacheConverges
CHECK_DEADLOCK FALSE
