SPECIFICATION FairSpec
CONSTANTS
  Orders = {o1, o2}
  Shopper = alice
  Visitor = bob
  Anonymous = anonymous
  DemoUser = demoUser
  Users <- MCUsers
  Routes <- MCRoutes
  MaxWrites = 1
  MaxFaults = 1
INVARIANTS
  TypeOK
  OneEffect
  OwnOrdersOnly
  ReadsCatchUp
PROPERTIES
  EveryCallAnswered
  PollingEnds
CHECK_DEADLOCK FALSE
