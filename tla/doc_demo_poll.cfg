SPECIFICATION Spec
CONSTANTS
  Orders = {o1, o2}
  Shopper = alice
  Visitor = bob
  Anonymous = anonymous
  DemoUser = demoUser
  Users <- MCUsers
  Routes <- MCDemoRoutes
  MaxWrites = 1
  MaxFaults = 1
INVARIANT DemoIsPollable
CHECK_DEADLOCK FALSE
