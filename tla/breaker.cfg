SPECIFICATION FairSpec
CONSTANTS
  Users <- MCUsers
  Buckets = 3
  ResetTicks = 3
  MaxFires = 3
INVARIANTS
  TypeOK
  RejectsOnlyAfterFailure
  OutageIsForgotten
PROPERTIES
  SparesGateway
  Recovers
