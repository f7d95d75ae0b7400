CONSTANTS
  Requests <- AllRequests
  UserId <- User
  Payload <- Later
SPECIFICATION FairSpec
CHECK_DEADLOCK FALSE
INVARIANTS
  RoundTrip
  PayloadIntact
PROPERTIES
  Decided
