CONSTANTS
  Requests <- WithAddons
  UserId <- User
  Payload <- Later
SPECIFICATION Spec
CHECK_DEADLOCK FALSE
INVARIANTS
  AddonsAreSkipped
