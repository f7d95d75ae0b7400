CONSTANTS
  Roles = {"client", "server"}
  MaxUp = 6
  MaxDown = 2
  MaxSilent = 1
  WireCap = 2
  SessCap = 3
SPECIFICATION FairSpec
CHECK_DEADLOCK FALSE
INVARIANTS
  TypeOK
  StallsOnlyAfterSilence
  CloseLosesNothing
  SpinsOnlyWhenHeldBack
  EndIsNotified
PROPERTIES
  ImplementsByteStreams
  CloseGoesOut
