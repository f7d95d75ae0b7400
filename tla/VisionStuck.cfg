CONSTANTS
  Roles = {"server"}
  MaxUp = 1
  MaxDown = 1
  MaxSilent = 1
  WireCap = 2
  SessCap = 2
SPECIFICATION FairSpec
CHECK_DEADLOCK FALSE
PROPERTIES
  CipherGoesToInner
