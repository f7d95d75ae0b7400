CONSTANTS
  Texts <- Authorities
  Requests <- SocksRequests
  Number <- NumberOf
  Plain <- Digits
  Quad = "quad"
  V6 <- V6Texts
  Names <- Known
  MaxHops = 3
SPECIFICATION Spec
CHECK_DEADLOCK FALSE
INVARIANTS
  TargetIsKept
