CONSTANTS
  MaxBytes <- TwoEach
  WireCap = 2
  SessCap = 1
SPECIFICATION FairSpec
CHECK_DEADLOCK FALSE
INVARIANTS
  TypeOK
  EofHidesNothing
  CleanEndIsComplete
  FailsOnlyAfterClose
  StallsOnlyWhenSaturated
PROPERTIES
  ImplementsByteStreams
  EndArrives
  RefusalArrives
