CONSTANTS
  AddonsLens <- SmallAddons
  BufCap = 4
  Reserve = 2
  MaxRoom = 3
  MaxChunk = 3
  MaxWire = 9
SPECIFICATION FairSpec
CHECK_DEADLOCK FALSE
INVARIANTS
  TypeOK
  EofAfterPayload
PROPERTIES
  EndIsReported
  NoEmptyRead
  ImplementsByteStream
