CONSTANTS
  Peers <- AllPeers
  IdLen = 2
  MaxFrame = 2
  MaxWrite = 3
  TempBuf = 4
  MaxRoom = 2
  LongThreshold = 1
  LongBase = 2
  LongPad = 0
  ShortPad = 1
  AppDataMin = 1
  HandshakeMin = 2
  HelloFixed = 2
  HelloSuite = 3
  SniffMax = 4
  SessionIdLens <- NoSid
  Classes <- FrameClasses
  MaxWire = 12
SPECIFICATION FairSpec
CHECK_DEADLOCK FALSE
INVARIANTS
  TypeOK
  SwitchInSync
  NothingWithheld
  EofComplete
PROPERTIES
  NoSpuriousEof
  ImplementsByteStream
  ReachesEof
