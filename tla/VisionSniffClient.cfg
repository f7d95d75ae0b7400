CONSTANTS
  Peers <- ClientOnly
  IdLen = 2
  MaxFrame = 3
  MaxWrite = 3
  TempBuf = 4
  MaxRoom = 2
  LongThreshold = 1
  LongBase = 1
  LongPad = 1
  ShortPad = 1
  AppDataMin = 1
  HandshakeMin = 2
  HelloFixed = 2
  HelloSuite = 3
  SniffMax = 4
  SessionIdLens <- NoSid
  Classes <- FrameClasses
  MaxWire = 12
SPECIFICATION Spec
CHECK_DEADLOCK FALSE
INVARIANTS
  NoDirectCopyWithCcm8
