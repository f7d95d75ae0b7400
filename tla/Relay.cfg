CONSTANTS
  Conns = {c1, c2}
  Inbounds <- AllInbounds
  Outbounds <- AllOutbounds
  MaxAddrs = 2
  MaxSockets = 3
  MaxRejects = 1
SPECIFICATION Spec
SYMMETRY Alike
CHECK_DEADLOCK FALSE
INVARIANTS
  TypeOK
  AnsweredOnce
  SocksAnswerIsTrue
  SocketsAccounted
  FirstThatAnswers
  
