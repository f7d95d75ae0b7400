CONSTANTS
  Conns = {c1, c2}
  Inbounds = {"socks", "http"}
  Outbounds = {"tcp", "http", "vless", "vless_tls"}
  MaxAddrs = 2
  MaxSockets = 3
  MaxRejects = 0
SPECIFICATION FairSpec
CHECK_DEADLOCK FALSE
PROPERTIES
  Accepted
  ConnectDecided
