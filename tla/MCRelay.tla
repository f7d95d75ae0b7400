-------------------------------- MODULE MCRelay --------------------------------
(* Values for the constants of Relay: every kind, and connections that are   *)
(* alike.                                                                    *)
EXTENDS Relay, TLC

AllInbounds  == {"socks", "http", "vless"}
AllOutbounds == {"tcp", "socks", "http", "vless", "vless_tls"}
Alike        == Permutations(Conns)
=============================================================================
