---------------------------- MODULE MCTargetAddr ----------------------------
(* Authorities for TLC: each kind of host, with and without user            *)
(* information, with and without a port, and ports at the edges of u16, with *)
(* a sign, with a leading zero, and not a number at all.  "1" is a piece of  *)
(* an IPv6 address and a port.                                              *)
EXTENDS TargetAddr

NumberOf == "0" :> 0 @@ "1" :> 1 @@ "80" :> 80 @@ "080" :> 80 @@ "+80" :> 80
              @@ "65535" :> 65535 @@ "65536" :> 65536
Digits   == DOMAIN NumberOf \ {"+80"}
V6Texts  == {<<":", ":">>, <<":", ":", "1">>}
Known    == {<<"host">>}

Hosts    == {<<"host">>, <<"nohost">>, <<"quad">>} \cup
            {<<"[">> \o h \o <<"]">> : h \in V6Texts \cup {<<"host">>, <<":", ":", "nohost">>}}
UserInfo == {<<>>, <<"user@">>, <<"user", ":", "secret@">>}
PortPart == {<<>>, <<":">>, <<":", "x">>} \cup {<<":", p>> : p \in DOMAIN NumberOf}
Authorities == {u \o h \o p : u \in UserInfo, h \in Hosts, p \in PortPart}

SocksRequests ==
  {[kind |-> "Ip", host |-> h, port |-> p] : h \in Addresses, p \in {0, 80, 65535}} \cup
  {[kind |-> "Domain", host |-> h, port |-> p] :
     h \in {<<>>, <<"host">>, <<"nohost">>, <<"quad">>, <<":", ":", "1">>}, p \in {0, 80, 65535}}
=============================================================================
