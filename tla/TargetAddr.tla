----------------------------- MODULE TargetAddr -----------------------------
(***************************************************************************)
(* What a request asks for, on its way through a chain of proxies.  The    *)
(* authority of a CONNECT, a text, or the address of a SOCKS5 request       *)
(* becomes a TargetAddr (util.rs); the HTTP outbound resolves it and prints *)
(* it into the CONNECT that the next proxy's HTTP inbound reads.            *)
(*                                                                         *)
(* A text is a sequence of tokens: ":", "[", "]", a number, a dotted quad,  *)
(* or any other piece of a name.                                            *)
(***************************************************************************)
EXTENDS Naturals, Sequences, FiniteSetsExt, TLC

CONSTANTS
  Texts,      \* authorities of CONNECT requests, as hyper lets them through
  Requests,   \* addresses of SOCKS5 requests, as fast_socks5 gives them
  Number,     \* [tokens u16::from_str takes for a number -> that number]
  Plain,      \* those of them that are digits only
  Quad,       \* the token that is a dotted quad
  V6,         \* the sequences of tokens that are IPv6 addresses
  Names,      \* the names the resolver knows
  MaxHops     \* proxies a request goes through (model bound)

VARIABLES
  asked,   \* what the client asked the first proxy for
  text,    \* the authority that the proxy being asked has to read
  target,  \* the TargetAddr it has read
  stage,   \* "read", "connect", "bad_request" or "unresolved"
  dialled  \* the sockets that the HTTP outbounds wrote in their CONNECTs

vars == <<asked, text, target, stage, dialled>>

Quads     == {<<Quad>>}
Addresses == Quads \cup V6
InRange   == {p \in DOMAIN Number : Number[p] < 2^16}

SocketAddr(h, p) == [kind |-> "socket", host |-> h, port |-> p]
Domain(h, p)     == [kind |-> "domain", host |-> h, port |-> p]
Error            == [kind |-> "error"]

-----------------------------------------------------------------------------
(* SocketAddr of std: Display, and the address a text stands for.  Its port *)
(* is digits that fit 16 bits.                                              *)
WithPort(h, p) == h \o <<":", p>>
Host(a)        == IF a \in V6 THEN <<"[">> \o a \o <<"]">> ELSE a
SocketText(a)  == WithPort(Host(a.host), ToString(a.port))
SocketAddrs(s) ==
  {SocketAddr(x[1], Number[x[2]]) : x \in
     {hp \in Addresses \X (Plain \cap InRange) : s = WithPort(Host(hp[1]), hp[2])}}

(* str::rfind, 0 for None. *)
RFind(s) == LET colons == {i \in DOMAIN s : s[i] = ":"} IN IF colons = {} THEN 0 ELSE Max(colons)

(* str::trim_start_matches(':') *)
TrimColons(s) ==
  LET rest == {i \in DOMAIN s : s[i] # ":"} IN IF rest = {} THEN <<>> ELSE SubSeq(s, Min(rest), Len(s))

(* The last colon splits name and port; the port must parse as a u16. *)
SplitAtColon(s) ==
  LET i    == RFind(s)
      port == TrimColons(SubSeq(s, i, Len(s)))
  IN IF i # 0 /\ Len(port) = 1 /\ port[1] \in InRange
     THEN Domain(SubSeq(s, 1, i - 1), Number[port[1]]) ELSE Error

(* Mutant of FromStr: a socket address is not tried first. *)
MFromStr(s) == SplitAtColon(s)

FromStr(s) == IF SocketAddrs(s) # {} THEN CHOOSE a \in SocketAddrs(s) : TRUE ELSE SplitAtColon(s)

(* From<fast_socks5's TargetAddr>. *)
From(r) == IF r.kind = "Ip" THEN SocketAddr(r.host, r.port) ELSE Domain(r.host, r.port)

(* tokio::net::lookup_host: the addresses of a name; a literal is its own. *)
Lookup(h) == IF h \in Addresses THEN {h} ELSE IF h \in Names THEN Addresses ELSE {}

(* The port n reads back as it is printed. *)
Printed(n) ==
  n \in Nat /\ ToString(n) \in Plain \cap InRange /\ Number[ToString(n)] = n

(* The tokens are what they are called, and every port in play is among    *)
(* them as it is printed; the resolver knows no name in brackets; hyper    *)
(* (http's Authority) lets only an IPv6 address in brackets through.       *)
ASSUME TargetAddrAssumption ==
  /\ MaxHops \in Nat
  /\ Plain \subseteq DOMAIN Number
  /\ \A p \in DOMAIN Number : p \in STRING /\ p # ":" /\ Number[p] \in Nat
  /\ Quad \in STRING /\ Quad \notin {":", "["}
  /\ \A h \in V6 \cup Names : h \in Seq(STRING)
  /\ \A h \in Names, a \in V6 : h # Host(a)
  /\ \A s \in Texts : s \in Seq(STRING) /\ \A a \in V6, p \in DOMAIN Number : s # WithPort(a, p)
  /\ \A p \in InRange : Printed(Number[p])
  /\ \A r \in Requests : /\ Printed(r.port) /\ r.kind \in {"Ip", "Domain"}
                         /\ r.kind = "Ip" => r.host \in Addresses

-----------------------------------------------------------------------------
(* A CONNECT reaches the first HTTP inbound, or a SOCKS5 request the first *)
(* SOCKS5 inbound.                                                         *)
Init ==
  /\ dialled = <<>>
  /\ \/ \E s \in Texts :
          asked = [kind |-> "text", text |-> s] /\ text = s /\ target = Error /\ stage = "read"
     \/ \E r \in Requests :
          asked = r /\ text = <<>> /\ target = From(r) /\ stage = "connect"

(* The HTTP inbound: the authority parses, or the answer is 400. *)
Read ==
  /\ stage = "read"
  /\ target' = FromStr(text)
  /\ stage' = IF target' = Error THEN "bad_request" ELSE "connect"
  /\ UNCHANGED <<asked, text, dialled>>

(* The HTTP outbound: a domain is resolved, to the first address that the  *)
(* lookup gives; the next proxy gets a CONNECT to that socket.             *)
Connect ==
  /\ stage = "connect" /\ Len(dialled) < MaxHops
  /\ LET hosts == IF target.kind = "socket" THEN {target.host} ELSE Lookup(target.host)
     IN \/ \E h \in hosts :
             /\ dialled' = Append(dialled, SocketAddr(h, target.port))
             /\ text' = SocketText(SocketAddr(h, target.port))
             /\ stage' = "read"
        \/ hosts = {} /\ stage' = "unresolved" /\ UNCHANGED <<text, dialled>>
  /\ UNCHANGED <<asked, target>>

Next == Read \/ Connect

Spec == Init /\ [][Next]_vars

-----------------------------------------------------------------------------
(* Properties. *)

(* The sockets a request may mean: an address as SocketAddr spells it; or  *)
(* the address itself or a name of it, a colon and a number in range.      *)
Meant(r) ==
  IF r.kind = "text"
  THEN {SocketAddr(x[1], Number[x[2]]) : x \in {ap \in Addresses \X InRange :
          \/ ap[2] \in Plain /\ r.text = WithPort(Host(ap[1]), ap[2])
          \/ \E h \in Names \cup Quads : ap[1] \in Lookup(h) /\ r.text = WithPort(h, ap[2])}}
  ELSE {SocketAddr(a, r.port) : a \in Lookup(r.host)}

(* A request that means something is never turned away, whichever way it   *)
(* is spelled and however many proxies it goes through; every one of them  *)
(* is asked for the same socket, one that the request means; and a request *)
(* that means nothing is forwarded to none (TargetAddr::from_str, the      *)
(* CONNECT of HttpOutbound::connect and its reading by HttpInbound).       *)
TargetIsKept ==
  /\ stage \in {"bad_request", "unresolved"} => Meant(asked) = {}
  /\ \A i \in DOMAIN dialled : dialled[i] \in Meant(asked) /\ dialled[i] = dialled[1]

(* The inductive invariant: the first target means what was asked, and     *)
(* every later text and target is the socket dialled first.                *)
Asks    == {[kind |-> "text", text |-> s] : s \in Texts} \cup Requests
Sockets == [kind : {"socket"}, host : Addresses, port : Nat]

(* The sockets that the HTTP outbound may dial for target t. *)
Reaches(t) == {SocketAddr(h, t.port) : h \in IF t.kind = "socket" THEN {t.host} ELSE Lookup(t.host)}

(* t is a target that means what r asks for. *)
Means(t, r) ==
  /\ Printed(t.port) /\ (t.kind = "socket" => t \in Sockets)
  /\ Reaches(t) = Meant(r)

IInv ==
  /\ asked \in Asks /\ stage \in {"read", "connect", "bad_request", "unresolved"}
  /\ dialled \in Seq(Sockets) /\ \A i \in DOMAIN dialled : Printed(dialled[i].port)
  /\ stage = "read" =>
       IF dialled = <<>> THEN asked.kind = "text" /\ text = asked.text ELSE text = SocketText(dialled[1])
  /\ stage = "connect" => IF dialled = <<>> THEN Means(target, asked) ELSE target = dialled[1]
  /\ TargetIsKept
=============================================================================
