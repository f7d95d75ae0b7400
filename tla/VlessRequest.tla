---------------------------- MODULE VlessRequest ----------------------------
(***************************************************************************)
(* The request of a VLESS connection (protocol/vless.rs): the bytes that   *)
(* VlessStream::connect writes, VlessProtocol::accept with read_buf_exact  *)
(* on the server, and what handle_vless_stream (inbound/vless.rs) does     *)
(* with the result.  Bytes and sizes are those of the code.                *)
(*                                                                         *)
(* The client writes the request and goes on with the payload without      *)
(* waiting for the response, so every byte that accept takes beyond the    *)
(* request is missing from the tunnel.                                     *)
(***************************************************************************)
EXTENDS Naturals, Sequences

CONSTANTS
  Requests,    \* the requests a run considers
  UserId,      \* the id the inbound is bound to, 16 bytes
  Payload      \* the bytes the client writes after the request

Byte == 0 .. 255
Port == {n \in Nat : n <= 65535}

V4 == 1   Name == 2   V6 == 3           \* address kinds
Tcp == 1                                \* VlessCommand: Tcp = 1, Udp = 2, Mux = 3
Commands == 1 .. 3

Target  == [kind : Byte, host : Seq(Byte)]
Request == [version : Byte, id : Seq(Byte), addons : Seq(Byte), command : Byte,
            port : Port, target : Target]

ASSUME VlessRequestAssumption ==
  /\ Requests \subseteq Request
  /\ \A r \in Requests : /\ Len(r.id) = 16 /\ Len(r.addons) <= 255
                         /\ r.target.kind = V4 => Len(r.target.host) = 4
                         /\ r.target.kind = V6 => Len(r.target.host) = 16
                         \* A long name is ASCII, hence UTF-8 wherever it is cut.
                         /\ Len(r.target.host) > 255 => \A i \in DOMAIN r.target.host : r.target.host[i] < 128
  /\ UserId \in Seq(Byte) /\ Len(UserId) = 16
  /\ Payload \in Seq(Byte)

VARIABLES
  request,     \* what the client asks for
  taken,       \* bytes the server has read from the stream
  stage,       \* what accept reads next, or what became of the request
  needed, buf, \* the read_buf_exact in progress: needed_len and the bytes read
  header,      \* header_buf, once it is complete
  target,      \* the target decoded so far
  responded    \* the two bytes of the response have been written

vars == <<request, taken, stage, needed, buf, header, target, responded>>

Reading  == {"fixed", "addons", "ipv4", "domain_len", "domain", "ipv6"}
Verdicts == {"dispatched", "denied", "unsupported", "failed", "eof"}

-----------------------------------------------------------------------------
(* VlessStream::connect; a client of another program may set all fields. *)

HostBytes(t) == IF t.kind = Name THEN <<Len(t.host) % 256>> \o t.host ELSE t.host

Encode(r) ==
  <<r.version>> \o r.id \o <<Len(r.addons)>> \o r.addons \o <<r.command>>
    \o <<r.port \div 256, r.port % 256>> \o <<r.target.kind>> \o HostBytes(r.target)

wire == Encode(request) \o Payload

Init ==
  /\ request \in Requests
  /\ taken = 0
  /\ stage = "fixed" /\ needed = 22 /\ buf = <<>>
  /\ header = <<>> /\ target = <<>> /\ responded = FALSE

-----------------------------------------------------------------------------
(* The server: accept. *)

(* Mutant of Spare: the buffer is larger than what is needed. *)
MSpareMore == 64 - Len(buf)

(* The spare capacity of a buffer made with_capacity(needed_len): the most  *)
(* that read_buf reads at once.                                             *)
Spare == needed - Len(buf)

ReadBuf(k) ==
  /\ stage \in Reading /\ Len(buf) < needed
  /\ k <= Spare /\ taken + k <= Len(wire)
  /\ buf' = buf \o SubSeq(wire, taken + 1, taken + k)
  /\ taken' = taken + k
  /\ UNCHANGED <<request, stage, needed, header, target, responded>>

(* The client closes before the request is complete: UnexpectedEof. *)
ReadEof ==
  /\ stage \in Reading /\ Len(buf) < needed
  /\ taken < Len(Encode(request))
  /\ stage' = "eof"
  /\ UNCHANGED <<request, taken, needed, buf, header, target, responded>>

Complete(s)  == stage = s /\ Len(buf) >= needed
Await(s, n)  == stage' = s /\ needed' = n /\ buf' = <<>>
Finish(s)    == stage' = s /\ UNCHANGED <<needed, buf>>

(* Mutant of AddrLen: the sizes of the two address families are swapped. *)
MAddrSwapped(kind) == CASE kind = V4 -> 16 [] kind = Name -> 1 [] kind = V6 -> 4

(* What is read first for an address: its bytes, or the length of a name. *)
AddrLen(kind) == CASE kind = V4 -> 4 [] kind = Name -> 1 [] kind = V6 -> 16

AddrStage(kind) == CASE kind = V4 -> "ipv4" [] kind = Name -> "domain_len" [] kind = V6 -> "ipv6"

(* Lines 253 to 285: command, port and kind are taken from the 22 bytes.   *)
TakeFields(h) ==
  \/ /\ h[19] \in Commands /\ h[22] \in {V4, Name, V6}
     /\ Await(AddrStage(h[22]), AddrLen(h[22]))
  \/ /\ ~(h[19] \in Commands /\ h[22] \in {V4, Name, V6})
     /\ Finish("failed")           \* InvalidCommand, InvalidAddrKind

FixedRead ==
  /\ Complete("fixed")
  /\ header' = buf
  /\ \/ buf[1] # 0 /\ Finish("failed")                    \* InvalidVersion
     \/ buf[1] = 0 /\ buf[18] # 0 /\ Await("addons", buf[18])
     \/ buf[1] = 0 /\ buf[18] = 0 /\ TakeFields(buf)
  /\ UNCHANGED <<request, taken, target, responded>>

AddonsRead ==
  /\ Complete("addons")
  /\ TakeFields(header)
  /\ UNCHANGED <<request, taken, header, target, responded>>

DomainLenRead ==
  /\ Complete("domain_len")
  /\ Await("domain", buf[1])
  /\ UNCHANGED <<request, taken, header, target, responded>>

(* A name is UTF-8, as connect's are and as they stay where they are cut,   *)
(* and from_utf8_lossy leaves it as it is.                                  *)
AddrRead ==
  /\ Complete("ipv4") \/ Complete("domain") \/ Complete("ipv6")
  /\ target' = [kind |-> header[22], host |-> buf]
  /\ Finish("respond")
  /\ UNCHANGED <<request, taken, header, responded>>

(* The response is written before anyone looks at the id; the client may   *)
(* be gone by then.                                                        *)
Respond ==
  /\ stage = "respond"
  /\ \/ responded' = TRUE /\ Finish("check")
     \/ UNCHANGED responded /\ Finish("eof")
  /\ UNCHANGED <<request, taken, header, target>>

-----------------------------------------------------------------------------
(* handle_vless_stream. *)

IdOf(h)      == SubSeq(h, 2, 17)
CommandOf(h) == h[19]

(* Mutant of PortOf: the bytes of the port in the wrong order. *)
MPortSwapped(h) == h[21] * 256 + h[20]

PortOf(h) == h[20] * 256 + h[21]

Permitted(h) == IdOf(h) = UserId

Check ==
  /\ stage = "check"
  /\ \/ ~Permitted(header) /\ Finish("denied")            \* AlphaRayError::Permission
     \/ Permitted(header) /\ CommandOf(header) # Tcp /\ Finish("unsupported")
     \/ Permitted(header) /\ CommandOf(header) = Tcp /\ Finish("dispatched")
  /\ UNCHANGED <<request, taken, header, target, responded>>

Accept == \/ \E k \in 1 .. 255 : ReadBuf(k)
          \/ FixedRead \/ AddonsRead \/ DomainLenRead \/ AddrRead

Next == Accept \/ ReadEof \/ Respond \/ Check

Spec == Init /\ [][Next]_vars

(* The server's task runs; what the client wrote arrives. *)
FairSpec == Spec /\ WF_vars(Accept) /\ WF_vars(Respond) /\ WF_vars(Check)

-----------------------------------------------------------------------------
(* Properties. *)

TypeOK ==
  /\ request \in Requests
  /\ taken \in Nat /\ taken <= Len(wire)
  /\ stage \in Reading \cup Verdicts \cup {"respond", "check"}
  /\ needed \in Byte /\ buf \in Seq(Byte) /\ Len(buf) <= needed
  /\ header \in Seq(Byte) /\ Len(header) \in {0, 22}
  /\ responded \in BOOLEAN

(* The requests connect can write have no addons. *)
NoAddons(r) == Len(r.addons) = 0

WellFormed(r) ==
  r.version = 0 /\ r.command \in Commands /\ r.target.kind \in {V4, Name, V6}

Decoded == stage \in {"respond", "check", "dispatched"}

(* The part of a host that accept takes for all of it: of a name, as many  *)
(* bytes as its length modulo 256, hence all of it up to 255.              *)
Claimed(t) == IF t.kind = Name THEN SubSeq(t.host, 1, Len(t.host) % 256) ELSE t.host
Beyond(t)  == Len(t.host) - Len(Claimed(t))

Understood(t) ==
  /\ target = t
  /\ PortOf(header) = request.port /\ CommandOf(header) = request.command
  /\ IdOf(header) = request.id

(* What accept decodes from the stream, cut anywhere, is what connect was  *)
(* asked to send, and nothing well-formed is refused; a name that is too   *)
(* long for the byte that counts it (domain.len() as u8) is cut, and spoils *)
(* no other field.                                                         *)
RoundTrip ==
  NoAddons(request) /\ WellFormed(request) =>
    /\ stage # "failed"
    /\ Decoded => Understood([kind |-> request.target.kind, host |-> Claimed(request.target)])

(* accept leaves the stream at the first byte of the payload: not one byte *)
(* of the payload is swallowed, none of the request is left over but what  *)
(* was cut off its name, which goes before the payload, and none beyond    *)
(* the request is waited for (a client that waits for the response before  *)
(* it sends more would wait for ever).                                     *)
PayloadIntact ==
  NoAddons(request) /\ WellFormed(request) =>
    /\ Decoded => LET t == request.target
                  IN SubSeq(wire, taken + 1, Len(wire))
                       = SubSeq(t.host, Len(Claimed(t)) + 1, Len(t.host)) \o Payload
    /\ stage \in Reading /\ Len(buf) < needed => taken < Len(Encode(request))

(* What accept and the handler have left to do, in bytes and in stages. *)
StageRank ==
  CASE stage = "fixed" -> 6 [] stage = "addons" -> 5 [] stage \in {"ipv4", "domain_len", "ipv6"} -> 4
    [] stage = "domain" -> 3 [] stage = "respond" -> 2 [] stage = "check" -> 1 [] OTHER -> 0
Effort == (Len(wire) - taken) + StageRank

(* Every step counts: no read, and no stage of accept, is done twice, so   *)
(* that a request is decided after as many steps as it has bytes and six,  *)
(* or waits for bytes that its client has not sent.                        *)
EveryStepAdvances == [][Effort' < Effort /\ Effort' \in Nat]_vars

(* Every request is decided. *)
Decided == <>(stage \in Verdicts)

(* "skip addons" (vless.rs:248): a well-formed request is understood with  *)
(* its addons as it is without them.                                       *)
AddonsAreSkipped ==
  WellFormed(request) =>
    /\ stage # "failed"
    /\ Decoded => Understood(request.target)

-----------------------------------------------------------------------------
(* The inductive invariant: what has been read, and how far into the wire  *)
(* each place of accept is.                                                *)

(* s is what w holds from its n-th byte on. *)
At(w, n, s) == \A i \in 1 .. Len(s) : w[n + i] = s[i]

BufIs == Len(buf) <= taken /\ At(wire, taken - Len(buf), buf)

HeaderIs ==
  /\ stage \notin {"fixed", "eof"} => Len(header) = 22
  /\ At(wire, 0, header)

Needs ==
  /\ stage = "fixed" => needed = 22 /\ taken = Len(buf)
  /\ stage = "ipv4" => needed = 4
  /\ stage = "domain_len" => needed = 1
  /\ stage = "ipv6" => needed = 16

Place ==
  NoAddons(request) =>
    /\ stage # "addons"
    /\ stage \in {"ipv4", "domain_len", "ipv6"} => taken = 22 + Len(buf) /\ stage = AddrStage(header[22])
    /\ stage = "domain" => taken = 23 + Len(buf) /\ needed = wire[23] /\ header[22] = Name
    /\ stage \in {"ipv4", "domain_len", "domain", "ipv6"} => header[22] \in {V4, Name, V6}
    /\ stage \in {"respond", "check"} \cup (Verdicts \ {"eof", "failed"}) =>
         /\ taken = Len(Encode(request)) - Beyond(request.target)
         /\ target = [kind |-> request.target.kind, host |-> Claimed(request.target)]
    /\ stage = "failed" => ~WellFormed(request)

IInv == TypeOK /\ BufIs /\ HeaderIs /\ Needs /\ Place
=============================================================================
