--------------------------------- MODULE Relay ---------------------------------
(***************************************************************************)
(* The process around the streams: an inbound's accept loop and the task of *)
(* each connection (inbound/*.rs), the dispatcher (dispatcher/simple.rs),   *)
(* the outbound's connect (outbound/*.rs, pipeline.rs) with the loop over   *)
(* the addresses and its timeout (transport/tcp.rs), the tunnel, and run    *)
(* (lib.rs).  What the connections share is the listener, the descriptors   *)
(* and the life of the process.                                            *)
(*                                                                         *)
(* The kinds of inbound and outbound are chosen when the process starts.    *)
(* "vless_tls" is the VLESS outbound over TlsOutboundSecurity, "vless" the   *)
(* one over no security or Vision's, whose poll_write waits for nothing.    *)
(* A value that Rust drops closes what it owns: the drops are written out.  *)
(***************************************************************************)
EXTENDS Naturals, FiniteSets, Sequences

CONSTANTS
  Conns,        \* connections of clients
  Inbounds,     \* kinds of inbound, among "socks", "http", "vless"
  Outbounds,    \* kinds of outbound, among "tcp", "socks", "http", "vless" and "vless_tls"
  MaxAddrs,     \* addresses that a name resolves to, at most (model bound)
  MaxSockets,   \* descriptors the process may have open, the listener's apart
  MaxRejects    \* rejected requests on one HTTP connection (model bound)

ASSUME RelayAssumption ==
  /\ IsFiniteSet(Conns)
  /\ Inbounds \subseteq {"socks", "http", "vless"}
  /\ Outbounds \subseteq {"tcp", "socks", "http", "vless", "vless_tls"}
  /\ MaxAddrs \in Nat \ {0} /\ MaxSockets \in Nat /\ MaxRejects \in Nat

VARIABLES
  inbound,      \* the kind of inbound
  outbound,     \* the kind of outbound
  listening,    \* the accept loop runs
  ready,        \* the runtime holds the listener for ready
  alive,        \* the process runs
  conn,         \* conn[c]: the client's connection and the task that serves it
  dial          \* dial[c]: the outbound's connect for that connection

vars == <<inbound, outbound, listening, ready, alive, conn, dial>>
kept == <<inbound, outbound, listening, ready, alive>>

Directions == {"up", "down"}

NewConn == [client |-> "absent", gone |-> FALSE, task |-> "none", answers |-> <<>>,
            ended |-> {}]
NewDial == [step |-> "none", addrs |-> 0, at |-> 0, lost |-> {}, sockets |-> {}]

Init ==
  /\ inbound \in Inbounds /\ outbound \in Outbounds
  /\ listening = TRUE /\ ready = FALSE /\ alive = TRUE
  /\ conn = [c \in Conns |-> NewConn]
  /\ dial = [c \in Conns |-> NewDial]

SetConn(c, i) == conn' = [conn EXCEPT ![c] = i]
SetDial(c, o) == dial' = [dial EXCEPT ![c] = o]

(* The descriptors in use: 0 stands for the client's socket, a positive     *)
(* number for the socket to that address.                                  *)
Open == {p \in Conns \X (0 .. MaxAddrs) :
           IF p[2] = 0 THEN conn[p[1]].client = "open" ELSE p[2] \in dial[p[1]].sockets}
Full == Cardinality(Open) >= MaxSockets

(* What a task owns goes with it. *)
Finished(i) == [i EXCEPT !.task = "done", !.client = "dropped"]
Closed(o)   == [o EXCEPT !.sockets = {}]

Answered(i, a, t) == [i EXCEPT !.answers = Append(@, a), !.task = t]
Parting(i, a)     == [Finished(i) EXCEPT !.answers = Append(@, a)]

-----------------------------------------------------------------------------
(* Clients: external. *)

Arrive(c) ==
  /\ listening /\ conn[c].client = "absent"
  /\ SetConn(c, [conn[c] EXCEPT !.client = "waiting"])
  /\ ready' = TRUE
  /\ UNCHANGED <<inbound, outbound, listening, alive, dial>>

(* The client closes or resets its connection.  Nobody reads it while the   *)
(* outbound connects.                                                       *)
Leave(c) ==
  /\ conn[c].client = "open" /\ ~conn[c].gone
  /\ SetConn(c, [conn[c] EXCEPT !.gone = TRUE])
  /\ UNCHANGED <<kept, dial>>

-----------------------------------------------------------------------------
(* The accept loop, and the end of the process. *)

(* Mutant of Accept: the loop awaits the handler instead of spawning it. *)
MAccept(c) ==
  /\ listening /\ conn[c].client = "waiting" /\ ~Full
  /\ \A d \in Conns : conn[d].task \in {"none", "tunnel", "done"}
  /\ SetConn(c, [conn[c] EXCEPT !.client = "open", !.task = "request"])
  /\ UNCHANGED <<kept, dial>>

Accept(c) ==
  /\ listening /\ conn[c].client = "waiting" /\ ~Full
  /\ SetConn(c, [conn[c] EXCEPT !.client = "open", !.task = "request"])
  /\ UNCHANGED <<kept, dial>>

(* The loop tries again after each client, until nobody waits. *)
WouldBlock ==
  /\ listening /\ ready /\ ~Full
  /\ \A c \in Conns : conn[c].client # "waiting"
  /\ ready' = FALSE
  /\ UNCHANGED <<inbound, outbound, listening, alive, conn, dial>>

(* With no descriptor left accept fails, even if nobody waits any more, and *)
(* its error ends the loop.                                                 *)
AcceptFails ==
  /\ listening /\ ready /\ Full
  /\ listening' = FALSE
  /\ UNCHANGED <<inbound, outbound, ready, alive, conn, dial>>

(* run returns when the loop has ended; the runtime drops every task, each  *)
(* of which drops its streams.                                              *)
Exit ==
  /\ alive /\ ~listening
  /\ alive' = FALSE
  /\ conn' = [c \in Conns |->
       IF conn[c].client = "absent" THEN conn[c] ELSE Finished(conn[c])]
  /\ dial' = [c \in Conns |-> Closed(dial[c])]
  /\ UNCHANGED <<inbound, outbound, listening, ready>>

-----------------------------------------------------------------------------
(* The handler of a connection up to its request.  Crates fast_socks5 and   *)
(* hyper speak SOCKS5 and HTTP; VLESS is in VlessRequest.                   *)

(* The end of the stream, a malformed request, or an answer of the protocol *)
(* that cannot be written.                                                  *)
BadRequest(c) ==
  /\ conn[c].task = "request"
  /\ SetConn(c, Finished(conn[c]))
  /\ UNCHANGED <<kept, dial>>

(* Not TCPConnect: one answer, and the connection is closed. *)
RejectSocks(c) ==
  /\ inbound = "socks" /\ conn[c].task = "request"
  /\ SetConn(c, Parting(conn[c], "rejected"))
  /\ UNCHANGED <<kept, dial>>

(* Not CONNECT, no authority, or one that does not parse: the connection    *)
(* stays open for another request.                                          *)
RejectHttp(c) ==
  /\ inbound = "http" /\ conn[c].task = "request"
  /\ Len(conn[c].answers) < MaxRejects
  /\ SetConn(c, Answered(conn[c], "rejected", "request"))
  /\ UNCHANGED <<kept, dial>>

(* Another id, or a command that is not Tcp, after accept has answered. *)
RejectVless(c) ==
  /\ inbound = "vless" /\ conn[c].task = "request"
  /\ SetConn(c, Parting(conn[c], "ok"))
  /\ UNCHANGED <<kept, dial>>

Started(o) == [o EXCEPT !.step = "resolve"]

(* Mutant of TakeSocks: success is reported before the connect, as HTTP does. *)
MTakeSocks(c) ==
  /\ inbound = "socks" /\ conn[c].task = "request"
  /\ SetConn(c, Answered(conn[c], "ok", "connect"))
  /\ SetDial(c, Started(dial[c]))
  /\ UNCHANGED kept

TakeSocks(c) ==
  /\ inbound = "socks" /\ conn[c].task = "request"
  /\ SetConn(c, [conn[c] EXCEPT !.task = "connect"])
  /\ SetDial(c, Started(dial[c]))
  /\ UNCHANGED kept

TakeVless(c) ==
  /\ inbound = "vless" /\ conn[c].task = "request"
  /\ SetConn(c, Answered(conn[c], "ok", "connect"))
  /\ SetDial(c, Started(dial[c]))
  /\ UNCHANGED kept

(* HTTP answers 200 first; the upgraded connection is dispatched after that. *)
TakeHttp(c) ==
  /\ inbound = "http" /\ conn[c].task = "request"
  /\ SetConn(c, [conn[c] EXCEPT !.task = "reply"])
  /\ UNCHANGED <<kept, dial>>

-----------------------------------------------------------------------------
(* The outbound's connect. *)

Connecting(c, s) == conn[c].task = "connect" /\ dial[c].step = s

(* TcpOutboundTransport is under "tcp" (a pipeline) and both kinds of VLESS *)
(* (whose server is reached through one); "socks" and "http" call TcpStream. *)
ByVless    == outbound \in {"vless", "vless_tls"}
HasTimeout == outbound = "tcp" \/ ByVless

(* The addresses there are to dial: all the target has, or the one server.  *)
(* None stands for a failed lookup too.                                     *)
Resolve(c) ==
  /\ Connecting(c, "resolve")
  /\ \E found \in 0 .. MaxAddrs :
       SetDial(c, [dial[c] EXCEPT !.step = "dial",
                                  !.addrs = CASE outbound = "tcp" -> found
                                              [] ByVless -> 1
                                              [] OTHER -> IF found = 0 THEN 0 ELSE 1])
  /\ UNCHANGED <<kept, conn>>

(* Mutant of HasNext: off by one. *)
MHasNext(c) == Connecting(c, "dial") /\ dial[c].sockets = {} /\ dial[c].at <= dial[c].addrs

(* The loop's next address. *)
HasNext(c) == Connecting(c, "dial") /\ dial[c].sockets = {} /\ dial[c].at < dial[c].addrs

DialNext(c) ==
  /\ HasNext(c) /\ ~Full
  /\ SetDial(c, [dial[c] EXCEPT !.at = @ + 1, !.sockets = {dial[c].at + 1}])
  /\ UNCHANGED <<kept, conn>>

NoDescriptor(c) ==
  /\ HasNext(c) /\ Full
  /\ SetDial(c, [dial[c] EXCEPT !.at = @ + 1, !.lost = @ \cup {dial[c].at + 1}])
  /\ UNCHANGED <<kept, conn>>

Trying(c) == Connecting(c, "dial") /\ dial[c].at \in dial[c].sockets

(* The future of the attempt is dropped, and its socket with it. *)
Lost(o) == [o EXCEPT !.lost = @ \cup {o.at}, !.sockets = @ \ {o.at}]

Refused(c) ==
  /\ Trying(c)
  /\ SetDial(c, Lost(dial[c]))
  /\ UNCHANGED <<kept, conn>>

(* Mutant of TimesOut: the elapsed time is returned as an error. *)
MTimesOut(c) ==
  /\ Trying(c) /\ HasTimeout
  /\ SetConn(c, [conn[c] EXCEPT !.task = "refuse"])
  /\ SetDial(c, [Lost(dial[c]) EXCEPT !.step = "failed"])
  /\ UNCHANGED kept

(* Mutant of TimesOut: the last address is awaited without a timeout. *)
MNoLastTimeout(c) ==
  /\ Trying(c) /\ HasTimeout /\ dial[c].at < dial[c].addrs
  /\ SetDial(c, Lost(dial[c]))
  /\ UNCHANGED <<kept, conn>>

TimesOut(c) ==
  /\ Trying(c) /\ HasTimeout
  /\ SetDial(c, Lost(dial[c]))
  /\ UNCHANGED <<kept, conn>>

Established(c) ==
  /\ Trying(c)
  /\ SetDial(c, [dial[c] EXCEPT !.step = IF HasTimeout THEN "wrap" ELSE "handshake"])
  /\ UNCHANGED <<kept, conn>>

(* connect returned Ok: SOCKS5 has yet to tell the client. *)
Succeed(c) ==
  /\ SetConn(c, [conn[c] EXCEPT !.task = IF inbound = "socks" THEN "reply" ELSE "tunnel"])
  /\ SetDial(c, [dial[c] EXCEPT !.step = "connected"])

(* Mutant of Fail: every inbound tells the client. *)
MFail(c, left) ==
  /\ SetConn(c, [conn[c] EXCEPT !.task = "refuse"])
  /\ SetDial(c, [dial[c] EXCEPT !.step = "failed", !.sockets = left])

(* connect returned Err with these sockets left: SOCKS5 tells the client,   *)
(* the others just drop the connection.                                     *)
Fail(c, left) ==
  /\ SetConn(c, IF inbound = "socks" THEN [conn[c] EXCEPT !.task = "refuse"] ELSE Finished(conn[c]))
  /\ SetDial(c, [dial[c] EXCEPT !.step = "failed", !.sockets = left])

GiveUp(c) ==
  /\ Connecting(c, "dial") /\ dial[c].sockets = {} /\ dial[c].at = dial[c].addrs
  /\ Fail(c, {})
  /\ UNCHANGED kept

(* The security's wrap and the network's upgrade; neither waits. *)
Wrap(c) ==
  /\ Connecting(c, "wrap")
  /\ \/ Fail(c, {})
     \/ outbound = "tcp" /\ Succeed(c)
     \/ /\ ByVless
        /\ SetDial(c, [dial[c] EXCEPT !.step = "request"])
        /\ UNCHANGED conn
  /\ UNCHANGED kept

(* VlessStream::connect writes and flushes the request, and waits for no    *)
(* answer.                                                                  *)
SendRequest(c) ==
  /\ Connecting(c, "request") /\ outbound = "vless"
  /\ Succeed(c) \/ Fail(c, {})
  /\ UNCHANGED kept

(* Over TLS the write first waits for the server's part of the handshake,   *)
(* under no timeout.  A server that closes instead sets the stream's eof,    *)
(* and connect may return Ok as well: the write is left to the session.     *)
SendRequestOverTls(c) ==
  /\ Connecting(c, "request") /\ outbound = "vless_tls"
  /\ Succeed(c) \/ Fail(c, {})
  /\ UNCHANGED kept

(* The SOCKS5 or HTTP server has connected to the target. *)
ServerAgrees(c) ==
  /\ Connecting(c, "handshake")
  /\ Succeed(c)
  /\ UNCHANGED kept

(* It could not.  HTTP's socket belongs to the task that drives hyper's     *)
(* connection, and goes when that task has ended.                           *)
ServerRefuses(c) ==
  /\ Connecting(c, "handshake")
  /\ Fail(c, IF outbound = "http" THEN dial[c].sockets ELSE {})
  /\ UNCHANGED kept

ConnTaskEnds(c) ==
  /\ outbound = "http" /\ dial[c].step = "failed" /\ dial[c].sockets # {}
  /\ SetDial(c, Closed(dial[c]))
  /\ UNCHANGED <<kept, conn>>

ServerCloses(c) ==
  /\ Connecting(c, "handshake")
  /\ Fail(c, {})
  /\ UNCHANGED kept

-----------------------------------------------------------------------------
(* The answer to the client, and the tunnel. *)

(* SOCKS5: success, then the tunnel.  HTTP: 200, then the connect. *)
Reply(c) ==
  /\ conn[c].task = "reply"
  /\ IF inbound = "socks"
       THEN SetConn(c, Answered(conn[c], "ok", "tunnel")) /\ UNCHANGED dial
       ELSE SetConn(c, Answered(conn[c], "ok", "connect")) /\ SetDial(c, Started(dial[c]))
  /\ UNCHANGED kept

(* Mutant of ReplyFails: the stream to the server outlives the handler. *)
MReplyFails(c) ==
  /\ conn[c].task = "reply" /\ conn[c].gone
  /\ SetConn(c, Finished(conn[c]))
  /\ UNCHANGED <<kept, dial>>

ReplyFails(c) ==
  /\ conn[c].task = "reply" /\ conn[c].gone
  /\ SetConn(c, Finished(conn[c])) /\ SetDial(c, Closed(dial[c]))
  /\ UNCHANGED kept

Refuse(c) ==
  /\ conn[c].task = "refuse"
  /\ \/ SetConn(c, Parting(conn[c], "refused"))
     \/ conn[c].gone /\ SetConn(c, Finished(conn[c]))
  /\ UNCHANGED <<kept, dial>>

(* copy_bidirectional, in a task of its own: a direction whose source ends  *)
(* shuts the other stream down and leaves the other direction running.      *)
EndDirection(c, d) ==
  /\ conn[c].task = "tunnel" /\ d \notin conn[c].ended
  /\ SetConn(c, [conn[c] EXCEPT !.ended = @ \cup {d}])
  /\ UNCHANGED <<kept, dial>>

TunnelEnds(c) ==
  /\ conn[c].task = "tunnel" /\ conn[c].ended = Directions
  /\ SetConn(c, Finished(conn[c])) /\ SetDial(c, Closed(dial[c]))
  /\ UNCHANGED kept

TunnelFails(c) ==
  /\ conn[c].task = "tunnel"
  /\ SetConn(c, Finished(conn[c])) /\ SetDial(c, Closed(dial[c]))
  /\ UNCHANGED kept

-----------------------------------------------------------------------------
(* What others do, and what the process does by itself. *)
External(c) ==
  \/ Arrive(c) \/ Leave(c) \/ BadRequest(c) \/ RejectSocks(c) \/ RejectHttp(c) \/ RejectVless(c)
  \/ TakeSocks(c) \/ TakeVless(c) \/ TakeHttp(c) \/ Refused(c) \/ Established(c)
  \/ SendRequestOverTls(c) \/ ServerAgrees(c) \/ ServerRefuses(c) \/ ServerCloses(c)
  \/ (\E d \in Directions : EndDirection(c, d)) \/ TunnelFails(c)

Own(c) ==
  \/ Resolve(c) \/ DialNext(c) \/ NoDescriptor(c) \/ TimesOut(c) \/ GiveUp(c) \/ Wrap(c)
  \/ SendRequest(c) \/ ConnTaskEnds(c) \/ Reply(c) \/ ReplyFails(c) \/ Refuse(c) \/ TunnelEnds(c)

Next == WouldBlock \/ AcceptFails \/ Exit \/ \E c \in Conns : Accept(c) \/ External(c) \/ Own(c)

Spec == Init /\ [][Next]_vars

(* The runtime polls the accept loop and every task that can go on; timers  *)
(* fire and lookups return.                                                 *)
FairSpec ==
  /\ Spec
  /\ WF_vars(WouldBlock) /\ WF_vars(AcceptFails) /\ WF_vars(Exit)
  /\ \A c \in Conns : WF_vars(Accept(c)) /\ WF_vars(Own(c))
-----------------------------------------------------------------------------
(* Properties. *)

Answers == {"ok", "refused", "rejected"}
Conn == [client : {"absent", "waiting", "open", "dropped"}, gone : BOOLEAN,
         task : {"none", "request", "reply", "connect", "refuse", "tunnel", "done"},
         answers : Seq(Answers), ended : SUBSET Directions]
Dial == [step : {"none", "resolve", "dial", "wrap", "request", "handshake", "connected", "failed"},
         addrs : 0 .. MaxAddrs, at : 0 .. MaxAddrs,
         lost : SUBSET (1 .. MaxAddrs), sockets : SUBSET (1 .. MaxAddrs)]

(* Type correctness: what each field can hold. *)
TypeOK ==
  /\ inbound \in Inbounds /\ outbound \in Outbounds
  /\ listening \in BOOLEAN /\ ready \in BOOLEAN /\ alive \in BOOLEAN
  /\ conn \in [Conns -> Conn]
  /\ dial \in [Conns -> Dial]

(* A client gets one final answer and nothing after it: none of the error   *)
(* paths of the handlers answers a client that has been answered.           *)
AnsweredOnce ==
  \A c \in Conns : LET a == conn[c].answers IN
    \A i \in 1 .. Len(a) : i < Len(a) => a[i] = "rejected" /\ inbound = "http"

(* The SOCKS5 inbound tells the truth, and tells it: success only for a     *)
(* connect that returned a stream, failure only for one that did not; and a *)
(* client that is still there when its handler ends has been told.  What    *)
(* success says about the target depends on the outbound: with VLESS only   *)
(* that connect returned a stream for the request, over TLS perhaps one     *)
(* whose server closed during the handshake.                                *)
SocksAnswerIsTrue ==
  inbound = "socks" =>
    \A c \in Conns : LET a == conn[c].answers IN
      /\ a = <<"ok">> => dial[c].step = "connected"
      /\ a = <<"refused">> => dial[c].step = "failed"
      /\ conn[c].task = "done" /\ alive /\ ~conn[c].gone /\ dial[c].step # "none" => a # <<>>

(* Descriptors: a connection holds at most one socket to a server, the one  *)
(* to its current address, and only while its handler or its tunnel needs   *)
(* it, whichever of them failed, timed out or was left by its client; the   *)
(* socket of a refused HTTP CONNECT is the exception.  A finished task has  *)
(* closed its client.                                                       *)
SocketsAccounted ==
  \A c \in Conns :
    /\ dial[c].sockets \subseteq {dial[c].at}
    /\ dial[c].sockets # {} =>
         conn[c].task \in {"connect", "reply", "tunnel"} \/ (outbound = "http" /\ dial[c].step = "failed")
    /\ conn[c].client = "open" <=> conn[c].task \notin {"none", "done"}
    /\ conn[c].task = "tunnel" => dial[c].sockets = {dial[c].at}

(* TcpOutboundTransport tries the addresses in order: it uses the first     *)
(* that answers in time, and gives up only when every one has been tried.   *)
FirstThatAnswers ==
  \A c \in Conns : LET d == dial[c] IN
    /\ d.step \in {"wrap", "request", "handshake", "connected"} =>
         d.lost = 1 .. d.at - 1 /\ d.at \in 1 .. d.addrs
    /\ d.step = "failed" /\ d.at \in d.lost \cup {0} => d.lost = 1 .. d.addrs

(* Who may hold a descriptor: a connection whose handler or tunnel runs     *)
(* holds its client's, and one more from the connect to the end of the      *)
(* tunnel; a refused HTTP CONNECT leaves one for a while.                   *)
Busy   == {c \in Conns : conn[c].task \notin {"none", "done"}}
Linked == {c \in Conns : conn[c].task \in {"connect", "reply", "tunnel"}}
Left   == {c \in Conns : outbound = "http" /\ dial[c].step = "failed" /\ dial[c].sockets # {}}

(* The descriptors run out, which ends the accept loop and with it the      *)
(* process, only under the load of connections that are under way: no       *)
(* sequence of requests, refusals, timeouts and departures uses them up     *)
(* little by little.                                                        *)
OutOfSocketsOnlyWhenBusy ==
  Full => MaxSockets <= Cardinality(Busy) + Cardinality(Linked) + Cardinality(Left)

(* What a connection has left to go through. *)
ClientRank(i) == CASE i.client = "absent" -> 3 [] i.client = "waiting" -> 2 [] i.client = "open" -> 1
                   [] i.client = "dropped" -> 0
TaskRank(i) == CASE i.task \in {"none", "request"} -> 5 [] i.task = "connect" -> 3
                 [] i.task = "reply" -> (IF inbound = "socks" THEN 2 ELSE 4)
                 [] i.task \in {"refuse", "tunnel"} -> 1 [] i.task = "done" -> 0
StepRank(o) == CASE o.step = "none" -> 6 [] o.step = "resolve" -> 5 [] o.step = "dial" -> 4
                 [] o.step = "wrap" -> 3 [] o.step \in {"request", "handshake"} -> 2
                 [] o.step \in {"connected", "failed"} -> 1
TriesLeft(o)   == 2 * (MaxAddrs - o.at) + (IF o.sockets = {} THEN 0 ELSE 1)
RejectsLeft(i) == IF Len(i.answers) < MaxRejects THEN MaxRejects - Len(i.answers) ELSE 0
OpenWays(i)    == (IF "up" \in i.ended THEN 0 ELSE 1) + (IF "down" \in i.ended THEN 0 ELSE 1)
ConnRank(i) ==
  ClientRank(i) + (IF i.gone THEN 0 ELSE 1) + TaskRank(i) + RejectsLeft(i) + OpenWays(i)
DialRank(o) == StepRank(o) + TriesLeft(o)
Effort(c) == ConnRank(conn[c]) + DialRank(dial[c])

(* Whatever happens to a connection brings it nearer to its end: no address *)
(* is tried twice, no answer is given twice, no await is returned to, and    *)
(* nothing of one connection depends on how far another one has come.        *)
EveryStepAdvances ==
  [][\A c \in Conns :
        <<conn[c], dial[c]>>' = <<conn[c], dial[c]>> \/ (Effort(c)' < Effort(c) /\ Effort(c)' \in Nat)]_vars

(* A client that connects is accepted, however long the requests of others  *)
(* take, or the process ends.                                               *)
Accepted == \A c \in Conns : conn[c].client = "waiting" ~> conn[c].client # "waiting"

(* The server's part of the TLS handshake has not come. *)
AwaitsServer(c) == outbound = "vless_tls" /\ Connecting(c, "request")

(* Every connect through TcpOutboundTransport is decided, whatever the      *)
(* servers do, but for a VLESS server that takes the connection and is      *)
(* silent in the TLS handshake, which the timeout does not cover; there is  *)
(* no such promise for the other outbounds.                                 *)
ConnectDecided ==
  \A c \in Conns : (HasTimeout /\ conn[c].task = "connect") ~>
                     (conn[c].task # "connect" \/ AwaitsServer(c))
=============================================================================
