------------------------------ MODULE TlsTunnel ------------------------------
(***************************************************************************)
(* Two ends of the proxy joined by TLS over TCP: on each end the dispatcher *)
(* runs copy_bidirectional (dispatcher/simple.rs) between an application's *)
(* TCP stream and a TlsStream (protocol/tls.rs).  The client end opened its *)
(* stream with VlessStream::connect, the server end with                   *)
(* VlessProtocol::accept.  rustls, TCP and copy_bidirectional are external *)
(* and modelled as this code drives them.                                  *)
(*                                                                         *)
(* One poll_... call of a TlsStream is one action.  A record is one item:  *)
(* a handshake flight, the VLESS header, one byte of data or close_notify. *)
(*                                                                         *)
(* The network loses nothing and both ends are sound TLS peers: the errors  *)
(* of process_new_packets, and those of the socket but for the reset that a *)
(* dropped peer causes, are left out.  So is flush_tls's Ok(0): a socket    *)
(* does not take 0 bytes of a write that is not empty.                     *)
(***************************************************************************)
EXTENDS Naturals, Sequences

CONSTANTS
  MaxBytes,   \* [End -> Nat]: the bytes each application sends (model bound)
  WireCap,    \* records that the socket buffers hold in one direction
  SessCap     \* records after which the session's writer takes no more

End == {"client", "server"}

ASSUME TlsTunnelAssumption ==
  /\ MaxBytes \in [End -> Nat]
  /\ WireCap \in Nat \ {0} /\ SessCap \in Nat \ {0}

VARIABLES
  sent, closed, got, endSeen,  \* application of each end: bytes sent, closed?, bytes got, end of stream seen?
  log,               \* log[e]: every record that e's session has made, in order
  wrote, read, pos,  \* records of log[e]: that e's socket took, that the other end's read_tls took,
                     \* and whose plaintext the other end's stream has handed over
  eof,               \* the flag of each TlsStream
  shut,              \* shut[e]: e's socket sent its FIN
  upAt, upBuf, taken,  \* copy from the application to the TlsStream: place, byte held, bytes taken
  downAt, downBuf,     \* copy from the TlsStream to the application: place, byte held
  state    \* "connect"/"request" or "accept"/"response", "tunnel", then one of Ended

apps    == <<sent, closed, got, endSeen>>
session == <<log, wrote>>
up      == <<upAt, upBuf, taken>>
down    == <<downAt, downBuf>>
vars == <<apps, session, read, pos, eof, shut, up, down, state>>

Other(e) == IF e = "client" THEN "server" ELSE "client"
None     == 0                     \* a copy buffer with nothing in it
Ended    == {"ok", "failed", "refused"}

Ctl(k)  == <<k, 0>>
Data(i) == <<"data", i>>
Hello   == Ctl("hello")
Flight  == Ctl("flight")
Fin     == Ctl("finished")
Header  == Ctl("header")
Notify  == Ctl("notify")

(* A TlsStream around a session: nothing of the handshake has happened yet *)
(* but that a client's session has its hello ready (wrap), a server's      *)
(* nothing (accept).                                                       *)
Wrap   == <<Hello>>
Accept == <<>>

Init ==
  /\ sent = [e \in End |-> 0] /\ closed = [e \in End |-> FALSE]
  /\ got = [e \in End |-> <<>>] /\ endSeen = [e \in End |-> FALSE]
  /\ log = [e \in End |-> IF e = "client" THEN Wrap ELSE Accept]
  /\ wrote = [e \in End |-> 0] /\ read = [e \in End |-> 0] /\ pos = [e \in End |-> 0]
  /\ eof = [e \in End |-> FALSE] /\ shut = [e \in End |-> FALSE]
  /\ upAt = [e \in End |-> "copy"] /\ upBuf = [e \in End |-> None] /\ taken = [e \in End |-> 0]
  /\ downAt = [e \in End |-> "copy"] /\ downBuf = [e \in End |-> None]
  /\ state = [e \in End |-> IF e = "client" THEN "connect" ELSE "accept"]

(* Record r is among the first n that e's session made. *)
Took(e, r, n) == \E i \in 1 .. n : log[e][i] = r

(* Rustls: the client is done with the server's flight, the server with the *)
(* client's Finished.                                                       *)
Handshaking(e) == ~Took(Other(e), IF e = "client" THEN Flight ELSE Fin, read[Other(e)])
Notified(e)    == Took(Other(e), Notify, read[Other(e)])

(* The records whose plaintext e's session holds; the next one. *)
Plain(e) == {i \in pos[Other(e)] + 1 .. read[Other(e)] : log[Other(e)][i][1] \in {"header", "data"}}
NextPlain(e, i) == i \in Plain(e) /\ \A j \in Plain(e) : i <= j

-----------------------------------------------------------------------------
(* The applications: external. *)

AppSend(e) ==
  /\ state[e] \notin Ended /\ ~closed[e]
  /\ sent[e] < MaxBytes[e]
  /\ sent' = [sent EXCEPT ![e] = @ + 1]
  /\ UNCHANGED <<closed, got, endSeen, session, read, pos, eof, shut, up, down, state>>

AppClose(e) ==
  /\ state[e] \notin Ended /\ ~closed[e]
  /\ closed' = [closed EXCEPT ![e] = TRUE]
  /\ UNCHANGED <<sent, got, endSeen, session, read, pos, eof, shut, up, down, state>>

-----------------------------------------------------------------------------
(* TlsStream. *)

(* flush_tls of a session that has made n records: what the socket takes,  *)
(* and the call is Pending when that is not all of them.                   *)
Reach(e, n) == IF n <= read[e] + WireCap THEN n ELSE read[e] + WireCap
Flushes(e) == Reach(e, Len(log[e])) = Len(log[e])

(* The session has made the records q, and is flushed. *)
Flushed(e, q) ==
  /\ log' = [log EXCEPT ![e] = q]
  /\ wrote' = [wrote EXCEPT ![e] = Reach(e, Len(q))]

(* A poll_write, poll_flush, poll_read or poll_shutdown begins with a flush. *)
Flush(e) ==
  /\ state[e] \notin Ended /\ ~eof[e]
  /\ wrote[e] < Reach(e, Len(log[e]))
  /\ Flushed(e, log[e])
  /\ UNCHANGED <<apps, read, pos, eof, shut, up, down, state>>

(* Mutant of Reading: a tunnel whose upload is shut down reads no more.    *)
MReading(e) ==
  /\ ~eof[e] /\ upAt[e] = "copy"
  /\ \/ Handshaking(e) /\ state[e] \in {"connect", "accept"}
     \/ /\ ~Handshaking(e) /\ Plain(e) = {}
        /\ state[e] = "accept" \/ (state[e] = "tunnel" /\ downAt[e] = "copy" /\ downBuf[e] = None)

(* A poll_read or, while the session is handshaking, a poll_write gets as  *)
(* far as drive_tls_readable.                                              *)
Reading(e) ==
  /\ ~eof[e]
  /\ \/ Handshaking(e) /\ state[e] \in {"connect", "accept"}
     \/ /\ ~Handshaking(e) /\ Plain(e) = {}
        /\ state[e] = "accept" \/ (state[e] = "tunnel" /\ downAt[e] = "copy" /\ downBuf[e] = None)

(* Mutant of ReadsTls: the inner stream is read although flush_tls is Pending. *)
MReadsTls(e) == Reading(e)

(* drive_tls_readable reads the inner stream only after flush_tls is Ready. *)
ReadsTls(e) == Reading(e) /\ Flushes(e)

(* What rustls answers to a read up to record n. *)
Replies(e, n) ==
  LET new(r) == Took(Other(e), r, n) /\ ~Took(Other(e), r, read[Other(e)])
  IN IF new(Hello) THEN <<Flight>> ELSE IF new(Flight) THEN <<Fin>> ELSE <<>>

(* Mutant of Drive: the plaintext of a read replaces the plaintext before. *)
MDrive(e, k) ==
  LET n == read[Other(e)] + k
  IN /\ ReadsTls(e) /\ n <= wrote[Other(e)]
     /\ read' = [read EXCEPT ![Other(e)] = n]
     /\ pos' = [pos EXCEPT ![Other(e)] = n - 1]
     /\ Flushed(e, log[e] \o Replies(e, n))
     /\ UNCHANGED <<apps, eof, shut, up, down, state>>

(* drive_tls_readable: one read of k records, process_new_packets, and a   *)
(* flush of what rustls answers.                                           *)
Drive(e, k) ==
  LET n == read[Other(e)] + k
  IN /\ ReadsTls(e) /\ ~Notified(e) /\ n <= wrote[Other(e)]
     /\ read' = [read EXCEPT ![Other(e)] = n]
     /\ Flushed(e, log[e] \o Replies(e, n))
     /\ UNCHANGED <<apps, pos, eof, shut, up, down, state>>

(* Mutants of AtEnd: a FIN counts before what the socket still holds is     *)
(* read; a socket that ends without close_notify is waited for.            *)
MAtEnd(e)    == Notified(e) \/ shut[Other(e)]
MNotified(e) == Notified(e)

(* read_tls returns 0: after close_notify, or at the end of the inner stream. *)
AtEnd(e) == Notified(e) \/ (shut[Other(e)] /\ read[Other(e)] = wrote[Other(e)])

DriveEof(e) ==
  /\ ReadsTls(e) /\ AtEnd(e)
  /\ Flushed(e, log[e])
  /\ eof' = [eof EXCEPT ![e] = TRUE]
  /\ UNCHANGED <<apps, read, pos, shut, up, down, state>>

(* Mutant of Writable: the limit of the session's buffer is not kept. *)
MWritable(e) == ~eof[e] /\ ~Handshaking(e)

(* poll_write of one record: a pending flush does not prevent the write,   *)
(* only a session that is full does.                                       *)
Writable(e) ==
  ~eof[e] /\ ~Handshaking(e) /\ Len(log[e]) - Reach(e, Len(log[e])) < SessCap

PollWrite(e, item) == Writable(e) /\ Flushed(e, Append(log[e], item))

-----------------------------------------------------------------------------
(* Before the tunnel: VlessStream::connect on the client end,              *)
(* VlessProtocol::accept and the dispatcher's connect on the server end.   *)
(* Both write_all, then flush.                                             *)

Request(e) ==
  /\ state[e] = "connect"
  /\ PollWrite(e, Header)
  /\ state' = [state EXCEPT ![e] = "request"]
  /\ UNCHANGED <<apps, read, pos, eof, shut, up, down>>

Respond(e) ==
  /\ state[e] = "accept"
  /\ \E i \in Plain(e) : NextPlain(e, i) /\ pos' = [pos EXCEPT ![Other(e)] = i]
  /\ PollWrite(e, Header)
  /\ state' = [state EXCEPT ![e] = "response"]
  /\ UNCHANGED <<apps, read, eof, shut, up, down>>

StartTunnel(e) ==
  /\ state[e] \in {"request", "response"}
  /\ wrote[e] = Len(log[e])
  /\ state' = [state EXCEPT ![e] = "tunnel"]
  /\ UNCHANGED <<apps, session, read, pos, eof, shut, up, down>>

(* The stream is dropped, and its socket with it. *)
Drop(e, s) ==
  /\ state' = [state EXCEPT ![e] = s]
  /\ shut' = [shut EXCEPT ![e] = TRUE]
  /\ UNCHANGED <<apps, session, read, pos, eof, up, down>>

(* The outbound of the server end cannot connect: the client was already   *)
(* told that it can go on.                                                 *)
Refuse(e) ==
  /\ state[e] = "response" /\ wrote[e] = Len(log[e])
  /\ Drop(e, "refused")

-----------------------------------------------------------------------------
(* copy_bidirectional, from the application to the TlsStream. *)

UpRead(e) ==
  /\ state[e] = "tunnel" /\ upAt[e] = "copy" /\ upBuf[e] = None
  /\ taken[e] < sent[e]
  /\ upBuf' = [upBuf EXCEPT ![e] = taken[e] + 1]
  /\ taken' = [taken EXCEPT ![e] = @ + 1]
  /\ UNCHANGED <<apps, session, read, pos, eof, shut, upAt, down, state>>

UpWrite(e) ==
  /\ state[e] = "tunnel" /\ upBuf[e] # None
  /\ PollWrite(e, Data(upBuf[e]))
  /\ upBuf' = [upBuf EXCEPT ![e] = None]
  /\ UNCHANGED <<apps, read, pos, eof, shut, upAt, taken, down, state>>

(* Mutant of WriteReturnsZero: poll_write returns 0 when the session is full. *)
MZeroWhenFull(e) == eof[e] \/ ~Writable(e)

(* After the end of the inner stream poll_write returns 0. *)
WriteReturnsZero(e) == eof[e]

(* copy_bidirectional takes the 0 for an error, and the tunnel ends.  *)
UpWriteZero(e) ==
  /\ state[e] = "tunnel" /\ upBuf[e] # None
  /\ WriteReturnsZero(e)
  /\ Drop(e, "failed")

(* The application has closed, and all it sent has been written. *)
UpEnds(e) == state[e] = "tunnel" /\ upBuf[e] = None /\ closed[e] /\ taken[e] = sent[e]

(* poll_flush, then poll_shutdown, both of them nothing at all once eof is *)
(* set.                                                                    *)
UpEofAfterPeer(e) ==
  /\ UpEnds(e) /\ upAt[e] \in {"copy", "shutdown"}
  /\ eof[e]
  /\ upAt' = [upAt EXCEPT ![e] = "done"]
  /\ UNCHANGED <<apps, session, read, pos, eof, shut, upBuf, taken, down, state>>

(* Mutant of UpFinish: the stream is not shut down.                        *)
MNoShutdown(e) ==
  /\ UpEnds(e) /\ upAt[e] = "copy"
  /\ ~eof[e] /\ Flushes(e)
  /\ Flushed(e, log[e])
  /\ upAt' = [upAt EXCEPT ![e] = "done"]
  /\ UNCHANGED <<apps, read, pos, eof, shut, upBuf, taken, down, state>>

(* poll_flush is Ready, and poll_shutdown queues close_notify. *)
UpFinish(e) ==
  /\ UpEnds(e) /\ upAt[e] = "copy"
  /\ ~eof[e] /\ Flushes(e)
  /\ Flushed(e, Append(log[e], Notify))
  /\ LET done == wrote'[e] = Len(log'[e])
     IN /\ upAt' = [upAt EXCEPT ![e] = IF done THEN "done" ELSE "shutdown"]
        /\ shut' = [shut EXCEPT ![e] = done]
  /\ UNCHANGED <<apps, read, pos, eof, upBuf, taken, down, state>>

(* poll_shutdown again, after it was Pending. *)
UpShutdown(e) ==
  /\ UpEnds(e) /\ upAt[e] = "shutdown"
  /\ ~eof[e] /\ Flushes(e)
  /\ Flushed(e, log[e])
  /\ upAt' = [upAt EXCEPT ![e] = "done"]
  /\ shut' = [shut EXCEPT ![e] = TRUE]
  /\ UNCHANGED <<apps, read, pos, eof, upBuf, taken, down, state>>

-----------------------------------------------------------------------------
(* copy_bidirectional, from the TlsStream to the application. *)

(* poll_read of the plaintext the session holds; VlessStream drops the     *)
(* response header.                                                        *)
DownRead(e) ==
  /\ state[e] = "tunnel" /\ downAt[e] = "copy" /\ downBuf[e] = None
  /\ ~eof[e]
  /\ \E i \in Plain(e) :
       /\ NextPlain(e, i)
       /\ pos' = [pos EXCEPT ![Other(e)] = i]
       /\ downBuf' = [downBuf EXCEPT ![e] = log[Other(e)][i][2]]
  /\ UNCHANGED <<apps, session, read, eof, shut, up, downAt, state>>

DownWrite(e) ==
  /\ state[e] = "tunnel" /\ downBuf[e] # None
  /\ got' = [got EXCEPT ![e] = Append(@, downBuf[e])]
  /\ downBuf' = [downBuf EXCEPT ![e] = None]
  /\ UNCHANGED <<sent, closed, endSeen, session, read, pos, eof, shut, up, downAt, state>>

(* The end of the TlsStream: the application's stream is shut down. *)
DownEof(e) ==
  /\ state[e] = "tunnel" /\ downAt[e] = "copy" /\ downBuf[e] = None
  /\ eof[e]
  /\ endSeen' = [endSeen EXCEPT ![e] = TRUE]
  /\ downAt' = [downAt EXCEPT ![e] = "done"]
  /\ UNCHANGED <<sent, closed, got, session, read, pos, eof, shut, up, downBuf, state>>

-----------------------------------------------------------------------------
(* The end of a tunnel: both directions are done, or the peer, dropped     *)
(* with records unread, resets the connection.                             *)

Finish(e) ==
  /\ state[e] = "tunnel" /\ upAt[e] = "done" /\ downAt[e] = "done"
  /\ Drop(e, "ok")

Reset(e) ==
  /\ state[e] \notin Ended
  /\ state[Other(e)] \in Ended /\ read[e] < wrote[e]
  /\ Drop(e, "failed")

Step(e) ==
  \/ Flush(e)
  \/ \E k \in 1 .. WireCap : Drive(e, k)
  \/ DriveEof(e)
  \/ Request(e) \/ Respond(e) \/ StartTunnel(e)
  \/ UpRead(e) \/ UpWrite(e) \/ UpWriteZero(e) \/ UpEofAfterPeer(e) \/ UpFinish(e) \/ UpShutdown(e)
  \/ DownRead(e) \/ DownWrite(e) \/ DownEof(e)
  \/ Finish(e) \/ Reset(e)

Next == \E e \in End : Step(e) \/ AppSend(e) \/ AppClose(e) \/ Refuse(e)

Spec == Init /\ [][Next]_vars

(* Each end's task is polled when its sockets or its application are ready. *)
FairSpec == Spec /\ \A e \in End : WF_vars(Step(e))

-----------------------------------------------------------------------------
(* Properties. *)

Record == {"hello", "flight", "finished", "header", "notify", "data"} \X Nat
States == {"connect", "request", "accept", "response", "tunnel"} \cup Ended

(* Types; nothing is read before it was written, and what a socket and a   *)
(* session hold fits.                                                      *)
TypeOK ==
  /\ sent \in [End -> Nat] /\ closed \in [End -> BOOLEAN]
  /\ got \in [End -> Seq(Nat)] /\ endSeen \in [End -> BOOLEAN]
  /\ log \in [End -> Seq(Record)]
  /\ wrote \in [End -> Nat] /\ read \in [End -> Nat] /\ pos \in [End -> Nat]
  /\ eof \in [End -> BOOLEAN] /\ shut \in [End -> BOOLEAN]
  /\ upAt \in [End -> {"copy", "shutdown", "done"}] /\ upBuf \in [End -> Nat] /\ taken \in [End -> Nat]
  /\ downAt \in [End -> {"copy", "done"}] /\ downBuf \in [End -> Nat]
  /\ state \in [End -> States]
  /\ state["client"] \notin {"accept", "response", "refused"} /\ state["server"] \notin {"connect", "request"}
  /\ \A e \in End :
       /\ pos[e] <= read[e] /\ read[e] <= wrote[e] /\ wrote[e] <= Len(log[e])
       /\ wrote[e] <= read[e] + WireCap /\ Len(log[e]) <= wrote[e] + SessCap

(* eof, which hides whatever the session still holds, is set only when the *)
(* session has no plaintext left and no ciphertext to send.                *)
EofHidesNothing == \A e \in End : eof[e] => Plain(e) = {} /\ wrote[e] = Len(log[e])

(* An application sees the end of its stream only after all that the other *)
(* one sent before it closed, unless the tunnel of the other end failed or *)
(* was refused.                                                            *)
CleanEndIsComplete ==
  \A e \in End :
    endSeen[e] /\ state[Other(e)] \notin {"failed", "refused"} =>
      closed[Other(e)] /\ Len(got[e]) = sent[Other(e)]

(* A tunnel fails only after an application closed its side while the      *)
(* other went on, or after the server end was refused: never because a     *)
(* socket or a session was full.  This is over a network and a TLS peer    *)
(* without faults, whose errors end a tunnel too.                          *)
FailsOnlyAfterClose ==
  \A e \in End : state[e] = "failed" =>
    state["server"] = "refused" \/ closed[e] \/ closed[Other(e)]

(* What is under way somewhere between the applications. *)
UnderWay(e) ==
  /\ state[e] \notin Ended
  /\ \/ wrote[e] < Len(log[e]) \/ Plain(e) # {} \/ read[e] < wrote[e] \/ read[Other(e)] < wrote[Other(e)]
     \/ downBuf[e] # None \/ upBuf[e] # None \/ taken[e] < sent[e]

(* Both wires are full and both sessions hold ciphertext that does not fit. *)
Saturated == \A e \in End : wrote[e] = read[e] + WireCap /\ wrote[e] < Len(log[e])

(* The guards of the actions of Step, without what they do, written out    *)
(* because the prover has no ENABLED.                                      *)
CanCopy(e) ==
  \/ upAt[e] = "copy" /\ upBuf[e] = None /\ taken[e] < sent[e]
  \/ upBuf[e] # None /\ (Writable(e) \/ WriteReturnsZero(e))
  \/ UpEnds(e) /\ upAt[e] # "done" /\ (eof[e] \/ Flushes(e))
  \/ downAt[e] = "copy" /\ downBuf[e] = None /\ (eof[e] \/ Plain(e) # {})
  \/ downBuf[e] # None
  \/ upAt[e] = "done" /\ downAt[e] = "done"

CanStep(e) ==
  \/ state[e] \notin Ended /\ ~eof[e] /\ wrote[e] < Reach(e, Len(log[e]))
  \/ ReadsTls(e) /\ (AtEnd(e) \/ read[Other(e)] < wrote[Other(e)])
  \/ state[e] \in {"connect", "accept"} /\ Writable(e) /\ (state[e] = "accept" => Plain(e) # {})
  \/ state[e] \in {"request", "response"} /\ wrote[e] = Len(log[e])
  \/ state[e] = "tunnel" /\ CanCopy(e)
  \/ state[e] \notin Ended /\ state[Other(e)] \in Ended /\ read[e] < wrote[e]

(* The two ends stall only when both directions are saturated at once:     *)
(* then drive_tls_readable waits on both ends for a flush that only a read *)
(* of the other end makes possible.                                        *)
StallsOnlyWhenSaturated ==
  (\E e \in End : UnderWay(e)) /\ (\A e \in End : ~CanStep(e)) => Saturated

(* Each direction of the tunnel is a byte stream from one application to   *)
(* the other.                                                              *)
Upload   == INSTANCE ByteStream WITH sent <- [i \in 1 .. sent["client"] |-> i],
                                     received <- got["server"]
Download == INSTANCE ByteStream WITH sent <- [i \in 1 .. sent["server"] |-> i],
                                     received <- got["client"]
ImplementsByteStreams == Upload!Spec /\ Download!Spec

(* When an application closes, the other one learns it or the tunnel ends: *)
(* all that can prevent it is that both directions stay saturated.         *)
EndArrives ==
  \A e \in End : closed[e] ~> endSeen[Other(e)] \/ state[Other(e)] \in Ended \/ []Saturated

(* A client whose connection the server end refused, after it was told to  *)
(* go on, is not left waiting: poll_read turns the socket that ends without *)
(* close_notify into an end, or the tunnel fails.                          *)
RefusalArrives ==
  state["server"] = "refused" ~> endSeen["client"] \/ state["client"] \in Ended

(* What an end, its application and its streams have done: bytes, records *)
(* and places, of which there are Total in all.                            *)
Bytes(e)   == sent[e] + taken[e] + Len(got[e])
Records(e) == Len(log[e]) + wrote[e] + read[e] + pos[e]
StateRank(s) ==
  CASE s \in {"request", "response"} -> 1 [] s = "tunnel" -> 2 [] s \in Ended -> 3 [] OTHER -> 0
UpRank(a)  == IF a = "copy" THEN 0 ELSE IF a = "shutdown" THEN 1 ELSE 2
One(b)     == IF b THEN 1 ELSE 0
Places(e)  ==
  One(closed[e]) + One(eof[e]) + One(downAt[e] = "done") + UpRank(upAt[e]) + StateRank(state[e])
Done(e)    == Bytes(e) + Records(e) + Places(e)
Progress   == Done("client") + Done("server")
Total      == 7 * (MaxBytes["client"] + MaxBytes["server"]) + 44

(* No poll is in vain, and none is repeated for ever: every step moves a   *)
(* byte, a record or a place on, and never takes one back, so that a       *)
(* tunnel has run down after Total steps at the latest, however small the  *)
(* sockets and sessions are.                                               *)
EveryStepAdvances == [][Progress < Progress' /\ Progress' <= Total]_vars

-----------------------------------------------------------------------------
(* The inductive invariant: the records of a session are its opening, the  *)
(* bytes and close_notify, and how far each part of the two ends has got.  *)

Opening(e) == IF e = "client" THEN <<Hello, Fin, Header>> ELSE <<Flight, Header>>
Base(e)    == IF e = "client" THEN 3 ELSE 2

(* Bytes the session was given. *)
Given(e) == IF upBuf[e] = None THEN taken[e] ELSE taken[e] - 1

LogIs(e) ==
  \A i \in 1 .. Len(log[e]) :
    /\ i <= Base(e) => log[e][i] = Opening(e)[i]
    /\ Base(e) < i /\ i <= Base(e) + Given(e) => log[e][i] = Data(i - Base(e))
    /\ Base(e) + Given(e) < i => log[e][i] = Notify

(* What the handshake has come to. *)
Greeting ==
  /\ Len(log["client"]) >= 1
  /\ Len(log["client"]) >= 2 <=> read["server"] >= 1
  /\ Len(log["server"]) >= 1 <=> read["client"] >= 1
  /\ Len(log["server"]) >= 2 => read["client"] >= 2
  /\ Len(log["server"]) < 2 => pos["client"] = 0

Pace(e) ==
  /\ upBuf[e] \in {None, taken[e]} /\ taken[e] <= sent[e]
  /\ upAt[e] # "copy" => closed[e] /\ upBuf[e] = None /\ taken[e] = sent[e]
  /\ upAt[e] = "done" => wrote[e] = Len(log[e])
  /\ Len(log[e]) < Base(e) => taken[e] = 0 /\ upAt[e] = "copy"
  /\ Len(log[e]) >= Base(e) => Len(log[e]) >= Base(e) + Given(e)
  /\ Len(log[e]) <= Base(e) + Given(e) + IF upAt[e] = "copy" THEN 0 ELSE 1
  /\ state[e] \in {"connect", "accept"} => Len(log[e]) < Base(e)
  /\ state[e] \in {"request", "response", "tunnel"} => Len(log[e]) >= Base(e)

Delivered(e) ==
  LET o == Other(e)
  IN /\ pos[o] <= Base(o) + Given(o)
     /\ \A i \in 1 .. Len(got[e]) : got[e][i] = i
     /\ downBuf[e] # None => downBuf[e] = Len(got[e]) + 1
     /\ (IF downBuf[e] = None THEN Len(got[e]) ELSE downBuf[e])
          = IF pos[o] <= Base(o) THEN 0 ELSE pos[o] - Base(o)

EofIs(e)  == eof[e] => Plain(e) = {} /\ wrote[e] = Len(log[e]) /\ AtEnd(e)
SeenIs(e) == endSeen[e] => eof[e] /\ downBuf[e] = None /\ downAt[e] = "done"
ShutIs(e) ==
  /\ shut[e] => state[e] \in {"failed", "refused"} \/ upAt[e] = "done"
  /\ state[e] \in Ended => shut[e]

IInv ==
  /\ TypeOK /\ Greeting /\ FailsOnlyAfterClose
  /\ \A e \in End : LogIs(e) /\ Pace(e) /\ Delivered(e) /\ EofIs(e) /\ SeenIs(e) /\ ShutIs(e)

(* Why no end is left alone before the tunnel: the server answers once it  *)
(* has the request, only then can an end be over, and what one end writes  *)
(* before its tunnel is no more than its opening.                          *)
OpeningIs ==
  /\ Len(log["server"]) >= 2 => read["client"] >= 3
  /\ \A e \in End :
       /\ state[e] \in Ended => Len(log["server"]) >= 2
       /\ downAt[e] = "done" => eof[e]
       /\ state[e] \in {"request", "response"} => Len(log[e]) = Base(e)
=============================================================================
