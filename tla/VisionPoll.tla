------------------------------ MODULE VisionPoll ------------------------------
(***************************************************************************)
(* One end's task and the polling layer of its VisionTlsStream              *)
(* (protocol/vision_tls.rs 350-505): what each poll_... call leaves in the  *)
(* rustls session, and which wakers it leaves behind.  The bytes between    *)
(* framing and session are VisionFraming's; here an item is one of them all *)
(* the way, and frames are cut nowhere.                                     *)
(*                                                                         *)
(* The client's task writes and flushes the VLESS request and then is      *)
(* copy_bidirectional, application to stream first; the server's task is    *)
(* VlessProtocol::accept, which only reads.  The peer is external: it       *)
(* speaks TLS, but reads, writes and closes when it likes.                  *)
(***************************************************************************)
EXTENDS Naturals, Sequences

CONSTANTS
  Roles,      \* kinds of stream, among "client", "server"
  MaxUp,      \* items the application sends, the request included (model bound)
  MaxDown,    \* items the peer sends (model bound)
  MaxSilent,  \* records without plaintext the peer sends (model bound)
  WireCap,    \* records the socket buffer takes
  SessCap     \* items after which the session's writer takes no more

ASSUME VisionPollAssumption ==
  /\ Roles \subseteq {"client", "server"}
  /\ MaxUp \in Nat \ {0} /\ MaxDown \in Nat /\ MaxSilent \in Nat
  /\ WireCap \in Nat \ {0} /\ SessCap \in Nat \ {0}

VARIABLES
  role,      \* the kind of stream
  app,       \* application: items sent, closed?, items it got, end of stream seen?
  log,       \* every record the session has made, in order
  wrote,     \* records of log that the socket took
  early,     \* plaintext the session keeps until the handshake is over
  peer,      \* peer: records it took, items it got and sent, silent records, FIN?
  inlog,     \* every record the peer has sent
  read,      \* records of inlog that read_tls took
  pos,       \* records of inlog whose plaintext was handed over
  up,        \* copy to the stream: place, item in the buffer, items taken, need_flush
  down,      \* copy from the stream: "copy" or "done"
  task,      \* where the task stands, woken?, wakers left with the application and the socket
  hist       \* history: last poll_read ended at a silent record? rustls answered since
             \* write_tls was called? write_tls was blocked? shut down while handshaking?

session == <<log, wrote, early>>
vars == <<role, app, log, wrote, early, peer, inlog, read, pos, up, down, task, hist>>

Data(i) == <<"data", i>>
Ctl(k)  == <<k, 0>>
Hello    == Ctl("hello")
Flight   == Ctl("flight")
Finished == Ctl("finished")
Notify   == Ctl("notify")
Silent   == Ctl("silent")    \* part of a record, a ticket: no plaintext comes of it

None  == 0
Ended == {"spin", "ok", "failed"}

IsData(r) == r[1] = "data"
Took(r, n) == \E i \in 1 .. n : inlog[i] = r

(* Rustls: the client is done with the server's flight, the server with the *)
(* client's Finished.                                                       *)
HandshakingAt(n) == ~Took(IF role = "client" THEN Flight ELSE Finished, n)
Handshaking == HandshakingAt(read)
Notified == Took(Notify, read)
Plain(n) == {i \in pos + 1 .. n : IsData(inlog[i])}

(* What wrap and accept of security/vision_tls.rs leave in a new session:   *)
(* the client's has its first record ready, and no handshake happens there. *)
Wrap   == <<Hello>>
Accept == <<>>

Init ==
  /\ role \in Roles
  /\ app = [sent |-> 1, closed |-> FALSE, got |-> <<>>, eof |-> FALSE]
  /\ log = (IF role = "client" THEN Wrap ELSE Accept) /\ wrote = 0 /\ early = <<>>
  /\ peer = [took |-> 0, got |-> <<>>, sent |-> 0, silent |-> 0, shut |-> FALSE]
  /\ inlog = <<>> /\ read = 0 /\ pos = 0
  /\ up = [pc |-> IF role = "client" THEN "connect" ELSE "none", buf |-> None, taken |-> 0, need_flush |-> FALSE]
  /\ down = "copy"
  /\ task = [at |-> IF role = "client" THEN "up" ELSE "down", woken |-> FALSE, wakers |-> {}]
  /\ hist = [silent |-> FALSE, answered |-> FALSE, blocked |-> FALSE, hasty |-> FALSE]

-----------------------------------------------------------------------------
(* The runtime: an event uses up the waker that waits for it. *)

Wake(event) ==
  task' = [task EXCEPT !.woken = @ \/ event \in task.wakers, !.wakers = @ \ {event}]

(* copy_bidirectional starts with the application's direction; accept has   *)
(* only the other one.                                                      *)
Polled ==
  /\ task.at = "parked" /\ task.woken
  /\ task' = [task EXCEPT !.at = IF role = "client" THEN "up" ELSE "down", !.woken = FALSE]
  /\ UNCHANGED <<role, app, session, peer, inlog, read, pos, up, down, hist>>

-----------------------------------------------------------------------------
(* The application and the peer: external. *)

AppSend ==
  /\ role = "client" /\ task.at \notin Ended /\ ~app.closed /\ app.sent < MaxUp
  /\ app' = [app EXCEPT !.sent = @ + 1]
  /\ Wake("app")
  /\ UNCHANGED <<role, session, peer, inlog, read, pos, up, down, hist>>

AppClose ==
  /\ role = "client" /\ task.at \notin Ended /\ ~app.closed
  /\ app' = [app EXCEPT !.closed = TRUE]
  /\ Wake("app")
  /\ UNCHANGED <<role, session, peer, inlog, read, pos, up, down, hist>>

PeerSends(r) ==
  /\ ~peer.shut /\ task.at \notin Ended
  /\ ~Took(Notify, Len(inlog))
  /\ inlog' = Append(inlog, r)
  /\ Wake("in")
  /\ UNCHANGED <<role, app, session, read, pos, up, down, hist>>

(* The peer's part of the handshake: what it may send when it has taken n   *)
(* of this end's records.                                                   *)
PeerHandshakes ==
  LET r == IF role = "client" THEN Flight
           ELSE IF inlog = <<>> THEN Hello ELSE Finished
  IN /\ ~Took(r, Len(inlog))
     /\ r = Hello \/ peer.took > 0
     /\ PeerSends(r) /\ UNCHANGED peer

(* The handshake is over for the peer of a client: it took Finished second. *)
PeerReady == role = "client" /\ peer.took >= 2 /\ log[2] = Finished

PeerSendsSilent ==
  /\ peer.silent < MaxSilent
  /\ PeerSends(Silent) /\ peer' = [peer EXCEPT !.silent = @ + 1]

PeerSendsData ==
  /\ PeerReady /\ peer.sent < MaxDown
  /\ PeerSends(Data(peer.sent + 1)) /\ peer' = [peer EXCEPT !.sent = @ + 1]

PeerNotifies == PeerReady /\ PeerSends(Notify) /\ UNCHANGED peer

PeerShuts ==
  /\ ~peer.shut /\ task.at \notin Ended
  /\ peer' = [peer EXCEPT !.shut = TRUE]
  /\ Wake("in")
  /\ UNCHANGED <<role, app, session, inlog, read, pos, up, down, hist>>

(* The peer takes a record, and the socket has room again. *)
PeerTakes ==
  /\ peer.took < wrote
  /\ LET r == log[peer.took + 1] IN
       peer' = [peer EXCEPT !.took = @ + 1, !.got = IF IsData(r) THEN Append(@, r[2]) ELSE @]
  /\ Wake("out")
  /\ UNCHANGED <<role, app, session, inlog, read, pos, up, down, hist>>

-----------------------------------------------------------------------------
(* write_tls until the session has nothing more to write, or the socket     *)
(* would block and keeps the waker.                                         *)

(* Mutant of Reach: that the socket would block is not heeded. *)
MReach(n) == n

Reach(n)  == IF n <= peer.took + WireCap THEN n ELSE peer.took + WireCap
Blocks(n) == Reach(n) < n

(* Mutant of Drain: WouldBlock without the socket's waker. *)
MDrain(n, place) ==
  /\ wrote' = Reach(n)
  /\ task' = [task EXCEPT !.at = place]
  /\ hist' = [hist EXCEPT !.answered = FALSE, !.blocked = Blocks(n)]

Drain(n, place) ==
  /\ wrote' = Reach(n)
  /\ task' = [task EXCEPT !.at = place, !.wakers = IF Blocks(n) THEN @ \cup {"out"} ELSE @]
  /\ hist' = [hist EXCEPT !.answered = FALSE, !.blocked = Blocks(n)]

(* The application to the stream; its first item is the request. *)

UpRead ==
  /\ task.at = "up" /\ up.taken < IF up.pc = "connect" THEN 1 ELSE app.sent
  /\ up.pc \in {"connect", "copy"} /\ up.buf = None
  /\ up' = [up EXCEPT !.buf = up.taken + 1, !.taken = @ + 1]
  /\ UNCHANGED <<role, app, session, peer, inlog, read, pos, down, task, hist>>

(* The writer of a session takes plaintext up to a limit, before and after  *)
(* the handshake.                                                           *)
Room == IF Handshaking THEN Len(early) < SessCap ELSE Len(log) - wrote < SessCap

(* Mutant of UpWrite: the ciphertext is left to the next flush. *)
MUpWrite ==
  /\ task.at = "up" /\ up.buf # None /\ Room
  /\ early' = IF Handshaking THEN Append(early, up.buf) ELSE early
  /\ log' = IF Handshaking THEN log ELSE Append(log, Data(up.buf))
  /\ up' = [up EXCEPT !.buf = None, !.need_flush = up.pc = "copy"]
  /\ UNCHANGED <<role, app, wrote, peer, inlog, read, pos, down, task, hist>>

(* poll_write, which is never Pending: write_tls comes after the frame is   *)
(* in the session, and what the socket does not take stays there.           *)
UpWrite ==
  /\ task.at = "up" /\ up.buf # None /\ Room
  /\ early' = IF Handshaking THEN Append(early, up.buf) ELSE early
  /\ log' = IF Handshaking THEN log ELSE Append(log, Data(up.buf))
  /\ Drain(Len(log'), "up")
  /\ up' = [up EXCEPT !.buf = None, !.need_flush = up.pc = "copy"]
  /\ UNCHANGED <<role, app, peer, inlog, read, pos, down>>

(* The writer returns Ok(0), again and again. *)
UpSpins ==
  /\ task.at = "up" /\ up.buf # None /\ ~Room
  /\ task' = [task EXCEPT !.at = "spin"]
  /\ UNCHANGED <<role, app, session, peer, inlog, read, pos, up, down, hist>>

(* VlessStream::connect awaits a flush before the copy starts. *)
UpConnected ==
  /\ task.at = "up" /\ up.pc = "connect" /\ up.taken = 1 /\ up.buf = None
  /\ Drain(Len(log), IF Blocks(Len(log)) THEN "parked" ELSE "up")
  /\ up' = [up EXCEPT !.pc = IF Blocks(Len(log)) THEN @ ELSE "copy"]
  /\ UNCHANGED <<role, app, log, early, peer, inlog, read, pos, down>>

(* Mutant of UpPause: poll_flush is Ready when the socket would block. *)
MUpPause ==
  /\ task.at = "up" /\ up.pc = "copy" /\ up.buf = None
  /\ up.taken = app.sent /\ ~app.closed
  /\ wrote' = IF up.need_flush THEN Reach(Len(log)) ELSE wrote
  /\ up' = [up EXCEPT !.need_flush = FALSE]
  /\ task' = [task EXCEPT !.at = "down", !.wakers = @ \cup {"app"}]
  /\ hist' = IF up.need_flush THEN [hist EXCEPT !.answered = FALSE] ELSE hist
  /\ UNCHANGED <<role, app, log, early, peer, inlog, read, pos, down>>

(* Nothing to read from the application: poll_flush, if something was       *)
(* written since the last one.                                              *)
UpPause ==
  /\ task.at = "up" /\ up.pc = "copy" /\ up.buf = None
  /\ up.taken = app.sent /\ ~app.closed
  /\ LET flush == up.need_flush /\ Blocks(Len(log)) IN
       /\ wrote' = IF up.need_flush THEN Reach(Len(log)) ELSE wrote
       /\ up' = [up EXCEPT !.need_flush = flush]
       /\ task' = [task EXCEPT !.at = "down",
                               !.wakers = @ \cup {"app"} \cup IF flush THEN {"out"} ELSE {}]
       /\ hist' = IF up.need_flush THEN [hist EXCEPT !.answered = FALSE, !.blocked = flush]
                  ELSE hist
  /\ UNCHANGED <<role, app, log, early, peer, inlog, read, pos, down>>

(* The application closed: poll_flush, and when it is Ready poll_shutdown,  *)
(* which queues close_notify, writes, and shuts the socket down.            *)
UpClose ==
  /\ task.at = "up" /\ up.pc = "copy" /\ up.buf = None
  /\ up.taken = app.sent /\ app.closed
  /\ IF Blocks(Len(log))
       THEN /\ Drain(Len(log), "down")
            /\ UNCHANGED <<log, up>>
       ELSE /\ log' = Append(log, Notify)
            /\ wrote' = Reach(Len(log'))
            /\ up' = [up EXCEPT !.pc = IF Blocks(Len(log')) THEN "shutdown" ELSE "done"]
            /\ task' = [task EXCEPT !.at = "down",
                                    !.wakers = IF Blocks(Len(log')) THEN @ \cup {"out"} ELSE @]
            /\ hist' = [hist EXCEPT !.answered = FALSE, !.blocked = Blocks(Len(log')), !.hasty = Handshaking]
  /\ UNCHANGED <<role, app, early, peer, inlog, read, pos, down>>

(* Mutant of UpShutdown: the socket is shut down without another write_tls. *)
MUpShutdown ==
  /\ task.at = "up" /\ up.pc = "shutdown"
  /\ up' = [up EXCEPT !.pc = "done"] /\ task' = [task EXCEPT !.at = "down"]
  /\ UNCHANGED <<role, app, session, peer, inlog, read, pos, down, hist>>

(* poll_shutdown again, after it was Pending. *)
UpShutdown ==
  /\ task.at = "up" /\ up.pc = "shutdown"
  /\ Drain(Len(log), "down")
  /\ up' = [up EXCEPT !.pc = IF Blocks(Len(log)) THEN @ ELSE "done"]
  /\ UNCHANGED <<role, app, log, early, peer, inlog, read, pos, down>>

UpDone ==
  /\ task.at = "up" /\ up.pc = "done"
  /\ task' = [task EXCEPT !.at = "down"]
  /\ UNCHANGED <<role, app, session, peer, inlog, read, pos, up, down, hist>>

-----------------------------------------------------------------------------
(* The stream to the application. *)

Reading == task.at = "down" /\ down = "copy" /\ Plain(read) = {}

(* Mutant of DownRead: the plaintext of a read replaces the plaintext before. *)
MDownRead ==
  /\ task.at = "down" /\ down = "copy"
  /\ \E i \in Plain(read) :
       /\ \A j \in Plain(read) : i >= j
       /\ app' = [app EXCEPT !.got = Append(@, inlog[i][2])]
       /\ pos' = i
  /\ UNCHANGED <<role, session, peer, inlog, read, up, down, task, hist>>

(* poll_read: plaintext that the session or read_buf holds. *)
DownRead ==
  /\ task.at = "down" /\ down = "copy"
  /\ \E i \in Plain(read) :
       /\ \A j \in Plain(read) : i <= j
       /\ app' = [app EXCEPT !.got = Append(@, inlog[i][2])]
       /\ pos' = i
  /\ UNCHANGED <<role, session, peer, inlog, read, up, down, task, hist>>

(* What rustls answers to a read up to record n, and does not write: the    *)
(* server's flight, or the client's Finished with what waited for it.       *)
Answer(n) ==
  IF role = "server"
    THEN IF Took(Hello, n) /\ ~Took(Hello, read) THEN <<Flight>> ELSE <<>>
    ELSE IF Handshaking /\ ~HandshakingAt(n)
           THEN <<Finished>> \o [i \in DOMAIN early |-> Data(early[i])] ELSE <<>>

(* read_tls of k records, and process_new_packets.  Without plaintext the   *)
(* reader's WouldBlock is returned as Pending, and no waker waits.          *)
Receive(k) ==
  /\ Reading /\ ~Notified /\ read + k <= Len(inlog)
  /\ read' = read + k
  /\ log' = log \o Answer(read')
  /\ early' = IF HandshakingAt(read') THEN early ELSE <<>>
  /\ LET silent == Plain(read') = {} /\ ~Took(Notify, read') IN
       /\ task' = [task EXCEPT !.at = IF silent THEN "parked" ELSE @]
       /\ hist' = [hist EXCEPT !.silent = silent, !.answered = @ \/ log' # log]
  /\ UNCHANGED <<role, app, wrote, peer, inlog, pos, up, down>>

DownWait ==
  /\ Reading /\ ~Notified /\ read = Len(inlog) /\ ~peer.shut
  /\ task' = [task EXCEPT !.at = "parked", !.wakers = @ \cup {"in"}]
  /\ hist' = [hist EXCEPT !.silent = FALSE]
  /\ UNCHANGED <<role, app, session, peer, inlog, read, pos, up, down>>

(* After close_notify read_tls returns 0, and poll_read an empty buffer. *)
DownEof ==
  /\ Reading /\ Notified
  /\ down' = "done" /\ app' = [app EXCEPT !.eof = TRUE]
  /\ hist' = [hist EXCEPT !.silent = FALSE]
  /\ UNCHANGED <<role, session, peer, inlog, read, pos, up, task>>

(* Mutant of DownCut: a read of 0 bytes is the end of the stream. *)
MDownCut ==
  /\ Reading /\ ~Notified /\ read = Len(inlog) /\ peer.shut
  /\ down' = "done" /\ app' = [app EXCEPT !.eof = TRUE]
  /\ UNCHANGED <<role, session, peer, inlog, read, pos, up, task, hist>>

(* The end of the socket without close_notify: the reader reports           *)
(* UnexpectedEof, and the task ends with the error.                         *)
DownCut ==
  /\ Reading /\ ~Notified /\ read = Len(inlog) /\ peer.shut
  /\ task' = [task EXCEPT !.at = "failed"]
  /\ UNCHANGED <<role, app, session, peer, inlog, read, pos, up, down, hist>>

(* Both directions are Ready, or the task waits for the other one. *)
DownDone ==
  /\ task.at = "down" /\ down = "done"
  /\ task' = [task EXCEPT !.at = IF up.pc = "done" THEN "ok" ELSE "parked"]
  /\ UNCHANGED <<role, app, session, peer, inlog, read, pos, up, down, hist>>

(* An error of the socket, which a peer that is gone causes, or a record    *)
(* that process_new_packets rejects: poll_read returns it.                  *)
InnerError ==
  /\ task.at \in {"up", "down"}
  /\ peer.shut \/ (Reading /\ ~Notified /\ read < Len(inlog))
  /\ task' = [task EXCEPT !.at = "failed"]
  /\ UNCHANGED <<role, app, session, peer, inlog, read, pos, up, down, hist>>

Own ==
  \/ Polled \/ UpRead \/ UpWrite \/ UpSpins \/ UpConnected \/ UpPause \/ UpClose \/ UpShutdown \/ UpDone
  \/ DownRead \/ (\E k \in 1 .. Len(inlog) : Receive(k)) \/ DownWait \/ DownEof \/ DownCut \/ DownDone

External ==
  \/ AppSend \/ AppClose \/ PeerHandshakes \/ PeerSendsSilent \/ PeerSendsData
  \/ PeerNotifies \/ PeerShuts \/ PeerTakes \/ InnerError

Next == Own \/ External

Spec == Init /\ [][Next]_vars

(* A task that was woken is polled, a poll goes on to its end, and the peer *)
(* takes what it is sent; it need not send, nor need the application.       *)
FairSpec == Spec /\ WF_vars(Own) /\ WF_vars(PeerTakes)

-----------------------------------------------------------------------------
(* Properties. *)

Record == {"hello", "flight", "finished", "notify", "silent", "data"} \X Nat
Logs   == Seq(Record)
Items  == Seq(Nat)
Apps   == [sent : 1 .. MaxUp, closed : BOOLEAN, got : Items, eof : BOOLEAN]
Peers  == [took : Nat, got : Items, sent : 0 .. MaxDown, silent : 0 .. MaxSilent, shut : BOOLEAN]
Ups    == [pc : {"none", "connect", "copy", "shutdown", "done"}, buf : Nat, taken : Nat,
           need_flush : BOOLEAN]
Tasks  == [at : {"up", "down", "parked"} \cup Ended, woken : BOOLEAN,
           wakers : SUBSET {"app", "in", "out"}]
Hists  == [silent : BOOLEAN, answered : BOOLEAN, blocked : BOOLEAN, hasty : BOOLEAN]

(* Types; what the session and the socket hold fits, and no record or item  *)
(* is read before it was sent.                                              *)
TypeOK ==
  /\ role \in Roles
  /\ app \in Apps /\ peer \in Peers /\ up \in Ups /\ task \in Tasks /\ hist \in Hists
  /\ down \in {"copy", "done"}
  /\ log \in Logs /\ wrote \in peer.took .. Len(log) /\ wrote <= peer.took + WireCap
  /\ early \in Items /\ Len(early) <= SessCap
  /\ inlog \in Logs /\ read \in 0 .. Len(inlog) /\ pos \in 0 .. read
  /\ up.taken <= app.sent /\ up.buf \in {None, up.taken}

(* A parked task that could go on - with an item or the end of the          *)
(* application, records or the end of the socket, or ciphertext the socket  *)
(* would take - has been woken, but for what vision_tls.rs:406 leaves       *)
(* behind: a poll_read that ended at a record without plaintext registered  *)
(* no waker, and what rustls answered to that record is not written.        *)
StallsOnlyAfterSilence ==
  task.at = "parked" /\ ~task.woken =>
    /\ ~(role = "client" /\ up.pc = "copy" /\ (up.taken < app.sent \/ app.closed)
            /\ ~Blocks(Len(log)))
    /\ down = "copy" /\ up.pc # "connect" /\ (read < Len(inlog) \/ peer.shut) => hist.silent
    /\ up.pc # "done" /\ wrote < Reach(Len(log)) => hist.answered

(* When poll_shutdown is Ready, everything the application sent is on the   *)
(* wire, in front of close_notify, unless the stream was shut down during   *)
(* the handshake: poll_flush is Ready then although plaintext waits.        *)
CloseLosesNothing ==
  up.pc = "done" /\ ~hist.hasty =>
    /\ wrote = Len(log) /\ log[wrote] = Notify /\ early = <<>>
    /\ \A v \in 1 .. app.sent : \E i \in 1 .. wrote : log[i] = Data(v)

(* poll_write spins for ever only when the session is full because the      *)
(* handshake is not over, the socket was blocked when it was last written   *)
(* to, or the last read left its answer unwritten.                          *)
SpinsOnlyWhenHeldBack == task.at = "spin" => Handshaking \/ hist.blocked \/ hist.answered

(* The end of the stream is reported after close_notify and the last item   *)
(* only; a connection that was cut ends in an error (unlike TlsStream's).   *)
EndIsNotified == app.eof => Took(Notify, Len(inlog)) /\ Len(app.got) = peer.sent

(* Each direction is a byte stream. *)
Upload   == INSTANCE ByteStream WITH sent <- [i \in 1 .. up.taken |-> i], received <- peer.got
Download == INSTANCE ByteStream WITH sent <- [i \in 1 .. peer.sent |-> i], received <- app.got
ImplementsByteStreams == Upload!Spec /\ Download!Spec

(* When the application closes, poll_shutdown gets to its end, whatever the *)
(* peer sends and however often the socket is full, unless the task ends.   *)
CloseGoesOut == role = "client" /\ app.closed ~> up.pc = "done" \/ task.at \in Ended

(* "rustls buf cipher to inner" (vision_tls.rs:474): what rustls has to     *)
(* send goes to the inner stream.                                           *)
CipherGoesToInner ==
  task.at \notin Ended /\ wrote < Len(log) ~> wrote = Len(log) \/ task.at \in Ended

(* Items that the session was given. *)
Given == IF up.buf = None THEN up.taken ELSE up.taken - 1

(* What happened to the task, what it did, and how far its poll is: an event *)
(* wakes it at most once, and a waker left with it is used up by that.      *)
One(b)  == IF b THEN 1 ELSE 0
Stage(pc) == CASE pc = "copy" -> 1 [] pc = "shutdown" -> 2 [] pc = "done" -> 3 [] OTHER -> 0
Spot(at)  == CASE at = "up" -> 0 [] at = "down" -> 1 [] at = "parked" -> 2 [] OTHER -> 3
Events   == app.sent + One(app.closed) + Len(inlog) + One(peer.shut) + peer.took
Work     == up.taken + Given + Stage(up.pc) + read + pos + One(down = "done")
Place    == Spot(task.at) + IF task.woken THEN 0 ELSE 3
Progress == 4 * Events + Work + Place
Total    == 10 * MaxUp + 6 * (MaxDown + MaxSilent) + 42

(* Nothing goes round: the task is polled at most once for each event,     *)
(* whatever wakers earlier polls left behind, and within a poll each call   *)
(* takes an item or a record on, or the poll nearer to its end.  A          *)
(* poll_write that spins has come to its place and leaves it no more.       *)
EveryStepAdvances == [][Progress < Progress' /\ Progress' <= Total]_vars

-----------------------------------------------------------------------------
(* The inductive invariant: what is where in each direction, and who wakes  *)
(* the task.                                                                *)

Closing == up.pc \in {"shutdown", "done"}

(* Records before the first item of log. *)
Before == IF hist.hasty THEN 3 ELSE 2

ServerLog ==
  /\ up.pc = "none" /\ up.buf = None /\ up.taken = 0 /\ task.at # "up"
  /\ wrote = 0 /\ early = <<>> /\ ~hist.hasty
  /\ log # <<>> => hist.answered

ClientLog ==
  /\ up.pc # "none" /\ log # <<>> /\ log[1] = Hello
  /\ up.pc = "connect" => up.taken <= 1
  /\ hist.hasty => Closing /\ Len(log) >= 2 /\ log[2] = Notify
  /\ Closing => up.buf = None /\ up.taken = app.sent /\ app.closed
  /\ Handshaking =>
       /\ Len(log) = Before - 1 /\ (Closing => hist.hasty)
       /\ Len(early) = Given /\ \A i \in 1 .. Len(early) : early[i] = i
  /\ ~Handshaking =>
       /\ early = <<>> /\ log[Before] = Finished
       /\ \A i \in 1 .. Given : log[Before + i] = Data(i)
       /\ Len(log) = Before + Given + IF Closing /\ ~hist.hasty THEN 1 ELSE 0
       /\ Closing /\ ~hist.hasty => log[Len(log)] = Notify
  /\ up.pc = "done" /\ ~hist.hasty => wrote = Len(log)

PeerHas ==
  /\ \A i \in 1 .. Len(peer.got) : peer.got[i] = i
  /\ Len(peer.got) = IF peer.took <= Before THEN 0
                     ELSE IF peer.took <= Before + Given THEN peer.took - Before ELSE Given

Incoming ==
  /\ \A i \in 1 .. Len(inlog) : IsData(inlog[i]) => inlog[i][2] \in 1 .. peer.sent
  /\ \A v \in 1 .. peer.sent : \E i \in 1 .. Len(inlog) : inlog[i] = Data(v)
  /\ \A i, j \in 1 .. Len(inlog) :
       i < j /\ IsData(inlog[i]) /\ IsData(inlog[j]) => inlog[i][2] < inlog[j][2]
  /\ \A i \in 1 .. Len(inlog) : inlog[i] = Notify => i = Len(inlog)

AppHas ==
  /\ \A i \in 1 .. Len(app.got) : app.got[i] = i
  /\ Len(app.got) <= peer.sent
  /\ \A i \in 1 .. Len(inlog) :
       IsData(inlog[i]) => (i <= pos <=> inlog[i][2] <= Len(app.got))
  /\ app.eof => Took(Notify, Len(inlog)) /\ Len(app.got) = peer.sent

(* The socket is full, and wakes the task. *)
Full == wrote = peer.took + WireCap /\ "out" \in task.wakers

Asleep == task.at \in {"down", "parked"} /\ ~task.woken

Waiting ==
  /\ Asleep /\ role = "client" /\ up.pc = "copy" =>
       /\ up.taken = app.sent
       /\ IF app.closed THEN Full /\ wrote < Len(log) ELSE "app" \in task.wakers
  /\ Asleep /\ task.at = "parked" /\ down = "copy" /\ up.pc # "connect" /\ ~hist.silent =>
       read = Len(inlog) /\ ~peer.shut /\ "in" \in task.wakers
  /\ Asleep /\ up.pc # "done" /\ ~hist.answered => wrote = Len(log) \/ Full

Written ==
  /\ up.pc = "copy" /\ ~up.need_flush /\ ~hist.answered /\ ~app.closed => wrote = Len(log)
  /\ ~Handshaking /\ ~hist.blocked /\ ~hist.answered => wrote = Len(log)
  /\ task.at = "spin" => Handshaking \/ hist.blocked \/ hist.answered

IInv ==
  /\ TypeOK
  /\ role = "server" => ServerLog
  /\ role = "client" => ClientLog
  /\ PeerHas /\ Incoming /\ AppHas /\ Waiting /\ Written
=============================================================================
