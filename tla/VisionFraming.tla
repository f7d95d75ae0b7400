--------------------------- MODULE VisionFraming ----------------------------
(***************************************************************************)
(* One direction of a VisionTlsStream (protocol/vision_tls.rs): frame_buf  *)
(* on the writing side, unframe_read_buf and the loop of poll_read on the  *)
(* reading side.  Between the two the TLS session is an ordered, reliable  *)
(* sequence of plaintext bytes that reaches read_buf in chunks of any size.*)
(*                                                                         *)
(* A byte is a cell [tag, val].  The reader decides on val only, as the    *)
(* code does; tag is what the writer meant, so a reader that is out of     *)
(* step with the frames delivers cells whose tag is not "data".  The two   *)
(* u16 fields of the frame header are one cell each.                       *)
(***************************************************************************)
EXTENDS Naturals, Sequences

CONSTANTS
  Peers,           \* the kinds of writer a run considers, a subset of PeerKinds
  IdLen,           \* length of a UUID on the wire (16)
  MaxFrame,        \* u16::MAX, the longest content of a frame (65535)
  MaxWrite,        \* the longest buffer a caller passes to poll_write
  TempBuf,         \* size of temp_buf in poll_read (4096)
  MaxRoom,         \* the largest read buffer a caller passes to poll_read
  LongThreshold, LongBase, LongPad, ShortPad,  \* padding parameters (900, 500, 500, 256)
  AppDataMin,      \* bytes needed to sniff an application data record (3)
  HandshakeMin,    \* bytes needed to sniff a handshake record (6)
  HelloFixed,      \* bytes of a hello up to and with the session id length (44)
  HelloSuite,      \* bytes of a hello up to the suite, without the session id (47)
  SniffMax,        \* MAX_TLS_SNIFFING_LEN (128)
  SessionIdLens,   \* session id lengths the sniffed hello may carry
  Classes,         \* kinds of buffer the application writes, a subset of BufClasses
  MaxWire          \* bound on the length of the wire history (model bound)

PeerKinds  == {"client", "server", "unknown", "foreign", "plain"}
BufClasses == {"clientHello", "serverHello", "handshake", "appData", "other"}
Suites     == {"ccm8", "other"}
Stages     == {"Id", "Header", "Content", "Padding"}

ContinuePadding == 0
EndPadding      == 1
StartDirectCopy == 2
Commands        == {ContinuePadding, EndPadding, StartDirectCopy}
HdrLen          == 3

ASSUME FramingAssumption ==
  /\ Peers \subseteq PeerKinds
  /\ Classes \subseteq BufClasses
  /\ IdLen \in Nat \ {0}
  /\ MaxFrame \in Nat \ {0}
  /\ MaxWrite \in Nat
  /\ TempBuf \in Nat \ {0}
  /\ MaxRoom \in Nat
  /\ LongThreshold \in Nat /\ LongBase \in Nat /\ LongPad \in Nat /\ ShortPad \in Nat
  /\ LongBase + LongPad <= MaxFrame    \* the u16 sum in frame_buf does not overflow
  /\ ShortPad <= MaxFrame
  /\ AppDataMin \in Nat /\ HandshakeMin \in Nat
  /\ HelloFixed \in Nat /\ HelloSuite \in Nat /\ SniffMax \in Nat
  /\ SessionIdLens \subseteq Nat
  /\ MaxWire \in Nat

VARIABLES
  peer,                   \* who writes: this code's client or server, a client whose id the
                          \* server does not list, another Vision client, a client without Vision
  inner_suite,            \* cipher suite of the TLS session that is proxied inside
  closed,                 \* the writer has shut its side down
  has_sent_id, write_direct_copy, can_start_direct_copy,
  server_hello_buf,       \* the sniffed bytes: how many, and the two fields parsed from them
  sent,                   \* number of application bytes accepted by poll_write
  wire,                   \* every byte written so far (history)
  mark, tail,             \* history: frame boundary |-> application bytes before it; last boundary
  fed,                    \* bytes of wire that have been put into read_buf
  rpos,                   \* bytes of wire taken out of read_buf
  stage, command, remaining_content_len, remaining_padding_len, read_direct_copy,
  delivered,              \* cells handed to the caller of poll_read
  pc,                     \* where the reader is: "idle", "unframe", "fill", "eof", "failed"
  room, n                 \* buf.remaining() and the bytes put so far by this unframe_read_buf

writer_vars == <<peer, inner_suite, closed, has_sent_id, write_direct_copy,
                 can_start_direct_copy, server_hello_buf, sent, wire, mark, tail>>
reader_vars == <<fed, rpos, stage, command, remaining_content_len,
                 remaining_padding_len, read_direct_copy, delivered, pc, room, n>>
vars == <<writer_vars, reader_vars>>

Smaller(a, b) == IF a <= b THEN a ELSE b
Monus(a, b)   == IF a <= b THEN 0 ELSE a - b

-----------------------------------------------------------------------------
(* Cells and frames. *)

Cell  == [tag : {"id", "badid", "cmd", "clen", "plen", "data", "pad"}, val : Nat]
Bytes == Seq(Cell)

IdCells(tag)          == [i \in 1 .. IdLen |-> [tag |-> tag, val |-> i]]
DataCells(first, len) == [i \in 1 .. len |-> [tag |-> "data", val |-> first + i]]
PadCells(len)         == [i \in 1 .. len |-> [tag |-> "pad", val |-> 0]]

(* Mutant of Frame: padding ended by every frame. *)
MFrameEnds(cmd, first, clen, plen) ==
  << [tag |-> "cmd", val |-> EndPadding], [tag |-> "clen", val |-> clen], [tag |-> "plen", val |-> plen] >>
  \o DataCells(first, clen) \o PadCells(plen)

Frame(cmd, first, clen, plen) ==
  << [tag |-> "cmd", val |-> cmd], [tag |-> "clen", val |-> clen], [tag |-> "plen", val |-> plen] >>
  \o DataCells(first, clen) \o PadCells(plen)

(* The id that opens the stream: written once, by clients only. *)
IdPrefix == IF peer = "server" \/ has_sent_id THEN <<>>
            ELSE IdCells(IF peer = "unknown" THEN "badid" ELSE "id")

PaddingLens(len) ==
  IF len <= LongThreshold
  THEN {Monus(r + LongBase, len) : r \in 0 .. LongPad}
  ELSE 0 .. ShortPad

NoHello == [len |-> 0, sid |-> 0, suite |-> "other"]

-----------------------------------------------------------------------------
Init ==
  /\ peer \in Peers
  /\ inner_suite \in Suites
  /\ closed = FALSE
  /\ has_sent_id = FALSE /\ write_direct_copy = FALSE /\ can_start_direct_copy = FALSE
  /\ server_hello_buf = NoHello
  /\ sent = 0 /\ wire = <<>>
  /\ tail = (IF peer = "server" THEN 0 ELSE IdLen)
  /\ mark = [b \in {tail} |-> 0]
  /\ fed = 0 /\ rpos = 0
  /\ stage = "Id" /\ command = ContinuePadding
  /\ remaining_content_len = 0 /\ remaining_padding_len = 0
  /\ read_direct_copy = FALSE
  /\ delivered = <<>>
  /\ pc = "idle" /\ room = 0 /\ n = 0

-----------------------------------------------------------------------------
(* The writer. *)

CanWrite == ~closed /\ Len(wire) < MaxWire

(* Put one frame on the wire, after the id when the stream starts with it. *)
EmitFrame(cmd, clen, plen) ==
  /\ wire' = wire \o IdPrefix \o Frame(cmd, sent, clen, plen)
  /\ sent' = sent + clen
  /\ tail' = Len(wire')
  /\ mark' = [b \in DOMAIN mark \cup {tail'} |-> IF b = tail' THEN sent' ELSE mark[b]]

MinLen(cls) == CASE cls = "appData" -> AppDataMin
                 [] cls = "other"   -> 0
                 [] OTHER           -> HandshakeMin

(* Mutant of SuiteField: the suite is read at a wrong offset. *)
MSuiteMissed(cls) == "other"

(* The bytes at the place of the cipher suite: only a ServerHello has one there. *)
SuiteField(cls) == IF cls = "serverHello" THEN inner_suite ELSE "other"

Grown(len) ==
  IF server_hello_buf.len < SniffMax
  THEN server_hello_buf.len + Smaller(SniffMax - server_hello_buf.len, len)
  ELSE server_hello_buf.len

(* The sniffing of handshake records that frame_buf does on every buffer. *)
SniffFirst(cls, len, sid) ==
  /\ server_hello_buf.len = 0
  /\ IF cls \in {"clientHello", "serverHello", "handshake"}
     THEN /\ server_hello_buf' = [len |-> len, sid |-> sid, suite |-> SuiteField(cls)]
          /\ can_start_direct_copy' = (can_start_direct_copy \/ cls = "clientHello")
     ELSE UNCHANGED <<server_hello_buf, can_start_direct_copy>>

SniffMore(len) ==
  /\ server_hello_buf.len > 0
  /\ IF /\ Grown(len) >= HelloFixed
        /\ Grown(len) >= HelloSuite + server_hello_buf.sid
     THEN /\ can_start_direct_copy' = (server_hello_buf.suite # "ccm8")
          /\ server_hello_buf' = NoHello
     ELSE /\ server_hello_buf' = [server_hello_buf EXCEPT !.len = Grown(len)]
          /\ UNCHANGED can_start_direct_copy

(* poll_write of a caller's buffer of the given length; the code frames at *)
(* most u16::MAX of it and returns that length.                            *)
WriteFramed(cls, asked, sid) ==
  /\ CanWrite
  /\ peer \in {"client", "server", "unknown"}
  /\ ~write_direct_copy
  /\ LET len   == Smaller(asked, MaxFrame)
         start == can_start_direct_copy /\ cls = "appData"
     IN /\ len >= MinLen(cls)
        /\ \E plen \in PaddingLens(len) :
             EmitFrame(IF start THEN StartDirectCopy ELSE ContinuePadding, len, plen)
        /\ write_direct_copy' = start
        /\ SniffFirst(cls, len, sid) \/ SniffMore(len)
  /\ has_sent_id' = (has_sent_id \/ peer # "server")
  /\ UNCHANGED <<peer, inner_suite, closed, reader_vars>>

(* After the switch frame_buf appends the buffer as it is.  A client that  *)
(* does not speak Vision writes this way from the start.                   *)
WriteRaw(asked) ==
  /\ CanWrite
  /\ write_direct_copy \/ peer = "plain"
  /\ LET len == Smaller(asked, MaxFrame)
     IN /\ wire' = wire \o DataCells(sent, len)
        /\ sent' = sent + len
  /\ UNCHANGED <<peer, inner_suite, closed, has_sent_id, write_direct_copy,
                 can_start_direct_copy, server_hello_buf, mark, tail, reader_vars>>

(* A frame of another Vision client: any command, empty contents, any padding. *)
ForeignFrame(cmd, clen, plen) ==
  /\ CanWrite
  /\ peer = "foreign" /\ ~write_direct_copy
  /\ EmitFrame(cmd, clen, plen)
  /\ has_sent_id' = TRUE
  /\ write_direct_copy' = (cmd # ContinuePadding)
  /\ UNCHANGED <<peer, inner_suite, closed, can_start_direct_copy, server_hello_buf, reader_vars>>

(* poll_shutdown: close_notify follows everything that was written. *)
Close ==
  /\ ~closed
  /\ closed' = TRUE
  /\ UNCHANGED <<peer, inner_suite, has_sent_id, write_direct_copy, can_start_direct_copy,
                 server_hello_buf, sent, wire, mark, tail, reader_vars>>

-----------------------------------------------------------------------------
(* The reader.  The loop of unframe_read_buf is one step per iteration.    *)

available == fed - rpos          \* read_buf.len(): read_buf holds wire[rpos + 1 .. fed]
is_server == peer # "server"     \* the reader is the other end

PollRead(r) ==
  /\ pc = "idle"
  /\ pc' = "unframe" /\ room' = r /\ n' = 0
  /\ UNCHANGED <<writer_vars, fed, rpos, stage, command, remaining_content_len,
                 remaining_padding_len, read_direct_copy, delivered>>

Deliver(k) ==
  /\ delivered' = delivered \o SubSeq(wire, rpos + 1, rpos + k)
  /\ rpos' = rpos + k
  /\ room' = room - k
  /\ n' = n + k

UnframeDirect ==
  /\ pc = "unframe" /\ available > 0
  /\ read_direct_copy /\ room > 0
  /\ Deliver(Smaller(available, room))
  /\ UNCHANGED <<writer_vars, fed, stage, command, remaining_content_len,
                 remaining_padding_len, read_direct_copy, pc>>

(* Mutant of IdListed: the list of users is not consulted. *)
MAnyId == TRUE

IdListed == \A i \in 1 .. IdLen : wire[rpos + i] = [tag |-> "id", val |-> i]

UnframeId ==
  /\ pc = "unframe" /\ available > 0 /\ ~read_direct_copy
  /\ stage = "Id"
  /\ \/ /\ is_server /\ available >= IdLen /\ ~IdListed
        /\ read_direct_copy' = TRUE
        /\ UNCHANGED <<rpos, stage>>
     \/ /\ is_server /\ available >= IdLen /\ IdListed
        /\ rpos' = rpos + IdLen
        /\ stage' = "Header"
        /\ UNCHANGED read_direct_copy
     \/ /\ ~is_server
        /\ stage' = "Header"
        /\ UNCHANGED <<rpos, read_direct_copy>>
  /\ UNCHANGED <<writer_vars, fed, command, remaining_content_len,
                 remaining_padding_len, delivered, pc, room, n>>

UnframeHeader ==
  /\ pc = "unframe" /\ ~read_direct_copy
  /\ stage = "Header" /\ available >= HdrLen
  /\ IF wire[rpos + 1].val \in Commands
     THEN /\ command' = wire[rpos + 1].val
          /\ remaining_content_len' = wire[rpos + 2].val
          /\ remaining_padding_len' = wire[rpos + 3].val
          /\ rpos' = rpos + HdrLen
          /\ stage' = "Content"
          /\ UNCHANGED pc
     ELSE /\ pc' = "failed"      \* VisionCommand::try_from: InvalidData
          /\ UNCHANGED <<command, remaining_content_len, remaining_padding_len, rpos, stage>>
  /\ UNCHANGED <<writer_vars, fed, read_direct_copy, delivered, room, n>>

(* Mutant of Returned: poll_read returns whatever was put. *)
MReturnedAtOnce(got, left) == "idle"

(* Where poll_read goes when unframe_read_buf returns Ok(n). *)
Returned(got, left) == IF got > 0 \/ left = 0 THEN "idle" ELSE "fill"

UnframeContent ==
  /\ pc = "unframe" /\ available > 0 /\ ~read_direct_copy
  /\ stage = "Content"
  /\ \/ /\ remaining_content_len = 0
        /\ stage' = "Padding"
        /\ UNCHANGED <<remaining_content_len, delivered, rpos, room, n, pc>>
     \/ /\ remaining_content_len > 0
        /\ LET k == Smaller(Smaller(available, remaining_content_len), room)
           IN /\ Deliver(k)
              /\ remaining_content_len' = remaining_content_len - k
        /\ pc' = (IF room' = 0 /\ remaining_content_len' > 0 THEN Returned(n', room') ELSE pc)
        /\ stage' = (IF remaining_content_len' = 0 THEN "Padding" ELSE stage)
  /\ UNCHANGED <<writer_vars, fed, command, remaining_padding_len, read_direct_copy>>

UnframePadding ==
  /\ pc = "unframe" /\ available > 0 /\ ~read_direct_copy
  /\ stage = "Padding"
  /\ LET k == Smaller(available, remaining_padding_len)
     IN /\ rpos' = rpos + k
        /\ remaining_padding_len' = remaining_padding_len - k
  /\ IF remaining_padding_len' = 0
     THEN /\ stage' = "Header"
          /\ read_direct_copy' = (command \in {EndPadding, StartDirectCopy})
          /\ UNCHANGED pc
     ELSE /\ pc' = Returned(n, room)
          /\ UNCHANGED <<stage, read_direct_copy>>
  /\ UNCHANGED <<writer_vars, fed, command, remaining_content_len, delivered, room, n>>

(* Mutants of Break: the first header is awaited with the id; no break in  *)
(* the middle of a header.                                                 *)
MBreakForHeader ==
  \/ available = 0
  \/ read_direct_copy /\ room = 0
  \/ ~read_direct_copy /\ stage = "Id" /\ is_server /\ available < IdLen + HdrLen
  \/ ~read_direct_copy /\ stage = "Header" /\ available < HdrLen
MBreakMissesHeader ==
  \/ available = 0
  \/ read_direct_copy /\ room = 0
  \/ ~read_direct_copy /\ stage = "Id" /\ is_server /\ available < IdLen

(* The remaining breaks out of the loop. *)
Break ==
  \/ available = 0
  \/ read_direct_copy /\ room = 0
  \/ ~read_direct_copy /\ stage = "Id" /\ is_server /\ available < IdLen
  \/ ~read_direct_copy /\ stage = "Header" /\ available < HdrLen

UnframeBreak ==
  /\ pc = "unframe" /\ Break
  /\ pc' = Returned(n, room)
  /\ UNCHANGED <<writer_vars, fed, rpos, stage, command, remaining_content_len,
                 remaining_padding_len, read_direct_copy, delivered, room, n>>

(* Mutant of Fill: all of temp_buf is appended, not its first k bytes. *)
MFillWhole(k) ==
  /\ pc = "fill"
  /\ fed + k <= Len(wire)
  /\ fed' = fed + TempBuf
  /\ pc' = "unframe"
  /\ UNCHANGED <<writer_vars, rpos, stage, command, remaining_content_len,
                 remaining_padding_len, read_direct_copy, delivered, room, n>>

(* session.reader().read(&mut temp_buf): some plaintext goes to read_buf. *)
Fill(k) ==
  /\ pc = "fill"
  /\ fed + k <= Len(wire)
  /\ fed' = fed + k
  /\ pc' = "unframe"
  /\ UNCHANGED <<writer_vars, rpos, stage, command, remaining_content_len,
                 remaining_padding_len, read_direct_copy, delivered, room, n>>

(* Mutant of ReadEof: the end is reported before the last plaintext. *)
MReadEofEarly ==
  /\ pc = "fill"
  /\ closed
  /\ pc' = "eof"
  /\ UNCHANGED <<writer_vars, fed, rpos, stage, command, remaining_content_len,
                 remaining_padding_len, read_direct_copy, delivered, room, n>>

(* The clean end of the TLS stream: poll_read returns Ok with nothing put. *)
ReadEof ==
  /\ pc = "fill"
  /\ closed /\ fed = Len(wire)
  /\ pc' = "eof"
  /\ UNCHANGED <<writer_vars, fed, rpos, stage, command, remaining_content_len,
                 remaining_padding_len, read_direct_copy, delivered, room, n>>

Unframe == UnframeDirect \/ UnframeId \/ UnframeHeader \/ UnframeContent
             \/ UnframePadding \/ UnframeBreak

Write == \/ \E cls \in Classes, asked \in 1 .. MaxWrite, sid \in SessionIdLens :
              WriteFramed(cls, asked, sid)
         \/ \E asked \in 1 .. MaxWrite : WriteRaw(asked)
         \/ \E cmd \in Commands, clen \in 0 .. MaxFrame, plen \in 0 .. ShortPad :
              ForeignFrame(cmd, clen, plen)

Read == \/ \E r \in 1 .. MaxRoom : PollRead(r)
        \/ Unframe
        \/ \E k \in 1 .. TempBuf : Fill(k)
        \/ ReadEof

Next == Write \/ Close \/ Read

Spec == Init /\ [][Next]_vars

(* unframe_read_buf is a synchronous loop: it runs until it returns.  The  *)
(* caller polls again and chunks keep coming (the session is reliable).    *)
FairSpec == Spec /\ WF_vars(Unframe)
                 /\ WF_vars(\E r \in 1 .. MaxRoom : PollRead(r))
                 /\ WF_vars(\E k \in 1 .. TempBuf : Fill(k))
                 /\ WF_vars(ReadEof)

-----------------------------------------------------------------------------
(* Properties. *)

Framed == peer \in {"client", "server", "foreign"}
Data(i) == [tag |-> "data", val |-> i]

TypeOK ==
  /\ peer \in Peers /\ inner_suite \in Suites
  /\ closed \in BOOLEAN /\ has_sent_id \in BOOLEAN
  /\ write_direct_copy \in BOOLEAN /\ can_start_direct_copy \in BOOLEAN
  /\ server_hello_buf \in [len : Nat, sid : Nat, suite : Suites]
  /\ sent \in Nat /\ wire \in Bytes
  /\ tail \in Nat /\ tail \in DOMAIN mark
  /\ DOMAIN mark \subseteq Nat /\ \A b \in DOMAIN mark : mark[b] \in Nat
  /\ rpos \in Nat /\ fed \in Nat /\ rpos <= fed /\ fed <= Len(wire)
  /\ stage \in Stages /\ command \in Commands
  /\ remaining_content_len \in Nat /\ remaining_padding_len \in Nat
  /\ read_direct_copy \in BOOLEAN
  /\ delivered \in Bytes
  /\ pc \in {"idle", "unframe", "fill", "eof", "failed"}
  /\ room \in Nat /\ n \in Nat

(* A Vision stream hands over exactly the application's bytes, in order:   *)
(* no id, header or padding byte leaks into the content, however the       *)
(* frames are cut into chunks (unframe_read_buf).                          *)
InOrder == Framed => \A i \in 1 .. Len(delivered) : delivered[i] = Data(i)

(* A stream whose id the server does not list is passed through untouched, *)
(* the bytes already looked at included.                                   *)
FallbackIsTransparent ==
  ~Framed => /\ Len(delivered) <= Len(wire)
             /\ \A i \in 1 .. Len(delivered) : delivered[i] = wire[i]

(* The reader never takes content or padding for a frame header.           *)
NoDecodeError == pc # "failed"

(* When the reader stops unframing, the writer has stopped framing and all *)
(* that is still unread is content: both ends switch at the same byte.     *)
SwitchInSync ==
  Framed /\ read_direct_copy =>
    write_direct_copy /\ \A i \in rpos + 1 .. Len(wire) : wire[i].tag = "data"

(* poll_read asks the session for more only when everything that arrived   *)
(* has been handed over; a fallback stream needs IdLen bytes for that.     *)
NothingWithheld ==
  pc = "fill" /\ fed = Len(wire) =>
    /\ Framed => Len(delivered) = sent
    /\ ~Framed /\ Len(wire) >= IdLen => Len(delivered) = Len(wire)

(* A clean end of stream is reported only after the last byte.             *)
EofComplete == pc = "eof" /\ Framed => Len(delivered) = sent

(* poll_read never returns Ok with nothing put while the stream is open:   *)
(* the caller would take that for the end of the stream.                   *)
NoSpuriousEof == [][pc = "unframe" /\ pc' = "idle" => n' > 0]_vars

(* Direct copy does not start when the proxied session negotiated          *)
(* TLS_AES_128_CCM_8_SHA256 (comment at vision_tls.rs:319).                *)
NoDirectCopyWithCcm8 ==
  peer \in {"client", "server"} /\ inner_suite = "ccm8" => ~write_direct_copy

(* Once the writer has closed, the reader reaches the end of the stream:   *)
(* no iteration of the unframing loop repeats for ever.                    *)
ReachesEof == closed ~> pc = "eof"

(* What the reader has left to do: the bytes to be put into read_buf and   *)
(* taken out of it, what its stage owes without a byte, and its place in   *)
(* poll_read.                                                              *)
StageRank == IF read_direct_copy THEN 0
             ELSE CASE stage = "Content" -> 3 [] stage \in {"Id", "Padding"} -> 2 [] stage = "Header" -> 1
PcRank    == CASE pc = "unframe" -> (IF n > 0 THEN 4 ELSE 2)
               [] pc = "idle" -> 3 [] pc = "fill" -> 1 [] pc \in {"eof", "failed"} -> 0
Effort    == 16 * (Len(wire) - rpos) + 16 * (Len(wire) - fed) + StageRank + PcRank

(* Every step of the reader counts: no iteration of the unframing loop, no *)
(* poll and no read of the session leaves it where it was, so that it is    *)
(* done after a number of steps that only the bytes on the wire bound,      *)
(* whatever the frames (contents and padding of no bytes included), the     *)
(* chunks and the caller's buffers.                                         *)
ReaderAdvances == [][Read => Effort' < Effort /\ Effort' \in Nat]_vars

(* The stream is a byte stream: for a Vision peer of the application's     *)
(* bytes, for any other of the bytes on the wire.                          *)
Accepted == IF Framed THEN DataCells(0, sent) ELSE wire
BS == INSTANCE ByteStream WITH sent <- Accepted, received <- delivered
ImplementsByteStream == BS!Spec

-----------------------------------------------------------------------------
(* The inductive invariant.  The wire is a chain of frames whose boundaries *)
(* are the domain of mark; the reader is at a place of that chain its own   *)
(* counters describe.                                                       *)

Start  == IF peer = "server" THEN 0 ELSE IdLen
End(b) == b + HdrLen + wire[b + 2].val + wire[b + 3].val

(* A complete frame begins after the first b bytes of the wire. *)
FrameAt(b) ==
  /\ b + HdrLen <= Len(wire)
  /\ wire[b + 1].val \in Commands
  /\ End(b) \in DOMAIN mark
  /\ mark[End(b)] = mark[b] + wire[b + 2].val
  /\ \A i \in b + HdrLen + 1 .. b + HdrLen + wire[b + 2].val :
       wire[i] = Data(mark[b] + (i - b - HdrLen))
  /\ wire[b + 1].val # ContinuePadding <=> End(b) = tail /\ write_direct_copy

Layout ==
  /\ Start \in DOMAIN mark /\ mark[Start] = 0
  /\ \A b \in DOMAIN mark : Start <= b /\ b <= tail /\ mark[b] <= mark[tail]
  /\ \A b \in DOMAIN mark : b # tail => FrameAt(b)
  /\ IF wire = <<>>
     THEN sent = 0 /\ tail = Start /\ ~write_direct_copy
     ELSE /\ Start < tail /\ tail <= Len(wire)
          /\ ~write_direct_copy => tail = Len(wire)
          /\ sent = mark[tail] + (Len(wire) - tail)
  /\ \A i \in tail + 1 .. Len(wire) : wire[i] = Data(mark[tail] + (i - tail))

IdLayout ==
  /\ has_sent_id <=> wire # <<>> /\ peer # "server"
  /\ wire # <<>> /\ peer # "server" =>
       Len(wire) >= IdLen /\ \A i \in 1 .. IdLen : wire[i] = [tag |-> "id", val |-> i]

InFrame(b) ==
  /\ command = wire[b + 1].val
  /\ rpos + remaining_content_len + remaining_padding_len = End(b)
  /\ Len(delivered) + remaining_content_len = mark[End(b)]
  /\ remaining_content_len <= wire[b + 2].val
  /\ stage = "Content" => remaining_padding_len = wire[b + 3].val
  /\ stage = "Padding" => remaining_content_len = 0

ReaderPlace ==
  /\ stage = "Id" => rpos = 0 /\ delivered = <<>> /\ ~read_direct_copy
  /\ stage = "Header" /\ ~read_direct_copy =>
       /\ rpos \in DOMAIN mark /\ Len(delivered) = mark[rpos]
       /\ ~(rpos = tail /\ write_direct_copy)
  /\ stage \in {"Content", "Padding"} =>
       ~read_direct_copy /\ \E b \in DOMAIN mark : b # tail /\ InFrame(b)
  /\ read_direct_copy =>
       write_direct_copy /\ rpos >= tail /\ Len(delivered) = mark[tail] + (rpos - tail)

FallbackPlace ==
  /\ stage = "Id" /\ Len(delivered) = rpos
  /\ rpos > 0 => read_direct_copy
  /\ wire # <<>> => wire[1].tag # "id"
  /\ peer = "unknown" => (has_sent_id <=> wire # <<>>) /\ (write_direct_copy => has_sent_id)
  /\ peer = "plain" => ~has_sent_id

(* poll_read waits for the session only when unframing can do no more. *)
Waiting ==
  /\ n = 0 /\ pc \in {"unframe", "fill"} => room > 0
  /\ pc \in {"fill", "eof"} =>
       \/ available = 0
       \/ ~read_direct_copy /\ stage = "Id" /\ is_server /\ available < IdLen
       \/ ~read_direct_copy /\ stage = "Header" /\ available < HdrLen
  /\ pc = "eof" => closed /\ fed = Len(wire)

IInv ==
  /\ TypeOK
  /\ Framed => Layout /\ IdLayout /\ ReaderPlace /\ InOrder
  /\ ~Framed => FallbackPlace /\ FallbackIsTransparent
  /\ NoDecodeError
  /\ Waiting
=============================================================================
