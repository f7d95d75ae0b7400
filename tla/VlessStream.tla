---------------------------- MODULE VlessStream -----------------------------
(***************************************************************************)
(* VlessStream::poll_read (protocol/vless.rs): the client end of a VLESS   *)
(* connection takes the response header off the stream and hands over what *)
(* follows.  The inner stream gives the server's bytes in chunks of any    *)
(* size; the first chunks go to the stream's own buffer, which may swallow *)
(* bytes beyond the header.                                                *)
(*                                                                         *)
(* Byte(i) is the i-th byte the server sends: 0 for a byte of the header,  *)
(* its own number for a byte of the payload.                               *)
(***************************************************************************)
EXTENDS Naturals, Sequences

CONSTANTS
  AddonsLens,   \* lengths of the addons a server may put in its response (0 .. 255)
  BufCap,       \* capacity of VlessStream.buf (256)
  Reserve,      \* what chunk_mut reserves when the buffer is full (64)
  MaxRoom,      \* the largest buffer a caller passes to poll_read
  MaxChunk,     \* the most bytes the server writes at once (model bound)
  MaxWire       \* bound on the bytes the server sends (model bound)

ASSUME VlessStreamAssumption ==
  /\ AddonsLens \subseteq Nat
  /\ BufCap \in Nat \ {0} /\ Reserve \in Nat \ {0}
  /\ MaxRoom \in Nat /\ MaxChunk \in Nat /\ MaxWire \in Nat

VARIABLES
  addons_len,         \* second byte of the response header
  written, closed,    \* the server: bytes written so far, write side shut down
  taken,              \* bytes read from the inner stream
  buf_len,            \* VlessStream.buf holds the last buf_len bytes taken
  is_handshake_done,
  delivered,          \* bytes handed to the caller
  pc,                 \* "idle", "handshake", "ready", "eof", "error" or "failed"
  room                \* buf.remaining() of the call in progress

server_vars == <<addons_len, written, closed>>
client_vars == <<taken, buf_len, is_handshake_done, delivered, pc, room>>
vars        == <<server_vars, client_vars>>

Smaller(a, b) == IF a <= b THEN a ELSE b

header_len == 2 + addons_len
Byte(i)    == IF i > header_len THEN i - header_len ELSE 0

Init ==
  /\ addons_len \in AddonsLens
  /\ written = 0 /\ closed = FALSE
  /\ taken = 0 /\ buf_len = 0 /\ is_handshake_done = FALSE
  /\ delivered = <<>> /\ pc = "idle" /\ room = 0

-----------------------------------------------------------------------------
(* The server writes its response and then the payload, and closes. *)
Write(k) ==
  /\ ~closed
  /\ written + k <= MaxWire
  /\ written' = written + k
  /\ UNCHANGED <<addons_len, closed, client_vars>>

Close ==
  /\ ~closed
  /\ closed' = TRUE
  /\ UNCHANGED <<addons_len, written, client_vars>>

-----------------------------------------------------------------------------
(* The client. *)

PollRead(r) ==
  /\ pc = "idle"
  /\ pc' = (IF is_handshake_done THEN "ready" ELSE "handshake")
  /\ room' = r
  /\ UNCHANGED <<server_vars, taken, buf_len, is_handshake_done, delivered>>

(* The length of chunk_mut(): the spare capacity, grown when there is none. *)
ChunkMut == IF buf_len < BufCap THEN BufCap - buf_len ELSE Reserve

(* VlessResponseDecoder::decode: how many bytes it consumes, 0 for None. *)
HeaderEnd(have) == IF have < header_len THEN 0 ELSE header_len

(* Mutant of HandshakeRead: poll_read returns as soon as the header is read. *)
MReturnAfterHeader(k) ==
  /\ pc = "handshake"
  /\ k <= ChunkMut /\ taken + k <= written
  /\ taken' = taken + k
  /\ LET used == HeaderEnd(buf_len + k)
     IN /\ buf_len' = buf_len + k - used
        /\ is_handshake_done' = (used > 0)
        /\ pc' = (IF used > 0 THEN "idle" ELSE pc)
  /\ UNCHANGED <<server_vars, delivered, room>>

(* One round of the handshake loop: a chunk of the inner stream is decoded. *)
HandshakeRead(k) ==
  /\ pc = "handshake"
  /\ k <= ChunkMut /\ taken + k <= written
  /\ taken' = taken + k
  /\ LET used == HeaderEnd(buf_len + k)
     IN /\ buf_len' = buf_len + k - used
        /\ is_handshake_done' = (used > 0)
        /\ pc' = (IF used > 0 THEN "ready" ELSE pc)
  /\ UNCHANGED <<server_vars, delivered, room>>

(* Mutant of HandshakeEof: a read of nothing goes round the loop again. *)
MEofRetries ==
  /\ pc = "handshake"
  /\ closed /\ taken = written
  /\ UNCHANGED vars

(* A read of nothing, at the end of the inner stream or into a chunk with   *)
(* no room: "EOF during handshake".                                         *)
HandshakeEof ==
  /\ pc = "handshake"
  /\ (closed /\ taken = written) \/ ChunkMut = 0
  /\ pc' = "error"
  /\ UNCHANGED <<server_vars, taken, buf_len, is_handshake_done, delivered, room>>

(* The inner stream is Pending, and poll_read is: the caller polls again,  *)
(* maybe with another buffer.                                              *)
InnerPending ==
  /\ pc = "handshake" \/ (pc = "ready" /\ buf_len = 0)
  /\ ~closed /\ taken = written
  /\ pc' = "idle"
  /\ UNCHANGED <<server_vars, taken, buf_len, is_handshake_done, delivered, room>>

(* The inner stream fails, at any time, and poll_read returns its error. *)
InnerError ==
  /\ pc = "handshake" \/ (pc = "ready" /\ buf_len = 0)
  /\ pc' = "failed"
  /\ UNCHANGED <<server_vars, taken, buf_len, is_handshake_done, delivered, room>>

(* The k bytes after the first i of the stream go to the caller. *)
Hand(i, k) == delivered' = delivered \o [j \in 1 .. k |-> Byte(i + j)]

(* Mutants of PlaceBack: the inner stream is read while the buffer still    *)
(* holds bytes, which go out after it; as many bytes as the caller has room *)
(* for are taken from the buffer.                                           *)
MReadPast ==
  /\ pc = "ready" /\ buf_len > 0
  /\ LET k == Smaller(room, written - taken)
     IN Hand(taken, k) /\ taken' = taken + k
  /\ pc' = "idle"
  /\ UNCHANGED <<server_vars, buf_len, is_handshake_done, room>>

MPlaceTooMuch ==
  /\ pc = "ready" /\ buf_len > 0
  /\ Hand(taken - buf_len, room) /\ buf_len' = buf_len - room
  /\ pc' = "idle"
  /\ UNCHANGED <<server_vars, taken, is_handshake_done, room>>

(* "Place actual data back." *)
PlaceBack ==
  /\ pc = "ready" /\ buf_len > 0
  /\ LET k == Smaller(room, buf_len)
     IN Hand(taken - buf_len, k) /\ buf_len' = buf_len - k
  /\ pc' = "idle"
  /\ UNCHANGED <<server_vars, taken, is_handshake_done, room>>

InnerRead(k) ==
  /\ pc = "ready" /\ buf_len = 0
  /\ k <= room /\ taken + k <= written
  /\ Hand(taken, k)
  /\ taken' = taken + k
  /\ pc' = "idle"
  /\ UNCHANGED <<server_vars, buf_len, is_handshake_done, room>>

(* Mutant of InnerEof: the end of the inner stream is reported at once. *)
MEofFirst ==
  /\ pc = "ready"
  /\ closed /\ taken = written
  /\ pc' = "eof"
  /\ UNCHANGED <<server_vars, taken, buf_len, is_handshake_done, delivered, room>>

InnerEof ==
  /\ pc = "ready" /\ buf_len = 0
  /\ closed /\ taken = written
  /\ pc' = "eof"
  /\ UNCHANGED <<server_vars, taken, buf_len, is_handshake_done, delivered, room>>

Read == \/ \E k \in 1 .. BufCap + Reserve : HandshakeRead(k)
        \/ HandshakeEof
        \/ PlaceBack
        \/ \E k \in 1 .. MaxRoom : InnerRead(k)
        \/ InnerEof

Next == \/ \E k \in 1 .. MaxChunk : Write(k)
        \/ Close
        \/ \E r \in 1 .. MaxRoom : PollRead(r)
        \/ Read
        \/ InnerPending
        \/ InnerError

Spec == Init /\ [][Next]_vars

(* The caller polls until the end; a read of what has arrived completes. *)
FairSpec == Spec /\ WF_vars(Read) /\ WF_vars(\E r \in 1 .. MaxRoom : PollRead(r))

-----------------------------------------------------------------------------
(* Properties. *)

TypeOK ==
  /\ addons_len \in AddonsLens
  /\ written \in Nat /\ closed \in BOOLEAN
  /\ taken \in Nat /\ taken <= written
  /\ buf_len \in Nat /\ buf_len <= taken
  /\ is_handshake_done \in BOOLEAN
  /\ delivered \in Seq(Nat)
  /\ pc \in {"idle", "handshake", "ready", "eof", "error", "failed"}
  /\ room \in Nat

(* The caller gets the payload from its first byte on, in order: the bytes *)
(* swallowed with the header come first, no header byte gets through.      *)
PayloadInOrder == \A i \in 1 .. Len(delivered) : delivered[i] = i

(* A clean end is reported only when the whole payload was handed over,    *)
(* the bytes in the stream's own buffer included.                          *)
EofAfterPayload == pc = "eof" => Len(delivered) = written - header_len

(* The stream itself calls the handshake off ("EOF during handshake") only *)
(* when the server closed inside the header: a header cut into chunks is   *)
(* waited for, and one that fills the buffer is not taken for an end.  An  *)
(* error of the inner stream is "failed", and may come at any time.        *)
ErrorOnlyOnShortHeader == pc = "error" => closed /\ written < header_len

(* When the server closes, the caller learns it: the bytes in the buffer   *)
(* and those in the inner stream are handed over, then the end (or the     *)
(* error of a header cut short) is reported, unless the inner stream fails *)
(* before that.                                                            *)
EndIsReported == closed ~> pc \in {"eof", "error", "failed"}

(* A call that ends although there is something to hand over, or something *)
(* to read, put at least one byte: it is not taken for the end.            *)
NoEmptyRead ==
  [][pc # "idle" /\ pc' = "idle" /\ (taken < written \/ (is_handshake_done' /\ buf_len' > 0)) =>
       Len(delivered') > Len(delivered)]_vars

(* What the reader has left to do: bytes to be taken and to be handed over, *)
(* and the end.                                                            *)
Effort == 2 * (written - taken) + buf_len + IF pc \in {"eof", "error", "failed"} THEN 0 ELSE 1

(* Every read of the inner stream and every return with bytes counts: the  *)
(* handshake loop makes no round that takes nothing, no call hands over     *)
(* nothing, and neither a new call nor a Pending undoes what was done.      *)
ReadsAdvance ==
  [][/\ Effort' \in Nat
     /\ Read => Effort' < Effort
     /\ UNCHANGED server_vars => Effort' <= Effort]_vars

(* The stream implements a byte stream of the payload. *)
Payload == [i \in 1 .. (IF written > header_len THEN written - header_len ELSE 0) |-> i]
BS == INSTANCE ByteStream WITH sent <- Payload, received <- delivered
ImplementsByteStream == BS!Spec

-----------------------------------------------------------------------------
(* The inductive invariant: where each byte taken so far is. *)
IInv ==
  /\ TypeOK
  /\ PayloadInOrder
  /\ ~is_handshake_done =>
       buf_len = taken /\ delivered = <<>> /\ buf_len < header_len
  /\ is_handshake_done => taken = header_len + Len(delivered) + buf_len
  /\ pc = "ready" => is_handshake_done /\ room > 0
  /\ pc = "handshake" => ~is_handshake_done /\ room > 0
  /\ pc = "error" => ~is_handshake_done /\ closed /\ taken = written
  /\ pc = "eof" => is_handshake_done /\ closed /\ taken = written /\ buf_len = 0
=============================================================================
