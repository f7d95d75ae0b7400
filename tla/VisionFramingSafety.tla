------------------------ MODULE VisionFramingSafety -------------------------
(***************************************************************************)
(* What the inductive invariant of VisionFramingProofs implies: the safety *)
(* properties of VisionFraming and its refinement of ByteStream, for every *)
(* value of the constants.                                                 *)
(***************************************************************************)
EXTENDS VisionFramingProofs

(* A Vision stream delivers the application's bytes in order. *)
THEOREM DeliversInOrder == Spec => []InOrder
<1>1. IInv => InOrder
  BY DEF IInv, InOrder
<1> QED  BY <1>1, Inductive, PTL

(* A stream that is not Vision, or whose id is not listed, is untouched. *)
THEOREM FallbackUntouched == Spec => []FallbackIsTransparent
<1>1. IInv => FallbackIsTransparent
  BY DEF IInv, FallbackIsTransparent
<1> QED  BY <1>1, Inductive, PTL

(* No frame header is ever read where there is none. *)
THEOREM HeadersDecode == Spec => []NoDecodeError
<1>1. IInv => NoDecodeError
  BY DEF IInv
<1> QED  BY <1>1, Inductive, PTL

(* The reader leaves the framing at the byte where the writer left it. *)
THEOREM SwitchesTogether == Spec => []SwitchInSync
<1>1. ASSUME IInv, Framed, read_direct_copy
      PROVE  write_direct_copy /\ \A i \in rpos + 1 .. Len(wire) : wire[i].tag = "data"
  <2>1. write_direct_copy /\ rpos >= tail /\ rpos \in Nat /\ tail \in Nat
    BY <1>1 DEF IInv, ReaderPlace, TypeOK
  <2>2. Len(wire) \in Nat
    BY <1>1, LenBytes DEF IInv, TypeOK
  <2>3. \A i \in tail + 1 .. Len(wire) : wire[i] = Data(mark[tail] + (i - tail))
    BY <1>1 DEF IInv, Layout
  <2>4. ASSUME NEW i \in rpos + 1 .. Len(wire) PROVE wire[i].tag = "data"
    <3>1. i \in tail + 1 .. Len(wire)
      BY <2>1, <2>2
    <3>2. wire[i] = Data(mark[tail] + (i - tail))
      BY <2>3, <3>1
    <3>3. \A x : Data(x).tag = "data"
      BY DEF Data
    <3> QED  BY <3>2, <3>3
  <2> QED  BY <2>1, <2>4
<1>2. IInv => SwitchInSync
  BY <1>1 DEF SwitchInSync
<1> QED  BY <1>2, Inductive, PTL

-----------------------------------------------------------------------------
(* How far the reader of a Vision stream has come. *)

(* Before the first write nothing can have been delivered. *)
LEMMA NothingYet ==
  ASSUME IInv, Framed, wire = <<>>
  PROVE  Len(delivered) = 0 /\ sent = 0 /\ rpos = 0
<1>1. TypeOK /\ Layout /\ ReaderPlace
  BY DEF IInv
<1>2. sent = 0 /\ tail = Start /\ ~write_direct_copy /\ mark[Start] = 0
  BY <1>1 DEF Layout
<1>3. rpos = 0
  BY <1>1, LenBytes DEF TypeOK
<1>4. ~read_direct_copy
  BY <1>1, <1>2 DEF ReaderPlace
<1>5. stage \notin {"Content", "Padding"}
  <2>1. SUFFICES ASSUME NEW b \in DOMAIN mark, b # tail PROVE FALSE
    BY <1>1 DEF ReaderPlace
  <2>2. b + HdrLen <= Len(wire) /\ b \in Nat
    BY <1>1, <2>1, FrameNumbers
  <2>3. Len(wire) = 0
    OBVIOUS
  <2> QED  BY <2>2, <2>3 DEF HdrLen
<1>6. CASE stage = "Id"
  <2>1. delivered = <<>>
    BY <1>1, <1>6 DEF ReaderPlace
  <2> QED  BY <1>2, <1>3, <2>1
<1>7. CASE stage = "Header"
  <2>1. 0 \in DOMAIN mark /\ Len(delivered) = mark[0]
    BY <1>1, <1>3, <1>4, <1>7 DEF ReaderPlace
  <2>2. mark[0] <= 0 /\ mark[0] \in Nat
    BY <1>1, <1>2, <2>1 DEF Layout, TypeOK
  <2> QED  BY <1>2, <1>3, <2>1, <2>2
<1> QED  BY <1>1, <1>5, <1>6, <1>7 DEF TypeOK, Stages

(* Every byte delivered was accepted from the application before. *)
LEMMA NotAhead ==
  ASSUME IInv, Framed
  PROVE  Len(delivered) <= sent
<1>1. TypeOK /\ Layout /\ ReaderPlace /\ delivered \in Bytes /\ sent \in Nat
  BY DEF IInv, TypeOK
<1>2. Len(delivered) \in Nat
  BY <1>1, LenBytes
<1>3. CASE wire = <<>>
  BY <1>1, <1>3, NothingYet
<1>4. CASE wire # <<>>
  <2>1. /\ tail <= Len(wire) /\ sent = mark[tail] + (Len(wire) - tail)
        /\ \A b \in DOMAIN mark : mark[b] <= mark[tail]
    BY <1>1, <1>4 DEF Layout
  <2>2. tail \in Nat /\ Len(wire) \in Nat /\ mark[tail] \in Nat
    BY <1>1, AtTail
  <2>3. mark[tail] <= sent
    BY <2>1, <2>2
  <2>4. ASSUME NEW b \in DOMAIN mark, Len(delivered) <= mark[b]
        PROVE  Len(delivered) <= sent
    <3>1. mark[b] \in Nat /\ mark[b] <= mark[tail]
      BY <1>1, <2>1 DEF TypeOK
    <3> QED  BY <1>1, <1>2, <2>2, <2>3, <2>4, <3>1
  <2>5. CASE read_direct_copy
    <3>1. rpos \in Nat /\ rpos <= Len(wire) /\ rpos >= tail
          /\ Len(delivered) = mark[tail] + (rpos - tail)
      BY <1>1, <2>2, <2>5 DEF ReaderPlace, TypeOK
    <3> QED  BY <2>1, <2>2, <3>1
  <2>6. CASE ~read_direct_copy /\ stage = "Header"
    <3>1. rpos \in DOMAIN mark /\ Len(delivered) = mark[rpos]
      BY <1>1, <2>6 DEF ReaderPlace
    <3> QED  BY <1>2, <2>4, <3>1
  <2>7. CASE ~read_direct_copy /\ stage \in {"Content", "Padding"}
    <3>1. PICK b \in DOMAIN mark : b # tail /\ InFrame(b)
      BY <1>1, <2>7 DEF ReaderPlace
    <3>2. End(b) \in DOMAIN mark
      BY <1>1, <3>1, FrameNumbers
    <3>3. Len(delivered) + remaining_content_len = mark[End(b)] /\ remaining_content_len \in Nat
      BY <1>1, <3>1 DEF InFrame, TypeOK
    <3>4. Len(delivered) <= mark[End(b)]
      BY <1>2, <3>3
    <3> QED  BY <2>4, <3>2, <3>4
  <2>8. CASE ~read_direct_copy /\ stage = "Id"
    <3>1. delivered = <<>>
      BY <1>1, <2>8 DEF ReaderPlace
    <3> QED  BY <1>1, <3>1
  <2> QED  BY <1>1, <2>5, <2>6, <2>7, <2>8 DEF TypeOK, Stages
<1> QED  BY <1>3, <1>4

(* A reader that waits for the session, with nothing left in the session,  *)
(* is at the last boundary or beyond it.                                   *)
LEMMA CaughtUp ==
  ASSUME IInv, Framed, pc \in {"fill", "eof"}, fed = Len(wire)
  PROVE  Len(delivered) = sent
<1>1. /\ TypeOK /\ Layout /\ IdLayout /\ ReaderPlace /\ Waiting
      /\ rpos \in Nat /\ fed \in Nat /\ rpos <= fed /\ sent \in Nat
  BY DEF IInv, TypeOK
<1>2. CASE wire = <<>>
  BY <1>2, NothingYet
<1>3. CASE wire # <<>>
  <2>1. /\ tail <= Len(wire) /\ sent = mark[tail] + (Len(wire) - tail)
        /\ (~write_direct_copy => tail = Len(wire))
    BY <1>1, <1>3 DEF Layout
  <2>2. tail \in Nat /\ Len(wire) \in Nat /\ mark[tail] \in Nat /\ Len(wire) > 0
    <3>1. tail \in Nat /\ Len(wire) \in Nat /\ mark[tail] \in Nat
      BY <1>1, AtTail
    <3>2. Start < tail /\ Start \in Nat
      BY <1>1, <1>3, FramingAssumption DEF Layout, Start
    <3> QED  BY <2>1, <3>1, <3>2
  <2>3. \/ rpos = Len(wire)
        \/ ~read_direct_copy /\ stage = "Id" /\ is_server /\ fed - rpos < IdLen
        \/ ~read_direct_copy /\ stage = "Header" /\ fed - rpos < HdrLen
    BY <1>1 DEF Waiting, available
  <2>4. ASSUME rpos = tail, tail = Len(wire), Len(delivered) = mark[tail]
        PROVE  Len(delivered) = sent
    BY <2>1, <2>2, <2>4
  <2>5. CASE read_direct_copy
    <3>1. rpos = Len(wire) /\ Len(delivered) = mark[tail] + (rpos - tail)
      BY <1>1, <2>3, <2>5 DEF ReaderPlace
    <3> QED  BY <2>1, <3>1
  <2>6. CASE ~read_direct_copy /\ stage = "Header"
    <3>1. rpos \in DOMAIN mark /\ Len(delivered) = mark[rpos] /\ ~(rpos = tail /\ write_direct_copy)
      BY <1>1, <2>6 DEF ReaderPlace
    <3>2. rpos = tail
      <4>1. SUFFICES ASSUME rpos # tail PROVE FALSE
        OBVIOUS
      <4>2. rpos + HdrLen <= Len(wire)
        BY <1>1, <3>1, <4>1, FrameNumbers
      <4> QED  BY <1>1, <2>2, <2>3, <2>6, <4>2 DEF HdrLen
    <3> QED  BY <2>1, <2>4, <3>1, <3>2
  <2>7. CASE ~read_direct_copy /\ stage \in {"Content", "Padding"}
    <3>1. PICK b \in DOMAIN mark : b # tail /\ InFrame(b)
      BY <1>1, <2>7 DEF ReaderPlace
    <3>2. End(b) \in DOMAIN mark /\ End(b) <= tail /\ End(b) \in Nat
      BY <1>1, <3>1, FrameNumbers
    <3>3. /\ rpos + remaining_content_len + remaining_padding_len = End(b)
          /\ Len(delivered) + remaining_content_len = mark[End(b)]
          /\ remaining_content_len \in Nat /\ remaining_padding_len \in Nat
      BY <1>1, <3>1 DEF InFrame, TypeOK
    <3>4. rpos = Len(wire)
      BY <2>3, <2>7
    <3>5. remaining_content_len = 0 /\ End(b) = tail /\ tail = Len(wire) /\ rpos = tail
      BY <1>1, <2>1, <2>2, <3>2, <3>3, <3>4
    <3>6. Len(delivered) \in Nat
      BY <1>1, LenBytes DEF TypeOK
    <3> QED  BY <2>4, <3>3, <3>5, <3>6
  <2>8. CASE ~read_direct_copy /\ stage = "Id"
    <3>1. rpos = 0
      BY <1>1, <2>8 DEF ReaderPlace
    <3>2. is_server /\ fed < IdLen
      BY <1>1, <2>2, <2>3, <2>8, <3>1
    <3>3. Len(wire) >= IdLen /\ IdLen \in Nat
      BY <1>1, <1>3, <3>2, FramingAssumption DEF IdLayout, is_server
    <3> QED  BY <2>2, <3>2, <3>3
  <2> QED  BY <1>1, <2>5, <2>6, <2>7, <2>8 DEF TypeOK, Stages
<1> QED  BY <1>2, <1>3

(* poll_read does not sit on bytes that arrived. *)
THEOREM WithholdsNothing == Spec => []NothingWithheld
<1>1. ASSUME IInv, pc = "fill", fed = Len(wire), ~Framed, Len(wire) >= IdLen
      PROVE  Len(delivered) = Len(wire)
  <2>1. FallbackPlace /\ Waiting /\ rpos \in Nat /\ fed \in Nat /\ rpos <= fed /\ IdLen \in Nat
    BY <1>1, FramingAssumption DEF IInv, TypeOK
  <2>2. stage = "Id" /\ Len(delivered) = rpos /\ (rpos > 0 => read_direct_copy)
    BY <2>1 DEF FallbackPlace
  <2>3. fed - rpos = 0 \/ (~read_direct_copy /\ fed - rpos < IdLen)
    BY <1>1, <2>1, <2>2 DEF Waiting, available
  <2>4. fed = rpos
    <3>1. SUFFICES ASSUME ~read_direct_copy, fed - rpos < IdLen PROVE FALSE
      BY <2>1, <2>3
    <3>2. rpos = 0
      BY <2>1, <2>2, <3>1
    <3> QED  BY <1>1, <2>1, <3>1, <3>2
  <2> QED  BY <1>1, <2>2, <2>4
<1>2. IInv => NothingWithheld
  BY <1>1, CaughtUp DEF NothingWithheld
<1> QED  BY <1>2, Inductive, PTL

(* The end of the stream is reported after the last byte only. *)
THEOREM EofAfterLastByte == Spec => []EofComplete
<1>1. ASSUME IInv, pc = "eof", Framed PROVE Len(delivered) = sent
  <2>1. fed = Len(wire)
    BY <1>1 DEF IInv, Waiting
  <2> QED  BY <1>1, <2>1, CaughtUp
<1>2. IInv => EofComplete
  BY <1>1 DEF EofComplete
<1> QED  BY <1>2, Inductive, PTL

-----------------------------------------------------------------------------
(* unframe_read_buf returns Ok(0) to poll_read only when the caller still   *)
(* has room, so poll_read goes on instead of reporting an end.              *)

LEMMA ReturnsSomething ==
  ASSUME NEW got \in Nat, NEW left \in Nat, got = 0 => left > 0, Returned(got, left) = "idle"
  PROVE  got > 0
BY DEF Returned

LEMMA ContentReturns ==
  ASSUME IInv, UnframeContent, pc' = "idle"
  PROVE  n' > 0
<1>1. /\ TypeOK /\ rpos \in Nat /\ fed \in Nat /\ rpos <= fed /\ room \in Nat /\ n \in Nat
      /\ remaining_content_len \in Nat
  BY DEF IInv, TypeOK
<1>2. pc = "unframe" /\ available > 0 /\ remaining_content_len > 0
  BY DEF UnframeContent
<1>3. n = 0 => room > 0
  BY <1>2 DEF IInv, Waiting
<1> DEFINE k == Smaller(Smaller(available, remaining_content_len), room)
<1>4. k \in Nat /\ k <= room /\ (k = 0 => room = 0)
  BY <1>1, <1>2 DEF Smaller, available
<1>5. n' = n + k /\ room' = room - k
  BY <1>2 DEF UnframeContent, Deliver
<1> HIDE DEF k
<1>6. n' \in Nat /\ n' # 0
  BY <1>1, <1>3, <1>4, <1>5
<1> QED  BY <1>6

(* poll_read never reports the end of a stream that is open. *)
THEOREM NeverSpuriousEof == Spec => NoSpuriousEof
<1>1. ASSUME IInv, [Next]_vars, pc = "unframe", pc' = "idle" PROVE n' > 0
  <2>1. n \in Nat /\ room \in Nat /\ (n = 0 => room > 0)
    BY <1>1 DEF IInv, TypeOK, Waiting
  <2>2. CASE UnframeContent
    BY <1>1, <2>2, ContentReturns
  <2>3. ASSUME pc' = Returned(n, room), n' = n PROVE n' > 0
    BY <1>1, <2>1, <2>3, ReturnsSomething
  <2>4. CASE UnframePadding
    BY <1>1, <2>3, <2>4 DEF UnframePadding
  <2>5. CASE UnframeBreak
    BY <1>1, <2>3, <2>5 DEF UnframeBreak
  <2>6. pc' = pc \/ pc' = "failed" \/ UnframeContent \/ UnframePadding \/ UnframeBreak
        \/ pc # "unframe"
    BY <1>1 DEF Next, Write, Read, Unframe, WriteFramed, WriteRaw, ForeignFrame, Close, PollRead,
                UnframeDirect, UnframeId, UnframeHeader, Fill, ReadEof, vars, reader_vars
  <2> QED  BY <1>1, <2>2, <2>4, <2>5, <2>6
<1>2. IInv /\ [Next]_vars => [pc = "unframe" /\ pc' = "idle" => n' > 0]_vars
  BY <1>1
<1> QED  BY <1>2, Inductive, PTL DEF Spec, NoSpuriousEof

-----------------------------------------------------------------------------
(* The refinement of ByteStream. *)

(* Reading hands over a longer prefix of what was accepted. *)
LEMMA PrefixAccepted ==
  IInv => BS!Extends(Accepted, delivered)
<1> SUFFICES ASSUME IInv PROVE BS!Extends(Accepted, delivered)
  OBVIOUS
<1>1. delivered \in Bytes /\ wire \in Bytes /\ sent \in Nat
  BY DEF IInv, TypeOK
<1>2. Len(delivered) \in Nat
  BY <1>1, LenBytes
<1>3. CASE Framed
  <2>1. Len(delivered) <= sent /\ \A i \in 1 .. Len(delivered) : delivered[i] = Data(i)
    BY <1>3, NotAhead DEF IInv, InOrder
  <2>2. /\ Accepted = DataCells(0, sent) /\ Len(DataCells(0, sent)) = sent
        /\ \A i \in 1 .. sent : DataCells(0, sent)[i] = Data(0 + i)
    BY <1>1, <1>3, DataSeq DEF Accepted
  <2>3. ASSUME NEW i \in 1 .. Len(delivered) PROVE DataCells(0, sent)[i] = delivered[i]
    <3>1. i \in 1 .. sent /\ 0 + i = i
      BY <1>1, <1>2, <2>1
    <3> QED  BY <2>1, <2>2, <3>1
  <2> QED  BY <2>1, <2>2, <2>3 DEF BS!Extends
<1>4. CASE ~Framed
  BY <1>4 DEF IInv, FallbackIsTransparent, BS!Extends, Accepted
<1> QED  BY <1>3, <1>4

LEMMA DeliveredGrows ==
  ASSUME IInv, [Next]_vars
  PROVE  delivered' = delivered \/ (BS!Extends(delivered', delivered) /\ UNCHANGED writer_vars)
<1>1. /\ TypeOK /\ rpos \in Nat /\ fed \in Nat /\ rpos <= fed /\ room \in Nat
      /\ remaining_content_len \in Nat
  BY DEF IInv, TypeOK
<1>2. ASSUME NEW k \in Nat, rpos + k <= fed, Deliver(k)
      PROVE  BS!Extends(delivered', delivered)
  <2>1. /\ Len(delivered) \in Nat /\ Len(delivered') = Len(delivered) + k
        /\ \A i \in 1 .. Len(delivered) : delivered'[i] = delivered[i]
    BY <1>1, <1>2, DeliverCells
  <2> QED  BY <2>1 DEF BS!Extends
<1>3. CASE UnframeDirect
  <2> DEFINE k == Smaller(available, room)
  <2>1. k \in Nat /\ rpos + k <= fed
    BY <1>1 DEF Smaller, available
  <2>2. Deliver(k) /\ UNCHANGED writer_vars
    BY <1>3 DEF UnframeDirect
  <2> HIDE DEF k
  <2> QED  BY <1>2, <2>1, <2>2
<1>4. CASE UnframeContent
  <2> DEFINE k == Smaller(Smaller(available, remaining_content_len), room)
  <2>1. k \in Nat /\ rpos + k <= fed
    BY <1>1 DEF Smaller, available
  <2>2. (delivered' = delivered \/ Deliver(k)) /\ UNCHANGED writer_vars
    BY <1>4 DEF UnframeContent
  <2> HIDE DEF k
  <2> QED  BY <1>2, <2>1, <2>2
<1>5. delivered' = delivered \/ UnframeDirect \/ UnframeContent
  BY DEF Next, Write, Read, Unframe, WriteFramed, WriteRaw, ForeignFrame, Close, PollRead,
         UnframeId, UnframeHeader, UnframePadding, UnframeBreak, Fill, ReadEof, vars, reader_vars
<1> QED  BY <1>3, <1>4, <1>5

(* A step of either end keeps what was written before it. *)
StreamGrows ==
  /\ peer' = peer /\ sent <= sent'
  /\ Len(wire) <= Len(wire')
  /\ \A i \in 1 .. Len(wire) : wire'[i] = wire[i]

LEMMA StepGrows ==
  ASSUME TypeOK, [Next]_vars
  PROVE  StreamGrows
<1>1. wire \in Bytes /\ sent \in Nat /\ Len(wire) \in Nat
  BY LenBytes DEF TypeOK
<1>2. ASSUME NEW cmd \in Nat, NEW clen \in Nat, NEW plen \in Nat,
             EmitFrame(cmd, clen, plen), peer' = peer
      PROVE  StreamGrows
  <2>1. FramePut(wire', wire, IdPrefix, FrameStart, cmd, sent, clen, plen)
    BY <1>2, EmitCells
  <2>2. Len(wire) <= Len(wire') /\ \A i \in 1 .. Len(wire) : wire'[i] = wire[i]
    BY <2>1 DEF FramePut, HdrLen
  <2>3. sent' = sent + clen
    BY <1>2 DEF EmitFrame
  <2>4. sent <= sent'
    BY <1>1, <2>3
  <2> QED  BY <1>2, <2>2, <2>4 DEF StreamGrows
<1>3. ASSUME peer' = peer, sent' = sent, wire' = wire PROVE StreamGrows
  BY <1>1, <1>3 DEF StreamGrows
<1>4. ASSUME NEW cls \in Classes, NEW asked \in 1 .. MaxWrite, NEW sid \in SessionIdLens,
             WriteFramed(cls, asked, sid)
      PROVE  StreamGrows
  <2> DEFINE len   == Smaller(asked, MaxFrame)
             start == can_start_direct_copy /\ cls = "appData"
             cmd   == IF start THEN StartDirectCopy ELSE ContinuePadding
  <2>1. len \in Nat
    BY FramingAssumption DEF Smaller
  <2>2. cmd \in Nat
    BY DEF StartDirectCopy, ContinuePadding
  <2>3. PICK plen \in PaddingLens(len) : EmitFrame(cmd, len, plen)
    BY <1>4 DEF WriteFramed
  <2>4. plen \in Nat /\ peer' = peer
    BY <1>4, <2>1, PaddingIsNat DEF WriteFramed
  <2> HIDE DEF len, start, cmd
  <2> QED  BY <1>2, <2>1, <2>2, <2>3, <2>4
<1>5. ASSUME NEW asked \in 1 .. MaxWrite, WriteRaw(asked) PROVE StreamGrows
  <2>1. /\ Len(wire') \in Nat /\ Len(wire') > Len(wire)
        /\ sent' = sent + (Len(wire') - Len(wire))
        /\ \A i \in 1 .. Len(wire) : wire'[i] = wire[i]
    BY <1>5, RawCells
  <2>2. peer' = peer
    BY <1>5 DEF WriteRaw
  <2>3. sent <= sent' /\ Len(wire) <= Len(wire')
    BY <1>1, <2>1
  <2> QED  BY <2>1, <2>2, <2>3 DEF StreamGrows
<1>6. ASSUME NEW cmd \in Commands, NEW clen \in 0 .. MaxFrame, NEW plen \in 0 .. ShortPad,
             ForeignFrame(cmd, clen, plen)
      PROVE  StreamGrows
  <2>1. cmd \in Nat /\ clen \in Nat /\ plen \in Nat
    BY DEF Commands, ContinuePadding, EndPadding, StartDirectCopy
  <2>2. EmitFrame(cmd, clen, plen) /\ peer' = peer
    BY <1>6 DEF ForeignFrame
  <2> QED  BY <1>2, <2>1, <2>2
<1>7. ASSUME UNCHANGED writer_vars PROVE StreamGrows
  BY <1>3, <1>7 DEF writer_vars
<1>8. CASE Read
  <2>1. UNCHANGED writer_vars
    BY <1>8 DEF Read, Unframe, PollRead, UnframeDirect, UnframeId, UnframeHeader, UnframeContent,
                UnframePadding, UnframeBreak, Fill, ReadEof
  <2> QED  BY <1>7, <2>1
<1>9. CASE Close
  BY <1>3, <1>9 DEF Close
<1>10. CASE UNCHANGED vars
  BY <1>7, <1>10 DEF vars
<1> QED  BY <1>4, <1>5, <1>6, <1>8, <1>9, <1>10 DEF Next, Write

(* Writing appends to what was accepted. *)
LEMMA AcceptedGrows ==
  ASSUME TypeOK, TypeOK', [Next]_vars
  PROVE  BS!Extends(Accepted', Accepted)
<1>1. sent \in Nat /\ sent' \in Nat
  BY DEF TypeOK
<1>2. StreamGrows
  BY StepGrows
<1>3. CASE Framed
  <2>1. Accepted = DataCells(0, sent) /\ Accepted' = DataCells(0, sent')
    BY <1>2, <1>3 DEF Accepted, Framed, StreamGrows, DataCells
  <2>2. /\ Len(DataCells(0, sent)) = sent /\ Len(DataCells(0, sent')) = sent'
        /\ \A i \in 1 .. sent : DataCells(0, sent)[i] = Data(0 + i)
        /\ \A i \in 1 .. sent' : DataCells(0, sent')[i] = Data(0 + i)
    BY <1>1, DataSeq
  <2>3. ASSUME NEW i \in 1 .. sent PROVE DataCells(0, sent')[i] = DataCells(0, sent)[i]
    <3>1. i \in 1 .. sent'
      BY <1>1, <1>2 DEF StreamGrows
    <3> QED  BY <2>2, <3>1
  <2> QED  BY <1>2, <2>1, <2>2, <2>3 DEF BS!Extends, StreamGrows
<1>4. CASE ~Framed
  <2>1. Accepted = wire /\ Accepted' = wire'
    BY <1>2, <1>4 DEF Accepted, Framed, StreamGrows
  <2> QED  BY <1>2, <2>1 DEF BS!Extends, StreamGrows
<1> QED  BY <1>3, <1>4

LEMMA InitAccepted ==
  Init => BS!Init
<1> SUFFICES ASSUME Init PROVE Accepted = <<>> /\ delivered = <<>>
  BY DEF BS!Init
<1>1. sent = 0 /\ wire = <<>> /\ delivered = <<>>
  BY DEF Init
<1>2. DataCells(0, 0) = <<>>
  BY DEF DataCells
<1> QED  BY <1>1, <1>2 DEF Accepted

LEMMA StepAccepted ==
  IInv /\ IInv' /\ [Next]_vars => [BS!Next]_(BS!bsvars)
<1> SUFFICES ASSUME IInv, IInv', [Next]_vars PROVE [BS!Next]_(BS!bsvars)
  OBVIOUS
<1>1. BS!Extends(Accepted', Accepted)
  BY AcceptedGrows DEF IInv
<1>2. BS!Extends(Accepted', delivered')
  <2>1. (BS!Extends(Accepted, delivered))'
    BY PrefixAccepted, PTL
  <2> QED  BY <2>1 DEF BS!Extends
<1>3. CASE delivered' = delivered
  BY <1>1, <1>3 DEF BS!Next, BS!Write
<1>4. CASE BS!Extends(delivered', delivered) /\ UNCHANGED writer_vars
  <2>1. Accepted' = Accepted
    BY <1>4 DEF writer_vars, Accepted, Framed, DataCells
  <2> QED  BY <1>2, <1>4, <2>1 DEF BS!Next, BS!Read
<1> QED  BY <1>3, <1>4, DeliveredGrows

(* Both ends together are a byte stream: of the application's bytes for a  *)
(* Vision peer, of the bytes on the wire for any other.                    *)
THEOREM Refinement == Spec => ImplementsByteStream
BY InitAccepted, StepAccepted, Inductive, PTL DEF Spec, ImplementsByteStream, BS!Spec

-----------------------------------------------------------------------------
(* The excluded suite, for a server that sends no handshake record after   *)
(* its hello, as in TLS 1.3, the only version that has the suite.           *)

ServersOnly == "client" \notin Peers /\ Classes \cap {"clientHello", "handshake"} = {}

SuiteInv ==
  /\ peer \in Peers
  /\ peer = "server" /\ inner_suite = "ccm8" =>
       /\ ~can_start_direct_copy /\ ~write_direct_copy
       /\ server_hello_buf.len > 0 => server_hello_buf.suite = "ccm8"

LEMMA SuiteKept ==
  ASSUME ServersOnly, SuiteInv, [Next]_vars PROVE SuiteInv'
<1>1. CASE UNCHANGED <<peer, inner_suite, write_direct_copy, can_start_direct_copy, server_hello_buf>>
  BY <1>1 DEF SuiteInv
<1>2. ASSUME NEW cls \in Classes, NEW asked \in 1 .. MaxWrite, NEW sid \in SessionIdLens,
             WriteFramed(cls, asked, sid)
      PROVE  SuiteInv'
  <2>1. SUFFICES ASSUME peer = "server", inner_suite = "ccm8"
                 PROVE  /\ ~can_start_direct_copy' /\ ~write_direct_copy'
                        /\ server_hello_buf'.len > 0 => server_hello_buf'.suite = "ccm8"
    BY <1>2 DEF WriteFramed, SuiteInv
  <2>2. /\ ~can_start_direct_copy /\ ~write_direct_copy
        /\ server_hello_buf.len > 0 => server_hello_buf.suite = "ccm8"
        /\ write_direct_copy' = (can_start_direct_copy /\ cls = "appData")
    BY <1>2, <2>1 DEF WriteFramed, SuiteInv
  <2>3. PICK len : SniffFirst(cls, len, sid) \/ SniffMore(len)
    BY <1>2 DEF WriteFramed
  <2>4. ~write_direct_copy'
    BY <2>2, Zenon
  <2>5. CASE SniffFirst(cls, len, sid)
    <3>1. cls \notin {"clientHello", "handshake"}
      BY <1>2 DEF ServersOnly
    <3>2. CASE cls = "serverHello"
      <4>1. SuiteField(cls) = "ccm8"
        BY <2>1, <3>2 DEF SuiteField
      <4>2. /\ server_hello_buf' = [len |-> len, sid |-> sid, suite |-> SuiteField(cls)]
            /\ can_start_direct_copy' = (can_start_direct_copy \/ cls = "clientHello")
        BY <2>5, <3>2 DEF SniffFirst
      <4>3. ~can_start_direct_copy'
        BY <2>2, <3>1, <4>2, Zenon
      <4>4. server_hello_buf'.suite = "ccm8"
        BY <4>1, <4>2
      <4> QED  BY <2>4, <4>3, <4>4
    <3>3. CASE cls # "serverHello"
      <4>1. UNCHANGED <<server_hello_buf, can_start_direct_copy>>
        BY <2>5, <3>1, <3>3 DEF SniffFirst
      <4> QED  BY <2>2, <2>4, <4>1, Zenon
    <3> QED  BY <3>2, <3>3
  <2>6. CASE SniffMore(len)
    <3>1. server_hello_buf.suite = "ccm8"
      BY <2>2, <2>6 DEF SniffMore
    <3>2. \/ can_start_direct_copy' = (server_hello_buf.suite # "ccm8") /\ server_hello_buf' = NoHello
          \/ /\ server_hello_buf' = [server_hello_buf EXCEPT !.len = Grown(len)]
             /\ can_start_direct_copy' = can_start_direct_copy
      BY <2>6 DEF SniffMore
    <3>3. ~can_start_direct_copy'
      BY <2>2, <3>1, <3>2, Zenon
    <3>4. NoHello.len = 0
      BY DEF NoHello
    <3>5. server_hello_buf'.len > 0 => server_hello_buf'.suite = "ccm8"
      <4>1. CASE server_hello_buf' = NoHello
        BY <3>4, <4>1
      <4>2. CASE server_hello_buf' = [server_hello_buf EXCEPT !.len = Grown(len)]
        BY <3>1, <4>2
      <4> QED  BY <3>2, <4>1, <4>2
    <3> QED  BY <2>4, <3>3, <3>5
  <2> QED  BY <2>3, <2>5, <2>6
<1>3. ASSUME NEW cmd \in Commands, NEW clen \in 0 .. MaxFrame, NEW plen \in 0 .. ShortPad,
             ForeignFrame(cmd, clen, plen)
      PROVE  SuiteInv'
  BY <1>3 DEF ForeignFrame, SuiteInv
<1>4. CASE UNCHANGED writer_vars
  BY <1>1, <1>4 DEF writer_vars
<1>5. Read => UNCHANGED writer_vars
  BY DEF Read, Unframe, PollRead, UnframeDirect, UnframeId, UnframeHeader, UnframeContent,
         UnframePadding, UnframeBreak, Fill, ReadEof
<1>6. ASSUME NEW asked \in 1 .. MaxWrite, WriteRaw(asked) PROVE SuiteInv'
  BY <1>1, <1>6 DEF WriteRaw
<1>7. CASE Close
  BY <1>1, <1>7 DEF Close
<1>8. CASE Write
  BY <1>2, <1>3, <1>6, <1>8 DEF Write
<1> QED  BY <1>4, <1>5, <1>7, <1>8 DEF Next, vars

(* A server never starts direct copy with the suite the code excludes, in  *)
(* whatever pieces and with whatever session id the hello comes.            *)
THEOREM SuiteIsRespected == ServersOnly => (Spec => []NoDirectCopyWithCcm8)
<1> SUFFICES ASSUME ServersOnly PROVE Spec => []NoDirectCopyWithCcm8
  OBVIOUS
<1>1. Init => SuiteInv
  BY DEF Init, SuiteInv, NoHello
<1>2. SuiteInv /\ [Next]_vars => SuiteInv'
  BY SuiteKept
<1>3. SuiteInv => NoDirectCopyWithCcm8
  BY DEF ServersOnly, SuiteInv, NoDirectCopyWithCcm8
<1> QED  BY <1>1, <1>2, <1>3, PTL DEF Spec

-----------------------------------------------------------------------------
(* Progress. *)

(* The places of the reader, and what they weigh. *)
LEMMA Ranks ==
  ASSUME IInv
  PROVE  /\ rpos \in Nat /\ fed \in Nat /\ Len(wire) \in Nat /\ rpos <= fed /\ fed <= Len(wire)
         /\ n \in Nat /\ room \in Nat /\ remaining_content_len \in Nat /\ remaining_padding_len \in Nat
         /\ StageRank \in 0 .. 3 /\ PcRank \in 0 .. 4 /\ Effort \in Nat
<1>1. /\ rpos \in Nat /\ fed \in Nat /\ Len(wire) \in Nat /\ rpos <= fed /\ fed <= Len(wire)
      /\ n \in Nat /\ room \in Nat /\ remaining_content_len \in Nat /\ remaining_padding_len \in Nat
  BY LenBytes DEF IInv, TypeOK
<1>2. StageRank \in 0 .. 3
  BY DEF IInv, TypeOK, Stages, StageRank
<1>3. PcRank \in 0 .. 4
  BY DEF IInv, TypeOK, PcRank
<1> QED  BY <1>1, <1>2, <1>3 DEF Effort

(* A byte taken, or put into read_buf, outweighs any change of place. *)
LEMMA ByteCounts ==
  ASSUME NEW l \in Nat, NEW r \in Nat, NEW f \in Nat, NEW i \in Nat, NEW j \in Nat, i + j >= 1,
         NEW s \in 0 .. 3, NEW t \in 0 .. 3, NEW p \in 0 .. 4, NEW q \in 0 .. 4
  PROVE  16 * (l - (r + i)) + 16 * (l - (f + j)) + t + q < 16 * (l - r) + 16 * (l - f) + s + p
OBVIOUS

LEMMA PlaceCounts ==
  ASSUME NEW a \in Int, NEW s \in 0 .. 3, NEW t \in 0 .. 3, NEW p \in 0 .. 4, NEW q \in 0 .. 4, t + q < s + p
  PROVE  a + t + q < a + s + p
OBVIOUS

LEMMA Earlier ==
  ASSUME NEW s \in 0 .. 3, NEW t \in 0 .. 3, NEW p \in 0 .. 4, NEW q \in 0 .. 4,
         (t < s /\ q = p) \/ (t = s /\ q < p)
  PROVE  t + q < s + p
OBVIOUS

LEMMA SamePlace ==
  ASSUME pc' = pc, n' = n
  PROVE  PcRank' = PcRank
BY DEF PcRank

(* A step that takes bytes. *)
LEMMA TakesBytes ==
  ASSUME IInv, IInv', wire' = wire, NEW i \in Nat, NEW j \in Nat, i + j >= 1,
         rpos' = rpos + i, fed' = fed + j
  PROVE  Effort' < Effort
<1>1. rpos \in Nat /\ fed \in Nat /\ Len(wire) \in Nat /\ StageRank \in 0 .. 3 /\ PcRank \in 0 .. 4
  BY Ranks
<1>2. (StageRank \in 0 .. 3 /\ PcRank \in 0 .. 4)'
  BY Ranks, PTL
<1>3. Effort' = 16 * (Len(wire) - (rpos + i)) + 16 * (Len(wire) - (fed + j)) + StageRank' + PcRank'
  BY DEF Effort
<1> QED  BY <1>1, <1>2, <1>3, ByteCounts DEF Effort

(* A step that takes none. *)
LEMMA TakesNone ==
  ASSUME IInv, IInv', wire' = wire, rpos' = rpos, fed' = fed, StageRank' + PcRank' < StageRank + PcRank
  PROVE  Effort' < Effort
<1> DEFINE a == 16 * (Len(wire) - rpos) + 16 * (Len(wire) - fed)
<1>1. a \in Int /\ StageRank \in 0 .. 3 /\ PcRank \in 0 .. 4
  BY Ranks
<1>2. (StageRank \in 0 .. 3 /\ PcRank \in 0 .. 4)'
  BY Ranks, PTL
<1>3. Effort = a + StageRank + PcRank /\ Effort' = a + StageRank' + PcRank'
  BY DEF Effort
<1> HIDE DEF a
<1> QED  BY <1>1, <1>2, <1>3, PlaceCounts

(* A return from unframe_read_buf. *)
LEMMA ReturnCounts ==
  ASSUME IInv, IInv', pc = "unframe", pc' = Returned(n, room), UNCHANGED <<stage, read_direct_copy, n>>
  PROVE  StageRank' + PcRank' < StageRank + PcRank
<1>1. n \in Nat /\ room \in Nat /\ (n = 0 => room > 0) /\ StageRank \in 0 .. 3
  BY Ranks DEF IInv, Waiting
<1>2. StageRank' = StageRank
  BY DEF StageRank
<1>3. PcRank' < PcRank /\ PcRank \in Nat /\ PcRank' \in Nat
  <2>1. CASE n > 0
    <3>1. pc' = "idle" /\ PcRank = 4
      BY <2>1 DEF Returned, PcRank
    <3>2. PcRank' = 3
      BY <3>1 DEF PcRank
    <3> QED  BY <3>1, <3>2
  <2>2. CASE n = 0
    <3>1. pc' = "fill" /\ PcRank = 2
      BY <1>1, <2>2 DEF Returned, PcRank
    <3>2. PcRank' = 1
      BY <3>1 DEF PcRank
    <3> QED  BY <3>1, <3>2
  <2> QED  BY <1>1, <2>1, <2>2
<1>4. StageRank' \in 0 .. 3 /\ PcRank \in 0 .. 4 /\ PcRank' \in 0 .. 4
  <2>1. (StageRank \in 0 .. 3 /\ PcRank \in 0 .. 4)'
    BY Ranks, PTL
  <2> QED  BY <2>1, Ranks
<1> QED  BY ONLY <1>1, <1>2, <1>3, <1>4, Earlier

(* A later stage. *)
LEMMA StageCounts ==
  ASSUME IInv, IInv', wire' = wire, rpos' = rpos, fed' = fed, PcRank' = PcRank, StageRank' < StageRank
  PROVE  Effort' < Effort
<1>1. StageRank \in 0 .. 3 /\ PcRank \in 0 .. 4
  BY Ranks
<1>2. (StageRank \in 0 .. 3 /\ PcRank \in 0 .. 4)'
  BY Ranks, PTL
<1>3. StageRank' + PcRank' < StageRank + PcRank
  <2> DEFINE s == StageRank
             t == StageRank'
             p == PcRank
             q == PcRank'
  <2>1. /\ s \in 0 .. 3 /\ t \in 0 .. 3 /\ p \in 0 .. 4 /\ q \in 0 .. 4 /\ q = p /\ t < s
    BY <1>1, <1>2
  <2> HIDE DEF s, t, p, q
  <2>2. t + q < s + p
    BY ONLY <2>1, Earlier
  <2> QED  BY <2>2 DEF s, t, p, q
<1> QED  BY <1>3, TakesNone

LEMMA ReaderCounts ==
  ASSUME IInv, IInv', Read
  PROVE  Effort' < Effort
<1>0. /\ rpos \in Nat /\ fed \in Nat /\ rpos <= fed /\ n \in Nat /\ room \in Nat
      /\ remaining_content_len \in Nat /\ remaining_padding_len \in Nat /\ (pc = "unframe" /\ n = 0 => room > 0)
      /\ IdLen \in Nat \ {0} /\ StageRank \in 0 .. 3
  BY Ranks, FramingAssumption DEF IInv, Waiting
<1>a. available \in Nat
  BY <1>0 DEF available
<1>w. wire' = wire
  BY DEF Read, Unframe, PollRead, UnframeDirect, UnframeId, UnframeHeader, UnframeContent,
         UnframePadding, UnframeBreak, Fill, ReadEof, writer_vars
<1>1. ASSUME NEW r \in 1 .. MaxRoom, PollRead(r) PROVE Effort' < Effort
  <2>1. StageRank' = StageRank /\ rpos' = rpos /\ fed' = fed
    BY <1>1 DEF PollRead, StageRank
  <2>2. PcRank' = 2 /\ PcRank = 3
    BY <1>1 DEF PollRead, PcRank
  <2> QED  BY <1>0, <1>w, <2>1, <2>2, TakesNone
<1>2. CASE UnframeDirect
  <2> DEFINE k == Smaller(available, room)
  <2>1. rpos' = rpos + k /\ fed' = fed + 0 /\ k \in Nat /\ k + 0 >= 1
    BY <1>0, <1>a, <1>2 DEF UnframeDirect, Deliver, Smaller
  <2> HIDE DEF k
  <2> QED  BY <1>w, <2>1, TakesBytes
<1>3. CASE UnframeId
  <2>1. CASE rpos' = rpos + IdLen
    <3>1. fed' = fed + 0 /\ IdLen + 0 >= 1 /\ IdLen \in Nat
      BY <1>0, <1>3 DEF UnframeId
    <3> QED  BY <1>w, <2>1, <3>1, TakesBytes
  <2>2. CASE rpos' = rpos /\ (read_direct_copy' = TRUE \/ (stage' = "Header" /\ read_direct_copy' = read_direct_copy))
    <3>1. StageRank = 2
      BY <1>3 DEF UnframeId, StageRank
    <3>2. StageRank' \in {0, 1}
      BY <1>3, <2>2 DEF UnframeId, StageRank
    <3>3. PcRank' = PcRank /\ fed' = fed
      BY <1>3, SamePlace DEF UnframeId
    <3>4. StageRank' < StageRank
      BY <3>1, <3>2
    <3> QED  BY <1>w, <2>2, <3>3, <3>4, StageCounts
  <2> QED  BY <1>3, <2>1, <2>2 DEF UnframeId
<1>4. CASE UnframeHeader
  <2>1. CASE wire[rpos + 1].val \in Commands
    <3>1. rpos' = rpos + 3 /\ fed' = fed + 0
      BY <1>0, <1>4, <2>1 DEF UnframeHeader, HdrLen
    <3> QED  BY <1>w, <3>1, TakesBytes
  <2>2. CASE wire[rpos + 1].val \notin Commands
    <3>1. pc' = "failed"
      BY <1>4, <2>2 DEF UnframeHeader
    <3> QED  BY <3>1 DEF IInv, NoDecodeError
  <2> QED  BY <2>1, <2>2
<1>5. CASE UnframeContent
  <2>1. CASE remaining_content_len = 0
    <3>1. StageRank = 3 /\ StageRank' = 2
      BY <1>5, <2>1 DEF UnframeContent, StageRank
    <3>2. PcRank' = PcRank /\ fed' = fed /\ rpos' = rpos
      BY <1>5, <2>1, SamePlace DEF UnframeContent
    <3>3. StageRank' < StageRank
      BY <3>1
    <3> QED  BY <1>w, <3>2, <3>3, StageCounts
  <2>2. CASE remaining_content_len > 0
    <3> DEFINE k == Smaller(Smaller(available, remaining_content_len), room)
    <3>1. /\ rpos' = rpos + k /\ fed' = fed + 0 /\ n' = n + k /\ room' = room - k
          /\ remaining_content_len' = remaining_content_len - k
          /\ available > 0 /\ stage = "Content" /\ pc = "unframe"
          /\ pc' = (IF room' = 0 /\ remaining_content_len' > 0 THEN Returned(n', room') ELSE pc)
          /\ stage' = (IF remaining_content_len' = 0 THEN "Padding" ELSE stage)
          /\ read_direct_copy' = read_direct_copy
      BY <1>0, <1>5, <2>2 DEF UnframeContent, Deliver
    <3>2. k \in Nat /\ (room > 0 => k >= 1) /\ (room = 0 => k = 0)
      BY <1>0, <1>a, <2>2, <3>1 DEF Smaller
    <3> HIDE DEF k
    <3>3. CASE room > 0
      <4>1. k + 0 >= 1 /\ 0 \in Nat /\ rpos' = rpos + k /\ fed' = fed + 0 /\ k \in Nat
        BY <3>1, <3>2, <3>3
      <4> QED  BY ONLY IInv, IInv', <1>w, <4>1, TakesBytes
    <3>4. CASE room = 0
      <4>0. k = 0
        BY <3>2, <3>4
      <4>1. /\ n' = n /\ room' = room /\ rpos' = rpos /\ fed' = fed
            /\ remaining_content_len' = remaining_content_len
        <5>1. rpos' = rpos + 0 /\ fed' = fed + 0 /\ n' = n + 0 /\ room' = room - 0
              /\ remaining_content_len' = remaining_content_len - 0
          BY <3>1, <4>0
        <5> QED  BY ONLY <1>0, <5>1
      <4>2. pc' = Returned(n, room) /\ stage' = stage
        BY <2>2, <3>1, <3>4, <4>1
      <4>3. StageRank' + PcRank' < StageRank + PcRank
        BY <3>1, <4>1, <4>2, ReturnCounts
      <4> QED  BY <1>w, <4>1, <4>3, TakesNone
    <3> QED  BY <1>0, <3>3, <3>4
  <2> QED  BY <1>0, <2>1, <2>2
<1>6. CASE UnframePadding
  <2> DEFINE k == Smaller(available, remaining_padding_len)
  <2>1. /\ rpos' = rpos + k /\ fed' = fed + 0 /\ n' = n /\ pc = "unframe" /\ ~read_direct_copy
        /\ remaining_padding_len' = remaining_padding_len - k /\ available > 0 /\ stage = "Padding"
        /\ IF remaining_padding_len' = 0 THEN stage' = "Header" /\ pc' = pc
           ELSE pc' = Returned(n, room) /\ stage' = stage /\ read_direct_copy' = read_direct_copy
    BY <1>0, <1>6 DEF UnframePadding
  <2>2. k \in Nat /\ (k = 0 => remaining_padding_len = 0)
    BY <1>0, <1>a, <2>1 DEF Smaller
  <2> HIDE DEF k
  <2>3. CASE k = 0
    <3>1. rpos' = rpos /\ fed' = fed /\ remaining_padding_len' = 0
      BY <1>0, <2>1, <2>2, <2>3
    <3>2. StageRank = 2 /\ StageRank' \in {0, 1}
      BY <2>1, <3>1 DEF StageRank
    <3>3. PcRank' = PcRank
      BY <2>1, <3>1, SamePlace
    <3>4. StageRank' < StageRank
      BY <3>2
    <3> QED  BY <1>w, <3>1, <3>3, <3>4, StageCounts
  <2>4. CASE k # 0
    <3>1. k + 0 >= 1
      BY <2>2, <2>4
    <3> QED  BY <1>w, <2>1, <2>2, <3>1, TakesBytes
  <2> QED  BY <2>3, <2>4
<1>7. CASE UnframeBreak
  <2>1. /\ pc = "unframe" /\ pc' = Returned(n, room) /\ rpos' = rpos /\ fed' = fed
        /\ UNCHANGED <<stage, read_direct_copy, n>>
    BY <1>7 DEF UnframeBreak
  <2>2. StageRank' + PcRank' < StageRank + PcRank
    BY <2>1, ReturnCounts
  <2> QED  BY <1>w, <2>1, <2>2, TakesNone
<1>8. ASSUME NEW k \in 1 .. TempBuf, Fill(k) PROVE Effort' < Effort
  <2>1. rpos' = rpos + 0 /\ fed' = fed + k /\ k \in Nat /\ 0 + k >= 1
    BY <1>0, <1>8, FramingAssumption DEF Fill
  <2> QED  BY <1>w, <2>1, TakesBytes
<1>9. CASE ReadEof
  <2>1. StageRank' = StageRank /\ rpos' = rpos /\ fed' = fed
    BY <1>9 DEF ReadEof, StageRank
  <2>2. PcRank' = 0 /\ PcRank = 1
    BY <1>9 DEF ReadEof, PcRank
  <2> QED  BY <1>0, <1>w, <2>1, <2>2, TakesNone
<1> QED  BY <1>1, <1>2, <1>3, <1>4, <1>5, <1>6, <1>7, <1>8, <1>9 DEF Read, Unframe

(* unframe_read_buf and poll_read always come to an end: a step of the      *)
(* reader that takes no byte brings it to a later place, for any frames,    *)
(* chunks and buffers.  It is what ReachesEof needs besides fairness.       *)
THEOREM ReaderProgress == Spec => ReaderAdvances
<1>1. ASSUME IInv, IInv', [Next]_vars, Read PROVE Effort' < Effort /\ Effort' \in Nat
  <2>1. (Effort \in Nat)'
    BY <1>1, Ranks, PTL
  <2> QED  BY <1>1, <2>1, ReaderCounts
<1>2. IInv /\ IInv' /\ [Next]_vars => [Read => Effort' < Effort /\ Effort' \in Nat]_vars
  BY <1>1
<1> QED  BY <1>2, Inductive, PTL DEF Spec, ReaderAdvances
=============================================================================
