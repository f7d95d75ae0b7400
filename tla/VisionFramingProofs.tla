------------------------ MODULE VisionFramingProofs -------------------------
(***************************************************************************)
(* VisionFraming for every value of its constants: the inductive invariant *)
(* IInv, the safety properties that follow from it, and the refinement of  *)
(* ByteStream.                                                             *)
(***************************************************************************)
EXTENDS VisionFraming, SequenceTheorems, TLAPS

(* Arithmetic. *)
LEMMA Shift ==
  ASSUME NEW s \in Nat, NEW m \in Nat, NEW t \in Nat, NEW l \in Nat, NEW x \in Nat,
         s = m + (l - t), t <= l
  PROVE  s + (x - l) = m + (x - t)
OBVIOUS

LEMMA LessStaysBelow ==
  ASSUME NEW a \in Nat, NEW c \in Nat, NEW k \in Nat, a <= c
  PROVE  a - k <= c
OBVIOUS

LEMMA NothingBeyond ==
  ASSUME NEW m \in Nat, NEW t \in Nat
  PROVE  m = m + (t - t) /\ t >= t
OBVIOUS

LEMMA TailIsMarked ==
  ASSUME TypeOK
  PROVE  tail \in Nat /\ mark[tail] \in Nat
BY DEF TypeOK

(* The bytes of a concatenation, place by place. *)
LEMMA LenBytes ==
  ASSUME NEW s \in Bytes
  PROVE  Len(s) \in Nat
BY LenProperties DEF Bytes

LEMMA ConcatCells ==
  ASSUME NEW s \in Bytes, NEW t \in Bytes
  PROVE  /\ s \o t \in Bytes
         /\ Len(s \o t) = Len(s) + Len(t)
         /\ \A i \in 1 .. Len(s) : (s \o t)[i] = s[i]
         /\ \A i \in Len(s) + 1 .. Len(s) + Len(t) : (s \o t)[i] = t[i - Len(s)]
<1>1. Len(s) \in Nat /\ Len(t) \in Nat
  BY LenBytes
<1>2. /\ s \o t \in Bytes /\ Len(s \o t) = Len(s) + Len(t)
      /\ \A i \in 1 .. Len(s) + Len(t) :
           (s \o t)[i] = IF i <= Len(s) THEN s[i] ELSE t[i - Len(s)]
  BY ConcatProperties DEF Bytes
<1>3. \A i \in 1 .. Len(s) : (s \o t)[i] = s[i]
  BY <1>1, <1>2
<1>4. \A i \in Len(s) + 1 .. Len(s) + Len(t) : (s \o t)[i] = t[i - Len(s)]
  BY <1>1, <1>2
<1> QED  BY <1>2, <1>3, <1>4

LEMMA DataSeq ==
  ASSUME NEW first \in Nat, NEW len \in Nat
  PROVE  /\ DataCells(first, len) \in Bytes
         /\ Len(DataCells(first, len)) = len
         /\ \A i \in 1 .. len : DataCells(first, len)[i] = Data(first + i)
BY DEF DataCells, Data, Cell, Bytes

LEMMA PadSeq ==
  ASSUME NEW len \in Nat
  PROVE  PadCells(len) \in Bytes /\ Len(PadCells(len)) = len
BY DEF PadCells, Cell, Bytes

LEMMA IdSeq ==
  ASSUME NEW tag \in {"id", "badid"}
  PROVE  /\ IdCells(tag) \in Bytes /\ Len(IdCells(tag)) = IdLen
         /\ \A i \in 1 .. IdLen : IdCells(tag)[i] = [tag |-> tag, val |-> i]
BY FramingAssumption DEF IdCells, Cell, Bytes

LEMMA PrefixSeq ==
  IdPrefix \in Bytes
<1>1. CASE peer = "server" \/ has_sent_id
  BY <1>1, EmptySeq DEF IdPrefix, Bytes
<1>2. CASE ~(peer = "server" \/ has_sent_id)
  BY <1>2, IdSeq DEF IdPrefix
<1> QED  BY <1>1, <1>2

(* v is w, the id p, and one frame that begins after the first at bytes. *)
FramePut(v, w, p, at, cmd, first, clen, plen) ==
  /\ Len(w) \in Nat /\ at \in Nat /\ Len(w) <= at
  /\ v \in Bytes /\ Len(v) = at + HdrLen + clen + plen
  /\ \A i \in 1 .. Len(w) : v[i] = w[i]
  /\ \A i \in Len(w) + 1 .. at : v[i] = p[i - Len(w)]
  /\ v[at + 1].val = cmd /\ v[at + 2].val = clen /\ v[at + 3].val = plen
  /\ \A i \in at + HdrLen + 1 .. at + HdrLen + clen :
       v[i] = Data(first + (i - at - HdrLen))

LEMMA AppendFrame ==
  ASSUME NEW w \in Bytes, NEW p \in Bytes, NEW cmd \in Nat, NEW first \in Nat,
         NEW clen \in Nat, NEW plen \in Nat,
         NEW v, v = w \o p \o Frame(cmd, first, clen, plen),
         NEW at, at = Len(w) + Len(p)
  PROVE  FramePut(v, w, p, at, cmd, first, clen, plen)
<1> DEFINE h  == << [tag |-> "cmd", val |-> cmd], [tag |-> "clen", val |-> clen],
                    [tag |-> "plen", val |-> plen] >>
           d  == DataCells(first, clen)
           z  == PadCells(plen)
           hd == h \o d
           f  == hd \o z
           wp == w \o p
<1>1. h \in Bytes /\ Len(h) = 3 /\ h[1].val = cmd /\ h[2].val = clen /\ h[3].val = plen
  BY DEF Cell, Bytes
<1>2. d \in Bytes /\ Len(d) = clen /\ \A i \in 1 .. clen : d[i] = Data(first + i)
  BY DataSeq
<1>3. z \in Bytes /\ Len(z) = plen
  BY PadSeq
<1>4. v = wp \o f
  BY DEF Frame
<1> HIDE DEF h, d, z
<1>5. /\ hd \in Bytes /\ Len(hd) = Len(h) + Len(d)
      /\ \A i \in 1 .. Len(h) : hd[i] = h[i]
      /\ \A i \in Len(h) + 1 .. Len(h) + Len(d) : hd[i] = d[i - Len(h)]
  BY <1>1, <1>2, ConcatCells
<1>6. /\ wp \in Bytes /\ Len(wp) = Len(w) + Len(p)
      /\ \A i \in 1 .. Len(w) : wp[i] = w[i]
      /\ \A i \in Len(w) + 1 .. Len(w) + Len(p) : wp[i] = p[i - Len(w)]
  BY ConcatCells
<1> HIDE DEF hd, wp
<1>7. /\ f \in Bytes /\ Len(f) = Len(hd) + Len(z)
      /\ \A i \in 1 .. Len(hd) : f[i] = hd[i]
  BY <1>3, <1>5, ConcatCells
<1> HIDE DEF f
<1>8. /\ v \in Bytes /\ Len(v) = Len(wp) + Len(f)
      /\ \A i \in 1 .. Len(wp) : v[i] = wp[i]
      /\ \A i \in Len(wp) + 1 .. Len(wp) + Len(f) : v[i] = f[i - Len(wp)]
  <2>1. wp \in Bytes /\ f \in Bytes
    BY <1>6, <1>7
  <2>2. /\ wp \o f \in Bytes /\ Len(wp \o f) = Len(wp) + Len(f)
        /\ \A i \in 1 .. Len(wp) : (wp \o f)[i] = wp[i]
        /\ \A i \in Len(wp) + 1 .. Len(wp) + Len(f) : (wp \o f)[i] = f[i - Len(wp)]
    BY <2>1, ConcatCells
  <2> QED  BY <2>2, <1>4
<1>9. /\ Len(w) \in Nat /\ Len(p) \in Nat /\ at \in Nat /\ Len(w) <= at
      /\ Len(wp) = at /\ Len(hd) = 3 + clen /\ Len(f) = 3 + clen + plen
      /\ Len(v) = at + HdrLen + clen + plen
  BY <1>1, <1>2, <1>3, <1>5, <1>6, <1>7, <1>8, LenBytes DEF HdrLen
<1>10. \A i \in 1 .. Len(w) : v[i] = w[i]
  BY <1>6, <1>8, <1>9
<1>11. \A i \in Len(w) + 1 .. at : v[i] = p[i - Len(w)]
  BY SMTT(60), <1>6, <1>8, <1>9
<1>12. ASSUME NEW i \in 1 .. 3 + clen PROVE v[at + i] = hd[i]
  <2>1. /\ at + i \in Len(wp) + 1 .. Len(wp) + Len(f) /\ (at + i) - Len(wp) = i
        /\ i \in 1 .. Len(hd)
    BY <1>9
  <2> QED  BY <2>1, <1>7, <1>8
<1>13. v[at + 1] = h[1] /\ v[at + 2] = h[2] /\ v[at + 3] = h[3]
  <2>1. ASSUME NEW i \in {1, 2, 3} PROVE v[at + i] = h[i]
    <3>1. i \in 1 .. 3 + clen /\ i \in 1 .. Len(h)
      BY <1>1
    <3> QED  BY <3>1, <1>5, <1>12
  <2> QED  BY <2>1
<1>14. ASSUME NEW i \in at + HdrLen + 1 .. at + HdrLen + clen
       PROVE  v[i] = Data(first + (i - at - HdrLen))
  <2>1. i - at \in 1 .. 3 + clen /\ at + (i - at) = i /\ i - at \in 4 .. 3 + clen
    BY <1>9 DEF HdrLen
  <2>2. v[i] = hd[i - at]
    BY <2>1, <1>12
  <2>3. hd[i - at] = d[i - at - 3] /\ i - at - 3 \in 1 .. clen
    BY <2>1, <1>1, <1>2, <1>5
  <2> QED  BY <2>2, <2>3, <1>2 DEF HdrLen
<1> QED  BY <1>1, <1>8, <1>9, <1>10, <1>11, <1>13, <1>14 DEF FramePut

(* What Deliver does to the delivered bytes. *)
LEMMA DeliverCells ==
  ASSUME TypeOK, NEW k \in Nat, rpos + k <= fed, Deliver(k)
  PROVE  /\ delivered' \in Bytes
         /\ Len(delivered) \in Nat /\ Len(delivered') = Len(delivered) + k
         /\ \A i \in 1 .. Len(delivered) : delivered'[i] = delivered[i]
         /\ \A i \in Len(delivered) + 1 .. Len(delivered) + k :
              delivered'[i] = wire[rpos + (i - Len(delivered))]
<1> DEFINE s == SubSeq(wire, rpos + 1, rpos + k)
<1>1. wire \in Bytes /\ rpos \in Nat /\ rpos + k <= Len(wire) /\ Len(wire) \in Nat
      /\ delivered \in Bytes /\ delivered' = delivered \o s
  BY LenBytes DEF TypeOK, Deliver
<1>2. s \in Bytes /\ Len(s) = k /\ \A j \in 1 .. k : s[j] = wire[rpos + j]
  BY <1>1 DEF Bytes
<1> HIDE DEF s
<1>3. /\ delivered' \in Bytes /\ Len(delivered') = Len(delivered) + Len(s)
      /\ \A i \in 1 .. Len(delivered) : delivered'[i] = delivered[i]
      /\ \A i \in Len(delivered) + 1 .. Len(delivered) + Len(s) :
           delivered'[i] = s[i - Len(delivered)]
  BY <1>1, <1>2, ConcatCells
<1>4. Len(delivered) \in Nat
  BY <1>1, LenBytes
<1> QED  BY <1>2, <1>3, <1>4

-----------------------------------------------------------------------------
(* The writer. *)

(* The number of bytes of the wire before a frame that is put on it now. *)
FrameStart == Len(wire) + Len(IdPrefix)

LEMMA EmitCells ==
  ASSUME TypeOK, NEW cmd \in Nat, NEW clen \in Nat, NEW plen \in Nat,
         EmitFrame(cmd, clen, plen)
  PROVE  FramePut(wire', wire, IdPrefix, FrameStart, cmd, sent, clen, plen)
<1>1. wire \in Bytes /\ sent \in Nat
  BY DEF TypeOK
<1>2. wire' = wire \o IdPrefix \o Frame(cmd, sent, clen, plen)
  BY DEF EmitFrame
<1>3. FrameStart = Len(wire) + Len(IdPrefix)
  BY DEF FrameStart
<1> QED  BY <1>1, <1>2, <1>3, PrefixSeq, AppendFrame

(* In a Vision stream the new frame begins at the last boundary. *)
LEMMA EmitAtTail ==
  ASSUME TypeOK, Framed, Layout, IdLayout, ~write_direct_copy
  PROVE  /\ tail = FrameStart
         /\ peer # "server" /\ wire = <<>> => IdPrefix = IdCells("id") /\ Len(IdPrefix) = IdLen
<1>1. CASE peer = "server"
  BY <1>1 DEF Layout, IdLayout, IdPrefix, Start, TypeOK, FrameStart
<1>2. CASE peer # "server" /\ wire = <<>>
  <2>1. IdPrefix = IdCells("id")
    BY <1>2 DEF IdLayout, IdPrefix, Framed
  <2> QED  BY <2>1, <1>2, IdSeq, FramingAssumption DEF Layout, Start, FrameStart
<1>3. CASE peer # "server" /\ wire # <<>>
  <2>1. IdPrefix = <<>> /\ tail = Len(wire)
    BY <1>3 DEF Layout, IdLayout, IdPrefix
  <2> QED  BY <2>1, <1>3, LenProperties DEF TypeOK, FrameStart
<1> QED  BY <1>1, <1>2, <1>3

LEMMA AtTail ==
  ASSUME TypeOK, Layout
  PROVE  /\ tail \in Nat /\ Len(wire) \in Nat /\ sent \in Nat /\ mark[tail] \in Nat
         /\ tail \in DOMAIN mark
         /\ ~write_direct_copy => sent = mark[tail]
         /\ ~write_direct_copy /\ wire # <<>> => tail = Len(wire)
<1>1. wire \in Bytes /\ sent \in Nat /\ tail \in Nat /\ tail \in DOMAIN mark /\ mark[tail] \in Nat
  BY DEF TypeOK
<1>2. Len(wire) \in Nat
  BY <1>1, LenBytes
<1>3. CASE wire = <<>>
  BY <1>1, <1>2, <1>3 DEF Layout
<1>4. CASE wire # <<>>
  BY <1>1, <1>2, <1>4 DEF Layout
<1> QED  BY <1>1, <1>2, <1>3, <1>4

(* A step of the writer of a Vision stream keeps what is on the wire and *)
(* the boundaries; a framed write moves the last boundary.                *)
WireGrows ==
  /\ wire' \in Bytes /\ Len(wire') \in Nat /\ Len(wire) <= Len(wire')
  /\ \A i \in 1 .. Len(wire) : wire'[i] = wire[i]
  /\ \A b \in DOMAIN mark : b \in DOMAIN mark' /\ mark'[b] = mark[b]
  /\ \/ ~write_direct_copy /\ tail' \in Nat /\ tail < tail'
     \/ write_direct_copy' = write_direct_copy /\ tail' = tail
  /\ peer' = peer

LEMMA WireVals ==
  ASSUME TypeOK, NEW i \in 1 .. Len(wire)
  PROVE  wire[i] \in Cell /\ wire[i].val \in Nat
<1>1. wire[i] \in Cell
  BY DEF TypeOK, Bytes
<1> QED  BY <1>1 DEF Cell

(* What FrameAt(b) says of the numbers in the header of that frame. *)
LEMMA FrameNumbers ==
  ASSUME TypeOK, Layout, NEW b \in DOMAIN mark, b # tail
  PROVE  /\ b \in Nat /\ Len(wire) \in Nat /\ tail \in Nat /\ tail <= Len(wire) /\ FrameAt(b)
         /\ wire[b + 2].val \in Nat /\ wire[b + 3].val \in Nat
         /\ b + HdrLen <= Len(wire)
         /\ End(b) = b + HdrLen + wire[b + 2].val + wire[b + 3].val
         /\ End(b) \in DOMAIN mark /\ End(b) <= tail /\ End(b) \in Nat
         /\ b + HdrLen + wire[b + 2].val <= Len(wire)
<1>1. FrameAt(b) /\ b \in Nat /\ wire \in Bytes /\ tail \in Nat
  BY DEF Layout, TypeOK
<1>2. Len(wire) \in Nat
  BY <1>1, LenBytes
<1>3. b + HdrLen <= Len(wire) /\ End(b) \in DOMAIN mark
  BY <1>1 DEF FrameAt
<1>4. wire # <<>>
  <2>1. SUFFICES ASSUME wire = <<>> PROVE FALSE
    OBVIOUS
  <2>2. Len(wire) = 0
    BY <2>1
  <2> QED  BY <1>1, <1>3, <2>2 DEF HdrLen
<1>5. tail <= Len(wire) /\ End(b) <= tail /\ End(b) \in Nat
  BY <1>3, <1>4 DEF Layout, TypeOK
<1>6. wire[b + 2].val \in Nat /\ wire[b + 3].val \in Nat
  <2>1. b + 2 \in 1 .. Len(wire) /\ b + 3 \in 1 .. Len(wire)
    BY <1>1, <1>2, <1>3 DEF HdrLen
  <2> QED  BY <2>1, WireVals
<1>7. End(b) = b + HdrLen + wire[b + 2].val + wire[b + 3].val
  BY DEF End
<1>8. b + HdrLen + wire[b + 2].val <= Len(wire)
  BY SMTT(60), <1>1, <1>2, <1>5, <1>6, <1>7 DEF HdrLen
<1> QED  BY <1>1, <1>2, <1>3, <1>5, <1>6, <1>7, <1>8

(* The frames that are on the wire stay as they are. *)
LEMMA OldHeaders ==
  ASSUME TypeOK, Layout, WireGrows, NEW b \in DOMAIN mark, b # tail
  PROVE  /\ wire'[b + 1] = wire[b + 1] /\ wire'[b + 2] = wire[b + 2] /\ wire'[b + 3] = wire[b + 3]
         /\ End(b)' = End(b)
<1>1. b \in Nat /\ Len(wire) \in Nat /\ b + HdrLen <= Len(wire)
  BY FrameNumbers
<1>2. ASSUME NEW i \in {1, 2, 3} PROVE wire'[b + i] = wire[b + i]
  <2>1. b + i \in 1 .. Len(wire)
    BY <1>1 DEF HdrLen
  <2> QED  BY <2>1 DEF WireGrows
<1>3. wire'[b + 1] = wire[b + 1] /\ wire'[b + 2] = wire[b + 2] /\ wire'[b + 3] = wire[b + 3]
  BY <1>2
<1> QED  BY <1>3 DEF End

LEMMA OldFrames ==
  ASSUME TypeOK, Layout, WireGrows, NEW b \in DOMAIN mark, b # tail
  PROVE  FrameAt(b)'
<1> DEFINE c == wire[b + 2].val
<1>1. /\ b \in Nat /\ Len(wire) \in Nat /\ tail \in Nat /\ c \in Nat
      /\ b + HdrLen <= Len(wire) /\ b + HdrLen + c <= Len(wire)
      /\ End(b) \in DOMAIN mark /\ End(b) <= tail /\ End(b) \in Nat
  BY FrameNumbers
<1>2. /\ wire[b + 1].val \in Commands
      /\ mark[End(b)] = mark[b] + c
      /\ \A i \in b + HdrLen + 1 .. b + HdrLen + c : wire[i] = Data(mark[b] + (i - b - HdrLen))
      /\ wire[b + 1].val # ContinuePadding <=> End(b) = tail /\ write_direct_copy
  BY FrameNumbers DEF FrameAt
<1>3. /\ wire'[b + 1] = wire[b + 1] /\ wire'[b + 2] = wire[b + 2]
      /\ End(b)' = End(b)
  BY OldHeaders
<1>4. /\ Len(wire') \in Nat /\ b + HdrLen <= Len(wire') /\ End(b) \in DOMAIN mark'
      /\ mark'[End(b)] = mark'[b] + c
  BY SMTT(60), <1>1, <1>2 DEF WireGrows, HdrLen
<1> HIDE DEF c
<1>5. ASSUME NEW i \in b + HdrLen + 1 .. b + HdrLen + c
      PROVE  wire'[i] = Data(mark'[b] + (i - b - HdrLen))
  <2>1. i \in 1 .. Len(wire)
    BY <1>1 DEF HdrLen
  <2> QED  BY <2>1, <1>2 DEF WireGrows
<1>6. wire[b + 1].val # ContinuePadding <=> End(b) = tail' /\ write_direct_copy'
  <2>1. CASE ~write_direct_copy /\ tail' \in Nat /\ tail < tail'
    BY <2>1, <1>1, <1>2
  <2>2. CASE write_direct_copy' = write_direct_copy /\ tail' = tail
    BY <2>2, <1>2
  <2> QED  BY <2>1, <2>2 DEF WireGrows
<1> QED  BY <1>2, <1>3, <1>4, <1>5, <1>6 DEF FrameAt, c

(* A frame continues the chain of frames. *)
LEMMA FrameKeepsLayout ==
  ASSUME TypeOK, Framed, Layout, IdLayout, ~write_direct_copy,
         NEW cmd \in Commands, NEW clen \in Nat, NEW plen \in Nat, EmitFrame(cmd, clen, plen),
         peer' = peer, write_direct_copy' = (cmd # ContinuePadding)
  PROVE  Layout' /\ WireGrows /\ wire' # <<>>
<1>1. cmd \in Nat
  BY DEF Commands, ContinuePadding, EndPadding, StartDirectCopy
<1>2. FramePut(wire', wire, IdPrefix, tail, cmd, sent, clen, plen)
  BY <1>1, EmitCells, EmitAtTail
<1>3. /\ tail \in Nat /\ Len(wire) \in Nat /\ sent \in Nat /\ mark[tail] \in Nat
      /\ tail \in DOMAIN mark /\ sent = mark[tail]
  BY AtTail
<1>4. /\ Len(wire) <= tail /\ tail' = tail + HdrLen + clen + plen /\ tail' = Len(wire')
      /\ tail' \in Nat /\ tail < tail' /\ wire' # <<>> /\ Len(wire) <= Len(wire')
      /\ sent' = sent + clen /\ \A i \in 1 .. Len(wire) : wire'[i] = wire[i]
  <2>1. /\ Len(wire) <= tail /\ Len(wire') = tail + HdrLen + clen + plen
        /\ \A i \in 1 .. Len(wire) : wire'[i] = wire[i]
    BY <1>2 DEF FramePut
  <2>2. sent' = sent + clen /\ tail' = Len(wire')
    BY DEF EmitFrame
  <2>3. tail' \in Nat /\ tail < tail'
    BY <1>3, <2>1, <2>2 DEF HdrLen
  <2>4. Len(<<>>) = 0
    OBVIOUS
  <2> QED  BY <1>3, <2>1, <2>2, <2>3, <2>4
<1>5. /\ DOMAIN mark' = DOMAIN mark \cup {tail'} /\ mark'[tail'] = sent'
      /\ \A b \in DOMAIN mark : Start <= b /\ b <= tail /\ mark[b] <= mark[tail]
      /\ \A b \in DOMAIN mark : mark'[b] = mark[b] /\ mark[b] \in Nat /\ b \in Nat
  <2>1. \A b \in DOMAIN mark : b \in Nat /\ mark[b] \in Nat
    BY DEF TypeOK
  <2>2. \A b \in DOMAIN mark : Start <= b /\ b <= tail /\ mark[b] <= mark[tail]
    BY DEF Layout
  <2>3. \A b \in DOMAIN mark : b # tail'
    BY <1>3, <1>4, <2>1, <2>2
  <2>4. mark' = [b \in DOMAIN mark \cup {tail'} |-> IF b = tail' THEN sent' ELSE mark[b]]
    BY DEF EmitFrame
  <2> QED  BY <2>1, <2>2, <2>3, <2>4
<1>6. Start' = Start /\ Start \in Nat
  BY FramingAssumption DEF Start
<1>7. WireGrows
  BY <1>2, <1>3, <1>4, <1>5 DEF WireGrows, FramePut
<1>8. ASSUME NEW b \in DOMAIN mark, b = tail PROVE FrameAt(b)'
  <2>1. wire'[b + 1].val = cmd /\ wire'[b + 2].val = clen /\ wire'[b + 3].val = plen
    BY <1>2, <1>8 DEF FramePut
  <2>2. End(b)' = tail'
    BY <1>3, <1>4, <1>8, <2>1 DEF End
  <2>3. mark'[tail'] = mark'[b] + clen
    BY <1>3, <1>4, <1>5, <1>8
  <2>4. \A i \in b + HdrLen + 1 .. b + HdrLen + clen :
          wire'[i] = Data(mark'[b] + (i - b - HdrLen))
    BY <1>2, <1>3, <1>5, <1>8 DEF FramePut
  <2>5. b + HdrLen <= Len(wire')
    BY <1>3, <1>4, <1>8 DEF HdrLen
  <2>6. tail' \in DOMAIN mark'
    BY <1>5
  <2> QED  BY <2>1, <2>2, <2>3, <2>4, <2>5, <2>6 DEF FrameAt
<1>9. Start \in DOMAIN mark' /\ mark'[Start] = 0
  BY <1>5 DEF Layout
<1>10. \A b \in DOMAIN mark' : Start <= b /\ b <= tail' /\ mark'[b] <= mark'[tail']
  BY SMTT(60), <1>3, <1>4, <1>5, <1>6
<1>11. ASSUME NEW b \in DOMAIN mark', b # tail' PROVE FrameAt(b)'
  <2>1. b \in DOMAIN mark
    BY <1>5, <1>11
  <2> QED  BY <2>1, <1>7, <1>8, OldFrames
<1>12. Start < tail' /\ sent' = mark'[tail'] + (Len(wire') - tail')
  BY <1>3, <1>4, <1>5, <1>6
<1>13. \A i \in tail' + 1 .. Len(wire') : wire'[i] = Data(mark'[tail'] + (i - tail'))
  BY <1>4
<1> QED  BY <1>4, <1>6, <1>7, <1>9, <1>10, <1>11, <1>12, <1>13 DEF Layout


(* What WriteRaw puts on the wire. *)
LEMMA RawCells ==
  ASSUME TypeOK, NEW asked \in 1 .. MaxWrite, WriteRaw(asked)
  PROVE  /\ wire' \in Bytes /\ Len(wire) \in Nat /\ Len(wire') \in Nat
         /\ Len(wire') > Len(wire) /\ sent' = sent + (Len(wire') - Len(wire))
         /\ \A i \in 1 .. Len(wire) : wire'[i] = wire[i]
         /\ \A i \in Len(wire) + 1 .. Len(wire') : wire'[i] = Data(sent + (i - Len(wire)))
<1> DEFINE len == Smaller(asked, MaxFrame)
           d   == DataCells(sent, len)
<1>1. len \in Nat /\ len > 0 /\ sent \in Nat /\ wire \in Bytes
  BY FramingAssumption DEF Smaller, TypeOK
<1>2. wire' = wire \o d /\ sent' = sent + len
  BY DEF WriteRaw
<1> HIDE DEF len
<1>3. d \in Bytes /\ Len(d) = len /\ \A i \in 1 .. len : d[i] = Data(sent + i)
  BY <1>1, DataSeq
<1> HIDE DEF d
<1>4. /\ wire' \in Bytes /\ Len(wire') = Len(wire) + Len(d)
      /\ \A i \in 1 .. Len(wire) : wire'[i] = wire[i]
      /\ \A i \in Len(wire) + 1 .. Len(wire) + Len(d) : wire'[i] = d[i - Len(wire)]
  BY <1>1, <1>2, <1>3, ConcatCells
<1>5. Len(wire) \in Nat
  BY <1>1, LenBytes
<1>6. \A i \in Len(wire) + 1 .. Len(wire') : wire'[i] = Data(sent + (i - Len(wire)))
  BY <1>3, <1>4, <1>5
<1> QED  BY <1>1, <1>2, <1>3, <1>4, <1>5, <1>6

LEMMA RawKeepsLayout ==
  ASSUME TypeOK, Framed, Layout, NEW asked \in 1 .. MaxWrite, WriteRaw(asked)
  PROVE  Layout' /\ WireGrows /\ wire # <<>> /\ wire' # <<>>
<1>1. /\ UNCHANGED <<peer, write_direct_copy, mark, tail>> /\ write_direct_copy
  BY DEF WriteRaw, Framed
<1>2. /\ wire' \in Bytes /\ Len(wire) \in Nat /\ Len(wire') \in Nat
      /\ Len(wire') > Len(wire) /\ sent' = sent + (Len(wire') - Len(wire))
      /\ \A i \in 1 .. Len(wire) : wire'[i] = wire[i]
      /\ \A i \in Len(wire) + 1 .. Len(wire') : wire'[i] = Data(sent + (i - Len(wire)))
  BY RawCells
<1>3. /\ tail \in Nat /\ sent \in Nat /\ mark[tail] \in Nat
  BY DEF TypeOK
<1>4. /\ wire # <<>> /\ Start < tail /\ tail <= Len(wire) /\ sent = mark[tail] + (Len(wire) - tail)
      /\ \A i \in tail + 1 .. Len(wire) : wire[i] = Data(mark[tail] + (i - tail))
  BY <1>1 DEF Layout
<1>5. WireGrows
  BY <1>1, <1>2 DEF WireGrows
<1>6. \A b \in DOMAIN mark' : b # tail' => FrameAt(b)'
  BY <1>1, <1>5, OldFrames
<1>7. wire' # <<>>
  <2>1. Len(<<>>) = 0
    OBVIOUS
  <2> QED  BY <1>2, <2>1
<1>8. sent' = mark[tail] + (Len(wire') - tail) /\ tail <= Len(wire')
  <2>1. /\ Len(wire) \in Nat /\ Len(wire') \in Nat /\ Len(wire') > Len(wire)
        /\ sent' = sent + (Len(wire') - Len(wire))
    BY <1>2
  <2>2. sent = mark[tail] + (Len(wire) - tail) /\ tail <= Len(wire)
    BY <1>4
  <2>3. sent + (Len(wire') - Len(wire)) = mark[tail] + (Len(wire') - tail)
    <3> DEFINE l == Len(wire)
               lp == Len(wire')
               m == mark[tail]
    <3>1. l \in Nat /\ lp \in Nat /\ sent = m + (l - tail) /\ tail <= l
      BY <2>1, <2>2
    <3>2. m \in Nat /\ tail \in Nat /\ sent \in Nat
      BY <1>3
    <3> HIDE DEF l, lp, m
    <3>3. sent + (lp - l) = m + (lp - tail)
      BY <3>1, <3>2, Shift
    <3> QED  BY <3>3 DEF l, lp, m
  <2>4. tail <= Len(wire')
    BY <1>3, <2>1, <2>2
  <2> QED  BY <2>1, <2>3, <2>4
<1>9. ASSUME NEW i \in tail + 1 .. Len(wire') PROVE wire'[i] = Data(mark[tail] + (i - tail))
  <2>1. CASE i <= Len(wire)
    BY <1>2, <1>3, <1>4, <2>1
  <2>2. CASE i > Len(wire)
    <3>1. wire'[i] = Data(sent + (i - Len(wire)))
      BY <1>2, <1>3, <2>2
    <3>2. sent + (i - Len(wire)) = mark[tail] + (i - tail)
      <4> DEFINE l == Len(wire)
                 m == mark[tail]
      <4>1. l \in Nat /\ sent = m + (l - tail) /\ tail <= l
        BY <1>2, <1>4
      <4>2. i \in Nat /\ m \in Nat /\ tail \in Nat /\ sent \in Nat
        BY <1>3
      <4> HIDE DEF l, m
      <4>3. sent + (i - l) = m + (i - tail)
        BY <4>1, <4>2, Shift
      <4> QED  BY <4>3 DEF l, m
    <3> QED  BY <3>1, <3>2
  <2> QED  BY <1>2, <1>3, <2>1, <2>2
<1>10. Start' = Start
  BY <1>1 DEF Start
<1>11. /\ Start \in DOMAIN mark /\ mark[Start] = 0
       /\ \A b \in DOMAIN mark : Start <= b /\ b <= tail /\ mark[b] <= mark[tail]
  BY DEF Layout
<1> QED  BY <1>1, <1>4, <1>5, <1>6, <1>7, <1>8, <1>9, <1>10, <1>11 DEF Layout

-----------------------------------------------------------------------------
(* Type correctness. *)

LEMMA PaddingIsNat ==
  ASSUME NEW len \in Nat
  PROVE  PaddingLens(len) \subseteq Nat
BY FramingAssumption DEF PaddingLens, Monus

LEMMA EmitType ==
  ASSUME TypeOK, NEW cmd \in Commands, NEW clen \in Nat, NEW plen \in Nat,
         EmitFrame(cmd, clen, plen)
  PROVE  /\ wire' \in Bytes /\ Len(wire) <= Len(wire')
         /\ sent' \in Nat /\ tail' \in Nat /\ tail' \in DOMAIN mark'
         /\ DOMAIN mark' \subseteq Nat /\ \A b \in DOMAIN mark' : mark'[b] \in Nat
<1>1. cmd \in Nat
  BY DEF Commands, ContinuePadding, EndPadding, StartDirectCopy
<1>2. FramePut(wire', wire, IdPrefix, FrameStart, cmd, sent, clen, plen)
  BY <1>1, EmitCells
<1>3. wire' \in Bytes /\ Len(wire') \in Nat /\ Len(wire) <= Len(wire')
  BY <1>2 DEF FramePut, HdrLen
<1>4. sent \in Nat /\ DOMAIN mark \subseteq Nat /\ \A b \in DOMAIN mark : mark[b] \in Nat
  BY DEF TypeOK
<1>5. /\ sent' = sent + clen /\ tail' = Len(wire')
      /\ mark' = [b \in DOMAIN mark \cup {tail'} |-> IF b = tail' THEN sent' ELSE mark[b]]
  BY DEF EmitFrame
<1> QED  BY <1>3, <1>4, <1>5

LEMMA InitType ==
  Init => TypeOK
<1> SUFFICES ASSUME Init PROVE TypeOK
  OBVIOUS
<1>1. tail \in Nat /\ mark = [b \in {tail} |-> 0]
  BY FramingAssumption DEF Init
<1>2. wire \in Bytes /\ delivered \in Bytes /\ Len(wire) = 0
  BY EmptySeq DEF Init, Bytes
<1>3. tail \in DOMAIN mark /\ DOMAIN mark \subseteq Nat /\ \A b \in DOMAIN mark : mark[b] \in Nat
  BY <1>1
<1>4. server_hello_buf \in [len : Nat, sid : Nat, suite : Suites]
  BY DEF Init, NoHello, Suites
<1>5. /\ stage \in Stages /\ command \in Commands /\ pc \in {"idle", "unframe", "fill", "eof", "failed"}
      /\ closed \in BOOLEAN /\ has_sent_id \in BOOLEAN /\ write_direct_copy \in BOOLEAN
      /\ can_start_direct_copy \in BOOLEAN /\ read_direct_copy \in BOOLEAN
      /\ peer \in Peers /\ inner_suite \in Suites
  BY DEF Init, Stages, Commands, ContinuePadding
<1>6. /\ sent \in Nat /\ rpos \in Nat /\ fed \in Nat /\ rpos <= fed /\ fed <= Len(wire)
      /\ remaining_content_len \in Nat /\ remaining_padding_len \in Nat /\ room \in Nat /\ n \in Nat
  BY <1>2 DEF Init
<1> QED  BY <1>1, <1>2, <1>3, <1>4, <1>5, <1>6 DEF TypeOK

LEMMA WriteFramedType ==
  ASSUME TypeOK, NEW cls \in Classes, NEW asked \in 1 .. MaxWrite, NEW sid \in SessionIdLens,
         WriteFramed(cls, asked, sid)
  PROVE  TypeOK'
<1> DEFINE len   == Smaller(asked, MaxFrame)
           start == can_start_direct_copy /\ cls = "appData"
           cmd   == IF start THEN StartDirectCopy ELSE ContinuePadding
<1>1. len \in Nat /\ sid \in Nat
  BY FramingAssumption DEF Smaller
<1>2. cmd \in Commands
  BY DEF Commands, StartDirectCopy, ContinuePadding
<1>3. PICK plen \in PaddingLens(len) : EmitFrame(cmd, len, plen)
  BY DEF WriteFramed
<1>4. plen \in Nat
  BY <1>1, PaddingIsNat
<1>5. /\ wire' \in Bytes /\ Len(wire) <= Len(wire')
      /\ sent' \in Nat /\ tail' \in Nat /\ tail' \in DOMAIN mark'
      /\ DOMAIN mark' \subseteq Nat /\ \A b \in DOMAIN mark' : mark'[b] \in Nat
  <2> HIDE DEF len, cmd
  <2> QED  BY <1>1, <1>2, <1>3, <1>4, EmitType
<1>6. /\ server_hello_buf' \in [len : Nat, sid : Nat, suite : Suites]
      /\ can_start_direct_copy' \in BOOLEAN
  <2>1. server_hello_buf \in [len : Nat, sid : Nat, suite : Suites]
        /\ can_start_direct_copy \in BOOLEAN /\ inner_suite \in Suites
    BY DEF TypeOK
  <2> HIDE DEF len
  <2>2. CASE SniffFirst(cls, len, sid)
    <3>1. SuiteField(cls) \in Suites
      BY <2>1 DEF SuiteField, Suites
    <3>2. CASE cls \in {"clientHello", "serverHello", "handshake"}
      BY <1>1, <2>2, <3>1, <3>2 DEF SniffFirst
    <3>3. CASE cls \notin {"clientHello", "serverHello", "handshake"}
      BY <2>1, <2>2, <3>3 DEF SniffFirst
    <3> QED  BY <3>2, <3>3
  <2>3. CASE SniffMore(len)
    <3>1. Grown(len) \in Nat
      BY <1>1, <2>1, FramingAssumption DEF Grown, Smaller
    <3>2. CASE Grown(len) >= HelloFixed /\ Grown(len) >= HelloSuite + server_hello_buf.sid
      <4>1. /\ server_hello_buf' = NoHello
            /\ can_start_direct_copy' = (server_hello_buf.suite # "ccm8")
        BY <2>3, <3>2 DEF SniffMore
      <4>2. NoHello \in [len : Nat, sid : Nat, suite : Suites]
        BY DEF NoHello, Suites
      <4> QED  BY <4>1, <4>2
    <3>3. CASE ~(Grown(len) >= HelloFixed /\ Grown(len) >= HelloSuite + server_hello_buf.sid)
      <4>1. /\ server_hello_buf' = [server_hello_buf EXCEPT !.len = Grown(len)]
            /\ can_start_direct_copy' = can_start_direct_copy
        BY <2>3, <3>3 DEF SniffMore
      <4> QED  BY <2>1, <3>1, <4>1
    <3> QED  BY <3>2, <3>3
  <2> QED  BY <2>2, <2>3 DEF WriteFramed, len
<1>7. /\ write_direct_copy' = start /\ has_sent_id' = (has_sent_id \/ peer # "server")
      /\ UNCHANGED <<peer, inner_suite, closed, reader_vars>>
  BY DEF WriteFramed
<1>8. Len(wire) \in Nat /\ Len(wire') \in Nat /\ fed <= Len(wire')
  BY <1>5, <1>7, LenBytes DEF TypeOK
<1> QED  BY <1>5, <1>6, <1>7, <1>8 DEF TypeOK, reader_vars

LEMMA ForeignFrameType ==
  ASSUME TypeOK, NEW cmd \in Commands, NEW clen \in 0 .. MaxFrame, NEW plen \in 0 .. ShortPad,
         ForeignFrame(cmd, clen, plen)
  PROVE  TypeOK'
<1>1. clen \in Nat /\ plen \in Nat
  OBVIOUS
<1>2. /\ EmitFrame(cmd, clen, plen) /\ has_sent_id' = TRUE
      /\ write_direct_copy' = (cmd # ContinuePadding)
      /\ UNCHANGED <<peer, inner_suite, closed, can_start_direct_copy, server_hello_buf, reader_vars>>
  BY DEF ForeignFrame
<1>3. /\ wire' \in Bytes /\ Len(wire) <= Len(wire')
      /\ sent' \in Nat /\ tail' \in Nat /\ tail' \in DOMAIN mark'
      /\ DOMAIN mark' \subseteq Nat /\ \A b \in DOMAIN mark' : mark'[b] \in Nat
  BY <1>1, <1>2, EmitType
<1>4. Len(wire) \in Nat /\ Len(wire') \in Nat /\ fed <= Len(wire')
  BY <1>2, <1>3, LenBytes DEF TypeOK, reader_vars
<1> QED  BY <1>2, <1>3, <1>4 DEF TypeOK, reader_vars

LEMMA WriteRawType ==
  ASSUME TypeOK, NEW asked \in 1 .. MaxWrite, WriteRaw(asked)
  PROVE  TypeOK'
<1>1. UNCHANGED <<peer, inner_suite, closed, has_sent_id, write_direct_copy,
                  can_start_direct_copy, server_hello_buf, mark, tail, reader_vars>>
  BY DEF WriteRaw
<1>2. wire' \in Bytes /\ Len(wire) \in Nat /\ Len(wire') \in Nat /\ Len(wire') > Len(wire)
      /\ sent' = sent + (Len(wire') - Len(wire))
  BY RawCells
<1>3. sent' \in Nat /\ fed' <= Len(wire')
  BY <1>1, <1>2 DEF TypeOK, reader_vars
<1> QED  BY <1>1, <1>2, <1>3 DEF TypeOK, reader_vars

LEMMA UnframeDirectType ==
  ASSUME TypeOK, UnframeDirect
  PROVE  TypeOK'
<1> DEFINE k == Smaller(available, room)
<1>1. k \in Nat /\ k <= room /\ rpos + k <= fed
  BY DEF TypeOK, UnframeDirect, Smaller, available
<1>2. Deliver(k) /\ UNCHANGED <<writer_vars, fed, stage, command, remaining_content_len,
                               remaining_padding_len, read_direct_copy, pc>>
  BY DEF UnframeDirect
<1> HIDE DEF k
<1>3. delivered' \in Bytes
  BY <1>1, <1>2, DeliverCells
<1>4. rpos' \in Nat /\ rpos' <= fed /\ room' \in Nat /\ n' \in Nat
  BY <1>1, <1>2 DEF Deliver, TypeOK
<1> QED  BY <1>2, <1>3, <1>4 DEF TypeOK, writer_vars

LEMMA UnframeIdType ==
  ASSUME TypeOK, UnframeId
  PROVE  TypeOK'
<1>1. rpos \in Nat /\ fed \in Nat /\ rpos <= fed /\ stage \in Stages /\ read_direct_copy \in BOOLEAN
  BY DEF TypeOK
<1>3. rpos' \in Nat /\ rpos' <= fed
  BY <1>1, FramingAssumption DEF UnframeId, available
<1>4. stage' \in Stages
  BY <1>1 DEF UnframeId, Stages
<1>5. read_direct_copy' = read_direct_copy \/ read_direct_copy' = TRUE
  BY DEF UnframeId
<1>6. read_direct_copy' \in BOOLEAN
  BY <1>1, <1>5
<1>2. UNCHANGED <<writer_vars, fed, command, remaining_content_len,
                  remaining_padding_len, delivered, pc, room, n>>
  BY DEF UnframeId
<1> QED  BY <1>2, <1>3, <1>4, <1>6 DEF TypeOK, writer_vars

LEMMA UnframeHeaderType ==
  ASSUME TypeOK, UnframeHeader
  PROVE  TypeOK'
<1>1. UNCHANGED <<writer_vars, fed, read_direct_copy, delivered, room, n>>
  BY DEF UnframeHeader
<1>2. wire \in Bytes /\ rpos \in Nat /\ fed \in Nat /\ rpos + HdrLen <= fed /\ fed <= Len(wire)
  BY DEF TypeOK, UnframeHeader, available, HdrLen
<1>3. Len(wire) \in Nat
  BY <1>2, LenBytes
<1>4. wire[rpos + 2].val \in Nat /\ wire[rpos + 3].val \in Nat
  <2>1. rpos + 2 \in 1 .. Len(wire) /\ rpos + 3 \in 1 .. Len(wire)
    BY <1>2, <1>3 DEF HdrLen
  <2> QED  BY <2>1, WireVals
<1>5. CASE wire[rpos + 1].val \in Commands
  <2>1. /\ command' \in Commands /\ remaining_content_len' \in Nat /\ remaining_padding_len' \in Nat
        /\ rpos' = rpos + HdrLen /\ stage' = "Content" /\ pc' = pc
    BY <1>4, <1>5 DEF UnframeHeader
  <2>2. rpos' \in Nat /\ rpos' <= fed /\ stage' \in Stages
    BY <1>2, <2>1 DEF HdrLen, Stages
  <2> QED  BY <1>1, <2>1, <2>2 DEF TypeOK, writer_vars
<1>6. CASE wire[rpos + 1].val \notin Commands
  <2>1. pc' = "failed"
        /\ UNCHANGED <<command, remaining_content_len, remaining_padding_len, rpos, stage>>
    BY <1>6 DEF UnframeHeader
  <2> QED  BY <1>1, <2>1 DEF TypeOK, writer_vars
<1> QED  BY <1>5, <1>6

LEMMA UnframeContentType ==
  ASSUME TypeOK, UnframeContent
  PROVE  TypeOK'
<1>1. UNCHANGED <<writer_vars, fed, command, remaining_padding_len, read_direct_copy>>
  BY DEF UnframeContent
<1>2. CASE remaining_content_len = 0
  <2>1. stage' = "Padding" /\ UNCHANGED <<remaining_content_len, delivered, rpos, room, n, pc>>
    BY <1>2 DEF UnframeContent
  <2> QED  BY <1>1, <2>1 DEF TypeOK, writer_vars, Stages
<1>3. CASE remaining_content_len > 0
  <2> DEFINE k == Smaller(Smaller(available, remaining_content_len), room)
  <2>1. k \in Nat /\ k <= room /\ rpos + k <= fed /\ k <= remaining_content_len
    BY DEF TypeOK, Smaller, available
  <2>2. Deliver(k) /\ remaining_content_len' = remaining_content_len - k
    BY <1>3 DEF UnframeContent, TypeOK
  <2> HIDE DEF k
  <2>3. delivered' \in Bytes
    BY <2>1, <2>2, DeliverCells
  <2>4. rpos' \in Nat /\ rpos' <= fed /\ room' \in Nat /\ n' \in Nat /\ remaining_content_len' \in Nat
    BY <2>1, <2>2 DEF Deliver, TypeOK
  <2>5. stage' \in Stages /\ pc' \in {"idle", "unframe", "fill", "eof", "failed"}
    BY <1>3 DEF UnframeContent, TypeOK, Stages, Returned
  <2> QED  BY <1>1, <2>3, <2>4, <2>5 DEF TypeOK, writer_vars
<1>4. remaining_content_len \in Nat
  BY DEF TypeOK
<1> QED  BY <1>2, <1>3, <1>4

LEMMA UnframePaddingType ==
  ASSUME TypeOK, UnframePadding
  PROVE  TypeOK'
<1>1. UNCHANGED <<writer_vars, fed, command, remaining_content_len, delivered, room, n>>
  BY DEF UnframePadding
<1>2. rpos' \in Nat /\ rpos' <= fed /\ remaining_padding_len' \in Nat
  BY DEF UnframePadding, TypeOK, Smaller, available
<1>3. stage' \in Stages /\ pc' \in {"idle", "unframe", "fill", "eof", "failed"}
  BY DEF UnframePadding, TypeOK, Stages, Returned
<1>4. read_direct_copy' \in BOOLEAN
  <2>1. CASE remaining_padding_len' = 0
    <3>1. read_direct_copy' = (command \in {EndPadding, StartDirectCopy})
      BY <2>1 DEF UnframePadding
    <3> QED  BY <3>1
  <2>2. CASE remaining_padding_len' # 0
    <3>1. read_direct_copy' = read_direct_copy
      BY <2>2 DEF UnframePadding
    <3> QED  BY <3>1 DEF TypeOK
  <2> QED  BY <2>1, <2>2
<1> QED  BY <1>1, <1>2, <1>3, <1>4 DEF TypeOK, writer_vars

LEMMA TypeStep ==
  TypeOK /\ [Next]_vars => TypeOK'
<1> SUFFICES ASSUME TypeOK, [Next]_vars PROVE TypeOK'
  OBVIOUS
<1>1. ASSUME NEW cls \in Classes, NEW asked \in 1 .. MaxWrite, NEW sid \in SessionIdLens,
             WriteFramed(cls, asked, sid)
      PROVE  TypeOK'
  BY <1>1, WriteFramedType
<1>2. ASSUME NEW asked \in 1 .. MaxWrite, WriteRaw(asked) PROVE TypeOK'
  BY <1>2, WriteRawType
<1>3. ASSUME NEW cmd \in Commands, NEW clen \in 0 .. MaxFrame, NEW plen \in 0 .. ShortPad,
             ForeignFrame(cmd, clen, plen)
      PROVE  TypeOK'
  BY <1>3, ForeignFrameType
<1>4. CASE Close
  BY <1>4 DEF TypeOK, Close, reader_vars
<1>5. ASSUME NEW r \in 1 .. MaxRoom, PollRead(r) PROVE TypeOK'
  BY <1>5, FramingAssumption DEF TypeOK, PollRead, writer_vars
<1>6. CASE UnframeDirect
  BY <1>6, UnframeDirectType
<1>7. CASE UnframeId
  BY <1>7, UnframeIdType
<1>8. CASE UnframeHeader
  BY <1>8, UnframeHeaderType
<1>9. CASE UnframeContent
  BY <1>9, UnframeContentType
<1>10. CASE UnframePadding
  BY <1>10, UnframePaddingType
<1>11. CASE UnframeBreak
  BY <1>11 DEF TypeOK, UnframeBreak, Returned, writer_vars
<1>12. ASSUME NEW k \in 1 .. TempBuf, Fill(k) PROVE TypeOK'
  BY <1>12, FramingAssumption DEF TypeOK, Fill, writer_vars
<1>13. CASE ReadEof
  BY <1>13 DEF TypeOK, ReadEof, writer_vars
<1>14. CASE UNCHANGED vars
  BY <1>14 DEF TypeOK, vars, writer_vars, reader_vars
<1> QED  BY <1>1, <1>2, <1>3, <1>4, <1>5, <1>6, <1>7, <1>8, <1>9, <1>10, <1>11, <1>12,
            <1>13, <1>14 DEF Next, Write, Read, Unframe

(* Every variable keeps its type, in every run of the two ends. *)
THEOREM TypeCorrect == Spec => []TypeOK
BY InitType, TypeStep, PTL DEF Spec

-----------------------------------------------------------------------------
(* The steps of the writer keep the inductive invariant. *)

LEMMA PlaceKept ==
  ASSUME TypeOK, Layout, ReaderPlace, WireGrows, UNCHANGED reader_vars
  PROVE  ReaderPlace'
<1>1. /\ rpos' = rpos /\ stage' = stage /\ command' = command /\ delivered' = delivered
      /\ remaining_content_len' = remaining_content_len
      /\ remaining_padding_len' = remaining_padding_len /\ read_direct_copy' = read_direct_copy
  BY DEF reader_vars
<1>2. \A b \in DOMAIN mark : b \in DOMAIN mark' /\ mark'[b] = mark[b] /\ b <= tail /\ b \in Nat
  BY DEF WireGrows, Layout, TypeOK
<1>3. tail \in Nat /\ tail \in DOMAIN mark
  BY DEF TypeOK
<1>4. CASE ~write_direct_copy /\ tail' \in Nat /\ tail < tail'
  <2>1. stage = "Header" /\ ~read_direct_copy =>
          /\ rpos \in DOMAIN mark' /\ Len(delivered) = mark'[rpos]
          /\ ~(rpos = tail' /\ write_direct_copy')
    BY <1>2, <1>3, <1>4 DEF ReaderPlace
  <2>2. \A b \in DOMAIN mark : b # tail'
    BY <1>2, <1>3, <1>4
  <2>3. ASSUME NEW b \in DOMAIN mark, b # tail, InFrame(b) PROVE b # tail' /\ InFrame(b)'
    <3>1. mark'[End(b)] = mark[End(b)]
      BY <1>2, <2>3, FrameNumbers
    <3> QED  BY <1>1, <2>2, <2>3, <3>1, OldHeaders DEF InFrame
  <2>4. ~read_direct_copy
    BY <1>4 DEF ReaderPlace
  <2> QED  BY <1>1, <1>2, <2>1, <2>3, <2>4 DEF ReaderPlace
<1>5. CASE write_direct_copy' = write_direct_copy /\ tail' = tail
  <2>1. stage = "Header" /\ ~read_direct_copy =>
          /\ rpos \in DOMAIN mark' /\ Len(delivered) = mark'[rpos]
          /\ ~(rpos = tail' /\ write_direct_copy')
    BY <1>2, <1>3, <1>5 DEF ReaderPlace
  <2>2. ASSUME NEW b \in DOMAIN mark, b # tail, InFrame(b) PROVE b # tail' /\ InFrame(b)'
    <3>1. mark'[End(b)] = mark[End(b)]
      BY <1>2, <2>2, FrameNumbers
    <3> QED  BY <1>1, <1>5, <2>2, <3>1, OldHeaders DEF InFrame
  <2>3. read_direct_copy => /\ write_direct_copy' /\ rpos >= tail'
                            /\ Len(delivered) = mark'[tail'] + (rpos - tail')
    BY <1>2, <1>3, <1>5 DEF ReaderPlace
  <2> QED  BY <1>1, <1>2, <2>1, <2>2, <2>3 DEF ReaderPlace
<1> QED  BY <1>4, <1>5 DEF WireGrows

LEMMA FrameKeepsId ==
  ASSUME TypeOK, Framed, Layout, IdLayout, ~write_direct_copy,
         NEW cmd \in Commands, NEW clen \in Nat, NEW plen \in Nat, EmitFrame(cmd, clen, plen),
         peer' = peer, has_sent_id' = (has_sent_id \/ peer # "server")
  PROVE  IdLayout'
<1>1. cmd \in Nat
  BY DEF Commands, ContinuePadding, EndPadding, StartDirectCopy
<1>2. FramePut(wire', wire, IdPrefix, tail, cmd, sent, clen, plen)
  BY <1>1, EmitCells, EmitAtTail
<1>3. /\ tail \in Nat /\ Len(wire) \in Nat /\ Len(wire) <= tail /\ Len(wire') \in Nat
      /\ tail + 3 <= Len(wire')
      /\ \A i \in 1 .. Len(wire) : wire'[i] = wire[i]
      /\ \A i \in Len(wire) + 1 .. tail : wire'[i] = IdPrefix[i - Len(wire)]
  BY <1>2 DEF FramePut, HdrLen
<1>4. wire' # <<>>
  <2>1. Len(<<>>) = 0
    OBVIOUS
  <2> QED  BY <1>3, <2>1
<1>5. CASE peer = "server"
  BY <1>4, <1>5 DEF IdLayout
<1>6. CASE peer # "server" /\ wire = <<>>
  <2>1. IdPrefix = IdCells("id") /\ Len(IdPrefix) = IdLen /\ tail = FrameStart /\ Len(wire) = 0
    BY <1>6, EmitAtTail
  <2>2. tail = IdLen /\ IdLen \in Nat
    BY <2>1, FramingAssumption DEF FrameStart
  <2>3. \A i \in 1 .. IdLen : IdCells("id")[i] = [tag |-> "id", val |-> i]
    BY IdSeq
  <2>4. ASSUME NEW i \in 1 .. IdLen PROVE wire'[i] = [tag |-> "id", val |-> i]
    <3>1. wire'[i] = IdPrefix[i - Len(wire)] /\ i - Len(wire) = i
      BY <1>3, <2>1, <2>2
    <3> QED  BY <2>1, <2>3, <3>1
  <2>5. Len(wire') >= IdLen
    BY <1>3, <2>2
  <2>6. has_sent_id' /\ peer' # "server"
    BY <1>6
  <2> QED  BY <1>4, <2>4, <2>5, <2>6 DEF IdLayout
<1>7. CASE peer # "server" /\ wire # <<>>
  <2>1. Len(wire) >= IdLen /\ \A i \in 1 .. IdLen : wire[i] = [tag |-> "id", val |-> i]
    BY <1>7 DEF IdLayout
  <2>2. has_sent_id' /\ peer' # "server"
    BY <1>7
  <2>3. IdLen \in Nat /\ Len(wire') >= IdLen
    <3>1. IdLen \in Nat
      BY FramingAssumption
    <3>2. Len(wire) >= IdLen
      BY <2>1
    <3> QED  BY <1>3, <3>1, <3>2
  <2>4. ASSUME NEW i \in 1 .. IdLen PROVE wire'[i] = [tag |-> "id", val |-> i]
    <3>1. i \in 1 .. Len(wire)
      BY <1>3, <2>1, <2>3
    <3>2. wire'[i] = wire[i]
      BY <1>3, <3>1
    <3> QED  BY <2>1, <3>2
  <2> QED  BY <1>4, <2>2, <2>3, <2>4 DEF IdLayout
<1> QED  BY <1>5, <1>6, <1>7

LEMMA RawKeepsId ==
  ASSUME TypeOK, Framed, Layout, IdLayout, NEW asked \in 1 .. MaxWrite, WriteRaw(asked)
  PROVE  IdLayout'
<1>1. peer' = peer /\ has_sent_id' = has_sent_id
  BY DEF WriteRaw
<1>2. WireGrows /\ wire # <<>> /\ wire' # <<>>
  BY RawKeepsLayout
<1>3. Len(wire) \in Nat /\ IdLen \in Nat
  BY LenBytes, FramingAssumption DEF TypeOK
<1> QED  BY <1>1, <1>2, <1>3 DEF IdLayout, WireGrows

(* The parts of the invariant about the reader alone. *)
LEMMA WriterKeepsRest ==
  ASSUME IInv, UNCHANGED reader_vars, peer' = peer, ~closed
  PROVE  NoDecodeError' /\ Waiting' /\ (Framed => InOrder')
<1>1. /\ pc' = pc /\ n' = n /\ room' = room /\ fed' = fed /\ rpos' = rpos /\ stage' = stage
      /\ read_direct_copy' = read_direct_copy /\ delivered' = delivered
  BY DEF reader_vars
<1>2. pc # "eof"
  BY DEF IInv, Waiting
<1> QED  BY <1>1, <1>2 DEF IInv, NoDecodeError, Waiting, InOrder, Framed, available, is_server

(* A stream that is not unframed: what was handed over stays a prefix. *)
LEMMA TransparentKept ==
  ASSUME TypeOK, FallbackIsTransparent, ~Framed, UNCHANGED reader_vars, peer' = peer,
         Len(wire') \in Nat, Len(wire) <= Len(wire'),
         \A i \in 1 .. Len(wire) : wire'[i] = wire[i]
  PROVE  FallbackIsTransparent'
<1>1. delivered' = delivered
  BY DEF reader_vars
<1>2. Len(wire) \in Nat /\ Len(delivered) \in Nat
  BY LenBytes DEF TypeOK
<1>3. Len(delivered) <= Len(wire) /\ \A i \in 1 .. Len(delivered) : delivered[i] = wire[i]
  BY DEF FallbackIsTransparent
<1>4. Len(delivered) <= Len(wire') /\ \A i \in 1 .. Len(delivered) : delivered[i] = wire'[i]
  BY <1>2, <1>3
<1> QED  BY <1>1, <1>4 DEF FallbackIsTransparent

LEMMA UnknownFrame ==
  ASSUME TypeOK, FallbackPlace, FallbackIsTransparent, peer = "unknown",
         NEW cmd \in Commands, NEW clen \in Nat, NEW plen \in Nat, EmitFrame(cmd, clen, plen),
         UNCHANGED reader_vars, peer' = peer, has_sent_id' = (has_sent_id \/ peer # "server")
  PROVE  FallbackPlace' /\ FallbackIsTransparent'
<1>1. cmd \in Nat
  BY DEF Commands, ContinuePadding, EndPadding, StartDirectCopy
<1>2. FramePut(wire', wire, IdPrefix, FrameStart, cmd, sent, clen, plen)
  BY <1>1, EmitCells
<1>3. /\ Len(wire) \in Nat /\ FrameStart \in Nat /\ Len(wire) <= FrameStart
      /\ Len(wire') \in Nat /\ Len(wire') > 0 /\ Len(wire) <= Len(wire')
      /\ \A i \in 1 .. Len(wire) : wire'[i] = wire[i]
      /\ \A i \in Len(wire) + 1 .. FrameStart : wire'[i] = IdPrefix[i - Len(wire)]
  <2>1. /\ Len(wire) \in Nat /\ FrameStart \in Nat /\ Len(wire) <= FrameStart
        /\ Len(wire') = FrameStart + HdrLen + clen + plen
        /\ \A i \in 1 .. Len(wire) : wire'[i] = wire[i]
        /\ \A i \in Len(wire) + 1 .. FrameStart : wire'[i] = IdPrefix[i - Len(wire)]
    BY <1>2 DEF FramePut
  <2>2. Len(wire') \in Nat /\ Len(wire') > 0 /\ Len(wire) <= Len(wire')
    BY <2>1 DEF HdrLen
  <2> QED  BY <2>1, <2>2
<1>4. wire' # <<>>
  <2>1. Len(<<>>) = 0
    OBVIOUS
  <2> QED  BY <1>3, <2>1
<1>5. wire'[1].tag # "id"
  <2>1. CASE wire = <<>>
    <3>1. IdPrefix = IdCells("badid") /\ Len(wire) = 0
      BY <2>1 DEF FallbackPlace, IdPrefix
    <3>2. Len(IdPrefix) = IdLen /\ IdPrefix[1] = [tag |-> "badid", val |-> 1]
      BY <3>1, IdSeq, FramingAssumption
    <3>3. 1 \in Len(wire) + 1 .. FrameStart /\ 1 - Len(wire) = 1
      <4>1. FrameStart = 0 + IdLen
        BY <3>1, <3>2 DEF FrameStart
      <4>2. IdLen \in Nat /\ IdLen >= 1
        BY FramingAssumption
      <4>3. 1 \in 0 + 1 .. 0 + IdLen /\ 1 - 0 = 1
        BY <4>2
      <4> QED  BY <3>1, <4>1, <4>3
    <3>4. wire'[1] = IdPrefix[1]
      BY <1>3, <3>3
    <3> QED  BY <3>2, <3>4
  <2>2. CASE wire # <<>>
    <3>1. wire \in Bytes
      BY DEF TypeOK
    <3>2. Len(wire) > 0
      BY <2>2, <3>1, EmptySeq DEF Bytes
    <3> QED  BY <1>3, <2>2, <3>2 DEF FallbackPlace
  <2> QED  BY <2>1, <2>2
<1>6. FallbackPlace'
  BY <1>4, <1>5 DEF FallbackPlace, reader_vars
<1> QED  BY <1>3, <1>6, TransparentKept DEF Framed

LEMMA FallbackRaw ==
  ASSUME TypeOK, FallbackPlace, FallbackIsTransparent, ~Framed,
         NEW asked \in 1 .. MaxWrite, WriteRaw(asked)
  PROVE  FallbackPlace' /\ FallbackIsTransparent'
<1>1. /\ Len(wire) \in Nat /\ Len(wire') \in Nat /\ Len(wire') > Len(wire)
      /\ \A i \in 1 .. Len(wire) : wire'[i] = wire[i]
      /\ \A i \in Len(wire) + 1 .. Len(wire') : wire'[i] = Data(sent + (i - Len(wire)))
  BY RawCells
<1>2. /\ UNCHANGED <<peer, has_sent_id, write_direct_copy, reader_vars>>
      /\ write_direct_copy \/ peer = "plain"
  BY DEF WriteRaw
<1>3. wire' # <<>> /\ Len(<<>>) = 0
  <2>1. Len(<<>>) = 0
    OBVIOUS
  <2> QED  BY <1>1, <2>1
<1>4. wire'[1].tag # "id"
  <2>1. CASE wire = <<>>
    <3>1. 1 \in Len(wire) + 1 .. Len(wire')
      BY <1>1, <1>3, <2>1
    <3>2. wire'[1] = Data(sent + (1 - Len(wire)))
      BY <1>1, <3>1
    <3> QED  BY <3>2 DEF Data
  <2>2. CASE wire # <<>>
    <3>1. wire \in Bytes
      BY DEF TypeOK
    <3>2. Len(wire) > 0
      BY <2>2, <3>1, EmptySeq DEF Bytes
    <3> QED  BY <1>1, <2>2, <3>2 DEF FallbackPlace
  <2> QED  BY <2>1, <2>2
<1>5. peer = "unknown" => wire # <<>>
  BY <1>2 DEF FallbackPlace
<1>6. FallbackPlace'
  BY <1>2, <1>3, <1>4, <1>5 DEF FallbackPlace, reader_vars
<1> QED  BY <1>1, <1>2, <1>6, TransparentKept

LEMMA WriteFramedStep ==
  ASSUME IInv, NEW cls \in Classes, NEW asked \in 1 .. MaxWrite, NEW sid \in SessionIdLens,
         WriteFramed(cls, asked, sid)
  PROVE  IInv'
<1> DEFINE len   == Smaller(asked, MaxFrame)
           start == can_start_direct_copy /\ cls = "appData"
           cmd   == IF start THEN StartDirectCopy ELSE ContinuePadding
<1>1. TypeOK /\ TypeOK'
  BY WriteFramedType DEF IInv
<1>2. len \in Nat
  BY FramingAssumption DEF Smaller
<1>3. cmd \in Commands /\ (cmd # ContinuePadding <=> start) /\ start \in BOOLEAN
  BY DEF Commands, StartDirectCopy, ContinuePadding
<1>4. PICK plen \in PaddingLens(len) : EmitFrame(cmd, len, plen)
  BY DEF WriteFramed
<1>5. plen \in Nat
  BY <1>2, PaddingIsNat
<1>6. /\ ~closed /\ ~write_direct_copy /\ peer \in {"client", "server", "unknown"}
      /\ write_direct_copy' = start /\ has_sent_id' = (has_sent_id \/ peer # "server")
      /\ peer' = peer /\ UNCHANGED reader_vars
  BY DEF WriteFramed, CanWrite
<1>7. write_direct_copy' = (cmd # ContinuePadding)
  BY <1>3, <1>6
<1> HIDE DEF len, start, cmd
<1>8. CASE Framed
  <2>1. Layout /\ IdLayout /\ ReaderPlace
    BY <1>8 DEF IInv
  <2>2. Layout' /\ WireGrows
    BY <1>1, <1>2, <1>3, <1>4, <1>5, <1>6, <1>7, <1>8, <2>1, FrameKeepsLayout
  <2>3. IdLayout'
    BY <1>1, <1>2, <1>3, <1>4, <1>5, <1>6, <1>8, <2>1, FrameKeepsId
  <2>4. ReaderPlace'
    BY <1>1, <1>6, <2>1, <2>2, PlaceKept
  <2>5. Framed'
    BY <1>6, <1>8 DEF Framed
  <2> QED  BY <1>1, <1>6, <1>8, <2>2, <2>3, <2>4, <2>5, WriterKeepsRest DEF IInv
<1>9. CASE ~Framed
  <2>1. peer = "unknown" /\ ~Framed'
    BY <1>6, <1>9 DEF Framed
  <2>2. FallbackPlace /\ FallbackIsTransparent
    BY <1>9 DEF IInv
  <2>3. FallbackPlace' /\ FallbackIsTransparent'
    BY <1>1, <1>2, <1>3, <1>4, <1>5, <1>6, <2>1, <2>2, UnknownFrame
  <2> QED  BY <1>1, <1>6, <1>9, <2>1, <2>3, WriterKeepsRest DEF IInv
<1> QED  BY <1>8, <1>9

LEMMA WriteRawStep ==
  ASSUME IInv, NEW asked \in 1 .. MaxWrite, WriteRaw(asked)
  PROVE  IInv'
<1>1. TypeOK /\ TypeOK'
  BY WriteRawType DEF IInv
<1>2. ~closed /\ peer' = peer /\ UNCHANGED reader_vars
  BY DEF WriteRaw, CanWrite
<1>3. CASE Framed
  <2>1. Layout /\ IdLayout /\ ReaderPlace
    BY <1>3 DEF IInv
  <2>2. Layout' /\ WireGrows
    BY <1>1, <1>3, <2>1, RawKeepsLayout
  <2>3. IdLayout'
    BY <1>1, <1>3, <2>1, RawKeepsId
  <2>4. ReaderPlace'
    BY <1>1, <1>2, <2>1, <2>2, PlaceKept
  <2>5. Framed'
    BY <1>2, <1>3 DEF Framed
  <2> QED  BY <1>1, <1>2, <1>3, <2>2, <2>3, <2>4, <2>5, WriterKeepsRest DEF IInv
<1>4. CASE ~Framed
  <2>1. ~Framed'
    BY <1>2, <1>4 DEF Framed
  <2>2. FallbackPlace' /\ FallbackIsTransparent'
    BY <1>1, <1>4, FallbackRaw DEF IInv
  <2> QED  BY <1>1, <1>2, <1>4, <2>1, <2>2, WriterKeepsRest DEF IInv
<1> QED  BY <1>3, <1>4

LEMMA ForeignFrameStep ==
  ASSUME IInv, NEW cmd \in Commands, NEW clen \in 0 .. MaxFrame, NEW plen \in 0 .. ShortPad,
         ForeignFrame(cmd, clen, plen)
  PROVE  IInv'
<1>1. TypeOK /\ TypeOK'
  BY ForeignFrameType DEF IInv
<1>2. clen \in Nat /\ plen \in Nat
  OBVIOUS
<1>3. /\ EmitFrame(cmd, clen, plen) /\ ~closed /\ ~write_direct_copy /\ peer = "foreign"
      /\ write_direct_copy' = (cmd # ContinuePadding) /\ has_sent_id' = TRUE
      /\ peer' = peer /\ UNCHANGED reader_vars
  BY DEF ForeignFrame, CanWrite
<1>4. Framed /\ Framed' /\ has_sent_id' = (has_sent_id \/ peer # "server")
  BY <1>3 DEF Framed
<1>5. Layout /\ IdLayout /\ ReaderPlace
  BY <1>4 DEF IInv
<1>6. Layout' /\ WireGrows
  BY <1>1, <1>2, <1>3, <1>4, <1>5, FrameKeepsLayout
<1>7. IdLayout'
  BY <1>1, <1>2, <1>3, <1>4, <1>5, FrameKeepsId
<1>8. ReaderPlace'
  BY <1>1, <1>3, <1>5, <1>6, PlaceKept
<1> QED  BY <1>1, <1>3, <1>4, <1>6, <1>7, <1>8, WriterKeepsRest DEF IInv

LEMMA CloseStep ==
  ASSUME IInv, Close
  PROVE  IInv'
<1>1. /\ UNCHANGED <<peer, inner_suite, has_sent_id, write_direct_copy, can_start_direct_copy,
                     server_hello_buf, sent, wire, mark, tail, reader_vars>>
      /\ closed' = TRUE
  BY DEF Close
<1>2. TypeOK'
  BY <1>1 DEF IInv, TypeOK, reader_vars
<1>3. Framed' = Framed
  BY <1>1 DEF Framed
<1>4. Layout' = Layout /\ IdLayout' = IdLayout
  BY <1>1 DEF Layout, IdLayout, Start, FrameAt, End
<1>5. ReaderPlace' = ReaderPlace /\ InOrder' = InOrder
  BY <1>1 DEF ReaderPlace, InFrame, End, InOrder, Framed, reader_vars
<1>6. FallbackPlace' = FallbackPlace /\ FallbackIsTransparent' = FallbackIsTransparent
  BY <1>1 DEF FallbackPlace, FallbackIsTransparent, Framed, reader_vars
<1>7. NoDecodeError' /\ Waiting'
  BY <1>1 DEF IInv, NoDecodeError, Waiting, available, is_server, reader_vars
<1> QED  BY <1>2, <1>3, <1>4, <1>5, <1>6, <1>7 DEF IInv

-----------------------------------------------------------------------------
(* The steps of the reader keep the inductive invariant. *)

(* They change nothing of the writer, so Layout and IdLayout stay. *)
LEMMA ReaderFrame ==
  ASSUME UNCHANGED writer_vars
  PROVE  /\ Layout' = Layout /\ IdLayout' = IdLayout /\ Framed' = Framed
         /\ \A b : (End(b)' = End(b)) /\ (FrameAt(b)' = FrameAt(b))
<1>1. UNCHANGED <<peer, has_sent_id, write_direct_copy, sent, wire, mark, tail>>
  BY DEF writer_vars
<1> QED  BY <1>1 DEF Layout, IdLayout, Framed, Start, FrameAt, End

(* The reader's place does not depend on fed, room, n and pc. *)
LEMMA PlaceSame ==
  ASSUME UNCHANGED writer_vars,
         UNCHANGED <<rpos, stage, command, remaining_content_len,
                     remaining_padding_len, read_direct_copy, delivered>>
  PROVE  /\ ReaderPlace' = ReaderPlace /\ InOrder' = InOrder
         /\ FallbackPlace' = FallbackPlace /\ FallbackIsTransparent' = FallbackIsTransparent
<1>1. UNCHANGED <<peer, has_sent_id, write_direct_copy, wire, mark, tail>>
  BY DEF writer_vars
<1> QED  BY <1>1 DEF ReaderPlace, InOrder, FallbackPlace, FallbackIsTransparent, InFrame, End, Framed

LEMMA QuietStep ==
  ASSUME IInv, TypeOK', UNCHANGED writer_vars, NoDecodeError', Waiting',
         UNCHANGED <<rpos, stage, command, remaining_content_len,
                     remaining_padding_len, read_direct_copy, delivered>>
  PROVE  IInv'
BY ReaderFrame, PlaceSame DEF IInv

LEMMA PollReadStep ==
  ASSUME IInv, NEW r \in 1 .. MaxRoom, PollRead(r), TypeOK'
  PROVE  IInv'
<1>1. UNCHANGED writer_vars
      /\ UNCHANGED <<rpos, stage, command, remaining_content_len,
                     remaining_padding_len, read_direct_copy, delivered>>
  BY DEF PollRead
<1>2. NoDecodeError' /\ Waiting'
  BY FramingAssumption DEF PollRead, NoDecodeError, Waiting
<1> QED  BY <1>1, <1>2, QuietStep

LEMMA FillStep ==
  ASSUME IInv, NEW k \in 1 .. TempBuf, Fill(k), TypeOK'
  PROVE  IInv'
<1>1. UNCHANGED writer_vars
      /\ UNCHANGED <<rpos, stage, command, remaining_content_len,
                     remaining_padding_len, read_direct_copy, delivered>>
  BY DEF Fill
<1>2. NoDecodeError' /\ Waiting'
  BY DEF Fill, IInv, NoDecodeError, Waiting
<1> QED  BY <1>1, <1>2, QuietStep

LEMMA ReadEofStep ==
  ASSUME IInv, ReadEof, TypeOK'
  PROVE  IInv'
<1>1. UNCHANGED writer_vars
      /\ UNCHANGED <<rpos, stage, command, remaining_content_len,
                     remaining_padding_len, read_direct_copy, delivered>>
  BY DEF ReadEof
<1>2. NoDecodeError' /\ Waiting'
  BY DEF ReadEof, IInv, NoDecodeError, Waiting, available, is_server, writer_vars
<1> QED  BY <1>1, <1>2, QuietStep

LEMMA UnframeBreakStep ==
  ASSUME IInv, UnframeBreak, TypeOK'
  PROVE  IInv'
<1>1. UNCHANGED writer_vars
      /\ UNCHANGED <<rpos, stage, command, remaining_content_len,
                     remaining_padding_len, read_direct_copy, delivered>>
  BY DEF UnframeBreak
<1>2. /\ pc = "unframe" /\ pc' = Returned(n, room) /\ UNCHANGED <<fed, room, n, peer, closed>>
      /\ \/ available = 0
         \/ read_direct_copy /\ room = 0
         \/ ~read_direct_copy /\ stage = "Id" /\ is_server /\ available < IdLen
         \/ ~read_direct_copy /\ stage = "Header" /\ available < HdrLen
  BY DEF UnframeBreak, Break, writer_vars
<1>3. n \in Nat /\ room \in Nat /\ (n = 0 => room > 0)
  BY <1>2 DEF IInv, TypeOK, Waiting
<1>4. pc' \in {"idle", "fill"} /\ (pc' = "fill" => n = 0 /\ room > 0)
  BY <1>2, <1>3 DEF Returned
<1>5. NoDecodeError'
  BY <1>4 DEF NoDecodeError
<1>6. Waiting'
  BY <1>1, <1>2, <1>3, <1>4 DEF Waiting, available, is_server
<1> QED  BY <1>1, <1>5, <1>6, QuietStep

(* Handing over bytes that are content, in order, keeps the order. *)
LEMMA DeliverInOrder ==
  ASSUME TypeOK, Framed, InOrder, UNCHANGED writer_vars,
         NEW k \in Nat, rpos + k <= fed, Deliver(k),
         \A i \in rpos + 1 .. rpos + k : wire[i] = Data(Len(delivered) + (i - rpos))
  PROVE  InOrder'
<1>1. /\ Len(delivered) \in Nat /\ Len(delivered') = Len(delivered) + k
      /\ \A i \in 1 .. Len(delivered) : delivered'[i] = delivered[i]
      /\ \A i \in Len(delivered) + 1 .. Len(delivered) + k :
           delivered'[i] = wire[rpos + (i - Len(delivered))]
  BY DeliverCells
<1>2. rpos \in Nat /\ peer' = peer
  BY DEF TypeOK, writer_vars
<1>3. ASSUME NEW i \in 1 .. Len(delivered) + k PROVE delivered'[i] = Data(i)
  <2>1. CASE i <= Len(delivered)
    BY <1>1, <2>1 DEF InOrder
  <2>2. CASE i > Len(delivered)
    <3>1. /\ i \in Len(delivered) + 1 .. Len(delivered) + k
          /\ rpos + (i - Len(delivered)) \in rpos + 1 .. rpos + k
          /\ Len(delivered) + ((rpos + (i - Len(delivered))) - rpos) = i
      BY <1>1, <1>2, <2>2
    <3>2. delivered'[i] = wire[rpos + (i - Len(delivered))]
      BY <1>1, <3>1
    <3>3. wire[rpos + (i - Len(delivered))]
            = Data(Len(delivered) + ((rpos + (i - Len(delivered))) - rpos))
      BY <3>1
    <3> QED  BY <3>1, <3>2, <3>3
  <2> QED  BY <1>1, <2>1, <2>2
<1> QED  BY <1>1, <1>3 DEF InOrder

LEMMA UnframeDirectStep ==
  ASSUME IInv, UnframeDirect, TypeOK'
  PROVE  IInv'
<1> DEFINE k == Smaller(available, room)
<1>1. TypeOK /\ rpos \in Nat /\ fed \in Nat /\ room \in Nat /\ n \in Nat /\ wire \in Bytes
      /\ fed <= Len(wire)
  BY DEF IInv, TypeOK
<1>2. k \in Nat /\ k > 0 /\ k <= room /\ rpos + k <= fed
  BY <1>1 DEF TypeOK, UnframeDirect, Smaller, available
<1>3. /\ Deliver(k) /\ read_direct_copy /\ pc = "unframe"
      /\ UNCHANGED <<writer_vars, fed, stage, command, remaining_content_len,
                     remaining_padding_len, read_direct_copy, pc>>
  BY DEF UnframeDirect
<1> HIDE DEF k
<1>4. /\ Len(delivered) \in Nat /\ Len(delivered') = Len(delivered) + k
      /\ rpos' = rpos + k /\ n' = n + k /\ room' = room - k
  BY <1>1, <1>2, <1>3, DeliverCells DEF Deliver
<1>5. NoDecodeError' /\ Waiting'
  <2>1. n' # 0 /\ pc' = "unframe"
    BY <1>1, <1>2, <1>3, <1>4
  <2> QED  BY <2>1 DEF NoDecodeError, Waiting
<1>6. CASE Framed
  <2>1. /\ write_direct_copy /\ rpos >= tail /\ Len(delivered) = mark[tail] + (rpos - tail)
        /\ stage = "Header"
    <3>1. ReaderPlace /\ stage \in Stages
      BY <1>1, <1>6 DEF IInv, TypeOK
    <3> QED  BY <1>3, <3>1 DEF ReaderPlace, Stages
  <2>2. tail \in Nat /\ mark[tail] \in Nat /\ Len(wire) \in Nat
    BY <1>1, LenBytes DEF TypeOK
  <2>3. ReaderPlace'
    <3>1. UNCHANGED <<write_direct_copy, mark, tail, stage, read_direct_copy>>
      BY <1>3 DEF writer_vars
    <3>2. rpos' >= tail /\ Len(delivered') = mark[tail] + (rpos' - tail)
      BY <1>1, <1>2, <1>4, <2>1, <2>2
    <3> QED  BY <1>3, <2>1, <3>1, <3>2 DEF ReaderPlace
  <2>4. ASSUME NEW i \in rpos + 1 .. rpos + k PROVE wire[i] = Data(Len(delivered) + (i - rpos))
    <3>1. \A j \in tail + 1 .. Len(wire) : wire[j] = Data(mark[tail] + (j - tail))
      BY <1>6 DEF IInv, Layout
    <3>2. /\ i \in tail + 1 .. Len(wire)
          /\ mark[tail] + (i - tail) = Len(delivered) + (i - rpos)
      BY SMTT(60), <1>1, <1>2, <2>1, <2>2
    <3> QED  BY <3>1, <3>2
  <2>5. InOrder /\ Layout /\ IdLayout
    BY <1>6 DEF IInv
  <2>6. InOrder'
    BY <1>1, <1>2, <1>3, <1>6, <2>4, <2>5, DeliverInOrder
  <2> QED  BY <1>3, <1>5, <1>6, <2>3, <2>5, <2>6, ReaderFrame DEF IInv
<1>7. CASE ~Framed
  <2>1. /\ FallbackPlace /\ FallbackIsTransparent
    BY <1>7 DEF IInv
  <2>2. FallbackPlace'
    <3>1. UNCHANGED <<peer, has_sent_id, write_direct_copy, wire, stage, read_direct_copy>>
      BY <1>3 DEF writer_vars
    <3>2. Len(delivered') = rpos'
      BY <1>4, <2>1 DEF FallbackPlace
    <3> QED  BY <1>3, <2>1, <3>1, <3>2 DEF FallbackPlace
  <2>3. FallbackIsTransparent'
    <3>1. wire' = wire /\ Framed' = Framed /\ Len(wire) \in Nat
      BY <1>1, <1>3, ReaderFrame, LenBytes DEF writer_vars
    <3>2. Len(delivered) = rpos /\ \A i \in 1 .. Len(delivered) : delivered[i] = wire[i]
      BY <1>7, <2>1 DEF FallbackPlace, FallbackIsTransparent
    <3>3. /\ \A i \in 1 .. Len(delivered) : delivered'[i] = delivered[i]
          /\ \A i \in Len(delivered) + 1 .. Len(delivered) + k :
               delivered'[i] = wire[rpos + (i - Len(delivered))]
      BY <1>1, <1>2, <1>3, DeliverCells
    <3>4. Len(delivered') <= Len(wire)
      BY <1>1, <1>2, <1>4, <3>1, <3>2
    <3>5. ASSUME NEW i \in 1 .. Len(delivered) + k PROVE delivered'[i] = wire[i]
      <4>1. CASE i <= Len(delivered)
        BY <1>4, <3>2, <3>3, <4>1
      <4>2. CASE i > Len(delivered)
        <5>1. i \in Len(delivered) + 1 .. Len(delivered) + k /\ rpos + (i - Len(delivered)) = i
          BY <1>1, <1>4, <3>2, <4>2
        <5> QED  BY <3>3, <5>1
      <4> QED  BY <1>4, <4>1, <4>2
    <3> QED  BY <1>4, <3>1, <3>4, <3>5 DEF FallbackIsTransparent
  <2> QED  BY <1>3, <1>5, <1>7, <2>2, <2>3, ReaderFrame DEF IInv
<1> QED  BY <1>6, <1>7

LEMMA WireNotEmpty ==
  ASSUME TypeOK, fed > 0
  PROVE  wire # <<>>
<1> SUFFICES ASSUME wire = <<>> PROVE FALSE
  OBVIOUS
<1>1. Len(wire) = 0
  OBVIOUS
<1> QED  BY <1>1 DEF TypeOK

(* The id of a Vision client is listed; no other stream begins with it. *)
LEMMA IdIsListed ==
  ASSUME IInv, stage = "Id", ~read_direct_copy, is_server, available >= IdLen, available > 0
  PROVE  IdListed <=> Framed
<1>1. TypeOK /\ rpos \in Nat /\ fed \in Nat /\ IdLen \in Nat /\ IdLen > 0
  BY FramingAssumption DEF IInv, TypeOK
<1>2. fed > 0
  BY <1>1 DEF available
<1>3. wire # <<>>
  BY <1>1, <1>2, WireNotEmpty
<1>4. CASE Framed
  <2>1. IdLayout /\ ReaderPlace
    BY <1>4 DEF IInv
  <2>2. rpos = 0 /\ \A i \in 1 .. IdLen : wire[i] = [tag |-> "id", val |-> i]
    BY <1>3, <2>1 DEF IdLayout, ReaderPlace, is_server
  <2>3. \A i \in 1 .. IdLen : 0 + i = i
    BY <1>1
  <2> QED  BY <1>4, <2>2, <2>3 DEF IdListed
<1>5. CASE ~Framed
  <2>1. FallbackPlace
    BY <1>5 DEF IInv
  <2>2. wire[1].tag # "id"
    BY <1>3, <2>1 DEF FallbackPlace
  <2>3. rpos + 1 = 1 /\ 1 \in 1 .. IdLen
    BY <1>1, <2>1 DEF FallbackPlace
  <2>4. wire[rpos + 1] # [tag |-> "id", val |-> 1]
    BY <2>2, <2>3
  <2> QED  BY <1>5, <2>3, <2>4 DEF IdListed
<1> QED  BY <1>4, <1>5

LEMMA UnframeIdStep ==
  ASSUME IInv, UnframeId, TypeOK'
  PROVE  IInv'
<1>1. TypeOK /\ rpos \in Nat /\ fed \in Nat /\ rpos <= fed /\ IdLen \in Nat /\ IdLen > 0
  <2>1. TypeOK /\ rpos \in Nat /\ fed \in Nat /\ rpos <= fed
    BY DEF IInv, TypeOK
  <2>2. IdLen \in Nat /\ IdLen > 0
    BY FramingAssumption
  <2> QED  BY <2>1, <2>2
<1>2. /\ pc = "unframe" /\ available > 0 /\ ~read_direct_copy /\ stage = "Id"
      /\ UNCHANGED <<writer_vars, fed, command, remaining_content_len,
                     remaining_padding_len, delivered, pc, room, n>>
  BY DEF UnframeId
<1>3. wire # <<>>
  BY <1>1, <1>2, WireNotEmpty DEF available
<1>4. NoDecodeError' /\ Waiting'
  BY <1>2 DEF IInv, NoDecodeError, Waiting
<1>5. /\ Framed' = Framed /\ Layout' = Layout /\ IdLayout' = IdLayout
      /\ UNCHANGED <<peer, has_sent_id, write_direct_copy, mark, tail, wire>>
  BY <1>2, ReaderFrame DEF writer_vars
<1>6. CASE Framed
  <2>1. /\ Layout /\ IdLayout /\ ReaderPlace /\ InOrder
    BY <1>6 DEF IInv
  <2>2. rpos = 0 /\ delivered = <<>>
    BY <1>2, <2>1 DEF ReaderPlace
  <2>3. Start \in DOMAIN mark /\ mark[Start] = 0 /\ Start < tail
    BY <1>3, <2>1 DEF Layout
  <2>4. stage' = "Header" /\ rpos' = Start /\ read_direct_copy' = FALSE
    <3>1. CASE is_server /\ available >= IdLen
      <4>1. IdListed
        BY <1>2, <1>6, <3>1, IdIsListed
      <4> QED  BY <1>1, <1>2, <2>2, <3>1, <4>1 DEF UnframeId, Start, is_server
    <3>2. CASE ~is_server
      BY <1>2, <2>2, <3>2 DEF UnframeId, Start, is_server
    <3> QED  BY <3>1, <3>2 DEF UnframeId
  <2>5. Len(delivered) = 0 /\ Start \in Nat /\ tail \in Nat
    BY <1>1, <2>2 DEF Start, TypeOK
  <2>6. ReaderPlace'
    BY <1>2, <1>5, <2>3, <2>4, <2>5 DEF ReaderPlace
  <2>7. InOrder'
    BY <1>2, <1>5, <2>1 DEF InOrder
  <2> QED  BY <1>4, <1>5, <1>6, <2>1, <2>6, <2>7 DEF IInv
<1>7. CASE ~Framed
  <2>1. FallbackPlace /\ FallbackIsTransparent /\ is_server
    BY <1>7 DEF IInv, Framed, is_server
  <2>2. read_direct_copy' = TRUE /\ rpos' = rpos /\ stage' = stage
    <3>1. available >= IdLen
      BY <2>1 DEF UnframeId
    <3>2. ~IdListed
      BY <1>2, <1>7, <2>1, <3>1, IdIsListed
    <3> QED  BY <2>1, <3>2 DEF UnframeId
  <2>3. FallbackPlace' /\ FallbackIsTransparent'
    BY <1>2, <1>5, <2>1, <2>2 DEF FallbackPlace, FallbackIsTransparent
  <2> QED  BY <1>4, <1>5, <1>7, <2>3 DEF IInv
<1> QED  BY <1>6, <1>7

(* A frame that the reader is about to take its header from is complete. *)
LEMMA UnframeHeaderStep ==
  ASSUME IInv, UnframeHeader, TypeOK'
  PROVE  IInv'
<1>1. TypeOK /\ rpos \in Nat /\ fed \in Nat /\ rpos <= fed /\ wire \in Bytes /\ fed <= Len(wire)
      /\ tail \in Nat
  BY DEF IInv, TypeOK
<1>2. Len(wire) \in Nat
  BY <1>1, LenBytes
<1>3. /\ pc = "unframe" /\ ~read_direct_copy /\ stage = "Header" /\ available >= HdrLen
      /\ UNCHANGED <<writer_vars, fed, read_direct_copy, delivered, room, n>>
  BY DEF UnframeHeader
<1>4. Framed
  BY <1>3 DEF IInv, FallbackPlace
<1>5. Layout /\ IdLayout /\ ReaderPlace /\ InOrder /\ Waiting
  BY <1>4 DEF IInv
<1>6. rpos \in DOMAIN mark /\ Len(delivered) = mark[rpos] /\ ~(rpos = tail /\ write_direct_copy)
  BY <1>3, <1>5 DEF ReaderPlace
<1>7. rpos # tail
  <2>1. wire # <<>>
    BY <1>1, <1>3, WireNotEmpty DEF available, HdrLen
  <2>2. ~write_direct_copy => tail = Len(wire)
    BY <2>1, <1>5 DEF Layout
  <2>3. rpos < Len(wire)
    BY <1>1, <1>2, <1>3 DEF available, HdrLen
  <2> QED  BY <1>1, <1>2, <1>6, <2>2, <2>3
<1>8. /\ wire[rpos + 2].val \in Nat /\ wire[rpos + 3].val \in Nat
      /\ End(rpos) = rpos + HdrLen + wire[rpos + 2].val + wire[rpos + 3].val
      /\ wire[rpos + 1].val \in Commands
      /\ mark[End(rpos)] = mark[rpos] + wire[rpos + 2].val
  BY <1>1, <1>5, <1>6, <1>7, FrameNumbers DEF FrameAt
<1>9. /\ command' = wire[rpos + 1].val
      /\ remaining_content_len' = wire[rpos + 2].val
      /\ remaining_padding_len' = wire[rpos + 3].val
      /\ rpos' = rpos + HdrLen /\ stage' = "Content" /\ pc' = pc
  BY <1>8 DEF UnframeHeader
<1>10. UNCHANGED <<peer, write_direct_copy, mark, tail, wire>>
  BY <1>3 DEF writer_vars
<1>11. \E b \in DOMAIN mark' : b # tail' /\ InFrame(b)'
  <2>1. PICK b \in DOMAIN mark : b = rpos
    BY <1>6
  <2>2. /\ command' = wire[b + 1].val
        /\ rpos' + remaining_content_len' + remaining_padding_len' = End(b)
        /\ Len(delivered) + remaining_content_len' = mark[End(b)]
        /\ remaining_content_len' <= wire[b + 2].val
        /\ remaining_padding_len' = wire[b + 3].val
    BY <1>1, <1>6, <1>8, <1>9, <2>1 DEF HdrLen
  <2>3. End(b)' = End(b)
    BY <1>10 DEF End
  <2>4. InFrame(b)'
    BY <1>3, <1>9, <1>10, <2>2, <2>3 DEF InFrame
  <2> QED  BY <1>7, <1>10, <2>1, <2>4
<1>12. ReaderPlace'
  BY <1>3, <1>9, <1>11 DEF ReaderPlace
<1>13. InOrder'
  BY <1>3, <1>5, <1>10 DEF InOrder, Framed
<1>14. NoDecodeError' /\ Waiting'
  BY <1>3, <1>5, <1>9 DEF NoDecodeError, Waiting
<1> QED  BY <1>3, <1>4, <1>5, <1>12, <1>13, <1>14, ReaderFrame DEF IInv

(* Inside a frame the reader's counters say what is left of it. *)
LEMMA InsideFrame ==
  ASSUME IInv, stage \in {"Content", "Padding"}
  PROVE  /\ Framed /\ ~read_direct_copy
         /\ \E b \in DOMAIN mark : b # tail /\ InFrame(b)
<1>1. Framed
  BY DEF IInv, FallbackPlace
<1> QED  BY <1>1 DEF IInv, ReaderPlace

(* The arithmetic of a reader inside the content of a frame. *)
LEMMA EndOfContent ==
  ASSUME NEW b \in Nat, NEW c \in Nat, NEW p \in Nat, NEW r \in Nat, NEW left \in Nat,
         NEW q \in Nat, NEW e, e = b + 3 + c + p, r + left + q = e, q = p
  PROVE  r + left = b + 3 + c
OBVIOUS

LEMMA PlaceInContent ==
  ASSUME NEW b \in Nat, NEW c \in Nat, NEW m \in Nat, NEW r \in Nat, NEW left \in Nat,
         NEW d \in Nat, NEW k \in Nat, NEW i \in r + 1 .. r + k,
         r + left = b + 3 + c, d + left = m + c, left <= c, k <= left
  PROVE  /\ i \in b + 3 + 1 .. b + 3 + c
         /\ m + (i - b - 3) = d + (i - r)
OBVIOUS

LEMMA UnframeContentStep ==
  ASSUME IInv, UnframeContent, TypeOK'
  PROVE  IInv'
<1>1. /\ TypeOK /\ rpos \in Nat /\ fed \in Nat /\ rpos <= fed /\ room \in Nat /\ n \in Nat
      /\ remaining_content_len \in Nat /\ remaining_padding_len \in Nat /\ fed <= Len(wire)
  BY DEF IInv, TypeOK
<1>2. /\ pc = "unframe" /\ available > 0 /\ ~read_direct_copy /\ stage = "Content"
      /\ UNCHANGED <<writer_vars, fed, command, remaining_padding_len, read_direct_copy>>
  BY DEF UnframeContent
<1>3. Framed /\ Layout /\ IdLayout /\ ReaderPlace /\ InOrder /\ Waiting
  BY <1>2, InsideFrame DEF IInv
<1>4. PICK b \in DOMAIN mark : b # tail /\ InFrame(b)
  BY <1>2, InsideFrame
<1>5. /\ UNCHANGED <<peer, write_direct_copy, mark, tail, wire, closed>> /\ Framed' = Framed
      /\ Layout' = Layout /\ IdLayout' = IdLayout /\ End(b)' = End(b)
  BY <1>2, ReaderFrame DEF writer_vars
<1>6. CASE remaining_content_len = 0
  <2>1. stage' = "Padding" /\ UNCHANGED <<remaining_content_len, delivered, rpos, room, n, pc>>
    BY <1>6 DEF UnframeContent
  <2>2. InFrame(b)'
    BY <1>2, <1>4, <1>5, <1>6, <2>1 DEF InFrame
  <2>3. ReaderPlace'
    BY <1>2, <1>4, <1>5, <2>1, <2>2 DEF ReaderPlace
  <2>4. InOrder' /\ NoDecodeError' /\ Waiting'
    BY <1>2, <1>3, <1>5, <2>1 DEF InOrder, NoDecodeError, Waiting
  <2> QED  BY <1>3, <1>5, <2>3, <2>4 DEF IInv
<1>7. CASE remaining_content_len > 0
  <2> DEFINE k == Smaller(Smaller(available, remaining_content_len), room)
  <2>1. k \in Nat /\ k <= room /\ rpos + k <= fed /\ k <= remaining_content_len
        /\ (k = 0 => room = 0)
    BY <1>1, <1>2, <1>7 DEF Smaller, available
  <2>2. /\ Deliver(k) /\ remaining_content_len' = remaining_content_len - k
        /\ pc' = (IF room' = 0 /\ remaining_content_len' > 0 THEN Returned(n', room') ELSE pc)
        /\ stage' = (IF remaining_content_len' = 0 THEN "Padding" ELSE stage)
    BY <1>7 DEF UnframeContent
  <2> HIDE DEF k
  <2>3. /\ Len(delivered) \in Nat /\ Len(delivered') = Len(delivered) + k
        /\ rpos' = rpos + k /\ n' = n + k /\ room' = room - k
    BY <1>1, <2>1, <2>2, DeliverCells DEF Deliver
  <2>4. InFrame(b)'
    <3>1. /\ command = wire[b + 1].val
          /\ rpos + remaining_content_len + remaining_padding_len = End(b)
          /\ Len(delivered) + remaining_content_len = mark[End(b)]
          /\ remaining_content_len <= wire[b + 2].val
          /\ remaining_padding_len = wire[b + 3].val
      BY <1>2, <1>4 DEF InFrame
    <3>2. rpos' + remaining_content_len' + remaining_padding_len = End(b)
      BY <1>1, <2>1, <2>2, <2>3, <3>1
    <3>3. Len(delivered') + remaining_content_len' = mark[End(b)]
      BY <1>1, <2>1, <2>2, <2>3, <3>1
    <3>4. remaining_content_len' <= wire[b + 2].val
      <4>1. wire[b + 2].val \in Nat
        BY <1>1, <1>3, <1>4, FrameNumbers
      <4>2. remaining_content_len - k <= wire[b + 2].val
        BY <1>1, <2>1, <3>1, <4>1, LessStaysBelow
      <4> QED  BY <2>2, <4>2
    <3>5. stage' = "Padding" => remaining_content_len' = 0
      BY <1>2, <2>2
    <3> QED  BY <1>2, <1>5, <3>1, <3>2, <3>3, <3>4, <3>5 DEF InFrame
  <2>5. ReaderPlace'
    <3>1. stage' \in {"Content", "Padding"}
      BY <1>2, <2>2
    <3> QED  BY <1>2, <1>4, <1>5, <2>4, <3>1 DEF ReaderPlace
  <2>6. ASSUME NEW i \in rpos + 1 .. rpos + k
        PROVE  wire[i] = Data(Len(delivered) + (i - rpos))
    <3> DEFINE c == wire[b + 2].val
               p == wire[b + 3].val
               e == End(b)
               m == mark[b]
    <3>1. b \in Nat /\ c \in Nat /\ p \in Nat /\ e = b + HdrLen + c + p
      BY <1>1, <1>3, <1>4, FrameNumbers
    <3>2. /\ mark[e] = m + c /\ m \in Nat
          /\ \A j \in b + HdrLen + 1 .. b + HdrLen + c : wire[j] = Data(m + (j - b - HdrLen))
      BY <1>1, <1>3, <1>4, FrameNumbers DEF FrameAt, TypeOK
    <3>3. /\ rpos + remaining_content_len + remaining_padding_len = e
          /\ Len(delivered) + remaining_content_len = mark[e]
          /\ remaining_content_len <= c
          /\ remaining_padding_len = p
      BY <1>2, <1>4 DEF InFrame
    <3> HIDE DEF c, p, e, m
    <3>4. rpos + remaining_content_len = b + HdrLen + c /\ b + HdrLen \in Nat
      <4>1. /\ HdrLen \in Nat /\ b + HdrLen \in Nat
            /\ rpos \in Nat /\ remaining_content_len \in Nat
        BY <1>1, <3>1 DEF HdrLen
      <4>2. rpos + remaining_content_len + p = b + HdrLen + c + p
        BY <3>1, <3>3
      <4> QED  BY <3>1, <4>1, <4>2, EndOfContent
    <3>5. /\ i \in b + HdrLen + 1 .. b + HdrLen + c
          /\ m + (i - b - HdrLen) = Len(delivered) + (i - rpos)
      <4>1. Len(delivered) + remaining_content_len = m + c /\ m \in Nat /\ Len(delivered) \in Nat
        BY <2>3, <3>2, <3>3
      <4> DEFINE d == Len(delivered)
      <4>2. /\ b \in Nat /\ c \in Nat /\ m \in Nat /\ rpos \in Nat
            /\ remaining_content_len \in Nat /\ d \in Nat /\ k \in Nat
            /\ rpos + remaining_content_len = b + HdrLen + c /\ d + remaining_content_len = m + c
            /\ remaining_content_len <= c /\ k <= remaining_content_len
        BY <1>1, <2>1, <3>1, <3>3, <3>4, <4>1
      <4> HIDE DEF d
      <4>3. /\ i \in b + HdrLen + 1 .. b + HdrLen + c
            /\ m + (i - b - HdrLen) = d + (i - rpos)
        BY <2>6, <4>2, PlaceInContent DEF HdrLen
      <4> QED  BY <4>3 DEF d
    <3> QED  BY <3>2, <3>5
  <2>7. InOrder'
    BY <1>1, <1>2, <1>3, <2>1, <2>2, <2>6, DeliverInOrder
  <2>8. NoDecodeError' /\ Waiting'
    <3>1. n = 0 => room > 0
      BY <1>1, <1>2, <1>3 DEF Waiting
    <3>2. n' \in Nat /\ room' \in Nat /\ n' > 0
      BY <1>1, <2>1, <2>3, <3>1
    <3>3. pc' \in {"unframe", "idle"}
      BY <1>2, <2>2, <3>2 DEF Returned
    <3> QED  BY <3>2, <3>3 DEF NoDecodeError, Waiting
  <2> QED  BY <1>3, <1>5, <2>5, <2>7, <2>8 DEF IInv
<1> QED  BY <1>1, <1>6, <1>7

LEMMA UnframePaddingStep ==
  ASSUME IInv, UnframePadding, TypeOK'
  PROVE  IInv'
<1>1. /\ TypeOK /\ rpos \in Nat /\ fed \in Nat /\ rpos <= fed /\ room \in Nat /\ n \in Nat
      /\ remaining_content_len \in Nat /\ remaining_padding_len \in Nat /\ tail \in Nat
  BY DEF IInv, TypeOK
<1>2. /\ pc = "unframe" /\ available > 0 /\ ~read_direct_copy /\ stage = "Padding"
      /\ UNCHANGED <<writer_vars, fed, command, remaining_content_len, delivered, room, n>>
  BY DEF UnframePadding
<1>3. Framed /\ Layout /\ IdLayout /\ ReaderPlace /\ InOrder /\ Waiting
  BY <1>2, InsideFrame DEF IInv
<1>4. PICK b \in DOMAIN mark : b # tail /\ InFrame(b)
  BY <1>2, InsideFrame
<1>5. /\ UNCHANGED <<peer, write_direct_copy, mark, tail, wire, closed>> /\ Framed' = Framed
      /\ Layout' = Layout /\ IdLayout' = IdLayout /\ End(b)' = End(b)
  BY <1>2, ReaderFrame DEF writer_vars
<1>6. /\ command = wire[b + 1].val /\ remaining_content_len = 0
      /\ rpos + remaining_padding_len = End(b) /\ Len(delivered) = mark[End(b)]
  <2>1. /\ command = wire[b + 1].val /\ remaining_content_len = 0
        /\ rpos + remaining_content_len + remaining_padding_len = End(b)
        /\ Len(delivered) + remaining_content_len = mark[End(b)]
    BY <1>2, <1>4 DEF InFrame
  <2>2. Len(delivered) \in Nat
    BY <1>1, LenBytes DEF TypeOK
  <2> QED  BY <1>1, <2>1, <2>2
<1>7. PICK k \in Nat : /\ k <= available /\ k <= remaining_padding_len
                      /\ rpos' = rpos + k
                      /\ remaining_padding_len' = remaining_padding_len - k
                      /\ (k = available \/ remaining_padding_len' = 0)
  BY <1>1, <1>2 DEF UnframePadding, Smaller, available
<1>8. InOrder' /\ remaining_content_len' = 0
  BY <1>2, <1>3, <1>5, <1>6 DEF InOrder
<1>9. CASE remaining_padding_len' = 0
  <2>1. /\ stage' = "Header" /\ pc' = pc
        /\ read_direct_copy' = (command \in {EndPadding, StartDirectCopy})
    BY <1>9 DEF UnframePadding
  <2>2. rpos' = End(b)
    BY <1>1, <1>6, <1>7, <1>9
  <2>3. /\ End(b) \in DOMAIN mark /\ command \in Commands
        /\ (command # ContinuePadding <=> End(b) = tail /\ write_direct_copy)
    BY <1>1, <1>3, <1>4, <1>6, FrameNumbers DEF FrameAt
  <2>4. read_direct_copy' <=> command # ContinuePadding
    <3>1. command \in {EndPadding, StartDirectCopy} <=> command # ContinuePadding
      BY <2>3 DEF Commands, ContinuePadding, EndPadding, StartDirectCopy
    <3> QED  BY <2>1, <3>1
  <2>5. ReaderPlace'
    <3>1. CASE read_direct_copy'
      <4>1. write_direct_copy /\ rpos' = tail /\ Len(delivered) = mark[tail]
        BY <1>6, <2>2, <2>3, <2>4, <3>1
      <4>2. rpos' >= tail /\ Len(delivered) = mark[tail] + (rpos' - tail)
        <5>1. tail \in Nat /\ mark[tail] \in Nat
          BY <1>1, TailIsMarked
        <5>2. mark[tail] = mark[tail] + (tail - tail) /\ tail >= tail
          BY <5>1, NothingBeyond
        <5> QED  BY <4>1, <5>2
      <4> QED  BY <1>2, <1>5, <2>1, <3>1, <4>1, <4>2 DEF ReaderPlace
    <3>2. CASE ~read_direct_copy'
      <4>1. rpos' \in DOMAIN mark /\ Len(delivered) = mark[rpos'] /\ ~(rpos' = tail /\ write_direct_copy)
        BY <1>6, <2>2, <2>3, <2>4, <3>2
      <4> QED  BY <1>2, <1>5, <2>1, <3>2, <4>1 DEF ReaderPlace
    <3> QED  BY <3>1, <3>2
  <2>6. NoDecodeError' /\ Waiting'
    BY <1>2, <1>3, <2>1 DEF NoDecodeError, Waiting
  <2> QED  BY <1>3, <1>5, <1>8, <2>5, <2>6 DEF IInv
<1>10. CASE remaining_padding_len' # 0
  <2>1. pc' = Returned(n, room) /\ UNCHANGED <<stage, read_direct_copy>>
    BY <1>10 DEF UnframePadding
  <2>2. rpos' + remaining_padding_len' = End(b)
    BY <1>1, <1>6, <1>7
  <2>3. InFrame(b)'
    <3>1. rpos' + 0 + remaining_padding_len' = End(b) /\ Len(delivered) + 0 = mark[End(b)]
          /\ 0 <= wire[b + 2].val
      <4>1. Len(delivered) \in Nat /\ wire[b + 2].val \in Nat
        BY <1>1, <1>3, <1>4, LenBytes, FrameNumbers DEF TypeOK
      <4>2. rpos' \in Nat
        BY <1>1, <1>7
      <4> QED  BY <1>6, <2>2, <4>1, <4>2
    <3> QED  BY <1>2, <1>5, <1>6, <1>8, <2>1, <3>1 DEF InFrame
  <2>4. ReaderPlace'
    BY <1>2, <1>4, <1>5, <2>1, <2>3 DEF ReaderPlace
  <2>5. available' = 0
    BY <1>1, <1>2, <1>7, <1>10 DEF available
  <2>6. n' = n /\ room' = room /\ (n = 0 => room > 0) /\ n \in Nat /\ room \in Nat
    BY <1>1, <1>2, <1>3 DEF Waiting
  <2>7. pc' \in {"idle", "fill"}
    BY <2>1 DEF Returned
  <2>8. NoDecodeError' /\ Waiting'
    BY <2>5, <2>6, <2>7 DEF NoDecodeError, Waiting
  <2> QED  BY <1>3, <1>5, <1>8, <2>4, <2>8 DEF IInv
<1> QED  BY <1>9, <1>10

-----------------------------------------------------------------------------
(* The inductive invariant. *)

LEMMA InitInv ==
  Init => IInv
<1> SUFFICES ASSUME Init PROVE IInv
  OBVIOUS
<1>1. TypeOK
  BY InitType
<1>2. /\ wire = <<>> /\ delivered = <<>> /\ sent = 0 /\ rpos = 0 /\ fed = 0 /\ pc = "idle"
      /\ stage = "Id" /\ read_direct_copy = FALSE /\ write_direct_copy = FALSE
      /\ has_sent_id = FALSE /\ tail = Start /\ mark = [b \in {tail} |-> 0]
      /\ Len(delivered) = 0 /\ Len(wire) = 0 /\ Start \in Nat
  BY FramingAssumption DEF Init, Start
<1>3. DOMAIN mark = {Start} /\ mark[Start] = 0
  BY <1>2
<1>4. Layout
  BY <1>2, <1>3 DEF Layout
<1>5. IdLayout /\ ReaderPlace /\ InOrder
  BY <1>2 DEF IdLayout, ReaderPlace, InOrder
<1>6. FallbackPlace /\ FallbackIsTransparent
  BY <1>2 DEF FallbackPlace, FallbackIsTransparent
<1>7. NoDecodeError /\ Waiting
  BY <1>2 DEF NoDecodeError, Waiting
<1> QED  BY <1>1, <1>4, <1>5, <1>6, <1>7 DEF IInv

LEMMA StepInv ==
  IInv /\ [Next]_vars => IInv'
<1> SUFFICES ASSUME IInv, [Next]_vars PROVE IInv'
  OBVIOUS
<1> TypeOK'
  BY TypeStep DEF IInv
<1>1. ASSUME NEW cls \in Classes, NEW asked \in 1 .. MaxWrite, NEW sid \in SessionIdLens,
             WriteFramed(cls, asked, sid)
      PROVE  IInv'
  BY <1>1, WriteFramedStep
<1>2. ASSUME NEW asked \in 1 .. MaxWrite, WriteRaw(asked) PROVE IInv'
  BY <1>2, WriteRawStep
<1>3. ASSUME NEW cmd \in Commands, NEW clen \in 0 .. MaxFrame, NEW plen \in 0 .. ShortPad,
             ForeignFrame(cmd, clen, plen)
      PROVE  IInv'
  BY <1>3, ForeignFrameStep
<1>4. CASE Close
  BY <1>4, CloseStep
<1>5. ASSUME NEW r \in 1 .. MaxRoom, PollRead(r) PROVE IInv'
  BY <1>5, PollReadStep
<1>6. CASE UnframeDirect
  BY <1>6, UnframeDirectStep
<1>7. CASE UnframeId
  BY <1>7, UnframeIdStep
<1>8. CASE UnframeHeader
  BY <1>8, UnframeHeaderStep
<1>9. CASE UnframeContent
  BY <1>9, UnframeContentStep
<1>10. CASE UnframePadding
  BY <1>10, UnframePaddingStep
<1>11. CASE UnframeBreak
  BY <1>11, UnframeBreakStep
<1>12. ASSUME NEW k \in 1 .. TempBuf, Fill(k) PROVE IInv'
  BY <1>12, FillStep
<1>13. CASE ReadEof
  BY <1>13, ReadEofStep
<1>14. CASE UNCHANGED vars
  <2>1. UNCHANGED writer_vars /\ UNCHANGED reader_vars
    BY <1>14 DEF vars
  <2>2. NoDecodeError' /\ Waiting'
    BY <2>1 DEF IInv, NoDecodeError, Waiting, available, is_server, writer_vars, reader_vars
  <2> QED  BY <2>1, <2>2, QuietStep DEF reader_vars
<1> QED  BY <1>1, <1>2, <1>3, <1>4, <1>5, <1>6, <1>7, <1>8, <1>9, <1>10, <1>11, <1>12,
            <1>13, <1>14 DEF Next, Write, Read, Unframe

(* The chain of frames, the reader's place in it and all that follows hold *)
(* in every run of the two ends.                                           *)
THEOREM Inductive == Spec => []IInv
BY InitInv, StepInv, PTL DEF Spec
=============================================================================
