------------------------- MODULE VlessStreamProofs --------------------------
(***************************************************************************)
(* The client end of a VLESS connection hands over the payload, for every  *)
(* header length, buffer size and way the stream is cut into chunks: the   *)
(* inductive invariant IInv, the safety properties of VlessStream and its  *)
(* refinement of ByteStream.                                               *)
(***************************************************************************)
EXTENDS VlessStream, SequenceTheorems, TLAPS

(* What Hand does to the delivered bytes. *)
LEMMA HandBytes ==
  ASSUME delivered \in Seq(Nat), NEW i \in Nat, NEW k \in Nat, header_len \in Nat, Hand(i, k)
  PROVE  /\ delivered' \in Seq(Nat)
         /\ Len(delivered) \in Nat /\ Len(delivered') = Len(delivered) + k
         /\ \A j \in 1 .. Len(delivered) : delivered'[j] = delivered[j]
         /\ \A j \in Len(delivered) + 1 .. Len(delivered) + k :
              delivered'[j] = Byte(i + (j - Len(delivered)))
<1> DEFINE s == [j \in 1 .. k |-> Byte(i + j)]
<1>1. s \in Seq(Nat) /\ Len(s) = k /\ \A j \in 1 .. k : s[j] = Byte(i + j)
  <2>1. ASSUME NEW j \in 1 .. k PROVE Byte(i + j) \in Nat
    BY DEF Byte
  <2> QED  BY <2>1
<1>2. delivered' = delivered \o s
  BY DEF Hand
<1> HIDE DEF s
<1>3. s \in Seq(Nat)
  BY <1>1
<1>4. /\ delivered' \in Seq(Nat) /\ Len(delivered) \in Nat
      /\ Len(delivered') = Len(delivered) + Len(s)
      /\ \A j \in 1 .. Len(delivered) + Len(s) :
           delivered'[j] = IF j <= Len(delivered) THEN delivered[j] ELSE s[j - Len(delivered)]
  BY <1>2, <1>3, ConcatProperties, LenProperties
<1>5. \A j \in 1 .. Len(delivered) : delivered'[j] = delivered[j]
  BY SMTT(60), <1>1, <1>4
<1>6. ASSUME NEW j \in Len(delivered) + 1 .. Len(delivered) + k
      PROVE  delivered'[j] = Byte(i + (j - Len(delivered)))
  <2>1. /\ j \in 1 .. Len(delivered) + k /\ ~(j <= Len(delivered))
        /\ j - Len(delivered) \in 1 .. k
    BY <1>4
  <2>2. delivered'[j] = s[j - Len(delivered)]
    BY <1>1, <1>4, <2>1
  <2> QED  BY <1>1, <2>1, <2>2
<1> QED  BY <1>1, <1>4, <1>5, <1>6

(* Handing over the next bytes of the payload keeps the order. *)
LEMMA HandInOrder ==
  ASSUME delivered \in Seq(Nat), PayloadInOrder, NEW i \in Nat, NEW k \in Nat, header_len \in Nat,
         i = header_len + Len(delivered), Hand(i, k)
  PROVE  PayloadInOrder'
<1>1. /\ delivered' \in Seq(Nat)
      /\ Len(delivered) \in Nat /\ Len(delivered') = Len(delivered) + k
      /\ \A j \in 1 .. Len(delivered) : delivered'[j] = delivered[j]
      /\ \A j \in Len(delivered) + 1 .. Len(delivered) + k :
           delivered'[j] = Byte(i + (j - Len(delivered)))
  BY HandBytes
<1>2. ASSUME NEW j \in 1 .. Len(delivered') PROVE delivered'[j] = j
  <2>1. CASE j <= Len(delivered)
    <3>1. j \in 1 .. Len(delivered)
      BY <1>1, <2>1
    <3> QED  BY <1>1, <3>1 DEF PayloadInOrder
  <2>2. CASE j > Len(delivered)
    <3>0. j \in Len(delivered) + 1 .. Len(delivered) + k
      BY <1>1, <2>2
    <3>1. delivered'[j] = Byte(i + (j - Len(delivered)))
      BY <1>1, <3>0
    <3>2. Byte(i + (j - Len(delivered))) = j
      BY <1>1, <2>2 DEF Byte
    <3> QED  BY <3>1, <3>2
  <2> QED  BY <1>1, <2>1, <2>2
<1> QED  BY <1>2 DEF PayloadInOrder

-----------------------------------------------------------------------------
(* The inductive invariant. *)

LEMMA HeaderIsNat ==
  IInv => header_len \in Nat /\ header_len >= 2
BY VlessStreamAssumption DEF IInv, TypeOK, header_len

LEMMA InitInv ==
  Init => IInv
<1> SUFFICES ASSUME Init PROVE IInv
  OBVIOUS
<1>0. delivered = <<>> /\ delivered \in Seq(Nat) /\ Len(delivered) = 0
  BY DEF Init
<1>1. /\ taken = 0 /\ buf_len = 0 /\ written = 0 /\ room = 0 /\ pc = "idle"
      /\ is_handshake_done = FALSE /\ closed = FALSE /\ addons_len \in AddonsLens
  BY DEF Init
<1>2. TypeOK
  <2>1. closed \in BOOLEAN /\ is_handshake_done \in BOOLEAN
    BY <1>1
  <2>2. /\ written \in Nat /\ taken \in Nat /\ buf_len \in Nat /\ room \in Nat
        /\ taken <= written /\ buf_len <= taken
    BY <1>1
  <2>3. pc \in {"idle", "handshake", "ready", "eof", "error", "failed"} /\ addons_len \in AddonsLens
    BY <1>1
  <2>4. delivered \in Seq(Nat)
    BY <1>0
  <2> QED  BY <2>1, <2>2, <2>3, <2>4, Zenon DEF TypeOK
<1>3. PayloadInOrder
  BY <1>0 DEF PayloadInOrder
<1>4. header_len \in Nat /\ header_len >= 2
  BY <1>1, VlessStreamAssumption DEF header_len
<1> QED  BY <1>0, <1>1, <1>2, <1>3, <1>4 DEF IInv

LEMMA HandshakeReadStep ==
  ASSUME IInv, NEW k \in 1 .. BufCap + Reserve, HandshakeRead(k)
  PROVE  IInv'
<1> DEFINE used == HeaderEnd(buf_len + k)
<1>1. TypeOK /\ header_len \in Nat /\ header_len >= 2 /\ k \in Nat
  BY HeaderIsNat, VlessStreamAssumption DEF IInv
<1>2. /\ pc = "handshake" /\ taken + k <= written /\ taken' = taken + k
      /\ buf_len' = buf_len + k - used /\ is_handshake_done' = (used > 0)
      /\ pc' = (IF used > 0 THEN "ready" ELSE pc)
      /\ UNCHANGED <<server_vars, delivered, room>>
  BY DEF HandshakeRead
<1>3. ~is_handshake_done /\ buf_len = taken /\ delivered = <<>> /\ PayloadInOrder /\ room > 0
  BY <1>2 DEF IInv
<1>4. header_len' = header_len /\ PayloadInOrder' /\ delivered' = <<>> /\ Len(delivered') = 0
  BY <1>2, <1>3 DEF server_vars, header_len, PayloadInOrder
<1>5. CASE used = 0
  <2>1. buf_len + k < header_len
    BY <1>1, <1>5 DEF HeaderEnd
  <2>2. TypeOK'
    BY <1>1, <1>2, <1>3, <1>5 DEF TypeOK, server_vars
  <2> QED  BY <1>1, <1>2, <1>3, <1>4, <1>5, <2>1, <2>2 DEF IInv, TypeOK
<1>6. CASE used # 0
  <2>1. used = header_len /\ buf_len + k >= header_len
    BY <1>1, <1>6 DEF HeaderEnd, TypeOK
  <2>2. TypeOK'
    BY <1>1, <1>2, <1>3, <2>1 DEF TypeOK, server_vars
  <2> HIDE DEF used
  <2>3. /\ is_handshake_done' /\ pc' = "ready" /\ room' > 0
        /\ taken' = header_len' + Len(delivered') + buf_len'
    <3>1. taken' = header_len + buf_len'
      <4>1. buf_len \in Nat /\ taken = buf_len
        BY <1>1, <1>3 DEF TypeOK
      <4> QED  BY <1>1, <1>2, <2>1, <4>1
    <3>2. used > 0
      BY <1>1, <2>1
    <3>3. taken' = header_len' + Len(delivered') + buf_len'
      <4>1. buf_len' \in Nat
        BY <2>2 DEF TypeOK
      <4> QED  BY <1>1, <1>4, <3>1, <4>1
    <3> QED  BY <1>2, <1>3, <3>2, <3>3
  <2> QED  BY <1>4, <2>2, <2>3 DEF IInv
<1> QED  BY <1>5, <1>6

LEMMA PlaceBackStep ==
  ASSUME IInv, PlaceBack
  PROVE  IInv'
<1> DEFINE k == Smaller(room, buf_len)
<1>1. TypeOK /\ header_len \in Nat /\ header_len >= 2
  BY HeaderIsNat DEF IInv
<1>2. /\ pc = "ready" /\ buf_len > 0 /\ Hand(taken - buf_len, k) /\ buf_len' = buf_len - k
      /\ pc' = "idle" /\ UNCHANGED <<server_vars, taken, is_handshake_done, room>>
  BY DEF PlaceBack
<1>3. k \in Nat /\ k <= buf_len
  BY <1>1 DEF Smaller, TypeOK
<1> HIDE DEF k
<1>4. /\ is_handshake_done /\ PayloadInOrder /\ delivered \in Seq(Nat)
      /\ taken = header_len + Len(delivered) + buf_len
  BY <1>1, <1>2 DEF IInv, TypeOK
<1>5. Len(delivered) \in Nat /\ taken - buf_len \in Nat /\ taken - buf_len = header_len + Len(delivered)
  BY <1>1, <1>4 DEF TypeOK
<1>6. delivered' \in Seq(Nat) /\ Len(delivered') = Len(delivered) + k /\ PayloadInOrder'
  BY <1>1, <1>2, <1>3, <1>4, <1>5, HandBytes, HandInOrder
<1>7. header_len' = header_len
  BY <1>2 DEF server_vars, header_len
<1>8. TypeOK'
  BY <1>1, <1>2, <1>3, <1>6 DEF TypeOK, server_vars
<1>9. taken' = header_len' + Len(delivered') + buf_len'
  BY <1>1, <1>2, <1>3, <1>4, <1>5, <1>6, <1>7 DEF TypeOK
<1> QED  BY <1>2, <1>4, <1>6, <1>8, <1>9 DEF IInv

LEMMA InnerReadStep ==
  ASSUME IInv, NEW k \in 1 .. MaxRoom, InnerRead(k)
  PROVE  IInv'
<1>1. TypeOK /\ header_len \in Nat /\ header_len >= 2 /\ k \in Nat
  BY HeaderIsNat, VlessStreamAssumption DEF IInv
<1>2. /\ pc = "ready" /\ buf_len = 0 /\ taken + k <= written /\ Hand(taken, k)
      /\ taken' = taken + k /\ pc' = "idle"
      /\ UNCHANGED <<server_vars, buf_len, is_handshake_done, room>>
  BY DEF InnerRead
<1>3. /\ is_handshake_done /\ PayloadInOrder /\ delivered \in Seq(Nat) /\ taken \in Nat
      /\ taken = header_len + Len(delivered) + buf_len
  BY <1>1, <1>2 DEF IInv, TypeOK
<1>4. Len(delivered) \in Nat /\ taken = header_len + Len(delivered)
  BY <1>1, <1>2, <1>3
<1>5. delivered' \in Seq(Nat) /\ Len(delivered') = Len(delivered) + k /\ PayloadInOrder'
  BY <1>1, <1>2, <1>3, <1>4, HandBytes, HandInOrder
<1>6. header_len' = header_len
  BY <1>2 DEF server_vars, header_len
<1>7. TypeOK'
  BY <1>1, <1>2, <1>5 DEF TypeOK, server_vars
<1>8. taken' = header_len' + Len(delivered') + buf_len'
  BY <1>1, <1>2, <1>4, <1>5, <1>6
<1> QED  BY <1>2, <1>3, <1>5, <1>7, <1>8 DEF IInv

LEMMA StepInv ==
  IInv /\ [Next]_vars => IInv'
<1> SUFFICES ASSUME IInv, [Next]_vars PROVE IInv'
  OBVIOUS
<1>1. TypeOK /\ header_len \in Nat
  BY HeaderIsNat DEF IInv
<1>2. ASSUME NEW k \in 1 .. MaxChunk, Write(k) PROVE IInv'
  <2>1. /\ ~closed /\ written' = written + k /\ UNCHANGED <<addons_len, closed, client_vars>>
    BY <1>2 DEF Write
  <2>2. header_len' = header_len /\ PayloadInOrder' = PayloadInOrder
    BY <2>1 DEF header_len, PayloadInOrder, client_vars
  <2>3. TypeOK'
    BY <1>1, <2>1, VlessStreamAssumption DEF TypeOK, client_vars
  <2> QED  BY <2>1, <2>2, <2>3 DEF IInv, client_vars
<1>3. CASE Close
  <2>1. closed' = TRUE /\ UNCHANGED <<addons_len, written, client_vars>> /\ ~closed
    BY <1>3 DEF Close
  <2>2. header_len' = header_len /\ PayloadInOrder' = PayloadInOrder
    BY <2>1 DEF header_len, PayloadInOrder, client_vars
  <2> QED  BY <2>1, <2>2 DEF IInv, TypeOK, client_vars
<1>4. ASSUME UNCHANGED <<server_vars, taken, buf_len, is_handshake_done, delivered>>,
             room' \in Nat, pc' \in {"idle", "handshake", "ready", "eof", "error", "failed"},
             pc' = "ready" => is_handshake_done /\ room' > 0,
             pc' = "handshake" => ~is_handshake_done /\ room' > 0,
             pc' = "error" => ~is_handshake_done /\ closed /\ taken = written,
             pc' = "eof" => is_handshake_done /\ closed /\ taken = written /\ buf_len = 0
      PROVE  IInv'
  <2>1. header_len' = header_len /\ PayloadInOrder' = PayloadInOrder
    BY <1>4 DEF header_len, PayloadInOrder, server_vars
  <2> QED  BY <1>4, <2>1 DEF IInv, TypeOK, server_vars
<1>5. ASSUME NEW r \in 1 .. MaxRoom, PollRead(r) PROVE IInv'
  BY <1>1, <1>4, <1>5, VlessStreamAssumption DEF PollRead, TypeOK
<1>6. CASE HandshakeEof
  <2>1. ChunkMut # 0
    BY <1>1, VlessStreamAssumption DEF ChunkMut, TypeOK
  <2> QED  BY <1>4, <1>6, <2>1 DEF HandshakeEof, IInv, TypeOK
<1>7. CASE InnerPending
  BY <1>4, <1>7 DEF InnerPending, IInv, TypeOK
<1>8. CASE InnerEof
  BY <1>4, <1>8 DEF InnerEof, IInv, TypeOK
<1>9. CASE InnerError
  BY <1>4, <1>9 DEF InnerError, IInv, TypeOK
<1>10. CASE UNCHANGED vars
  BY <1>4, <1>10 DEF vars, client_vars, IInv, TypeOK
<1> QED  BY <1>2, <1>3, <1>5, <1>6, <1>7, <1>8, <1>9, <1>10, HandshakeReadStep, PlaceBackStep,
            InnerReadStep DEF Next, Read

(* Header, buffer and payload account for every byte taken. *)
THEOREM Inductive == Spec => []IInv
BY InitInv, StepInv, PTL DEF Spec

(* What the stream has taken and keeps in its buffer stays in its bounds. *)
THEOREM TypeCorrect == Spec => []TypeOK
<1>1. IInv => TypeOK
  BY DEF IInv
<1> QED  BY <1>1, Inductive, PTL

(* The payload comes in order, from its first byte on. *)
THEOREM HandsOverInOrder == Spec => []PayloadInOrder
<1>1. IInv => PayloadInOrder
  BY DEF IInv
<1> QED  BY <1>1, Inductive, PTL

(* The end is reported after the last byte only. *)
THEOREM EofIsLast == Spec => []EofAfterPayload
<1>1. ASSUME IInv, pc = "eof" PROVE Len(delivered) = written - header_len
  <2>1. /\ delivered \in Seq(Nat) /\ header_len \in Nat /\ buf_len = 0 /\ taken = written
        /\ taken = header_len + Len(delivered) + buf_len
    BY <1>1, HeaderIsNat DEF IInv, TypeOK
  <2>2. Len(delivered) \in Nat
    BY <2>1
  <2> QED  BY <2>1, <2>2
<1>2. IInv => EofAfterPayload
  BY <1>1 DEF EofAfterPayload
<1> QED  BY <1>2, Inductive, PTL

(* The stream calls the handshake off for a header that the server cut      *)
(* short and for nothing else: chunk_mut always has room, so that a read of *)
(* nothing is the end, for every capacity of the buffer.                    *)
THEOREM ErrorIsShortHeader == Spec => []ErrorOnlyOnShortHeader
<1>1. IInv => ErrorOnlyOnShortHeader
  BY DEF IInv, ErrorOnlyOnShortHeader
<1> QED  BY <1>1, Inductive, PTL

(* A call of poll_read that ends with something left puts a byte at least. *)
LEMMA NoEmptyStep ==
  IInv /\ [Next]_vars =>
    (pc # "idle" /\ pc' = "idle" /\ (taken < written \/ (is_handshake_done' /\ buf_len' > 0))
       => Len(delivered') > Len(delivered))
<1> SUFFICES ASSUME IInv, [Next]_vars, pc # "idle", pc' = "idle",
                    taken < written \/ (is_handshake_done' /\ buf_len' > 0)
             PROVE  Len(delivered') > Len(delivered)
  OBVIOUS
<1>1. /\ delivered \in Seq(Nat) /\ taken \in Nat /\ written \in Nat /\ buf_len \in Nat
      /\ room \in Nat /\ buf_len <= taken /\ header_len \in Nat
  BY HeaderIsNat DEF IInv, TypeOK
<1>2. CASE InnerPending
  <2>1. taken = written /\ UNCHANGED <<buf_len, is_handshake_done>>
    BY <1>2 DEF InnerPending
  <2>2. is_handshake_done /\ buf_len > 0
    BY <1>1, <2>1
  <2>3. pc = "handshake" \/ (pc = "ready" /\ buf_len = 0)
    BY <1>2 DEF InnerPending
  <2>4. ~(pc = "handshake")
    BY <2>2 DEF IInv
  <2> QED  BY <1>1, <2>2, <2>3, <2>4
<1>3. CASE PlaceBack
  <2> DEFINE k == Smaller(room, buf_len)
  <2>1. pc = "ready" /\ buf_len > 0 /\ Hand(taken - buf_len, k)
    BY <1>3 DEF PlaceBack
  <2>2. k \in Nat /\ k > 0 /\ taken - buf_len \in Nat
    BY <1>1, <2>1 DEF IInv, Smaller
  <2> HIDE DEF k
  <2>3. Len(delivered') = Len(delivered) + k /\ Len(delivered) \in Nat
    BY <1>1, <2>1, <2>2, HandBytes
  <2> QED  BY <2>2, <2>3
<1>4. ASSUME NEW k \in 1 .. MaxRoom, InnerRead(k)
      PROVE  Len(delivered') > Len(delivered)
  <2>1. Hand(taken, k) /\ k \in Nat /\ k > 0
    BY <1>4, VlessStreamAssumption DEF InnerRead
  <2>2. Len(delivered') = Len(delivered) + k /\ Len(delivered) \in Nat
    BY <1>1, <2>1, HandBytes
  <2> QED  BY <2>1, <2>2
<1>5. ASSUME NEW k \in 1 .. BufCap + Reserve, HandshakeRead(k) PROVE FALSE
  BY <1>5 DEF HandshakeRead
<1>6. ~HandshakeEof /\ ~InnerEof /\ ~InnerError /\ ~Close /\ ~(vars' = vars)
  BY DEF HandshakeEof, InnerEof, InnerError, Close, client_vars, vars
<1>7. ASSUME NEW k \in 1 .. MaxChunk, Write(k) PROVE FALSE
  BY <1>7 DEF Write, client_vars
<1>8. ASSUME NEW r \in 1 .. MaxRoom, PollRead(r) PROVE FALSE
  BY <1>8 DEF PollRead
<1> QED  BY <1>2, <1>3, <1>4, <1>5, <1>6, <1>7, <1>8 DEF Next, Read

(* No call returns an empty buffer while there is something to hand over,  *)
(* to read, or to come.                                                    *)
THEOREM NeverEmptyRead == Spec => NoEmptyRead
<1> QED  BY NoEmptyStep, Inductive, PTL DEF Spec, NoEmptyRead

-----------------------------------------------------------------------------
(* The refinement of ByteStream. *)

LEMMA PrefixOfPayload ==
  IInv => BS!Extends(Payload, delivered)
<1> SUFFICES ASSUME IInv PROVE BS!Extends(Payload, delivered)
  OBVIOUS
<1>1. /\ delivered \in Seq(Nat) /\ header_len \in Nat /\ buf_len \in Nat /\ taken \in Nat
      /\ written \in Nat /\ taken <= written /\ PayloadInOrder
  BY HeaderIsNat DEF IInv, TypeOK
<1>2. Len(delivered) \in Nat
  BY <1>1
<1>3. Len(Payload) = (IF written > header_len THEN written - header_len ELSE 0)
      /\ \A i \in 1 .. Len(Payload) : Payload[i] = i
  BY <1>1 DEF Payload
<1>4. Len(delivered) <= Len(Payload)
  <2>1. CASE is_handshake_done
    BY <1>1, <1>2, <1>3, <2>1 DEF IInv
  <2>2. CASE ~is_handshake_done
    BY <1>1, <1>3, <2>2 DEF IInv
  <2> QED  BY <2>1, <2>2
<1>5. ASSUME NEW i \in 1 .. Len(delivered) PROVE Payload[i] = delivered[i]
  <2>1. i \in 1 .. Len(Payload)
    BY <1>1, <1>2, <1>3, <1>4
  <2> QED  BY <1>1, <1>3, <2>1 DEF PayloadInOrder
<1> QED  BY <1>4, <1>5 DEF BS!Extends

LEMMA StepHands ==
  ASSUME IInv, IInv', [Next]_vars
  PROVE  BS!Next \/ UNCHANGED BS!bsvars
<1>1. /\ header_len \in Nat /\ written \in Nat /\ delivered \in Seq(Nat) /\ taken \in Nat
      /\ buf_len \in Nat /\ buf_len <= taken /\ room \in Nat
  BY HeaderIsNat DEF IInv, TypeOK
<1>2. BS!Extends(Payload', delivered')
  <2>1. (BS!Extends(Payload, delivered))'
    BY PrefixOfPayload, PTL
  <2> QED  BY <2>1 DEF BS!Extends
<1>3. ASSUME NEW i \in Nat, NEW k \in Nat, Hand(i, k), UNCHANGED server_vars
      PROVE  BS!Next
  <2>1. BS!Extends(delivered', delivered)
    <3>1. /\ Len(delivered) \in Nat /\ Len(delivered') = Len(delivered) + k
          /\ \A j \in 1 .. Len(delivered) : delivered'[j] = delivered[j]
      BY <1>1, <1>3, HandBytes
    <3> QED  BY <3>1 DEF BS!Extends
  <2>2. Payload' = Payload
    BY <1>3 DEF server_vars, Payload, header_len
  <2> QED  BY <1>2, <2>1, <2>2 DEF BS!Next, BS!Read
<1>4. CASE PlaceBack
  <2> DEFINE k == Smaller(room, buf_len)
  <2>1. k \in Nat /\ taken - buf_len \in Nat
    BY <1>1 DEF Smaller
  <2>2. Hand(taken - buf_len, k) /\ UNCHANGED server_vars
    BY <1>4 DEF PlaceBack
  <2> HIDE DEF k
  <2> QED  BY <1>3, <2>1, <2>2
<1>5. ASSUME NEW k \in 1 .. MaxRoom, InnerRead(k) PROVE BS!Next
  BY <1>1, <1>3, <1>5, VlessStreamAssumption DEF InnerRead
<1>6. ASSUME NEW k \in 1 .. MaxChunk, Write(k) PROVE BS!Next
  <2>1. written' = written + k /\ UNCHANGED <<addons_len, delivered>> /\ written' \in Nat
    BY <1>1, <1>6, VlessStreamAssumption DEF Write, client_vars
  <2>2. header_len' = header_len
    BY <2>1 DEF header_len
  <2> DEFINE m == IF written > header_len THEN written - header_len ELSE 0
             q == IF written' > header_len THEN written' - header_len ELSE 0
  <2>3. m \in Nat /\ q \in Nat /\ m <= q
    BY <1>1, <2>1, VlessStreamAssumption
  <2>4. Payload = [i \in 1 .. m |-> i] /\ Payload' = [i \in 1 .. q |-> i]
    BY <2>2 DEF Payload
  <2> HIDE DEF m, q
  <2>5. BS!Extends(Payload', Payload)
    BY <2>3, <2>4 DEF BS!Extends
  <2> QED  BY <2>1, <2>5 DEF BS!Next, BS!Write
<1>7. ASSUME UNCHANGED <<addons_len, written, delivered>> PROVE UNCHANGED BS!bsvars
  BY <1>7 DEF BS!bsvars, Payload, header_len
<1>8. ASSUME NEW k \in 1 .. BufCap + Reserve, HandshakeRead(k) PROVE UNCHANGED BS!bsvars
  BY <1>7, <1>8 DEF HandshakeRead, server_vars
<1>9. ASSUME NEW r \in 1 .. MaxRoom, PollRead(r) PROVE UNCHANGED BS!bsvars
  BY <1>7, <1>9 DEF PollRead, server_vars
<1>10. CASE Close \/ HandshakeEof \/ InnerEof \/ InnerPending \/ InnerError \/ UNCHANGED vars
  BY <1>7, <1>10 DEF Close, HandshakeEof, InnerEof, InnerPending, InnerError, vars, server_vars, client_vars
<1> QED  BY <1>4, <1>5, <1>6, <1>8, <1>9, <1>10 DEF Next, Read

(* The client end implements a byte stream of the payload. *)
THEOREM Refinement == Spec => ImplementsByteStream
<1>1. Init => BS!Init
  <2> SUFFICES ASSUME Init PROVE Payload = <<>> /\ delivered = <<>>
    BY DEF BS!Init
  <2>1. written = 0 /\ header_len \in Nat /\ delivered = <<>>
    BY VlessStreamAssumption DEF Init, header_len
  <2> QED  BY <2>1 DEF Payload
<1>2. IInv /\ IInv' /\ [Next]_vars => [BS!Next]_(BS!bsvars)
  BY StepHands
<1> QED  BY <1>1, <1>2, Inductive, PTL DEF Spec, ImplementsByteStream, BS!Spec

-----------------------------------------------------------------------------
(* Progress. *)

LEMMA EffortIsNat ==
  IInv => Effort \in Nat /\ taken \in Nat /\ written \in Nat /\ buf_len \in Nat /\ taken <= written
<1> SUFFICES ASSUME IInv PROVE Effort \in Nat /\ taken \in Nat /\ written \in Nat /\ buf_len \in Nat /\ taken <= written
  OBVIOUS
<1>1. taken \in Nat /\ written \in Nat /\ buf_len \in Nat /\ taken <= written
  BY DEF IInv, TypeOK
<1> QED  BY <1>1 DEF Effort

LEMMA ReadCounts ==
  ASSUME IInv, Read
  PROVE  Effort' < Effort
<1>0. /\ taken \in Nat /\ written \in Nat /\ buf_len \in Nat /\ room \in Nat
      /\ pc = "ready" => room > 0
  BY DEF IInv, TypeOK
<1>1. ASSUME NEW k \in 1 .. BufCap + Reserve, HandshakeRead(k)
      PROVE  Effort' < Effort
  <2> DEFINE used == HeaderEnd(buf_len + k)
  <2>1. /\ taken' = taken + k /\ buf_len' = buf_len + k - used /\ written' = written
        /\ pc = "handshake" /\ pc' \in {"ready", "handshake"} /\ k \in Nat /\ k >= 1
    BY <1>1, VlessStreamAssumption DEF HandshakeRead, server_vars
  <2>2. used \in Nat
    <3>1. header_len \in Nat
      BY HeaderIsNat
    <3> QED  BY <3>1 DEF HeaderEnd
  <2> HIDE DEF used
  <2> QED  BY <1>0, <2>1, <2>2 DEF Effort
<1>2. CASE HandshakeEof \/ InnerEof
  <2>1. /\ taken' = taken /\ buf_len' = buf_len /\ written' = written
        /\ pc \in {"handshake", "ready"} /\ pc' \in {"error", "eof"}
    BY <1>2 DEF HandshakeEof, InnerEof, server_vars
  <2> QED  BY <1>0, <2>1 DEF Effort
<1>3. CASE PlaceBack
  <2> DEFINE k == Smaller(room, buf_len)
  <2>1. /\ taken' = taken /\ buf_len' = buf_len - k /\ written' = written
        /\ pc = "ready" /\ pc' = "idle" /\ buf_len > 0
    BY <1>3 DEF PlaceBack, server_vars
  <2>2. k \in Nat /\ k >= 1
    BY <1>0, <2>1 DEF Smaller
  <2> HIDE DEF k
  <2> QED  BY <1>0, <2>1, <2>2 DEF Effort
<1>4. ASSUME NEW k \in 1 .. MaxRoom, InnerRead(k)
      PROVE  Effort' < Effort
  <2>1. /\ taken' = taken + k /\ buf_len' = buf_len /\ written' = written
        /\ pc = "ready" /\ pc' = "idle" /\ k \in Nat /\ k >= 1
    BY <1>4, VlessStreamAssumption DEF InnerRead, server_vars
  <2> QED  BY <1>0, <2>1 DEF Effort
<1> QED  BY <1>1, <1>2, <1>3, <1>4 DEF Read

(* The handshake loop and the reads that follow it make progress with every *)
(* chunk: poll_read never goes round for nothing, for any header length,    *)
(* buffer size and way of cutting the stream.                               *)
THEOREM ReadsCount == Spec => ReadsAdvance
<1>1. ASSUME IInv, IInv', [Next]_vars
      PROVE  /\ Effort' \in Nat
             /\ Read => Effort' < Effort
             /\ UNCHANGED server_vars => Effort' <= Effort
  <2>1. Effort' \in Nat
    <3>1. (Effort \in Nat)'
      BY <1>1, EffortIsNat, PTL
    <3> QED  BY <3>1
  <2>2. Read => Effort' < Effort
    BY <1>1, ReadCounts
  <2>3. ASSUME UNCHANGED server_vars PROVE Effort' <= Effort
    <3>1. Effort \in Nat /\ taken \in Nat /\ written \in Nat /\ buf_len \in Nat /\ taken <= written
      BY <1>1, EffortIsNat
    <3>2. CASE Read
      BY <2>1, <2>2, <3>1, <3>2
    <3>3. CASE InnerPending \/ InnerError \/ \E r \in 1 .. MaxRoom : PollRead(r)
      <4>1. /\ taken' = taken /\ buf_len' = buf_len /\ written' = written
            /\ pc \in {"idle", "handshake", "ready"} /\ pc' \in {"idle", "handshake", "ready", "failed"}
        BY <3>3 DEF InnerPending, InnerError, PollRead, server_vars
      <4> QED  BY <3>1, <4>1 DEF Effort
    <3>4. CASE Close \/ (\E k \in 1 .. MaxChunk : Write(k)) \/ UNCHANGED vars
      <4>1. taken' = taken /\ buf_len' = buf_len /\ written' = written /\ pc' = pc
        BY <2>3, <3>4 DEF Close, Write, client_vars, server_vars, vars
      <4> QED  BY <3>1, <4>1 DEF Effort
    <3> QED  BY <1>1, <3>2, <3>3, <3>4 DEF Next
  <2> QED  BY <2>1, <2>2, <2>3
<1>2. IInv /\ IInv' /\ [Next]_vars =>
        [/\ Effort' \in Nat
         /\ Read => Effort' < Effort
         /\ UNCHANGED server_vars => Effort' <= Effort]_vars
  BY <1>1
<1> QED  BY <1>2, Inductive, PTL DEF Spec, ReadsAdvance
=============================================================================
