-------------------------- MODULE VlessRequestProofs --------------------------
(***************************************************************************)
(* accept decodes what connect encodes, and leaves the payload alone: the  *)
(* inductive invariant IInv and the safety properties of VlessRequest, for *)
(* every request, payload and way the stream is cut into chunks.           *)
(***************************************************************************)
EXTENDS VlessRequest, TLAPS

-----------------------------------------------------------------------------
(* Facts about sequences. *)

LEMMA Concat ==
  ASSUME NEW S, NEW s \in Seq(S), NEW t \in Seq(S)
  PROVE  /\ s \o t \in Seq(S) /\ Len(s \o t) = Len(s) + Len(t)
         /\ \A i \in 1 .. Len(s) : (s \o t)[i] = s[i]
         /\ \A i \in 1 .. Len(t) : (s \o t)[Len(s) + i] = t[i]
OBVIOUS

LEMMA SameSeq ==
  ASSUME NEW S, NEW s \in Seq(S), NEW t \in Seq(S), Len(s) = Len(t), \A i \in 1 .. Len(s) : s[i] = t[i]
  PROVE  s = t
OBVIOUS

LEMMA Part ==
  ASSUME NEW S, NEW s \in Seq(S), NEW m \in Nat, NEW n \in Nat, m + n <= Len(s)
  PROVE  /\ SubSeq(s, m + 1, m + n) \in Seq(S) /\ Len(SubSeq(s, m + 1, m + n)) = n
         /\ \A i \in 1 .. n : SubSeq(s, m + 1, m + n)[i] = s[m + i]
OBVIOUS

LEMMA Single == \A b \in Byte : <<b>> \in Seq(Byte) /\ Len(<<b>>) = 1 /\ <<b>>[1] = b
OBVIOUS

(* Numbers. *)
LEMMA ByteIs == \A n : n \in Byte <=> n \in Nat /\ n <= 255
BY DEF Byte

LEMMA ByteMod == (\A n \in Byte : n % 256 = n) /\ \A n \in Nat : n % 256 \in Byte
<1>1. \A n \in Nat : n % 256 \in Nat /\ n % 256 <= 255
  OBVIOUS
<1> QED  BY <1>1, ByteIs

LEMMA TwoBytes ==
  ASSUME NEW p \in Port
  PROVE  p \div 256 \in Byte /\ p % 256 \in Byte /\ ((p \div 256) * 256) + (p % 256) = p
<1>1. p \in Nat /\ p <= 65535
  BY DEF Port
<1>2. p \div 256 \in Nat /\ p % 256 \in Nat /\ p % 256 <= 255 /\ ((p \div 256) * 256) + (p % 256) = p
  BY <1>1
<1>3. p \div 256 <= 255
  BY <1>1
<1> QED  BY <1>2, <1>3, ByteIs

LEMMA SeqLen == ASSUME NEW S, NEW s \in Seq(S) PROVE Len(s) \in Nat
OBVIOUS


(* Where the parts of a sequence are found in it. *)
LEMMA Glue ==
  ASSUME NEW p \in Seq(Byte), NEW q \in Seq(Byte)
  PROVE  /\ p \o q \in Seq(Byte) /\ Len(p \o q) = Len(p) + Len(q)
         /\ At(p \o q, 0, p) /\ At(p \o q, Len(p), q)
<1>1. /\ p \o q \in Seq(Byte) /\ Len(p \o q) = Len(p) + Len(q)
      /\ \A i \in 1 .. Len(p) : (p \o q)[i] = p[i]
      /\ \A i \in 1 .. Len(q) : (p \o q)[Len(p) + i] = q[i]
  OBVIOUS
<1>2. At(p \o q, 0, p)
  <2> DEFINE e == p \o q
  <2>1. \A i \in 1 .. Len(p) : e[i] = p[i]
    BY <1>1
  <2> HIDE DEF e
  <2>2. \A i \in 1 .. Len(p) : e[0 + i] = p[i]
    BY <2>1
  <2> QED  BY <2>2 DEF At, e
<1> QED  BY <1>1, <1>2 DEF At

LEMMA Within ==
  ASSUME NEW e, NEW p \in Seq(Byte), NEW q \in Seq(Byte), NEW n \in Nat, n + Len(q) <= Len(p),
         At(e, 0, p), At(p, n, q)
  PROVE  At(e, n, q)
<1>1. Len(p) \in Nat /\ Len(q) \in Nat
  BY SeqLen
<1> SUFFICES ASSUME NEW i \in 1 .. Len(q) PROVE e[n + i] = q[i]
  BY DEF At
<1>2. n + i \in 1 .. Len(p) /\ 0 + (n + i) = n + i
  BY <1>1
<1>3. e[0 + (n + i)] = p[n + i]
  BY <1>2 DEF At
<1>4. p[n + i] = q[i]
  BY DEF At
<1> QED  BY <1>2, <1>3, <1>4

LEMMA Joined ==
  ASSUME NEW a \in Seq(Byte), NEW b \in Seq(Byte), NEW c \in Seq(Byte), NEW d \in Seq(Byte)
  PROVE  LET p == ((a \o b) \o c) \o d IN
         /\ p \in Seq(Byte) /\ Len(p) = Len(a) + Len(b) + Len(c) + Len(d)
         /\ At(p, 0, a) /\ At(p, Len(a), b) /\ At(p, Len(a) + Len(b), c) /\ At(p, Len(a) + Len(b) + Len(c), d)
<1> DEFINE ab == a \o b
           abc == ab \o c
           p == abc \o d
<1>0. Len(a) \in Nat /\ Len(b) \in Nat /\ Len(c) \in Nat /\ Len(d) \in Nat
  BY SeqLen
<1>1. ab \in Seq(Byte) /\ Len(ab) = Len(a) + Len(b) /\ At(ab, 0, a) /\ At(ab, Len(a), b)
  BY Glue
<1>d. p = abc \o d
  OBVIOUS
<1> HIDE DEF ab
<1>2. abc \in Seq(Byte) /\ Len(abc) = Len(ab) + Len(c) /\ At(abc, 0, ab) /\ At(abc, Len(ab), c)
  BY <1>1, Glue
<1> HIDE DEF abc
<1>3. p \in Seq(Byte) /\ Len(p) = Len(abc) + Len(d) /\ At(p, 0, abc) /\ At(p, Len(abc), d)
  <2>1. /\ abc \o d \in Seq(Byte) /\ Len(abc \o d) = Len(abc) + Len(d)
        /\ At(abc \o d, 0, abc) /\ At(abc \o d, Len(abc), d)
    BY <1>2, Glue
  <2> QED  BY <1>d, <2>1
<1>4. At(p, 0, ab)
  BY <1>0, <1>1, <1>2, <1>3, Within
<1>5. At(p, Len(ab), c)
  BY <1>0, <1>1, <1>2, <1>3, Within
<1>6. At(p, 0, a) /\ At(p, Len(a), b)
  BY <1>0, <1>1, <1>3, <1>4, Within
<1> HIDE DEF p
<1>7. /\ p \in Seq(Byte) /\ Len(p) = Len(a) + Len(b) + Len(c) + Len(d)
      /\ At(p, 0, a) /\ At(p, Len(a), b) /\ At(p, Len(a) + Len(b), c) /\ At(p, Len(a) + Len(b) + Len(c), d)
  BY <1>0, <1>1, <1>2, <1>3, <1>5, <1>6
<1> QED  BY <1>7 DEF p, abc, ab

-----------------------------------------------------------------------------
(* What connect writes. *)

LEMMA FieldType ==
  ASSUME NEW r \in Requests
  PROVE  /\ r.version \in Byte /\ r.id \in Seq(Byte) /\ r.addons \in Seq(Byte) /\ r.command \in Byte
         /\ r.port \in Port /\ r.target \in Target
<1>1. r \in Request
  BY VlessRequestAssumption
<1> QED  BY <1>1 DEF Request

LEMMA FieldSize ==
  ASSUME NEW r \in Requests
  PROVE  Len(r.id) = 16 /\ Len(r.addons) \in Byte /\ Len(r.addons) \in Nat
<1>1. Len(r.id) = 16 /\ Len(r.addons) <= 255
  BY VlessRequestAssumption
<1>2. Len(r.addons) \in Nat
  BY FieldType, SeqLen
<1> QED  BY <1>1, <1>2, ByteIs

LEMMA TargetType ==
  ASSUME NEW t \in Target
  PROVE  t.kind \in Byte /\ t.host \in Seq(Byte) /\ Len(t.host) \in Nat
BY DEF Target

LEMMA HostIs ==
  ASSUME NEW t \in Target
  PROVE  /\ HostBytes(t) \in Seq(Byte)
         /\ t.kind # Name => HostBytes(t) = t.host
         /\ t.kind = Name => HostBytes(t) = <<Len(t.host) % 256>> \o t.host
<1>1. t.host \in Seq(Byte) /\ Len(t.host) \in Nat
  BY TargetType
<1>2. <<Len(t.host) % 256>> \o t.host \in Seq(Byte)
  <2> DEFINE b == Len(t.host) % 256
  <2>1. b \in Byte
    BY <1>1, ByteMod
  <2> HIDE DEF b
  <2>2. <<b>> \in Seq(Byte)
    BY ONLY <2>1, Single
  <2>3. <<b>> \o t.host \in Seq(Byte)
    BY ONLY <1>1, <2>2, Concat
  <2> QED  BY ONLY <2>3 DEF b
<1> DEFINE long == <<Len(t.host) % 256>> \o t.host
<1>3. HostBytes(t) = (IF t.kind = Name THEN long ELSE t.host)
  BY DEF HostBytes
<1>4. long \in Seq(Byte)
  BY <1>2
<1> HIDE DEF long
<1>5. HostBytes(t) \in Seq(Byte) /\ (t.kind # Name => HostBytes(t) = t.host) /\ (t.kind = Name => HostBytes(t) = long)
  BY ONLY <1>1, <1>3, <1>4
<1> QED  BY ONLY <1>5 DEF long

LEMMA NameIs ==
  ASSUME NEW t \in Target, t.kind = Name
  PROVE  /\ Len(HostBytes(t)) = 1 + Len(t.host) /\ At(HostBytes(t), 0, <<Len(t.host) % 256>>)
         /\ At(HostBytes(t), 1, t.host)
<1> DEFINE o == <<Len(t.host) % 256>>
           h == t.host
<1>1. h \in Seq(Byte) /\ Len(h) % 256 \in Byte
  BY TargetType, ByteMod
<1>2. HostBytes(t) = o \o h
  BY HostIs
<1>3. o \in Seq(Byte) /\ Len(o) = 1
  BY <1>1, Single
<1> HIDE DEF o, h
<1>4. Len(o \o h) = Len(o) + Len(h) /\ At(o \o h, 0, o) /\ At(o \o h, Len(o), h)
  BY <1>1, <1>3, Glue
<1> QED  BY <1>2, <1>3, <1>4 DEF o, h

LEMMA ModIs ==
  ASSUME NEW n \in Nat
  PROVE  n % 256 \in Nat /\ n % 256 <= n /\ (n <= 255 => n % 256 = n)
OBVIOUS

(* The part of a host that accept takes for all of it. *)
LEMMA ClaimedIs ==
  ASSUME NEW t \in Target
  PROVE  /\ Claimed(t) \in Seq(Byte) /\ Len(Claimed(t)) \in Nat /\ Len(Claimed(t)) <= Len(t.host)
         /\ t.kind = Name => Len(Claimed(t)) = Len(t.host) % 256
         /\ t.kind # Name \/ Len(t.host) <= 255 => Claimed(t) = t.host /\ Beyond(t) = 0
         /\ Beyond(t) = Len(t.host) - Len(Claimed(t)) /\ Beyond(t) \in Nat
         /\ \A i \in 1 .. Len(Claimed(t)) : Claimed(t)[i] = t.host[i]
<1> DEFINE h == t.host
           n == Len(t.host)
           m == Len(t.host) % 256
           c == SubSeq(t.host, 0 + 1, 0 + m)
<1>1. h \in Seq(Byte) /\ n \in Nat /\ Len(h) = n
  BY TargetType
<1>2. m \in Nat /\ m <= n /\ (n <= 255 => m = n)
  BY <1>1, ModIs
<1>3. Claimed(t) = IF t.kind = Name THEN c ELSE h
  BY <1>2 DEF Claimed
<1>4. c \in Seq(Byte) /\ Len(c) = m /\ \A i \in 1 .. m : c[i] = h[i]
  <2> HIDE DEF h, n, m
  <2>1. 0 + m <= Len(h) /\ 0 \in Nat
    BY <1>1, <1>2
  <2>2. /\ SubSeq(h, 0 + 1, 0 + m) \in Seq(Byte) /\ Len(SubSeq(h, 0 + 1, 0 + m)) = m
        /\ \A i \in 1 .. m : SubSeq(h, 0 + 1, 0 + m)[i] = h[0 + i]
    BY <1>1, <1>2, <2>1, Part
  <2>3. \A i \in 1 .. m : 0 + i = i
    BY <1>2
  <2> QED  BY <2>2, <2>3 DEF h, m
<1> HIDE DEF h, n, m, c
<1>5. n <= 255 => c = h
  <2>1. ASSUME n <= 255 PROVE c = h
    <3>1. m = n
      BY <1>2, <2>1
    <3> QED  BY ZenonT(60), <1>1, <1>4, <3>1, SameSeq
  <2> QED  BY <2>1
<1>6. Beyond(t) = n - Len(Claimed(t))
  BY DEF Beyond, n
<1>7. CASE t.kind = Name
  <2>1. Claimed(t) = c
    BY <1>3, <1>7
  <2>2. n - m \in Nat /\ (n <= 255 => n - m = 0)
    BY <1>1, <1>2
  <2> QED  BY ZenonT(60), <1>1, <1>2, <1>4, <1>5, <1>6, <1>7, <2>1, <2>2 DEF h, n, m
<1>8. CASE t.kind # Name
  <2>1. Claimed(t) = h
    BY <1>3, <1>8
  <2>2. n - n = 0 /\ 0 \in Nat /\ n <= n
    BY <1>1
  <2>3. Beyond(t) = 0 /\ Len(Claimed(t)) = n
    BY <1>1, <1>6, <2>1, <2>2
  <2> QED  BY <1>1, <1>6, <1>8, <2>1, <2>2, <2>3 DEF h, n
<1> QED  BY <1>7, <1>8

(* The fields of a request, one after the other. *)
Fields(r) ==
  LET e == Encode(r)
      n == Len(r.addons)
  IN
  /\ e \in Seq(Byte) /\ n \in Nat /\ HostBytes(r.target) \in Seq(Byte)
  /\ Len(e) = 22 + n + Len(HostBytes(r.target))
  /\ At(e, 0, <<r.version>>) /\ At(e, 1, r.id) /\ At(e, 17, <<n>>)
  /\ At(e, 18 + n, <<r.command>>) /\ At(e, 19 + n, <<r.port \div 256, r.port % 256>>)
  /\ At(e, 21 + n, <<r.target.kind>>) /\ At(e, 22 + n, HostBytes(r.target))

LEMMA EncodeIs == ASSUME NEW r \in Requests PROVE Fields(r)
<1> DEFINE e == Encode(r)
           n == Len(r.addons)
           v == <<r.version>>
           id == r.id
           l == <<Len(r.addons)>>
           ad == r.addons
           c == <<r.command>>
           q == <<r.port \div 256, r.port % 256>>
           k == <<r.target.kind>>
           h == HostBytes(r.target)
           s == ((v \o id) \o l) \o ad
           t == ((s \o c) \o q) \o k
<1>1. v \in Seq(Byte) /\ Len(v) = 1 /\ id \in Seq(Byte) /\ Len(id) = 16
  BY FieldType, FieldSize, Single
<1>2. l \in Seq(Byte) /\ Len(l) = 1 /\ ad \in Seq(Byte) /\ Len(ad) = n /\ n \in Nat
  BY FieldType, FieldSize, Single
<1>3. c \in Seq(Byte) /\ Len(c) = 1 /\ k \in Seq(Byte) /\ Len(k) = 1
  BY FieldType, TargetType, Single
<1>4. q \in Seq(Byte) /\ Len(q) = 2
  <2>1. r.port \div 256 \in Byte /\ r.port % 256 \in Byte
    BY FieldType, TwoBytes
  <2> QED  BY <2>1
<1>5. h \in Seq(Byte) /\ Len(h) \in Nat
  BY FieldType, HostIs, SeqLen
<1>6. e = t \o h
  BY DEF Encode
<1> HIDE DEF e, n, v, id, l, ad, c, q, k, h
<1>7. /\ s \in Seq(Byte) /\ Len(s) = Len(v) + Len(id) + Len(l) + Len(ad)
      /\ At(s, 0, v) /\ At(s, Len(v), id) /\ At(s, Len(v) + Len(id), l) /\ At(s, Len(v) + Len(id) + Len(l), ad)
  <2>1. v \in Seq(Byte) /\ id \in Seq(Byte) /\ l \in Seq(Byte) /\ ad \in Seq(Byte)
    BY <1>1, <1>2
  <2> QED  BY <2>1, Joined
<1> HIDE DEF s
<1>8. /\ s \in Seq(Byte) /\ Len(s) = 18 + n /\ At(s, 0, v) /\ At(s, 1, id) /\ At(s, 17, l)
  BY <1>1, <1>2, <1>7
<1>9. /\ t \in Seq(Byte) /\ Len(t) = Len(s) + Len(c) + Len(q) + Len(k)
      /\ At(t, 0, s) /\ At(t, Len(s), c) /\ At(t, Len(s) + Len(c), q) /\ At(t, Len(s) + Len(c) + Len(q), k)
  BY <1>3, <1>4, <1>8, Joined
<1> HIDE DEF t
<1>10. /\ t \in Seq(Byte) /\ Len(t) = 22 + n
       /\ At(t, 0, s) /\ At(t, 18 + n, c) /\ At(t, 19 + n, q) /\ At(t, 21 + n, k)
  BY <1>2, <1>3, <1>4, <1>8, <1>9
<1>11. e \in Seq(Byte) /\ Len(e) = Len(t) + Len(h) /\ At(e, 0, t) /\ At(e, Len(t), h)
  <2>1. /\ t \o h \in Seq(Byte) /\ Len(t \o h) = Len(t) + Len(h)
        /\ At(t \o h, 0, t) /\ At(t \o h, Len(t), h)
    BY <1>5, <1>10, Glue
  <2> QED  BY <1>6, <2>1
<1>12. At(e, 18 + n, c) /\ At(e, 19 + n, q) /\ At(e, 21 + n, k) /\ At(e, 0, s)
  <2>1. 18 + n \in Nat /\ (18 + n) + Len(c) <= Len(t)
    BY <1>2, <1>3, <1>10
  <2>2. 19 + n \in Nat /\ (19 + n) + Len(q) <= Len(t)
    BY <1>2, <1>4, <1>10
  <2>3. 21 + n \in Nat /\ (21 + n) + Len(k) <= Len(t)
    BY <1>2, <1>3, <1>10
  <2>4. 0 + Len(s) <= Len(t)
    BY <1>2, <1>8, <1>10
  <2>5. At(e, 18 + n, c)
    BY <1>3, <1>10, <1>11, <2>1, Within
  <2>6. At(e, 19 + n, q)
    BY <1>4, <1>10, <1>11, <2>2, Within
  <2>7. At(e, 21 + n, k)
    BY <1>3, <1>10, <1>11, <2>3, Within
  <2>8. At(e, 0, s)
    BY <1>8, <1>10, <1>11, <2>4, Within
  <2> QED  BY <2>5, <2>6, <2>7, <2>8
<1>13. At(e, 0, v) /\ At(e, 1, id) /\ At(e, 17, l)
  <2>1. 0 + Len(v) <= Len(s) /\ 1 + Len(id) <= Len(s) /\ 17 + Len(l) <= Len(s)
    BY <1>1, <1>2, <1>8
  <2>2. At(e, 0, v)
    BY <1>1, <1>8, <1>12, <2>1, Within
  <2>3. At(e, 1, id)
    BY <1>1, <1>8, <1>12, <2>1, Within
  <2>4. At(e, 17, l)
    BY <1>2, <1>8, <1>12, <2>1, Within
  <2> QED  BY <2>2, <2>3, <2>4
<1> QED  BY ONLY <1>2, <1>5, <1>10, <1>11, <1>12, <1>13 DEF Fields, e, n, v, id, l, ad, c, q, k, h

(* What connect wrote is at the start of the wire. *)
LEMMA WireIs ==
  ASSUME request \in Requests
  PROVE  /\ wire \in Seq(Byte) /\ Encode(request) \in Seq(Byte) /\ Len(Encode(request)) <= Len(wire)
         /\ At(wire, 0, Encode(request)) /\ Len(Encode(request)) >= 22 /\ Len(Encode(request)) \in Nat
<1> DEFINE e == Encode(request)
           h == HostBytes(request.target)
           a == Len(request.addons)
<1>1. e \in Seq(Byte) /\ a \in Nat /\ h \in Seq(Byte) /\ Len(e) = 22 + a + Len(h)
  <2>1. Fields(request)
    BY EncodeIs
  <2> QED  BY ONLY <2>1 DEF Fields
<1>2. Payload \in Seq(Byte) /\ Len(Payload) \in Nat
  BY VlessRequestAssumption, SeqLen
<1>3. wire = e \o Payload
  BY DEF wire
<1> HIDE DEF e, h, a
<1>4. e \o Payload \in Seq(Byte) /\ Len(e \o Payload) = Len(e) + Len(Payload) /\ At(e \o Payload, 0, e)
  BY <1>1, <1>2, Glue
<1>5. Len(h) \in Nat
  BY <1>1, SeqLen
<1>6. Len(e) \in Nat /\ Len(e) >= 22
  BY <1>1, <1>5
<1> QED  BY <1>1, <1>2, <1>3, <1>4, <1>6 DEF e

(* Where a request without addons has its fields. *)
LEMMA Layout ==
  ASSUME request \in Requests, NoAddons(request)
  PROVE  /\ wire[1] = request.version /\ At(wire, 1, request.id) /\ wire[18] = 0
         /\ wire[19] = request.command
         /\ wire[20] = request.port \div 256 /\ wire[21] = request.port % 256
         /\ wire[22] = request.target.kind /\ At(wire, 22, HostBytes(request.target))
         /\ Len(Encode(request)) = 22 + Len(HostBytes(request.target))
<1> DEFINE e == Encode(request)
           v == <<request.version>>
           id == request.id
           l == <<0>>
           c == <<request.command>>
           q == <<request.port \div 256, request.port % 256>>
           k == <<request.target.kind>>
           h == HostBytes(request.target)
<1>1. Len(request.addons) = 0
  BY DEF NoAddons
<1>2. /\ e \in Seq(Byte) /\ h \in Seq(Byte) /\ Len(e) = 22 + 0 + Len(h)
      /\ At(e, 0, v) /\ At(e, 1, id) /\ At(e, 17, l)
      /\ At(e, 18 + 0, c) /\ At(e, 19 + 0, q) /\ At(e, 21 + 0, k) /\ At(e, 22 + 0, h)
  <2> DEFINE n == Len(request.addons)
  <2>1. /\ e \in Seq(Byte) /\ n \in Nat /\ h \in Seq(Byte)
        /\ Len(e) = 22 + n + Len(h)
        /\ At(e, 0, v) /\ At(e, 1, id) /\ At(e, 17, <<n>>)
        /\ At(e, 18 + n, c) /\ At(e, 19 + n, q) /\ At(e, 21 + n, k) /\ At(e, 22 + n, h)
    <3>1. Fields(request)
      BY EncodeIs
    <3> QED  BY ONLY <3>1 DEF Fields
  <2>2. n = 0
    BY <1>1
  <2> HIDE DEF n, e, v, id, c, q, k, h
  <2> QED  BY <2>1, <2>2
<1>3. v \in Seq(Byte) /\ Len(v) = 1 /\ id \in Seq(Byte) /\ Len(id) = 16 /\ c \in Seq(Byte) /\ Len(c) = 1
      /\ k \in Seq(Byte) /\ Len(k) = 1
  BY FieldType, FieldSize, TargetType, Single
<1>4. q \in Seq(Byte) /\ Len(q) = 2 /\ l \in Seq(Byte) /\ Len(l) = 1
  <2>1. request.port \div 256 \in Byte /\ request.port % 256 \in Byte
    BY FieldType, TwoBytes
  <2>2. 0 \in Byte
    BY ByteIs
  <2> QED  BY <2>1, <2>2
<1>5. v[1] = request.version /\ l[1] = 0 /\ c[1] = request.command /\ q[1] = request.port \div 256
      /\ q[2] = request.port % 256 /\ k[1] = request.target.kind
  OBVIOUS
<1>6. At(wire, 0, e)
  BY WireIs
<1> HIDE DEF e, v, id, l, c, q, k, h
<1>7. Len(h) \in Nat /\ Len(e) = 22 + Len(h)
  BY <1>2, SeqLen
<1>8. At(e, 18, c) /\ At(e, 19, q) /\ At(e, 21, k) /\ At(e, 22, h)
  BY <1>2
<1>9. At(wire, 0, v) /\ At(wire, 1, id) /\ At(wire, 17, l)
  <2>1. 0 + Len(v) <= Len(e) /\ 1 + Len(id) <= Len(e) /\ 17 + Len(l) <= Len(e)
    BY <1>3, <1>4, <1>7
  <2>2. At(wire, 0, v)
    BY <1>2, <1>3, <1>6, <2>1, Within
  <2>3. At(wire, 1, id)
    BY <1>2, <1>3, <1>6, <2>1, Within
  <2>4. At(wire, 17, l)
    BY <1>2, <1>4, <1>6, <2>1, Within
  <2> QED  BY <2>2, <2>3, <2>4
<1>10. At(wire, 18, c) /\ At(wire, 19, q) /\ At(wire, 21, k) /\ At(wire, 22, h)
  <2>1. 18 + Len(c) <= Len(e) /\ 19 + Len(q) <= Len(e) /\ 21 + Len(k) <= Len(e) /\ 22 + Len(h) <= Len(e)
    BY <1>3, <1>4, <1>7
  <2>2. At(wire, 18, c)
    BY <1>2, <1>3, <1>6, <1>8, <2>1, Within
  <2>3. At(wire, 19, q)
    BY <1>2, <1>4, <1>6, <1>8, <2>1, Within
  <2>4. At(wire, 21, k)
    BY <1>2, <1>3, <1>6, <1>8, <2>1, Within
  <2>5. At(wire, 22, h)
    BY <1>2, <1>6, <1>8, <2>1, Within
  <2> QED  BY <2>2, <2>3, <2>4, <2>5
<1>11. wire[0 + 1] = v[1] /\ wire[17 + 1] = l[1] /\ wire[18 + 1] = c[1] /\ wire[21 + 1] = k[1]
  BY <1>3, <1>4, <1>9, <1>10 DEF At
<1>12. wire[19 + 1] = q[1] /\ wire[19 + 2] = q[2]
  BY <1>4, <1>10 DEF At
<1>13. /\ wire[1] = v[1] /\ wire[18] = l[1] /\ wire[19] = c[1] /\ wire[20] = q[1] /\ wire[21] = q[2]
       /\ wire[22] = k[1]
  BY <1>11, <1>12
<1> QED  BY <1>5, <1>7, <1>9, <1>10, <1>13 DEF e, id, h
LEMMA KindIs ==
  /\ AddrStage(V4) = "ipv4" /\ AddrStage(Name) = "domain_len" /\ AddrStage(V6) = "ipv6"
  /\ AddrLen(V4) = 4 /\ AddrLen(Name) = 1 /\ AddrLen(V6) = 16
  /\ V4 # Name /\ V4 # V6 /\ Name # V6
BY DEF AddrStage, AddrLen, V4, Name, V6

LEMMA Small == 1 \in Byte /\ 4 \in Byte /\ 16 \in Byte /\ 22 \in Byte /\ 0 \in Byte
BY ByteIs

LEMMA Elem == ASSUME NEW s \in Seq(Byte), NEW i \in Nat, 1 <= i, i <= Len(s) PROVE s[i] \in Byte
OBVIOUS

LEMMA Elems == ASSUME NEW s \in Seq(Byte) PROVE \A i \in 1 .. Len(s) : s[i] \in Byte
OBVIOUS

LEMMA Empty == ASSUME NEW w, NEW n PROVE <<>> \in Seq(Byte) /\ Len(<<>>) = 0 /\ At(w, n, <<>>)
BY DEF At

(* 22 bytes from the start of the wire are the fields of the request. *)
LEMMA FixedIs ==
  ASSUME request \in Requests, NEW b \in Seq(Byte), Len(b) = 22, At(wire, 0, b)
  PROVE  /\ b[18] \in Byte /\ b[22] \in Byte
         /\ b[1] = wire[1] /\ b[18] = wire[18] /\ b[19] = wire[19] /\ b[20] = wire[20] /\ b[21] = wire[21]
         /\ b[22] = wire[22] /\ \A i \in 1 .. 22 : b[i] = wire[i]
<1>1. ASSUME NEW i \in 1 .. 22 PROVE b[i] = wire[i]
  <2>1. b[i] = wire[0 + i]
    BY DEF At
  <2>2. 0 + i = i
    OBVIOUS
  <2> QED  BY <2>1, <2>2
<1>2. b[18] \in Byte /\ b[22] \in Byte
  <2>1. \A i \in 1 .. Len(b) : b[i] \in Byte
    BY Elems
  <2>2. 18 \in 1 .. Len(b) /\ 22 \in 1 .. Len(b)
    OBVIOUS
  <2> QED  BY <2>1, <2>2
<1>3. \A i \in 1 .. 22 : b[i] = wire[i]
  BY <1>1
<1>4. b[1] = wire[1] /\ b[18] = wire[18] /\ b[19] = wire[19] /\ b[20] = wire[20] /\ b[21] = wire[21]
      /\ b[22] = wire[22]
  BY <1>3
<1> QED  BY <1>2, <1>3, <1>4

LEMMA Start == Init => IInv
<1> SUFFICES ASSUME Init PROVE IInv
  OBVIOUS
<1> USE DEF Init
<1>1. wire \in Seq(Byte) /\ Len(wire) \in Nat
  BY WireIs, SeqLen
<1>2. TypeOK
  <2>1. buf \in Seq(Byte) /\ header \in Seq(Byte) /\ Len(buf) = 0 /\ Len(header) = 0
    BY Empty
  <2>2. needed \in Byte /\ Len(buf) <= needed
    BY <2>1, Small
  <2>3. taken \in Nat /\ taken <= Len(wire)
    BY <1>1
  <2>4. responded \in BOOLEAN
    OBVIOUS
  <2>5. stage \in Reading
    BY DEF Reading
  <2> QED  BY <2>1, <2>2, <2>3, <2>4, <2>5 DEF TypeOK
<1>3. BufIs
  BY Empty DEF BufIs
<1>4. HeaderIs
  BY Empty DEF HeaderIs
<1>5. Needs
  BY Empty DEF Needs
<1>6. Place
  BY DEF Place, Verdicts
<1> QED  BY <1>2, <1>3, <1>4, <1>5, <1>6 DEF IInv

LEMMA WireStays == ASSUME request' = request PROVE wire' = wire
BY DEF wire

-----------------------------------------------------------------------------
(* Every step preserves the invariant. *)

(* Places in the buffer and on the wire. *)
LEMMA PlaceIn ==
  ASSUME NEW b \in Nat, NEW k \in Nat, NEW n \in Nat, NEW t \in Nat, NEW i \in Nat,
         n + b = t, i > b, i <= b + k
  PROVE  i - b \in 1 .. k /\ b + (i - b) = i /\ n + i = t + (i - b)
OBVIOUS

LEMMA ReadBufStep == ASSUME IInv, NEW k \in 1 .. 255, ReadBuf(k) PROVE IInv'
<1> DEFINE r == SubSeq(wire, taken + 1, taken + k)
<1>0. request' = request /\ wire' = wire /\ k \in Nat
  BY WireStays DEF ReadBuf
<1>1. /\ request \in Requests /\ taken \in Nat /\ needed \in Byte /\ needed \in Nat /\ buf \in Seq(Byte)
      /\ Len(buf) \in Nat /\ wire \in Seq(Byte) /\ Len(wire) \in Nat
  BY WireIs, SeqLen, ByteIs DEF IInv, TypeOK
<1>2. stage \in Reading /\ Len(buf) + k <= needed /\ taken + k <= Len(wire)
  BY <1>0, <1>1 DEF ReadBuf, Spare
<1>3. r \in Seq(Byte) /\ Len(r) = k /\ \A i \in 1 .. k : r[i] = wire[taken + i]
  BY <1>0, <1>1, <1>2, Part
<1>4. buf' = buf \o r /\ taken' = taken + k
  BY DEF ReadBuf
<1> HIDE DEF r
<1>5. /\ buf' \in Seq(Byte) /\ Len(buf') = Len(buf) + k
      /\ At(buf', 0, buf) /\ At(buf', Len(buf), r)
  <2>1. buf \o r \in Seq(Byte) /\ Len(buf \o r) = Len(buf) + Len(r) /\ At(buf \o r, 0, buf) /\ At(buf \o r, Len(buf), r)
    BY <1>1, <1>3, Glue
  <2> QED  BY <1>3, <1>4, <2>1
<1>6. TypeOK'
  BY <1>0, <1>1, <1>2, <1>4, <1>5 DEF IInv, TypeOK, ReadBuf
<1>7. BufIs'
  <2> DEFINE n == taken - Len(buf)
  <2>1. n \in Nat /\ n + Len(buf) = taken /\ At(wire, n, buf)
    BY <1>1 DEF IInv, BufIs
  <2>2. taken' - Len(buf') = n /\ Len(buf') <= taken'
    BY <1>0, <1>1, <1>4, <1>5, <2>1
  <2> HIDE DEF n
  <2>3. ASSUME NEW i \in 1 .. Len(buf')
        PROVE  wire[n + i] = buf'[i]
    <3>1. CASE i <= Len(buf)
      <4>1. wire[n + i] = buf[i]
        BY <1>1, <2>1, <3>1 DEF At
      <4>2. buf'[0 + i] = buf[i]
        BY <1>1, <1>5, <3>1 DEF At
      <4> QED  BY <4>1, <4>2
    <3>2. CASE i > Len(buf)
      <4> DEFINE j == i - Len(buf)
      <4>1. j \in 1 .. k /\ Len(buf) + j = i /\ n + i = taken + j
        <5>1. /\ Len(buf) \in Nat /\ k \in Nat /\ n \in Nat /\ taken \in Nat /\ n + Len(buf) = taken
              /\ i > Len(buf) /\ i \in Nat
          BY <1>0, <1>1, <2>1, <3>2
        <5>2. i <= Len(buf) + k
          BY <1>5
        <5> QED  BY ONLY <5>1, <5>2, PlaceIn
      <4> HIDE DEF j
      <4>2. buf'[Len(buf) + j] = r[j]
        BY <1>3, <1>5, <4>1 DEF At
      <4>3. r[j] = wire[taken + j]
        BY <1>3, <4>1
      <4> QED  BY <4>1, <4>2, <4>3
    <3> QED  BY <1>1, <1>5, <3>1, <3>2
  <2>4. At(wire, n, buf')
    BY <2>3 DEF At
  <2> QED  BY <1>0, <2>2, <2>4 DEF BufIs
<1>8. HeaderIs'
  BY <1>0 DEF IInv, HeaderIs, ReadBuf
<1>9. Needs'
  BY <1>0, <1>1, <1>4, <1>5 DEF IInv, Needs, ReadBuf
<1>10. Place'
  <2>1. UNCHANGED <<request, stage, needed, header, target>>
    BY DEF ReadBuf
  <2>2. stage \notin {"respond", "check", "failed"} \cup Verdicts
    BY <1>2 DEF Reading, Verdicts
  <2> SUFFICES ASSUME NoAddons(request)' PROVE Place'
    BY DEF Place
  <2>3. NoAddons(request)
    BY <2>1 DEF NoAddons
  <2>4. /\ stage \in {"ipv4", "domain_len", "ipv6"} => taken' = 22 + Len(buf')
        /\ stage = "domain" => taken' = 23 + Len(buf')
    BY SMTT(60), <1>0, <1>1, <1>4, <1>5, <2>3 DEF IInv, Place
  <2> QED  BY <1>0, <2>1, <2>2, <2>3, <2>4 DEF IInv, Place
<1> QED  BY <1>6, <1>7, <1>8, <1>9, <1>10 DEF IInv
LEMMA FixedReadStep == ASSUME IInv, FixedRead PROVE IInv'
<1>0. request' = request /\ wire' = wire /\ taken' = taken /\ header' = buf /\ stage = "fixed"
  BY WireStays DEF FixedRead, Complete
<1>1. /\ request \in Requests /\ taken \in Nat /\ taken <= Len(wire) /\ needed = 22 /\ buf \in Seq(Byte)
      /\ Len(buf) \in Nat /\ Len(buf) <= needed /\ taken = Len(buf) /\ responded \in BOOLEAN
  BY <1>0, SeqLen DEF IInv, TypeOK, Needs
<1>2. Len(buf) = 22 /\ taken = 22
  <2>1. Len(buf) >= needed
    BY DEF FixedRead, Complete
  <2>2. Len(buf) \in Nat /\ Len(buf) <= 22 /\ needed = 22 /\ taken = Len(buf)
    BY <1>1
  <2>3. Len(buf) >= 22
    BY <2>1, <2>2
  <2>4. Len(buf) = 22
    <3> DEFINE b == Len(buf)
    <3>1. b \in Nat /\ b <= 22 /\ b >= 22
      BY ONLY <2>2, <2>3
    <3> HIDE DEF b
    <3>2. b = 22
      BY ONLY <3>1
    <3> QED  BY ONLY <3>2 DEF b
  <2> QED  BY <2>2, <2>4
<1>3. At(wire, 0, buf)
  <2>1. At(wire, taken - Len(buf), buf) /\ taken - Len(buf) = 0
    BY <1>2 DEF IInv, BufIs
  <2> QED  BY <2>1
<1>4. /\ buf[18] \in Byte /\ buf[1] = wire[1] /\ buf[18] = wire[18] /\ buf[19] = wire[19] /\ buf[22] = wire[22]
  BY <1>1, <1>2, <1>3, FixedIs
<1>5. \/ /\ stage' = "failed" /\ needed' = needed /\ buf' = buf
         /\ buf[1] # 0 \/ (buf[18] = 0 /\ ~(buf[19] \in Commands /\ buf[22] \in {V4, Name, V6}))
      \/ stage' = "addons" /\ buf[18] # 0 /\ needed' = buf[18] /\ buf' = <<>>
      \/ /\ buf[22] \in {V4, Name, V6}
         /\ stage' = AddrStage(buf[22]) /\ needed' = AddrLen(buf[22]) /\ buf' = <<>>
  BY DEF FixedRead, TakeFields, Await, Finish
<1>6. /\ needed' \in Byte /\ buf' \in Seq(Byte) /\ Len(buf') <= needed'
      /\ stage' \in {"failed", "addons", "ipv4", "domain_len", "ipv6"} /\ BufIs'
  <2>1. CASE buf' = buf
    <3>1. BufIs'
      BY <1>0, <2>1 DEF IInv, BufIs
    <3>2. stage' = "failed"
      BY <1>2, <1>5, <2>1, Empty
    <3> QED  BY <1>1, <1>2, <1>5, <2>1, <3>1, <3>2, Small, KindIs
  <2>2. CASE buf' = <<>>
    <3>1. needed' \in Byte /\ stage' \in {"failed", "addons", "ipv4", "domain_len", "ipv6"}
      BY <1>1, <1>4, <1>5, Small, KindIs
    <3>2. needed' >= 0
      BY <3>1, ByteIs
    <3> QED  BY <1>0, <1>1, <2>2, <3>1, <3>2, Empty DEF BufIs
  <2> QED  BY <1>5, <2>1, <2>2
<1>7. TypeOK'
  BY <1>0, <1>1, <1>2, <1>6 DEF TypeOK, FixedRead, Reading, Verdicts
<1>8. HeaderIs'
  BY <1>0, <1>2, <1>3 DEF HeaderIs
<1>9. Needs'
  BY <1>5, <1>6, KindIs DEF Needs
<1>10. Place'
  <2> SUFFICES ASSUME NoAddons(request)' PROVE Place'
    BY DEF Place
  <2>1. NoAddons(request)
    BY <1>0 DEF NoAddons
  <2>2. buf[1] = request.version /\ buf[18] = 0 /\ buf[19] = request.command /\ buf[22] = request.target.kind
    BY <1>1, <1>4, <2>1, Layout
  <2>3. CASE stage' = "failed"
    <3>1. ~WellFormed(request)
      BY <1>5, <2>2, <2>3, KindIs DEF WellFormed
    <3>2. (~WellFormed(request))'
      BY <1>0, <3>1 DEF WellFormed
    <3> QED  BY <2>3, <3>2 DEF Place, Verdicts
  <2>4. CASE stage' # "failed"
    <3>1. /\ buf[22] \in {V4, Name, V6} /\ stage' = AddrStage(buf[22]) /\ Len(buf') = 0
          /\ stage' \in {"ipv4", "domain_len", "ipv6"}
      BY <1>5, <2>2, <2>4, Empty, KindIs
    <3> QED  BY <1>0, <1>2, <3>1 DEF Place, Verdicts
  <2> QED  BY <2>3, <2>4
<1> QED  BY <1>6, <1>7, <1>8, <1>9, <1>10 DEF IInv

LEMMA AddonsReadStep == ASSUME IInv, AddonsRead PROVE IInv'
<1>0. /\ request' = request /\ wire' = wire /\ taken' = taken /\ header' = header /\ target' = target
      /\ stage = "addons"
  BY WireStays DEF AddonsRead, Complete
<1>1. /\ request \in Requests /\ taken \in Nat /\ taken <= Len(wire) /\ needed \in Byte /\ buf \in Seq(Byte)
      /\ Len(buf) \in Nat /\ Len(buf) <= needed /\ responded \in BOOLEAN /\ header \in Seq(Byte)
  BY SeqLen DEF IInv, TypeOK
<1>2. \/ stage' = "failed" /\ needed' = needed /\ buf' = buf
      \/ /\ header[22] \in {V4, Name, V6}
         /\ stage' = AddrStage(header[22]) /\ needed' = AddrLen(header[22]) /\ buf' = <<>>
  BY DEF AddonsRead, TakeFields, Await, Finish
<1>3. /\ needed' \in Byte /\ buf' \in Seq(Byte) /\ Len(buf') <= needed'
      /\ stage' \in {"failed", "ipv4", "domain_len", "ipv6"} /\ BufIs'
  <2>1. CASE buf' = buf
    BY <1>0, <1>1, <1>2, <2>1, Small, KindIs DEF IInv, BufIs
  <2>2. CASE buf' = <<>>
    <3>1. needed' \in Byte /\ stage' \in {"failed", "ipv4", "domain_len", "ipv6"}
      BY <1>1, <1>2, Small, KindIs
    <3>2. needed' >= 0
      BY <3>1, ByteIs
    <3> QED  BY <1>0, <1>1, <2>2, <3>1, <3>2, Empty DEF BufIs
  <2> QED  BY <1>2, <2>1, <2>2
<1>4. Len(header) = 22 /\ At(wire, 0, header)
  BY <1>0 DEF IInv, HeaderIs
<1>5. TypeOK'
  BY <1>0, <1>1, <1>3, <1>4 DEF TypeOK, AddonsRead, Reading, Verdicts
<1>6. HeaderIs'
  BY <1>0, <1>4 DEF HeaderIs
<1>7. Needs'
  BY <1>2, <1>3, KindIs DEF Needs
<1>8. ~NoAddons(request)
  BY <1>0 DEF IInv, Place
<1>9. (~NoAddons(request))'
  BY <1>0, <1>8 DEF NoAddons
<1>10. Place'
  BY <1>9 DEF Place
<1> QED  BY <1>3, <1>5, <1>6, <1>7, <1>10 DEF IInv

LEMMA DomainLenReadStep == ASSUME IInv, DomainLenRead PROVE IInv'
<1>0. /\ request' = request /\ wire' = wire /\ taken' = taken /\ header' = header /\ target' = target
      /\ stage = "domain_len" /\ stage' = "domain" /\ needed' = buf[1] /\ buf' = <<>>
  BY WireStays DEF DomainLenRead, Complete, Await
<1>1. /\ request \in Requests /\ taken \in Nat /\ taken <= Len(wire) /\ needed = 1 /\ buf \in Seq(Byte)
      /\ Len(buf) \in Nat /\ Len(buf) <= needed /\ responded \in BOOLEAN /\ header \in Seq(Byte)
  BY <1>0, SeqLen DEF IInv, TypeOK, Needs
<1>2. Len(buf) = 1
  <2>1. Len(buf) >= needed
    BY DEF DomainLenRead, Complete
  <2>2. Len(buf) \in Nat /\ Len(buf) <= 1 /\ needed = 1
    BY <1>1
  <2>3. Len(buf) >= 1
    BY <2>1, <2>2
  <2> QED  BY <2>2, <2>3
<1>3. buf[1] \in Byte /\ buf[1] >= 0
  <2>1. buf[1] \in Byte
    BY <1>1, <1>2, Elem
  <2> QED  BY <2>1, ByteIs
<1>4. Len(header) = 22 /\ At(wire, 0, header)
  BY <1>0 DEF IInv, HeaderIs
<1>5. TypeOK'
  BY <1>0, <1>1, <1>3, <1>4, Empty DEF TypeOK, DomainLenRead, Reading
<1>6. BufIs'
  BY <1>0, <1>1, Empty DEF BufIs
<1>7. HeaderIs'
  BY <1>0, <1>4 DEF HeaderIs
<1>8. Needs'
  BY <1>0 DEF Needs
<1>9. Place'
  <2> SUFFICES ASSUME NoAddons(request)' PROVE Place'
    BY DEF Place
  <2>1. NoAddons(request)
    BY <1>0 DEF NoAddons
  <2>2. taken = 22 + Len(buf) /\ stage = AddrStage(header[22]) /\ header[22] \in {V4, Name, V6}
    BY <1>0, <2>1 DEF IInv, Place
  <2>3. header[22] = Name /\ taken = 23
    BY <1>0, <1>2, <2>2, KindIs
  <2>4. buf[1] = wire[22 + 1]
    <3>1. At(wire, taken - Len(buf), buf) /\ taken - Len(buf) = 22
      BY <1>2, <2>3 DEF IInv, BufIs
    <3> QED  BY <1>2, <3>1 DEF At
  <2>5. buf[1] = wire[23] /\ Len(buf') = 0 /\ taken = 23 + 0
    BY <1>0, <2>3, <2>4, Empty
  <2> QED  BY <1>0, <2>3, <2>5, KindIs DEF Place, Verdicts
<1> QED  BY <1>5, <1>6, <1>7, <1>8, <1>9 DEF IInv
(* The host of a request without addons is read after its 22 bytes, that of *)
(* a name after the length of the name.                                     *)
LEMMA HostAt ==
  ASSUME request \in Requests, NoAddons(request), request.target.kind \in {V4, Name, V6}
  PROVE  LET t == request.target IN
         /\ t.kind # Name => /\ At(wire, 22, t.host) /\ Len(Encode(request)) = 22 + Len(t.host)
         /\ t.kind = Name => /\ wire[23] = Len(t.host) % 256 /\ At(wire, 23, t.host)
                             /\ Len(Encode(request)) = 23 + Len(t.host)
<1> DEFINE t == request.target
           h == HostBytes(t)
           o == <<Len(t.host) % 256>>
           s == t.host
<1>1. t \in Target /\ s \in Seq(Byte) /\ Len(s) \in Nat
  BY FieldType, TargetType
<1>2. At(wire, 22, h) /\ Len(Encode(request)) = 22 + Len(h)
  BY Layout
<1>3. CASE t.kind # Name
  <2>1. h = s
    BY <1>1, <1>3, HostIs
  <2> QED  BY <1>2, <1>3, <2>1
<1>4. CASE t.kind = Name
  <2>1. Len(h) = 1 + Len(s) /\ At(h, 0, o) /\ At(h, 1, s)
    BY <1>1, <1>4, NameIs
  <2>2. Len(o) = 1 /\ o[1] = Len(s) % 256
    OBVIOUS
  <2> HIDE DEF h, o, s, t
  <2>3. h[0 + 1] = o[1]
    BY <2>1, <2>2 DEF At
  <2>4. wire[22 + 1] = h[1]
    BY <1>1, <1>2, <2>1 DEF At
  <2>5. wire[23] = Len(s) % 256
    BY <2>2, <2>3, <2>4
  <2>6. At(wire, 23, s)
    <3> SUFFICES ASSUME NEW i \in 1 .. Len(s) PROVE wire[23 + i] = s[i]
      BY DEF At
    <3>1. 1 + i \in 1 .. Len(h) /\ 22 + (1 + i) = 23 + i
      BY <1>1, <2>1
    <3>2. wire[22 + (1 + i)] = h[1 + i]
      BY <1>2, <3>1 DEF At
    <3>3. h[1 + i] = s[i]
      BY <2>1 DEF At
    <3> QED  BY <3>1, <3>2, <3>3
  <2>7. Len(Encode(request)) = 23 + Len(s)
    BY <1>1, <1>2, <2>1
  <2> QED  BY <1>4, <2>5, <2>6, <2>7 DEF t, s
<1> QED  BY <1>3, <1>4

(* Two sequences of one length found at one place are one. *)
LEMMA SameAt ==
  ASSUME NEW w, NEW n, NEW p \in Seq(Byte), NEW q \in Seq(Byte), Len(p) = Len(q), At(w, n, p), At(w, n, q)
  PROVE  p = q
<1>1. \A i \in 1 .. Len(p) : p[i] = q[i]
  BY DEF At
<1> QED  BY <1>1, SameSeq

LEMMA AddrReadStep == ASSUME IInv, AddrRead PROVE IInv'
<1>0. /\ request' = request /\ wire' = wire /\ taken' = taken /\ header' = header /\ stage' = "respond"
      /\ needed' = needed /\ buf' = buf /\ target' = [kind |-> header[22], host |-> buf]
      /\ responded' = responded
  BY WireStays DEF AddrRead, Finish
<1>1. /\ stage \in {"ipv4", "domain", "ipv6"} /\ Len(buf) >= needed
  BY DEF AddrRead, Complete
<1>2. /\ request \in Requests /\ needed \in Nat /\ buf \in Seq(Byte)
      /\ Len(buf) \in Nat /\ Len(buf) <= needed
  BY SeqLen, ByteIs DEF IInv, TypeOK
<1>3. Len(buf) = needed
  <2>1. Len(buf) \in Nat /\ needed \in Nat /\ Len(buf) <= needed
    BY <1>2
  <2> QED  BY <1>1, <2>1
<1>4. TypeOK'
  BY <1>0 DEF IInv, TypeOK
<1>5. BufIs'
  BY <1>0 DEF IInv, BufIs
<1>6. HeaderIs'
  BY <1>0, <1>1 DEF IInv, HeaderIs
<1>7. Needs'
  BY <1>0 DEF Needs
<1>8. Place'
  <2> SUFFICES ASSUME NoAddons(request)' PROVE Place'
    BY DEF Place
  <2> DEFINE t == request.target
  <2>1. NoAddons(request)
    BY <1>0 DEF NoAddons
  <2>2. /\ header[22] \in {V4, Name, V6}
        /\ stage \in {"ipv4", "ipv6"} => taken = 22 + Len(buf) /\ stage = AddrStage(header[22])
        /\ stage = "domain" => taken = 23 + Len(buf) /\ needed = wire[23] /\ header[22] = Name
    BY <1>1, <2>1 DEF IInv, Place
  <2>3. header[22] = t.kind
    <3>1. header \in Seq(Byte) /\ Len(header) = 22 /\ At(wire, 0, header)
      BY <1>1 DEF IInv, TypeOK, HeaderIs
    <3> QED  BY <1>2, <2>1, <3>1, FixedIs, Layout
  <2>4. /\ t.kind # Name => At(wire, 22, t.host) /\ Len(Encode(request)) = 22 + Len(t.host)
        /\ t.kind = Name => /\ wire[23] = Len(t.host) % 256 /\ At(wire, 23, t.host)
                            /\ Len(Encode(request)) = 23 + Len(t.host)
    BY <1>2, <2>1, <2>2, <2>3, HostAt
  <2>5. At(wire, taken - Len(buf), buf)
    BY DEF IInv, BufIs
  <2>6. t.host \in Seq(Byte) /\ t \in Target
    BY <1>2, FieldType, TargetType
  <2>7. buf = Claimed(t) /\ taken = Len(Encode(request)) - Beyond(t)
    <3>1. CASE t.kind = V4
      <4>1. stage = "ipv4"
        BY <1>1, <2>2, <2>3, <3>1, KindIs
      <4>2. Len(buf) = 4
        BY <1>3, <4>1 DEF IInv, Needs
      <4>3. Len(t.host) = 4
        BY <1>2, <3>1, VlessRequestAssumption
      <4>4. taken = 26 /\ taken - Len(buf) = 22
        BY <2>2, <4>1, <4>2
      <4>5. At(wire, 22, buf) /\ At(wire, 22, t.host) /\ Len(Encode(request)) = 26
        BY <2>4, <2>5, <3>1, <4>3, <4>4, KindIs
      <4>6. buf = t.host
        BY <1>2, <2>6, <4>2, <4>3, <4>5, SameAt
      <4>7. Claimed(t) = t.host /\ Beyond(t) = 0
        BY <2>6, <3>1, KindIs, ClaimedIs
      <4> QED  BY <4>4, <4>5, <4>6, <4>7
    <3>2. CASE t.kind = V6
      <4>1. stage = "ipv6"
        BY <1>1, <2>2, <2>3, <3>2, KindIs
      <4>2. Len(buf) = 16
        BY <1>3, <4>1 DEF IInv, Needs
      <4>3. Len(t.host) = 16
        BY <1>2, <3>2, VlessRequestAssumption
      <4>4. taken = 38 /\ taken - Len(buf) = 22
        BY <2>2, <4>1, <4>2
      <4>5. At(wire, 22, buf) /\ At(wire, 22, t.host) /\ Len(Encode(request)) = 38
        BY <2>4, <2>5, <3>2, <4>3, <4>4, KindIs
      <4>6. buf = t.host
        BY <1>2, <2>6, <4>2, <4>3, <4>5, SameAt
      <4>7. Claimed(t) = t.host /\ Beyond(t) = 0
        BY <2>6, <3>2, KindIs, ClaimedIs
      <4> QED  BY <4>4, <4>5, <4>6, <4>7
    <3>3. CASE t.kind = Name
      <4>1. stage = "domain"
        BY <1>1, <2>2, <2>3, <3>3, KindIs
      <4> DEFINE c == Claimed(t)
      <4>0. /\ c \in Seq(Byte) /\ Len(c) \in Nat /\ Len(c) <= Len(t.host) /\ Len(c) = Len(t.host) % 256
            /\ Beyond(t) = Len(t.host) - Len(c) /\ \A i \in 1 .. Len(c) : c[i] = t.host[i]
        BY <2>6, <3>3, ClaimedIs
      <4> HIDE DEF c
      <4>2. Len(buf) = Len(c) /\ Len(buf) \in Nat
        BY <1>2, <1>3, <2>2, <2>4, <3>3, <4>0, <4>1
      <4>3. taken = 23 + Len(buf) /\ taken - Len(buf) = 23
        BY <2>2, <4>1, <4>2
      <4>4. At(wire, 23, buf) /\ At(wire, 23, t.host) /\ Len(Encode(request)) = 23 + Len(t.host)
        BY <2>4, <2>5, <3>3, <4>3
      <4>5. At(wire, 23, c)
        <5> SUFFICES ASSUME NEW i \in 1 .. Len(c) PROVE wire[23 + i] = c[i]
          BY DEF At
        <5>1. i \in 1 .. Len(t.host)
          <6>1. Len(c) \in Nat /\ Len(t.host) \in Nat /\ Len(c) <= Len(t.host) /\ i \in 1 .. Len(c)
            BY <2>6, <4>0, TargetType
          <6> QED  BY ONLY <6>1
        <5> QED  BY <4>0, <4>4, <5>1 DEF At
      <4>6. buf = c
        BY <1>2, <4>0, <4>2, <4>4, <4>5, SameAt
      <4>7. Len(t.host) \in Nat
        BY <2>6, TargetType
      <4>8. taken = Len(Encode(request)) - (Len(t.host) - Len(c))
        <5>1. /\ Len(c) \in Nat /\ Len(t.host) \in Nat /\ Len(buf) = Len(c) /\ taken = 23 + Len(buf)
              /\ Len(Encode(request)) = 23 + Len(t.host)
          BY ONLY <4>0, <4>2, <4>3, <4>4, <4>7
        <5> DEFINE a == Len(t.host)
                   b == Len(c)
                   e == Len(Encode(request))
        <5>2. a \in Nat /\ b \in Nat /\ e = 23 + a /\ taken = 23 + b
          BY ONLY <5>1
        <5> HIDE DEF a, b, e
        <5>3. taken = e - (a - b)
          BY ONLY <5>2
        <5> QED  BY ONLY <5>3 DEF a, b, e
      <4> QED  BY <4>0, <4>6, <4>8 DEF c
    <3> QED  BY <2>2, <2>3, <3>1, <3>2, <3>3
  <2>8. target' = [kind |-> t.kind, host |-> Claimed(t)]
    BY <1>0, <2>3, <2>7
  <2>9. Encode(request)' = Encode(request)
    BY <1>0
  <2> QED  BY <1>0, <2>7, <2>8, <2>9 DEF Place, Verdicts
<1> QED  BY <1>4, <1>5, <1>6, <1>7, <1>8 DEF IInv

(* The steps that read nothing. *)
LEMMA OtherStep == ASSUME IInv, ReadEof \/ Respond \/ Check PROVE IInv'
<1>0. /\ request' = request /\ wire' = wire /\ taken' = taken /\ header' = header /\ target' = target
      /\ needed' = needed /\ buf' = buf /\ responded' \in BOOLEAN
  BY WireStays DEF IInv, TypeOK, ReadEof, Respond, Check, Finish
<1>1. \/ stage' = "eof"
      \/ stage = "respond" /\ stage' = "check"
      \/ stage = "check" /\ stage' \in {"denied", "unsupported", "dispatched"}
  BY DEF ReadEof, Respond, Check, Finish
<1>2. TypeOK'
  BY <1>0, <1>1 DEF IInv, TypeOK, Verdicts
<1>3. BufIs'
  BY <1>0 DEF IInv, BufIs
<1>4. HeaderIs'
  BY <1>0, <1>1 DEF IInv, HeaderIs
<1>5. Needs'
  BY <1>1 DEF Needs
<1>6. Place'
  <2> SUFFICES ASSUME NoAddons(request)' PROVE Place'
    BY DEF Place
  <2>1. NoAddons(request)
    BY <1>0 DEF NoAddons
  <2>2. CASE stage' = "eof"
    BY <2>2 DEF Place, Verdicts
  <2>3. CASE stage' # "eof"
    <3>1. /\ taken = Len(Encode(request)) - Beyond(request.target)
          /\ target = [kind |-> request.target.kind, host |-> Claimed(request.target)]
      BY <1>1, <2>1, <2>3 DEF IInv, Place
    <3>2. Encode(request)' = Encode(request)
      BY <1>0
    <3> QED  BY <1>0, <1>1, <2>3, <3>1, <3>2 DEF Place, Verdicts
  <2> QED  BY <2>2, <2>3
<1> QED  BY <1>2, <1>3, <1>4, <1>5, <1>6 DEF IInv

LEMMA Step == IInv /\ [Next]_vars => IInv'
<1> SUFFICES ASSUME IInv, [Next]_vars PROVE IInv'
  OBVIOUS
<1>1. CASE \E k \in 1 .. 255 : ReadBuf(k)
  BY <1>1, ReadBufStep
<1>2. CASE FixedRead
  BY <1>2, FixedReadStep
<1>3. CASE AddonsRead
  BY <1>3, AddonsReadStep
<1>4. CASE DomainLenRead
  BY <1>4, DomainLenReadStep
<1>5. CASE AddrRead
  BY <1>5, AddrReadStep
<1>6. CASE ReadEof \/ Respond \/ Check
  BY <1>6, OtherStep
<1>7. CASE UNCHANGED vars
  <2>1. wire' = wire
    BY <1>7, WireStays DEF vars
  <2> QED  BY <1>7, <2>1 DEF IInv, vars, TypeOK, BufIs, HeaderIs, Needs, Place, NoAddons, WellFormed
<1> QED  BY <1>1, <1>2, <1>3, <1>4, <1>5, <1>6, <1>7 DEF Next, Accept

(* IInv holds in every state. *)
THEOREM Inductive == Spec => []IInv
<1> QED  BY Start, Step, PTL DEF Spec

-----------------------------------------------------------------------------
(* The state of accept has its type: read_buf_exact never holds more than   *)
(* needed_len, and never reads past what the client has written.            *)
THEOREM TypeCorrect == Spec => []TypeOK
<1>1. IInv => TypeOK
  BY DEF IInv
<1> QED  BY <1>1, Inductive, PTL
LEMMA IdPart ==
  ASSUME NEW b \in Seq(Byte), Len(b) = 22
  PROVE  /\ IdOf(b) \in Seq(Byte) /\ Len(IdOf(b)) = 16
         /\ \A i \in 1 .. 16 : IdOf(b)[i] = b[1 + i]
<1>1. /\ SubSeq(b, 2, 17) \in Seq(Byte) /\ Len(SubSeq(b, 2, 17)) = 16
      /\ \A i \in 1 .. 16 : SubSeq(b, 2, 17)[i] = b[1 + i]
  <2> DEFINE m == 1
             n == 16
  <2>1. m \in Nat /\ n \in Nat /\ m + n <= Len(b) /\ m + 1 = 2 /\ m + n = 17 /\ m = 1 /\ n = 16
    OBVIOUS
  <2> HIDE DEF m, n
  <2>2. SubSeq(b, m + 1, m + n) \in Seq(Byte)
    BY <2>1, Part
  <2>3. Len(SubSeq(b, m + 1, m + n)) = n
    BY <2>1, Part
  <2>4. \A i \in 1 .. n : SubSeq(b, m + 1, m + n)[i] = b[m + i]
    BY <2>1, Part
  <2> QED  BY SMTT(60), <2>1, <2>2, <2>3, <2>4
<1> QED  BY <1>1 DEF IdOf

(* Once the address is read, every field of the header is understood. *)
LEMMA Heard ==
  ASSUME IInv, NoAddons(request), Decoded
  PROVE  /\ PortOf(header) = request.port /\ CommandOf(header) = request.command
         /\ IdOf(header) = request.id
<1> DEFINE b == header
<1>1. request \in Requests /\ b \in Seq(Byte) /\ Len(b) = 22 /\ At(wire, 0, b)
  BY DEF IInv, TypeOK, HeaderIs, Decoded
<1>2. /\ b[19] = wire[19] /\ b[20] = wire[20] /\ b[21] = wire[21] /\ \A i \in 1 .. 22 : b[i] = wire[i]
  BY <1>1, FixedIs
<1>3. /\ b[19] = request.command /\ b[20] = request.port \div 256 /\ b[21] = request.port % 256
      /\ At(wire, 1, request.id)
  BY <1>1, <1>2, Layout
<1>5. PortOf(b) = request.port
  <2>1. ((request.port \div 256) * 256) + (request.port % 256) = request.port
    BY <1>1, FieldType, TwoBytes
  <2> QED  BY <1>3, <2>1 DEF PortOf
<1>6. IdOf(b) = request.id
  <2> DEFINE s == IdOf(b)
             id == request.id
  <2>1. s \in Seq(Byte) /\ Len(s) = 16 /\ \A i \in 1 .. 16 : s[i] = b[1 + i]
    BY <1>1, IdPart
  <2>2. id \in Seq(Byte) /\ Len(id) = 16
    BY <1>1, FieldType, FieldSize
  <2> HIDE DEF s, id
  <2>3. ASSUME NEW i \in 1 .. 16 PROVE s[i] = id[i]
    <3>1. wire[1 + i] = id[i]
      BY <1>3, <2>2 DEF At, id
    <3>2. b[1 + i] = wire[1 + i]
      BY <1>2
    <3> QED  BY <2>1, <3>1, <3>2
  <2>4. s = id
    BY <2>1, <2>2, <2>3, SameSeq
  <2> QED  BY <2>4 DEF s, id
<1> QED  BY <1>3, <1>5, <1>6 DEF CommandOf

(* What has been taken, and the target that was decoded from it. *)
LEMMA TargetTaken ==
  ASSUME IInv, NoAddons(request), Decoded
  PROVE  LET t == request.target IN
         taken = Len(Encode(request)) - Beyond(t) /\ target = [kind |-> t.kind, host |-> Claimed(t)]
BY DEF IInv, Place, Verdicts, Decoded

(* However the stream is cut, accept decodes the request connect was asked  *)
(* for, target, port, command and id, and refuses no well-formed one; of a  *)
(* name longer than 255 bytes it takes the part that the length byte counts,*)
(* and that byte spoils no other field (VlessStream::connect,               *)
(* VlessProtocol::accept).                                                  *)
THEOREM Decodes == Spec => []RoundTrip
<1>1. ASSUME IInv, NoAddons(request), WellFormed(request) PROVE stage # "failed"
  BY <1>1 DEF IInv, Place
<1>2. ASSUME IInv, NoAddons(request), Decoded
      PROVE  Understood([kind |-> request.target.kind, host |-> Claimed(request.target)])
  BY <1>2, Heard, TargetTaken DEF Understood
<1>3. IInv => RoundTrip
  BY <1>1, <1>2 DEF RoundTrip
<1> QED  BY <1>3, Inductive, PTL

(* The tail of a concatenation: w ends with h, from its m-th byte on, and p. *)
EndsIn(w, m, h, p) ==
  /\ h \in Seq(Byte) /\ p \in Seq(Byte) /\ w \in Seq(Byte) /\ m \in Nat
  /\ At(w, m, h) /\ At(w, m + Len(h), p) /\ Len(w) = m + Len(h) + Len(p)
TailIs(w, k, h, q, p) == SubSeq(w, k, Len(w)) = SubSeq(h, q, Len(h)) \o p

LEMMA Tail2 ==
  ASSUME NEW w, NEW h, NEW p, NEW m, EndsIn(w, m, h, p), NEW q \in 1 .. Len(h) + 1
  PROVE  TailIs(w, m + q, h, q, p)
<1>0. /\ h \in Seq(Byte) /\ p \in Seq(Byte) /\ w \in Seq(Byte) /\ m \in Nat
      /\ At(w, m, h) /\ At(w, m + Len(h), p) /\ Len(w) = m + Len(h) + Len(p)
  BY DEF EndsIn
<1> DEFINE n == q - 1
<1> DEFINE a == Len(h)
           b == Len(p)
           d == a - n
           x == SubSeq(w, (m + n) + 1, (m + n) + (d + b))
           y == SubSeq(h, n + 1, n + d)
<1>1. n \in Nat /\ n + 1 = q /\ (m + n) + 1 = m + q /\ a \in Nat /\ b \in Nat /\ d \in Nat
      /\ n + d = a /\ (m + n) + (d + b) = Len(w) /\ m + n \in Nat /\ d + b \in Nat /\ m \in Nat
  BY <1>0, SeqLen
<1>2. x \in Seq(Byte) /\ Len(x) = d + b /\ \A i \in 1 .. d + b : x[i] = w[(m + n) + i]
  <2> HIDE DEF a, b, d, n
  <2> QED  BY <1>0, <1>1, Part
<1>3. y \in Seq(Byte) /\ Len(y) = d /\ \A i \in 1 .. d : y[i] = h[n + i]
  <2>1. n + d <= Len(h)
    BY <1>1
  <2> HIDE DEF a, b, d, n
  <2> QED  BY <1>0, <1>1, <2>1, Part
<1>4. x = SubSeq(w, m + q, Len(w)) /\ y = SubSeq(h, q, Len(h))
  BY <1>1
<1> HIDE DEF x, y
<1> DEFINE z == y \o p
<1>5. /\ z \in Seq(Byte) /\ Len(z) = Len(y) + Len(p)
      /\ \A i \in 1 .. Len(y) : z[i] = y[i]
      /\ \A i \in 1 .. Len(p) : z[Len(y) + i] = p[i]
  <2>1. y \in Seq(Byte) /\ p \in Seq(Byte)
    BY <1>0, <1>3
  <2> QED  BY ONLY <2>1, Concat
<1> HIDE DEF z
<1>6. /\ z \in Seq(Byte) /\ Len(z) = d + b
      /\ \A i \in 1 .. d : z[i] = y[i]
      /\ \A i \in 1 .. b : z[d + i] = p[i]
  <2>1. Len(y) = d /\ Len(p) = b
    BY <1>3
  <2> HIDE DEF b, d
  <2> QED  BY ONLY <1>5, <2>1
<1>7. (\A i \in 1 .. a : w[m + i] = h[i]) /\ (\A i \in 1 .. b : w[m + a + i] = p[i])
  BY <1>0 DEF At
<1> HIDE DEF n
<1>8. ASSUME NEW i \in 1 .. d + b PROVE x[i] = z[i]
  <2> HIDE DEF a, b, d
  <2>1. x[i] = w[(m + n) + i]
    BY <1>2
  <2>2. CASE i <= d
    <3>1. i \in 1 .. d /\ n + i \in 1 .. a /\ (m + n) + i = m + (n + i)
      BY <1>1, <2>2
    <3>2. w[m + (n + i)] = h[n + i] /\ h[n + i] = y[i] /\ y[i] = z[i]
      BY <1>3, <1>6, <1>7, <3>1
    <3> QED  BY <2>1, <3>1, <3>2
  <2>3. CASE ~(i <= d)
    <3>1. i - d \in 1 .. b /\ (m + n) + i = m + a + (i - d) /\ d + (i - d) = i
      BY <1>1, <2>3
    <3>2. w[m + a + (i - d)] = p[i - d] /\ z[d + (i - d)] = p[i - d]
      BY <1>6, <1>7, <3>1
    <3> QED  BY <2>1, <3>1, <3>2
  <2> QED  BY <2>2, <2>3
<1>9. x = z
  <2> HIDE DEF a, b, d
  <2> QED  BY <1>2, <1>6, <1>8, SameSeq
<1> QED  BY <1>4, <1>9 DEF z, TailIs

(* accept takes the request from the stream and not one byte more or less,  *)
(* so the payload that follows is the tunnel's, whatever it is; before it   *)
(* the tunnel has what was cut off a name of more than 255 bytes, and no    *)
(* byte beyond the request is waited for.                                   *)
THEOREM Exact == Spec => []PayloadIntact
<1>1. ASSUME IInv, NoAddons(request), WellFormed(request), Decoded
      PROVE  SubSeq(wire, taken + 1, Len(wire))
               = SubSeq(request.target.host, Len(Claimed(request.target)) + 1, Len(request.target.host)) \o Payload
  <2> DEFINE t == request.target
             h == t.host
             n == Len(Claimed(t))
             e == Encode(request)
             m == Len(e) - Len(h)
  <2>1. /\ request \in Requests /\ t \in Target /\ h \in Seq(Byte) /\ Len(h) \in Nat
        /\ wire \in Seq(Byte) /\ e \in Seq(Byte) /\ Len(e) \in Nat /\ At(wire, 0, e)
    BY <1>1, FieldType, TargetType, WireIs DEF IInv, TypeOK
  <2>2. Payload \in Seq(Byte) /\ Len(Payload) \in Nat
    BY VlessRequestAssumption, SeqLen
  <2>3. m \in Nat /\ At(wire, m, h)
    <3>1. t.kind \in {V4, Name, V6}
      BY <1>1 DEF WellFormed
    <3>2. /\ t.kind # Name => At(wire, 22, h) /\ Len(e) = 22 + Len(h)
          /\ t.kind = Name => At(wire, 23, h) /\ Len(e) = 23 + Len(h)
      BY <1>1, <2>1, <3>1, HostAt
    <3> HIDE DEF t, h, e
    <3> QED  BY <2>1, <3>2
  <2>4. Len(wire) = Len(e) + Len(Payload) /\ At(wire, Len(e), Payload)
    <3>1. wire = e \o Payload
      BY DEF wire
    <3> HIDE DEF e
    <3> QED  BY <2>1, <2>2, <3>1, Glue
  <2>5. /\ n \in Nat /\ n <= Len(h) /\ taken = Len(e) - (Len(h) - n)
    <3>1. taken = Len(e) - Beyond(t) /\ Beyond(t) = Len(h) - n /\ n \in Nat /\ n <= Len(h)
      BY <1>1, <2>1, ClaimedIs, TargetTaken
    <3> QED  BY <3>1
  <2> HIDE DEF t, h, n, e
  <2>6. m + Len(h) = Len(e) /\ m + n = taken
    BY <2>1, <2>5
  <2> HIDE DEF m
  <2>7. SubSeq(wire, taken + 1, Len(wire)) = SubSeq(h, n + 1, Len(h)) \o Payload
    <3>1. EndsIn(wire, m, h, Payload)
      BY <2>1, <2>2, <2>3, <2>4, <2>6 DEF EndsIn
    <3>2. n + 1 \in 1 .. Len(h) + 1 /\ m + (n + 1) = taken + 1
      <4>1. n \in Nat /\ m \in Nat /\ Len(h) \in Nat /\ n <= Len(h) /\ m + n = taken
        BY <2>1, <2>3, <2>5, <2>6
      <4> QED  BY ONLY <4>1
    <3>3. TailIs(wire, m + (n + 1), h, n + 1, Payload)
      BY ONLY <3>1, <3>2, Tail2
    <3> QED  BY <3>2, <3>3 DEF TailIs
  <2> QED  BY <2>7 DEF h, n, t
<1>2. ASSUME IInv, NoAddons(request), WellFormed(request), stage \in Reading, Len(buf) < needed
      PROVE  taken < Len(Encode(request))
  <2>0. NoAddons(request)
    BY <1>2
  <2>1. /\ request \in Requests /\ taken \in Nat /\ Len(buf) \in Nat /\ needed \in Nat
        /\ Len(Encode(request)) \in Nat /\ Len(Encode(request)) >= 22
    BY <1>2, SeqLen, ByteIs, WireIs DEF IInv, TypeOK
  <2>2. CASE stage = "fixed"
    <3>1. taken = Len(buf) /\ needed = 22
      BY <1>2, <2>2 DEF IInv, Needs
    <3> QED  BY <1>2, <2>1, <3>1
  <2>3. CASE stage # "fixed"
    <3> DEFINE t == request.target
    <3>1. stage \in {"ipv4", "domain_len", "domain", "ipv6"}
      BY <1>2, <2>0, <2>3 DEF IInv, Place, Reading
    <3>2. /\ header[22] \in {V4, Name, V6}
          /\ stage # "domain" => taken = 22 + Len(buf) /\ stage = AddrStage(header[22])
          /\ stage = "domain" => taken = 23 + Len(buf) /\ needed = wire[23] /\ header[22] = Name
      BY <1>2, <2>0, <3>1 DEF IInv, Place
    <3>3. header[22] = t.kind
      <4>1. header \in Seq(Byte) /\ At(wire, 0, header)
        BY <1>2 DEF IInv, TypeOK, HeaderIs
      <4>2. Len(header) = 22
        BY <1>2, <3>1 DEF IInv, HeaderIs
      <4> QED  BY <2>0, <2>1, <4>1, <4>2, FixedIs, Layout
    <3>4. /\ t.kind # Name => Len(Encode(request)) = 22 + Len(t.host)
          /\ t.kind = Name => wire[23] = Len(t.host) % 256 /\ Len(Encode(request)) = 23 + Len(t.host)
      BY <2>0, <2>1, <3>2, <3>3, HostAt
    <3>5. /\ Len(t.host) \in Nat /\ Len(t.host) % 256 \in Nat /\ Len(t.host) % 256 <= Len(t.host)
          /\ (t.kind = V4 => Len(t.host) = 4) /\ (t.kind = V6 => Len(t.host) = 16)
      <4>1. Len(t.host) \in Nat
        BY <2>1, FieldType, TargetType
      <4>2. \A r \in Requests : /\ r.target.kind = V4 => Len(r.target.host) = 4
                                /\ r.target.kind = V6 => Len(r.target.host) = 16
        BY VlessRequestAssumption
      <4>3. (t.kind = V4 => Len(t.host) = 4) /\ (t.kind = V6 => Len(t.host) = 16)
        BY <2>1, <4>2
      <4> HIDE DEF t
      <4> QED  BY ONLY <4>1, <4>3, ModIs
    <3>6. CASE stage = "ipv4"
      <4>1. t.kind = V4 /\ needed = 4
        BY <1>2, <3>2, <3>3, <3>6, KindIs DEF IInv, Needs
      <4>2. Len(Encode(request)) = 26 /\ taken = 22 + Len(buf)
        <5>1. Len(Encode(request)) = 22 + Len(t.host)
          BY <3>4, <4>1, KindIs
        <5>2. Len(t.host) = 4
          BY <3>5, <4>1
        <5>3. taken = 22 + Len(buf)
          BY <3>2, <3>6
        <5> QED  BY <5>1, <5>2, <5>3
      <4> QED  BY <1>2, <2>1, <4>1, <4>2
    <3>7. CASE stage = "ipv6"
      <4>1. t.kind = V6 /\ needed = 16
        BY <1>2, <3>2, <3>3, <3>7, KindIs DEF IInv, Needs
      <4>2. Len(Encode(request)) = 38 /\ taken = 22 + Len(buf)
        <5>1. Len(Encode(request)) = 22 + Len(t.host)
          BY <3>4, <4>1, KindIs
        <5>2. Len(t.host) = 16
          BY <3>5, <4>1
        <5>3. taken = 22 + Len(buf)
          BY <3>2, <3>7
        <5> QED  BY <5>1, <5>2, <5>3
      <4> QED  BY <1>2, <2>1, <4>1, <4>2
    <3>8. CASE stage = "domain_len"
      <4>1. t.kind = Name /\ needed = 1
        BY <1>2, <3>2, <3>3, <3>8, KindIs DEF IInv, Needs
      <4>2. Len(Encode(request)) = 23 + Len(t.host) /\ taken = 22 + Len(buf)
        BY <3>2, <3>4, <3>8, <4>1
      <4> QED  BY <1>2, <2>1, <3>5, <4>1, <4>2
    <3>9. CASE stage = "domain"
      <4> DEFINE c == Len(t.host) % 256
                 a == Len(t.host)
      <4>1. needed = c /\ taken = 23 + Len(buf) /\ Len(Encode(request)) = 23 + a
        BY <3>2, <3>3, <3>4, <3>9
      <4>2. c \in Nat /\ a \in Nat /\ c <= a
        BY <3>5
      <4> HIDE DEF c, a
      <4> QED  BY <1>2, <2>1, <4>1, <4>2
    <3> QED  BY <3>1, <3>6, <3>7, <3>8, <3>9
  <2> QED  BY <2>2, <2>3
<1>3. IInv => PayloadIntact
  BY <1>1, <1>2 DEF PayloadIntact
<1> QED  BY <1>3, Inductive, PTL

-----------------------------------------------------------------------------
(* Progress. *)

LEMMA RankIs ==
  ASSUME IInv
  PROVE  StageRank \in 0 .. 6 /\ taken \in Nat /\ Len(wire) \in Nat /\ taken <= Len(wire) /\ Effort \in Nat
<1>1. taken \in Nat /\ taken <= Len(wire)
  BY DEF IInv, TypeOK
<1>2. Len(wire) \in Nat
  BY WireIs, SeqLen DEF IInv, TypeOK
<1>3. StageRank \in 0 .. 6
  BY DEF IInv, TypeOK, StageRank, Reading, Verdicts
<1> QED  BY <1>1, <1>2, <1>3 DEF Effort

(* A step to a later stage. *)
LEMMA LaterStage ==
  ASSUME IInv, IInv', request' = request, taken' = taken, StageRank' < StageRank
  PROVE  Effort' < Effort
<1> DEFINE a == Len(wire) - taken
           s == StageRank
           t == StageRank'
<1>1. a \in Nat /\ s \in 0 .. 6 /\ Effort = a + s
  BY RankIs DEF Effort
<1>2. t \in 0 .. 6
  <2>1. (StageRank \in 0 .. 6)'
    BY RankIs, PTL
  <2> QED  BY <2>1
<1>3. Effort' = a + t
  BY WireStays DEF Effort
<1>4. t < s
  OBVIOUS
<1> HIDE DEF a, s, t
<1> QED  BY ONLY <1>1, <1>2, <1>3, <1>4

(* A step that reads. *)
LEMMA ReadCounts ==
  ASSUME IInv, NEW k \in 1 .. 255, ReadBuf(k)
  PROVE  Effort' < Effort
<1> DEFINE a == Len(wire)
           s == StageRank
<1>1. a \in Nat /\ s \in 0 .. 6 /\ taken \in Nat /\ Effort = (a - taken) + s
  BY RankIs DEF Effort
<1>2. request' = request /\ taken' = taken + k /\ stage' = stage
  BY DEF ReadBuf
<1>3. StageRank' = s
  BY <1>2 DEF StageRank
<1>4. wire' = wire
  BY <1>2, WireStays
<1>5. Effort' = (a - (taken + k)) + s
  BY <1>2, <1>3, <1>4 DEF Effort
<1> HIDE DEF a, s
<1> QED  BY ONLY <1>1, <1>5

LEMMA RankOf ==
  /\ stage' = "failed" => StageRank' = 0
  /\ stage' = "addons" => StageRank' = 5
  /\ stage' \in {"ipv4", "domain_len", "ipv6"} => StageRank' = 4
  /\ stage = "fixed" => StageRank = 6
  /\ stage = "addons" => StageRank = 5
<1>1. stage' = "failed" => StageRank' = 0
  BY DEF StageRank
<1>2. stage' = "addons" => StageRank' = 5
  BY DEF StageRank
<1>3. stage' \in {"ipv4", "domain_len", "ipv6"} => StageRank' = 4
  BY DEF StageRank
<1>4. (stage = "fixed" => StageRank = 6) /\ (stage = "addons" => StageRank = 5)
  BY DEF StageRank
<1> QED  BY <1>1, <1>2, <1>3, <1>4

LEMMA FieldsLead ==
  ASSUME NEW h, TakeFields(h)
  PROVE  stage' \in {"failed", "ipv4", "domain_len", "ipv6"}
<1>1. CASE h[22] \in {V4, Name, V6} /\ stage' = AddrStage(h[22])
  <2> DEFINE k == h[22]
  <2>1. k \in {V4, Name, V6} /\ stage' = AddrStage(k)
    BY <1>1
  <2> HIDE DEF k
  <2> QED  BY <2>1, KindIs
<1>2. CASE stage' = "failed"
  BY <1>2
<1> QED  BY <1>1, <1>2 DEF TakeFields, Await, Finish

LEMMA StepCounts ==
  ASSUME IInv, IInv', Next
  PROVE  Effort' < Effort
<1>1. CASE \E k \in 1 .. 255 : ReadBuf(k)
  BY <1>1, ReadCounts
<1>2. ASSUME FixedRead \/ AddonsRead \/ DomainLenRead \/ AddrRead \/ ReadEof \/ Respond \/ Check
      PROVE  request' = request /\ taken' = taken /\ StageRank' < StageRank
  <2>1. request' = request /\ taken' = taken
    BY <1>2 DEF FixedRead, AddonsRead, DomainLenRead, AddrRead, ReadEof, Respond, Check
  <2>2. CASE FixedRead
    <3>1. stage' = "failed" \/ stage' = "addons" \/ TakeFields(buf)
      BY <2>2 DEF FixedRead, Await, Finish
    <3>2. stage' \in {"failed", "addons", "ipv4", "domain_len", "ipv6"}
      BY <3>1, FieldsLead
    <3>3. stage = "fixed"
      BY <2>2 DEF FixedRead, Complete
    <3> QED  BY <2>1, <3>2, <3>3, RankOf
  <2>3. CASE AddonsRead
    <3>1. stage = "addons" /\ TakeFields(header)
      BY <2>3 DEF AddonsRead, Complete
    <3>2. stage' \in {"failed", "ipv4", "domain_len", "ipv6"}
      BY <3>1, FieldsLead
    <3> QED  BY <2>1, <3>1, <3>2, RankOf
  <2>4. CASE DomainLenRead
    <3>1. stage = "domain_len" /\ stage' = "domain"
      BY <2>4 DEF DomainLenRead, Complete, Await
    <3> QED  BY <2>1, <3>1 DEF StageRank
  <2>5. CASE AddrRead
    <3>1. stage \in {"ipv4", "domain", "ipv6"} /\ stage' = "respond"
      BY <2>5 DEF AddrRead, Complete, Finish
    <3> QED  BY <2>1, <3>1 DEF StageRank
  <2>6. CASE ReadEof
    <3>1. stage \in Reading /\ stage' = "eof"
      BY <2>6 DEF ReadEof
    <3> QED  BY <2>1, <3>1 DEF StageRank, Reading, Verdicts
  <2>7. CASE Respond
    <3>1. stage = "respond" /\ stage' \in {"check", "eof"}
      BY <2>7 DEF Respond, Finish
    <3> QED  BY <2>1, <3>1 DEF StageRank
  <2>8. CASE Check
    <3>1. stage = "check" /\ stage' \in {"denied", "unsupported", "dispatched"}
      BY <2>8 DEF Check, Finish
    <3> QED  BY <2>1, <3>1 DEF StageRank
  <2> QED  BY <1>2, <2>2, <2>3, <2>4, <2>5, <2>6, <2>7, <2>8
<1> QED  BY <1>1, <1>2, LaterStage DEF Next, Accept

(* accept and the handler go through their stages once, with any client:    *)
(* a request is decided within as many steps as it has bytes and six.       *)
THEOREM RequestProgress == Spec => EveryStepAdvances
<1>1. ASSUME IInv, IInv', [Next]_vars, vars' # vars PROVE Effort' < Effort /\ Effort' \in Nat
  <2>1. (Effort \in Nat)'
    BY <1>1, RankIs, PTL
  <2> QED  BY <1>1, <2>1, StepCounts
<1>2. IInv /\ IInv' /\ [Next]_vars => [Effort' < Effort /\ Effort' \in Nat]_vars
  BY <1>1
<1> QED  BY <1>2, Inductive, PTL DEF Spec, EveryStepAdvances
=============================================================================
