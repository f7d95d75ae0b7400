--------------------------- MODULE TargetAddrProofs ---------------------------
(***************************************************************************)
(* What TargetAddr's run checks for a few texts, proved for any texts and   *)
(* addresses of which TargetAddrAssumption holds, and any chain of proxies. *)
(***************************************************************************)
EXTENDS TargetAddr, SequenceTheorems, WellFoundedInduction, TLAPS

-----------------------------------------------------------------------------
(* The least and the greatest of a set of numbers. *)

LEMMA NatMin ==
  ASSUME NEW S, S \subseteq Nat, S # {}
  PROVE  \E x \in S : \A y \in S : x <= y
<1> DEFINE R == OpToRel(<, Nat)
<1>1. IsWellFoundedOn(R, Nat)
  BY NatLessThanWellFounded
<1>2. \A x, y \in Nat : y < x => <<y, x>> \in R
  BY DEF OpToRel
<1> HIDE DEF R
<1>3. PICK x \in S : \A y \in S : ~(<<y, x>> \in R)
  BY <1>1, WFMin
<1>4. ASSUME NEW y \in S PROVE x <= y
  <2>1. x \in Nat /\ y \in Nat /\ ~(<<y, x>> \in R)
    BY <1>3
  <2>2. ~(y < x)
    BY <1>2, <2>1
  <2> QED  BY <2>1, <2>2
<1> QED  BY <1>4

LEMMA MaxIs ==
  ASSUME NEW n \in Nat, NEW S, S \subseteq 1 .. n, S # {}
  PROVE  Max(S) \in S /\ \A y \in S : y <= Max(S)
<1> DEFINE D == {n - y : y \in S}
<1>1. D \subseteq Nat /\ D # {}
  <2>1. ASSUME NEW y \in S PROVE n - y \in Nat
    <3>1. y \in 1 .. n
      OBVIOUS
    <3> QED  BY <3>1
  <2> QED  BY <2>1
<1>2. PICK d \in D : \A e \in D : d <= e
  <2> HIDE DEF D
  <2> QED  BY <1>1, NatMin
<1>3. PICK x \in S : d = n - x
  BY <1>2
<1>4. ASSUME NEW y \in S PROVE x >= y
  <2>1. x \in Nat /\ y \in Nat /\ x <= n /\ y <= n
    OBVIOUS
  <2>2. n - y \in D
    OBVIOUS
  <2>3. n - x <= n - y
    BY <1>2, <1>3, <2>2
  <2> QED  BY <2>1, <2>3
<1>5. Max(S) \in S /\ \A y \in S : Max(S) >= y
  BY <1>4 DEF Max
<1>6. ASSUME NEW y \in S PROVE y <= Max(S)
  <2>1. Max(S) \in 1 .. n /\ y \in 1 .. n /\ Max(S) >= y
    BY <1>5
  <2> QED  BY <2>1
<1> QED  BY <1>5, <1>6

LEMMA MinIs ==
  ASSUME NEW S, S \subseteq Nat, NEW m \in S, \A y \in S : m <= y
  PROVE  Min(S) = m
<1>1. Min(S) \in S /\ \A y \in S : Min(S) <= y
  BY DEF Min
<1>2. Min(S) \in Nat /\ m \in Nat /\ Min(S) <= m /\ m <= Min(S)
  BY <1>1
<1> QED  BY <1>2

-----------------------------------------------------------------------------
(* A text with a port: its places, and that it is one in one way only. *)

Token == STRING \cup {":", "[", "]"}

LEMMA EndsWith ==
  ASSUME NEW S, NEW h \in Seq(S), NEW a \in S, NEW b \in S
  PROVE  /\ h \o <<a, b>> \in Seq(S) /\ Len(h) \in Nat /\ Len(h \o <<a, b>>) = Len(h) + 2
         /\ \A i \in 1 .. Len(h) : (h \o <<a, b>>)[i] = h[i]
         /\ (h \o <<a, b>>)[Len(h) + 1] = a /\ (h \o <<a, b>>)[Len(h) + 2] = b
OBVIOUS

LEMMA Between ==
  ASSUME NEW S, NEW h \in Seq(S), NEW a \in S, NEW b \in S
  PROVE  /\ <<a>> \o h \o <<b>> \in Seq(S) /\ Len(h) \in Nat /\ Len(<<a>> \o h \o <<b>>) = Len(h) + 2
         /\ (<<a>> \o h \o <<b>>)[1] = a
         /\ \A i \in 1 .. Len(h) : (<<a>> \o h \o <<b>>)[i + 1] = h[i]
OBVIOUS

LEMMA PortPlaces ==
  ASSUME NEW h \in Seq(Token), NEW p \in Token
  PROVE  /\ WithPort(h, p) \in Seq(Token) /\ Len(h) \in Nat /\ Len(WithPort(h, p)) = Len(h) + 2
         /\ \A i \in 1 .. Len(h) : WithPort(h, p)[i] = h[i]
         /\ WithPort(h, p)[Len(h) + 1] = ":" /\ WithPort(h, p)[Len(h) + 2] = p
<1>1. ":" \in Token
  BY DEF Token
<1> QED  BY <1>1, EndsWith DEF WithPort

LEMMA SameText ==
  ASSUME NEW s \in Seq(Token), NEW t \in Seq(Token), Len(s) = Len(t), \A i \in 1 .. Len(s) : s[i] = t[i]
  PROVE  s = t
OBVIOUS

LEMMA PortUnique ==
  ASSUME NEW h \in Seq(Token), NEW g \in Seq(Token), NEW p \in Token, NEW q \in Token,
         WithPort(h, p) = WithPort(g, q)
  PROVE  h = g /\ p = q
<1>1. Len(h) \in Nat /\ Len(g) \in Nat /\ Len(h) + 2 = Len(g) + 2
  BY SMTT(60), PortPlaces
<1>2. Len(h) = Len(g)
  BY <1>1
<1>3. WithPort(h, p)[Len(h) + 2] = p /\ WithPort(g, q)[Len(g) + 2] = q
  BY PortPlaces
<1>4. ASSUME NEW i \in 1 .. Len(h) PROVE h[i] = g[i]
  <2>1. WithPort(h, p)[i] = h[i]
    BY PortPlaces
  <2>2. WithPort(g, q)[i] = g[i]
    BY SMTT(60), <1>2, PortPlaces
  <2> QED  BY <2>1, <2>2
<1> QED  BY <1>2, <1>3, <1>4, SameText

LEMMA Bracketed ==
  ASSUME NEW h \in Seq(Token)
  PROVE  /\ <<"[">> \o h \o <<"]">> \in Seq(Token) /\ Len(h) \in Nat
         /\ Len(<<"[">> \o h \o <<"]">>) = Len(h) + 2 /\ (<<"[">> \o h \o <<"]">>)[1] = "["
         /\ \A i \in 1 .. Len(h) : (<<"[">> \o h \o <<"]">>)[i + 1] = h[i]
<1>1. "[" \in Token /\ "]" \in Token
  BY DEF Token
<1> QED  BY <1>1, Between

LEMMA Tokens ==
  /\ \A p \in DOMAIN Number : p \in Token /\ p # ":" /\ Number[p] \in Nat
  /\ \A h \in Addresses \cup Names : h \in Seq(Token)
  /\ \A h \in Addresses : Host(h) \in Seq(Token)
  /\ \A p \in InRange : p \in Token /\ p # ":" /\ p \in DOMAIN Number /\ Printed(Number[p])
<1>1. \A h \in Addresses \cup Names : h \in Seq(Token)
  <2>1. <<Quad>> \in Seq(Token)
    <3>1. Quad \in Token
      BY TargetAddrAssumption DEF Token
    <3> QED  BY <3>1
  <2>2. ASSUME NEW h \in V6 \cup Names PROVE h \in Seq(Token)
    <3>1. h \in Seq(STRING) /\ STRING \subseteq Token
      BY TargetAddrAssumption DEF Token
    <3> QED  BY <3>1, SeqMonotonic
  <2> QED  BY <2>1, <2>2 DEF Addresses, Quads
<1>2. \A h \in Seq(Token) : <<"[">> \o h \o <<"]">> \in Seq(Token)
  BY Bracketed
<1>3. \A h \in Addresses : Host(h) \in Seq(Token)
  BY <1>1, <1>2 DEF Host
<1>4. \A p \in DOMAIN Number : p \in Token /\ p # ":" /\ Number[p] \in Nat
  BY TargetAddrAssumption DEF Token
<1> QED  BY <1>1, <1>3, <1>4, TargetAddrAssumption DEF InRange

LEMMA HostUnique ==
  ASSUME NEW a \in Addresses, NEW b \in Addresses, Host(a) = Host(b)
  PROVE  a = b
<1>1. a \in Seq(Token) /\ b \in Seq(Token)
  BY Tokens
<1>2. /\ Len(a) \in Nat /\ Len(b) \in Nat
      /\ Len(<<"[">> \o a \o <<"]">>) = Len(a) + 2 /\ Len(<<"[">> \o b \o <<"]">>) = Len(b) + 2
      /\ \A i \in 1 .. Len(a) : (<<"[">> \o a \o <<"]">>)[i + 1] = a[i]
      /\ \A i \in 1 .. Len(b) : (<<"[">> \o b \o <<"]">>)[i + 1] = b[i]
  BY <1>1, Bracketed
<1>3. CASE a \in V6 /\ b \in V6
  <2>1. Host(a) = <<"[">> \o a \o <<"]">> /\ Host(b) = <<"[">> \o b \o <<"]">>
    BY <1>3 DEF Host
  <2>2. Len(a) \in Nat /\ Len(b) \in Nat /\ Len(a) + 2 = Len(b) + 2
    BY <1>1, <1>2, <2>1
  <2>3. Len(a) = Len(b)
    BY <2>2
  <2>4. ASSUME NEW i \in 1 .. Len(a) PROVE a[i] = b[i]
    <3>1. (<<"[">> \o a \o <<"]">>)[i + 1] = a[i] /\ (<<"[">> \o b \o <<"]">>)[i + 1] = b[i]
      BY <1>2, <2>3
    <3> QED  BY <2>1, <3>1
  <2> QED  BY <1>1, <2>3, <2>4, SameText
<1>4. \A h \in Addresses : h \notin V6 => Host(h)[1] = Quad /\ h = <<Quad>> /\ Quad # "["
  BY TargetAddrAssumption DEF Addresses, Quads, Host
<1>5. \A h \in Addresses : h \in V6 => Host(h)[1] = "["
  BY Bracketed, Tokens DEF Host
<1> QED  BY <1>3, <1>4, <1>5

-----------------------------------------------------------------------------
(* The split at the last colon undoes WithPort, and nothing else splits.   *)

LEMMA RFindIs ==
  ASSUME NEW s \in Seq(Token), RFind(s) # 0
  PROVE  /\ RFind(s) \in 1 .. Len(s) /\ s[RFind(s)] = ":"
         /\ \A j \in 1 .. Len(s) : s[j] = ":" => j <= RFind(s)
<1> DEFINE colons == {i \in DOMAIN s : s[i] = ":"}
<1>1. colons # {} /\ RFind(s) = Max(colons)
  BY DEF RFind
<1>2. DOMAIN s = 1 .. Len(s) /\ Len(s) \in Nat
  OBVIOUS
<1>3. colons \subseteq 1 .. Len(s)
  BY <1>2
<1>4. Max(colons) \in colons /\ \A y \in colons : y <= Max(colons)
  <2> HIDE DEF colons
  <2> QED  BY <1>1, <1>2, <1>3, MaxIs
<1> QED  BY <1>1, <1>2, <1>4

LEMMA LastColon ==
  ASSUME NEW s \in Seq(Token), NEW i \in 1 .. Len(s), s[i] = ":", \A j \in 1 .. Len(s) : i < j => s[j] # ":"
  PROVE  RFind(s) = i
<1>1. RFind(s) # 0
  <2> DEFINE colons == {j \in DOMAIN s : s[j] = ":"}
  <2>1. DOMAIN s = 1 .. Len(s) /\ Len(s) \in Nat
    OBVIOUS
  <2>2. i \in colons /\ colons \subseteq 1 .. Len(s)
    BY <2>1
  <2>3. RFind(s) = Max(colons)
    BY <2>2 DEF RFind
  <2>4. Max(colons) \in colons
    <3> HIDE DEF colons
    <3> QED  BY <2>1, <2>2, MaxIs
  <2> QED  BY <2>2, <2>3, <2>4
<1>2. RFind(s) \in 1 .. Len(s) /\ s[RFind(s)] = ":" /\ i <= RFind(s)
  BY <1>1, RFindIs
<1> QED  BY <1>2

LEMMA Trimmed ==
  ASSUME NEW q \in Seq(Token), Len(q) >= 1, q[1] = ":", \A j \in 2 .. Len(q) : q[j] # ":"
  PROVE  TrimColons(q) = IF Len(q) = 1 THEN <<>> ELSE SubSeq(q, 2, Len(q))
<1> DEFINE rest == {i \in DOMAIN q : q[i] # ":"}
<1>1. DOMAIN q = 1 .. Len(q) /\ Len(q) \in Nat
  OBVIOUS
<1>2. rest = 2 .. Len(q)
  BY <1>1
<1>3. CASE Len(q) = 1
  <2>1. rest = {}
    BY <1>2, <1>3
  <2> QED  BY <1>3, <2>1 DEF TrimColons
<1>4. CASE Len(q) # 1
  <2>1. Min(rest) = 2
    <3>1. rest \subseteq Nat /\ 2 \in rest /\ \A y \in rest : 2 <= y
      BY <1>1, <1>2, <1>4
    <3> HIDE DEF rest
    <3> QED  BY <3>1, MinIs
  <2>2. rest # {}
    BY <1>1, <1>2, <1>4
  <2> QED  BY <1>4, <2>1, <2>2 DEF TrimColons
<1> QED  BY <1>3, <1>4

LEMMA Rest ==
  ASSUME NEW q \in Seq(Token), Len(q) >= 2
  PROVE  Len(SubSeq(q, 2, Len(q))) = Len(q) - 1 /\ SubSeq(q, 2, Len(q))[1] = q[2]
<1>1. Len(q) \in Int /\ \A j \in 2 .. Len(q) : q[j] \in Token
  OBVIOUS
<1> DEFINE n == Len(q)
<1> HIDE DEF n
<1>2. 2 \in Int /\ n \in Int /\ n >= 2 /\ \A j \in 2 .. n : q[j] \in Token
  BY <1>1 DEF n
<1>3. /\ Len(SubSeq(q, 2, n)) = (IF 2 <= n THEN n - 2 + 1 ELSE 0)
      /\ \A j \in 1 .. n - 2 + 1 : SubSeq(q, 2, n)[j] = q[2 + j - 1]
  BY <1>2, SubSeqProperties
<1>4. Len(SubSeq(q, 2, n)) = n - 1 /\ SubSeq(q, 2, n)[1] = q[2]
  BY <1>2, <1>3
<1> QED  BY <1>4 DEF n

(* What is after the last colon. *)
LEMMA PortText ==
  ASSUME NEW s \in Seq(Token), NEW i \in 1 .. Len(s), s[i] = ":", \A j \in 1 .. Len(s) : i < j => s[j] # ":"
  PROVE  LET port == TrimColons(SubSeq(s, i, Len(s)))
         IN  (Len(port) = 1 <=> Len(s) = i + 1) /\ (Len(s) = i + 1 => port[1] = s[i + 1])
<1> DEFINE q == SubSeq(s, i, Len(s))  n == Len(s)
<1>1. n \in Nat /\ i \in Nat /\ 1 <= i /\ i <= n
  OBVIOUS
<1>2. /\ q \in Seq(Token) /\ Len(q) = n - i + 1 /\ \A j \in 1 .. n - i + 1 : q[j] = s[i + j - 1]
  <2>1. i \in Int /\ n \in Int /\ \A j \in i .. n : s[j] \in Token
    BY <1>1
  <2>2. /\ SubSeq(s, i, n) \in Seq(Token) /\ Len(SubSeq(s, i, n)) = (IF i <= n THEN n - i + 1 ELSE 0)
        /\ \A j \in 1 .. n - i + 1 : SubSeq(s, i, n)[j] = s[i + j - 1]
    BY <2>1, SubSeqProperties
  <2> QED  BY <1>1, <2>2
<1>3. \A j \in 1 .. n : i < j => s[j] # ":"
  OBVIOUS
<1> HIDE DEF q, n
<1>4. Len(q) >= 1 /\ q[1] = ":" /\ \A j \in 2 .. Len(q) : q[j] # ":"
  <2>1. q[1] = s[i]
    BY <1>1, <1>2
  <2>2. ASSUME NEW j \in 2 .. Len(q) PROVE q[j] # ":"
    <3>1. j \in 1 .. n - i + 1 /\ i + j - 1 \in 1 .. n /\ i < i + j - 1
      BY <1>1, <1>2
    <3> QED  BY <1>2, <1>3, <3>1
  <2> QED  BY <1>1, <1>2, <2>1, <2>2
<1>5. TrimColons(q) = IF Len(q) = 1 THEN <<>> ELSE SubSeq(q, 2, Len(q))
  BY <1>2, <1>4, Trimmed
<1>6. ASSUME Len(q) # 1
      PROVE  Len(SubSeq(q, 2, Len(q))) = Len(q) - 1 /\ SubSeq(q, 2, Len(q))[1] = q[2]
  <2>1. Len(q) >= 2
    BY <1>2, <1>4, <1>6
  <2> QED  BY <1>2, <2>1, Rest
<1>7. Len(TrimColons(q)) = 1 <=> n = i + 1
  BY <1>1, <1>2, <1>5, <1>6
<1>8. ASSUME n = i + 1 PROVE TrimColons(q)[1] = s[i + 1]
  <2>1. Len(q) = 2
    BY <1>1, <1>2, <1>8
  <2>2. q[2] = s[i + 2 - 1] /\ i + 2 - 1 = i + 1
    BY <1>1, <1>2, <1>8
  <2>3. TrimColons(q) = SubSeq(q, 2, Len(q)) /\ SubSeq(q, 2, Len(q))[1] = q[2]
    BY <1>5, <1>6, <2>1
  <2> QED  BY <2>2, <2>3
<1> QED  BY <1>7, <1>8 DEF q, n

LEMMA SplitWithPort ==
  ASSUME NEW h \in Seq(Token), NEW p \in Token, p # ":"
  PROVE  SplitAtColon(WithPort(h, p)) = IF p \in InRange THEN Domain(h, Number[p]) ELSE Error
<1> DEFINE s == WithPort(h, p)  i == Len(h) + 1  port == TrimColons(SubSeq(s, i, Len(s)))
<1>1. /\ s \in Seq(Token) /\ Len(h) \in Nat /\ Len(s) = Len(h) + 2
      /\ \A j \in 1 .. Len(h) : s[j] = h[j]
      /\ s[Len(h) + 1] = ":" /\ s[Len(h) + 2] = p
  BY PortPlaces
<1> HIDE DEF s
<1>2. /\ i \in 1 .. Len(s) /\ s[i] = ":" /\ Len(s) = i + 1 /\ s[i + 1] = p
      /\ \A j \in 1 .. Len(s) : i < j => s[j] # ":"
  BY <1>1
<1>3. RFind(s) = i /\ i # 0
  BY <1>1, <1>2, LastColon
<1>4. Len(port) = 1 /\ port[1] = p
  BY <1>1, <1>2, PortText
<1>5. SubSeq(s, 1, i - 1) = h
  <2>1. i - 1 = Len(h) /\ \A j \in 1 .. Len(h) : s[j] \in Token
    BY <1>1
  <2>2. /\ SubSeq(s, 1, Len(h)) \in Seq(Token) /\ Len(SubSeq(s, 1, Len(h))) = (IF 1 <= Len(h) THEN Len(h) - 1 + 1 ELSE 0)
        /\ \A j \in 1 .. Len(h) - 1 + 1 : SubSeq(s, 1, Len(h))[j] = s[1 + j - 1]
    BY <1>1, <2>1, SubSeqProperties
  <2> DEFINE g == SubSeq(s, 1, Len(h))
  <2> HIDE DEF g
  <2>3. g \in Seq(Token) /\ Len(g) = Len(h)
    BY <1>1, <2>2 DEF g
  <2>4. ASSUME NEW j \in 1 .. Len(h) PROVE g[j] = h[j]
    <3>1. j \in 1 .. Len(h) - 1 + 1 /\ 1 + j - 1 = j
      BY <1>1
    <3> QED  BY <1>1, <2>2, <3>1 DEF g
  <2>5. g = h
    BY <2>3, <2>4, SameText
  <2> QED  BY <2>1, <2>5 DEF g
<1> HIDE DEF i, port
<1>6. SplitAtColon(s) = IF p \in InRange THEN Domain(h, Number[p]) ELSE Error
  BY <1>3, <1>4, <1>5 DEF SplitAtColon, port
<1> QED  BY <1>6 DEF s

LEMMA SplitIs ==
  ASSUME NEW s \in Seq(Token), SplitAtColon(s) # Error
  PROVE  \E h \in Seq(Token), p \in InRange : s = WithPort(h, p)
<1> DEFINE i == RFind(s)  port == TrimColons(SubSeq(s, i, Len(s)))  h == SubSeq(s, 1, i - 1)
<1>1. i # 0 /\ Len(port) = 1 /\ port[1] \in InRange
  BY DEF SplitAtColon
<1>2. i \in 1 .. Len(s) /\ s[i] = ":" /\ Len(s) \in Nat /\ \A j \in 1 .. Len(s) : s[j] = ":" => j <= i
  BY <1>1, RFindIs
<1> HIDE DEF i
<1>3. \A j \in 1 .. Len(s) : i < j => s[j] # ":"
  BY <1>2
<1>4. Len(s) = i + 1 /\ port[1] = s[i + 1]
  BY <1>1, <1>2, <1>3, PortText
<1>5. /\ h \in Seq(Token) /\ Len(h) = i - 1 /\ \A j \in 1 .. i - 1 : h[j] = s[j]
  <2>1. 1 \in Int /\ i - 1 \in Int /\ \A j \in 1 .. i - 1 : s[j] \in Token
    BY <1>2
  <2>2. /\ h \in Seq(Token) /\ Len(h) = (IF 1 <= i - 1 THEN i - 1 - 1 + 1 ELSE 0)
        /\ \A j \in 1 .. i - 1 - 1 + 1 : h[j] = s[1 + j - 1]
    BY <2>1, SubSeqProperties
  <2> QED  BY <1>2, <2>2
<1> HIDE DEF h, port
<1>6. port[1] \in Token
  BY <1>1, Tokens
<1>7. s = WithPort(h, port[1])
  <2> DEFINE w == WithPort(h, port[1])
  <2>1. /\ w \in Seq(Token) /\ Len(w) = Len(h) + 2 /\ \A j \in 1 .. Len(h) : w[j] = h[j]
        /\ w[Len(h) + 1] = ":" /\ w[Len(h) + 2] = port[1]
    BY <1>5, <1>6, PortPlaces
  <2> HIDE DEF w
  <2>2. Len(w) = Len(s)
    BY <1>2, <1>4, <1>5, <2>1
  <2>3. ASSUME NEW j \in 1 .. Len(s) PROVE s[j] = w[j]
    <3>1. j \in 1 .. i - 1 \/ j = i \/ j = i + 1
      BY <1>2, <1>4
    <3>2. Len(h) + 1 = i /\ Len(h) + 2 = i + 1
      BY <1>2, <1>5
    <3> QED  BY <1>2, <1>4, <1>5, <2>1, <3>1, <3>2
  <2>4. s = w
    BY <2>1, <2>2, <2>3, SameText
  <2> QED  BY <2>4 DEF w
<1> QED  BY <1>1, <1>5, <1>7

-----------------------------------------------------------------------------
(* What FromStr reads. *)

LEMMA OnlySocket ==
  ASSUME NEW h \in Addresses, NEW p \in Plain \cap InRange, NEW s, s = WithPort(Host(h), p)
  PROVE  SocketAddrs(s) = {SocketAddr(h, Number[p])}
<1>1. SocketAddr(h, Number[p]) \in SocketAddrs(s)
  <2>1. <<h, p>> \in Addresses \X (Plain \cap InRange) /\ s = WithPort(Host(<<h, p>>[1]), <<h, p>>[2])
    OBVIOUS
  <2>2. SocketAddr(<<h, p>>[1], Number[<<h, p>>[2]]) \in SocketAddrs(s)
    BY <2>1 DEF SocketAddrs
  <2> QED  BY <2>2
<1>2. ASSUME NEW x \in Addresses \X (Plain \cap InRange), s = WithPort(Host(x[1]), x[2])
      PROVE  x[1] = h /\ x[2] = p
  <2>1. x[1] \in Addresses /\ x[2] \in InRange /\ p \in InRange
    OBVIOUS
  <2>2. Host(x[1]) \in Seq(Token) /\ Host(h) \in Seq(Token) /\ x[2] \in Token /\ p \in Token
    BY <2>1, Tokens
  <2>3. Host(x[1]) = Host(h) /\ x[2] = p
    <3>1. WithPort(Host(x[1]), x[2]) = WithPort(Host(h), p)
      BY <1>2
    <3> QED  BY ONLY <2>2, <3>1, PortUnique
  <2> QED  BY <2>1, <2>3, HostUnique
<1>3. ASSUME NEW a \in SocketAddrs(s) PROVE a = SocketAddr(h, Number[p])
  <2>1. PICK x \in Addresses \X (Plain \cap InRange) :
          s = WithPort(Host(x[1]), x[2]) /\ a = SocketAddr(x[1], Number[x[2]])
    BY DEF SocketAddrs
  <2>2. x[1] = h /\ x[2] = p
    BY <1>2, <2>1
  <2> QED  BY <2>1, <2>2
<1> QED  BY <1>1, <1>3

(* A socket reads back as it is printed, whatever the port. *)
LEMMA ReadsBack ==
  ASSUME NEW h \in Addresses, NEW n, Printed(n)
  PROVE  FromStr(SocketText(SocketAddr(h, n))) = SocketAddr(h, n)
<1> DEFINE s == SocketText(SocketAddr(h, n))
<1>1. s = WithPort(Host(h), ToString(n))
  BY DEF SocketText, SocketAddr
<1>2. ToString(n) \in Plain \cap InRange /\ Number[ToString(n)] = n
  BY DEF Printed
<1> HIDE DEF s
<1>3. SocketAddrs(s) = {SocketAddr(h, n)}
  BY <1>1, <1>2, OnlySocket
<1>4. FromStr(s) = SocketAddr(h, n)
  BY <1>3 DEF FromStr
<1> QED  BY <1>4 DEF s

(* A text that stands for a socket means that socket and no other. *)
LEMMA SocketMeans ==
  ASSUME NEW h \in Addresses, NEW p \in Plain \cap InRange, NEW s, s = WithPort(Host(h), p)
  PROVE  Meant([kind |-> "text", text |-> s]) = {SocketAddr(h, Number[p])}
<1> DEFINE M == Meant([kind |-> "text", text |-> s])
           Fits(x) == \/ x[2] \in Plain /\ s = WithPort(Host(x[1]), x[2])
                      \/ \E g \in Names \cup Quads : x[1] \in Lookup(g) /\ s = WithPort(g, x[2])
<1>1. M = {SocketAddr(x[1], Number[x[2]]) : x \in {ap \in Addresses \X InRange : Fits(ap)}}
  BY DEF Meant
<1>2. Host(h) \in Seq(Token) /\ p \in Token /\ p \in InRange
  BY Tokens
<1>3. ASSUME NEW x \in Addresses \X InRange, Fits(x) PROVE x[1] = h /\ x[2] = p
  <2>1. x[1] \in Addresses /\ x[2] \in InRange /\ x[2] \in Token /\ Host(x[1]) \in Seq(Token)
    BY Tokens
  <2>2. CASE s = WithPort(Host(x[1]), x[2])
    <3>1. Host(x[1]) = Host(h) /\ x[2] = p
      <4>1. WithPort(Host(x[1]), x[2]) = WithPort(Host(h), p)
        BY <2>2
      <4> QED  BY ONLY <1>2, <2>1, <4>1, PortUnique
    <3> QED  BY <2>1, <3>1, HostUnique
  <2>3. CASE \E g \in Names \cup Quads : x[1] \in Lookup(g) /\ s = WithPort(g, x[2])
    <3>1. PICK g \in Names \cup Quads : x[1] \in Lookup(g) /\ s = WithPort(g, x[2])
      BY <2>3
    <3>2. g \in Seq(Token)
      BY Tokens DEF Addresses
    <3>3. g = Host(h) /\ x[2] = p
      <4>1. WithPort(g, x[2]) = WithPort(Host(h), p)
        BY <3>1
      <4> QED  BY ONLY <1>2, <2>1, <3>2, <4>1, PortUnique
    <3>4. h \notin V6
      <4>1. CASE g \in Names
        BY <3>3, <4>1, TargetAddrAssumption
      <4>2. CASE g \in Quads
        <5>1. g[1] = Quad /\ Quad # "["
          BY <4>2, TargetAddrAssumption DEF Quads
        <5>2. h \in V6 => Host(h)[1] = "["
          BY Tokens, Bracketed DEF Host
        <5> QED  BY <3>3, <5>1, <5>2
      <4> QED  BY <4>1, <4>2
    <3>5. g = h /\ g \in Addresses
      BY <3>3, <3>4 DEF Host
    <3>6. x[1] = g
      BY <3>1, <3>5 DEF Lookup
    <3> QED  BY <3>3, <3>5, <3>6
  <2> QED  BY <1>3, <2>2, <2>3
<1>4. <<h, p>> \in Addresses \X InRange /\ Fits(<<h, p>>)
  OBVIOUS
<1> HIDE DEF M, Fits
<1>5. SocketAddr(<<h, p>>[1], Number[<<h, p>>[2]]) \in M
  BY <1>1, <1>4
<1>6. SocketAddr(h, Number[p]) \in M
  BY <1>5
<1>7. ASSUME NEW a \in M PROVE a = SocketAddr(h, Number[p])
  <2>1. PICK x \in Addresses \X InRange : Fits(x) /\ a = SocketAddr(x[1], Number[x[2]])
    BY <1>1
  <2> QED  BY <1>3, <2>1
<1>8. M = {SocketAddr(h, Number[p])}
  BY <1>6, <1>7
<1> QED  BY <1>8 DEF M

-----------------------------------------------------------------------------
(* The first target means what was asked for. *)

LEMMA Found ==
  \A h : Lookup(h) \subseteq Addresses
BY DEF Lookup

LEMMA SocketReaches ==
  ASSUME NEW h, NEW n
  PROVE  Reaches(SocketAddr(h, n)) = {SocketAddr(h, n)}
BY DEF Reaches, SocketAddr

LEMMA DomainReaches ==
  ASSUME NEW h, NEW n
  PROVE  Reaches(Domain(h, n)) = {SocketAddr(a, n) : a \in Lookup(h)}
BY DEF Reaches, Domain

LEMMA KindsApart ==
  ASSUME NEW h, NEW n
  PROVE  /\ SocketAddr(h, n) # Error /\ SocketAddr(h, n).kind = "socket" /\ SocketAddr(h, n).port = n
         /\ SocketAddr(h, n).host = h
         /\ Domain(h, n) # Error /\ Domain(h, n).kind # "socket" /\ Domain(h, n).port = n
<1>1. Error.kind = "error" /\ SocketAddr(h, n).kind = "socket" /\ Domain(h, n).kind = "domain"
  BY DEF Error, SocketAddr, Domain
<1> QED  BY <1>1 DEF SocketAddr, Domain

LEMMA SocketIsMeant ==
  ASSUME NEW h \in Addresses, NEW n, Printed(n), NEW r, Meant(r) = {SocketAddr(h, n)}
  PROVE  Means(SocketAddr(h, n), r)
<1> DEFINE t == SocketAddr(h, n)
<1>1. t \in Sockets
  BY DEF SocketAddr, Sockets, Printed
<1>2. Reaches(t) = {t} /\ t.port = n
  BY SocketReaches, KindsApart
<1>3. Meant(r) = {t}
  OBVIOUS
<1> HIDE DEF t
<1>4. Means(t, r)
  BY <1>1, <1>2, <1>3 DEF Means
<1> QED  BY <1>4 DEF t

LEMMA DomainIsMeant ==
  ASSUME NEW h, NEW n, Printed(n), NEW r, Meant(r) = {SocketAddr(a, n) : a \in Lookup(h)}
  PROVE  Means(Domain(h, n), r)
<1> DEFINE t == Domain(h, n)
<1>1. Reaches(t) = Meant(r)
  BY DomainReaches
<1>2. t.port = n /\ t.kind # "socket"
  BY KindsApart
<1> HIDE DEF t
<1>3. Means(t, r)
  BY <1>1, <1>2 DEF Means
<1> QED  BY <1>3 DEF t

(* A text that a socket address spells. *)
LEMMA SocketText1 ==
  ASSUME NEW s, SocketAddrs(s) # {}
  PROVE  FromStr(s) # Error /\ Means(FromStr(s), [kind |-> "text", text |-> s])
<1>1. PICK x \in Addresses \X (Plain \cap InRange) : s = WithPort(Host(x[1]), x[2])
  BY DEF SocketAddrs
<1> DEFINE h == x[1]  p == x[2]
<1>2. h \in Addresses /\ p \in Plain \cap InRange /\ p \in InRange /\ s = WithPort(Host(h), p)
  BY <1>1
<1> HIDE DEF h, p
<1>3. SocketAddrs(s) = {SocketAddr(h, Number[p])}
  BY <1>2, OnlySocket
<1>4. FromStr(s) = SocketAddr(h, Number[p])
  BY <1>3 DEF FromStr
<1>5. Meant([kind |-> "text", text |-> s]) = {SocketAddr(h, Number[p])}
  BY <1>2, SocketMeans
<1>6. Means(SocketAddr(h, Number[p]), [kind |-> "text", text |-> s])
  BY <1>2, <1>5, Tokens, SocketIsMeant
<1> QED  BY <1>4, <1>6, KindsApart

(* Another text means something only if it splits at its last colon. *)
LEMMA SplitMeans ==
  ASSUME NEW s \in Texts, SocketAddrs(s) = {}
  PROVE  LET r == [kind |-> "text", text |-> s]
         IN  IF SplitAtColon(s) = Error THEN Meant(r) = {} ELSE Means(SplitAtColon(s), r)
<1> DEFINE M == Meant([kind |-> "text", text |-> s])
           Named(x) == \E g \in Names \cup Quads : x[1] \in Lookup(g) /\ s = WithPort(g, x[2])
<1>1. s \in Seq(Token)
  <2>1. s \in Seq(STRING) /\ STRING \subseteq Token
    BY TargetAddrAssumption DEF Token
  <2> QED  BY <2>1, SeqMonotonic
<1>2. M = {SocketAddr(x[1], Number[x[2]]) : x \in {ap \in Addresses \X InRange : Named(ap)}}
  <2>1. M = {SocketAddr(x[1], Number[x[2]]) : x \in {ap \in Addresses \X InRange :
               (ap[2] \in Plain /\ s = WithPort(Host(ap[1]), ap[2])) \/ Named(ap)}}
    BY DEF Meant
  <2>2. \A ap \in Addresses \X InRange : ~(ap[2] \in Plain /\ s = WithPort(Host(ap[1]), ap[2]))
    BY DEF SocketAddrs
  <2> HIDE DEF M, Named
  <2> QED  BY <2>1, <2>2
<1>3. \A g \in Names \cup Quads : g \in Seq(Token)
  BY Tokens DEF Addresses
<1>4. ASSUME NEW x \in Addresses \X InRange, Named(x)
      PROVE  \E g \in Names \cup Quads : /\ x[1] \in Lookup(g) /\ s = WithPort(g, x[2])
                                          /\ SplitAtColon(s) = Domain(g, Number[x[2]])
  <2>1. PICK g \in Names \cup Quads : x[1] \in Lookup(g) /\ s = WithPort(g, x[2])
    BY <1>4
  <2>2. g \in Seq(Token) /\ x[2] \in Token /\ x[2] # ":" /\ x[2] \in InRange
    BY <1>3, Tokens
  <2>3. SplitAtColon(WithPort(g, x[2])) = Domain(g, Number[x[2]])
    BY <2>2, SplitWithPort
  <2> QED  BY <2>1, <2>3
<1> HIDE DEF M
<1>5. CASE SplitAtColon(s) = Error
  <2>1. \A x \in Addresses \X InRange : ~Named(x)
    BY <1>4, <1>5, KindsApart
  <2>2. M = {}
    <3> HIDE DEF Named
    <3> QED  BY <1>2, <2>1
  <2> QED  BY <1>5, <2>2 DEF M
<1>6. CASE SplitAtColon(s) # Error
  <2>1. PICK h \in Seq(Token), p \in InRange : s = WithPort(h, p)
    BY <1>1, <1>6, SplitIs
  <2>2. p \in Token /\ p # ":" /\ p \in DOMAIN Number /\ Printed(Number[p])
    BY Tokens
  <2>3. SplitAtColon(s) = Domain(h, Number[p])
    BY <2>1, <2>2, SplitWithPort
  <2>4. ASSUME NEW x \in Addresses \X InRange, Named(x) PROVE x[1] \in Lookup(h) /\ x[2] = p
    <3>1. PICK g \in Names \cup Quads : x[1] \in Lookup(g) /\ s = WithPort(g, x[2])
      BY <2>4
    <3>2. g \in Seq(Token) /\ x[2] \in Token
      BY <1>3, Tokens
    <3>3. WithPort(g, x[2]) = WithPort(h, p)
      BY <2>1, <3>1
    <3>4. g = h /\ x[2] = p
      BY ONLY <2>2, <3>2, <3>3, h \in Seq(Token), PortUnique
    <3> QED  BY <3>1, <3>4
  <2>5. ASSUME NEW a \in Lookup(h) PROVE a \in Addresses /\ Named(<<a, p>>)
    <3>1. a \in Addresses
      BY Found
    <3>2. h \notin V6
      BY <2>1, <2>2, TargetAddrAssumption
    <3>3. h \in Names \cup Quads
      BY <3>2 DEF Lookup, Addresses
    <3> QED  BY <2>1, <3>1, <3>3
  <2> HIDE DEF Named
  <2>6. M = {SocketAddr(a, Number[p]) : a \in Lookup(h)}
    <3>1. ASSUME NEW m \in M PROVE m \in {SocketAddr(a, Number[p]) : a \in Lookup(h)}
      <4>1. PICK x \in Addresses \X InRange : Named(x) /\ m = SocketAddr(x[1], Number[x[2]])
        BY <1>2
      <4> QED  BY <2>4, <4>1
    <3>2. ASSUME NEW a \in Lookup(h) PROVE SocketAddr(a, Number[p]) \in M
      <4>1. <<a, p>> \in Addresses \X InRange /\ Named(<<a, p>>)
        BY <2>5
      <4>2. SocketAddr(<<a, p>>[1], Number[<<a, p>>[2]]) \in M
        BY <1>2, <4>1
      <4> QED  BY <4>2
    <3> QED  BY <3>1, <3>2
  <2>7. Means(Domain(h, Number[p]), [kind |-> "text", text |-> s])
    BY <2>2, <2>6, DomainIsMeant DEF M
  <2> QED  BY <1>6, <2>3, <2>7
<1> QED  BY <1>5, <1>6

LEMMA TextMeans ==
  ASSUME NEW s \in Texts
  PROVE  LET r == [kind |-> "text", text |-> s]
         IN  IF FromStr(s) = Error THEN Meant(r) = {} ELSE Means(FromStr(s), r)
<1>1. CASE SocketAddrs(s) # {}
  BY <1>1, SocketText1
<1>2. CASE SocketAddrs(s) = {}
  <2>1. FromStr(s) = SplitAtColon(s)
    BY <1>2 DEF FromStr
  <2> QED  BY <1>2, <2>1, SplitMeans
<1> QED  BY <1>1, <1>2

LEMMA RequestMeans ==
  ASSUME NEW r \in Requests
  PROVE  Means(From(r), r)
<1>1. /\ Printed(r.port) /\ r.kind \in {"Ip", "Domain"}
      /\ r.kind = "Ip" => r.host \in Addresses
  BY TargetAddrAssumption
<1>2. Meant(r) = {SocketAddr(a, r.port) : a \in Lookup(r.host)}
  <2>1. r.kind # "text"
    BY <1>1
  <2> QED  BY <2>1 DEF Meant
<1>3. CASE r.kind = "Ip"
  <2>1. From(r) = SocketAddr(r.host, r.port) /\ Lookup(r.host) = {r.host}
    BY <1>1, <1>3 DEF From, Lookup
  <2>2. Meant(r) = {SocketAddr(r.host, r.port)}
    BY <1>2, <2>1
  <2> QED  BY <1>1, <1>3, <2>1, <2>2, SocketIsMeant
<1>4. CASE r.kind = "Domain"
  <2>1. From(r) = Domain(r.host, r.port)
    BY <1>4 DEF From
  <2> QED  BY <1>1, <1>2, <2>1, DomainIsMeant
<1> QED  BY <1>1, <1>3, <1>4

-----------------------------------------------------------------------------
(* The inductive invariant. *)

LEMMA IInvInit ==
  Init => IInv
<1> SUFFICES ASSUME Init PROVE IInv
  OBVIOUS
<1>1. dialled = <<>> /\ dialled \in Seq(Sockets) /\ DOMAIN dialled = {}
  BY DEF Init
<1>2. CASE \E s \in Texts :
             asked = [kind |-> "text", text |-> s] /\ text = s /\ target = Error /\ stage = "read"
  <2>1. asked \in Asks /\ asked.kind = "text" /\ text = asked.text /\ stage = "read"
    BY <1>2 DEF Asks
  <2> QED  BY <1>1, <2>1 DEF IInv, TargetIsKept
<1>3. CASE \E r \in Requests :
             asked = r /\ text = <<>> /\ target = From(r) /\ stage = "connect"
  <2>1. asked \in Asks /\ Means(target, asked) /\ stage = "connect"
    BY <1>3, RequestMeans DEF Asks
  <2> QED  BY <1>1, <2>1 DEF IInv, TargetIsKept
<1> QED  BY <1>2, <1>3 DEF Init

LEMMA ReadKeeps ==
  IInv /\ Read => IInv'
<1> SUFFICES ASSUME IInv, Read PROVE IInv'
  OBVIOUS
<1>1. /\ stage = "read" /\ target' = FromStr(text) /\ asked' = asked /\ dialled' = dialled
      /\ stage' = IF target' = Error THEN "bad_request" ELSE "connect"
  BY DEF Read
<1>2. /\ asked \in Asks /\ dialled \in Seq(Sockets) /\ \A i \in DOMAIN dialled : Printed(dialled[i].port)
      /\ \A i \in DOMAIN dialled : dialled[i] \in Meant(asked) /\ dialled[i] = dialled[1]
  BY DEF IInv, TargetIsKept
<1>3. CASE dialled = <<>>
  <2>1. asked.kind = "text" /\ text = asked.text
    BY <1>1, <1>3 DEF IInv
  <2>2. PICK s \in Texts : asked = [kind |-> "text", text |-> s] /\ text = s
    <3>1. ASSUME NEW r \in Requests PROVE r.kind # "text"
      <4>1. r.kind \in {"Ip", "Domain"}
        BY TargetAddrAssumption
      <4> QED  BY <4>1
    <3>2. asked \notin Requests
      BY <2>1, <3>1
    <3> QED  BY <1>2, <2>1, <3>2 DEF Asks
  <2>3. IF target' = Error THEN Meant(asked) = {} ELSE Means(target', asked)
    BY <1>1, <2>2, TextMeans
  <2>4. DOMAIN dialled = {}
    BY <1>3
  <2>5. CASE target' = Error
    <3>1. stage' = "bad_request" /\ Meant(asked) = {}
      BY <1>1, <2>3, <2>5
    <3> QED  BY <1>1, <1>2, <2>4, <3>1 DEF IInv, TargetIsKept
  <2>6. CASE target' # Error
    <3>1. stage' = "connect" /\ Means(target', asked)
      BY <1>1, <2>3, <2>6
    <3> QED  BY <1>1, <1>2, <1>3, <3>1 DEF IInv, TargetIsKept
  <2> QED  BY <2>5, <2>6
<1>4. CASE dialled # <<>>
  <2>1. text = SocketText(dialled[1]) /\ 1 \in DOMAIN dialled
    BY <1>1, <1>2, <1>4 DEF IInv
  <2>2. dialled[1] \in Sockets /\ Printed(dialled[1].port)
    BY <1>2, <2>1
  <2>3. PICK h \in Addresses, n \in Nat : dialled[1] = SocketAddr(h, n)
    BY <2>2 DEF Sockets, SocketAddr
  <2>4. Printed(n)
    BY <2>2, <2>3, KindsApart
  <2>5. FromStr(text) = SocketAddr(h, n)
    BY <2>1, <2>3, <2>4, ReadsBack
  <2>6. target' = dialled[1] /\ target' # Error /\ stage' = "connect"
    BY <1>1, <2>3, <2>5, KindsApart
  <2> QED  BY <1>1, <1>2, <1>4, <2>6 DEF IInv, TargetIsKept
<1> QED  BY <1>3, <1>4

LEMMA ConnectKeeps ==
  IInv /\ Connect => IInv'
<1> SUFFICES ASSUME IInv, Connect PROVE IInv'
  OBVIOUS
<1> DEFINE hosts == IF target.kind = "socket" THEN {target.host} ELSE Lookup(target.host)
<1>1. stage = "connect" /\ asked' = asked /\ target' = target
  BY DEF Connect
<1>2. /\ asked \in Asks /\ dialled \in Seq(Sockets) /\ \A i \in DOMAIN dialled : Printed(dialled[i].port)
      /\ \A i \in DOMAIN dialled : dialled[i] \in Meant(asked) /\ dialled[i] = dialled[1]
  BY DEF IInv, TargetIsKept
<1>3. Reaches(target) = {SocketAddr(h, target.port) : h \in hosts}
  BY DEF Reaches
<1>4. IF dialled = <<>> THEN Means(target, asked) ELSE target = dialled[1]
  BY <1>1 DEF IInv
<1>5. dialled # <<>> => 1 \in DOMAIN dialled /\ dialled[1] \in Sockets /\ Printed(dialled[1].port)
  <2>1. dialled # <<>> => 1 \in DOMAIN dialled
    BY <1>2
  <2> QED  BY <1>2, <2>1
<1>6. Printed(target.port) /\ (target.kind = "socket" => target \in Sockets)
  BY <1>4, <1>5 DEF Means
<1>7. hosts \subseteq Addresses
  <2>1. target.kind = "socket" => target.host \in Addresses
    BY <1>6 DEF Sockets
  <2> QED  BY <2>1, Found
<1>8. \A h \in hosts : SocketAddr(h, target.port) \in Meant(asked)
  <2>1. CASE dialled = <<>>
    <3>1. Reaches(target) = Meant(asked)
      BY <1>4, <2>1 DEF Means
    <3> HIDE DEF hosts
    <3> QED  BY <1>3, <3>1
  <2>2. CASE dialled # <<>>
    <3>1. target = dialled[1] /\ target \in Sockets
      BY <1>4, <1>5, <2>2
    <3>2. \A h \in hosts : SocketAddr(h, target.port) = target
      BY <3>1 DEF Sockets, SocketAddr
    <3> QED  BY <1>2, <1>5, <2>2, <3>1, <3>2
  <2> QED  BY <2>1, <2>2
<1>9. ASSUME NEW h \in hosts,
             dialled' = Append(dialled, SocketAddr(h, target.port)),
             text' = SocketText(SocketAddr(h, target.port)), stage' = "read"
      PROVE  IInv'
  <2> DEFINE a == SocketAddr(h, target.port)
  <2>1. a \in Meant(asked) /\ a.port = target.port
    BY <1>8, KindsApart
  <2>2. a \in Sockets
    BY <1>6, <1>7 DEF Sockets, SocketAddr, Printed
  <2>3. dialled # <<>> => a = dialled[1]
    <3>1. ASSUME dialled # <<>> PROVE a = dialled[1]
      <4>1. target = dialled[1] /\ target \in Sockets
        BY <1>4, <1>5, <3>1
      <4>2. h = target.host
        BY <4>1 DEF Sockets
      <4> QED  BY <4>1, <4>2 DEF Sockets, SocketAddr
    <3> QED  BY <3>1
  <2>4. Printed(a.port) /\ dialled' = Append(dialled, a) /\ text' = SocketText(a)
    BY <1>6, <1>9, <2>1
  <2> HIDE DEF a, hosts
  <2>5. /\ dialled' \in Seq(Sockets) /\ dialled' # <<>> /\ dialled'[1] = a
        /\ \A i \in DOMAIN dialled' : dialled'[i] = a
    <3>1. Len(dialled) \in Nat /\ DOMAIN dialled = 1 .. Len(dialled)
      BY <1>2
    <3>2. \A i \in DOMAIN dialled : dialled[i] = a
      BY <1>2, <2>3, <3>1
    <3> QED  BY <1>2, <2>2, <2>4, <3>1, <3>2
  <2> QED  BY <1>1, <1>2, <1>9, <2>1, <2>4, <2>5 DEF IInv, TargetIsKept
<1>10. ASSUME hosts = {}, stage' = "unresolved", UNCHANGED <<text, dialled>>
       PROVE  IInv'
  <2>1. dialled = <<>>
    <3>1. ASSUME dialled # <<>> PROVE FALSE
      <4>1. target \in Sockets
        BY <1>4, <1>5, <3>1
      <4> QED  BY <1>10, <4>1 DEF Sockets
    <3> QED  BY <3>1
  <2>2. Meant(asked) = {}
    <3>1. Reaches(target) = Meant(asked)
      BY <1>4, <2>1 DEF Means
    <3> HIDE DEF hosts
    <3> QED  BY <1>3, <1>10, <3>1
  <2> QED  BY <1>1, <1>2, <1>10, <2>2 DEF IInv, TargetIsKept
<1> QED  BY <1>9, <1>10 DEF Connect

LEMMA IInvStep ==
  IInv /\ [Next]_vars => IInv'
<1> SUFFICES ASSUME IInv, [Next]_vars PROVE IInv'
  OBVIOUS
<1>1. CASE UNCHANGED vars
  BY <1>1 DEF IInv, TargetIsKept, vars
<1> QED  BY <1>1, ReadKeeps, ConnectKeeps DEF Next

(* Whatever the texts, addresses and names, and however many proxies the     *)
(* request goes through: one that means something is never turned away,     *)
(* every proxy is asked for one and the same socket that the request means, *)
(* and one that means nothing is forwarded to none (TargetAddr::from_str,   *)
(* HttpOutbound::connect and the CONNECT of HttpInbound).                   *)
THEOREM TargetKept ==
  Spec => []TargetIsKept
<1>1. IInv => TargetIsKept
  BY DEF IInv
<1> QED  BY <1>1, IInvInit, IInvStep, PTL DEF Spec
===============================================================================
