------------------------------ MODULE RelayProofs ------------------------------
(* The safety of Relay: an invariant of each connection and its dial.       *)
EXTENDS Relay, SequenceTheorems, FiniteSetTheorems, TLAPS

(* What the handler's place says about the dial, and about who owns what. *)
Owns(i, o) ==
  /\ i.client = "open" <=> i.task \notin {"none", "done"}
  /\ i.client \in {"absent", "waiting"} => i.task = "none"
  /\ i.task \in {"none", "request"} => o.step = "none"
  /\ i.task = "reply" => o.step = (IF inbound = "socks" THEN "connected" ELSE "none")
  /\ i.task = "connect" => o.step \in {"resolve", "dial", "wrap", "request", "handshake"}
  /\ i.task = "refuse" => o.step = "failed" /\ inbound = "socks"
  /\ i.task = "tunnel" => o.step = "connected"
  /\ i.task = "done" => o.sockets = {} \/ (outbound = "http" /\ o.step = "failed")

(* How far the dial has got, and which sockets it holds. *)
Dialled(i, o) ==
  /\ o.step \in {"none", "resolve"} => o.at = 0 /\ o.lost = {} /\ o.sockets = {}
  /\ o.step = "dial" /\ i.task = "connect" =>
       /\ o.at <= o.addrs
       /\ \/ o.sockets = {} /\ o.lost = 1 .. o.at
          \/ o.sockets = {o.at} /\ o.lost = 1 .. o.at - 1 /\ o.at > 0
  /\ o.step \in {"wrap", "request", "handshake", "connected"} =>
       /\ o.at \in 1 .. o.addrs /\ o.lost = 1 .. o.at - 1
       /\ i.task # "done" => o.sockets = {o.at}
  /\ o.step = "failed" =>
       /\ o.sockets = {} \/ (outbound = "http" /\ o.sockets = {o.at})
       /\ o.at \in o.lost \cup {0} => o.lost = 1 .. o.addrs

(* No final answer has been given. *)
Unanswered(i) ==
  \A k \in 1 .. Len(i.answers) : i.answers[k] = "rejected" /\ inbound = "http"

Told(i) ==
  /\ \A k \in 1 .. Len(i.answers) : k < Len(i.answers) => i.answers[k] = "rejected" /\ inbound = "http"
  /\ i.task \in {"none", "request", "reply", "refuse"} => Unanswered(i)
  /\ i.task = "connect" /\ inbound = "socks" => Unanswered(i)

(* What a SOCKS5 client has been told is true, and it is told in time. *)
Truthful(i, o) ==
  inbound = "socks" =>
    /\ i.answers = <<"ok">> => o.step = "connected"
    /\ i.answers = <<"refused">> => o.step = "failed"
    /\ i.task = "tunnel" => i.answers # <<>>
    /\ i.task = "done" /\ alive /\ ~i.gone /\ o.step # "none" => i.answers # <<>>

Good(i, o) == Owns(i, o) /\ Dialled(i, o) /\ Told(i) /\ Truthful(i, o)

IInv == TypeOK /\ \A c \in Conns : Good(conn[c], dial[c])

-----------------------------------------------------------------------------
(* One connection at a time: a step that gives c a good record, and leaves  *)
(* what the connections share alone, keeps the invariant.                   *)
LEMMA OneConn ==
  ASSUME IInv, NEW c \in Conns, NEW i \in Conn, NEW o \in Dial,
         SetConn(c, i), SetDial(c, o), Good(i, o),
         UNCHANGED <<inbound, outbound, listening, alive>>, ready' \in BOOLEAN
  PROVE  IInv'
<1>1. conn' \in [Conns -> Conn] /\ dial' \in [Conns -> Dial]
  BY DEF IInv, TypeOK, SetConn, SetDial
<1>2. TypeOK'
  BY <1>1 DEF IInv, TypeOK
<1>3. ASSUME NEW d \in Conns PROVE Good(conn[d], dial[d])'
  <2>1. CASE d = c
    <3>1. conn'[d] = i /\ dial'[d] = o
      BY <2>1 DEF IInv, TypeOK, SetConn, SetDial
    <3> QED  BY <3>1 DEF Good, Owns, Dialled, Told, Unanswered, Truthful
  <2>2. CASE d # c
    <3>1. conn'[d] = conn[d] /\ dial'[d] = dial[d]
      BY <2>2 DEF IInv, TypeOK, SetConn, SetDial
    <3> QED  BY <3>1 DEF IInv, Good, Owns, Dialled, Told, Unanswered, Truthful
  <2> QED  BY <2>1, <2>2
<1> QED  BY <1>2, <1>3 DEF IInv

LEMMA OneConnOnly ==
  ASSUME IInv, NEW c \in Conns, NEW i \in Conn, NEW o \in Dial,
         SetConn(c, i), SetDial(c, o), Good(i, o), UNCHANGED kept
  PROVE  IInv'
<1>1. UNCHANGED <<inbound, outbound, listening, alive>> /\ ready' \in BOOLEAN
  BY DEF IInv, TypeOK, kept
<1> QED  BY <1>1, OneConn

LEMMA SameDial ==
  ASSUME IInv, NEW c \in Conns, UNCHANGED dial
  PROVE  SetDial(c, dial[c])
BY DEF IInv, TypeOK, SetDial

LEMMA SameConn ==
  ASSUME IInv, NEW c \in Conns, UNCHANGED conn
  PROVE  SetConn(c, conn[c])
BY DEF IInv, TypeOK, SetConn

LEMMA Records ==
  ASSUME IInv, NEW c \in Conns
  PROVE  conn[c] \in Conn /\ dial[c] \in Dial /\ Good(conn[c], dial[c])
BY DEF IInv, TypeOK

-----------------------------------------------------------------------------
(* The records of the operations. *)
LEMMA FinishedType ==
  ASSUME NEW i \in Conn
  PROVE  /\ Finished(i) \in Conn
         /\ Finished(i).task = "done" /\ Finished(i).client = "dropped"
         /\ Finished(i).gone = i.gone /\ Finished(i).answers = i.answers
BY DEF Finished, Conn

LEMMA ClosedType ==
  ASSUME NEW o \in Dial
  PROVE  /\ Closed(o) \in Dial /\ Closed(o).sockets = {}
         /\ Closed(o).step = o.step /\ Closed(o).at = o.at
         /\ Closed(o).addrs = o.addrs /\ Closed(o).lost = o.lost
BY DEF Closed, Dial

LEMMA TaskType ==
  ASSUME NEW i \in Conn, NEW t \in {"request", "reply", "connect", "refuse", "tunnel"}
  PROVE  LET j == [i EXCEPT !.task = t] IN
         /\ j \in Conn /\ j.task = t
         /\ j.client = i.client /\ j.gone = i.gone /\ j.answers = i.answers
BY DEF Conn

LEMMA AnsweredType ==
  ASSUME NEW i \in Conn, NEW a \in Answers, NEW t \in {"request", "connect", "tunnel"}
  PROVE  LET j == Answered(i, a, t) IN
         /\ j \in Conn /\ j.task = t /\ j.answers = Append(i.answers, a)
         /\ j.client = i.client /\ j.gone = i.gone
<1> DEFINE s == Append(i.answers, a)
<1>1. s \in Seq(Answers)
  BY AppendProperties DEF Conn
<1>2. Answered(i, a, t) = [i EXCEPT !.answers = s, !.task = t]
  BY DEF Answered, Conn
<1> HIDE DEF s
<1>3. LET j == Answered(i, a, t) IN
      /\ j \in Conn /\ j.task = t /\ j.answers = s /\ j.client = i.client /\ j.gone = i.gone
  BY <1>1, <1>2 DEF Conn
<1> QED  BY <1>3 DEF s

LEMMA PartingType ==
  ASSUME NEW i \in Conn, NEW a \in Answers
  PROVE  LET j == Parting(i, a) IN
         /\ j \in Conn /\ j.task = "done" /\ j.answers = Append(i.answers, a)
         /\ j.client = "dropped" /\ j.gone = i.gone
<1> DEFINE s == Append(i.answers, a)
           f == Finished(i)
<1>1. s \in Seq(Answers)
  BY AppendProperties DEF Conn
<1>2. Parting(i, a) = [f EXCEPT !.answers = s]
  BY FinishedType DEF Parting
<1>3. f \in Conn /\ f.task = "done" /\ f.client = "dropped" /\ f.gone = i.gone
  BY FinishedType
<1> HIDE DEF s, f
<1>4. LET j == Parting(i, a) IN
      /\ j \in Conn /\ j.task = "done" /\ j.answers = s /\ j.client = "dropped" /\ j.gone = i.gone
  BY <1>1, <1>2, <1>3 DEF Conn
<1> QED  BY <1>4 DEF s

(* The first final answer is the last, and a SOCKS5 client has had none.    *)
LEMMA FirstAnswer ==
  ASSUME NEW i \in Conn, NEW a \in Answers, Unanswered(i), NEW j \in Conn,
         j.answers = Append(i.answers, a)
  PROVE  /\ \A k \in 1 .. Len(j.answers) :
              k < Len(j.answers) => j.answers[k] = "rejected" /\ inbound = "http"
         /\ a = "rejected" /\ inbound = "http" => Unanswered(j)
         /\ inbound = "socks" => j.answers = <<a>>
<1>1. i.answers \in Seq(Answers)
  BY DEF Conn
<1> DEFINE s == i.answers
           u == j.answers
<1>2. s \in Seq(Answers) /\ u = Append(s, a)
      /\ \A k \in 1 .. Len(s) : s[k] = "rejected" /\ inbound = "http"
  BY <1>1 DEF Unanswered
<1> HIDE DEF s, u
<1>3. /\ Len(s) \in Nat /\ Len(u) = Len(s) + 1 /\ u[Len(s) + 1] = a
      /\ \A k \in 1 .. Len(s) : u[k] = s[k]
  BY <1>2, AppendProperties, LenProperties
<1>4. \A k \in 1 .. Len(u) : k < Len(u) => u[k] = "rejected" /\ inbound = "http"
  BY <1>2, <1>3
<1>5. a = "rejected" /\ inbound = "http" => \A k \in 1 .. Len(u) : u[k] = "rejected" /\ inbound = "http"
  BY <1>2, <1>3
<1>6. ASSUME inbound = "socks" PROVE u = <<a>>
  <2>1. Len(s) = 0
    <3>1. CASE Len(s) > 0
      <4>1. 1 \in 1 .. Len(s)
        BY <1>3, <3>1
      <4> QED  BY <1>2, <1>6, <4>1
    <3> QED  BY <1>3, <3>1
  <2>2. s = <<>>
    BY <1>2, <2>1, EmptySeq
  <2> QED  BY <1>2, <2>2
<1> QED  BY <1>4, <1>5, <1>6 DEF s, u, Unanswered

LEMMA ArriveStep ==
  ASSUME IInv, NEW c \in Conns, Arrive(c)
  PROVE  IInv'
<1> DEFINE i == conn[c]
           o == dial[c]
           j == [i EXCEPT !.client = "waiting"]
<1>1. /\ i \in Conn /\ o \in Dial /\ Good(i, o)
      /\ i.client = "absent" /\ ready' = TRUE
  BY Records DEF Arrive
<1>2. SetConn(c, j) /\ SetDial(c, o) /\ UNCHANGED <<inbound, outbound, listening, alive>> /\ ready' \in BOOLEAN
  BY <1>1, SameDial DEF Arrive
<1> HIDE DEF i, o
<1>3. /\ j \in Conn /\ j.client = "waiting" /\ j.task = i.task /\ j.gone = i.gone /\ j.answers = i.answers
  BY <1>1 DEF Conn
<1> HIDE DEF j
<1>4. Good(j, o)
  BY <1>1, <1>3 DEF Good, Owns, Dialled, Told, Unanswered, Truthful
<1> QED  BY <1>1, <1>2, <1>3, <1>4, OneConn

LEMMA LeaveStep ==
  ASSUME IInv, NEW c \in Conns, Leave(c)
  PROVE  IInv'
<1> DEFINE i == conn[c]
           o == dial[c]
           j == [i EXCEPT !.gone = TRUE]
<1>1. /\ i \in Conn /\ o \in Dial /\ Good(i, o)
      /\ i.client = "open"
  BY Records DEF Leave
<1>2. SetConn(c, j) /\ SetDial(c, o) /\ UNCHANGED kept
  BY <1>1, SameDial DEF Leave
<1> HIDE DEF i, o
<1>3. /\ j \in Conn /\ j.client = i.client /\ j.task = i.task /\ j.gone = TRUE /\ j.answers = i.answers
  BY <1>1 DEF Conn
<1> HIDE DEF j
<1>4. Good(j, o)
  BY <1>1, <1>3 DEF Good, Owns, Dialled, Told, Unanswered, Truthful
<1> QED  BY <1>1, <1>2, <1>3, <1>4, OneConnOnly

LEMMA AcceptStep ==
  ASSUME IInv, NEW c \in Conns, Accept(c)
  PROVE  IInv'
<1> DEFINE i == conn[c]
           o == dial[c]
           j == [i EXCEPT !.client = "open", !.task = "request"]
<1>1. /\ i \in Conn /\ o \in Dial /\ Good(i, o)
      /\ i.client = "waiting"
  BY Records DEF Accept
<1>2. SetConn(c, j) /\ SetDial(c, o) /\ UNCHANGED kept
  BY <1>1, SameDial DEF Accept
<1> HIDE DEF i, o
<1>3. /\ j \in Conn /\ j.client = "open" /\ j.task = "request" /\ j.gone = i.gone /\ j.answers = i.answers
  BY <1>1 DEF Conn
<1> HIDE DEF j
<1>4. Good(j, o)
  BY <1>1, <1>3 DEF Good, Owns, Dialled, Told, Unanswered, Truthful
<1> QED  BY <1>1, <1>2, <1>3, <1>4, OneConnOnly

LEMMA BadRequestStep ==
  ASSUME IInv, NEW c \in Conns, BadRequest(c)
  PROVE  IInv'
<1> DEFINE i == conn[c]
           o == dial[c]
<1>1. i \in Conn /\ o \in Dial /\ Good(i, o) /\ i.task = "request"
  BY Records DEF BadRequest
<1>2. SetConn(c, Finished(i)) /\ SetDial(c, o) /\ UNCHANGED kept
  BY SameDial DEF BadRequest
<1> HIDE DEF i, o
<1>3. Good(Finished(i), o)
  BY <1>1, FinishedType DEF Good, Owns, Dialled, Told, Truthful
<1> QED  BY <1>1, <1>2, <1>3, FinishedType, OneConnOnly

LEMMA RejectSocksStep ==
  ASSUME IInv, NEW c \in Conns, RejectSocks(c)
  PROVE  IInv'
<1> DEFINE i == conn[c]
           o == dial[c]
           j == Parting(i, "rejected")
<1>1. /\ i \in Conn /\ o \in Dial /\ Good(i, o)
      /\ i.task = "request" /\ inbound = "socks"
  BY Records DEF RejectSocks
<1>2. SetConn(c, j) /\ SetDial(c, o) /\ UNCHANGED kept
  BY <1>1, SameDial DEF RejectSocks
<1> HIDE DEF i, o
<1>3. /\ j \in Conn /\ j.task = "done" /\ j.client = "dropped" /\ j.answers = Append(i.answers, "rejected")
  BY <1>1, PartingType DEF Answers
<1> HIDE DEF j
<1>4. /\ \A k \in 1 .. Len(j.answers) : k < Len(j.answers) => j.answers[k] = "rejected" /\ inbound = "http"
      /\ inbound = "socks" => j.answers = <<"rejected">>
  BY <1>1, <1>3, FirstAnswer DEF Good, Told, Answers
<1>5. Good(j, o)
  BY <1>1, <1>3, <1>4 DEF Good, Owns, Dialled, Told, Unanswered, Truthful
<1> QED  BY <1>1, <1>2, <1>3, <1>4, <1>5, OneConnOnly

LEMMA RejectHttpStep ==
  ASSUME IInv, NEW c \in Conns, RejectHttp(c)
  PROVE  IInv'
<1> DEFINE i == conn[c]
           o == dial[c]
           j == Answered(i, "rejected", "request")
<1>1. /\ i \in Conn /\ o \in Dial /\ Good(i, o)
      /\ i.task = "request" /\ inbound = "http"
  BY Records DEF RejectHttp
<1>2. SetConn(c, j) /\ SetDial(c, o) /\ UNCHANGED kept
  BY <1>1, SameDial DEF RejectHttp
<1> HIDE DEF i, o
<1>3. /\ j \in Conn /\ j.task = "request" /\ j.client = i.client /\ j.answers = Append(i.answers, "rejected")
  BY <1>1, AnsweredType DEF Answers
<1> HIDE DEF j
<1>4. /\ \A k \in 1 .. Len(j.answers) : k < Len(j.answers) => j.answers[k] = "rejected" /\ inbound = "http"
      /\ Unanswered(j)
  BY <1>1, <1>3, FirstAnswer DEF Good, Told, Answers
<1>5. Good(j, o)
  BY <1>1, <1>3, <1>4 DEF Good, Owns, Dialled, Told, Unanswered, Truthful
<1> QED  BY <1>1, <1>2, <1>3, <1>4, <1>5, OneConnOnly

LEMMA RejectVlessStep ==
  ASSUME IInv, NEW c \in Conns, RejectVless(c)
  PROVE  IInv'
<1> DEFINE i == conn[c]
           o == dial[c]
           j == Parting(i, "ok")
<1>1. /\ i \in Conn /\ o \in Dial /\ Good(i, o)
      /\ i.task = "request" /\ inbound = "vless"
  BY Records DEF RejectVless
<1>2. SetConn(c, j) /\ SetDial(c, o) /\ UNCHANGED kept
  BY <1>1, SameDial DEF RejectVless
<1> HIDE DEF i, o
<1>3. /\ j \in Conn /\ j.task = "done" /\ j.client = "dropped" /\ j.answers = Append(i.answers, "ok")
  BY <1>1, PartingType DEF Answers
<1> HIDE DEF j
<1>4. /\ \A k \in 1 .. Len(j.answers) : k < Len(j.answers) => j.answers[k] = "rejected" /\ inbound = "http"
      /\ inbound = "socks" => j.answers = <<"ok">>
  BY <1>1, <1>3, FirstAnswer DEF Good, Told, Answers
<1>5. Good(j, o)
  BY <1>1, <1>3, <1>4 DEF Good, Owns, Dialled, Told, Unanswered, Truthful
<1> QED  BY <1>1, <1>2, <1>3, <1>4, <1>5, OneConnOnly

LEMMA TakeSocksStep ==
  ASSUME IInv, NEW c \in Conns, TakeSocks(c)
  PROVE  IInv'
<1> DEFINE i == conn[c]
           o == dial[c]
           j == [i EXCEPT !.task = "connect"]
           p == Started(o)
<1>1. /\ i \in Conn /\ o \in Dial /\ Good(i, o)
      /\ i.task = "request" /\ inbound = "socks"
  BY Records DEF TakeSocks
<1>2. SetConn(c, j) /\ SetDial(c, p) /\ UNCHANGED kept
  BY <1>1 DEF TakeSocks
<1> HIDE DEF i, o
<1>3. /\ j \in Conn /\ j.task = "connect" /\ j.client = i.client /\ j.gone = i.gone /\ j.answers = i.answers
  BY <1>1, TaskType
<1>4. /\ p \in Dial /\ p.step = "resolve" /\ p.at = o.at /\ p.addrs = o.addrs /\ p.lost = o.lost /\ p.sockets = o.sockets
  BY <1>1 DEF Started, Dial
<1> HIDE DEF j, p
<1>5. Good(j, p)
  BY <1>1, <1>3, <1>4 DEF Good, Owns, Dialled, Told, Unanswered, Truthful
<1> QED  BY <1>1, <1>2, <1>3, <1>4, <1>5, OneConnOnly

LEMMA TakeVlessStep ==
  ASSUME IInv, NEW c \in Conns, TakeVless(c)
  PROVE  IInv'
<1> DEFINE i == conn[c]
           o == dial[c]
           j == Answered(i, "ok", "connect")
           p == Started(o)
<1>1. /\ i \in Conn /\ o \in Dial /\ Good(i, o)
      /\ i.task = "request" /\ inbound = "vless"
  BY Records DEF TakeVless
<1>2. SetConn(c, j) /\ SetDial(c, p) /\ UNCHANGED kept
  BY <1>1 DEF TakeVless
<1> HIDE DEF i, o
<1>3. /\ j \in Conn /\ j.task = "connect" /\ j.client = i.client /\ j.answers = Append(i.answers, "ok")
  BY <1>1, AnsweredType DEF Answers
<1>4. /\ p \in Dial /\ p.step = "resolve" /\ p.at = o.at /\ p.addrs = o.addrs /\ p.lost = o.lost /\ p.sockets = o.sockets
  BY <1>1 DEF Started, Dial
<1> HIDE DEF j, p
<1>5. /\ \A k \in 1 .. Len(j.answers) : k < Len(j.answers) => j.answers[k] = "rejected" /\ inbound = "http"
      /\ inbound = "socks" => j.answers = <<"ok">>
  BY <1>1, <1>3, <1>4, FirstAnswer DEF Good, Told, Answers
<1>6. Good(j, p)
  BY <1>1, <1>3, <1>4, <1>5 DEF Good, Owns, Dialled, Told, Unanswered, Truthful
<1> QED  BY <1>1, <1>2, <1>3, <1>4, <1>5, <1>6, OneConnOnly

LEMMA TakeHttpStep ==
  ASSUME IInv, NEW c \in Conns, TakeHttp(c)
  PROVE  IInv'
<1> DEFINE i == conn[c]
           o == dial[c]
           j == [i EXCEPT !.task = "reply"]
<1>1. /\ i \in Conn /\ o \in Dial /\ Good(i, o)
      /\ i.task = "request" /\ inbound = "http"
  BY Records DEF TakeHttp
<1>2. SetConn(c, j) /\ SetDial(c, o) /\ UNCHANGED kept
  BY <1>1, SameDial DEF TakeHttp
<1> HIDE DEF i, o
<1>3. /\ j \in Conn /\ j.task = "reply" /\ j.client = i.client /\ j.gone = i.gone /\ j.answers = i.answers
  BY <1>1, TaskType
<1> HIDE DEF j
<1>4. Good(j, o)
  BY <1>1, <1>3 DEF Good, Owns, Dialled, Told, Unanswered, Truthful
<1> QED  BY <1>1, <1>2, <1>3, <1>4, OneConnOnly

-----------------------------------------------------------------------------
(* The dial. *)
LEMMA NextAddress ==
  ASSUME NEW o \in Dial, o.at < o.addrs
  PROVE  /\ o.at \in Nat /\ o.addrs \in Nat /\ o.at + 1 \in 0 .. MaxAddrs /\ o.at + 1 \in 1 .. MaxAddrs /\ o.at + 1 <= o.addrs
         /\ o.at + 1 > 0 /\ (o.at + 1) - 1 = o.at /\ o.at + 1 # 0
         /\ 1 .. (o.at + 1) = (1 .. o.at) \cup {o.at + 1}
<1>1. o.at \in 0 .. MaxAddrs /\ o.addrs \in 0 .. MaxAddrs /\ MaxAddrs \in Nat
  BY RelayAssumption DEF Dial
<1> QED  BY <1>1

LEMMA DialNextStep ==
  ASSUME IInv, NEW c \in Conns, DialNext(c)
  PROVE  IInv'
<1> DEFINE i == conn[c]
           o == dial[c]
           n == o.at + 1
           p == [o EXCEPT !.at = n, !.sockets = {n}]
<1>1. /\ i \in Conn /\ o \in Dial /\ Good(i, o)
      /\ i.task = "connect" /\ o.step = "dial" /\ o.sockets = {} /\ o.at < o.addrs
  BY Records DEF DialNext, HasNext, Connecting
<1>2. SetConn(c, i) /\ SetDial(c, p) /\ UNCHANGED kept
  BY SameConn DEF DialNext
<1> HIDE DEF i, o
<1>3. n \in 0 .. MaxAddrs /\ n \in 1 .. MaxAddrs /\ n <= o.addrs /\ n > 0 /\ n - 1 = o.at
  BY <1>1, NextAddress
<1> HIDE DEF n
<1>4. /\ p \in Dial /\ p.step = o.step /\ p.at = n /\ p.addrs = o.addrs /\ p.lost = o.lost /\ p.sockets = {n}
  BY <1>1, <1>3 DEF Dial
<1> HIDE DEF p
<1>5. o.lost = 1 .. o.at
  BY <1>1 DEF Good, Dialled
<1>6. Good(i, p)
  BY <1>1, <1>3, <1>4, <1>5 DEF Good, Owns, Dialled, Told, Unanswered, Truthful
<1> QED  BY <1>1, <1>2, <1>4, <1>6, OneConnOnly

LEMMA NoDescriptorStep ==
  ASSUME IInv, NEW c \in Conns, NoDescriptor(c)
  PROVE  IInv'
<1> DEFINE i == conn[c]
           o == dial[c]
           n == o.at + 1
           p == [o EXCEPT !.at = n, !.lost = @ \cup {n}]
<1>1. /\ i \in Conn /\ o \in Dial /\ Good(i, o)
      /\ i.task = "connect" /\ o.step = "dial" /\ o.sockets = {} /\ o.at < o.addrs
  BY Records DEF NoDescriptor, HasNext, Connecting
<1>2. SetConn(c, i) /\ SetDial(c, p) /\ UNCHANGED kept
  BY SameConn DEF NoDescriptor
<1> HIDE DEF i, o
<1>3. n \in 0 .. MaxAddrs /\ n \in 1 .. MaxAddrs /\ n <= o.addrs /\ 1 .. n = (1 .. o.at) \cup {n}
  BY <1>1, NextAddress
<1> HIDE DEF n
<1>4. /\ p \in Dial /\ p.step = o.step /\ p.at = n /\ p.addrs = o.addrs
      /\ p.lost = o.lost \cup {n} /\ p.sockets = {}
  BY <1>1, <1>3 DEF Dial
<1> HIDE DEF p
<1>5. o.lost = 1 .. o.at
  BY <1>1, NextAddress DEF Good, Dialled
<1>6. p.lost = 1 .. p.at /\ p.at <= p.addrs
  BY <1>3, <1>4, <1>5
<1>7. Good(i, p)
  BY <1>1, <1>4, <1>6 DEF Good, Owns, Dialled, Told, Unanswered, Truthful
<1> QED  BY <1>1, <1>2, <1>4, <1>7, OneConnOnly

LEMMA LostStep ==
  ASSUME IInv, NEW c \in Conns, SetDial(c, Lost(dial[c])), Trying(c), UNCHANGED <<kept, conn>>
  PROVE  IInv'
<1> DEFINE i == conn[c]
           o == dial[c]
           p == Lost(o)
<1>1. /\ i \in Conn /\ o \in Dial /\ Good(i, o)
      /\ i.task = "connect" /\ o.step = "dial" /\ o.at \in o.sockets
  BY Records DEF Trying, Connecting
<1>2. SetConn(c, i) /\ SetDial(c, p) /\ UNCHANGED kept
  BY <1>1, SameConn DEF Trying, Connecting
<1> HIDE DEF i, o
<1>3. /\ p \in Dial /\ p.lost = o.lost \cup {o.at} /\ p.sockets = o.sockets \ {o.at} /\ p.step = o.step /\ p.at = o.at /\ p.addrs = o.addrs
  BY <1>1 DEF Lost, Dial
<1> HIDE DEF p
<1>4. p.sockets = {} /\ p.lost = 1 .. p.at /\ p.at <= p.addrs
  BY <1>1, <1>3 DEF Good, Dialled, Dial
<1>5. Good(i, p)
  BY <1>1, <1>3, <1>4 DEF Good, Owns, Dialled, Told, Unanswered, Truthful
<1> QED  BY <1>1, <1>2, <1>3, <1>4, <1>5, OneConnOnly

LEMMA EstablishedStep ==
  ASSUME IInv, NEW c \in Conns, Established(c)
  PROVE  IInv'
<1> DEFINE i == conn[c]
           o == dial[c]
           p == [o EXCEPT !.step = IF HasTimeout THEN "wrap" ELSE "handshake"]
<1>1. /\ i \in Conn /\ o \in Dial /\ Good(i, o)
      /\ i.task = "connect" /\ o.step = "dial" /\ o.at \in o.sockets
  BY Records DEF Established, Trying, Connecting
<1>2. SetConn(c, i) /\ SetDial(c, p) /\ UNCHANGED kept
  BY <1>1, SameConn DEF Established, Trying, Connecting
<1> HIDE DEF i, o
<1>3. /\ p \in Dial /\ p.step \in {"wrap", "handshake"} /\ p.at = o.at /\ p.addrs = o.addrs /\ p.lost = o.lost /\ p.sockets = o.sockets
  BY <1>1 DEF Dial
<1> HIDE DEF p
<1>4. p.sockets = {p.at} /\ p.lost = 1 .. p.at - 1 /\ p.at \in 1 .. p.addrs
  BY <1>1, <1>3 DEF Good, Dialled, Dial
<1>5. Good(i, p)
  BY <1>1, <1>3, <1>4 DEF Good, Owns, Dialled, Told, Unanswered, Truthful
<1> QED  BY <1>1, <1>2, <1>3, <1>4, <1>5, OneConnOnly

LEMMA SucceedStep ==
  ASSUME IInv, NEW c \in Conns, Succeed(c), conn[c].task = "connect",
         dial[c].step \in {"wrap", "request", "handshake"}, UNCHANGED kept
  PROVE  IInv'
<1> DEFINE i == conn[c]
           o == dial[c]
           j == [i EXCEPT !.task = IF inbound = "socks" THEN "reply" ELSE "tunnel"]
           p == [o EXCEPT !.step = "connected"]
<1>1. /\ i \in Conn /\ o \in Dial /\ Good(i, o)
      /\ i.task = "connect" /\ o.step \in {"wrap", "request", "handshake"}
  BY Records DEF Succeed
<1>2. SetConn(c, j) /\ SetDial(c, p) /\ UNCHANGED kept
  BY <1>1 DEF Succeed
<1> HIDE DEF i, o
<1>3. /\ j \in Conn /\ j.task = (IF inbound = "socks" THEN "reply" ELSE "tunnel") /\ j.client = i.client /\ j.gone = i.gone /\ j.answers = i.answers
  BY <1>1 DEF Conn
<1>4. /\ p \in Dial /\ p.step = "connected" /\ p.at = o.at /\ p.addrs = o.addrs /\ p.lost = o.lost /\ p.sockets = o.sockets
  BY <1>1 DEF Dial
<1> HIDE DEF j, p
<1>5. Good(j, p)
  BY <1>1, <1>3, <1>4 DEF Good, Owns, Dialled, Told, Unanswered, Truthful
<1> QED  BY <1>1, <1>2, <1>3, <1>4, <1>5, OneConnOnly

(* The sockets that are left are none, or the HTTP outbound's. *)
LEMMA FailStep ==
  ASSUME IInv, NEW c \in Conns, NEW left, Fail(c, left), conn[c].task = "connect",
         left = {} \/ (outbound = "http" /\ left = {dial[c].at} /\ left = dial[c].sockets),
         dial[c].at \in dial[c].lost \cup {0} => dial[c].lost = 1 .. dial[c].addrs, UNCHANGED kept
  PROVE  IInv'
<1> DEFINE i == conn[c]
           o == dial[c]
           j == IF inbound = "socks" THEN [i EXCEPT !.task = "refuse"] ELSE Finished(i)
           p == [o EXCEPT !.step = "failed", !.sockets = left]
<1>1. /\ i \in Conn /\ o \in Dial /\ Good(i, o)
      /\ i.task = "connect" /\ (left = {} \/ (outbound = "http" /\ left = {o.at} /\ left = o.sockets))
      /\ o.at \in o.lost \cup {0} => o.lost = 1 .. o.addrs
  BY Records DEF Fail
<1>2. SetConn(c, j) /\ SetDial(c, p) /\ UNCHANGED kept
  BY <1>1 DEF Fail
<1> HIDE DEF i, o
<1>3. /\ j \in Conn /\ j.gone = i.gone /\ j.answers = i.answers
      /\ inbound = "socks" => j.task = "refuse" /\ j.client = i.client
      /\ inbound # "socks" => j.task = "done" /\ j.client = "dropped"
  BY <1>1, TaskType, FinishedType
<1>4. /\ p \in Dial /\ p.step = "failed" /\ p.sockets = left /\ p.at = o.at /\ p.addrs = o.addrs /\ p.lost = o.lost
  BY <1>1 DEF Dial
<1> HIDE DEF j, p
<1>5. Good(j, p)
  BY <1>1, <1>3, <1>4 DEF Good, Owns, Dialled, Told, Unanswered, Truthful
<1> QED  BY <1>1, <1>2, <1>3, <1>4, <1>5, OneConnOnly

LEMMA ConnTaskEndsStep ==
  ASSUME IInv, NEW c \in Conns, ConnTaskEnds(c)
  PROVE  IInv'
<1> DEFINE i == conn[c]
           o == dial[c]
           p == Closed(o)
<1>1. /\ i \in Conn /\ o \in Dial /\ Good(i, o)
      /\ outbound = "http" /\ o.step = "failed"
  BY Records DEF ConnTaskEnds
<1>2. SetConn(c, i) /\ SetDial(c, p) /\ UNCHANGED kept
  BY <1>1, SameConn DEF ConnTaskEnds
<1> HIDE DEF i, o
<1>3. /\ p \in Dial /\ p.sockets = {} /\ p.step = o.step /\ p.at = o.at /\ p.addrs = o.addrs /\ p.lost = o.lost
  BY <1>1, ClosedType
<1> HIDE DEF p
<1>4. Good(i, p)
  BY <1>1, <1>3 DEF Good, Owns, Dialled, Told, Unanswered, Truthful
<1> QED  BY <1>1, <1>2, <1>3, <1>4, OneConnOnly

LEMMA AskServerStep ==
  ASSUME IInv, NEW c \in Conns, Connecting(c, "wrap"), SetDial(c, [dial[c] EXCEPT !.step = "request"]), UNCHANGED <<kept, conn>>
  PROVE  IInv'
<1> DEFINE i == conn[c]
           o == dial[c]
           p == [o EXCEPT !.step = "request"]
<1>1. /\ i \in Conn /\ o \in Dial /\ Good(i, o)
      /\ i.task = "connect" /\ o.step = "wrap"
  BY Records DEF Connecting
<1>2. SetConn(c, i) /\ SetDial(c, p) /\ UNCHANGED kept
  BY <1>1, SameConn DEF Connecting
<1> HIDE DEF i, o
<1>3. /\ p \in Dial /\ p.step = "request" /\ p.at = o.at /\ p.addrs = o.addrs /\ p.lost = o.lost /\ p.sockets = o.sockets
  BY <1>1 DEF Dial
<1> HIDE DEF p
<1>4. Good(i, p)
  BY <1>1, <1>3 DEF Good, Owns, Dialled, Told, Unanswered, Truthful
<1> QED  BY <1>1, <1>2, <1>3, <1>4, OneConnOnly

-----------------------------------------------------------------------------
(* The answer and the tunnel. *)
LEMMA ReplySocksStep ==
  ASSUME IInv, NEW c \in Conns, Reply(c), inbound = "socks"
  PROVE  IInv'
<1> DEFINE i == conn[c]
           o == dial[c]
           j == Answered(i, "ok", "tunnel")
<1>1. /\ i \in Conn /\ o \in Dial /\ Good(i, o)
      /\ i.task = "reply" /\ inbound = "socks"
  BY Records DEF Reply
<1>2. SetConn(c, j) /\ SetDial(c, o) /\ UNCHANGED kept
  BY <1>1, SameDial DEF Reply
<1> HIDE DEF i, o
<1>3. /\ j \in Conn /\ j.task = "tunnel" /\ j.client = i.client /\ j.answers = Append(i.answers, "ok")
  BY <1>1, AnsweredType DEF Answers
<1> HIDE DEF j
<1>4. /\ \A k \in 1 .. Len(j.answers) : k < Len(j.answers) => j.answers[k] = "rejected" /\ inbound = "http"
      /\ inbound = "socks" => j.answers = <<"ok">>
  BY <1>1, <1>3, FirstAnswer DEF Good, Told, Answers
<1>5. Good(j, o)
  BY SMTT(60), <1>1, <1>3, <1>4 DEF Good, Owns, Dialled, Told, Unanswered, Truthful
<1> QED  BY <1>1, <1>2, <1>3, <1>4, <1>5, OneConnOnly

LEMMA ReplyHttpStep ==
  ASSUME IInv, NEW c \in Conns, Reply(c), inbound # "socks"
  PROVE  IInv'
<1> DEFINE i == conn[c]
           o == dial[c]
           j == Answered(i, "ok", "connect")
           p == Started(o)
<1>1. /\ i \in Conn /\ o \in Dial /\ Good(i, o)
      /\ i.task = "reply" /\ inbound # "socks"
  BY Records DEF Reply
<1>2. SetConn(c, j) /\ SetDial(c, p) /\ UNCHANGED kept
  BY <1>1 DEF Reply
<1> HIDE DEF i, o
<1>3. /\ j \in Conn /\ j.task = "connect" /\ j.client = i.client /\ j.answers = Append(i.answers, "ok")
  BY <1>1, AnsweredType DEF Answers
<1>4. /\ p \in Dial /\ p.step = "resolve" /\ p.at = o.at /\ p.addrs = o.addrs /\ p.lost = o.lost /\ p.sockets = o.sockets
  BY <1>1 DEF Started, Dial
<1> HIDE DEF j, p
<1>5. /\ \A k \in 1 .. Len(j.answers) : k < Len(j.answers) => j.answers[k] = "rejected" /\ inbound = "http"
      /\ inbound = "socks" => j.answers = <<"ok">>
  BY <1>1, <1>3, <1>4, FirstAnswer DEF Good, Told, Answers
<1>6. Good(j, p)
  BY <1>1, <1>3, <1>4, <1>5 DEF Good, Owns, Dialled, Told, Unanswered, Truthful
<1> QED  BY <1>1, <1>2, <1>3, <1>4, <1>5, <1>6, OneConnOnly

LEMMA ReplyFailsStep ==
  ASSUME IInv, NEW c \in Conns, ReplyFails(c)
  PROVE  IInv'
<1> DEFINE i == conn[c]
           o == dial[c]
           j == Finished(i)
           p == Closed(o)
<1>1. /\ i \in Conn /\ o \in Dial /\ Good(i, o)
      /\ i.task = "reply" /\ i.gone
  BY Records DEF ReplyFails
<1>2. SetConn(c, j) /\ SetDial(c, p) /\ UNCHANGED kept
  BY <1>1 DEF ReplyFails
<1> HIDE DEF i, o
<1>3. /\ j \in Conn /\ j.task = "done" /\ j.client = "dropped" /\ j.gone = i.gone /\ j.answers = i.answers
  BY <1>1, FinishedType
<1>4. /\ p \in Dial /\ p.sockets = {} /\ p.step = o.step /\ p.at = o.at /\ p.addrs = o.addrs /\ p.lost = o.lost
  BY <1>1, ClosedType
<1> HIDE DEF j, p
<1>5. Good(j, p)
  BY <1>1, <1>3, <1>4 DEF Good, Owns, Dialled, Told, Unanswered, Truthful
<1> QED  BY <1>1, <1>2, <1>3, <1>4, <1>5, OneConnOnly

LEMMA RefuseStep ==
  ASSUME IInv, NEW c \in Conns, SetConn(c, Parting(conn[c], "refused")), conn[c].task = "refuse", UNCHANGED <<kept, dial>>
  PROVE  IInv'
<1> DEFINE i == conn[c]
           o == dial[c]
           j == Parting(i, "refused")
<1>1. /\ i \in Conn /\ o \in Dial /\ Good(i, o)
      /\ i.task = "refuse"
  BY Records DEF kept
<1>2. SetConn(c, j) /\ SetDial(c, o) /\ UNCHANGED kept
  BY <1>1, SameDial DEF kept
<1> HIDE DEF i, o
<1>3. /\ j \in Conn /\ j.task = "done" /\ j.client = "dropped" /\ j.answers = Append(i.answers, "refused")
  BY <1>1, PartingType DEF Answers
<1> HIDE DEF j
<1>4. /\ \A k \in 1 .. Len(j.answers) : k < Len(j.answers) => j.answers[k] = "rejected" /\ inbound = "http"
      /\ inbound = "socks" => j.answers = <<"refused">>
  BY <1>1, <1>3, FirstAnswer DEF Good, Told, Answers
<1>5. Good(j, o)
  BY <1>1, <1>3, <1>4 DEF Good, Owns, Dialled, Told, Unanswered, Truthful
<1> QED  BY <1>1, <1>2, <1>3, <1>4, <1>5, OneConnOnly

LEMMA RefuseGoneStep ==
  ASSUME IInv, NEW c \in Conns, SetConn(c, Finished(conn[c])), conn[c].task = "refuse", conn[c].gone, UNCHANGED <<kept, dial>>
  PROVE  IInv'
<1> DEFINE i == conn[c]
           o == dial[c]
           j == Finished(i)
<1>1. /\ i \in Conn /\ o \in Dial /\ Good(i, o)
      /\ i.task = "refuse" /\ i.gone
  BY Records DEF kept
<1>2. SetConn(c, j) /\ SetDial(c, o) /\ UNCHANGED kept
  BY <1>1, SameDial DEF kept
<1> HIDE DEF i, o
<1>3. /\ j \in Conn /\ j.task = "done" /\ j.client = "dropped" /\ j.gone = i.gone /\ j.answers = i.answers
  BY <1>1, FinishedType
<1> HIDE DEF j
<1>4. Good(j, o)
  BY <1>1, <1>3 DEF Good, Owns, Dialled, Told, Unanswered, Truthful
<1> QED  BY <1>1, <1>2, <1>3, <1>4, OneConnOnly

LEMMA EndDirectionStep ==
  ASSUME IInv, NEW c \in Conns, NEW d \in Directions, EndDirection(c, d)
  PROVE  IInv'
<1> DEFINE i == conn[c]
           o == dial[c]
           j == [i EXCEPT !.ended = @ \cup {d}]
<1>1. /\ i \in Conn /\ o \in Dial /\ Good(i, o)
      /\ i.task = "tunnel"
  BY Records DEF EndDirection
<1>2. SetConn(c, j) /\ SetDial(c, o) /\ UNCHANGED kept
  BY <1>1, SameDial DEF EndDirection
<1> HIDE DEF i, o
<1>3. /\ j \in Conn /\ j.task = i.task /\ j.client = i.client /\ j.gone = i.gone /\ j.answers = i.answers
  BY <1>1 DEF Conn
<1> HIDE DEF j
<1>4. Good(j, o)
  BY <1>1, <1>3 DEF Good, Owns, Dialled, Told, Unanswered, Truthful
<1> QED  BY <1>1, <1>2, <1>3, <1>4, OneConnOnly

LEMMA TunnelEndsStep ==
  ASSUME IInv, NEW c \in Conns, TunnelEnds(c) \/ TunnelFails(c)
  PROVE  IInv'
<1> DEFINE i == conn[c]
           o == dial[c]
           j == Finished(i)
           p == Closed(o)
<1>1. /\ i \in Conn /\ o \in Dial /\ Good(i, o)
      /\ i.task = "tunnel"
  BY Records DEF TunnelEnds, TunnelFails
<1>2. SetConn(c, j) /\ SetDial(c, p) /\ UNCHANGED kept
  BY <1>1 DEF TunnelEnds, TunnelFails
<1> HIDE DEF i, o
<1>3. /\ j \in Conn /\ j.task = "done" /\ j.client = "dropped" /\ j.gone = i.gone /\ j.answers = i.answers
  BY <1>1, FinishedType
<1>4. /\ p \in Dial /\ p.sockets = {} /\ p.step = o.step /\ p.at = o.at /\ p.addrs = o.addrs /\ p.lost = o.lost
  BY <1>1, ClosedType
<1> HIDE DEF j, p
<1>5. Good(j, p)
  BY <1>1, <1>3, <1>4 DEF Good, Owns, Dialled, Told, Unanswered, Truthful
<1> QED  BY <1>1, <1>2, <1>3, <1>4, <1>5, OneConnOnly

-----------------------------------------------------------------------------
(* The steps that concern more than one record. *)

(* How many addresses a lookup leaves to dial. *)
LEMMA ResolveStep ==
  ASSUME IInv, NEW c \in Conns, Resolve(c)
  PROVE  IInv'
<1> DEFINE i == conn[c]
           o == dial[c]
<1>1. PICK n \in 0 .. MaxAddrs : SetDial(c, [o EXCEPT !.step = "dial", !.addrs = n])
  <2>1. PICK found \in 0 .. MaxAddrs :
          SetDial(c, [o EXCEPT !.step = "dial",
                               !.addrs = CASE outbound = "tcp" -> found
                                           [] ByVless -> 1
                                           [] OTHER -> IF found = 0 THEN 0 ELSE 1])
    BY DEF Resolve
  <2>2. 0 \in 0 .. MaxAddrs /\ 1 \in 0 .. MaxAddrs
    BY RelayAssumption
  <2> QED  BY <2>1, <2>2
<1> DEFINE p == [o EXCEPT !.step = "dial", !.addrs = n]
<1>2. i \in Conn /\ o \in Dial /\ Good(i, o) /\ i.task = "connect" /\ o.step = "resolve"
  BY Records DEF Resolve, Connecting
<1>3. SetConn(c, i) /\ SetDial(c, p) /\ UNCHANGED kept
  BY <1>1, SameConn DEF Resolve
<1> HIDE DEF i, o
<1>4. /\ p \in Dial /\ p.step = "dial" /\ p.at = o.at /\ p.addrs = n
      /\ p.lost = o.lost /\ p.sockets = o.sockets
  BY <1>2 DEF Dial
<1> HIDE DEF p
<1>5. p.at = 0 /\ p.lost = {} /\ p.sockets = {}
  BY <1>2, <1>4 DEF Good, Dialled
<1>6. 0 <= n /\ {} = 1 .. 0
  OBVIOUS
<1>7. Good(i, p)
  BY <1>2, <1>4, <1>5, <1>6 DEF Good, Owns, Dialled, Told, Unanswered, Truthful
<1> QED  BY <1>2, <1>3, <1>4, <1>7, OneConnOnly

LEMMA ExitStep ==
  ASSUME IInv, Exit
  PROVE  IInv'
<1>1. ASSUME NEW c \in Conns
      PROVE  conn'[c] \in Conn /\ dial'[c] \in Dial /\ Good(conn[c], dial[c])'
  <2> DEFINE i == conn[c]
             o == dial[c]
             j == conn'[c]
             p == dial'[c]
  <2>1. i \in Conn /\ o \in Dial /\ Good(i, o)
    BY Records
  <2>2. /\ p = Closed(o) /\ j = (IF i.client = "absent" THEN i ELSE Finished(i))
        /\ UNCHANGED <<inbound, outbound>> /\ ~alive'
    BY DEF Exit
  <2> HIDE DEF i, o
  <2>3. /\ p \in Dial /\ p.sockets = {} /\ p.step = o.step /\ p.at = o.at
        /\ p.addrs = o.addrs /\ p.lost = o.lost
    BY <2>1, <2>2, ClosedType
  <2>4. /\ j \in Conn /\ j.answers = i.answers
        /\ \/ i.client = "absent" /\ j = i
           \/ j.task = "done" /\ j.client = "dropped"
    BY <2>1, <2>2, FinishedType
  <2> HIDE DEF j, p
  <2>5. Owns(conn[c], dial[c])' /\ Dialled(conn[c], dial[c])'
    BY <2>1, <2>2, <2>3, <2>4 DEF Good, Owns, Dialled, j, p
  <2>6. Told(conn[c])' /\ Truthful(conn[c], dial[c])'
    BY <2>1, <2>2, <2>3, <2>4 DEF Good, Owns, Told, Unanswered, Truthful, j, p
  <2> QED  BY <2>3, <2>4, <2>5, <2>6 DEF Good, j, p
<1>2. TypeOK'
  BY <1>1 DEF IInv, TypeOK, Exit
<1> QED  BY <1>1, <1>2 DEF IInv

LEMMA QuietStep ==
  ASSUME IInv, UNCHANGED <<inbound, outbound, alive, conn, dial>>,
         listening' \in BOOLEAN, ready' \in BOOLEAN
  PROVE  IInv'
<1>1. TypeOK'
  BY DEF IInv, TypeOK
<1>2. ASSUME NEW c \in Conns PROVE Good(conn[c], dial[c])'
  BY DEF IInv, Good, Owns, Dialled, Told, Unanswered, Truthful
<1> QED  BY <1>1, <1>2 DEF IInv

LEMMA InitGood ==
  Init => IInv
<1> SUFFICES ASSUME Init PROVE IInv
  OBVIOUS
<1>1. NewConn \in Conn /\ NewDial \in Dial
  <2>1. <<>> \in Seq(Answers)
    OBVIOUS
  <2>2. 0 \in 0 .. MaxAddrs
    BY RelayAssumption
  <2> QED  BY <2>1, <2>2 DEF NewConn, NewDial, Conn, Dial
<1>2. Good(NewConn, NewDial)
  <2>1. Len(<<>>) = 0 /\ 1 .. 0 = {}
    OBVIOUS
  <2> QED  BY <2>1 DEF NewConn, NewDial, Good, Owns, Dialled, Told, Unanswered, Truthful
<1>3. TypeOK
  BY <1>1 DEF Init, TypeOK
<1> QED  BY <1>2, <1>3 DEF Init, IInv

-----------------------------------------------------------------------------
(* The invariant. *)

(* An established dial has not lost its address. *)
LEMMA NotLost ==
  ASSUME IInv, NEW c \in Conns, dial[c].step \in {"wrap", "request"}
  PROVE  dial[c].at \notin dial[c].lost \cup {0}
<1> DEFINE o == dial[c]
<1>1. o \in Dial /\ Dialled(conn[c], o)
  BY Records DEF Good
<1>2. o.at \in 1 .. o.addrs /\ o.addrs \in Nat /\ o.lost = 1 .. o.at - 1
  BY <1>1, RelayAssumption DEF Dialled, Dial
<1> HIDE DEF o
<1>3. o.at \notin o.lost \cup {0}
  BY <1>2
<1> QED  BY <1>3 DEF o

(* The request is in the stream, or could not be sent. *)
LEMMA RequestStep ==
  ASSUME IInv, NEW c \in Conns, SendRequest(c) \/ SendRequestOverTls(c)
  PROVE  IInv'
<1>1. conn[c].task = "connect" /\ dial[c].step = "request" /\ UNCHANGED kept
  BY DEF SendRequest, SendRequestOverTls, Connecting
<1>2. CASE Fail(c, {})
  BY <1>1, <1>2, NotLost, FailStep
<1>3. CASE Succeed(c)
  BY <1>1, <1>3, SucceedStep
<1> QED  BY <1>2, <1>3 DEF SendRequest, SendRequestOverTls

LEMMA ExternalStep ==
  ASSUME IInv, NEW c \in Conns, External(c)
  PROVE  IInv'
<1>1. CASE Arrive(c)         BY <1>1, ArriveStep
<1>2. CASE Leave(c)          BY <1>2, LeaveStep
<1>3. CASE BadRequest(c)     BY <1>3, BadRequestStep
<1>4. CASE RejectSocks(c)    BY <1>4, RejectSocksStep
<1>5. CASE RejectHttp(c)     BY <1>5, RejectHttpStep
<1>6. CASE RejectVless(c)    BY <1>6, RejectVlessStep
<1>7. CASE TakeSocks(c)      BY <1>7, TakeSocksStep
<1>8. CASE TakeVless(c)      BY <1>8, TakeVlessStep
<1>9. CASE TakeHttp(c)       BY <1>9, TakeHttpStep
<1>10. CASE Refused(c)
  BY <1>10, LostStep DEF Refused, kept
<1>11. CASE Established(c)   BY <1>11, EstablishedStep
<1>12. CASE ServerAgrees(c)
  BY <1>12, SucceedStep DEF ServerAgrees, Connecting
<1>13. CASE ServerRefuses(c) \/ ServerCloses(c)
  <2> DEFINE o == dial[c]
  <2>1. conn[c].task = "connect" /\ o.step = "handshake" /\ UNCHANGED kept
    BY <1>13 DEF ServerRefuses, ServerCloses, Connecting
  <2>2. o.at \in Nat \ {0} /\ o.lost = 1 .. o.at - 1 /\ o.sockets = {o.at}
    <3>1. o \in Dial /\ Dialled(conn[c], o)
      BY Records DEF Good
    <3>2. o.at \in 1 .. o.addrs /\ o.addrs \in Nat
      BY <2>1, <3>1, RelayAssumption DEF Dialled, Dial
    <3> QED  BY <2>1, <3>1, <3>2 DEF Dialled
  <2>3. o.at \notin o.lost \cup {0}
    BY <2>2
  <2>4. \E left : Fail(c, left) /\ (left = {} \/ (outbound = "http" /\ left = o.sockets))
    BY <1>13 DEF ServerRefuses, ServerCloses
  <2> QED  BY <2>1, <2>2, <2>3, <2>4, FailStep
<1>14. CASE \E d \in Directions : EndDirection(c, d)
  BY <1>14, EndDirectionStep
<1>15. CASE TunnelFails(c)   BY <1>15, TunnelEndsStep
<1>16. CASE SendRequestOverTls(c)
  BY <1>16, RequestStep
<1> QED
  BY <1>1, <1>2, <1>3, <1>4, <1>5, <1>6, <1>7, <1>8, <1>9, <1>10, <1>11, <1>12, <1>13, <1>14, <1>15,
     <1>16
  DEF External

LEMMA OwnStep ==
  ASSUME IInv, NEW c \in Conns, Own(c)
  PROVE  IInv'
<1>1. CASE Resolve(c)        BY <1>1, ResolveStep
<1>2. CASE DialNext(c)       BY <1>2, DialNextStep
<1>3. CASE NoDescriptor(c)   BY <1>3, NoDescriptorStep
<1>4. CASE TimesOut(c)
  BY <1>4, LostStep DEF TimesOut, kept
<1>5. CASE GiveUp(c)
  <2>1. /\ conn[c].task = "connect" /\ dial[c].step = "dial" /\ dial[c].sockets = {}
        /\ dial[c].at = dial[c].addrs /\ Fail(c, {}) /\ UNCHANGED kept
    BY <1>5 DEF GiveUp, Connecting
  <2>2. dial[c].lost = 1 .. dial[c].addrs
    BY <2>1, Records DEF Good, Dialled
  <2> QED  BY <2>1, <2>2, FailStep
<1>6. CASE Wrap(c)
  <2>1. conn[c].task = "connect" /\ dial[c].step = "wrap" /\ UNCHANGED kept
    BY <1>6 DEF Wrap, Connecting
  <2>2. CASE Fail(c, {})
    BY <2>1, <2>2, NotLost, FailStep
  <2>3. CASE Succeed(c)
    BY <2>1, <2>3, SucceedStep
  <2>4. CASE SetDial(c, [dial[c] EXCEPT !.step = "request"]) /\ UNCHANGED conn
    BY <2>1, <2>4, AskServerStep DEF Connecting, kept
  <2> QED  BY <1>6, <2>2, <2>3, <2>4 DEF Wrap
<1>7. CASE SendRequest(c)    BY <1>7, RequestStep
<1>8. CASE ConnTaskEnds(c)   BY <1>8, ConnTaskEndsStep
<1>9. CASE Reply(c)          BY <1>9, ReplySocksStep, ReplyHttpStep
<1>10. CASE ReplyFails(c)    BY <1>10, ReplyFailsStep
<1>11. CASE Refuse(c)
  BY <1>11, RefuseStep, RefuseGoneStep DEF Refuse, kept
<1>12. CASE TunnelEnds(c)    BY <1>12, TunnelEndsStep
<1> QED
  BY <1>1, <1>2, <1>3, <1>4, <1>5, <1>6, <1>7, <1>8, <1>9, <1>10, <1>11, <1>12 DEF Own

(* Relay's inductive invariant holds: in every reachable state the place of *)
(* each handler fits its dial, its sockets and what its client was told.    *)
THEOREM Inductive == Spec => []IInv
<1>1. Init => IInv
  BY InitGood
<1>2. IInv /\ [Next]_vars => IInv'
  <2> SUFFICES ASSUME IInv, [Next]_vars PROVE IInv'
    OBVIOUS
  <2>1. CASE WouldBlock
    BY <2>1, QuietStep DEF WouldBlock, IInv, TypeOK
  <2>2. CASE AcceptFails
    BY <2>2, QuietStep DEF AcceptFails, IInv, TypeOK
  <2>3. CASE Exit
    BY <2>3, ExitStep
  <2>4. CASE \E c \in Conns : Accept(c) \/ External(c) \/ Own(c)
    BY <2>4, AcceptStep, ExternalStep, OwnStep
  <2>5. CASE UNCHANGED vars
    BY <2>5, QuietStep DEF vars, IInv, TypeOK
  <2> QED  BY <2>1, <2>2, <2>3, <2>4, <2>5 DEF Next
<1> QED  BY <1>1, <1>2, PTL DEF Spec

-----------------------------------------------------------------------------
(* What it gives. *)

(* Every field keeps its type: TypeOK of Relay's handlers and dials. *)
THEOREM TypeCorrect == Spec => []TypeOK
BY Inductive, PTL DEF IInv

(* No path of the three handlers answers a client that has had its final    *)
(* answer.                                                                  *)
THEOREM OneAnswer == Spec => []AnsweredOnce
<1>1. IInv => AnsweredOnce
  BY DEF IInv, Good, Told, AnsweredOnce
<1> QED  BY <1>1, Inductive, PTL

(* handle_socks5_stream reports success exactly of the connects that        *)
(* returned a stream, and leaves no client without an answer.               *)
THEOREM SocksTold == Spec => []SocksAnswerIsTrue
<1>1. IInv => SocksAnswerIsTrue
  BY DEF IInv, Good, Truthful, SocksAnswerIsTrue
<1> QED  BY <1>1, Inductive, PTL

LEMMA Accounts ==
  IInv => SocketsAccounted
<1>1. ASSUME IInv, NEW c \in Conns
      PROVE  /\ dial[c].sockets \subseteq {dial[c].at}
             /\ dial[c].sockets # {} =>
                  \/ conn[c].task \in {"connect", "reply", "tunnel"}
                  \/ outbound = "http" /\ dial[c].step = "failed"
             /\ conn[c].client = "open" <=> conn[c].task \notin {"none", "done"}
             /\ conn[c].task = "tunnel" => dial[c].sockets = {dial[c].at}
  <2> DEFINE i == conn[c]
             o == dial[c]
  <2>1. i \in Conn /\ o \in Dial /\ Good(i, o)
    BY <1>1, Records
  <2> HIDE DEF i, o
  <2>2. i.client = "open" <=> i.task \notin {"none", "done"}
    BY <2>1 DEF Good, Owns
  <2>3. i.task = "tunnel" => o.sockets = {o.at}
    BY <2>1 DEF Good, Owns, Dialled
  <2>4. CASE i.task \in {"none", "request"}
    BY <2>1, <2>2, <2>3, <2>4 DEF Good, Owns, Dialled, i, o
  <2>5. CASE i.task \in {"reply", "tunnel", "refuse", "done"}
    <3>1. o.sockets \subseteq {o.at}
      BY <2>1, <2>5 DEF Good, Owns, Dialled
    <3>2. o.sockets # {} => i.task \in {"reply", "tunnel"} \/ (outbound = "http" /\ o.step = "failed")
      BY <2>1, <2>5 DEF Good, Owns, Dialled
    <3> QED  BY <2>2, <2>3, <3>1, <3>2 DEF i, o
  <2>6. CASE i.task = "connect"
    <3>1. o.sockets \subseteq {o.at}
      BY <2>1, <2>6 DEF Good, Owns, Dialled
    <3> QED  BY <2>2, <2>3, <2>6, <3>1 DEF i, o
  <2>7. i.task \in {"none", "request", "reply", "connect", "refuse", "tunnel", "done"}
    BY <2>1 DEF Conn
  <2> QED  BY <2>4, <2>5, <2>6, <2>7
<1> QED  BY <1>1 DEF SocketsAccounted

(* No error path, timeout or departure of a client leaves a socket behind.  *)
THEOREM NoSocketIsLeaked == Spec => []SocketsAccounted
BY Accounts, Inductive, PTL

(* TcpOutboundTransport's loop skips no address and stops at the first that *)
(* answers.                                                                 *)
THEOREM TriesInOrder == Spec => []FirstThatAnswers
<1>1. IInv => FirstThatAnswers
  BY DEF IInv, Good, Dialled, FirstThatAnswers
<1> QED  BY <1>1, Inductive, PTL

-----------------------------------------------------------------------------
(* The descriptors. *)

(* Those of the clients and those to the servers are no more than the      *)
(* connections that may hold them: pairs with the same connection are equal. *)
LEMMA OpenIsBounded ==
  ASSUME IInv
  PROVE  /\ Cardinality(Open) <= Cardinality(Busy) + Cardinality(Linked) + Cardinality(Left)
         /\ Cardinality(Open) \in Nat /\ Cardinality(Busy) \in Nat
         /\ Cardinality(Linked) \in Nat /\ Cardinality(Left) \in Nat
<1> DEFINE Clients == {p \in Open : p[2] = 0}
           Servers == {p \in Open : p[2] # 0}
           Holding == Linked \cup Left
<1>1. SocketsAccounted
  BY Accounts
<1>2. /\ IsFiniteSet(Busy) /\ Cardinality(Busy) \in Nat
      /\ IsFiniteSet(Linked) /\ Cardinality(Linked) \in Nat
      /\ IsFiniteSet(Left) /\ Cardinality(Left) \in Nat
  <2>1. Busy \in SUBSET Conns /\ Linked \in SUBSET Conns /\ Left \in SUBSET Conns
    BY DEF Busy, Linked, Left
  <2>2. IsFiniteSet(Busy) /\ IsFiniteSet(Linked) /\ IsFiniteSet(Left)
    BY <2>1, RelayAssumption, FS_Subset
  <2> QED  BY <2>2, FS_CardinalityType
<1>3. /\ IsFiniteSet(Holding)
      /\ Cardinality(Holding) <= Cardinality(Linked) + Cardinality(Left)
  <2>1. /\ IsFiniteSet(Holding) /\ IsFiniteSet(Linked \cap Left)
        /\ Cardinality(Holding) = Cardinality(Linked) + Cardinality(Left) - Cardinality(Linked \cap Left)
    <3>1. Linked \cap Left \in SUBSET Linked
      OBVIOUS
    <3> QED  BY <1>2, <3>1, FS_Union, FS_Subset
  <2>2. Cardinality(Linked \cap Left) \in Nat
    BY <2>1, FS_CardinalityType
  <2> QED  BY <1>2, <2>1, <2>2
<1>4. IsFiniteSet(Clients) /\ Cardinality(Clients) <= Cardinality(Busy)
  <2> DEFINE f == [p \in Clients |-> p[1]]
  <2>1. ASSUME NEW p \in Clients PROVE p[1] \in Busy
    BY <1>1 DEF Open, Busy, SocketsAccounted
  <2>2. ASSUME NEW p \in Clients, NEW q \in Clients, p[1] = q[1] PROVE p = q
    BY <2>2 DEF Open
  <2>3. f \in Injection(Clients, Busy)
    BY <2>1, <2>2 DEF Injection, IsInjective
  <2> QED  BY <1>2, <2>3, FS_Injection
<1>5. IsFiniteSet(Servers) /\ Cardinality(Servers) <= Cardinality(Holding)
  <2> DEFINE f == [p \in Servers |-> p[1]]
  <2>0. ASSUME NEW p \in Servers PROVE p[1] \in Conns /\ p[2] \in dial[p[1]].sockets
    BY DEF Open
  <2>1. ASSUME NEW p \in Servers PROVE p[1] \in Holding
    BY <1>1, <2>0 DEF Linked, Left, SocketsAccounted
  <2>2. ASSUME NEW p \in Servers, NEW q \in Servers, p[1] = q[1] PROVE p = q
    <3>1. p[2] = dial[p[1]].at /\ q[2] = dial[p[1]].at
      BY <1>1, <2>0, <2>2 DEF SocketsAccounted
    <3> QED  BY <2>2, <3>1 DEF Open
  <2>3. f \in Injection(Servers, Holding)
    BY <2>1, <2>2 DEF Injection, IsInjective
  <2> QED  BY <1>3, <2>3, FS_Injection
<1>6. /\ Open = Clients \cup Servers
      /\ Cardinality(Open) = Cardinality(Clients) + Cardinality(Servers) - Cardinality(Clients \cap Servers)
  <2>1. Open = Clients \cup Servers
    OBVIOUS
  <2> QED  BY <1>4, <1>5, <2>1, FS_Union
<1>7. Clients \cap Servers = {}
  OBVIOUS
<1>8. /\ Cardinality(Clients \cap Servers) = 0 /\ Cardinality(Clients) \in Nat
      /\ Cardinality(Servers) \in Nat /\ Cardinality(Holding) \in Nat
  BY <1>3, <1>4, <1>5, <1>7, FS_EmptySet, FS_CardinalityType
<1> HIDE DEF Clients, Servers, Holding
<1> QED  BY <1>2, <1>3, <1>4, <1>5, <1>6, <1>8

(* Whatever came before, the process runs out of descriptors only under the *)
(* connections it serves at that moment.                                    *)
THEOREM RunsOutOnlyUnderLoad == Spec => []OutOfSocketsOnlyWhenBusy
<1>1. ASSUME IInv, Full
      PROVE  MaxSockets <= Cardinality(Busy) + Cardinality(Linked) + Cardinality(Left)
  <2>1. /\ Cardinality(Open) <= Cardinality(Busy) + Cardinality(Linked) + Cardinality(Left)
        /\ Cardinality(Open) \in Nat /\ Cardinality(Busy) \in Nat
        /\ Cardinality(Linked) \in Nat /\ Cardinality(Left) \in Nat
    BY <1>1, OpenIsBounded
  <2> QED  BY <1>1, <2>1, RelayAssumption DEF Full
<1>2. IInv => OutOfSocketsOnlyWhenBusy
  BY <1>1 DEF OutOfSocketsOnlyWhenBusy
<1> QED  BY <1>2, Inductive, PTL

-----------------------------------------------------------------------------
(* What a connection has left to go through. *)
LEMMA ConnParts ==
  ASSUME NEW i \in Conn
  PROVE  /\ ClientRank(i) \in Nat /\ TaskRank(i) \in Nat /\ RejectsLeft(i) \in Nat /\ OpenWays(i) \in Nat
         /\ ConnRank(i) \in Nat
<1>1. ClientRank(i) \in Nat
  BY DEF Conn, ClientRank
<1>2. TaskRank(i) \in Nat
  BY DEF Conn, TaskRank
<1>3. RejectsLeft(i) \in Nat
  <2>1. Len(i.answers) \in Nat /\ MaxRejects \in Nat
    BY RelayAssumption, LenProperties DEF Conn
  <2> QED  BY <2>1 DEF RejectsLeft
<1>4. OpenWays(i) \in Nat
  BY DEF OpenWays
<1> QED  BY <1>1, <1>2, <1>3, <1>4 DEF ConnRank

LEMMA DialParts ==
  ASSUME NEW o \in Dial
  PROVE  StepRank(o) \in Nat /\ TriesLeft(o) \in Nat /\ DialRank(o) \in Nat
<1>1. StepRank(o) \in Nat
  BY DEF Dial, StepRank
<1>2. o.at \in 0 .. MaxAddrs /\ MaxAddrs \in Nat
  BY RelayAssumption DEF Dial
<1>3. TriesLeft(o) \in Nat
  BY <1>2 DEF TriesLeft
<1> QED  BY <1>1, <1>3 DEF DialRank

(* No part of the rank of a connection rises, and it falls with any of them. *)
LEMMA ConnDown ==
  ASSUME NEW i \in Conn, NEW j \in Conn,
         ClientRank(j) <= ClientRank(i), TaskRank(j) <= TaskRank(i), i.gone => j.gone,
         Len(i.answers) <= Len(j.answers), i.ended \subseteq j.ended
  PROVE  /\ ConnRank(j) <= ConnRank(i)
         /\ ClientRank(j) < ClientRank(i) => ConnRank(j) < ConnRank(i)
         /\ TaskRank(j) < TaskRank(i)     => ConnRank(j) < ConnRank(i)
         /\ j.gone /\ ~i.gone             => ConnRank(j) < ConnRank(i)
         /\ RejectsLeft(j) < RejectsLeft(i) => ConnRank(j) < ConnRank(i)
         /\ OpenWays(j) < OpenWays(i)     => ConnRank(j) < ConnRank(i)
<1>1. RejectsLeft(j) <= RejectsLeft(i)
  <2>1. Len(i.answers) \in Nat /\ Len(j.answers) \in Nat /\ MaxRejects \in Nat
    BY RelayAssumption, LenProperties DEF Conn
  <2> QED  BY <2>1 DEF RejectsLeft
<1>2. OpenWays(j) <= OpenWays(i)
  BY DEF OpenWays
<1> DEFINE g == IF i.gone THEN 0 ELSE 1
           h == IF j.gone THEN 0 ELSE 1
<1>3. g \in Nat /\ h \in Nat /\ h <= g /\ (j.gone /\ ~i.gone => h < g)
  OBVIOUS
<1>4. /\ ConnRank(i) = ClientRank(i) + g + TaskRank(i) + RejectsLeft(i) + OpenWays(i)
      /\ ConnRank(j) = ClientRank(j) + h + TaskRank(j) + RejectsLeft(j) + OpenWays(j)
  BY DEF ConnRank
<1> HIDE DEF g, h
<1>5. /\ ClientRank(i) \in Nat /\ TaskRank(i) \in Nat /\ RejectsLeft(i) \in Nat /\ OpenWays(i) \in Nat
      /\ ClientRank(j) \in Nat /\ TaskRank(j) \in Nat /\ RejectsLeft(j) \in Nat /\ OpenWays(j) \in Nat
  BY ConnParts
<1>6. ConnRank(j) <= ConnRank(i)
  BY SMTT(60), <1>1, <1>2, <1>3, <1>4, <1>5
<1>7. ClientRank(j) < ClientRank(i) => ConnRank(j) < ConnRank(i)
  BY SMTT(60), <1>1, <1>2, <1>3, <1>4, <1>5
<1>8. TaskRank(j) < TaskRank(i) => ConnRank(j) < ConnRank(i)
  BY SMTT(60), <1>1, <1>2, <1>3, <1>4, <1>5
<1>9. j.gone /\ ~i.gone => ConnRank(j) < ConnRank(i)
  BY SMTT(60), <1>1, <1>2, <1>3, <1>4, <1>5
<1>10. RejectsLeft(j) < RejectsLeft(i) => ConnRank(j) < ConnRank(i)
  BY SMTT(60), <1>1, <1>2, <1>3, <1>4, <1>5
<1>11. OpenWays(j) < OpenWays(i) => ConnRank(j) < ConnRank(i)
  BY SMTT(60), <1>1, <1>2, <1>3, <1>4, <1>5
<1> QED  BY <1>6, <1>7, <1>8, <1>9, <1>10, <1>11

LEMMA DialDown ==
  ASSUME NEW o \in Dial, NEW p \in Dial, StepRank(p) <= StepRank(o), TriesLeft(p) <= TriesLeft(o)
  PROVE  /\ DialRank(p) <= DialRank(o)
         /\ StepRank(p) < StepRank(o) \/ TriesLeft(p) < TriesLeft(o) => DialRank(p) < DialRank(o)
BY DialParts DEF DialRank

(* The record of a handler that has ended, has answered, or has moved on. *)
LEMMA FinishedFalls ==
  ASSUME NEW i \in Conn, i.client # "dropped" \/ i.task # "done"
  PROVE  ConnRank(Finished(i)) < ConnRank(i)
<1> DEFINE j == Finished(i)
<1>1. /\ j \in Conn /\ j.task = "done" /\ j.client = "dropped" /\ j.gone = i.gone
      /\ j.answers = i.answers /\ j.ended = i.ended
  BY FinishedType DEF Finished, Conn
<1> HIDE DEF j
<1>2. ClientRank(j) = 0 /\ TaskRank(j) = 0 /\ (0 < ClientRank(i) \/ 0 < TaskRank(i))
  BY <1>1 DEF ClientRank, TaskRank, Conn
<1>3. Len(i.answers) <= Len(j.answers)
  BY <1>1, LenProperties DEF Conn
<1>4. ClientRank(i) \in Nat /\ TaskRank(i) \in Nat
  BY ConnParts
<1>5. ConnRank(j) < ConnRank(i)
  BY <1>1, <1>2, <1>3, <1>4, ConnDown
<1> QED  BY <1>5 DEF j

LEMMA PartingFalls ==
  ASSUME NEW i \in Conn, NEW a \in Answers, i.client # "dropped"
  PROVE  ConnRank(Parting(i, a)) < ConnRank(i)
<1> DEFINE j == Parting(i, a)
<1>1. /\ j \in Conn /\ j.task = "done" /\ j.client = "dropped" /\ j.gone = i.gone
      /\ j.answers = Append(i.answers, a)
  BY PartingType
<1>2. j.ended = i.ended
  BY DEF Parting, Finished, Conn
<1> HIDE DEF j
<1>3. ClientRank(j) = 0 /\ TaskRank(j) = 0 /\ 0 < ClientRank(i)
  BY <1>1 DEF ClientRank, TaskRank, Conn
<1>4. Len(i.answers) <= Len(j.answers)
  BY <1>1, AppendProperties, LenProperties DEF Conn
<1>5. ClientRank(i) \in Nat /\ TaskRank(i) \in Nat
  BY ConnParts
<1>6. ConnRank(j) < ConnRank(i)
  BY <1>1, <1>2, <1>3, <1>4, <1>5, ConnDown
<1> QED  BY <1>6 DEF j

LEMMA TaskFalls ==
  ASSUME NEW i \in Conn, NEW t \in {"request", "reply", "connect", "refuse", "tunnel"},
         TaskRank([i EXCEPT !.task = t]) < TaskRank(i)
  PROVE  ConnRank([i EXCEPT !.task = t]) < ConnRank(i)
<1> DEFINE j == [i EXCEPT !.task = t]
<1>1. /\ j \in Conn /\ j.client = i.client /\ j.gone = i.gone /\ j.answers = i.answers
      /\ j.ended = i.ended /\ TaskRank(j) < TaskRank(i)
  BY DEF Conn
<1> HIDE DEF j
<1>2. ClientRank(j) = ClientRank(i)
  BY <1>1 DEF ClientRank
<1>3. Len(i.answers) <= Len(j.answers)
  BY <1>1, LenProperties DEF Conn
<1>4. ConnRank(j) < ConnRank(i)
  BY SMTT(60), <1>1, <1>2, <1>3, ConnParts, ConnDown
<1> QED  BY <1>4 DEF j

LEMMA AnsweredFalls ==
  ASSUME NEW i \in Conn, NEW a \in Answers, NEW t \in {"request", "connect", "tunnel"},
         \/ TaskRank([i EXCEPT !.task = t]) < TaskRank(i)
         \/ t = i.task /\ Len(i.answers) < MaxRejects
  PROVE  ConnRank(Answered(i, a, t)) < ConnRank(i)
<1> DEFINE j == Answered(i, a, t)
           k == [i EXCEPT !.task = t]
<1>1. /\ j \in Conn /\ j.task = t /\ j.client = i.client /\ j.gone = i.gone
      /\ j.answers = Append(i.answers, a)
  BY AnsweredType
<1>2. j.ended = i.ended
  BY DEF Answered, Conn
<1>3. k.task = t
  BY DEF Conn
<1>4. TaskRank(k) < TaskRank(i) \/ (t = i.task /\ Len(i.answers) < MaxRejects)
  OBVIOUS
<1> HIDE DEF j, k
<1>5. ClientRank(j) = ClientRank(i) /\ TaskRank(j) = TaskRank(k) /\ (t = i.task => TaskRank(j) = TaskRank(i))
  BY <1>1, <1>3 DEF ClientRank, TaskRank
<1>6. Len(i.answers) \in Nat /\ Len(j.answers) = Len(i.answers) + 1 /\ MaxRejects \in Nat
  BY <1>1, AppendProperties, LenProperties, RelayAssumption DEF Conn
<1>7. Len(i.answers) < MaxRejects => RejectsLeft(j) < RejectsLeft(i)
  BY <1>6 DEF RejectsLeft
<1>8. TaskRank(j) \in Nat /\ TaskRank(i) \in Nat /\ ClientRank(i) \in Nat
  BY <1>1, ConnParts
<1>9. ClientRank(j) <= ClientRank(i) /\ TaskRank(j) <= TaskRank(i) /\ Len(i.answers) <= Len(j.answers)
  BY <1>4, <1>5, <1>6, <1>8
<1>10. TaskRank(j) < TaskRank(i) \/ RejectsLeft(j) < RejectsLeft(i)
  BY <1>4, <1>5, <1>7
<1>11. ConnRank(j) < ConnRank(i)
  BY <1>1, <1>2, <1>9, <1>10, ConnDown
<1> QED  BY <1>11 DEF j

LEMMA DialFalls ==
  ASSUME NEW o \in Dial, NEW p \in Dial, p.at = o.at, p.sockets = {} \/ p.sockets = o.sockets,
         StepRank(p) < StepRank(o) \/ (StepRank(p) = StepRank(o) /\ p.sockets # o.sockets)
  PROVE  DialRank(p) < DialRank(o)
<1>1. o.at \in 0 .. MaxAddrs /\ MaxAddrs \in Nat
  BY RelayAssumption DEF Dial
<1>2. TriesLeft(p) <= TriesLeft(o) /\ (p.sockets # o.sockets => TriesLeft(p) < TriesLeft(o))
  <2> DEFINE n == 2 * (MaxAddrs - o.at)
  <2>1. TriesLeft(o) = n + (IF o.sockets = {} THEN 0 ELSE 1) /\ n \in Int
    BY <1>1 DEF TriesLeft
  <2>2. TriesLeft(p) = n + (IF p.sockets = {} THEN 0 ELSE 1)
    BY DEF TriesLeft
  <2> HIDE DEF n
  <2> QED  BY <2>1, <2>2
<1> QED  BY <1>2, DialParts, DialDown

LEMMA ClosedFalls ==
  ASSUME NEW o \in Dial
  PROVE  DialRank(Closed(o)) <= DialRank(o) /\ (o.sockets # {} => DialRank(Closed(o)) < DialRank(o))
<1> DEFINE p == Closed(o)
<1>1. p \in Dial /\ p.sockets = {} /\ p.step = o.step /\ p.at = o.at
  BY ClosedType
<1> HIDE DEF p
<1>2. StepRank(p) = StepRank(o)
  BY <1>1 DEF StepRank
<1>3. TriesLeft(p) <= TriesLeft(o) /\ (o.sockets # {} => TriesLeft(p) < TriesLeft(o))
  <2>1. o.at \in 0 .. MaxAddrs /\ MaxAddrs \in Nat
    BY RelayAssumption DEF Dial
  <2> QED  BY <1>1, <2>1 DEF TriesLeft
<1>4. DialRank(p) <= DialRank(o) /\ (o.sockets # {} => DialRank(p) < DialRank(o))
  BY <1>1, <1>2, <1>3, DialParts, DialDown
<1> QED  BY <1>4 DEF p

Advances(d) == \/ conn'[d] = conn[d] /\ dial'[d] = dial[d]
               \/ Effort(d)' < Effort(d) /\ Effort(d)' \in Nat

(* One connection has moved on, and the others have not moved. *)
LEMMA Moved ==
  ASSUME IInv, NEW c \in Conns, NEW i \in Conn, NEW o \in Dial,
         SetConn(c, i), SetDial(c, o), inbound' = inbound,
         ConnRank(i) <= ConnRank(conn[c]), DialRank(o) <= DialRank(dial[c]),
         ConnRank(i) < ConnRank(conn[c]) \/ DialRank(o) < DialRank(dial[c]),
         NEW d \in Conns
  PROVE  Advances(d)
<1>1. CASE d # c
  BY <1>1 DEF Advances, IInv, TypeOK, SetConn, SetDial
<1>2. CASE d = c
  <2>1. conn'[c] = i /\ dial'[c] = o
    BY DEF IInv, TypeOK, SetConn, SetDial
  <2>2. Effort(c)' = ConnRank(i) + DialRank(o)
    BY <2>1 DEF Effort, ConnRank, DialRank, ClientRank, TaskRank, RejectsLeft, OpenWays, StepRank, TriesLeft
  <2>3. conn[c] \in Conn /\ dial[c] \in Dial
    BY Records
  <2>4. ConnRank(i) \in Nat /\ DialRank(o) \in Nat /\ ConnRank(conn[c]) \in Nat /\ DialRank(dial[c]) \in Nat
    BY <2>3, ConnParts, DialParts
  <2>5. ConnRank(i) + DialRank(o) < ConnRank(conn[c]) + DialRank(dial[c])
        /\ ConnRank(i) + DialRank(o) \in Nat
    BY <2>4
  <2> QED  BY <1>2, <2>2, <2>5 DEF Advances, Effort
<1> QED  BY <1>1, <1>2

LEMMA ConnMoves ==
  ASSUME IInv, NEW c \in Conns, NEW i \in Conn, SetConn(c, i), UNCHANGED dial, inbound' = inbound,
         ConnRank(i) < ConnRank(conn[c]), NEW d \in Conns
  PROVE  Advances(d)
<1>1. dial[c] \in Dial /\ SetDial(c, dial[c]) /\ conn[c] \in Conn
  BY Records, SameDial
<1>2. ConnRank(i) <= ConnRank(conn[c]) /\ DialRank(dial[c]) <= DialRank(dial[c])
  BY <1>1, ConnParts, DialParts
<1> QED  BY <1>1, <1>2, Moved

LEMMA DialMoves ==
  ASSUME IInv, NEW c \in Conns, NEW o \in Dial, SetDial(c, o), UNCHANGED conn, inbound' = inbound,
         DialRank(o) < DialRank(dial[c]), NEW d \in Conns
  PROVE  Advances(d)
<1>1. dial[c] \in Dial /\ SetConn(c, conn[c]) /\ conn[c] \in Conn
  BY Records, SameConn
<1>2. ConnRank(conn[c]) <= ConnRank(conn[c]) /\ DialRank(o) <= DialRank(dial[c])
  BY <1>1, ConnParts, DialParts
<1> QED  BY <1>1, <1>2, Moved

LEMMA BothMove ==
  ASSUME IInv, NEW c \in Conns, NEW i \in Conn, NEW o \in Dial,
         SetConn(c, i), SetDial(c, o), inbound' = inbound,
         ConnRank(i) < ConnRank(conn[c]), DialRank(o) <= DialRank(dial[c]), NEW d \in Conns
  PROVE  Advances(d)
<1>1. dial[c] \in Dial /\ conn[c] \in Conn
  BY Records
<1>2. ConnRank(i) <= ConnRank(conn[c])
  BY <1>1, ConnParts
<1> QED  BY <1>1, <1>2, Moved

(* The steps up to the request. *)
LEMMA HandlerAdvances ==
  ASSUME IInv, NEW c \in Conns, NEW d \in Conns,
         \/ Arrive(c) \/ Leave(c) \/ Accept(c) \/ BadRequest(c) \/ RejectSocks(c) \/ RejectHttp(c)
         \/ RejectVless(c) \/ TakeHttp(c)
  PROVE  Advances(d)
<1> DEFINE i == conn[c]
<1>1. i \in Conn /\ Owns(i, dial[c])
  BY Records DEF Good
<1>2. CASE Arrive(c)
  <2> DEFINE j == [i EXCEPT !.client = "waiting"]
  <2>1. SetConn(c, j) /\ UNCHANGED dial /\ inbound' = inbound /\ i.client = "absent"
    BY <1>2 DEF Arrive
  <2>2. /\ j \in Conn /\ j.client = "waiting" /\ j.task = i.task /\ j.gone = i.gone
        /\ j.answers = i.answers /\ j.ended = i.ended
    BY <1>1 DEF Conn
  <2> HIDE DEF j
  <2>3. ConnRank(j) < ConnRank(i)
    <3>1. ClientRank(j) = 2 /\ ClientRank(i) = 3 /\ TaskRank(j) = TaskRank(i)
      BY <2>1, <2>2 DEF ClientRank, TaskRank
    <3>2. TaskRank(i) \in Nat /\ Len(i.answers) <= Len(j.answers)
      BY <1>1, <2>2, ConnParts, LenProperties DEF Conn
    <3>3. TaskRank(j) <= TaskRank(i) /\ ClientRank(j) < ClientRank(i) /\ ClientRank(j) <= ClientRank(i)
      BY <3>1, <3>2
    <3> HIDE DEF i
    <3> QED  BY <1>1, <2>2, <3>2, <3>3, ConnDown
  <2> QED  BY <2>1, <2>2, <2>3, ConnMoves
<1>3. CASE Leave(c)
  <2> DEFINE j == [i EXCEPT !.gone = TRUE]
  <2>1. SetConn(c, j) /\ UNCHANGED dial /\ inbound' = inbound /\ ~i.gone
    BY <1>3 DEF Leave, kept
  <2>2. /\ j \in Conn /\ j.client = i.client /\ j.task = i.task /\ j.gone
        /\ j.answers = i.answers /\ j.ended = i.ended
    BY <1>1 DEF Conn
  <2> HIDE DEF j
  <2>3. ConnRank(j) < ConnRank(i)
    <3>1. ClientRank(j) = ClientRank(i) /\ TaskRank(j) = TaskRank(i)
      BY <2>2 DEF ClientRank, TaskRank
    <3>2. TaskRank(i) \in Nat /\ ClientRank(i) \in Nat /\ Len(i.answers) <= Len(j.answers)
      BY <1>1, <2>2, ConnParts, LenProperties DEF Conn
    <3>3. TaskRank(j) <= TaskRank(i) /\ ClientRank(j) <= ClientRank(i)
      BY <3>1, <3>2
    <3> HIDE DEF i
    <3> QED  BY <1>1, <2>1, <2>2, <3>2, <3>3, ConnDown
  <2> QED  BY <2>1, <2>2, <2>3, ConnMoves
<1>4. CASE Accept(c)
  <2> DEFINE j == [i EXCEPT !.client = "open", !.task = "request"]
  <2>1. SetConn(c, j) /\ UNCHANGED dial /\ inbound' = inbound /\ i.client = "waiting"
    BY <1>4 DEF Accept, kept
  <2>2. i.task = "none"
    BY <1>1, <2>1 DEF Owns
  <2>3. /\ j \in Conn /\ j.client = "open" /\ j.task = "request" /\ j.gone = i.gone
        /\ j.answers = i.answers /\ j.ended = i.ended
    BY <1>1 DEF Conn
  <2> HIDE DEF j
  <2>4. ConnRank(j) < ConnRank(i)
    <3>1. ClientRank(j) = 1 /\ ClientRank(i) = 2 /\ TaskRank(j) = 5 /\ TaskRank(i) = 5
      BY <2>1, <2>2, <2>3 DEF ClientRank, TaskRank
    <3>2. Len(i.answers) <= Len(j.answers)
      BY <1>1, <2>3, LenProperties DEF Conn
    <3>3. TaskRank(j) <= TaskRank(i) /\ ClientRank(j) < ClientRank(i) /\ ClientRank(j) <= ClientRank(i)
      BY <3>1
    <3> HIDE DEF i
    <3> QED  BY <1>1, <2>3, <3>2, <3>3, ConnDown
  <2> QED  BY <2>1, <2>3, <2>4, ConnMoves
<1>5. i.task = "request" => i.client = "open" /\ i.client # "dropped"
  BY <1>1 DEF Owns
<1>6. CASE BadRequest(c)
  <2>1. SetConn(c, Finished(i)) /\ UNCHANGED dial /\ inbound' = inbound /\ i.task = "request"
    BY <1>6 DEF BadRequest, kept
  <2>2. Finished(i) \in Conn /\ ConnRank(Finished(i)) < ConnRank(i)
    BY <1>1, <1>5, <2>1, FinishedType, FinishedFalls
  <2> QED  BY <2>1, <2>2, ConnMoves
<1>7. CASE RejectSocks(c) \/ RejectVless(c)
  <2>1. PICK a \in Answers : SetConn(c, Parting(i, a))
    BY <1>7 DEF RejectSocks, RejectVless, Answers
  <2>2. UNCHANGED dial /\ inbound' = inbound /\ i.task = "request"
    BY <1>7 DEF RejectSocks, RejectVless, kept
  <2>3. Parting(i, a) \in Conn /\ ConnRank(Parting(i, a)) < ConnRank(i)
    BY <1>1, <1>5, <2>2, PartingType, PartingFalls
  <2> QED  BY <2>1, <2>2, <2>3, ConnMoves
<1>8. CASE RejectHttp(c)
  <2> DEFINE j == Answered(i, "rejected", "request")
  <2>1. /\ SetConn(c, j) /\ UNCHANGED dial /\ inbound' = inbound
        /\ i.task = "request" /\ Len(i.answers) < MaxRejects
    BY <1>8 DEF RejectHttp, kept
  <2>2. j \in Conn /\ ConnRank(j) < ConnRank(i)
    BY <1>1, <2>1, AnsweredType, AnsweredFalls DEF Answers
  <2> QED  BY <2>1, <2>2, ConnMoves
<1>9. CASE TakeHttp(c)
  <2> DEFINE j == [i EXCEPT !.task = "reply"]
  <2>1. SetConn(c, j) /\ UNCHANGED dial /\ inbound' = inbound /\ i.task = "request" /\ inbound = "http"
    BY <1>9 DEF TakeHttp, kept
  <2>2. j \in Conn /\ j.task = "reply"
    BY <1>1, TaskType
  <2>3. TaskRank(j) < TaskRank(i)
    <3>1. TaskRank(j) = 4 /\ TaskRank(i) = 5
      BY <2>1, <2>2 DEF TaskRank
    <3> QED  BY <3>1
  <2>4. ConnRank(j) < ConnRank(i)
    BY <1>1, <2>3, TaskFalls
  <2> QED  BY <2>1, <2>2, <2>4, ConnMoves
<1> QED  BY <1>2, <1>3, <1>4, <1>6, <1>7, <1>8, <1>9

(* The dial starts. *)
LEMMA StartedFalls ==
  ASSUME NEW o \in Dial, o.step = "none"
  PROVE  Started(o) \in Dial /\ DialRank(Started(o)) <= DialRank(o)
<1> DEFINE p == Started(o)
<1>1. p \in Dial /\ p.step = "resolve" /\ p.at = o.at /\ p.sockets = o.sockets
  BY DEF Started, Dial
<1> HIDE DEF p
<1>2. StepRank(p) < StepRank(o)
  <2>1. StepRank(p) = 5 /\ StepRank(o) = 6
    BY <1>1 DEF StepRank
  <2> QED  BY <2>1
<1>3. DialRank(p) < DialRank(o)
  BY <1>1, <1>2, DialFalls
<1>4. p \in Dial /\ DialRank(p) <= DialRank(o)
  BY <1>1, <1>3, DialParts
<1> QED  BY <1>4 DEF p

LEMMA TakeAdvances ==
  ASSUME IInv, NEW c \in Conns, NEW d \in Conns, TakeSocks(c) \/ TakeVless(c)
  PROVE  Advances(d)
<1> DEFINE i == conn[c]
           j == [i EXCEPT !.task = "connect"]
<1>1. i \in Conn /\ dial[c] \in Dial /\ Owns(i, dial[c])
  BY Records DEF Good
<1>2. i.task = "request" /\ inbound' = inbound /\ SetDial(c, Started(dial[c]))
  BY DEF TakeSocks, TakeVless, kept
<1>3. dial[c].step = "none"
  BY <1>1, <1>2 DEF Owns
<1>4. Started(dial[c]) \in Dial /\ DialRank(Started(dial[c])) <= DialRank(dial[c])
  BY <1>1, <1>3, StartedFalls
<1>5. TaskRank(j) < TaskRank(i)
  <2>1. j.task = "connect"
    BY <1>1, TaskType
  <2>2. TaskRank(j) = 3 /\ TaskRank(i) = 5
    BY <1>2, <2>1 DEF TaskRank
  <2> QED  BY <2>2
<1>6. CASE TakeSocks(c)
  <2>1. SetConn(c, j)
    BY <1>6 DEF TakeSocks
  <2>2. j \in Conn /\ ConnRank(j) < ConnRank(i)
    BY <1>1, <1>5, TaskType, TaskFalls
  <2> QED  BY <1>2, <1>4, <2>1, <2>2, BothMove
<1>7. CASE TakeVless(c)
  <2>1. SetConn(c, Answered(i, "ok", "connect"))
    BY <1>7 DEF TakeVless
  <2>2. Answered(i, "ok", "connect") \in Conn /\ ConnRank(Answered(i, "ok", "connect")) < ConnRank(i)
    BY <1>1, <1>5, AnsweredType, AnsweredFalls DEF Answers
  <2> QED  BY <1>2, <1>4, <2>1, <2>2, BothMove
<1> QED  BY <1>6, <1>7

(* The loop over the addresses. *)
LEMMA TryAdvances ==
  ASSUME IInv, NEW c \in Conns, NEW d \in Conns, DialNext(c) \/ NoDescriptor(c)
  PROVE  Advances(d)
<1> DEFINE o == dial[c]
           n == o.at + 1
<1>1. o \in Dial
  BY Records
<1>2. o.sockets = {} /\ o.at < o.addrs /\ UNCHANGED conn /\ inbound' = inbound
  BY DEF DialNext, NoDescriptor, HasNext, kept
<1>3. n \in 0 .. MaxAddrs /\ n \in 1 .. MaxAddrs /\ o.at \in Nat /\ MaxAddrs \in Nat
  BY <1>1, <1>2, NextAddress, RelayAssumption
<1>4. PICK p : /\ SetDial(c, p) /\ p \in Dial /\ p.step = o.step /\ p.at = n
               /\ p.sockets \in {{}, {n}}
  <2>1. CASE DialNext(c)
    <3> DEFINE p == [o EXCEPT !.at = n, !.sockets = {n}]
    <3>1. p \in Dial /\ p.step = o.step /\ p.at = n /\ p.sockets = {n}
      BY <1>1, <1>3 DEF Dial
    <3> QED  BY <2>1, <3>1 DEF DialNext
  <2>2. CASE NoDescriptor(c)
    <3> DEFINE p == [o EXCEPT !.at = n, !.lost = @ \cup {n}]
    <3>1. p \in Dial /\ p.step = o.step /\ p.at = n /\ p.sockets = {}
      BY <1>1, <1>2, <1>3 DEF Dial
    <3> QED  BY <2>2, <3>1 DEF NoDescriptor
  <2> QED  BY <2>1, <2>2
<1>5. StepRank(p) = StepRank(o)
  BY <1>4 DEF StepRank
<1>6. TriesLeft(p) < TriesLeft(o)
  <2>1. TriesLeft(o) = 2 * (MaxAddrs - o.at) /\ TriesLeft(p) <= 2 * (MaxAddrs - n) + 1
    BY <1>2, <1>3, <1>4 DEF TriesLeft
  <2>2. TriesLeft(p) \in Nat
    BY <1>4, DialParts
  <2> QED  BY <1>3, <2>1, <2>2
<1>7. DialRank(p) < DialRank(o)
  BY <1>1, <1>4, <1>5, <1>6, DialParts, DialDown
<1> QED  BY <1>2, <1>4, <1>7, DialMoves

(* The steps that leave the address where it is. *)
LEMMA DialAdvances ==
  ASSUME IInv, NEW c \in Conns, NEW d \in Conns,
         \/ Resolve(c) \/ Refused(c) \/ TimesOut(c) \/ Established(c) \/ ConnTaskEnds(c)
         \/ Connecting(c, "wrap") /\ SetDial(c, [dial[c] EXCEPT !.step = "request"])
              /\ UNCHANGED <<kept, conn>>
  PROVE  Advances(d)
<1> DEFINE o == dial[c]
<1>1. o \in Dial
  BY Records
<1>2. UNCHANGED conn /\ inbound' = inbound
  BY DEF Resolve, Refused, TimesOut, Established, ConnTaskEnds, kept
<1>3. CASE Resolve(c)
  <2>1. PICK p : SetDial(c, p) /\ \E n \in 0 .. MaxAddrs : p = [o EXCEPT !.step = "dial", !.addrs = n]
    <3>1. PICK found \in 0 .. MaxAddrs :
            SetDial(c, [o EXCEPT !.step = "dial",
                                 !.addrs = CASE outbound = "tcp" -> found
                                             [] ByVless -> 1
                                             [] OTHER -> IF found = 0 THEN 0 ELSE 1])
      BY <1>3 DEF Resolve
    <3> DEFINE n == CASE outbound = "tcp" -> found
                      [] ByVless -> 1
                      [] OTHER -> IF found = 0 THEN 0 ELSE 1
    <3>2. n \in 0 .. MaxAddrs
      BY RelayAssumption
    <3> QED  BY <3>1, <3>2
  <2>2. p \in Dial /\ p.step = "dial" /\ p.at = o.at /\ p.sockets = o.sockets
    BY <1>1, <2>1 DEF Dial
  <2>3. StepRank(p) < StepRank(o)
    <3>1. StepRank(p) = 4 /\ StepRank(o) = 5
      BY <1>3, <2>2 DEF Resolve, Connecting, StepRank
    <3> QED  BY <3>1
  <2>4. DialRank(p) < DialRank(o)
    BY <1>1, <2>2, <2>3, DialFalls
  <2> QED  BY <1>2, <2>1, <2>2, <2>4, DialMoves
<1>4. CASE Refused(c) \/ TimesOut(c)
  <2> DEFINE p == Lost(o)
  <2>1. SetDial(c, p) /\ o.at \in o.sockets /\ conn[c].task = "connect" /\ o.step = "dial"
    BY <1>4 DEF Refused, TimesOut, Trying, Connecting
  <2>2. o.sockets = {o.at}
    BY <2>1, Records DEF Good, Dialled
  <2>3. p \in Dial /\ p.step = o.step /\ p.at = o.at /\ p.sockets = o.sockets \ {o.at}
    BY <1>1, <2>1 DEF Lost, Dial
  <2> HIDE DEF p
  <2>4. p.sockets = {} /\ p.sockets # o.sockets /\ StepRank(p) = StepRank(o)
    BY <2>2, <2>3 DEF StepRank
  <2>5. DialRank(p) < DialRank(o)
    BY <1>1, <2>3, <2>4, DialFalls
  <2> QED  BY <1>2, <2>1, <2>3, <2>5, DialMoves
<1>5. CASE Established(c)
  <2> DEFINE p == [o EXCEPT !.step = IF HasTimeout THEN "wrap" ELSE "handshake"]
  <2>1. SetDial(c, p) /\ o.step = "dial"
    BY <1>5 DEF Established, Trying, Connecting
  <2>2. p \in Dial /\ p.step \in {"wrap", "handshake"} /\ p.at = o.at /\ p.sockets = o.sockets
    BY <1>1 DEF Dial
  <2> HIDE DEF p
  <2>3. StepRank(p) < StepRank(o)
    <3>1. StepRank(p) \in {2, 3} /\ StepRank(o) = 4
      BY <2>1, <2>2 DEF StepRank
    <3> QED  BY <3>1
  <2>4. DialRank(p) < DialRank(o)
    BY <1>1, <2>2, <2>3, DialFalls
  <2> QED  BY <1>2, <2>1, <2>2, <2>4, DialMoves
<1>6. CASE ConnTaskEnds(c)
  <2>1. SetDial(c, Closed(o)) /\ o.sockets # {}
    BY <1>6 DEF ConnTaskEnds
  <2>2. Closed(o) \in Dial /\ DialRank(Closed(o)) < DialRank(o)
    BY <1>1, <2>1, ClosedType, ClosedFalls
  <2> QED  BY <1>2, <2>1, <2>2, DialMoves
<1>7. CASE Connecting(c, "wrap") /\ SetDial(c, [o EXCEPT !.step = "request"])
  <2> DEFINE p == [o EXCEPT !.step = "request"]
  <2>1. p \in Dial /\ p.step = "request" /\ p.at = o.at /\ p.sockets = o.sockets
    BY <1>1 DEF Dial
  <2>2. StepRank(p) < StepRank(o)
    <3>1. StepRank(p) = 2 /\ StepRank(o) = 3
      BY <1>7, <2>1 DEF Connecting, StepRank
    <3> QED  BY <3>1
  <2>3. DialRank(p) < DialRank(o)
    BY <1>1, <2>1, <2>2, DialFalls
  <2> QED  BY <1>2, <1>7, <2>1, <2>3, DialMoves
<1> QED  BY <1>3, <1>4, <1>5, <1>6, <1>7

(* The ends of the connect. *)
LEMMA SucceedAdvances ==
  ASSUME IInv, NEW c \in Conns, NEW d \in Conns, Succeed(c), conn[c].task = "connect",
         dial[c].step \in {"wrap", "request", "handshake"}, inbound' = inbound
  PROVE  Advances(d)
<1> DEFINE i == conn[c]
           o == dial[c]
           t == IF inbound = "socks" THEN "reply" ELSE "tunnel"
           j == [i EXCEPT !.task = t]
           p == [o EXCEPT !.step = "connected"]
<1>1. i \in Conn /\ o \in Dial /\ SetConn(c, j) /\ SetDial(c, p)
  BY Records DEF Succeed
<1>2. j \in Conn /\ ConnRank(j) < ConnRank(i)
  <2>1. t \in {"request", "reply", "connect", "refuse", "tunnel"} /\ (t = "reply" => inbound = "socks")
        /\ t \in {"reply", "tunnel"}
    OBVIOUS
  <2>2. j \in Conn /\ j.task = t
    BY <1>1, <2>1, TaskType
  <2>3. TaskRank(j) < TaskRank(i)
    <3>1. TaskRank(j) \in {1, 2} /\ TaskRank(i) = 3
      BY <2>1, <2>2 DEF TaskRank
    <3> QED  BY <3>1
  <2> HIDE DEF t
  <2> QED  BY <1>1, <2>1, <2>2, <2>3, TaskFalls
<1>3. p \in Dial /\ p.step = "connected" /\ p.at = o.at /\ p.sockets = o.sockets
  BY <1>1 DEF Dial
<1> HIDE DEF p, j
<1>4. StepRank(p) < StepRank(o)
  <2>1. StepRank(p) = 1 /\ StepRank(o) \in {2, 3}
    BY <1>3 DEF StepRank
  <2> QED  BY <2>1
<1>5. DialRank(p) < DialRank(o)
  BY <1>1, <1>3, <1>4, DialFalls
<1>6. DialRank(p) <= DialRank(o)
  BY <1>1, <1>3, <1>5, DialParts
<1> QED  BY <1>1, <1>2, <1>3, <1>6, BothMove

LEMMA FailAdvances ==
  ASSUME IInv, NEW c \in Conns, NEW d \in Conns, NEW left, Fail(c, left), conn[c].task = "connect",
         dial[c].step \in {"dial", "wrap", "request", "handshake"},
         left = {} \/ left = dial[c].sockets, inbound' = inbound
  PROVE  Advances(d)
<1> DEFINE i == conn[c]
           o == dial[c]
           r == [i EXCEPT !.task = "refuse"]
           p == [o EXCEPT !.step = "failed", !.sockets = left]
<1>1. i \in Conn /\ o \in Dial /\ Owns(i, o) /\ SetDial(c, p)
      /\ (SetConn(c, r) \/ SetConn(c, Finished(i)))
  BY Records DEF Fail, Good
<1>2. r \in Conn /\ ConnRank(r) < ConnRank(i)
  <2>1. r \in Conn /\ r.task = "refuse"
    BY <1>1, TaskType
  <2>2. TaskRank(r) < TaskRank(i)
    <3>1. TaskRank(r) = 1 /\ TaskRank(i) = 3
      BY <2>1 DEF TaskRank
    <3> QED  BY <3>1
  <2> QED  BY <1>1, <2>1, <2>2, TaskFalls
<1>3. Finished(i) \in Conn /\ ConnRank(Finished(i)) < ConnRank(i)
  <2>1. i.client # "dropped"
    BY <1>1 DEF Owns
  <2> QED  BY <1>1, <2>1, FinishedType, FinishedFalls
<1>4. p \in Dial /\ p.step = "failed" /\ p.at = o.at /\ p.sockets = left
  BY <1>1 DEF Dial
<1> HIDE DEF p, r
<1>5. StepRank(p) < StepRank(o)
  <2>1. StepRank(p) = 1 /\ StepRank(o) \in {2, 3, 4}
    BY <1>4 DEF StepRank
  <2> QED  BY <2>1
<1>6. DialRank(p) < DialRank(o)
  BY <1>1, <1>4, <1>5, DialFalls
<1>7. DialRank(p) <= DialRank(o)
  BY <1>1, <1>4, <1>6, DialParts
<1> QED  BY <1>1, <1>2, <1>3, <1>4, <1>7, BothMove

(* The answer. *)
LEMMA ReplyAdvances ==
  ASSUME IInv, NEW c \in Conns, NEW d \in Conns, Reply(c)
  PROVE  Advances(d)
<1> DEFINE i == conn[c]
           o == dial[c]
<1>1. i \in Conn /\ o \in Dial /\ Owns(i, o) /\ i.task = "reply" /\ inbound' = inbound
  BY Records DEF Good, Reply, kept
<1>2. CASE inbound = "socks"
  <2> DEFINE j == [i EXCEPT !.task = "tunnel"]
  <2>1. SetConn(c, Answered(i, "ok", "tunnel")) /\ UNCHANGED dial
    BY <1>2 DEF Reply
  <2>2. TaskRank(j) < TaskRank(i)
    <3>1. j.task = "tunnel"
      BY <1>1, TaskType
    <3>2. TaskRank(j) = 1 /\ TaskRank(i) = 2
      BY <1>1, <1>2, <3>1 DEF TaskRank
    <3> QED  BY <3>2
  <2>3. Answered(i, "ok", "tunnel") \in Conn /\ ConnRank(Answered(i, "ok", "tunnel")) < ConnRank(i)
    BY <1>1, <2>2, AnsweredType, AnsweredFalls DEF Answers
  <2> QED  BY <1>1, <2>1, <2>3, ConnMoves
<1>3. CASE inbound # "socks"
  <2> DEFINE j == [i EXCEPT !.task = "connect"]
  <2>1. SetConn(c, Answered(i, "ok", "connect")) /\ SetDial(c, Started(o))
    BY <1>3 DEF Reply
  <2>2. TaskRank(j) < TaskRank(i)
    <3>1. j.task = "connect"
      BY <1>1, TaskType
    <3>2. TaskRank(j) = 3 /\ TaskRank(i) = 4
      BY <1>1, <1>3, <3>1 DEF TaskRank
    <3> QED  BY <3>2
  <2>3. Answered(i, "ok", "connect") \in Conn /\ ConnRank(Answered(i, "ok", "connect")) < ConnRank(i)
    BY <1>1, <2>2, AnsweredType, AnsweredFalls DEF Answers
  <2>4. Started(o) \in Dial /\ DialRank(Started(o)) <= DialRank(o)
    BY <1>1, <1>3, StartedFalls DEF Owns
  <2> QED  BY <1>1, <2>1, <2>3, <2>4, BothMove
<1> QED  BY <1>2, <1>3

(* The handlers and the tunnel that end. *)
LEMMA EndAdvances ==
  ASSUME IInv, NEW c \in Conns, NEW d \in Conns,
         ReplyFails(c) \/ Refuse(c) \/ TunnelEnds(c) \/ TunnelFails(c)
  PROVE  Advances(d)
<1> DEFINE i == conn[c]
           o == dial[c]
<1>1. i \in Conn /\ o \in Dial /\ Owns(i, o) /\ i.task \in {"reply", "refuse", "tunnel"}
      /\ inbound' = inbound
  BY Records DEF Good, ReplyFails, Refuse, TunnelEnds, TunnelFails, kept
<1>2. i.client # "dropped"
  BY <1>1 DEF Owns
<1>3. /\ Finished(i) \in Conn /\ ConnRank(Finished(i)) < ConnRank(i)
      /\ Parting(i, "refused") \in Conn /\ ConnRank(Parting(i, "refused")) < ConnRank(i)
  BY <1>1, <1>2, FinishedType, FinishedFalls, PartingType, PartingFalls DEF Answers
<1>4. Closed(o) \in Dial /\ DialRank(Closed(o)) <= DialRank(o)
  BY <1>1, ClosedType, ClosedFalls
<1>5. CASE ReplyFails(c) \/ TunnelEnds(c) \/ TunnelFails(c)
  <2>1. SetConn(c, Finished(i)) /\ SetDial(c, Closed(o))
    BY <1>5 DEF ReplyFails, TunnelEnds, TunnelFails
  <2> QED  BY <1>1, <1>3, <1>4, <2>1, BothMove
<1>6. CASE Refuse(c)
  <2>1. UNCHANGED dial /\ (SetConn(c, Parting(i, "refused")) \/ SetConn(c, Finished(i)))
    BY <1>6 DEF Refuse
  <2> QED  BY <1>1, <1>3, <2>1, ConnMoves
<1> QED  BY <1>5, <1>6

LEMMA DirectionAdvances ==
  ASSUME IInv, NEW c \in Conns, NEW d \in Conns, NEW e \in Directions, EndDirection(c, e)
  PROVE  Advances(d)
<1> DEFINE i == conn[c]
           j == [i EXCEPT !.ended = @ \cup {e}]
<1>1. i \in Conn /\ SetConn(c, j) /\ e \notin i.ended /\ UNCHANGED dial /\ inbound' = inbound
  BY Records DEF EndDirection, kept
<1>2. /\ j \in Conn /\ j.client = i.client /\ j.gone = i.gone /\ j.task = i.task
      /\ j.answers = i.answers /\ j.ended = i.ended \cup {e}
  BY <1>1 DEF Conn
<1>3. ConnRank(j) < ConnRank(i)
  <2> HIDE DEF i, j
  <2>1. ClientRank(j) = ClientRank(i) /\ TaskRank(j) = TaskRank(i)
    BY <1>2 DEF ClientRank, TaskRank
  <2>2. OpenWays(j) < OpenWays(i)
    BY <1>1, <1>2 DEF OpenWays, Directions
  <2>3. ClientRank(j) <= ClientRank(i) /\ TaskRank(j) <= TaskRank(i) /\ Len(i.answers) <= Len(j.answers)
    BY <1>1, <1>2, <2>1, ConnParts, LenProperties DEF Conn
  <2> QED  BY <1>1, <1>2, <2>2, <2>3, ConnDown
<1> QED  BY <1>1, <1>2, <1>3, ConnMoves

LEMMA FinishedAgain ==
  ASSUME NEW i \in Conn, i.client = "dropped", i.task = "done"
  PROVE  Finished(i) = i
<1> DEFINE j == [i EXCEPT !.task = "done"]
<1>1. j = i
  BY DEF Conn
<1>2. [i EXCEPT !.client = "dropped"] = i
  BY DEF Conn
<1> QED  BY <1>1, <1>2 DEF Finished, Conn

(* The end of the process takes every connection to its end. *)
LEMMA ExitAdvances ==
  ASSUME IInv, Exit, NEW d \in Conns
  PROVE  Advances(d)
<1> DEFINE i == conn[d]
           o == dial[d]
           j == conn'[d]
           p == dial'[d]
<1>1. /\ i \in Conn /\ o \in Dial /\ inbound' = inbound
      /\ p = Closed(o) /\ j = (IF i.client = "absent" THEN i ELSE Finished(i))
  BY Records DEF Exit
<1>2. p \in Dial /\ j \in Conn
  BY <1>1, ClosedType, FinishedType
<1>3. p = o \/ DialRank(p) < DialRank(o)
  <2>1. CASE o.sockets = {}
    BY <1>1, <2>1 DEF Closed, Dial
  <2>2. CASE o.sockets # {}
    BY <1>1, <2>2, ClosedFalls
  <2> QED  BY <2>1, <2>2
<1>4. j = i \/ ConnRank(j) < ConnRank(i) \/ (i.client = "dropped" /\ i.task = "done")
  BY <1>1, FinishedFalls
<1>5. i.client = "dropped" /\ i.task = "done" => j = i
  BY <1>1, FinishedAgain
<1>6. Effort(d)' = ConnRank(j) + DialRank(p) /\ Effort(d) = ConnRank(i) + DialRank(o)
  BY <1>1 DEF Effort, ConnRank, DialRank, ClientRank, TaskRank, RejectsLeft, OpenWays, StepRank, TriesLeft
<1>7. ConnRank(i) \in Nat /\ ConnRank(j) \in Nat /\ DialRank(o) \in Nat /\ DialRank(p) \in Nat
  BY <1>1, <1>2, ConnParts, DialParts
<1>8. CASE j = i /\ p = o
  BY <1>8 DEF Advances
<1>9. CASE j = i /\ DialRank(p) < DialRank(o)
  <2>1. ConnRank(j) + DialRank(p) < ConnRank(i) + DialRank(o) /\ ConnRank(j) + DialRank(p) \in Nat
    BY <1>7, <1>9
  <2> QED  BY <1>6, <2>1 DEF Advances
<1>10. CASE ConnRank(j) < ConnRank(i)
  <2>1. DialRank(p) <= DialRank(o)
    BY <1>3, <1>7
  <2>2. ConnRank(j) + DialRank(p) < ConnRank(i) + DialRank(o) /\ ConnRank(j) + DialRank(p) \in Nat
    BY <1>7, <1>10, <2>1
  <2> QED  BY <1>6, <2>2 DEF Advances
<1> QED  BY <1>3, <1>4, <1>5, <1>8, <1>9, <1>10

(* Every connection comes to its end by a bounded number of steps, whatever *)
(* clients, servers and the other connections do: each step that touches it *)
(* (handle_stream, TcpOutboundTransport::connect, the outbounds' connect,   *)
(* copy_bidirectional) lowers a natural number.                             *)
THEOREM ConnectionsRunDown == Spec => EveryStepAdvances
<1>1. ASSUME IInv, [Next]_vars, NEW d \in Conns
      PROVE  Advances(d)
  <2>1. CASE WouldBlock \/ AcceptFails \/ UNCHANGED vars
    BY <1>1, <2>1 DEF WouldBlock, AcceptFails, vars, Advances
  <2>2. CASE Exit
    BY <1>1, <2>2, ExitAdvances
  <2>3. ASSUME NEW c \in Conns, Accept(c)
        PROVE  Advances(d)
    BY <1>1, <2>3, HandlerAdvances
  <2>4. ASSUME NEW c \in Conns, External(c)
        PROVE  Advances(d)
    <3>1. CASE ServerAgrees(c)
      <4>1. /\ Succeed(c) /\ conn[c].task = "connect" /\ dial[c].step = "handshake"
            /\ inbound' = inbound
        BY <3>1 DEF ServerAgrees, Connecting, kept
      <4> QED  BY <1>1, <4>1, SucceedAdvances
    <3>2. CASE ServerRefuses(c) \/ ServerCloses(c)
      <4>1. \E left : Fail(c, left) /\ (left = {} \/ left = dial[c].sockets)
        BY <3>2 DEF ServerRefuses, ServerCloses
      <4>2. conn[c].task = "connect" /\ dial[c].step = "handshake" /\ inbound' = inbound
        BY <3>2 DEF ServerRefuses, ServerCloses, Connecting, kept
      <4> QED  BY <1>1, <4>1, <4>2, FailAdvances
    <3>3. CASE \/ Arrive(c) \/ Leave(c) \/ BadRequest(c) \/ RejectSocks(c) \/ RejectHttp(c)
               \/ RejectVless(c) \/ TakeHttp(c)
      BY <1>1, <3>3, HandlerAdvances
    <3>4. CASE TakeSocks(c) \/ TakeVless(c)
      BY <1>1, <3>4, TakeAdvances
    <3>5. CASE Refused(c) \/ Established(c)
      BY <1>1, <3>5, DialAdvances
    <3>6. CASE \E e \in Directions : EndDirection(c, e)
      BY <1>1, <3>6, DirectionAdvances
    <3>7. CASE TunnelFails(c)
      BY <1>1, <3>7, EndAdvances
    <3>8. CASE SendRequestOverTls(c)
      <4>1. /\ Succeed(c) \/ Fail(c, {})
            /\ conn[c].task = "connect" /\ dial[c].step = "request" /\ inbound' = inbound
        BY <3>8 DEF SendRequestOverTls, Connecting, kept
      <4> QED  BY <1>1, <4>1, SucceedAdvances, FailAdvances
    <3> QED  BY <2>4, <3>1, <3>2, <3>3, <3>4, <3>5, <3>6, <3>7, <3>8 DEF External
  <2>5. ASSUME NEW c \in Conns, Own(c)
        PROVE  Advances(d)
    <3>1. CASE Resolve(c) \/ TimesOut(c) \/ ConnTaskEnds(c)
      BY <1>1, <3>1, DialAdvances
    <3>2. CASE DialNext(c) \/ NoDescriptor(c)
      BY <1>1, <3>2, TryAdvances
    <3>3. CASE GiveUp(c)
      <4>1. /\ Fail(c, {}) /\ conn[c].task = "connect" /\ dial[c].step = "dial" /\ inbound' = inbound
        BY <3>3 DEF GiveUp, Connecting, kept
      <4> QED  BY <1>1, <4>1, FailAdvances
    <3>4. CASE Wrap(c) \/ SendRequest(c)
      <4>1. conn[c].task = "connect" /\ dial[c].step \in {"wrap", "request"} /\ inbound' = inbound
        BY <3>4 DEF Wrap, SendRequest, Connecting, kept
      <4>2. CASE Fail(c, {})
        BY <1>1, <4>1, <4>2, FailAdvances
      <4>3. CASE Succeed(c)
        BY <1>1, <4>1, <4>3, SucceedAdvances
      <4>4. CASE /\ Connecting(c, "wrap") /\ SetDial(c, [dial[c] EXCEPT !.step = "request"])
                 /\ UNCHANGED <<kept, conn>>
        BY <1>1, <4>4, DialAdvances
      <4> QED  BY <3>4, <4>2, <4>3, <4>4 DEF Wrap, SendRequest
    <3>5. CASE Reply(c)
      BY <1>1, <3>5, ReplyAdvances
    <3>6. CASE ReplyFails(c) \/ Refuse(c) \/ TunnelEnds(c)
      BY <1>1, <3>6, EndAdvances
    <3> QED  BY <2>5, <3>1, <3>2, <3>3, <3>4, <3>5, <3>6 DEF Own
  <2> QED  BY <1>1, <2>1, <2>2, <2>3, <2>4, <2>5 DEF Next
<1>2. IInv /\ [Next]_vars =>
        [\A c \in Conns : <<conn[c], dial[c]>>' = <<conn[c], dial[c]>>
                            \/ (Effort(c)' < Effort(c) /\ Effort(c)' \in Nat)]_vars
  BY <1>1 DEF Advances
<1> QED  BY <1>2, Inductive, PTL DEF Spec, EveryStepAdvances
=============================================================================
