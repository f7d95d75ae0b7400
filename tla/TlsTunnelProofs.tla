--------------------------- MODULE TlsTunnelProofs ---------------------------
(***************************************************************************)
(* What TlsTunnel's run checks on a small instance, proved for any number  *)
(* of bytes and any capacity of sockets and sessions.                      *)
(***************************************************************************)
EXTENDS TlsTunnel, TLAPS

-----------------------------------------------------------------------------
(* Facts about the two ends and about sequences. *)

LEMMA Ends ==
  \A e \in End : /\ Other(e) \in End /\ Other(e) # e /\ Other(Other(e)) = e
                 /\ \A d \in End : d = e \/ d = Other(e)
                 /\ Base(e) \in {2, 3}
BY DEF End, Other, Base

LEMMA Between == \A n \in Nat : (n >= 2 /\ n < 3 => n = 2) /\ (n >= 1 /\ n < 2 => n = 1)
OBVIOUS

LEMMA SeqAppend ==
  ASSUME NEW S, NEW s \in Seq(S), NEW x \in S
  PROVE  /\ Append(s, x) \in Seq(S) /\ Len(Append(s, x)) = Len(s) + 1
         /\ \A i \in 1 .. Len(s) : Append(s, x)[i] = s[i]
         /\ Append(s, x)[Len(s) + 1] = x
OBVIOUS

LEMMA SeqConcat ==
  ASSUME NEW S, NEW s \in Seq(S), NEW x \in S
  PROVE  s \o <<x>> = Append(s, x) /\ s \o <<>> = s
OBVIOUS

LEMMA Items ==
  /\ Hello \in Record /\ Flight \in Record /\ Fin \in Record /\ Header \in Record /\ Notify \in Record
  /\ \A i \in Nat : Data(i) \in Record /\ Data(i)[1] = "data" /\ Data(i)[2] = i
  /\ Hello[1] = "hello" /\ Flight[1] = "flight" /\ Fin[1] = "finished"
  /\ Header[1] = "header" /\ Header[2] = 0 /\ Notify[1] = "notify"
BY DEF Hello, Flight, Fin, Header, Notify, Ctl, Data, Record

LEMMA EndType ==
  ASSUME TypeOK, NEW e \in End
  PROVE  /\ log[e] \in Seq(Record) /\ Len(log[e]) \in Nat
         /\ wrote[e] \in Nat /\ read[e] \in Nat /\ pos[e] \in Nat
         /\ pos[e] <= read[e] /\ read[e] <= wrote[e] /\ wrote[e] <= Len(log[e])
         /\ wrote[e] <= read[e] + WireCap /\ Len(log[e]) <= wrote[e] + SessCap
         /\ upBuf[e] \in Nat /\ taken[e] \in Nat /\ sent[e] \in Nat /\ downBuf[e] \in Nat
         /\ got[e] \in Seq(Nat) /\ Len(got[e]) \in Nat
BY DEF TypeOK

-----------------------------------------------------------------------------
(* What the invariant says of the records: where they stand in a log is    *)
(* what they are.                                                          *)

(* The record at place i of a log. *)
LEMMA RecordAt ==
  ASSUME TypeOK, NEW e \in End, LogIs(e), Pace(e), NEW i \in 1 .. Len(log[e])
  PROVE  /\ i <= Base(e) => log[e][i] = Opening(e)[i]
         /\ i > Base(e) /\ i <= Base(e) + Given(e) => log[e][i] = Data(i - Base(e))
         /\ i > Base(e) + Given(e) /\ i > Base(e) => log[e][i] = Notify
BY EndType, Ends DEF LogIs

LEMMA GivenType ==
  ASSUME TypeOK, NEW e \in End, Pace(e)
  PROVE  Given(e) \in Nat
BY EndType DEF Given, Pace, None

LEMMA LogPlaces ==
  ASSUME TypeOK, NEW e \in End, LogIs(e), Pace(e), NEW i \in 1 .. Len(log[e])
  PROVE  /\ log[e][i][1] \in {"header", "data"} <=> Base(e) <= i /\ i <= Base(e) + Given(e)
         /\ log[e][i] = Notify <=> i > Base(e) + Given(e)
         /\ log[e][i] = Hello <=> e = "client" /\ i = 1
         /\ log[e][i] = Fin <=> e = "client" /\ i = 2
         /\ log[e][i] = Flight <=> e = "server" /\ i = 1
<1>1. Given(e) \in Nat /\ i \in Nat /\ Base(e) \in {2, 3}
  BY GivenType, EndType, Ends
<1>2. CASE i <= Base(e)
  <2>1. log[e][i] = Opening(e)[i]
    BY <1>2, RecordAt
  <2>2. CASE e = "client"
    <3>1. Base(e) = 3 /\ i \in {1, 2, 3}
      BY <1>2, <2>2, EndType DEF Base
    <3>2. i = 1 => log[e][i] = Hello
      BY <2>1, <2>2 DEF Opening
    <3>3. i = 2 => log[e][i] = Fin
      BY <2>1, <2>2 DEF Opening
    <3>4. i = 3 => log[e][i] = Header
      BY <2>1, <2>2 DEF Opening
    <3> QED  BY <1>1, <2>2, <3>1, <3>2, <3>3, <3>4, Items
  <2>3. CASE e = "server"
    <3>1. Base(e) = 2 /\ i \in {1, 2}
      BY <1>2, <2>3, EndType DEF Base
    <3>2. i = 1 => log[e][i] = Flight
      BY <2>1, <2>3 DEF Opening
    <3>3. i = 2 => log[e][i] = Header
      BY <2>1, <2>3 DEF Opening
    <3> QED  BY <1>1, <2>3, <3>1, <3>2, <3>3, Items
  <2> QED  BY <2>2, <2>3 DEF End
<1>3. CASE i > Base(e) /\ i <= Base(e) + Given(e)
  <2>1. log[e][i] = Data(i - Base(e)) /\ i - Base(e) \in Nat
    BY <1>1, <1>3, RecordAt
  <2>2. log[e][i][1] = "data"
    BY <2>1, Items
  <2> QED  BY <1>1, <1>3, <2>2, Items
<1>4. CASE i > Base(e) + Given(e)
  <2>1. log[e][i] = Notify
    BY <1>1, <1>4, RecordAt
  <2> QED  BY <1>1, <1>4, <2>1, Items
<1> QED  BY <1>1, <1>2, <1>3, <1>4

LEMMA TookIs ==
  ASSUME TypeOK, NEW e \in End, LogIs(e), Pace(e), NEW n \in Nat, n <= Len(log[e])
  PROVE  /\ Took(e, Hello, n) <=> e = "client" /\ n >= 1
         /\ Took(e, Fin, n) <=> e = "client" /\ n >= 2
         /\ Took(e, Flight, n) <=> e = "server" /\ n >= 1
         /\ Took(e, Notify, n) <=> n > Base(e) + Given(e)
<1>1. Len(log[e]) \in Nat /\ Given(e) \in Nat /\ Base(e) \in {2, 3}
  BY EndType, GivenType, Ends
<1>2. \A i \in 1 .. n : i \in 1 .. Len(log[e])
  BY <1>1
<1>3. \A i \in 1 .. n :
         /\ log[e][i] = Notify <=> i > Base(e) + Given(e)
         /\ log[e][i] = Hello <=> e = "client" /\ i = 1
         /\ log[e][i] = Fin <=> e = "client" /\ i = 2
         /\ log[e][i] = Flight <=> e = "server" /\ i = 1
  BY <1>2, LogPlaces
<1>4. n >= 1 => 1 \in 1 .. n
  OBVIOUS
<1>5. n >= 2 => 2 \in 1 .. n
  OBVIOUS
<1>6. n \in 1 .. n \/ n = 0
  OBVIOUS
<1>7. Took(e, Hello, n) <=> e = "client" /\ n >= 1
  BY <1>3, <1>4 DEF Took
<1>8. Took(e, Fin, n) <=> e = "client" /\ n >= 2
  BY <1>3, <1>5 DEF Took
<1>9. Took(e, Flight, n) <=> e = "server" /\ n >= 1
  BY <1>3, <1>4 DEF Took
<1>10. Took(e, Notify, n) <=> n > Base(e) + Given(e)
  BY <1>1, <1>3, <1>6 DEF Took
<1> QED  BY <1>7, <1>8, <1>9, <1>10

(* The log of one end as the other end reads it. *)
LEMMA ReadIs ==
  ASSUME TypeOK, NEW e \in End, LogIs(Other(e)), Pace(Other(e))
  PROVE  /\ Handshaking(e) <=> read[Other(e)] < IF e = "client" THEN 1 ELSE 2
         /\ Notified(e) <=> read[Other(e)] > Base(Other(e)) + Given(Other(e))
         /\ \A i : i \in Plain(e) <=> /\ i \in pos[Other(e)] + 1 .. read[Other(e)]
                                      /\ Base(Other(e)) <= i /\ i <= Base(Other(e)) + Given(Other(e))
<1> DEFINE o == Other(e)
<1>1. o \in End /\ (e = "client" <=> o = "server") /\ (e = "server" <=> o = "client")
  BY DEF End, Other
<1>2. read[o] \in Nat /\ read[o] <= Len(log[o]) /\ pos[o] \in Nat /\ Len(log[o]) \in Nat
  BY <1>1, EndType
<1>3. Notified(e) <=> read[o] > Base(o) + Given(o)
  BY <1>1, <1>2, TookIs DEF Notified
<1>4. Handshaking(e) <=> read[o] < IF e = "client" THEN 1 ELSE 2
  <2>1. CASE e = "client"
    <3>1. Took(o, Flight, read[o]) <=> read[o] >= 1
      BY <1>1, <1>2, <2>1, TookIs
    <3> QED  BY <1>2, <2>1, <3>1 DEF Handshaking
  <2>2. CASE e = "server"
    <3>1. Took(o, Fin, read[o]) <=> read[o] >= 2
      BY <1>1, <1>2, <2>2, TookIs
    <3> QED  BY <1>2, <2>2, <3>1 DEF Handshaking
  <2> QED  BY <2>1, <2>2 DEF End
<1>5. ASSUME NEW i \in pos[o] + 1 .. read[o]
      PROVE  log[o][i][1] \in {"header", "data"} <=> Base(o) <= i /\ i <= Base(o) + Given(o)
  <2>1. i \in 1 .. Len(log[o])
    BY <1>2
  <2> QED  BY <1>1, <2>1, LogPlaces
<1>6. \A i : i \in Plain(e) <=> i \in pos[o] + 1 .. read[o] /\ Base(o) <= i /\ i <= Base(o) + Given(o)
  BY <1>5 DEF Plain
<1> QED  BY <1>3, <1>4, <1>6

LEMMA PlainIsEmpty ==
  ASSUME TypeOK, NEW e \in End, LogIs(Other(e)), Pace(Other(e)), Plain(e) = {},
         read[Other(e)] > pos[Other(e)], read[Other(e)] >= Base(Other(e)) + Given(Other(e)),
         pos[Other(e)] < Base(Other(e)) + Given(Other(e))
  PROVE  FALSE
<1> DEFINE o == Other(e)  n == Base(o) + Given(o)
<1>1. o \in End /\ Base(o) \in {2, 3} /\ Given(o) \in Nat /\ read[o] \in Nat /\ pos[o] \in Nat
  BY EndType, Ends, GivenType
<1>2. n \in pos[o] + 1 .. read[o] /\ Base(o) <= n
  BY <1>1
<1>3. n \in Plain(e)
  BY <1>1, <1>2, ReadIs
<1> QED  BY <1>3

LEMMA RepliesAre ==
  ASSUME TypeOK, NEW e \in End, LogIs(Other(e)), Pace(Other(e)),
         NEW n \in Nat, n > read[Other(e)], n <= Len(log[Other(e)])
  PROVE  Replies(e, n) = IF read[Other(e)] = 0 THEN <<Opening(e)[IF e = "client" THEN 2 ELSE 1]>> ELSE <<>>
<1> DEFINE o == Other(e)  r == read[o]
           new(x) == Took(o, x, n) /\ ~Took(o, x, r)
<1>1. o \in End /\ r \in Nat /\ r <= Len(log[o]) /\ Len(log[o]) \in Nat
  BY Ends, EndType
<1>2. CASE e = "client"
  <2>1. o = "server" /\ Opening(e)[2] = Fin
    BY <1>2 DEF Other, Opening
  <2>2. ~new(Hello)
    BY <1>1, <2>1, TookIs
  <2>3. new(Flight) <=> r = 0
    <3>1. Took(o, Flight, n) <=> n >= 1
      BY <1>1, <2>1, TookIs
    <3>2. Took(o, Flight, r) <=> r >= 1
      BY <1>1, <2>1, TookIs
    <3> QED  BY <1>1, <3>1, <3>2
  <2> QED  BY <1>2, <2>1, <2>2, <2>3 DEF Replies
<1>3. CASE e = "server"
  <2>1. o = "client" /\ Opening(e)[1] = Flight
    BY <1>3 DEF Other, Opening
  <2>2. new(Hello) <=> r = 0
    <3>1. Took(o, Hello, n) <=> n >= 1
      BY <1>1, <2>1, TookIs
    <3>2. Took(o, Hello, r) <=> r >= 1
      BY <1>1, <2>1, TookIs
    <3> QED  BY <1>1, <3>1, <3>2
  <2>3. ~new(Flight)
    BY <1>1, <2>1, TookIs
  <2> QED  BY <1>3, <2>1, <2>2, <2>3 DEF Replies
<1> QED  BY <1>2, <1>3 DEF End

-----------------------------------------------------------------------------
(* What a session that is flushed keeps. *)

LEMMA ReachIs ==
  ASSUME TypeOK, NEW e \in End, NEW n \in Nat, wrote[e] <= n
  PROVE  /\ Reach(e, n) \in Nat /\ wrote[e] <= Reach(e, n) /\ Reach(e, n) <= n
         /\ Reach(e, n) <= read[e] + WireCap
         /\ Reach(e, n) = n \/ Reach(e, n) = read[e] + WireCap
BY EndType, TlsTunnelAssumption DEF Reach

(* A step of end e that may have its session make a record, and flushes it. *)
Grows(e, q) ==
  /\ q = log[e] \/ \E x \in Record : q = Append(log[e], x)
  /\ Len(q) <= Reach(e, Len(q)) + SessCap
  /\ Flushed(e, q)

LEMMA GrowsTo ==
  ASSUME TypeOK, NEW e \in End, NEW q, Grows(e, q)
  PROVE  /\ log' \in [End -> Seq(Record)] /\ wrote' \in [End -> Nat]
         /\ log'[e] = q /\ q \in Seq(Record) /\ Len(log[e]) <= Len(q) /\ Len(q) \in Nat
         /\ \A i \in 1 .. Len(log[e]) : q[i] = log[e][i]
         /\ log'[Other(e)] = log[Other(e)] /\ wrote'[Other(e)] = wrote[Other(e)]
         /\ wrote'[e] = Reach(e, Len(q))
         /\ wrote[e] <= wrote'[e] /\ wrote'[e] <= Len(q) /\ wrote'[e] <= read[e] + WireCap
         /\ Len(q) <= wrote'[e] + SessCap
<1>1. log[e] \in Seq(Record) /\ Len(log[e]) \in Nat /\ wrote[e] <= Len(log[e]) /\ wrote[e] \in Nat
  BY EndType
<1>2. /\ q \in Seq(Record) /\ Len(log[e]) <= Len(q) /\ Len(q) \in Nat
      /\ \A i \in 1 .. Len(log[e]) : q[i] = log[e][i]
  <2>1. CASE q = log[e]
    BY <1>1, <2>1
  <2>2. ASSUME NEW x \in Record, q = Append(log[e], x)
        PROVE  /\ q \in Seq(Record) /\ Len(log[e]) <= Len(q) /\ Len(q) \in Nat
               /\ \A i \in 1 .. Len(log[e]) : q[i] = log[e][i]
    BY <1>1, <2>2, SeqAppend
  <2> QED  BY <2>1, <2>2 DEF Grows
<1>3. /\ Reach(e, Len(q)) \in Nat /\ wrote[e] <= Reach(e, Len(q)) /\ Reach(e, Len(q)) <= Len(q)
      /\ Reach(e, Len(q)) <= read[e] + WireCap
  <2>1. wrote[e] <= Len(q)
    BY <1>1, <1>2
  <2> QED  BY <1>2, <2>1, ReachIs
<1>4. /\ log' = [log EXCEPT ![e] = q] /\ wrote' = [wrote EXCEPT ![e] = Reach(e, Len(q))]
      /\ log \in [End -> Seq(Record)] /\ wrote \in [End -> Nat]
  BY DEF Grows, Flushed, TypeOK
<1>5. /\ log' \in [End -> Seq(Record)] /\ log'[e] = q /\ log'[Other(e)] = log[Other(e)]
  BY <1>2, <1>4, Ends
<1>6. /\ wrote' \in [End -> Nat] /\ wrote'[e] = Reach(e, Len(q)) /\ wrote'[Other(e)] = wrote[Other(e)]
  BY <1>3, <1>4, Ends
<1> QED  BY <1>2, <1>3, <1>5, <1>6 DEF Grows

LEMMA GrowsType ==
  ASSUME TypeOK, NEW e \in End, NEW q, Grows(e, q), UNCHANGED <<apps, taken, down>>,
         read' \in [End -> Nat], pos' \in [End -> Nat], eof' \in [End -> BOOLEAN], shut' \in [End -> BOOLEAN],
         upAt' \in [End -> {"copy", "shutdown", "done"}], upBuf' \in [End -> Nat],
         state' \in [End -> States], state'["client"] \notin {"accept", "response", "refused"},
         state'["server"] \notin {"connect", "request"},
         \A d \in End : read[d] <= read'[d] /\ read'[d] <= wrote[d] /\ pos'[d] <= read'[d]
  PROVE  TypeOK'
<1>1. \A d \in End : /\ pos'[d] <= read'[d] /\ read'[d] <= wrote'[d] /\ wrote'[d] <= Len(log'[d])
                     /\ wrote'[d] <= read'[d] + WireCap /\ Len(log'[d]) <= wrote'[d] + SessCap
  <2> SUFFICES ASSUME NEW d \in End
               PROVE  /\ pos'[d] <= read'[d] /\ read'[d] <= wrote'[d] /\ wrote'[d] <= Len(log'[d])
                      /\ wrote'[d] <= read'[d] + WireCap /\ Len(log'[d]) <= wrote'[d] + SessCap
    OBVIOUS
  <2>1. /\ read'[d] \in Nat /\ read[d] \in Nat /\ wrote[d] \in Nat /\ read[d] <= read'[d] /\ read'[d] <= wrote[d]
        /\ WireCap \in Nat
    BY EndType, TlsTunnelAssumption
  <2>2. CASE d = e
    <3>1. /\ wrote'[e] \in Nat /\ wrote[e] <= wrote'[e] /\ wrote'[e] <= Len(log'[e])
          /\ wrote'[e] <= read[e] + WireCap /\ Len(log'[e]) <= wrote'[e] + SessCap
      BY GrowsTo
    <3> QED  BY <2>1, <2>2, <3>1
  <2>3. CASE d = Other(e)
    <3>1. /\ wrote'[d] = wrote[d] /\ log'[d] = log[d]
      BY <2>3, GrowsTo
    <3>2. /\ wrote[d] <= Len(log[d]) /\ wrote[d] <= read[d] + WireCap /\ Len(log[d]) <= wrote[d] + SessCap
      BY EndType
    <3> QED  BY SMTT(60), <2>1, <3>1, <3>2
  <2> QED  BY <2>2, <2>3, Ends
<1>2. log' \in [End -> Seq(Record)] /\ wrote' \in [End -> Nat]
  BY GrowsTo
<1> QED  BY <1>1, <1>2 DEF TypeOK, apps, down

-----------------------------------------------------------------------------
(* What each part of the invariant depends on. *)

LEMMA GreetingFrame == ASSUME Greeting, UNCHANGED <<log, read, pos>> PROVE Greeting'
BY DEF Greeting

LEMMA LogFrame ==
  ASSUME NEW d \in End, LogIs(d), log'[d] = log[d], Given(d)' = Given(d)
  PROVE  LogIs(d)'
BY DEF LogIs

LEMMA PaceFrame ==
  ASSUME NEW d \in End, Pace(d), log'[d] = log[d], wrote'[d] = wrote[d], upBuf'[d] = upBuf[d],
         taken'[d] = taken[d], upAt'[d] = upAt[d], sent'[d] = sent[d], closed'[d] = closed[d],
         state'[d] = state[d] \/ state'[d] \in Ended
  PROVE  Pace(d)'
BY DEF Pace, Given, Ended

LEMMA DeliveredFrame ==
  ASSUME TypeOK, NEW d \in End, Delivered(d), pos'[Other(d)] = pos[Other(d)], got'[d] = got[d],
         downBuf'[d] = downBuf[d], Given(Other(d)) \in Nat, Given(Other(d))' \in Nat,
         Given(Other(d)) <= Given(Other(d))'
  PROVE  Delivered(d)'
<1>1. pos[Other(d)] \in Nat /\ Base(Other(d)) \in {2, 3}
  BY EndType, Ends
<1>2. pos'[Other(d)] <= Base(Other(d)) + Given(Other(d))'
  BY <1>1 DEF Delivered
<1> QED  BY <1>2 DEF Delivered

LEMMA EofFrame ==
  ASSUME NEW d \in End, EofIs(d), eof'[d] = eof[d], UNCHANGED <<log, wrote, read, pos>>,
         shut[Other(d)] => shut'[Other(d)]
  PROVE  EofIs(d)'
BY DEF EofIs, Plain, AtEnd, Notified, Took

LEMMA SeenFrame ==
  ASSUME NEW d \in End, SeenIs(d), endSeen'[d] = endSeen[d], eof[d] => eof'[d],
         downBuf'[d] = downBuf[d], downAt'[d] = downAt[d]
  PROVE  SeenIs(d)'
BY DEF SeenIs

LEMMA ShutFrame ==
  ASSUME NEW d \in End, ShutIs(d), shut'[d] = shut[d], upAt[d] = "done" => upAt'[d] = "done",
         state'[d] = state[d] \/ {state[d], state'[d]} \cap Ended = {}
  PROVE  ShutIs(d)'
BY DEF ShutIs, Ended

LEMMA FailsFrame ==
  ASSUME FailsOnlyAfterClose, state'["server"] = state["server"] \/ state["server"] # "refused",
         \A d \in End : (state'[d] = "failed" => state[d] = "failed") /\ (closed[d] => closed'[d])
  PROVE  FailsOnlyAfterClose'
BY Ends DEF FailsOnlyAfterClose

(* The parts that only the bytes under way can disturb. *)
LEMMA BytesKept ==
  ASSUME IInv, UNCHANGED <<session, read, pos, upBuf, taken, got, downBuf>>
  PROVE  Greeting' /\ \A d \in End : LogIs(d)' /\ Delivered(d)'
<1>1. \A d \in End : Given(d)' = Given(d) /\ Given(d) \in Nat
  BY GivenType DEF Given, IInv
<1>2. ASSUME NEW d \in End PROVE LogIs(d)' /\ Delivered(d)'
  <2>1. Other(d) \in End
    BY Ends
  <2> QED  BY <1>1, <2>1, LogFrame, DeliveredFrame DEF IInv, session
<1> QED  BY <1>2, GreetingFrame DEF IInv, session

-----------------------------------------------------------------------------
(* The steps of the applications. *)

LEMMA AppSendStep == ASSUME IInv, NEW e \in End, AppSend(e) PROVE IInv'
<1>1. UNCHANGED <<closed, got, endSeen, log, wrote, read, pos, eof, shut, upAt, upBuf, taken, downAt, downBuf, state>>
  BY DEF AppSend, session, up, down
<1>2. /\ sent' \in [End -> Nat] /\ sent'[e] = sent[e] + 1 /\ sent[e] \in Nat /\ ~closed[e]
      /\ \A d \in End : d # e => sent'[d] = sent[d]
  BY DEF AppSend, IInv, TypeOK
<1>3. TypeOK'
  BY <1>1, <1>2 DEF IInv, TypeOK
<1>4. ASSUME NEW d \in End PROVE Pace(d)'
  <2>1. CASE d = e
    <3>1. taken[e] \in Nat
      BY EndType DEF IInv
    <3>2. taken'[e] <= sent'[e] /\ upAt'[e] = "copy"
      BY <1>1, <1>2, <3>1 DEF IInv, Pace
    <3> QED  BY <1>1, <2>1, <3>2 DEF IInv, Pace, Given
  <2>2. CASE d # e
    BY <1>1, <1>2, <2>2, PaceFrame DEF IInv
  <2> QED  BY <2>1, <2>2
<1>5. ASSUME NEW d \in End PROVE EofIs(d)' /\ SeenIs(d)' /\ ShutIs(d)'
  BY <1>1, EofFrame, SeenFrame, ShutFrame DEF IInv
<1>6. Greeting' /\ \A d \in End : LogIs(d)' /\ Delivered(d)'
  BY <1>1, BytesKept DEF session
<1>7. FailsOnlyAfterClose'
  BY <1>1, FailsFrame DEF IInv
<1> QED  BY <1>3, <1>4, <1>5, <1>6, <1>7 DEF IInv

LEMMA AppCloseStep == ASSUME IInv, NEW e \in End, AppClose(e) PROVE IInv'
<1>1. UNCHANGED <<sent, got, endSeen, log, wrote, read, pos, eof, shut, upAt, upBuf, taken, downAt, downBuf, state>>
  BY DEF AppClose, session, up, down
<1>2. closed' \in [End -> BOOLEAN] /\ \A d \in End : closed[d] => closed'[d]
  BY DEF AppClose, IInv, TypeOK
<1>3. TypeOK'
  BY <1>1, <1>2 DEF IInv, TypeOK
<1>4. ASSUME NEW d \in End PROVE Pace(d)' /\ EofIs(d)' /\ SeenIs(d)' /\ ShutIs(d)'
  <2>1. Pace(d)'
    BY <1>1, <1>2 DEF IInv, Pace, Given
  <2> QED  BY <1>1, <2>1, EofFrame, SeenFrame, ShutFrame DEF IInv
<1>5. Greeting' /\ \A d \in End : LogIs(d)' /\ Delivered(d)'
  BY <1>1, BytesKept DEF session
<1>6. FailsOnlyAfterClose'
  BY <1>1, <1>2, FailsFrame DEF IInv
<1> QED  BY <1>3, <1>4, <1>5, <1>6 DEF IInv

-----------------------------------------------------------------------------
(* The end of a tunnel, and its start. *)

LEMMA StartTunnelStep == ASSUME IInv, NEW e \in End, StartTunnel(e) PROVE IInv'
<1>1. UNCHANGED <<sent, closed, got, endSeen, log, wrote, read, pos, eof, shut, upAt, upBuf, taken, downAt, downBuf>>
  BY DEF StartTunnel, apps, session, up, down
<1>2. /\ state' \in [End -> States] /\ state'[e] = "tunnel" /\ state[e] \in {"request", "response"}
      /\ \A d \in End : d # e => state'[d] = state[d]
  BY DEF StartTunnel, IInv, TypeOK, States
<1>3. TypeOK'
  <2>1. state'["client"] \notin {"accept", "response", "refused"} /\ state'["server"] \notin {"connect", "request"}
    BY <1>2 DEF IInv, TypeOK, End
  <2> QED  BY <1>1, <1>2, <2>1 DEF IInv, TypeOK
<1>4. ASSUME NEW d \in End PROVE Pace(d)'
  <2>1. CASE d = e
    BY <1>1, <1>2, <2>1 DEF IInv, Pace, Given
  <2>2. CASE d # e
    BY <1>1, <1>2, <2>2, PaceFrame DEF IInv
  <2> QED  BY <2>1, <2>2
<1>5. ASSUME NEW d \in End PROVE EofIs(d)' /\ SeenIs(d)' /\ ShutIs(d)'
  <2>1. state'[d] = state[d] \/ {state[d], state'[d]} \cap Ended = {}
    BY <1>2 DEF Ended
  <2> QED  BY <1>1, <2>1, EofFrame, SeenFrame, ShutFrame DEF IInv
<1>6. Greeting' /\ \A d \in End : LogIs(d)' /\ Delivered(d)'
  BY <1>1, BytesKept DEF session
<1>7. FailsOnlyAfterClose'
  <2>1. "server" \in End /\ (state'["server"] = state["server"] \/ state["server"] # "refused")
    BY <1>2 DEF End
  <2>2. \A d \in End : state'[d] = "failed" => state[d] = "failed"
    BY <1>2
  <2> QED  BY <1>1, <2>1, <2>2, FailsFrame DEF IInv
<1> QED  BY <1>3, <1>4, <1>5, <1>6, <1>7 DEF IInv

(* Whichever way a stream is dropped. *)
LEMMA DropKeeps ==
  ASSUME IInv, NEW e \in End, NEW s \in Ended, Drop(e, s), state[e] \notin Ended,
         s = "refused" => e = "server", s = "ok" => upAt[e] = "done",
         s = "failed" => state["server"] = "refused" \/ closed[e] \/ closed[Other(e)]
  PROVE  IInv'
<1>1. UNCHANGED <<sent, closed, got, endSeen, log, wrote, read, pos, eof, upAt, upBuf, taken, downAt, downBuf>>
  BY DEF Drop, apps, session, up, down
<1>2. /\ state' \in [End -> States] /\ state'[e] = s /\ \A d \in End : d # e => state'[d] = state[d]
      /\ shut' \in [End -> BOOLEAN] /\ shut'[e] = TRUE /\ \A d \in End : d # e => shut'[d] = shut[d]
  BY DEF Drop, IInv, TypeOK, States
<1>3. TypeOK'
  <2>1. state'["client"] \notin {"accept", "response", "refused"} /\ state'["server"] \notin {"connect", "request"}
    BY <1>2 DEF IInv, TypeOK, End, Ended
  <2> QED  BY <1>1, <1>2, <2>1 DEF IInv, TypeOK
<1>4. ASSUME NEW d \in End PROVE Pace(d)'
  BY <1>1, <1>2, PaceFrame DEF IInv
<1>5. ASSUME NEW d \in End PROVE EofIs(d)' /\ SeenIs(d)' /\ ShutIs(d)'
  <2>1. shut[Other(d)] => shut'[Other(d)]
    BY <1>2, Ends
  <2>2. ShutIs(d)'
    <3>1. CASE d = e
      BY <1>1, <1>2, <3>1 DEF ShutIs, Ended
    <3>2. CASE d # e
      BY <1>1, <1>2, <3>2, ShutFrame DEF IInv
    <3> QED  BY <3>1, <3>2
  <2> QED  BY <1>1, <2>1, <2>2, EofFrame, SeenFrame DEF IInv
<1>6. Greeting' /\ \A d \in End : LogIs(d)' /\ Delivered(d)'
  BY <1>1, BytesKept DEF session
<1>7. FailsOnlyAfterClose'
  <2>1. "server" \in End /\ (state["server"] = "refused" => state'["server"] = "refused")
    BY <1>2 DEF End, Ended
  <2>2. \A d \in End : state'[d] = "failed" => (state[d] = "failed" \/ (d = e /\ s = "failed"))
    BY <1>2
  <2> QED  BY <1>1, <2>1, <2>2 DEF IInv, FailsOnlyAfterClose
<1> QED  BY <1>3, <1>4, <1>5, <1>6, <1>7 DEF IInv

(* Why the other end's stream may be over. *)
LEMMA OtherHasClosed ==
  ASSUME IInv, NEW e \in End, eof[e] \/ shut[Other(e)]
  PROVE  state["server"] = "refused" \/ closed[e] \/ closed[Other(e)]
<1> DEFINE o == Other(e)
<1>1. o \in End /\ Other(o) = e /\ o \in {"client", "server"} /\ Base(o) \in {2, 3}
  BY Ends DEF End
<1>2. CASE shut[o]
  <2>1. state[o] \in {"failed", "refused"} \/ upAt[o] = "done"
    BY <1>1, <1>2 DEF IInv, ShutIs
  <2>2. state[o] = "refused" => o = "server"
    BY <1>1 DEF IInv, TypeOK
  <2>3. upAt[o] = "done" => closed[o]
    BY <1>1 DEF IInv, Pace
  <2>4. state[o] = "failed" => state["server"] = "refused" \/ closed[e] \/ closed[o]
    BY <1>1 DEF IInv, FailsOnlyAfterClose
  <2> QED  BY <2>1, <2>2, <2>3, <2>4
<1>3. CASE eof[e] /\ Notified(e)
  <2>1. read[o] > Base(o) + Given(o)
    BY <1>1, <1>3, ReadIs DEF IInv
  <2>2. Len(log[o]) > Base(o) + Given(o)
    <3>1. read[o] <= Len(log[o]) /\ read[o] \in Nat /\ Len(log[o]) \in Nat /\ Given(o) \in Nat
      BY <1>1, EndType, GivenType DEF IInv
    <3> QED  BY <1>1, <2>1, <3>1
  <2>3. upAt[o] # "copy"
    <3>1. Len(log[o]) \in Nat /\ Given(o) \in Nat
      BY <1>1, EndType, GivenType DEF IInv
    <3>2. Len(log[o]) <= Base(o) + Given(o) + IF upAt[o] = "copy" THEN 0 ELSE 1
      BY <1>1 DEF IInv, Pace
    <3> QED  BY <1>1, <2>2, <3>1, <3>2
  <2> QED  BY <1>1, <2>3 DEF IInv, Pace
<1>4. eof[e] => Notified(e) \/ shut[o]
  BY DEF IInv, EofIs, AtEnd
<1> QED  BY <1>2, <1>3, <1>4

LEMMA DropSteps ==
  ASSUME IInv, NEW e \in End, Refuse(e) \/ UpWriteZero(e) \/ Finish(e) \/ Reset(e)
  PROVE  IInv'
<1>1. Other(e) \in End /\ e \in {"client", "server"}
  BY Ends DEF End
<1>2. CASE Refuse(e)
  <2>1. state[e] = "response" /\ Drop(e, "refused") /\ e = "server"
    BY <1>1, <1>2 DEF Refuse, IInv, TypeOK
  <2> QED  BY <2>1, DropKeeps DEF Ended
<1>3. CASE UpWriteZero(e)
  <2>1. state[e] = "tunnel" /\ Drop(e, "failed") /\ eof[e]
    BY <1>3 DEF UpWriteZero, WriteReturnsZero
  <2> QED  BY <2>1, DropKeeps, OtherHasClosed DEF Ended
<1>4. CASE Finish(e)
  <2>1. state[e] = "tunnel" /\ Drop(e, "ok") /\ upAt[e] = "done"
    BY <1>4 DEF Finish
  <2> QED  BY <2>1, DropKeeps DEF Ended
<1>5. CASE Reset(e)
  <2>1. state[e] \notin Ended /\ Drop(e, "failed") /\ state[Other(e)] \in Ended
    BY <1>5 DEF Reset
  <2>2. shut[Other(e)]
    BY <1>1, <2>1 DEF IInv, ShutIs
  <2> QED  BY <2>1, <2>2, DropKeeps, OtherHasClosed DEF Ended
<1> QED  BY <1>2, <1>3, <1>4, <1>5

-----------------------------------------------------------------------------
(* The copies that leave the session alone. *)

LEMMA UpReadStep == ASSUME IInv, NEW e \in End, UpRead(e) PROVE IInv'
<1>1. UNCHANGED <<sent, closed, got, endSeen, log, wrote, read, pos, eof, shut, upAt, downAt, downBuf, state>>
  BY DEF UpRead, apps, session, down
<1>2. taken[e] \in Nat /\ sent[e] \in Nat /\ taken[e] < sent[e] /\ upBuf[e] = None /\ upAt[e] = "copy"
  BY EndType DEF UpRead, IInv
<1>3. /\ upBuf' \in [End -> Nat] /\ taken' \in [End -> Nat]
      /\ upBuf'[e] = taken[e] + 1 /\ taken'[e] = taken[e] + 1
      /\ \A d \in End : d # e => upBuf'[d] = upBuf[d] /\ taken'[d] = taken[d]
  BY <1>2 DEF UpRead, IInv, TypeOK
<1>4. TypeOK'
  BY <1>1, <1>3 DEF IInv, TypeOK
<1>5. \A d \in End : Given(d)' = Given(d)
  <2>1. Given(e)' = Given(e)
    BY <1>2, <1>3 DEF Given, None
  <2>2. \A d \in End : d # e => Given(d)' = Given(d)
    BY <1>3 DEF Given
  <2> QED  BY <2>1, <2>2
<1>6. ASSUME NEW d \in End PROVE Pace(d)'
  <2>1. CASE d = e
    <3>1. state[e] = "tunnel"
      BY DEF UpRead
    <3>2. Len(log[e]) >= Base(e)
      BY <3>1 DEF IInv, Pace
    <3>3. upBuf'[e] \in {None, taken'[e]} /\ taken'[e] <= sent'[e] /\ upAt'[e] = "copy"
      BY <1>1, <1>2, <1>3
    <3>4. Len(log[e]) \in Nat /\ Base(e) \in {2, 3}
      BY EndType, Ends DEF IInv
    <3>5. ~(Len(log[e]) < Base(e))
      BY <3>2, <3>4
    <3> QED  BY <1>1, <1>2, <1>5, <2>1, <3>1, <3>3, <3>5 DEF IInv, Pace
  <2>2. CASE d # e
    BY <1>1, <1>3, <2>2, PaceFrame DEF IInv
  <2> QED  BY <2>1, <2>2
<1>7. ASSUME NEW d \in End PROVE LogIs(d)' /\ EofIs(d)' /\ SeenIs(d)' /\ ShutIs(d)'
  BY <1>1, <1>5, LogFrame, EofFrame, SeenFrame, ShutFrame DEF IInv
<1>8. ASSUME NEW d \in End PROVE Delivered(d)'
  <2>1. Other(d) \in End /\ Given(Other(d)) \in Nat
    BY Ends, GivenType DEF IInv
  <2> QED  BY <1>1, <1>5, <2>1, DeliveredFrame DEF IInv
<1>9. Greeting' /\ FailsOnlyAfterClose'
  BY <1>1, GreetingFrame, FailsFrame DEF IInv
<1> QED  BY <1>4, <1>6, <1>7, <1>8, <1>9 DEF IInv

LEMMA UpEofAfterPeerStep == ASSUME IInv, NEW e \in End, UpEofAfterPeer(e) PROVE IInv'
<1>1. UNCHANGED <<sent, closed, got, endSeen, log, wrote, read, pos, eof, shut, upBuf, taken, downAt, downBuf, state>>
  BY DEF UpEofAfterPeer, apps, session, down
<1>2. /\ upAt' \in [End -> {"copy", "shutdown", "done"}] /\ upAt'[e] = "done"
      /\ \A d \in End : d # e => upAt'[d] = upAt[d]
  BY DEF UpEofAfterPeer, IInv, TypeOK
<1>3. TypeOK'
  BY <1>1, <1>2 DEF IInv, TypeOK
<1>4. ASSUME NEW d \in End PROVE Pace(d)'
  <2>1. CASE d = e
    <3>1. /\ state[e] = "tunnel" /\ upBuf[e] = None /\ closed[e] /\ taken[e] = sent[e] /\ eof[e]
      BY DEF UpEofAfterPeer, UpEnds
    <3>2. wrote[e] = Len(log[e])
      BY <3>1 DEF IInv, EofIs
    <3>3. Len(log[e]) \in Nat /\ Base(e) \in {2, 3} /\ Given(e) \in Nat
      BY EndType, Ends, GivenType DEF IInv
    <3>4. Len(log[e]) >= Base(e)
      BY <3>1 DEF IInv, Pace
    <3>5. ~(Len(log[e]) < Base(e)) /\ Len(log[e]) <= Base(e) + Given(e) + 1
      BY <3>3, <3>4 DEF IInv, Pace
    <3>6. Given(e)' = Given(e)
      BY <1>1 DEF Given
    <3> QED  BY <1>1, <1>2, <2>1, <3>1, <3>2, <3>5, <3>6 DEF IInv, Pace
  <2>2. CASE d # e
    BY <1>1, <1>2, <2>2, PaceFrame DEF IInv
  <2> QED  BY <2>1, <2>2
<1>5. ASSUME NEW d \in End PROVE EofIs(d)' /\ SeenIs(d)' /\ ShutIs(d)'
  BY <1>1, <1>2, EofFrame, SeenFrame, ShutFrame DEF IInv
<1>6. Greeting' /\ \A d \in End : LogIs(d)' /\ Delivered(d)'
  BY <1>1, BytesKept DEF session
<1>7. FailsOnlyAfterClose'
  BY <1>1, FailsFrame DEF IInv
<1> QED  BY <1>3, <1>4, <1>5, <1>6, <1>7 DEF IInv

LEMMA DownWriteStep == ASSUME IInv, NEW e \in End, DownWrite(e) PROVE IInv'
<1>1. UNCHANGED <<sent, closed, endSeen, log, wrote, read, pos, eof, shut, upAt, upBuf, taken, downAt, state>>
  BY DEF DownWrite, session, up
<1>2. /\ got[e] \in Seq(Nat) /\ downBuf[e] \in Nat /\ downBuf[e] # None /\ Len(got[e]) \in Nat
  BY EndType DEF DownWrite, IInv
<1>3. /\ got' \in [End -> Seq(Nat)] /\ downBuf' \in [End -> Nat]
      /\ got'[e] = Append(got[e], downBuf[e]) /\ downBuf'[e] = None
      /\ \A d \in End : d # e => got'[d] = got[d] /\ downBuf'[d] = downBuf[d]
  BY <1>2 DEF DownWrite, IInv, TypeOK, None
<1>4. TypeOK'
  BY <1>1, <1>3 DEF IInv, TypeOK
<1>5. \A d \in End : Given(d)' = Given(d)
  BY <1>1 DEF Given
<1>6. ASSUME NEW d \in End PROVE Delivered(d)'
  <2>1. Other(d) \in End /\ Given(Other(d)) \in Nat
    BY Ends, GivenType DEF IInv
  <2>2. CASE d = e
    <3>1. downBuf[e] = Len(got[e]) + 1 /\ \A i \in 1 .. Len(got[e]) : got[e][i] = i
      BY <1>2 DEF IInv, Delivered
    <3>2. /\ Len(got'[e]) = downBuf[e]
          /\ \A i \in 1 .. Len(got[e]) : got'[e][i] = got[e][i]
          /\ got'[e][Len(got[e]) + 1] = downBuf[e]
      BY <1>2, <1>3, <3>1, SeqAppend
    <3>3. \A i \in 1 .. Len(got'[e]) : got'[e][i] = i
      BY <1>2, <3>1, <3>2
    <3>4. downBuf[e] = IF pos[Other(e)] <= Base(Other(e)) THEN 0 ELSE pos[Other(e)] - Base(Other(e))
      BY <1>2 DEF IInv, Delivered
    <3>5. pos[Other(e)] <= Base(Other(e)) + Given(Other(e))
      BY DEF IInv, Delivered
    <3> QED  BY <1>1, <1>3, <1>5, <2>1, <2>2, <3>2, <3>3, <3>4, <3>5 DEF Delivered
  <2>3. CASE d # e
    BY <1>1, <1>3, <1>5, <2>1, <2>3, DeliveredFrame DEF IInv
  <2> QED  BY <2>2, <2>3
<1>7. ASSUME NEW d \in End PROVE LogIs(d)' /\ Pace(d)' /\ EofIs(d)' /\ ShutIs(d)'
  BY <1>1, <1>5, LogFrame, PaceFrame, EofFrame, ShutFrame DEF IInv
<1>8. ASSUME NEW d \in End PROVE SeenIs(d)'
  BY <1>1, <1>3 DEF IInv, SeenIs
<1>9. Greeting' /\ FailsOnlyAfterClose'
  BY <1>1, GreetingFrame, FailsFrame DEF IInv
<1> QED  BY <1>4, <1>6, <1>7, <1>8, <1>9 DEF IInv

LEMMA DownEofStep == ASSUME IInv, NEW e \in End, DownEof(e) PROVE IInv'
<1>1. UNCHANGED <<sent, closed, got, log, wrote, read, pos, eof, shut, upAt, upBuf, taken, downBuf, state>>
  BY DEF DownEof, session, up
<1>2. /\ endSeen' \in [End -> BOOLEAN] /\ downAt' \in [End -> {"copy", "done"}]
      /\ downAt'[e] = "done" /\ downBuf[e] = None /\ eof[e]
      /\ \A d \in End : d # e => endSeen'[d] = endSeen[d] /\ downAt'[d] = downAt[d]
  BY DEF DownEof, IInv, TypeOK
<1>3. TypeOK'
  BY <1>1, <1>2 DEF IInv, TypeOK
<1>4. ASSUME NEW d \in End PROVE SeenIs(d)'
  BY <1>1, <1>2 DEF IInv, SeenIs
<1>5. ASSUME NEW d \in End PROVE Pace(d)' /\ EofIs(d)' /\ ShutIs(d)'
  BY <1>1, PaceFrame, EofFrame, ShutFrame DEF IInv
<1>6. Greeting' /\ \A d \in End : LogIs(d)' /\ Delivered(d)'
  BY <1>1, BytesKept DEF session
<1>7. FailsOnlyAfterClose'
  BY <1>1, FailsFrame DEF IInv
<1> QED  BY <1>3, <1>4, <1>5, <1>6, <1>7 DEF IInv

(* The next record whose plaintext is handed over. *)
LEMMA NextIs ==
  ASSUME IInv, NEW e \in End, NEW i, NextPlain(e, i)
  PROVE  /\ i \in Nat /\ i > pos[Other(e)] /\ i <= read[Other(e)]
         /\ Base(Other(e)) <= i /\ i <= Base(Other(e)) + Given(Other(e))
         /\ i = IF pos[Other(e)] < Base(Other(e)) THEN Base(Other(e)) ELSE pos[Other(e)] + 1
<1> DEFINE o == Other(e)  m == IF pos[o] < Base(o) THEN Base(o) ELSE pos[o] + 1
<1>1. o \in End /\ Base(o) \in {2, 3} /\ pos[o] \in Nat /\ read[o] \in Nat /\ Given(o) \in Nat
  BY Ends, EndType, GivenType DEF IInv
<1>2. \A j : j \in Plain(e) <=> j \in pos[o] + 1 .. read[o] /\ Base(o) <= j /\ j <= Base(o) + Given(o)
  BY <1>1, ReadIs DEF IInv
<1>3. i \in pos[o] + 1 .. read[o] /\ Base(o) <= i /\ i <= Base(o) + Given(o)
  BY <1>2 DEF NextPlain
<1>4. m <= i /\ m \in Nat /\ m >= pos[o] + 1 /\ Base(o) <= m
  BY <1>1, <1>3
<1>5. m \in Plain(e)
  BY <1>1, <1>2, <1>3, <1>4
<1>6. i <= m
  BY <1>5 DEF NextPlain
<1> QED  BY <1>1, <1>3, <1>4, <1>6

LEMMA DownReadStep == ASSUME IInv, NEW e \in End, DownRead(e) PROVE IInv'
<1> DEFINE o == Other(e)
<1>1. UNCHANGED <<sent, closed, got, endSeen, log, wrote, read, eof, shut, upAt, upBuf, taken, downAt, state>>
  BY DEF DownRead, apps, session, up
<1>2. PICK i \in Plain(e) : /\ NextPlain(e, i)
                            /\ pos' = [pos EXCEPT ![o] = i]
                            /\ downBuf' = [downBuf EXCEPT ![e] = log[o][i][2]]
  BY DEF DownRead
<1>3. ~eof[e] /\ downAt[e] = "copy" /\ downBuf[e] = None
  BY DEF DownRead
<1>4. o \in End /\ o # e /\ Other(o) = e /\ Base(o) \in {2, 3} /\ Given(o) \in Nat /\ pos[o] \in Nat
  BY Ends, GivenType, EndType DEF IInv
<1>5. /\ i \in Nat /\ i > pos[o] /\ i <= read[o] /\ Base(o) <= i /\ i <= Base(o) + Given(o)
      /\ i = IF pos[o] < Base(o) THEN Base(o) ELSE pos[o] + 1
  BY <1>2, NextIs
<1>6. log[o][i][2] = i - Base(o)
  <2>1. i \in 1 .. Len(log[o])
    <3>1. read[o] \in Nat /\ Len(log[o]) \in Nat /\ read[o] <= wrote[o] /\ wrote[o] <= Len(log[o]) /\ wrote[o] \in Nat
      BY <1>4, EndType DEF IInv
    <3> QED  BY SMTT(60), <1>4, <1>5, <3>1
  <2>2. CASE i = Base(o)
    <3>1. log[o][i] = Opening(o)[Base(o)]
      BY <1>4, <2>1, <2>2, RecordAt DEF IInv
    <3>2. Opening(o)[Base(o)] = Header
      BY <1>4 DEF Opening, Base, End
    <3> QED  BY <1>4, <2>2, <3>1, <3>2, Items
  <2>3. CASE i > Base(o)
    <3>1. log[o][i] = Data(i - Base(o)) /\ i - Base(o) \in Nat
      BY SMTT(60), <1>4, <1>5, <2>1, <2>3, RecordAt DEF IInv
    <3> QED  BY <3>1, Items
  <2> QED  BY <1>4, <1>5, <2>2, <2>3
<1>7. /\ pos' \in [End -> Nat] /\ pos'[o] = i /\ pos'[e] = pos[e]
      /\ downBuf' \in [End -> Nat] /\ downBuf'[e] = i - Base(o) /\ downBuf'[o] = downBuf[o]
  <2>1. i - Base(o) \in Nat
    BY <1>4, <1>5
  <2> QED  BY <1>2, <1>4, <1>5, <1>6, <2>1 DEF IInv, TypeOK
<1>8. \A d \in End : d = e \/ d = o
  BY Ends
<1>9. TypeOK'
  <2>1. \A d \in End : pos'[d] <= read'[d]
    BY <1>1, <1>5, <1>7, <1>8, EndType DEF IInv
  <2> QED  BY <1>1, <1>7, <2>1 DEF IInv, TypeOK
<1>10. \A d \in End : Given(d)' = Given(d)
  BY <1>1 DEF Given
<1>11. Delivered(e)'
  <2>1. /\ \A k \in 1 .. Len(got[e]) : got[e][k] = k
        /\ Len(got[e]) = IF pos[o] <= Base(o) THEN 0 ELSE pos[o] - Base(o)
    BY <1>3 DEF IInv, Delivered
  <2>2. i - Base(o) # 0 => i - Base(o) = Len(got[e]) + 1
    BY <1>4, <1>5, <2>1
  <2>3. (IF i - Base(o) = 0 THEN Len(got[e]) ELSE i - Base(o)) = IF i <= Base(o) THEN 0 ELSE i - Base(o)
    BY <1>4, <1>5, <2>1
  <2>4. Given(o)' = Given(o) /\ pos'[o] <= Base(o) + Given(o)
    BY <1>4, <1>5, <1>7, <1>10
  <2>5. downBuf'[e] # 0 => downBuf'[e] = Len(got'[e]) + 1
    BY <1>1, <1>7, <2>2
  <2>6. (IF downBuf'[e] = 0 THEN Len(got'[e]) ELSE downBuf'[e])
          = IF pos'[o] <= Base(o) THEN 0 ELSE pos'[o] - Base(o)
    BY <1>1, <1>7, <2>3
  <2> QED  BY <1>1, <2>1, <2>4, <2>5, <2>6 DEF Delivered, None
<1>12. Delivered(o)'
  <2>1. Given(e) \in Nat
    BY GivenType DEF IInv
  <2> QED  BY <1>1, <1>4, <1>7, <1>10, <2>1, DeliveredFrame DEF IInv
<1>13. EofIs(e)' /\ EofIs(o)'
  <2>1. EofIs(e)'
    BY <1>1, <1>3 DEF EofIs
  <2>2. EofIs(o)'
    <3>1. EofIs(o) /\ eof'[o] = eof[o] /\ wrote'[o] = wrote[o] /\ log' = log
      BY <1>1, <1>4 DEF IInv
    <3>2. Plain(o)' = Plain(o)
      BY <1>1, <1>4, <1>7 DEF Plain
    <3>3. AtEnd(o)' = AtEnd(o)
      BY <1>1 DEF AtEnd, Notified, Took
    <3> QED  BY <3>1, <3>2, <3>3 DEF EofIs
  <2> QED  BY <2>1, <2>2
<1>14. ASSUME NEW d \in End PROVE LogIs(d)' /\ Pace(d)' /\ ShutIs(d)'
  BY <1>1, <1>10, LogFrame, PaceFrame, ShutFrame DEF IInv
<1>15. ASSUME NEW d \in End PROVE SeenIs(d)'
  BY <1>1, <1>3, <1>4, <1>7, <1>8 DEF IInv, SeenIs
<1>16. FailsOnlyAfterClose'
  BY <1>1, FailsFrame DEF IInv
<1>17. Greeting'
  <2>1. CASE e = "client"
    BY <1>1, <1>7, <2>1 DEF IInv, Greeting
  <2>2. CASE e = "server"
    <3>1. ~(Len(log["server"]) < 2)
      <4>1. Len(log[e]) >= 2 /\ Len(log[e]) \in Nat
        BY <2>2, EndType DEF DownRead, IInv, Pace, Base
      <4> QED  BY <2>2, <4>1
    <3> QED  BY <1>1, <3>1 DEF IInv, Greeting
  <2> QED  BY <2>1, <2>2 DEF End
<1> QED  BY <1>17, <1>8, <1>9, <1>11, <1>12, <1>13, <1>14, <1>15, <1>16 DEF IInv

-----------------------------------------------------------------------------
(* The steps that flush the session. *)

(* The other end is not disturbed: what it had read of this log stays      *)
(* where it was, and a socket that is shut has nothing more to take.       *)
LEMMA GrowsEof ==
  ASSUME IInv, NEW e \in End, NEW q, Grows(e, q), state[e] \notin Ended,
         upAt[e] = "done" => q = log[e], eof'[Other(e)] = eof[Other(e)],
         read'[e] = read[e], pos'[e] = pos[e], shut[e] => shut'[e]
  PROVE  EofIs(Other(e))'
<1> DEFINE o == Other(e)
<1>1. o \in End /\ Other(o) = e
  BY Ends
<1>2. /\ log'[e] = q /\ log'[o] = log[o] /\ wrote'[o] = wrote[o] /\ wrote'[e] = Reach(e, Len(q))
      /\ \A i \in 1 .. Len(log[e]) : q[i] = log[e][i]
  BY GrowsTo DEF IInv
<1>3. read[e] \in Nat /\ pos[e] \in Nat /\ read[e] <= Len(log[e]) /\ Len(log[e]) \in Nat
  BY EndType DEF IInv
<1>4. \A i \in 1 .. read[e] : log'[e][i] = log[e][i]
  BY <1>2, <1>3
<1>5. Plain(o) = {} => Plain(o)' = {}
  BY <1>1, <1>3, <1>4 DEF Plain
<1>6. Notified(o) => Notified(o)'
  BY <1>1, <1>4 DEF Notified, Took
<1>7. shut[e] => wrote'[e] = wrote[e]
  <2>1. SUFFICES ASSUME shut[e] PROVE wrote'[e] = wrote[e]
    OBVIOUS
  <2>2. upAt[e] = "done"
    BY <2>1 DEF IInv, ShutIs, Ended
  <2>3. wrote[e] = Len(log[e]) /\ q = log[e]
    BY <2>2 DEF IInv, Pace
  <2>4. wrote[e] <= read[e] + WireCap /\ wrote[e] \in Nat
    BY EndType DEF IInv
  <2> QED  BY <1>2, <2>3, <2>4 DEF Reach
<1>8. AtEnd(o) => AtEnd(o)'
  BY <1>1, <1>6, <1>7 DEF AtEnd
<1> QED  BY <1>1, <1>2, <1>5, <1>8 DEF IInv, EofIs

LEMMA SameGrows ==
  ASSUME TypeOK, NEW e \in End, Flushed(e, log[e])
  PROVE  Grows(e, log[e]) /\ log' = log
<1>1. log' = log
  BY DEF Flushed, TypeOK
<1>2. Len(log[e]) <= Reach(e, Len(log[e])) + SessCap
  <2> DEFINE n == Len(log[e])  r == Reach(e, n)
  <2>1. n \in Nat /\ wrote[e] \in Nat /\ wrote[e] <= n /\ n <= wrote[e] + SessCap
    BY EndType
  <2>2. r \in Nat /\ wrote[e] <= r
    BY <2>1, ReachIs
  <2> HIDE DEF n, r
  <2>3. n <= r + SessCap
    BY <2>1, <2>2, TlsTunnelAssumption
  <2> QED  BY <2>3 DEF n, r
<1> QED  BY <1>1, <1>2 DEF Grows

(* A flush, with or without the end of the inner stream after it. *)
LEMMA FlushStep ==
  ASSUME IInv, NEW e \in End, ~eof[e], state[e] \notin Ended, Flushed(e, log[e]),
         eof' = eof \/ (eof' = [eof EXCEPT ![e] = TRUE] /\ Plain(e) = {} /\ Flushes(e) /\ AtEnd(e)),
         UNCHANGED <<apps, read, pos, shut, up, down, state>>
  PROVE  IInv'
<1> DEFINE o == Other(e)
<1>1. /\ UNCHANGED <<sent, closed, got, endSeen, read, pos, shut, upAt, upBuf, taken, downAt, downBuf, state>>
      /\ log' = log /\ Grows(e, log[e])
  BY SameGrows DEF IInv, apps, up, down
<1>2. /\ o \in End /\ o # e /\ Other(o) = e /\ \A d \in End : d = e \/ d = o
  BY Ends
<1>3. eof' \in [End -> BOOLEAN] /\ eof'[o] = eof[o]
  BY <1>2 DEF IInv, TypeOK
<1>4. TypeOK'
  <2>1. \A d \in End : read[d] <= read'[d] /\ read'[d] <= wrote[d] /\ pos'[d] <= read'[d]
    BY <1>1, EndType DEF IInv
  <2>2. /\ read' \in [End -> Nat] /\ pos' \in [End -> Nat] /\ shut' \in [End -> BOOLEAN]
        /\ upAt' \in [End -> {"copy", "shutdown", "done"}] /\ upBuf' \in [End -> Nat]
        /\ state' \in [End -> States] /\ state'["client"] \notin {"accept", "response", "refused"}
        /\ state'["server"] \notin {"connect", "request"}
    BY <1>1 DEF IInv, TypeOK
  <2>3. UNCHANGED <<apps, taken, down>>
    BY <1>1 DEF apps, down
  <2> QED  BY <1>1, <1>3, <2>1, <2>2, <2>3, GrowsType DEF IInv
<1>5. \A d \in End : Given(d)' = Given(d) /\ Given(d) \in Nat
  BY <1>1, GivenType DEF Given, IInv
<1>6. /\ wrote'[o] = wrote[o] /\ wrote'[e] = Reach(e, Len(log[e]))
      /\ upAt[e] = "done" => wrote'[e] = Len(log[e])
  <2>1. wrote'[o] = wrote[o] /\ wrote'[e] = Reach(e, Len(log[e])) /\ wrote[e] <= wrote'[e]
        /\ wrote'[e] <= Len(log[e])
    BY <1>1, GrowsTo DEF IInv
  <2>2. upAt[e] = "done" => wrote[e] = Len(log[e])
    BY DEF IInv, Pace
  <2>3. wrote[e] \in Nat /\ wrote'[e] \in Nat
    BY <1>4, EndType DEF IInv, TypeOK
  <2> QED  BY <2>1, <2>2, <2>3
<1>7. Pace(e)' /\ Pace(o)'
  <2>1. Pace(e)'
    BY <1>1, <1>5, <1>6 DEF IInv, Pace
  <2>2. Pace(o)'
    BY <1>1, <1>2, <1>6, PaceFrame DEF IInv
  <2> QED  BY <2>1, <2>2
<1>8. EofIs(o)'
  BY <1>1, <1>3, GrowsEof
<1>9. EofIs(e)'
  <2>1. CASE eof' = eof
    BY <2>1 DEF EofIs
  <2>2. CASE eof' # eof
    <3>1. Plain(e) = {} /\ Flushes(e) /\ AtEnd(e)
      BY <2>2
    <3>2. Plain(e)' = {}
      BY <1>1, <3>1 DEF Plain
    <3>3. wrote'[e] = Len(log'[e])
      BY <1>1, <1>6, <3>1 DEF Flushes
    <3>4. AtEnd(e)'
      BY <1>1, <1>6, <3>1 DEF AtEnd, Notified, Took
    <3> QED  BY <3>2, <3>3, <3>4 DEF EofIs
  <2> QED  BY <2>1, <2>2
<1>10. ASSUME NEW d \in End PROVE LogIs(d)' /\ ShutIs(d)' /\ Delivered(d)' /\ SeenIs(d)'
  <2>1. LogIs(d)' /\ ShutIs(d)'
    BY <1>1, <1>5, LogFrame, ShutFrame DEF IInv
  <2>2. Delivered(d)'
    BY <1>1, <1>5, Ends, DeliveredFrame DEF IInv
  <2>3. eof[d] => eof'[d]
    BY <1>2, <1>3
  <2>4. SeenIs(d)'
    BY <1>1, <2>3, SeenFrame DEF IInv
  <2> QED  BY <2>1, <2>2, <2>4
<1>11. Greeting' /\ FailsOnlyAfterClose'
  BY <1>1, GreetingFrame, FailsFrame DEF IInv
<1> QED  BY <1>2, <1>4, <1>7, <1>8, <1>9, <1>10, <1>11 DEF IInv

LEMMA FlushSteps == ASSUME IInv, NEW e \in End, Flush(e) \/ DriveEof(e) PROVE IInv'
<1>1. CASE Flush(e)
  BY <1>1, FlushStep DEF Flush
<1>2. CASE DriveEof(e)
  <2>1. ~eof[e] /\ state[e] \notin Ended
    BY <1>2 DEF DriveEof, ReadsTls, Reading, Ended
  <2>2. Plain(e) = {}
    <3>1. CASE Handshaking(e)
      <4> DEFINE o == Other(e)
      <4>1. o \in End /\ read[o] \in Nat /\ Base(o) \in Nat /\ pos[o] \in Nat
        BY SMTT(60), Ends, EndType DEF IInv
      <4>2. read[o] < Base(o)
        <5>1. read[o] < IF e = "client" THEN 1 ELSE 2
          BY <3>1, <4>1, ReadIs DEF IInv
        <5>2. Base(o) = IF e = "client" THEN 2 ELSE 3
          BY DEF Base, Other, End
        <5> QED  BY <4>1, <5>1, <5>2
      <4>3. \A i : i \in Plain(e) => i \in pos[o] + 1 .. read[o] /\ Base(o) <= i
        BY <4>1, ReadIs DEF IInv
      <4> QED  BY <4>1, <4>2, <4>3
    <3>2. CASE ~Handshaking(e)
      BY <1>2, <3>2 DEF DriveEof, ReadsTls, Reading
    <3> QED  BY <3>1, <3>2
  <2> QED  BY <1>2, <2>1, <2>2, FlushStep DEF DriveEof, ReadsTls
<1> QED  BY <1>1, <1>2

(* A step of one end that makes a record leaves the other end as it was. *)
LEMMA OtherKept ==
  ASSUME IInv, NEW e \in End, NEW q, Grows(e, q), state[e] \notin Ended,
         upAt[e] = "done" => q = log[e], shut[e] => shut'[e],
         UNCHANGED <<apps, eof, taken, down>>, read'[e] = read[e], pos'[e] = pos[e],
         upBuf'[Other(e)] = upBuf[Other(e)], upAt'[Other(e)] = upAt[Other(e)],
         shut'[Other(e)] = shut[Other(e)], state'[Other(e)] = state[Other(e)],
         Given(e)' \in Nat, Given(e) <= Given(e)'
  PROVE  /\ LogIs(Other(e))' /\ Pace(Other(e))' /\ Delivered(Other(e))' /\ EofIs(Other(e))'
         /\ SeenIs(Other(e))' /\ ShutIs(Other(e))' /\ SeenIs(e)'
<1> DEFINE o == Other(e)
<1>1. o \in End /\ Other(o) = e
  BY Ends
<1>2. UNCHANGED <<sent, closed, got, endSeen, downAt, downBuf>>
  BY DEF apps, down
<1>3. log'[o] = log[o] /\ wrote'[o] = wrote[o]
  BY GrowsTo DEF IInv
<1>4. Given(o)' = Given(o)
  BY DEF Given
<1>5. LogIs(o)' /\ Pace(o)' /\ SeenIs(o)' /\ ShutIs(o)' /\ SeenIs(e)'
  BY <1>1, <1>2, <1>3, <1>4, LogFrame, PaceFrame, SeenFrame, ShutFrame DEF IInv
<1>6. Delivered(o)'
  <2>1. Given(e) \in Nat
    BY GivenType DEF IInv
  <2> QED  BY <1>1, <1>2, <2>1, DeliveredFrame DEF IInv
<1>7. EofIs(o)'
  BY GrowsEof
<1> QED  BY <1>5, <1>6, <1>7

(* When the session takes one more record. *)
LEMMA AppendGrows ==
  ASSUME TypeOK, NEW e \in End, NEW x \in Record, Flushed(e, Append(log[e], x)), Flushes(e) \/ Writable(e)
  PROVE  /\ Grows(e, Append(log[e], x)) /\ Len(Append(log[e], x)) = Len(log[e]) + 1
         /\ Append(log[e], x)[Len(log[e]) + 1] = x
<1> DEFINE n == Len(log[e])
<1>1. /\ n \in Nat /\ Len(Append(log[e], x)) = n + 1 /\ Append(log[e], x)[n + 1] = x
      /\ wrote[e] \in Nat /\ wrote[e] <= n /\ read[e] \in Nat
  BY EndType, SeqAppend
<1>2. n + 1 <= Reach(e, n + 1) + SessCap
  <2>1. Reach(e, n) <= Reach(e, n + 1) /\ Reach(e, n) \in Nat /\ Reach(e, n + 1) \in Nat
    BY <1>1, TlsTunnelAssumption DEF Reach
  <2>2. n - Reach(e, n) < SessCap
    <3>1. CASE Flushes(e)
      BY <1>1, <3>1, TlsTunnelAssumption DEF Flushes
    <3>2. CASE Writable(e)
      BY <3>2 DEF Writable
    <3> QED  BY <3>1, <3>2
  <2> QED  BY <1>1, <2>1, <2>2, TlsTunnelAssumption
<1> QED  BY <1>1, <1>2 DEF Grows

LEMMA AppendsTo ==
  ASSUME TypeOK, NEW e \in End, NEW x \in Record, Flushed(e, Append(log[e], x)), Flushes(e) \/ Writable(e)
  PROVE  log'[e] = Append(log[e], x) /\ Len(Append(log[e], x)) = Len(log[e]) + 1
<1>1. Grows(e, Append(log[e], x)) /\ Len(Append(log[e], x)) = Len(log[e]) + 1
  BY AppendGrows
<1> QED  BY <1>1, GrowsTo

(* The records of a log that has one more. *)
LEMMA LogAppend ==
  ASSUME IInv, NEW e \in End, NEW x \in Record, log'[e] = Append(log[e], x),
         Given(e)' \in Nat, Given(e) <= Given(e)', Len(log[e]) <= Base(e) + Given(e),
         Len(log[e]) + 1 <= Base(e) => x = Opening(e)[Len(log[e]) + 1],
         Base(e) <= Len(log[e]) /\ Len(log[e]) + 1 <= Base(e) + Given(e)' => x = Data((Len(log[e]) + 1) - Base(e)),
         Base(e) + Given(e)' < Len(log[e]) + 1 => x = Notify
  PROVE  LogIs(e)'
<1> DEFINE n == Len(log[e])  q == Append(log[e], x)
<1>1. /\ n \in Nat /\ Len(q) = n + 1 /\ q[n + 1] = x /\ \A i \in 1 .. n : q[i] = log[e][i]
  BY EndType, SeqAppend DEF IInv
<1>2. Base(e) \in {2, 3} /\ Given(e) \in Nat
  BY Ends, GivenType DEF IInv
<1> SUFFICES ASSUME NEW i \in 1 .. n + 1
             PROVE  /\ i <= Base(e) => q[i] = Opening(e)[i]
                    /\ Base(e) < i /\ i <= Base(e) + Given(e)' => q[i] = Data(i - Base(e))
                    /\ Base(e) + Given(e)' < i => q[i] = Notify
  BY <1>1 DEF LogIs
<1>3. CASE i = n + 1
  <2>1. q[i] = x
    BY <1>1, <1>3
  <2>2. Base(e) < i => Base(e) <= n
    BY <1>1, <1>2, <1>3
  <2>3. i = Len(log[e]) + 1
    BY <1>3
  <2>4. i <= Base(e) => x = Opening(e)[i]
    BY <2>3
  <2>5. Base(e) < i /\ i <= Base(e) + Given(e)' => x = Data(i - Base(e))
    <3>1. SUFFICES ASSUME Base(e) < i, i <= Base(e) + Given(e)' PROVE x = Data(i - Base(e))
      OBVIOUS
    <3>2. Base(e) <= Len(log[e]) /\ Len(log[e]) + 1 <= Base(e) + Given(e)'
      BY <2>2, <2>3, <3>1
    <3>3. x = Data((Len(log[e]) + 1) - Base(e))
      BY <3>2
    <3> QED  BY <2>3, <3>3
  <2>6. Base(e) + Given(e)' < i => x = Notify
    BY <2>3
  <2> QED  BY <2>1, <2>4, <2>5, <2>6
<1>4. CASE i \in 1 .. n
  <2>1. q[i] = log[e][i]
    BY <1>1, <1>4
  <2>2. i <= Base(e) + Given(e) /\ ~(Base(e) + Given(e)' < i)
    BY SMTT(60), <1>1, <1>2, <1>4
  <2>3. /\ i <= Base(e) => log[e][i] = Opening(e)[i]
        /\ Base(e) < i /\ i <= Base(e) + Given(e) => log[e][i] = Data(i - Base(e))
    BY <1>4 DEF IInv, LogIs
  <2> QED  BY <2>1, <2>2, <2>3
<1>5. i \in Nat /\ (i = n + 1 \/ i \in 1 .. n)
  BY <1>1
<1> QED  BY <1>3, <1>4, <1>5

(* The handshake, as far as end e has answered the other one. *)
LEMMA NotAnswered ==
  ASSUME IInv, NEW e \in End, read[Other(e)] = 0
  PROVE  /\ Len(log[e]) + 1 = IF e = "client" THEN 2 ELSE 1
         /\ Len(log[e]) + 1 < Base(e)
<1>1. /\ Len(log["client"]) >= 1 /\ (Len(log["client"]) >= 2 <=> read["server"] >= 1)
      /\ Len(log["server"]) >= 1 <=> read["client"] >= 1
  BY DEF IInv, Greeting
<1>2. "client" \in End /\ "server" \in End
  BY DEF End
<1>3. /\ Len(log["client"]) \in Nat /\ Len(log["server"]) \in Nat
  BY <1>2, EndType DEF IInv
<1>4. CASE e = "client"
  <2>1. read["server"] = 0
    BY <1>4 DEF Other
  <2>2. ~(Len(log["client"]) >= 2)
    BY <1>1, <2>1
  <2>3. Len(log["client"]) = 1
    <3> DEFINE n == Len(log["client"])
    <3>1. n \in Nat /\ n >= 1 /\ ~(n >= 2)
      BY <1>1, <1>3, <2>2
    <3> HIDE DEF n
    <3>2. n = 1
      BY <3>1
    <3> QED  BY <3>2 DEF n
  <2> QED  BY <1>4, <2>3 DEF Base
<1>5. CASE e = "server"
  <2>1. read["client"] = 0
    BY <1>5 DEF Other
  <2>2. Len(log["server"]) = 0
    BY <1>1, <1>3, <2>1
  <2> QED  BY <1>5, <2>2 DEF Base
<1> QED  BY <1>4, <1>5 DEF End

LEMMA AnsweredGreeting ==
  ASSUME IInv, NEW e \in End, TypeOK', UNCHANGED pos, read'[e] = read[e], log'[Other(e)] = log[Other(e)],
         read'[Other(e)] >= read[Other(e)], read'[Other(e)] >= 1,
         Len(log'[e]) = IF read[Other(e)] = 0 THEN Len(log[e]) + 1 ELSE Len(log[e])
  PROVE  Greeting'
<1>1. /\ Len(log["client"]) >= 1 /\ (Len(log["client"]) >= 2 <=> read["server"] >= 1)
      /\ Len(log["server"]) >= 1 <=> read["client"] >= 1
      /\ Len(log["server"]) >= 2 => read["client"] >= 2
      /\ Len(log["server"]) < 2 => pos["client"] = 0
  BY DEF IInv, Greeting
<1>2. "client" \in End /\ "server" \in End
  BY DEF End
<1>3. /\ Len(log["client"]) \in Nat /\ Len(log["server"]) \in Nat /\ read["client"] \in Nat /\ read["server"] \in Nat
  BY <1>2, EndType DEF IInv
<1>4. /\ Len(log'["client"]) \in Nat /\ Len(log'["server"]) \in Nat /\ read'["client"] \in Nat /\ read'["server"] \in Nat
  <2>1. log' \in [End -> Seq(Record)] /\ read' \in [End -> Nat]
    BY DEF TypeOK
  <2>2. /\ log'["client"] \in Seq(Record) /\ log'["server"] \in Seq(Record)
        /\ read'["client"] \in Nat /\ read'["server"] \in Nat
    BY <1>2, <2>1
  <2> QED  BY <2>2
<1>5. CASE e = "client"
  <2>1. /\ read'["client"] = read["client"] /\ log'["server"] = log["server"]
        /\ read'["server"] >= 1
        /\ Len(log'["client"]) = IF read["server"] = 0 THEN Len(log["client"]) + 1 ELSE Len(log["client"])
    BY <1>5 DEF Other
  <2>2. Len(log'["client"]) >= 2
    BY <1>1, <1>3, <2>1
  <2>3. Len(log'["client"]) >= 1
    BY <1>4, <2>2
  <2> QED  BY <1>1, <2>1, <2>2, <2>3 DEF Greeting
<1>6. CASE e = "server"
  <2>1. /\ read'["server"] = read["server"] /\ log'["client"] = log["client"]
        /\ read'["client"] >= 1 /\ read'["client"] >= read["client"]
        /\ Len(log'["server"]) = IF read["client"] = 0 THEN Len(log["server"]) + 1 ELSE Len(log["server"])
    BY <1>6 DEF Other
  <2>2. Len(log'["server"]) >= 1
    BY <1>1, <1>3, <2>1
  <2>3. Len(log'["server"]) >= 2 => read'["client"] >= 2
    BY <1>1, <1>3, <1>4, <2>1
  <2>4. Len(log'["server"]) < 2 => pos'["client"] = 0
    BY <1>1, <1>3, <2>1
  <2> QED  BY <1>1, <2>1, <2>2, <2>3, <2>4 DEF Greeting
<1> QED  BY <1>5, <1>6 DEF End

LEMMA DriveStep == ASSUME IInv, NEW e \in End, NEW k \in 1 .. WireCap, Drive(e, k) PROVE IInv'
<1> DEFINE o == Other(e)  n == read[o] + k  q == log[e] \o Replies(e, n)
           x == Opening(e)[IF e = "client" THEN 2 ELSE 1]
<1>1. UNCHANGED <<sent, closed, got, endSeen, pos, eof, shut, upAt, upBuf, taken, downAt, downBuf, state>>
  BY DEF Drive, apps, up, down
<1>2. /\ ~eof[e] /\ state[e] \notin Ended /\ Flushes(e)
      /\ n <= wrote[o] /\ read' = [read EXCEPT ![o] = n] /\ Flushed(e, q)
  BY DEF Drive, ReadsTls, Reading, Ended
<1>3. o \in End /\ o # e /\ Other(o) = e /\ \A d \in End : d = e \/ d = o
  BY Ends
<1>4. read[o] \in Nat /\ wrote[o] \in Nat /\ wrote[o] <= Len(log[o]) /\ Len(log[o]) \in Nat /\ k \in Nat /\ k >= 1
  BY <1>3, EndType, TlsTunnelAssumption DEF IInv
<1>5. n \in Nat /\ n > read[o] /\ n <= Len(log[o]) /\ n >= 1
  BY <1>2, <1>4
<1>6. Replies(e, n) = IF read[o] = 0 THEN <<x>> ELSE <<>>
  BY <1>3, <1>5, RepliesAre DEF IInv
<1>7. log[e] \in Seq(Record) /\ Len(log[e]) \in Nat /\ x \in Record
  BY EndType, Items DEF Opening, IInv
<1>8. q = IF read[o] = 0 THEN Append(log[e], x) ELSE log[e]
  BY ZenonT(60), <1>6, <1>7, SeqConcat
<1>9. read[o] = 0 => x = Opening(e)[Len(log[e]) + 1] /\ Len(log[e]) + 1 < Base(e)
  BY NotAnswered
<1> HIDE DEF n, q, x
<1>10. Grows(e, q) /\ log'[e] = q /\ log'[o] = log[o]
  <2>1. Grows(e, q)
    <3>1. CASE read[o] = 0
      BY <1>2, <1>7, <1>8, <3>1, AppendGrows DEF IInv
    <3>2. CASE read[o] # 0
      BY <1>2, <1>8, <3>2, SameGrows DEF IInv
    <3> QED  BY <3>1, <3>2
  <2> QED  BY <2>1, GrowsTo DEF IInv
<1>11. read' \in [End -> Nat] /\ read'[o] = n /\ read'[e] = read[e]
  BY <1>2, <1>3, <1>5 DEF IInv, TypeOK
<1>12. TypeOK'
  <2>1. \A d \in End : read[d] <= read'[d] /\ read'[d] <= wrote[d] /\ pos'[d] <= read'[d]
    <3>1. ASSUME NEW d \in End PROVE read[d] <= read'[d] /\ read'[d] <= wrote[d] /\ pos'[d] <= read'[d]
      <4>1. pos[d] <= read[d] /\ read[d] <= wrote[d] /\ read[d] \in Nat /\ pos[d] \in Nat
        BY EndType DEF IInv
      <4> QED  BY <1>1, <1>2, <1>3, <1>5, <1>11, <4>1
    <3> QED  BY <3>1
  <2>2. /\ pos' \in [End -> Nat] /\ shut' \in [End -> BOOLEAN] /\ eof' \in [End -> BOOLEAN]
        /\ upAt' \in [End -> {"copy", "shutdown", "done"}] /\ upBuf' \in [End -> Nat]
        /\ state' \in [End -> States] /\ state'["client"] \notin {"accept", "response", "refused"}
        /\ state'["server"] \notin {"connect", "request"}
    BY <1>1 DEF IInv, TypeOK
  <2>3. UNCHANGED <<apps, taken, down>>
    BY <1>1 DEF apps, down
  <2> QED  BY <1>10, <1>11, <2>1, <2>2, <2>3, GrowsType DEF IInv
<1>13. \A d \in End : Given(d)' = Given(d) /\ Given(d) \in Nat
  BY <1>1, GivenType DEF Given, IInv
<1>14. Len(q) = IF read[o] = 0 THEN Len(log[e]) + 1 ELSE Len(log[e])
  <2>1. Len(Append(log[e], x)) = Len(log[e]) + 1
    BY <1>7, SeqAppend
  <2> QED  BY <1>8, <2>1
<1>15. Greeting'
  <2>1. read'[o] >= read[o] /\ read'[o] >= 1
    BY <1>4, <1>5, <1>11
  <2>2. Len(log'[e]) = IF read[o] = 0 THEN Len(log[e]) + 1 ELSE Len(log[e])
    BY <1>10, <1>14
  <2> QED  BY <1>1, <1>10, <1>11, <1>12, <2>1, <2>2, AnsweredGreeting
<1>16. upAt[e] = "done" => q = log[e]
  <2>1. read[o] = 0 => Len(log[e]) < Base(e)
    BY <1>7, <1>9, Ends
  <2>2. Len(log[e]) < Base(e) => upAt[e] = "copy"
    BY DEF IInv, Pace
  <2> QED  BY <1>8, <2>1, <2>2
<1>17. /\ LogIs(o)' /\ Pace(o)' /\ Delivered(o)' /\ EofIs(o)' /\ SeenIs(o)' /\ ShutIs(o)' /\ SeenIs(e)'
  <2>1. UNCHANGED <<apps, eof, taken, down>>
    BY <1>1 DEF apps, down
  <2> QED  BY <1>1, <1>2, <1>3, <1>10, <1>11, <1>13, <1>16, <2>1, OtherKept
<1>18. LogIs(e)'
  <2>1. CASE read[o] = 0
    <3>1. Len(log[e]) <= Base(e) + Given(e) /\ Len(log[e]) + 1 <= Base(e) /\ ~(Base(e) <= Len(log[e]))
          /\ ~(Base(e) + Given(e)' < Len(log[e]) + 1)
      BY <1>7, <1>9, <1>13, <2>1, Ends
    <3> QED  BY <1>7, <1>8, <1>9, <1>10, <1>13, <2>1, <3>1, LogAppend
  <2>2. CASE read[o] # 0
    BY <1>8, <1>10, <1>13, <2>2, LogFrame DEF IInv
  <2> QED  BY <2>1, <2>2
<1>19. Pace(e)'
  <2>1. CASE read[o] = 0
    <3>1. Len(log[e]) < Base(e) /\ Len(log'[e]) < Base(e) /\ Len(log'[e]) \in Nat
      BY <1>7, <1>9, <1>10, <1>14, <2>1, Ends
    <3>2. /\ upBuf[e] \in {None, taken[e]} /\ taken[e] <= sent[e] /\ taken[e] = 0 /\ upAt[e] = "copy"
          /\ state[e] \notin {"request", "response", "tunnel"}
      <4>1. state[e] \in {"request", "response", "tunnel"} => FALSE
        BY <1>7, <3>1, Ends DEF IInv, Pace
      <4> QED  BY <3>1, <4>1 DEF IInv, Pace
    <3>3. Len(log'[e]) <= Base(e) + Given(e) + 0 /\ ~(Len(log'[e]) >= Base(e))
      BY <1>13, <3>1, Ends
    <3> QED  BY <1>1, <1>13, <3>1, <3>2, <3>3 DEF Pace
  <2>2. CASE read[o] # 0
    <3>1. log'[e] = log[e]
      BY <1>8, <1>10, <2>2
    <3>2. upAt[e] = "done" => wrote'[e] = Len(log[e])
      <4>1. wrote'[e] = Reach(e, Len(log[e]))
        BY <1>10, <3>1, GrowsTo DEF IInv
      <4> QED  BY <1>2, <4>1 DEF Flushes
    <3> QED  BY <1>1, <1>13, <3>1, <3>2 DEF IInv, Pace
  <2> QED  BY <2>1, <2>2
<1>20. Delivered(e)' /\ EofIs(e)' /\ ShutIs(e)'
  <2>1. Delivered(e)'
    BY <1>1, <1>3, <1>13, DeliveredFrame DEF IInv
  <2>2. EofIs(e)'
    BY <1>1, <1>2 DEF EofIs
  <2>3. ShutIs(e)'
    BY <1>1, ShutFrame DEF IInv
  <2> QED  BY <2>1, <2>2, <2>3
<1>21. FailsOnlyAfterClose'
  BY <1>1, FailsFrame DEF IInv
<1> QED  BY <1>3, <1>12, <1>15, <1>17, <1>18, <1>19, <1>20, <1>21 DEF IInv

-----------------------------------------------------------------------------
(* The steps that write into the session. *)

LEMMA AppendGreeting ==
  ASSUME IInv, NEW e \in End, ~Handshaking(e), log'[Other(e)] = log[Other(e)],
         Len(log'[e]) = Len(log[e]) + 1, read' = read, pos'[e] = pos[e],
         e = "server" => Len(log[e]) >= 1
  PROVE  Greeting'
<1>1. /\ Len(log["client"]) >= 1 /\ (Len(log["client"]) >= 2 <=> read["server"] >= 1)
      /\ Len(log["server"]) >= 1 <=> read["client"] >= 1
      /\ Len(log["server"]) >= 2 => read["client"] >= 2
      /\ Len(log["server"]) < 2 => pos["client"] = 0
  BY DEF IInv, Greeting
<1>2. "client" \in End /\ "server" \in End
  BY DEF End
<1>3. /\ Len(log["client"]) \in Nat /\ Len(log["server"]) \in Nat /\ read["client"] \in Nat /\ read["server"] \in Nat
  BY <1>2, EndType DEF IInv
<1>4. Other(e) \in End /\ ~(read[Other(e)] < IF e = "client" THEN 1 ELSE 2)
  BY Ends, ReadIs DEF IInv
<1>5. CASE e = "client"
  <2>1. log'["server"] = log["server"] /\ Len(log'["client"]) = Len(log["client"]) + 1 /\ pos'["client"] = pos["client"]
        /\ ~(read["server"] < 1)
    BY <1>4, <1>5 DEF Other
  <2>2. Len(log'["client"]) >= 2 /\ Len(log'["client"]) >= 1 /\ read["server"] >= 1
    BY <1>1, <1>3, <2>1
  <2> QED  BY <1>1, <2>1, <2>2 DEF Greeting
<1>6. CASE e = "server"
  <2>1. log'["client"] = log["client"] /\ Len(log'["server"]) = Len(log["server"]) + 1
        /\ Len(log["server"]) >= 1 /\ ~(read["client"] < 2)
    BY <1>4, <1>6 DEF Other
  <2>2. /\ Len(log'["server"]) >= 1 /\ Len(log'["server"]) >= 2 /\ ~(Len(log'["server"]) < 2)
        /\ read["client"] >= 1 /\ read["client"] >= 2
    BY <1>3, <2>1
  <2> QED  BY <1>1, <2>1, <2>2 DEF Greeting
<1> QED  BY <1>5, <1>6 DEF End

(* What the steps that write a record have in common. *)
LEMMA AppendStep ==
  ASSUME IInv, NEW e \in End, NEW x \in Record, Flushed(e, Append(log[e], x)), Flushes(e) \/ Writable(e),
         ~eof[e], ~Handshaking(e), state[e] \notin Ended, upAt[e] = "copy",
         UNCHANGED <<apps, read, eof, taken, down>>, pos'[e] = pos[e], pos' \in [End -> Nat],
         \A d \in End : pos'[d] <= read[d],
         upAt' \in [End -> {"copy", "shutdown", "done"}], upBuf' \in [End -> Nat],
         shut' \in [End -> BOOLEAN], state' \in [End -> States],
         state'["client"] \notin {"accept", "response", "refused"}, state'["server"] \notin {"connect", "request"},
         upBuf'[Other(e)] = upBuf[Other(e)], upAt'[Other(e)] = upAt[Other(e)],
         shut'[Other(e)] = shut[Other(e)], state'[Other(e)] = state[Other(e)],
         state'[e] \notin Ended, shut'[e] => upAt'[e] = "done",
         Given(e)' \in Nat, Given(e) <= Given(e)', Len(log[e]) <= Base(e) + Given(e),
         e = "server" => Len(log[e]) >= 1,
         Len(log[e]) + 1 <= Base(e) => x = Opening(e)[Len(log[e]) + 1],
         Base(e) <= Len(log[e]) /\ Len(log[e]) + 1 <= Base(e) + Given(e)' => x = Data((Len(log[e]) + 1) - Base(e)),
         Base(e) + Given(e)' < Len(log[e]) + 1 => x = Notify,
         Delivered(e)', Pace(e)'
  PROVE  IInv'
<1> DEFINE o == Other(e)  q == Append(log[e], x)
<1>1. o \in End /\ Other(o) = e /\ \A d \in End : d = e \/ d = o
  BY Ends
<1>2. Grows(e, q) /\ Len(q) = Len(log[e]) + 1
  BY AppendGrows DEF IInv
<1>3. log'[e] = q /\ log'[o] = log[o]
  BY ZenonT(60), <1>2, GrowsTo DEF IInv
<1>4. ~shut[e]
  BY DEF IInv, ShutIs, Ended
<1>5. TypeOK'
  <2>1. \A d \in End : read[d] <= read'[d] /\ read'[d] <= wrote[d] /\ pos'[d] <= read'[d]
    BY EndType DEF IInv
  <2>2. read' \in [End -> Nat] /\ eof' \in [End -> BOOLEAN]
    BY DEF IInv, TypeOK
  <2>3. UNCHANGED <<apps, taken, down>>
    OBVIOUS
  <2> QED  BY <1>2, <2>1, <2>2, <2>3, GrowsType DEF IInv
<1>6. Greeting'
  BY <1>2, <1>3, AppendGreeting
<1>7. /\ LogIs(o)' /\ Pace(o)' /\ Delivered(o)' /\ EofIs(o)' /\ SeenIs(o)' /\ ShutIs(o)' /\ SeenIs(e)'
  <2>1. read'[e] = read[e] /\ UNCHANGED <<apps, eof, taken, down>>
    OBVIOUS
  <2>2. upAt[e] = "done" => q = log[e]
    OBVIOUS
  <2>3. shut[e] => shut'[e]
    BY <1>4
  <2> QED  BY <1>2, <2>1, <2>2, <2>3, OtherKept
<1>8. LogIs(e)'
  BY <1>3, LogAppend
<1>9. EofIs(e)' /\ ShutIs(e)'
  BY DEF EofIs, ShutIs
<1>10. FailsOnlyAfterClose'
  <2>1. "client" \in End /\ "server" \in End /\ closed' = closed
    BY DEF End, apps
  <2>2. \A d \in End : state'[d] = "failed" => state[d] = "failed"
    BY <1>1 DEF Ended
  <2>3. state'["server"] = state["server"] \/ state["server"] # "refused"
    BY <1>1, <2>1 DEF Ended
  <2> QED  BY <2>1, <2>2, <2>3, FailsFrame DEF IInv
<1> QED  BY <1>1, <1>5, <1>6, <1>7, <1>8, <1>9, <1>10 DEF IInv

(* The kinds of record, and how far the log is when one is made. *)
LEMMA LogLength ==
  ASSUME IInv, NEW e \in End, state[e] \in {"request", "response", "tunnel"}
  PROVE  /\ Base(e) \in {2, 3} /\ Given(e) \in Nat /\ Len(log[e]) \in Nat
         /\ ~(Len(log[e]) < Base(e)) /\ Len(log[e]) >= 1 /\ ~Handshaking(e)
         /\ upAt[e] = "copy" => Len(log[e]) = Base(e) + Given(e)
<1>1. Base(e) \in {2, 3} /\ Given(e) \in Nat /\ Len(log[e]) \in Nat
  BY Ends, EndType, GivenType DEF IInv
<1>2. /\ Len(log[e]) >= Base(e) /\ (Len(log[e]) >= Base(e) => Len(log[e]) >= Base(e) + Given(e))
      /\ Len(log[e]) <= Base(e) + Given(e) + IF upAt[e] = "copy" THEN 0 ELSE 1
  BY DEF IInv, Pace
<1>3. ~Handshaking(e)
  <2>1. /\ Len(log["client"]) >= 2 <=> read["server"] >= 1
        /\ Len(log["server"]) >= 2 => read["client"] >= 2
    BY DEF IInv, Greeting
  <2>2. Len(log[e]) >= 2 /\ Other(e) \in End /\ read[Other(e)] \in Nat
    BY <1>1, <1>2, Ends, EndType DEF IInv
  <2>3. ~(read[Other(e)] < IF e = "client" THEN 1 ELSE 2)
    <3>1. CASE e = "client"
      BY <2>1, <2>2, <3>1 DEF Other
    <3>2. CASE e = "server"
      BY <2>1, <2>2, <3>2 DEF Other
    <3> QED  BY <3>1, <3>2 DEF End
  <2> QED  BY <2>2, <2>3, ReadIs DEF IInv
<1> QED  BY <1>1, <1>2, <1>3

LEMMA UpWriteStep == ASSUME IInv, NEW e \in End, UpWrite(e) PROVE IInv'
<1> DEFINE o == Other(e)  x == Data(upBuf[e])
<1>1. /\ UNCHANGED <<sent, closed, got, endSeen, read, pos, eof, shut, upAt, taken, downAt, downBuf, state>>
      /\ UNCHANGED <<apps, down>>
  BY DEF UpWrite, apps, down
<1>2. /\ Writable(e) /\ Flushed(e, Append(log[e], x)) /\ state[e] = "tunnel" /\ upBuf[e] # None
      /\ upBuf' = [upBuf EXCEPT ![e] = None]
  BY DEF UpWrite, PollWrite
<1>3. o \in End /\ o # e
  BY Ends
<1>4. upBuf' \in [End -> Nat] /\ upBuf'[e] = None /\ upBuf'[o] = upBuf[o]
  BY <1>2, <1>3 DEF IInv, TypeOK, None
<1>5. upAt[e] = "copy" /\ upBuf[e] = taken[e] /\ taken[e] \in Nat /\ taken[e] # 0 /\ taken[e] <= sent[e]
  BY <1>2, EndType DEF IInv, Pace, None
<1>6. Given(e) = taken[e] - 1 /\ Given(e)' = taken[e]
  BY <1>1, <1>2, <1>4 DEF Given
<1>7. /\ Base(e) \in {2, 3} /\ Given(e) \in Nat /\ Len(log[e]) \in Nat
      /\ Len(log[e]) = Base(e) + Given(e) /\ Len(log[e]) >= 1 /\ ~Handshaking(e)
  BY SMTT(60), <1>2, <1>5, LogLength
<1>8. x \in Record /\ (Len(log[e]) + 1) - Base(e) = upBuf[e]
  BY SMTT(60), <1>5, <1>6, <1>7, Items
<1> HIDE DEF x
<1>9. Len(log'[e]) = Base(e) + Given(e)'
  <2>1. log'[e] = Append(log[e], x) /\ Len(Append(log[e], x)) = Len(log[e]) + 1
    BY <1>2, <1>8, AppendsTo DEF IInv
  <2> QED  BY <1>5, <1>6, <1>7, <2>1
<1>10. Pace(e)'
  <2>1. /\ ~(Len(log'[e]) < Base(e)) /\ Len(log'[e]) >= Base(e) + Given(e)'
        /\ Len(log'[e]) <= Base(e) + Given(e)' + 0 /\ Len(log'[e]) >= Base(e)
    BY SMTT(60), <1>5, <1>6, <1>7, <1>9
  <2> QED  BY <1>1, <1>2, <1>4, <1>5, <2>1 DEF Pace
<1>11. Delivered(e)'
  <2>1. Given(o)' = Given(o) /\ Given(o) \in Nat
    BY <1>1, <1>3, <1>4, GivenType DEF Given, IInv
  <2> QED  BY <1>1, <1>3, <2>1, DeliveredFrame DEF IInv
<1>12. /\ ~(Len(log[e]) + 1 <= Base(e)) /\ ~(Base(e) + Given(e)' < Len(log[e]) + 1)
       /\ Len(log[e]) <= Base(e) + Given(e) /\ Given(e) <= Given(e)' /\ Given(e)' \in Nat
  BY <1>5, <1>6, <1>7
<1>13. /\ pos' \in [End -> Nat] /\ upAt' \in [End -> {"copy", "shutdown", "done"}] /\ shut' \in [End -> BOOLEAN]
       /\ state' \in [End -> States] /\ state'["client"] \notin {"accept", "response", "refused"}
       /\ state'["server"] \notin {"connect", "request"}
  BY <1>1 DEF IInv, TypeOK
<1>14. \A d \in End : pos'[d] <= read[d]
  BY <1>1, EndType DEF IInv
<1>15. ~eof[e] /\ state[e] \notin Ended /\ state'[e] \notin Ended /\ ~shut'[e]
  BY <1>1, <1>2, <1>5 DEF Writable, Ended, IInv, ShutIs
<1> QED  BY <1>1, <1>2, <1>4, <1>5, <1>7, <1>8, <1>10, <1>11, <1>12, <1>13, <1>14, <1>15, AppendStep DEF x

LEMMA UpFinishStep == ASSUME IInv, NEW e \in End, UpFinish(e) PROVE IInv'
<1> DEFINE o == Other(e)  done == wrote'[e] = Len(log'[e])
<1>1. /\ UNCHANGED <<sent, closed, got, endSeen, read, pos, eof, upBuf, taken, downAt, downBuf, state>>
      /\ UNCHANGED <<apps, down>>
  BY DEF UpFinish, apps, down
<1>2. /\ state[e] = "tunnel" /\ upBuf[e] = None /\ closed[e] /\ taken[e] = sent[e] /\ upAt[e] = "copy"
      /\ ~eof[e] /\ Flushes(e) /\ Flushed(e, Append(log[e], Notify))
      /\ upAt' = [upAt EXCEPT ![e] = IF done THEN "done" ELSE "shutdown"]
      /\ shut' = [shut EXCEPT ![e] = done]
  BY DEF UpFinish, UpEnds
<1>3. o \in End /\ o # e
  BY Ends
<1>4. /\ upAt' \in [End -> {"copy", "shutdown", "done"}] /\ upAt'[o] = upAt[o]
      /\ upAt'[e] = IF done THEN "done" ELSE "shutdown"
  BY <1>2, <1>3 DEF IInv, TypeOK
<1>5. /\ shut' \in [End -> BOOLEAN] /\ shut'[o] = shut[o] /\ shut'[e] = done
  BY <1>2, <1>3 DEF IInv, TypeOK
<1>6. \A d \in End : Given(d)' = Given(d) /\ Given(d) \in Nat
  BY <1>1, GivenType DEF Given, IInv
<1>7. /\ Base(e) \in {2, 3} /\ Given(e) \in Nat /\ Len(log[e]) \in Nat
      /\ Len(log[e]) = Base(e) + Given(e) /\ Len(log[e]) >= 1 /\ ~Handshaking(e)
  BY <1>2, LogLength
<1>8. Notify \in Record
  BY Items
<1>9. log'[e] = Append(log[e], Notify) /\ Len(log'[e]) = Len(log[e]) + 1
  BY <1>2, <1>8, AppendsTo DEF IInv
<1>10. Pace(e)'
  <2>1. /\ ~(Len(log'[e]) < Base(e)) /\ Len(log'[e]) >= Base(e) + Given(e)'
        /\ Len(log'[e]) <= Base(e) + Given(e)' + 1 /\ Len(log'[e]) >= Base(e)
    BY <1>6, <1>7, <1>9
  <2>2. upAt'[e] # "copy" /\ (upAt'[e] = "done" => wrote'[e] = Len(log'[e]))
    BY <1>4
  <2>3. upBuf[e] = None /\ taken[e] <= sent[e] /\ taken[e] = sent[e] /\ closed[e]
    BY <1>2, EndType DEF IInv
  <2> QED  BY <1>1, <1>2, <2>1, <2>2, <2>3 DEF Pace
<1>11. Delivered(e)'
  BY <1>1, <1>3, <1>6, DeliveredFrame DEF IInv
<1>12. /\ ~(Len(log[e]) + 1 <= Base(e)) /\ ~(Len(log[e]) + 1 <= Base(e) + Given(e)')
       /\ Len(log[e]) <= Base(e) + Given(e) /\ Given(e) <= Given(e)' /\ Given(e)' \in Nat
  BY <1>6, <1>7
<1>13. /\ pos' \in [End -> Nat] /\ upBuf' \in [End -> Nat]
       /\ state' \in [End -> States] /\ state'["client"] \notin {"accept", "response", "refused"}
       /\ state'["server"] \notin {"connect", "request"}
  BY <1>1 DEF IInv, TypeOK
<1>14. \A d \in End : pos'[d] <= read[d]
  BY <1>1, EndType DEF IInv
<1>15. state[e] \notin Ended /\ state'[e] \notin Ended /\ (shut'[e] => upAt'[e] = "done")
  BY <1>1, <1>2, <1>4, <1>5 DEF Ended
<1> HIDE DEF done
<1> QED  BY <1>1, <1>2, <1>4, <1>5, <1>7, <1>8, <1>10, <1>11, <1>12, <1>13, <1>14, <1>15, AppendStep

LEMMA UpShutdownStep == ASSUME IInv, NEW e \in End, UpShutdown(e) PROVE IInv'
<1> DEFINE o == Other(e)
<1>1. /\ UNCHANGED <<sent, closed, got, endSeen, read, pos, eof, upBuf, taken, downAt, downBuf, state>>
      /\ UNCHANGED <<apps, eof, taken, down>>
  BY DEF UpShutdown, apps, down
<1>2. /\ state[e] = "tunnel" /\ upBuf[e] = None /\ closed[e] /\ taken[e] = sent[e] /\ upAt[e] = "shutdown"
      /\ ~eof[e] /\ Flushes(e) /\ Flushed(e, log[e])
      /\ upAt' = [upAt EXCEPT ![e] = "done"] /\ shut' = [shut EXCEPT ![e] = TRUE]
  BY DEF UpShutdown, UpEnds
<1>3. o \in End /\ o # e /\ \A d \in End : d = e \/ d = o
  BY Ends
<1>4. /\ upAt' \in [End -> {"copy", "shutdown", "done"}] /\ upAt'[o] = upAt[o] /\ upAt'[e] = "done"
      /\ shut' \in [End -> BOOLEAN] /\ shut'[o] = shut[o] /\ shut'[e] = TRUE
  BY <1>2, <1>3 DEF IInv, TypeOK
<1>5. Grows(e, log[e]) /\ log' = log
  BY <1>2, SameGrows DEF IInv
<1>6. wrote'[e] = Len(log[e])
  BY <1>2, <1>5, GrowsTo DEF IInv, Flushes
<1>7. \A d \in End : Given(d)' = Given(d) /\ Given(d) \in Nat
  BY <1>1, GivenType DEF Given, IInv
<1>8. TypeOK'
  <2>1. \A d \in End : read[d] <= read'[d] /\ read'[d] <= wrote[d] /\ pos'[d] <= read'[d]
    BY <1>1, EndType DEF IInv
  <2>2. /\ read' \in [End -> Nat] /\ pos' \in [End -> Nat] /\ eof' \in [End -> BOOLEAN] /\ upBuf' \in [End -> Nat]
        /\ state' \in [End -> States] /\ state'["client"] \notin {"accept", "response", "refused"}
        /\ state'["server"] \notin {"connect", "request"}
    BY <1>1 DEF IInv, TypeOK
  <2> QED  BY <1>1, <1>4, <1>5, <2>1, <2>2, GrowsType DEF IInv
<1>9. /\ LogIs(o)' /\ Pace(o)' /\ Delivered(o)' /\ EofIs(o)' /\ SeenIs(o)' /\ ShutIs(o)' /\ SeenIs(e)'
  <2>1. state[e] \notin Ended /\ upAt[e] # "done" /\ shut'[e]
    BY <1>2, <1>4 DEF Ended
  <2> QED  BY <1>1, <1>3, <1>4, <1>5, <1>7, <2>1, OtherKept
<1>10. LogIs(e)' /\ Delivered(e)'
  BY <1>1, <1>3, <1>5, <1>7, LogFrame, DeliveredFrame DEF IInv
<1>11. Pace(e)'
  <2>1. upAt[e] # "copy" /\ upAt'[e] # "copy"
    BY <1>2, <1>4
  <2>2. ~(Len(log[e]) < Base(e))
    BY <1>2, LogLength
  <2> QED  BY <1>1, <1>2, <1>4, <1>5, <1>6, <1>7, <2>1, <2>2 DEF IInv, Pace
<1>12. EofIs(e)' /\ ShutIs(e)'
  BY <1>1, <1>2, <1>4 DEF EofIs, ShutIs, Ended
<1>13. Greeting' /\ FailsOnlyAfterClose'
  BY <1>1, <1>5, GreetingFrame, FailsFrame DEF IInv
<1> QED  BY <1>3, <1>8, <1>9, <1>10, <1>11, <1>12, <1>13 DEF IInv

(* Nothing of a tunnel has happened before its stream has been opened. *)
LEMMA BeforeTunnel ==
  ASSUME IInv, NEW e \in End, state[e] \in {"connect", "accept"}, ~Handshaking(e)
  PROVE  /\ Given(e) = 0 /\ taken[e] = 0 /\ upBuf[e] = 0 /\ upAt[e] = "copy"
         /\ Len(log[e]) \in Nat /\ Base(e) = Len(log[e]) + 1 /\ Len(log[e]) >= 1
         /\ e = "client" => state[e] = "connect" /\ Len(log[e]) = 2
         /\ e = "server" => state[e] = "accept" /\ Len(log[e]) = 1 /\ pos["client"] = 0
<1>1. Len(log[e]) \in Nat /\ Base(e) \in {2, 3} /\ Len(log[e]) < Base(e) /\ taken[e] = 0 /\ upAt[e] = "copy"
  BY Ends, EndType DEF IInv, Pace
<1>2. upBuf[e] = 0 /\ Given(e) = 0
  BY <1>1 DEF IInv, Pace, None, Given
<1>3. Other(e) \in End /\ read[Other(e)] \in Nat /\ ~(read[Other(e)] < IF e = "client" THEN 1 ELSE 2)
  BY Ends, EndType, ReadIs DEF IInv
<1>4. CASE e = "client"
  <2>1. read["server"] >= 1 /\ Base(e) = 3
    BY <1>3, <1>4 DEF Other, Base
  <2>2. Len(log[e]) >= 2
    BY <1>4, <2>1 DEF IInv, Greeting
  <2>3. Len(log[e]) = 2
    BY <1>1, <2>1, <2>2, Between
  <2>4. state[e] = "connect"
    BY <1>4 DEF IInv, TypeOK
  <2> QED  BY <1>1, <1>2, <1>4, <2>1, <2>3, <2>4
<1>5. CASE e = "server"
  <2>1. read["client"] >= 1 /\ Base(e) = 2
    BY <1>3, <1>5 DEF Other, Base
  <2>2. Len(log[e]) >= 1
    BY <1>5, <2>1 DEF IInv, Greeting
  <2>3. Len(log[e]) = 1 /\ Len(log[e]) < 2
    BY <1>1, <2>1, <2>2, Between
  <2>4. state[e] = "accept" /\ pos["client"] = 0
    BY <1>5, <2>3 DEF IInv, TypeOK, Greeting
  <2> QED  BY <1>1, <1>2, <1>5, <2>1, <2>3, <2>4
<1> QED  BY <1>4, <1>5 DEF End

(* Either end's header: what the two steps have in common. *)
LEMMA HeaderStep ==
  ASSUME IInv, NEW e \in End, PollWrite(e, Header), state[e] \in {"connect", "accept"},
         NEW s, s = (IF e = "client" THEN "request" ELSE "response"), state' = [state EXCEPT ![e] = s],
         UNCHANGED <<apps, read, eof, shut, up, down>>, pos'[e] = pos[e], pos' \in [End -> Nat],
         \A d \in End : pos'[d] <= read[d], Delivered(e)'
  PROVE  IInv'
<1> DEFINE o == Other(e)
<1>1. UNCHANGED <<sent, closed, got, endSeen, upAt, upBuf, taken, downAt, downBuf>>
  BY DEF apps, up, down
<1>2. Writable(e) /\ Flushed(e, Append(log[e], Header)) /\ ~eof[e] /\ ~Handshaking(e)
  BY DEF PollWrite, Writable
<1>3. /\ Given(e) = 0 /\ taken[e] = 0 /\ upBuf[e] = 0 /\ upAt[e] = "copy"
      /\ Len(log[e]) \in Nat /\ Base(e) = Len(log[e]) + 1 /\ Len(log[e]) >= 1
  BY <1>2, BeforeTunnel
<1>4. Header \in Record /\ Header = Opening(e)[Len(log[e]) + 1]
  <2>1. Len(log[e]) = IF e = "client" THEN 2 ELSE 1
    BY <1>2, BeforeTunnel DEF End
  <2>2. CASE e = "client"
    BY <2>1, <2>2, Items DEF Opening
  <2>3. CASE e = "server"
    BY <2>1, <2>3, Items DEF Opening
  <2> QED  BY <2>2, <2>3 DEF End
<1>5. Given(e)' = 0
  BY <1>1, <1>3 DEF Given
<1>6. log'[e] = Append(log[e], Header) /\ Len(log'[e]) = Len(log[e]) + 1
  BY <1>2, <1>4, AppendsTo DEF IInv
<1>7. o \in End /\ o # e /\ e \in {"client", "server"}
  BY Ends DEF End
<1>8. /\ state' \in [End -> States] /\ state'[e] = s /\ state'[o] = state[o]
      /\ state'["client"] \notin {"accept", "response", "refused"} /\ state'["server"] \notin {"connect", "request"}
  <2>1. s \in States
    BY DEF States
  <2>2. state' \in [End -> States] /\ state'[e] = s /\ \A d \in End : d # e => state'[d] = state[d]
    BY <2>1 DEF IInv, TypeOK
  <2>3. "client" \in End /\ "server" \in End
    BY DEF End
  <2> QED  BY <1>7, <2>2, <2>3 DEF IInv, TypeOK
<1>9. state[e] \notin Ended /\ state'[e] \notin Ended /\ ~shut[e]
  BY <1>3, <1>8 DEF Ended, IInv, ShutIs
<1>10. Pace(e)'
  <2>1. /\ ~(Len(log'[e]) < Base(e)) /\ Len(log'[e]) >= Base(e) + 0
        /\ Len(log'[e]) <= Base(e) + 0 + 0 /\ Len(log'[e]) >= Base(e)
    BY <1>3, <1>6
  <2>2. taken[e] <= sent[e] /\ state'[e] \notin {"connect", "accept"}
    BY <1>8 DEF IInv, Pace
  <2> QED  BY <1>1, <1>3, <1>5, <2>1, <2>2 DEF Pace, None
<1>11. /\ upAt' \in [End -> {"copy", "shutdown", "done"}] /\ upBuf' \in [End -> Nat] /\ shut' \in [End -> BOOLEAN]
       /\ UNCHANGED <<apps, read, eof, taken, down>>
  BY <1>1 DEF IInv, TypeOK
<1>12. /\ Given(e)' \in Nat /\ Given(e) <= Given(e)' /\ Len(log[e]) <= Base(e) + Given(e)
       /\ ~(Base(e) <= Len(log[e])) /\ ~(Base(e) + Given(e)' < Len(log[e]) + 1)
  BY <1>3, <1>5
<1> QED  BY <1>1, <1>2, <1>3, <1>4, <1>8, <1>9, <1>10, <1>11, <1>12, AppendStep

LEMMA RequestStep == ASSUME IInv, NEW e \in End, Request(e) PROVE IInv'
<1>1. /\ state[e] = "connect" /\ PollWrite(e, Header) /\ state' = [state EXCEPT ![e] = "request"]
      /\ UNCHANGED <<apps, read, pos, eof, shut, up, down>>
  BY DEF Request
<1>2. e = "client"
  BY <1>1 DEF IInv, TypeOK, End
<1>3. pos' \in [End -> Nat] /\ \A d \in End : pos'[d] <= read[d]
  BY <1>1, EndType DEF IInv, TypeOK
<1>4. Delivered(e)'
  <2>1. Other(e) \in End /\ Given(Other(e))' = Given(Other(e)) /\ Given(Other(e)) \in Nat
    BY <1>1, Ends, GivenType DEF Given, IInv, up
  <2> QED  BY <1>1, <2>1, DeliveredFrame DEF IInv, apps, down
<1> QED  BY <1>1, <1>2, <1>3, <1>4, HeaderStep

LEMMA RespondStep == ASSUME IInv, NEW e \in End, Respond(e) PROVE IInv'
<1> DEFINE o == Other(e)
<1>1. /\ state[e] = "accept" /\ PollWrite(e, Header) /\ state' = [state EXCEPT ![e] = "response"]
      /\ UNCHANGED <<apps, read, eof, shut, up, down>>
  BY DEF Respond
<1>2. PICK i \in Plain(e) : NextPlain(e, i) /\ pos' = [pos EXCEPT ![o] = i]
  BY DEF Respond
<1>3. e = "server" /\ o = "client"
  BY <1>1 DEF IInv, TypeOK, End, Other
<1>4. o \in End /\ o # e /\ Base(o) = 3 /\ Given(o) \in Nat /\ read[o] \in Nat
  BY <1>3, Ends, EndType, GivenType DEF IInv, Base
<1>5. pos[o] = 0
  BY <1>1, <1>3, BeforeTunnel DEF PollWrite, Writable
<1>6. i = 3 /\ i <= read[o]
  BY <1>2, <1>4, <1>5, NextIs
<1>7. pos' \in [End -> Nat] /\ pos'[o] = 3 /\ pos'[e] = pos[e]
  BY <1>2, <1>4, <1>6 DEF IInv, TypeOK
<1>8. \A d \in End : pos'[d] <= read[d]
  <2>1. pos[e] <= read[e] /\ 3 <= read[o]
    BY <1>6, EndType DEF IInv
  <2> QED  BY <1>7, <2>1, Ends
<1>9. Delivered(e)'
  <2>1. got' = got /\ downBuf' = downBuf /\ Given(o)' = Given(o)
    BY <1>1 DEF apps, up, down, Given
  <2>2. /\ \A k \in 1 .. Len(got[e]) : got[e][k] = k
        /\ downBuf[e] # None => downBuf[e] = Len(got[e]) + 1
        /\ (IF downBuf[e] = None THEN Len(got[e]) ELSE downBuf[e]) = 0
    BY <1>4, <1>5 DEF IInv, Delivered
  <2>3. 3 <= Base(o) + Given(o)
    BY <1>4
  <2> QED  BY <1>4, <1>7, <2>1, <2>2, <2>3 DEF Delivered
<1> QED  BY <1>1, <1>3, <1>7, <1>8, <1>9, HeaderStep

-----------------------------------------------------------------------------
(* The invariant, and what the runs check of it. *)

LEMMA InitInv == Init => IInv
<1> SUFFICES ASSUME Init PROVE IInv
  OBVIOUS
<1>1. "client" \in End /\ "server" \in End /\ Hello \in Record
  BY Items DEF End
<1>2. \A e \in End :
         /\ sent[e] = 0 /\ ~closed[e] /\ got[e] = <<>> /\ ~endSeen[e]
         /\ wrote[e] = 0 /\ read[e] = 0 /\ pos[e] = 0 /\ ~eof[e] /\ ~shut[e]
         /\ upAt[e] = "copy" /\ upBuf[e] = 0 /\ taken[e] = 0 /\ downAt[e] = "copy" /\ downBuf[e] = 0
         /\ log[e] = (IF e = "client" THEN <<Hello>> ELSE <<>>)
         /\ state[e] = IF e = "client" THEN "connect" ELSE "accept"
  BY DEF Init, None, Wrap, Accept
<1>3. \A e \in End : log[e] \in Seq(Record) /\ Len(log[e]) = (IF e = "client" THEN 1 ELSE 0)
  <2>1. <<Hello>> \in Seq(Record) /\ Len(<<Hello>>) = 1 /\ <<>> \in Seq(Record) /\ Len(<<>>) = 0
    BY <1>1
  <2>2. ASSUME NEW e \in End PROVE log[e] \in Seq(Record) /\ Len(log[e]) = (IF e = "client" THEN 1 ELSE 0)
    <3>1. CASE e = "client"
      <4>1. log[e] = <<Hello>>
        BY <1>2, <3>1
      <4> QED  BY <2>1, <3>1, <4>1
    <3>2. CASE e # "client"
      <4>1. log[e] = <<>>
        BY <1>2, <3>2
      <4> QED  BY <2>1, <3>2, <4>1
    <3> QED  BY <3>1, <3>2
  <2> QED  BY <2>2
<1>4. TypeOK
  <2>1. \A e \in End :
          /\ pos[e] <= read[e] /\ read[e] <= wrote[e] /\ wrote[e] <= Len(log[e])
          /\ wrote[e] <= read[e] + WireCap /\ Len(log[e]) <= wrote[e] + SessCap
    BY <1>2, <1>3, TlsTunnelAssumption
  <2>2. /\ sent \in [End -> Nat] /\ closed \in [End -> BOOLEAN] /\ endSeen \in [End -> BOOLEAN]
        /\ got \in [End -> Seq(Nat)] /\ wrote \in [End -> Nat] /\ read \in [End -> Nat] /\ pos \in [End -> Nat]
        /\ eof \in [End -> BOOLEAN] /\ shut \in [End -> BOOLEAN]
        /\ upAt \in [End -> {"copy", "shutdown", "done"}] /\ upBuf \in [End -> Nat] /\ taken \in [End -> Nat]
        /\ downAt \in [End -> {"copy", "done"}] /\ downBuf \in [End -> Nat]
        /\ state \in [End -> States]
    BY DEF Init, None, States
  <2>3. log \in [End -> Seq(Record)]
    BY <1>3 DEF Init
  <2>4. state["client"] = "connect" /\ state["server"] = "accept"
    BY <1>1, <1>2
  <2> QED  BY <2>1, <2>2, <2>3, <2>4 DEF TypeOK
<1>5. Greeting
  <2>1. /\ Len(log["client"]) = 1 /\ Len(log["server"]) = 0 /\ read["server"] = 0 /\ read["client"] = 0
        /\ pos["client"] = 0
    BY <1>1, <1>2, <1>3
  <2> QED  BY <2>1 DEF Greeting
<1>6. FailsOnlyAfterClose
  BY <1>2 DEF FailsOnlyAfterClose
<1>7. ASSUME NEW e \in End
      PROVE  LogIs(e) /\ Pace(e) /\ Delivered(e) /\ EofIs(e) /\ SeenIs(e) /\ ShutIs(e)
  <2>1. Base(e) \in {2, 3} /\ Base(Other(e)) \in {2, 3} /\ Other(e) \in End /\ Given(e) = 0 /\ Given(Other(e)) = 0
    BY <1>2, Ends DEF Given, None
  <2>2. LogIs(e)
    <3>1. CASE e = "client"
      <4>1. \A i \in 1 .. Len(log[e]) : i = 1 /\ log[e][i] = Hello /\ Opening(e)[i] = Hello
        <5>1. log[e] = <<Hello>> /\ Len(log[e]) = 1
          BY <1>2, <1>3, <3>1
        <5>2. \A i \in 1 .. 1 : i = 1
          OBVIOUS
        <5> QED  BY <3>1, <5>1, <5>2 DEF Opening
      <4> QED  BY <2>1, <4>1 DEF LogIs
    <3>2. CASE e = "server"
      BY <1>3, <3>2 DEF LogIs
    <3> QED  BY <3>1, <3>2 DEF End
  <2>3. Pace(e)
    <3>1. Len(log[e]) < Base(e) /\ Len(log[e]) \in Nat /\ ~(Len(log[e]) >= Base(e)) /\ Len(log[e]) <= Base(e) + 0 + 0
      BY <1>3, <2>1
    <3> QED  BY <1>2, <2>1, <3>1 DEF Pace, None
  <2>4. Delivered(e)
    BY <1>2, <2>1 DEF Delivered, None
  <2> QED  BY <1>2, <2>2, <2>3, <2>4 DEF EofIs, SeenIs, ShutIs, Ended
<1> QED  BY <1>4, <1>5, <1>6, <1>7 DEF IInv

LEMMA Inductive == Spec => []IInv
<1>1. IInv /\ [Next]_vars => IInv'
  <2> SUFFICES ASSUME IInv, [Next]_vars PROVE IInv'
    OBVIOUS
  <2>1. ASSUME NEW e \in End, AppSend(e) \/ AppClose(e) PROVE IInv'
    BY <2>1, AppSendStep, AppCloseStep
  <2>2. ASSUME NEW e \in End, Refuse(e) \/ UpWriteZero(e) \/ Finish(e) \/ Reset(e) PROVE IInv'
    BY <2>2, DropSteps
  <2>3. ASSUME NEW e \in End, Flush(e) \/ DriveEof(e) PROVE IInv'
    BY <2>3, FlushSteps
  <2>4. ASSUME NEW e \in End, NEW k \in 1 .. WireCap, Drive(e, k) PROVE IInv'
    BY <2>4, DriveStep
  <2>5. ASSUME NEW e \in End, Request(e) \/ Respond(e) \/ StartTunnel(e) PROVE IInv'
    BY <2>5, RequestStep, RespondStep, StartTunnelStep
  <2>6. ASSUME NEW e \in End, UpRead(e) \/ UpWrite(e) PROVE IInv'
    BY <2>6, UpReadStep, UpWriteStep
  <2>7. ASSUME NEW e \in End, UpEofAfterPeer(e) \/ UpFinish(e) \/ UpShutdown(e) PROVE IInv'
    BY <2>7, UpEofAfterPeerStep, UpFinishStep, UpShutdownStep
  <2>8. ASSUME NEW e \in End, DownRead(e) \/ DownWrite(e) \/ DownEof(e) PROVE IInv'
    BY <2>8, DownReadStep, DownWriteStep, DownEofStep
  <2>9. ASSUME UNCHANGED vars PROVE IInv'
    <3>1. UNCHANGED <<sent, closed, got, endSeen, log, wrote, read, pos, eof, shut, upAt, upBuf, taken,
                      downAt, downBuf, state>>
      BY <2>9 DEF vars, apps, session, up, down
    <3>2. TypeOK'
      BY <3>1 DEF IInv, TypeOK
    <3>3. Greeting' /\ FailsOnlyAfterClose' /\ \A d \in End : LogIs(d)' /\ Delivered(d)'
      BY <3>1, BytesKept, FailsFrame DEF session, IInv
    <3>4. \A d \in End : Pace(d)' /\ EofIs(d)' /\ SeenIs(d)' /\ ShutIs(d)'
      BY <3>1, PaceFrame, EofFrame, SeenFrame, ShutFrame DEF IInv
    <3> QED  BY <3>2, <3>3, <3>4 DEF IInv
  <2> QED  BY <2>1, <2>2, <2>3, <2>4, <2>5, <2>6, <2>7, <2>8, <2>9 DEF Next, Step
<1> QED  BY <1>1, InitInv, PTL DEF Spec

(* Whatever the bounds, nothing is read before it was written, and what a  *)
(* socket and a session hold fits.                                         *)
THEOREM TypeCorrect == Spec => []TypeOK
<1>1. IInv => TypeOK
  BY DEF IInv
<1> QED  BY <1>1, Inductive, PTL

(* A stream that reports the end of the inner stream has handed over all   *)
(* the plaintext of its session and sent all its ciphertext.               *)
THEOREM EofIsClean == Spec => []EofHidesNothing
<1>1. IInv => EofHidesNothing
  BY DEF IInv, EofIs, EofHidesNothing
<1> QED  BY <1>1, Inductive, PTL

(* A tunnel fails only after an application closed, or after the server    *)
(* end was refused.                                                        *)
THEOREM FailsAfterClose == Spec => []FailsOnlyAfterClose
<1>1. IInv => FailsOnlyAfterClose
  BY DEF IInv
<1> QED  BY <1>1, Inductive, PTL

(* The end of a stream that an application sees comes after every byte     *)
(* the other one sent, unless the tunnel of the other end was cut.         *)
THEOREM EndIsComplete == Spec => []CleanEndIsComplete
<1>1. IInv => CleanEndIsComplete
  <2> SUFFICES ASSUME IInv, NEW e \in End, endSeen[e], state[Other(e)] \notin {"failed", "refused"}
               PROVE  closed[Other(e)] /\ Len(got[e]) = sent[Other(e)]
    BY DEF CleanEndIsComplete
  <2> DEFINE o == Other(e)
  <2>1. /\ o \in End /\ Base(o) \in {2, 3} /\ Given(o) \in Nat /\ pos[o] \in Nat /\ read[o] \in Nat
        /\ Len(log[o]) \in Nat /\ wrote[o] \in Nat /\ pos[o] <= read[o] /\ read[o] <= wrote[o]
        /\ wrote[o] <= Len(log[o]) /\ Len(got[e]) \in Nat
    BY Ends, EndType, GivenType DEF IInv
  <2>2. eof[e] /\ downBuf[e] = None /\ Plain(e) = {} /\ AtEnd(e)
    BY DEF IInv, SeenIs, EofIs
  <2>3. closed[o] /\ upBuf[o] = None /\ taken[o] = sent[o] /\ read[o] >= Base(o) + Given(o)
    <3>1. CASE Notified(e)
      <4>1. read[o] > Base(o) + Given(o)
        <5>1. TypeOK /\ LogIs(o) /\ Pace(o)
          BY <2>1 DEF IInv
        <5> QED  BY <3>1, <5>1, ReadIs
      <4>2. Len(log[o]) > Base(o) + Given(o)
        BY <2>1, <4>1
      <4>3. Len(log[o]) <= Base(o) + Given(o) + IF upAt[o] = "copy" THEN 0 ELSE 1
        BY <2>1 DEF IInv, Pace
      <4>4. upAt[o] # "copy"
        BY <2>1, <4>2, <4>3
      <4>5. closed[o] /\ upBuf[o] = None /\ taken[o] = sent[o]
        BY <2>1, <4>4 DEF IInv, Pace
      <4>6. read[o] >= Base(o) + Given(o)
        BY <2>1, <4>1
      <4> QED  BY <4>5, <4>6
    <3>2. CASE shut[o] /\ read[o] = wrote[o]
      <4>1. upAt[o] = "done"
        BY <2>1, <3>2 DEF IInv, ShutIs
      <4>2. closed[o] /\ upBuf[o] = None /\ taken[o] = sent[o] /\ wrote[o] = Len(log[o]) /\ ~(Len(log[o]) < Base(o))
        BY <2>1, <4>1 DEF IInv, Pace
      <4>3. Len(log[o]) >= Base(o)
        BY <2>1, <4>2
      <4>4. Len(log[o]) >= Base(o) + Given(o)
        BY <2>1, <4>3 DEF IInv, Pace
      <4> QED  BY <3>2, <4>2, <4>4
    <3> QED  BY <2>2, <3>1, <3>2 DEF AtEnd
  <2>4. pos[o] = Base(o) + Given(o)
    <3>1. pos[o] <= Base(o) + Given(o)
      BY DEF IInv, Delivered
    <3>2. ~(pos[o] < Base(o) + Given(o))
      <4>1. SUFFICES ASSUME pos[o] < Base(o) + Given(o) PROVE FALSE
        OBVIOUS
      <4>2. read[o] > pos[o]
        BY <2>1, <2>3, <4>1
      <4>3. LogIs(o) /\ Pace(o) /\ TypeOK
        BY <2>1 DEF IInv
      <4> QED  BY <2>2, <2>3, <4>1, <4>2, <4>3, PlainIsEmpty
    <3> QED  BY <2>1, <3>1, <3>2
  <2>5. Len(got[e]) = Given(o)
    <3>1. Len(got[e]) = IF pos[o] <= Base(o) THEN 0 ELSE pos[o] - Base(o)
      BY <2>2 DEF IInv, Delivered
    <3> QED  BY <2>1, <2>4, <3>1
  <2>6. Given(o) = sent[o]
    BY <2>3 DEF Given
  <2> QED  BY <2>3, <2>5, <2>6
<1> QED  BY <1>1, Inductive, PTL

-----------------------------------------------------------------------------
(* The refinement of ByteStream, in both directions. *)

LEMMA Counted ==
  ASSUME NEW n \in Nat, NEW m \in Nat, n <= m
  PROVE  /\ Upload!Extends([i \in 1 .. m |-> i], [i \in 1 .. n |-> i])
         /\ Download!Extends([i \in 1 .. m |-> i], [i \in 1 .. n |-> i])
BY DEF Upload!Extends, Download!Extends

LEMMA CountedPrefix ==
  ASSUME NEW g \in Seq(Nat), NEW m \in Nat, Len(g) <= m, \A i \in 1 .. Len(g) : g[i] = i
  PROVE  /\ Upload!Extends([i \in 1 .. m |-> i], g)
         /\ Download!Extends([i \in 1 .. m |-> i], g)
BY DEF Upload!Extends, Download!Extends

LEMMA Appended ==
  ASSUME NEW g \in Seq(Nat), NEW v \in Nat
  PROVE  Upload!Extends(Append(g, v), g) /\ Download!Extends(Append(g, v), g)
BY DEF Upload!Extends, Download!Extends

LEMMA GotIsPrefix ==
  ASSUME IInv, NEW e \in End
  PROVE  Len(got[e]) <= sent[Other(e)] /\ \A i \in 1 .. Len(got[e]) : got[e][i] = i
<1> DEFINE o == Other(e)
<1>1. /\ o \in End /\ Base(o) \in {2, 3} /\ Given(o) \in Nat /\ pos[o] \in Nat /\ Len(got[e]) \in Nat
      /\ downBuf[e] \in Nat /\ taken[o] \in Nat /\ sent[o] \in Nat
  BY Ends, EndType, GivenType DEF IInv
<1>2. /\ pos[o] <= Base(o) + Given(o) /\ (downBuf[e] # 0 => downBuf[e] = Len(got[e]) + 1)
      /\ (IF downBuf[e] = 0 THEN Len(got[e]) ELSE downBuf[e]) = IF pos[o] <= Base(o) THEN 0 ELSE pos[o] - Base(o)
      /\ \A i \in 1 .. Len(got[e]) : got[e][i] = i
  BY DEF IInv, Delivered, None
<1>3. Len(got[e]) <= Given(o)
  <2>1. (IF pos[o] <= Base(o) THEN 0 ELSE pos[o] - Base(o)) <= Given(o)
    BY <1>1, <1>2
  <2>2. Len(got[e]) <= IF downBuf[e] = 0 THEN Len(got[e]) ELSE downBuf[e]
    BY <1>1, <1>2
  <2> QED  BY <1>1, <1>2, <2>1, <2>2
<1>4. Given(o) <= taken[o] /\ taken[o] <= sent[o]
  BY <1>1 DEF Given, IInv, Pace
<1> QED  BY <1>1, <1>2, <1>3, <1>4

LEMMA ReceivedIsPrefix ==
  IInv => /\ Upload!Extends([i \in 1 .. sent["client"] |-> i], got["server"])
          /\ Download!Extends([i \in 1 .. sent["server"] |-> i], got["client"])
<1> SUFFICES ASSUME IInv
             PROVE  /\ Upload!Extends([i \in 1 .. sent["client"] |-> i], got["server"])
                    /\ Download!Extends([i \in 1 .. sent["server"] |-> i], got["client"])
  OBVIOUS
<1>1. "server" \in End /\ Other("server") = "client" /\ "client" \in End /\ Other("client") = "server"
  BY DEF End, Other
<1>2. \A e \in End : sent[e] \in Nat /\ got[e] \in Seq(Nat)
  BY EndType DEF IInv
<1>3. \A e \in End : Len(got[e]) <= sent[Other(e)] /\ \A i \in 1 .. Len(got[e]) : got[e][i] = i
  BY GotIsPrefix
<1> QED  BY <1>1, <1>2, <1>3, CountedPrefix

(* What a step of the tunnel is to the byte stream that ends at e. *)
Moves(e) ==
  \/ sent'[Other(e)] = sent[Other(e)] /\ got'[e] = got[e]
  \/ sent'[Other(e)] = sent[Other(e)] + 1 /\ got'[e] = got[e]
  \/ sent'[Other(e)] = sent[Other(e)] /\ got'[e] = Append(got[e], downBuf[e])

LEMMA EveryMove == ASSUME IInv, [Next]_vars, NEW e \in End PROVE Moves(e)
<1>1. CASE UNCHANGED <<sent, got>>
  BY <1>1 DEF Moves
<1>2. ASSUME NEW d \in End, AppSend(d) PROVE Moves(e)
  <2>1. sent' = [sent EXCEPT ![d] = @ + 1] /\ got' = got /\ sent \in [End -> Nat]
    BY <1>2 DEF AppSend, IInv, TypeOK
  <2> QED  BY <2>1, Ends DEF Moves
<1>3. ASSUME NEW d \in End, DownWrite(d) PROVE Moves(e)
  <2>1. got' = [got EXCEPT ![d] = Append(@, downBuf[d])] /\ sent' = sent /\ got \in [End -> Seq(Nat)]
    BY <1>3 DEF DownWrite, IInv, TypeOK
  <2> QED  BY <2>1, Ends DEF Moves
<1>4. ASSUME NEW d \in End, AppClose(d) \/ Refuse(d) PROVE UNCHANGED <<sent, got>>
  BY <1>4 DEF AppClose, Refuse, Drop, apps
<1>5. ASSUME NEW d \in End, \/ Flush(d) \/ DriveEof(d) \/ (\E k \in 1 .. WireCap : Drive(d, k))
                            \/ Request(d) \/ Respond(d) \/ StartTunnel(d)
      PROVE  UNCHANGED <<sent, got>>
  BY <1>5 DEF Flush, DriveEof, Drive, Request, Respond, StartTunnel, apps
<1>6. ASSUME NEW d \in End, UpRead(d) \/ UpWrite(d) \/ UpWriteZero(d) \/ UpEofAfterPeer(d) \/ UpFinish(d) \/ UpShutdown(d)
      PROVE  UNCHANGED <<sent, got>>
  BY <1>6 DEF UpRead, UpWrite, UpWriteZero, UpEofAfterPeer, UpFinish, UpShutdown, Drop, apps
<1>7. ASSUME NEW d \in End, DownRead(d) \/ DownEof(d) \/ Finish(d) \/ Reset(d) PROVE UNCHANGED <<sent, got>>
  BY <1>7 DEF DownRead, DownEof, Finish, Reset, Drop, apps
<1>8. CASE UNCHANGED vars
  BY <1>8 DEF vars, apps, Moves
<1> QED  BY <1>1, <1>2, <1>3, <1>4, <1>5, <1>6, <1>7, <1>8 DEF Next, Step

LEMMA UploadStep ==
  ASSUME IInv, IInv', [Next]_vars
  PROVE  Upload!Next \/ UNCHANGED Upload!bsvars
<1> DEFINE n == sent["client"]  m == sent'["client"]  g == got["server"]  h == got'["server"]
<1>1. "server" \in End /\ Other("server") = "client" /\ "client" \in End
  BY DEF End, Other
<1>2. n \in Nat /\ g \in Seq(Nat) /\ downBuf["server"] \in Nat
  BY <1>1, EndType DEF IInv
<1>3. \/ m = n /\ h = g
      \/ m = n + 1 /\ h = g
      \/ m = n /\ h = Append(g, downBuf["server"])
  BY <1>1, EveryMove DEF Moves
<1>4. CASE m = n /\ h = g
  BY <1>4 DEF Upload!bsvars
<1>5. CASE m = n + 1 /\ h = g
  <2>1. Upload!Extends([i \in 1 .. m |-> i], [i \in 1 .. n |-> i])
    <3>1. n \in Nat /\ m \in Nat /\ n <= m
      BY <1>2, <1>5
    <3> HIDE DEF n, m
    <3> QED  BY <3>1, Counted
  <2> QED  BY <1>5, <2>1 DEF Upload!Next, Upload!Write
<1>6. CASE m = n /\ h = Append(g, downBuf["server"])
  <2>1. Upload!Extends(h, g)
    <3> HIDE DEF g, h
    <3> QED  BY <1>2, <1>6, Appended
  <2>2. Upload!Extends([i \in 1 .. m |-> i], h)
    <3>1. (Upload!Extends([i \in 1 .. sent["client"] |-> i], got["server"]))'
      BY PTL, ReceivedIsPrefix
    <3> QED  BY <3>1 DEF Upload!Extends
  <2> QED  BY <1>6, <2>1, <2>2 DEF Upload!Next, Upload!Read
<1> QED  BY <1>3, <1>4, <1>5, <1>6

LEMMA DownloadStep ==
  ASSUME IInv, IInv', [Next]_vars
  PROVE  Download!Next \/ UNCHANGED Download!bsvars
<1> DEFINE n == sent["server"]  m == sent'["server"]  g == got["client"]  h == got'["client"]
<1>1. "client" \in End /\ Other("client") = "server" /\ "server" \in End
  BY DEF End, Other
<1>2. n \in Nat /\ g \in Seq(Nat) /\ downBuf["client"] \in Nat
  BY <1>1, EndType DEF IInv
<1>3. \/ m = n /\ h = g
      \/ m = n + 1 /\ h = g
      \/ m = n /\ h = Append(g, downBuf["client"])
  BY <1>1, EveryMove DEF Moves
<1>4. CASE m = n /\ h = g
  BY <1>4 DEF Download!bsvars
<1>5. CASE m = n + 1 /\ h = g
  <2>1. Download!Extends([i \in 1 .. m |-> i], [i \in 1 .. n |-> i])
    <3>1. n \in Nat /\ m \in Nat /\ n <= m
      BY <1>2, <1>5
    <3> HIDE DEF n, m
    <3> QED  BY <3>1, Counted
  <2> QED  BY <1>5, <2>1 DEF Download!Next, Download!Write
<1>6. CASE m = n /\ h = Append(g, downBuf["client"])
  <2>1. Download!Extends(h, g)
    <3> HIDE DEF g, h
    <3> QED  BY <1>2, <1>6, Appended
  <2>2. Download!Extends([i \in 1 .. m |-> i], h)
    <3>1. (Download!Extends([i \in 1 .. sent["server"] |-> i], got["client"]))'
      BY PTL, ReceivedIsPrefix
    <3> QED  BY <3>1 DEF Download!Extends
  <2> QED  BY <1>6, <2>1, <2>2 DEF Download!Next, Download!Read
<1> QED  BY <1>3, <1>4, <1>5, <1>6

(* Each direction of the tunnel is a byte stream between the applications: *)
(* nothing is lost, repeated or reordered, whatever the sockets and the    *)
(* sessions hold back.                                                     *)
THEOREM Refinement == Spec => ImplementsByteStreams
<1>1. Init => Upload!Init /\ Download!Init
  <2> SUFFICES ASSUME Init PROVE Upload!Init /\ Download!Init
    OBVIOUS
  <2>1. sent["client"] = 0 /\ got["server"] = <<>> /\ sent["server"] = 0 /\ got["client"] = <<>>
    BY DEF Init, End
  <2>2. [i \in 1 .. 0 |-> i] = <<>>
    OBVIOUS
  <2> QED  BY <2>1, <2>2 DEF Upload!Init, Download!Init
<1>2. IInv /\ IInv' /\ [Next]_vars => [Upload!Next]_(Upload!bsvars)
  BY UploadStep
<1>3. IInv /\ IInv' /\ [Next]_vars => [Download!Next]_(Download!bsvars)
  BY DownloadStep
<1>4. Spec => Upload!Spec
  BY <1>1, <1>2, Inductive, PTL DEF Spec, Upload!Spec
<1>5. Spec => Download!Spec
  BY <1>1, <1>3, Inductive, PTL DEF Spec, Download!Spec
<1> QED  BY <1>4, <1>5 DEF ImplementsByteStreams

-----------------------------------------------------------------------------
(* Stalls: what the ends owe each other before the tunnel. *)

LEMMA Opened ==
  ASSUME IInv, OpeningIs, NEW e \in End, eof[e] \/ downAt[e] = "done" \/ state[e] \in Ended
  PROVE  Len(log["server"]) >= 2
<1>1. "client" \in End /\ "server" \in End /\ Other("client") = "server" /\ Other("server") = "client"
  BY DEF End, Other
<1>2. /\ Len(log["server"]) \in Nat /\ Len(log["client"]) \in Nat /\ read["client"] \in Nat /\ read["server"] \in Nat
      /\ pos["client"] \in Nat /\ read["server"] <= Len(log["server"]) /\ Given("client") \in Nat /\ Given("server") \in Nat
      /\ Base("client") = 3 /\ Base("server") = 2
  <2>1. ASSUME NEW d \in End
        PROVE  /\ read[d] \in Nat /\ Len(log[d]) \in Nat /\ pos[d] \in Nat
               /\ read[d] <= Len(log[d]) /\ Given(d) \in Nat
    BY EndType, GivenType DEF IInv
  <2>2. Base("client") = 3 /\ Base("server") = 2
    BY DEF Base
  <2> QED  BY <1>1, <2>1, <2>2
<1>3. state[e] \in Ended => Len(log["server"]) >= 2
  BY DEF OpeningIs
<1>4. ASSUME eof["client"] PROVE Len(log["server"]) >= 2
  <2>1. CASE Notified("client")
    <3>1. read["server"] > Base("server") + Given("server")
      BY <1>1, <2>1, ReadIs DEF IInv
    <3> QED  BY <1>2, <3>1
  <2>2. CASE shut["server"]
    <3>1. state["server"] \in {"failed", "refused"} \/ upAt["server"] = "done"
      BY <1>1, <2>2 DEF IInv, ShutIs
    <3>2. upAt["server"] = "done" => ~(Len(log["server"]) < Base("server"))
      BY <1>1 DEF IInv, Pace
    <3> QED  BY <1>1, <1>2, <3>1, <3>2 DEF OpeningIs, Ended
  <2> QED  BY <1>1, <1>4, <2>1, <2>2 DEF IInv, EofIs, AtEnd
<1>5. ASSUME eof["server"] PROVE Len(log["server"]) >= 2
  <2>1. Plain("server") = {}
    BY <1>1, <1>5 DEF IInv, EofIs
  <2>2. read["client"] >= 3 => Len(log["server"]) >= 2
    <3>1. SUFFICES ASSUME read["client"] >= 3, pos["client"] = 0 PROVE FALSE
      BY <1>2 DEF IInv, Greeting
    <3>2. 3 \in pos["client"] + 1 .. read["client"] /\ 3 <= Base("client") + Given("client")
      BY <1>2, <3>1
    <3>3. 3 \in Plain("server") <=> /\ 3 \in pos[Other("server")] + 1 .. read[Other("server")]
                                    /\ Base(Other("server")) <= 3 /\ 3 <= Base(Other("server")) + Given(Other("server"))
      BY <1>1, ReadIs DEF IInv
    <3>4. 3 \in Plain("server")
      BY <1>1, <1>2, <3>2, <3>3
    <3> QED  BY <2>1, <3>4
  <2>3. CASE Notified("server")
    <3>1. read["client"] > Base("client") + Given("client")
      BY <1>1, <2>3, ReadIs DEF IInv
    <3> QED  BY <1>2, <2>2, <3>1
  <2>4. CASE shut["client"] /\ read["client"] = wrote["client"]
    <3>1. state["client"] \in {"failed", "refused"} \/ upAt["client"] = "done"
      BY <1>1, <2>4 DEF IInv, ShutIs
    <3>2. upAt["client"] = "done" => ~(Len(log["client"]) < Base("client")) /\ wrote["client"] = Len(log["client"])
      BY <1>1 DEF IInv, Pace
    <3>3. upAt["client"] = "done" => read["client"] >= 3
      BY <1>2, <2>4, <3>2
    <3> QED  BY <1>1, <2>2, <3>1, <3>3 DEF OpeningIs, Ended
  <2> QED  BY <1>1, <1>5, <2>3, <2>4 DEF IInv, EofIs, AtEnd
<1>6. downAt[e] = "done" => eof[e]
  BY DEF OpeningIs
<1> QED  BY <1>3, <1>4, <1>5, <1>6 DEF End

(* What a step may change without disturbing how the tunnel was opened. *)
LEMMA OpeningFrame ==
  ASSUME IInv, IInv', OpeningIs,
         Len(log'["server"]) >= 2 <=> Len(log["server"]) >= 2,
         \A d \in End : /\ read[d] <= read'[d] /\ (eof[d] => eof'[d])
                        /\ downAt'[d] = "done" => downAt[d] = "done" \/ eof'[d]
                        /\ state'[d] \in Ended => state[d] \in Ended \/ Len(log["server"]) >= 2
                        /\ state'[d] \in {"request", "response"} => state'[d] = state[d] /\ Len(log'[d]) = Len(log[d])
  PROVE  OpeningIs'
<1>1. "client" \in End /\ read["client"] \in Nat /\ read'["client"] \in Nat
  BY EndType DEF End, IInv, TypeOK
<1>2. Len(log'["server"]) >= 2 => read'["client"] >= 3
  BY <1>1 DEF OpeningIs
<1>3. ASSUME NEW d \in End
      PROVE  /\ state'[d] \in Ended => Len(log'["server"]) >= 2
             /\ downAt'[d] = "done" => eof'[d]
             /\ state'[d] \in {"request", "response"} => Len(log'[d]) = Base(d)
  BY DEF OpeningIs
<1> QED  BY <1>2, <1>3 DEF OpeningIs

(* The steps that leave the session and what was read of it alone. *)
LEMMA OpeningApart ==
  ASSUME IInv, IInv', OpeningIs, NEW e \in End,
         \/ AppSend(e) \/ AppClose(e) \/ StartTunnel(e) \/ Refuse(e) \/ UpWriteZero(e) \/ Finish(e) \/ Reset(e)
         \/ UpRead(e) \/ UpEofAfterPeer(e) \/ DownRead(e) \/ DownWrite(e) \/ DownEof(e)
  PROVE  OpeningIs'
<1>1. UNCHANGED <<log, read, eof>> /\ \A d \in End : read[d] <= read'[d]
  <2>1. UNCHANGED <<log, read, eof>>
    BY DEF AppSend, AppClose, StartTunnel, Refuse, UpWriteZero, Finish, Reset, UpRead, UpEofAfterPeer,
           DownRead, DownWrite, DownEof, Drop, session
  <2> QED  BY <2>1, EndType DEF IInv
<1>2. ASSUME NEW d \in End PROVE downAt'[d] = "done" => downAt[d] = "done" \/ eof'[d]
  <2>1. CASE DownEof(e)
    <3>1. downAt' = [downAt EXCEPT ![e] = "done"] /\ eof[e]
      BY <2>1 DEF DownEof
    <3> QED  BY <1>1, <3>1 DEF IInv, TypeOK
  <2>2. CASE ~DownEof(e)
    BY <2>2 DEF AppSend, AppClose, StartTunnel, Refuse, UpWriteZero, Finish, Reset, UpRead, UpEofAfterPeer,
                DownRead, DownWrite, Drop, down
  <2> QED  BY <2>1, <2>2
<1>3. ASSUME NEW d \in End
      PROVE  /\ state'[d] \in Ended => state[d] \in Ended \/ Len(log["server"]) >= 2
             /\ state'[d] \in {"request", "response"} => state'[d] = state[d]
  <2>1. CASE Refuse(e)
    <3>1. state' = [state EXCEPT ![e] = "refused"] /\ state[e] = "response"
      BY <2>1 DEF Refuse, Drop
    <3>2. e = "server" /\ Len(log[e]) = Base(e) /\ Base(e) = 2
      BY <3>1 DEF IInv, TypeOK, End, OpeningIs, Base
    <3> QED  BY <3>1, <3>2 DEF IInv, TypeOK, Ended
  <2>2. CASE UpWriteZero(e) \/ Finish(e) \/ Reset(e)
    <3>1. PICK s \in Ended : state' = [state EXCEPT ![e] = s]
      BY <2>2 DEF UpWriteZero, Finish, Reset, Drop, Ended
    <3>2. eof[e] \/ downAt[e] = "done" \/ state[Other(e)] \in Ended
      BY <2>2 DEF UpWriteZero, WriteReturnsZero, Finish, Reset
    <3>3. Len(log["server"]) >= 2
      BY <3>2, Ends, Opened
    <3> QED  BY <3>1, <3>3 DEF IInv, TypeOK, Ended
  <2>3. CASE StartTunnel(e)
    <3>1. state' = [state EXCEPT ![e] = "tunnel"]
      BY <2>3 DEF StartTunnel
    <3> QED  BY <3>1 DEF IInv, TypeOK, Ended
  <2>4. CASE ~(Refuse(e) \/ UpWriteZero(e) \/ Finish(e) \/ Reset(e) \/ StartTunnel(e))
    <3>1. state' = state
      BY <2>4 DEF AppSend, AppClose, UpRead, UpEofAfterPeer, DownRead, DownWrite, DownEof
    <3> QED  BY <3>1
  <2> QED  BY <2>1, <2>2, <2>3, <2>4
<1> QED  BY <1>1, <1>2, <1>3, OpeningFrame

(* The steps that flush, and those of a tunnel that write a record. *)
LEMMA OpeningWrites ==
  ASSUME IInv, IInv', OpeningIs, NEW e \in End,
         Flush(e) \/ DriveEof(e) \/ UpWrite(e) \/ UpFinish(e) \/ UpShutdown(e)
  PROVE  OpeningIs'
<1>1. UNCHANGED <<read, state, downAt>> /\ (\A d \in End : read[d] <= read'[d])
  <2>1. UNCHANGED <<read, state, downAt>>
    BY DEF Flush, DriveEof, UpWrite, UpFinish, UpShutdown, down
  <2> QED  BY <2>1, EndType DEF IInv
<1>2. ASSUME NEW d \in End PROVE eof[d] => eof'[d]
  <2>1. eof' = eof \/ eof' = [eof EXCEPT ![e] = TRUE]
    BY DEF Flush, DriveEof, UpWrite, UpFinish, UpShutdown
  <2> QED  BY <2>1 DEF IInv, TypeOK
<1>3. CASE Flush(e) \/ DriveEof(e) \/ UpShutdown(e)
  <2>1. log' = log
    <3>1. log' = [log EXCEPT ![e] = log[e]]
      BY <1>3 DEF Flush, DriveEof, UpShutdown, Flushed
    <3> QED  BY <3>1 DEF IInv, TypeOK
  <2> QED  BY <1>1, <1>2, <2>1, OpeningFrame
<1>4. CASE UpWrite(e) \/ UpFinish(e)
  <2>1. state[e] = "tunnel"
    BY <1>4 DEF UpWrite, UpFinish, UpEnds
  <2>2. Len(log[e]) \in Nat /\ Len(log'[e]) \in Nat /\ Len(log[e]) >= Base(e) /\ Len(log'[e]) >= Base(e)
    <3>1. Len(log[e]) \in Nat /\ ~(Len(log[e]) < Base(e))
      BY <2>1, LogLength
    <3>2. log' \in [End -> Seq(Record)]
      BY DEF IInv, TypeOK
    <3>3. Len(log'[e]) \in Nat
      BY <3>2
    <3>4. state'[e] = "tunnel" => Len(log'[e]) >= Base(e)
      BY DEF IInv, Pace
    <3> QED  BY <1>1, <2>1, <3>1, <3>3, <3>4, Ends
  <2>3. \A d \in End : d # e => log'[d] = log[d]
    BY <1>4 DEF UpWrite, UpFinish, PollWrite, Flushed, IInv, TypeOK
  <2>4. Len(log'["server"]) >= 2 <=> Len(log["server"]) >= 2
    BY <2>2, <2>3 DEF End, Base
  <2> QED  BY <1>1, <1>2, <2>1, <2>3, <2>4, OpeningFrame
<1> QED  BY <1>3, <1>4

LEMMA OpeningDrive ==
  ASSUME IInv, IInv', OpeningIs, NEW e \in End, NEW k \in 1 .. WireCap, Drive(e, k)
  PROVE  OpeningIs'
<1> DEFINE o == Other(e)  n == read[o] + k
<1>1. UNCHANGED <<eof, downAt, state>> /\ state[e] \notin {"request", "response"}
  BY DEF Drive, down, ReadsTls, Reading
<1>2. o \in End /\ o # e /\ \A d \in End : d = e \/ d = o
  BY Ends
<1>3. read[o] \in Nat /\ wrote[o] <= Len(log[o]) /\ wrote[o] \in Nat /\ Len(log[o]) \in Nat /\ k \in Nat
  BY <1>2, EndType, TlsTunnelAssumption DEF IInv
<1>4. n \in Nat /\ n > read[o] /\ n <= Len(log[o])
  BY <1>3 DEF Drive
<1>5. read' = [read EXCEPT ![o] = n] /\ log' = [log EXCEPT ![e] = log[e] \o Replies(e, n)]
  BY DEF Drive, Flushed
<1>6. log'[o] = log[o] /\ (read[o] # 0 => log'[e] = log[e])
  <2>1. read[o] # 0 => Replies(e, n) = <<>>
    BY <1>2, <1>4, RepliesAre DEF IInv
  <2>2. log[e] \in Seq(Record) /\ log \in [End -> Seq(Record)]
    BY DEF IInv, TypeOK
  <2> QED  BY <1>2, <1>5, <2>1, <2>2
<1>7. ASSUME read[o] = 0 PROVE Len(log[e]) + 1 < Base(e) /\ Len(log'[e]) = Len(log[e]) + 1
  <2>1. Replies(e, n) = <<Opening(e)[IF e = "client" THEN 2 ELSE 1]>>
    BY <1>2, <1>4, <1>7, RepliesAre DEF IInv
  <2>2. log[e] \in Seq(Record) /\ Opening(e)[IF e = "client" THEN 2 ELSE 1] \in Record
    BY Items DEF IInv, TypeOK, Opening
  <2>3. log'[e] = log[e] \o Replies(e, n)
    BY <1>5 DEF IInv, TypeOK
  <2> HIDE DEF n
  <2>4. log'[e] = Append(log[e], Opening(e)[IF e = "client" THEN 2 ELSE 1])
    BY <2>1, <2>2, <2>3, SeqConcat
  <2> QED  BY <1>7, <2>2, <2>4, SeqAppend, NotAnswered
<1>8. Len(log'["server"]) >= 2 <=> Len(log["server"]) >= 2
  <2>1. CASE e = "client"
    BY <1>6, <2>1 DEF Other
  <2>2. CASE e = "server" /\ read[o] = 0
    <3>1. Len(log[e]) \in Nat
      BY EndType DEF IInv
    <3> QED  BY <1>7, <2>2, <3>1 DEF Base
  <2>3. CASE e = "server" /\ read[o] # 0
    BY <1>6, <2>3
  <2> QED  BY <2>1, <2>2, <2>3 DEF End
<1>9. ASSUME NEW d \in End PROVE read[d] <= read'[d]
  <2>1. read[d] \in Nat /\ read[d] <= read[d]
    BY EndType DEF IInv
  <2> QED  BY <1>3, <1>4, <1>5, <2>1 DEF IInv, TypeOK
<1>10. ASSUME NEW d \in End, state'[d] \in {"request", "response"} PROVE Len(log'[d]) = Len(log[d])
  BY <1>1, <1>2, <1>6, <1>10
<1> QED  BY <1>1, <1>8, <1>9, <1>10, OpeningFrame

(* The header of either end is the last record of its opening. *)
LEMMA OpeningHeader ==
  ASSUME IInv, IInv', OpeningIs, NEW e \in End, Request(e) \/ Respond(e)
  PROVE  OpeningIs'
<1> DEFINE o == Other(e)
<1>1. /\ UNCHANGED <<read, eof, downAt>> /\ PollWrite(e, Header) /\ state[e] \in {"connect", "accept"}
      /\ state[e] = "connect" => e = "client"
      /\ state[e] = "accept" => e = "server"
      /\ \E s \in {"request", "response"} : state' = [state EXCEPT ![e] = s]
  BY DEF Request, Respond, down, IInv, TypeOK, End
<1>2. o \in End /\ o # e /\ \A d \in End : d = e \/ d = o
  BY Ends
<1>3. Base(e) = Len(log[e]) + 1 /\ Len(log[e]) \in Nat
  BY <1>1, BeforeTunnel DEF PollWrite, Writable
<1>4. Len(log'[e]) = Base(e) /\ log'[o] = log[o]
  <2>1. log'[e] = Append(log[e], Header) /\ Len(Append(log[e], Header)) = Len(log[e]) + 1
    BY <1>1, Items, AppendsTo DEF PollWrite, IInv
  <2>2. log'[o] = log[o]
    BY <1>1, <1>2 DEF PollWrite, Flushed, IInv, TypeOK
  <2> QED  BY <1>3, <2>1, <2>2
<1>5. state'[o] = state[o] /\ state'[e] \notin Ended
  BY ZenonT(60), <1>1, <1>2 DEF IInv, TypeOK, Ended
<1>6. Len(log'["server"]) >= 2 => read'["client"] >= 3
  <2>1. CASE e = "client"
    <3>1. log'["server"] = log["server"]
      BY <1>4, <2>1 DEF Other
    <3> QED  BY <1>1, <3>1 DEF OpeningIs
  <2>2. CASE e = "server"
    <3>1. Respond(e) /\ o = "client" /\ Base(o) = 3
      BY <1>1, <2>2 DEF Request, Other, Base
    <3>2. PICK i \in Plain(e) : NextPlain(e, i)
      BY <3>1 DEF Respond
    <3>3. i \in Nat /\ i <= read[o] /\ 3 <= i /\ read[o] \in Nat
      BY <1>2, <3>1, <3>2, NextIs, EndType DEF IInv
    <3> QED  BY <1>1, <3>1, <3>3
  <2> QED  BY <2>1, <2>2 DEF End
<1>7. Len(log["server"]) >= 2 => Len(log'["server"]) >= 2
  BY <1>2, <1>3, <1>4 DEF End
<1>8. ASSUME NEW d \in End
      PROVE  /\ state'[d] \in Ended => Len(log'["server"]) >= 2
             /\ downAt'[d] = "done" => eof'[d]
             /\ state'[d] \in {"request", "response"} => Len(log'[d]) = Base(d)
  <2>1. CASE d = e
    BY <1>1, <1>4, <1>5, <2>1 DEF OpeningIs
  <2>2. CASE d = o
    BY <1>1, <1>4, <1>5, <1>7, <2>2 DEF OpeningIs
  <2> QED  BY <1>2, <2>1, <2>2
<1> QED  BY <1>6, <1>8 DEF OpeningIs

LEMMA OpeningInductive == Spec => []OpeningIs
<1>1. Init => OpeningIs
  BY DEF Init, OpeningIs, End, Accept, Ended
<1>2. ASSUME IInv, IInv', OpeningIs, [Next]_vars PROVE OpeningIs'
  <2>1. ASSUME NEW e \in End, AppSend(e) \/ AppClose(e) \/ Refuse(e) PROVE OpeningIs'
    BY <1>2, <2>1, OpeningApart
  <2>2. ASSUME NEW e \in End, Step(e) PROVE OpeningIs'
    BY <1>2, <2>2, OpeningApart, OpeningWrites, OpeningDrive, OpeningHeader DEF Step
  <2>3. CASE UNCHANGED vars
    BY <1>2, <2>3 DEF vars, session, down, OpeningIs, Ended
  <2> QED  BY <1>2, <2>1, <2>2, <2>3 DEF Next
<1> QED  BY <1>1, <1>2, Inductive, PTL DEF Spec

(* What is known of an end that cannot take a step. *)

(* Its ciphertext is sent, or its wire is full. *)
LEMMA StuckSent ==
  ASSUME IInv, NEW e \in End, state[e] \notin Ended, ~CanStep(e)
  PROVE  /\ Flushes(e) <=> wrote[e] = Len(log[e])
         /\ wrote[e] # Len(log[e]) => wrote[e] = read[e] + WireCap /\ wrote[e] < Len(log[e])
         /\ read[e] = wrote[e] => wrote[e] = Len(log[e])
<1>1. /\ wrote[e] \in Nat /\ read[e] \in Nat /\ Len(log[e]) \in Nat /\ read[e] <= wrote[e]
      /\ wrote[e] <= Len(log[e]) /\ wrote[e] <= read[e] + WireCap /\ WireCap \in Nat /\ WireCap >= 1
  BY EndType, TlsTunnelAssumption DEF IInv
<1>2. CASE eof[e]
  <2>1. wrote[e] = Len(log[e])
    BY <1>2 DEF IInv, EofIs
  <2> QED  BY <1>1, <2>1 DEF Flushes, Reach
<1>3. CASE ~eof[e]
  <2> DEFINE n == Len(log[e])  r == Reach(e, n)
  <2>1. ~(wrote[e] < r)
    BY <1>3 DEF CanStep
  <2>2. r = IF n <= read[e] + WireCap THEN n ELSE read[e] + WireCap
    BY DEF Reach
  <2>3. /\ wrote[e] \in Nat /\ read[e] \in Nat /\ n \in Nat /\ wrote[e] <= n
        /\ wrote[e] <= read[e] + WireCap /\ WireCap \in Nat /\ WireCap >= 1
    BY <1>1
  <2>4. Flushes(e) <=> r = n
    BY DEF Flushes
  <2> HIDE DEF n, r
  <2>5. r = wrote[e]
    BY <2>1, <2>2, <2>3
  <2>6. /\ wrote[e] # n => wrote[e] = read[e] + WireCap /\ wrote[e] < n
        /\ read[e] = wrote[e] => wrote[e] = n
    BY <2>2, <2>3, <2>5
  <2> QED  BY <2>4, <2>5, <2>6 DEF n
<1> QED  BY <1>2, <1>3

(* Once it reads, it has read all that the other end wrote. *)
LEMMA StuckRead ==
  ASSUME IInv, NEW e \in End, ~CanStep(e), Reading(e), Flushes(e)
  PROVE  read[Other(e)] = wrote[Other(e)] /\ ~AtEnd(e)
<1>1. Other(e) \in End
  BY Ends
<1>2. read[Other(e)] <= wrote[Other(e)] /\ read[Other(e)] \in Nat /\ wrote[Other(e)] \in Nat
  BY <1>1, EndType DEF IInv
<1> QED  BY <1>2 DEF CanStep, ReadsTls

(* A tunnel at its end: nothing is left in it. *)
LEMMA StuckAfterEnd ==
  ASSUME IInv, NEW e \in End, ~CanStep(e), state[e] = "tunnel", eof[e]
  PROVE  /\ downBuf[e] = None /\ upBuf[e] = None /\ taken[e] = sent[e] /\ Plain(e) = {}
         /\ wrote[e] = Len(log[e]) /\ read[Other(e)] = wrote[Other(e)]
<1> DEFINE o == Other(e)
<1>1. ~CanCopy(e)
  BY DEF CanStep
<1>2. downBuf[e] = None /\ upBuf[e] = None
  BY <1>1 DEF CanCopy, WriteReturnsZero
<1>3. taken[e] = sent[e]
  <2>1. taken[e] \in Nat /\ sent[e] \in Nat /\ taken[e] <= sent[e] /\ (upAt[e] # "copy" => taken[e] = sent[e])
    BY EndType DEF IInv, Pace
  <2> QED  BY <1>1, <1>2, <2>1 DEF CanCopy
<1>4. Plain(e) = {} /\ wrote[e] = Len(log[e]) /\ AtEnd(e)
  BY DEF IInv, EofIs
<1>5. o \in End /\ read[o] \in Nat /\ wrote[o] \in Nat /\ Len(log[o]) \in Nat /\ Base(o) \in {2, 3} /\ Given(o) \in Nat
      /\ read[o] <= wrote[o] /\ wrote[o] <= Len(log[o])
  BY Ends, EndType, GivenType DEF IInv
<1>6. CASE Notified(e)
  <2>1. read[o] > Base(o) + Given(o)
    BY <1>5, <1>6, ReadIs DEF IInv
  <2>2. Len(log[o]) <= Base(o) + Given(o) + IF upAt[o] = "copy" THEN 0 ELSE 1
    BY <1>5 DEF IInv, Pace
  <2>3. Len(log[o]) <= Base(o) + Given(o) + 1
    BY <1>5, <2>2
  <2>4. read[o] = wrote[o]
    <3> DEFINE n == Len(log[o])  g == Base(o) + Given(o)
    <3>1. n \in Nat /\ g \in Nat /\ n <= g + 1 /\ read[o] > g /\ wrote[o] <= n
      BY <1>5, <2>1, <2>3
    <3> HIDE DEF n, g
    <3> QED  BY <1>5, <3>1
  <2> QED  BY <1>2, <1>3, <1>4, <2>4
<1> QED  BY <1>2, <1>3, <1>4, <1>6 DEF AtEnd

(* A tunnel before its end: it waits for the other end, and has nothing to *)
(* give unless its wire is full.                                           *)
LEMMA StuckBeforeEnd ==
  ASSUME IInv, OpeningIs, NEW e \in End, ~CanStep(e), state[e] = "tunnel", ~eof[e]
  PROVE  /\ downBuf[e] = None /\ Plain(e) = {}
         /\ wrote[e] = Len(log[e]) =>
              upBuf[e] = None /\ taken[e] = sent[e] /\ read[Other(e)] = wrote[Other(e)] /\ ~AtEnd(e)
<1>1. ~CanCopy(e) /\ ~Handshaking(e)
  BY LogLength DEF CanStep
<1>2. downBuf[e] = None /\ downAt[e] = "copy"
  <2>1. downAt[e] \in {"copy", "done"}
    BY DEF IInv, TypeOK
  <2> QED  BY <1>1, <2>1 DEF CanCopy, OpeningIs
<1>3. Plain(e) = {}
  BY <1>1, <1>2 DEF CanCopy
<1>4. ASSUME wrote[e] = Len(log[e])
      PROVE  upBuf[e] = None /\ taken[e] = sent[e] /\ read[Other(e)] = wrote[Other(e)] /\ ~AtEnd(e)
  <2>1. Flushes(e)
    BY <1>4, StuckSent DEF Ended
  <2>2. Writable(e)
    <3>1. Len(log[e]) \in Nat /\ Len(log[e]) - Len(log[e]) < SessCap
      BY EndType, TlsTunnelAssumption DEF IInv
    <3> QED  BY <1>1, <2>1, <3>1 DEF Writable, Flushes
  <2>3. upBuf[e] = None
    BY <1>1, <2>2 DEF CanCopy
  <2>4. taken[e] = sent[e]
    <3>1. taken[e] \in Nat /\ sent[e] \in Nat /\ taken[e] <= sent[e] /\ (upAt[e] # "copy" => taken[e] = sent[e])
      BY EndType DEF IInv, Pace
    <3> QED  BY <1>1, <2>3, <3>1 DEF CanCopy
  <2>5. Reading(e)
    BY <1>1, <1>2, <1>3 DEF Reading
  <2> QED  BY <2>1, <2>3, <2>4, <2>5, StuckRead
<1> QED  BY <1>2, <1>3, <1>4

(* The handshake and the request never stall: each of their records finds  *)
(* room, since the end it goes to has read those before it.                *)
LEMMA ServerAnswers ==
  ASSUME IInv, OpeningIs, \A e \in End : ~CanStep(e)
  PROVE  Len(log["server"]) >= 2
<1> SUFFICES ASSUME ~(Len(log["server"]) >= 2) PROVE FALSE
  OBVIOUS
<1>1. "client" \in End /\ "server" \in End /\ Other("client") = "server" /\ Other("server") = "client"
      /\ Base("client") = 3 /\ Base("server") = 2
  BY DEF End, Other, Base
<1>2. /\ Len(log["client"]) \in Nat /\ Len(log["server"]) \in Nat /\ read["client"] \in Nat /\ read["server"] \in Nat
      /\ wrote["client"] \in Nat /\ wrote["server"] \in Nat /\ WireCap \in Nat /\ WireCap >= 1 /\ SessCap \in Nat /\ SessCap >= 1
      /\ read["client"] <= wrote["client"] /\ Given("client") \in Nat /\ Given("server") \in Nat
  BY <1>1, EndType, GivenType, TlsTunnelAssumption DEF IInv
<1>3. \A e \in End : ~eof[e] /\ state[e] \notin Ended /\ downAt[e] # "done"
  BY Opened
<1>4. state["server"] = "accept"
  <2>1. ~(Len(log["server"]) >= Base("server"))
    BY <1>1
  <2>2. state["server"] \notin {"request", "response", "tunnel"}
    BY <1>1, <2>1 DEF IInv, Pace
  <2> QED  BY <1>1, <1>3, <2>2 DEF IInv, TypeOK, States
<1>5. wrote["server"] = Len(log["server"]) /\ Flushes("server")
  <2>1. wrote["server"] # Len(log["server"]) => wrote["server"] = read["server"] + WireCap /\ wrote["server"] < Len(log["server"])
    BY <1>1, <1>3, StuckSent
  <2>2. wrote["server"] = Len(log["server"])
    <3> DEFINE n == Len(log["server"])  r == read["server"]  w == wrote["server"]
    <3>1. n \in Nat /\ ~(n >= 2) /\ r \in Nat /\ w \in Nat /\ (w # n => w = r + WireCap /\ w < n)
      BY <1>2, <2>1
    <3>2. WireCap \in Nat /\ WireCap >= 1
      BY <1>2
    <3> HIDE DEF n, r, w
    <3>3. w = n
      BY <3>1, <3>2
    <3> QED  BY <3>3 DEF n, w
  <2> QED  BY <1>1, <1>3, <2>2, StuckSent
<1>6. pos["client"] = 0
  BY <1>2 DEF IInv, Greeting
<1>7. \A i : i \in Plain("server") <=> i \in 1 .. read["client"] /\ 3 <= i /\ i <= 3 + Given("client")
  <2>1. \A i : i \in Plain("server") <=> /\ i \in pos[Other("server")] + 1 .. read[Other("server")]
                                         /\ Base(Other("server")) <= i /\ i <= Base(Other("server")) + Given(Other("server"))
    BY <1>1, ReadIs DEF IInv
  <2> QED  BY <1>1, <1>6, <2>1
<1>8. Handshaking("server") <=> read["client"] < 2
  BY <1>1, ReadIs DEF IInv
<1>9. Plain("server") = {}
  <2> SUFFICES ASSUME NEW i \in Plain("server") PROVE FALSE
    OBVIOUS
  <2>1. ~Handshaking("server")
    BY <1>2, <1>7, <1>8
  <2>2. Writable("server")
    <3>1. Len(log["server"]) - Len(log["server"]) < SessCap
      BY <1>2
    <3> QED  BY <1>1, <1>3, <1>5, <2>1, <3>1 DEF Writable, Flushes
  <2> QED  BY <1>1, <1>4, <2>2 DEF CanStep
<1>10. read["client"] = wrote["client"]
  <2>1. Reading("server")
    BY <1>1, <1>3, <1>4, <1>9 DEF Reading
  <2> QED  BY <1>1, <1>5, <2>1, StuckRead
<1>11. wrote["client"] = Len(log["client"]) /\ Flushes("client")
  BY <1>1, <1>3, <1>10, StuckSent
<1>12. read["client"] < 3
  <2> SUFFICES ASSUME ~(read["client"] < 3) PROVE FALSE
    OBVIOUS
  <2>1. 3 \in 1 .. read["client"] /\ 3 <= 3 + Given("client")
    <3> DEFINE r == read["client"]  g == Given("client")
    <3>1. r \in Nat /\ ~(r < 3) /\ g \in Nat
      BY <1>2
    <3> HIDE DEF r, g
    <3>2. 3 \in 1 .. r /\ 3 <= 3 + g
      BY <3>1
    <3> QED  BY <3>2 DEF r, g
  <2>2. 3 \in Plain("server")
    BY <1>7, <2>1
  <2> QED  BY <1>9, <2>2
<1>13. state["client"] = "connect"
  <2>1. ~(Len(log["client"]) >= Base("client"))
    BY <1>1, <1>2, <1>10, <1>11, <1>12
  <2>2. state["client"] \notin {"request", "response", "tunnel"}
    BY <1>1, <2>1 DEF IInv, Pace
  <2> QED  BY <1>1, <1>3, <2>2 DEF IInv, TypeOK, States
<1>14. Handshaking("client") <=> read["server"] < 1
  BY <1>1, ReadIs DEF IInv
<1>15. CASE Handshaking("client")
  <2>1. Reading("client")
    BY <1>1, <1>3, <1>13, <1>15 DEF Reading
  <2>2. read["server"] = wrote["server"]
    BY <1>1, <1>11, <2>1, StuckRead
  <2>3. Len(log["server"]) = 0
    BY <1>2, <1>5, <1>14, <1>15, <2>2
  <2>4. read["client"] >= 1
    BY <1>10, <1>11 DEF IInv, Greeting
  <2> QED  BY <2>3, <2>4 DEF IInv, Greeting
<1>16. CASE ~Handshaking("client")
  <2>1. Writable("client")
    <3>1. Len(log["client"]) - Len(log["client"]) < SessCap
      BY <1>2
    <3> QED  BY <1>1, <1>3, <1>11, <1>16, <3>1 DEF Writable, Flushes
  <2> QED  BY <1>1, <1>13, <2>1 DEF CanStep
<1> QED  BY <1>15, <1>16

(* Nor does the response, or the start of a tunnel. *)
LEMMA StuckInTunnel ==
  ASSUME IInv, OpeningIs, \A d \in End : ~CanStep(d), NEW e \in End, state[e] \notin Ended
  PROVE  state[e] = "tunnel"
<1>1. /\ "client" \in End /\ "server" \in End /\ Base("client") = 3 /\ Base("server") = 2
  BY DEF End, Base
<1>2. /\ Len(log["client"]) \in Nat /\ read["client"] \in Nat /\ wrote["client"] \in Nat
      /\ read["client"] <= wrote["client"] /\ wrote["client"] <= Len(log["client"])
      /\ Len(log["server"]) \in Nat /\ read["server"] \in Nat /\ wrote["server"] \in Nat
      /\ WireCap \in Nat /\ WireCap >= 1
  BY <1>1, EndType, TlsTunnelAssumption DEF IInv
<1>3. Len(log["server"]) >= 2 /\ read["client"] >= 3
  BY ServerAnswers DEF OpeningIs
<1>4. Len(log["client"]) >= 3
  BY <1>2, <1>3
<1>5. read["server"] >= 1
  <2>1. Len(log["client"]) >= 2
    BY <1>2, <1>4
  <2> QED  BY <2>1 DEF IInv, Greeting
<1>6. ~(Len(log[e]) < Base(e))
  BY <1>1, <1>2, <1>3, <1>4 DEF End
<1>7. state[e] \notin {"connect", "accept"}
  BY <1>6 DEF IInv, Pace
<1>8. ASSUME state[e] \in {"request", "response"} PROVE FALSE
  <2>1. Len(log[e]) = Base(e)
    BY <1>8 DEF OpeningIs
  <2>2. wrote[e] # Len(log[e]) /\ wrote[e] = read[e] + WireCap /\ wrote[e] < Len(log[e])
    <3>1. wrote[e] # Len(log[e])
      BY <1>8 DEF CanStep
    <3> QED  BY <3>1, StuckSent
  <2>3. CASE e = "client"
    BY <1>1, <1>2, <1>3, <2>1, <2>2, <2>3
  <2>4. CASE e = "server"
    BY <1>1, <1>2, <1>5, <2>1, <2>2, <2>4
  <2> QED  BY <2>3, <2>4 DEF End
<1> QED  BY <1>7, <1>8 DEF IInv, TypeOK, States

(* The two ends stall only when both wires are full and both sessions hold *)
(* ciphertext that does not fit, whatever the capacities.                  *)
THEOREM StallIsSaturation == Spec => []StallsOnlyWhenSaturated
<1>1. IInv /\ OpeningIs => StallsOnlyWhenSaturated
  <2> SUFFICES ASSUME IInv, OpeningIs, \A d \in End : ~CanStep(d), NEW e \in End, UnderWay(e)
               PROVE  Saturated
    BY DEF StallsOnlyWhenSaturated
  <2> DEFINE o == Other(e)
  <2>1. o \in End /\ Other(o) = e /\ \A d \in End : d = e \/ d = o
    BY Ends
  <2>2. state[e] = "tunnel"
    BY StuckInTunnel DEF UnderWay
  <2>3. ~(/\ wrote[e] = Len(log[e]) /\ Plain(e) = {} /\ read[e] = wrote[e] /\ read[o] = wrote[o]
          /\ downBuf[e] = None /\ upBuf[e] = None /\ taken[e] = sent[e])
    <3>1. wrote[e] \in Nat /\ wrote[o] \in Nat /\ sent[e] \in Nat
      BY <2>1, EndType DEF IInv
    <3> QED  BY <3>1 DEF UnderWay
  <2>4. CASE state[o] \in Ended
    <3>1. shut[o]
      BY <2>1, <2>4 DEF IInv, ShutIs
    <3>2. read[e] = wrote[e]
      <4>1. read[e] <= wrote[e] /\ read[e] \in Nat /\ wrote[e] \in Nat
        BY EndType DEF IInv
      <4>2. ~(read[e] < wrote[e])
        BY <2>2, <2>4 DEF CanStep, Ended
      <4> QED  BY <4>1, <4>2
    <3>3. wrote[e] = Len(log[e])
      BY <2>2, <3>2, StuckSent DEF Ended
    <3>4. CASE eof[e]
      BY <2>2, <2>3, <3>2, <3>4, StuckAfterEnd
    <3>5. CASE ~eof[e]
      <4>1. read[o] = wrote[o] /\ ~AtEnd(e)
        BY <2>2, <3>3, <3>5, StuckBeforeEnd
      <4> QED  BY <3>1, <4>1 DEF AtEnd
    <3> QED  BY <3>4, <3>5
  <2>5. CASE state[o] \notin Ended
    <3>1. state[o] = "tunnel"
      BY <2>1, <2>5, StuckInTunnel
    <3>2. CASE eof[e] /\ eof[o]
      <4>1. read[e] = wrote[e]
        BY <2>1, <3>1, <3>2, StuckAfterEnd
      <4> QED  BY <2>2, <2>3, <3>2, <4>1, StuckAfterEnd
    <3>3. CASE eof[e] /\ ~eof[o]
      <4>1. read[o] = wrote[o]
        BY <2>2, <3>3, StuckAfterEnd
      <4>2. wrote[o] = Len(log[o])
        BY <2>1, <2>5, <4>1, StuckSent
      <4>3. read[e] = wrote[e]
        BY <2>1, <3>1, <3>3, <4>2, StuckBeforeEnd
      <4> QED  BY <2>2, <2>3, <3>3, <4>3, StuckAfterEnd
    <3>4. CASE ~eof[e] /\ eof[o]
      <4>1. read[e] = wrote[e]
        BY <2>1, <3>1, <3>4, StuckAfterEnd
      <4>2. wrote[e] = Len(log[e])
        BY <2>2, <4>1, StuckSent DEF Ended
      <4> QED  BY <2>2, <2>3, <3>4, <4>1, <4>2, StuckBeforeEnd
    <3>5. CASE ~eof[e] /\ ~eof[o]
      <4>1. wrote[e] = Len(log[e]) <=> wrote[o] = Len(log[o])
        <5>1. wrote[e] = Len(log[e]) => wrote[o] = Len(log[o])
          <6>1. wrote[e] = Len(log[e]) => read[o] = wrote[o]
            BY <2>2, <3>5, StuckBeforeEnd
          <6> QED  BY <2>1, <2>5, <6>1, StuckSent
        <5>2. wrote[o] = Len(log[o]) => wrote[e] = Len(log[e])
          <6>1. wrote[o] = Len(log[o]) => read[e] = wrote[e]
            BY <2>1, <3>1, <3>5, StuckBeforeEnd
          <6> QED  BY <2>2, <6>1, StuckSent DEF Ended
        <5> QED  BY <5>1, <5>2
      <4>2. CASE wrote[e] = Len(log[e])
        <5>1. read[e] = wrote[e]
          BY <2>1, <3>1, <3>5, <4>1, <4>2, StuckBeforeEnd
        <5> QED  BY <2>2, <2>3, <3>5, <4>2, <5>1, StuckBeforeEnd
      <4>3. CASE wrote[e] # Len(log[e])
        <5>1. wrote[e] = read[e] + WireCap /\ wrote[e] < Len(log[e])
          BY <2>2, <4>3, StuckSent DEF Ended
        <5>2. wrote[o] = read[o] + WireCap /\ wrote[o] < Len(log[o])
          BY <2>1, <2>5, <4>1, <4>3, StuckSent
        <5> QED  BY <2>1, <5>1, <5>2 DEF Saturated
      <4> QED  BY <4>2, <4>3
    <3> QED  BY <3>2, <3>3, <3>4, <3>5
  <2> QED  BY <2>4, <2>5
<1> QED  BY <1>1, Inductive, OpeningInductive, PTL
-----------------------------------------------------------------------------
(* Every step advances: no byte, record or place is ever given back.       *)

SentIs == \A e \in End : sent[e] <= MaxBytes[e]

LEMMA AtMostItself == \A n \in Nat : n <= n
OBVIOUS

LEMMA OneIs == \A b \in BOOLEAN : One(b) \in Nat /\ One(b) <= 1 /\ (b => One(b) = 1) /\ (~b => One(b) = 0)
BY DEF One

LEMMA UpRankIs ==
  /\ UpRank("copy") = 0 /\ UpRank("shutdown") = 1 /\ UpRank("done") = 2
  /\ \A a \in {"copy", "shutdown", "done"} : UpRank(a) \in Nat /\ UpRank(a) <= 2
BY DEF UpRank

LEMMA StateRankIs ==
  /\ \A s \in Ended : StateRank(s) = 3
  /\ StateRank("tunnel") = 2 /\ StateRank("request") = 1 /\ StateRank("response") = 1
  /\ StateRank("connect") = 0 /\ StateRank("accept") = 0
  /\ \A s \in States : StateRank(s) \in Nat /\ StateRank(s) <= 3 /\ (s \notin Ended => StateRank(s) <= 2)
<1>1. \A s \in Ended : StateRank(s) = 3
  BY DEF StateRank, Ended
<1>2. StateRank("tunnel") = 2
  BY DEF StateRank, Ended
<1>3. StateRank("request") = 1 /\ StateRank("response") = 1
  BY DEF StateRank, Ended
<1>4. StateRank("connect") = 0
  BY DEF StateRank, Ended
<1>5. StateRank("accept") = 0
  BY DEF StateRank, Ended
<1>6. \A s \in States : s \in Ended \/ s \in {"tunnel", "request", "response", "connect", "accept"}
  BY DEF States
<1> QED  BY <1>1, <1>2, <1>3, <1>4, <1>5, <1>6

(* Each of the three counts grows with any of its parts. *)
LEMMA SumBytes ==
  ASSUME TypeOK, TypeOK', NEW d \in End,
         sent[d] <= sent'[d], taken[d] <= taken'[d], Len(got[d]) <= Len(got'[d])
  PROVE  /\ Bytes(d) <= Bytes(d)'
         /\ sent[d] < sent'[d] \/ taken[d] < taken'[d] \/ Len(got[d]) < Len(got'[d]) => Bytes(d) < Bytes(d)'
<1> DEFINE a == sent[d]   b == taken[d]   c == Len(got[d])
           p == sent'[d]  q == taken'[d]  r == Len(got'[d])
<1>1. a \in Nat /\ b \in Nat /\ c \in Nat
  BY EndType
<1>2. p \in Nat /\ q \in Nat /\ r \in Nat
  BY DEF TypeOK
<1>3. Bytes(d) = a + b + c /\ Bytes(d)' = p + q + r
  BY DEF Bytes
<1>4. a <= p /\ b <= q /\ c <= r
  OBVIOUS
<1> DEFINE more == a < p \/ b < q \/ c < r
<1>5. (more => Bytes(d) < Bytes(d)') /\ Bytes(d) <= Bytes(d)'
  <2> HIDE DEF a, b, c, p, q, r
  <2> QED  BY ONLY <1>1, <1>2, <1>3, <1>4
<1> QED  BY <1>5

LEMMA SumRecords ==
  ASSUME TypeOK, TypeOK', NEW d \in End,
         Len(log[d]) <= Len(log'[d]), wrote[d] <= wrote'[d], read[d] <= read'[d], pos[d] <= pos'[d]
  PROVE  /\ Records(d) <= Records(d)'
         /\ \/ Len(log[d]) < Len(log'[d]) \/ wrote[d] < wrote'[d] \/ read[d] < read'[d] \/ pos[d] < pos'[d]
            => Records(d) < Records(d)'
<1> DEFINE a == Len(log[d])   b == wrote[d]   c == read[d]   f == pos[d]
           p == Len(log'[d])  q == wrote'[d]  r == read'[d]  s == pos'[d]
<1>1. a \in Nat /\ b \in Nat /\ c \in Nat /\ f \in Nat
  BY EndType
<1>2. p \in Nat /\ q \in Nat /\ r \in Nat /\ s \in Nat
  BY DEF TypeOK
<1>3. Records(d) = a + b + c + f /\ Records(d)' = p + q + r + s
  BY DEF Records
<1>4. a <= p /\ b <= q /\ c <= r /\ f <= s
  OBVIOUS
<1> DEFINE more == a < p \/ b < q \/ c < r \/ f < s
<1>5. (more => Records(d) < Records(d)') /\ Records(d) <= Records(d)'
  <2> HIDE DEF a, b, c, f, p, q, r, s
  <2> QED  BY ONLY <1>1, <1>2, <1>3, <1>4
<1> QED  BY <1>5

(* The places of an end, and what each of them can be. *)
LEMMA PlaceType ==
  ASSUME TypeOK, NEW d \in End
  PROVE  /\ One(closed[d]) \in Nat /\ One(closed[d]) <= 1 /\ One(eof[d]) \in Nat /\ One(eof[d]) <= 1
         /\ One(downAt[d] = "done") \in Nat /\ One(downAt[d] = "done") <= 1
         /\ UpRank(upAt[d]) \in Nat /\ UpRank(upAt[d]) <= 2
         /\ StateRank(state[d]) \in Nat /\ StateRank(state[d]) <= 3
<1>1. closed[d] \in BOOLEAN /\ eof[d] \in BOOLEAN /\ (downAt[d] = "done") \in BOOLEAN
  BY DEF TypeOK
<1>2. upAt[d] \in {"copy", "shutdown", "done"} /\ state[d] \in States
  BY DEF TypeOK
<1> QED  BY <1>1, <1>2, OneIs, UpRankIs, StateRankIs

LEMMA SumPlaces ==
  ASSUME TypeOK, TypeOK', NEW d \in End,
         One(closed[d]) <= One(closed'[d]), One(eof[d]) <= One(eof'[d]),
         One(downAt[d] = "done") <= One(downAt'[d] = "done"),
         UpRank(upAt[d]) <= UpRank(upAt'[d]), StateRank(state[d]) <= StateRank(state'[d])
  PROVE  /\ Places(d) <= Places(d)'
         /\ \/ One(closed[d]) < One(closed'[d]) \/ One(eof[d]) < One(eof'[d])
            \/ One(downAt[d] = "done") < One(downAt'[d] = "done")
            \/ UpRank(upAt[d]) < UpRank(upAt'[d]) \/ StateRank(state[d]) < StateRank(state'[d])
            => Places(d) < Places(d)'
<1> DEFINE a == One(closed[d])   b == One(eof[d])   c == One(downAt[d] = "done")
           f == UpRank(upAt[d])  g == StateRank(state[d])
           p == One(closed'[d])  q == One(eof'[d])  r == One(downAt'[d] = "done")
           s == UpRank(upAt'[d]) t == StateRank(state'[d])
<1>1. a \in Nat /\ b \in Nat /\ c \in Nat /\ f \in Nat /\ g \in Nat
  BY PlaceType
<1>2. p \in Nat /\ q \in Nat /\ r \in Nat /\ s \in Nat /\ t \in Nat
  <2>1. closed'[d] \in BOOLEAN /\ eof'[d] \in BOOLEAN /\ (downAt'[d] = "done") \in BOOLEAN
    BY DEF TypeOK
  <2>2. upAt'[d] \in {"copy", "shutdown", "done"} /\ state'[d] \in States
    BY DEF TypeOK
  <2> QED  BY <2>1, <2>2, OneIs, UpRankIs, StateRankIs
<1>3. Places(d) = a + b + c + f + g /\ Places(d)' = p + q + r + s + t
  BY DEF Places
<1>4. a <= p /\ b <= q /\ c <= r /\ f <= s /\ g <= t
  OBVIOUS
<1> DEFINE more == a < p \/ b < q \/ c < r \/ f < s \/ g < t
<1>5. (more => Places(d) < Places(d)') /\ Places(d) <= Places(d)'
  <2> HIDE DEF a, b, c, f, g, p, q, r, s, t
  <2> QED  BY ONLY <1>1, <1>2, <1>3, <1>4
<1> QED  BY <1>5

(* What is not touched counts the same. *)
LEMMA SameBytes == ASSUME TypeOK, TypeOK', NEW d \in End, UNCHANGED <<sent, taken, got>> PROVE Bytes(d) <= Bytes(d)'
BY EndType, SumBytes

LEMMA SameRecords ==
  ASSUME TypeOK, TypeOK', NEW d \in End, UNCHANGED <<log, wrote, read, pos>>
  PROVE  Records(d) <= Records(d)'
BY EndType, SumRecords

LEMMA PlacesStay ==
  ASSUME TypeOK, NEW d \in End
  PROVE  /\ closed' = closed => One(closed[d]) <= One(closed'[d])
         /\ eof' = eof => One(eof[d]) <= One(eof'[d])
         /\ downAt' = downAt => One(downAt[d] = "done") <= One(downAt'[d] = "done")
         /\ upAt' = upAt => UpRank(upAt[d]) <= UpRank(upAt'[d])
         /\ state' = state => StateRank(state[d]) <= StateRank(state'[d])
<1>1. /\ One(closed[d]) \in Nat /\ One(eof[d]) \in Nat /\ One(downAt[d] = "done") \in Nat
      /\ UpRank(upAt[d]) \in Nat /\ StateRank(state[d]) \in Nat
  BY PlaceType
<1>2. closed' = closed => One(closed[d]) <= One(closed'[d])
  BY ONLY <1>1, AtMostItself
<1>3. eof' = eof => One(eof[d]) <= One(eof'[d])
  BY ONLY <1>1, AtMostItself
<1>4. downAt' = downAt => One(downAt[d] = "done") <= One(downAt'[d] = "done")
  BY ONLY <1>1, AtMostItself
<1>5. upAt' = upAt => UpRank(upAt[d]) <= UpRank(upAt'[d])
  BY ONLY <1>1, AtMostItself
<1>6. state' = state => StateRank(state[d]) <= StateRank(state'[d])
  BY ONLY <1>1, AtMostItself
<1> QED  BY <1>2, <1>3, <1>4, <1>5, <1>6

LEMMA SamePlaces ==
  ASSUME TypeOK, TypeOK', NEW d \in End, UNCHANGED <<closed, eof, downAt, upAt, state>>
  PROVE  Places(d) <= Places(d)'
BY PlacesStay, SumPlaces

(* A step on which one count is ahead and none falls behind. *)
Ahead ==
  /\ \A d \in End : Bytes(d) <= Bytes(d)' /\ Records(d) <= Records(d)' /\ Places(d) <= Places(d)'
  /\ \E d \in End : Bytes(d) < Bytes(d)' \/ Records(d) < Records(d)' \/ Places(d) < Places(d)'

LEMMA CountType ==
  ASSUME TypeOK, NEW d \in End
  PROVE  Bytes(d) \in Nat /\ Records(d) \in Nat /\ Places(d) \in Nat
<1>1. Bytes(d) \in Nat /\ Records(d) \in Nat
  <2> DEFINE a == sent[d]      b == taken[d]  c == Len(got[d])
             p == Len(log[d])  q == wrote[d]  r == read[d]  t == pos[d]
  <2>1. a \in Nat /\ b \in Nat /\ c \in Nat /\ p \in Nat /\ q \in Nat /\ r \in Nat /\ t \in Nat
    BY EndType
  <2>2. Bytes(d) = a + b + c /\ Records(d) = p + q + r + t
    BY DEF Bytes, Records
  <2> HIDE DEF a, b, c, p, q, r, t
  <2> QED  BY ONLY <2>1, <2>2
<1>2. Places(d) \in Nat
  <2> DEFINE a == One(closed[d])  b == One(eof[d])  c == One(downAt[d] = "done")
             f == UpRank(upAt[d])  g == StateRank(state[d])
  <2>1. a \in Nat /\ b \in Nat /\ c \in Nat /\ f \in Nat /\ g \in Nat
    BY PlaceType
  <2>2. Places(d) = a + b + c + f + g
    BY DEF Places
  <2> HIDE DEF a, b, c, f, g
  <2> QED  BY ONLY <2>1, <2>2
<1> QED  BY <1>1, <1>2

LEMMA CountTypes == TypeOK => \A d \in End : Bytes(d) \in Nat /\ Records(d) \in Nat /\ Places(d) \in Nat
BY CountType

LEMMA AheadAdvances ==
  ASSUME TypeOK, TypeOK', Ahead
  PROVE  Progress < Progress' /\ Progress \in Nat
<1> DEFINE c == "client"  s == "server"
<1>1. c \in End /\ s \in End /\ \A d \in End : d = c \/ d = s
  BY DEF End
<1>2. \A d \in End : Bytes(d) \in Nat /\ Records(d) \in Nat /\ Places(d) \in Nat
  BY CountType
<1>3. \A d \in End : Bytes(d)' \in Nat /\ Records(d)' \in Nat /\ Places(d)' \in Nat
  <2>1. (TypeOK => \A d \in End : Bytes(d) \in Nat /\ Records(d) \in Nat /\ Places(d) \in Nat)'
    BY CountTypes, PTL
  <2> QED  BY <2>1
<1>4. /\ \A d \in End : Done(d) = Bytes(d) + Records(d) + Places(d) /\ Done(d)' = Bytes(d)' + Records(d)' + Places(d)'
      /\ Progress = Done(c) + Done(s) /\ Progress' = Done(c)' + Done(s)'
  BY DEF Done, Progress
<1>5. \A d \in End : Done(d) <= Done(d)' /\ Done(d) \in Nat /\ Done(d)' \in Nat
  BY <1>2, <1>3, <1>4 DEF Ahead
<1>6. \E d \in End : Done(d) < Done(d)'
  BY <1>2, <1>3, <1>4 DEF Ahead
<1> QED  BY ONLY <1>1, <1>4, <1>5, <1>6

(* What a flush does to the records of the two ends. *)
LEMMA FlushedAhead ==
  ASSUME TypeOK, NEW e \in End, NEW q \in Seq(Record), Len(log[e]) <= Len(q), Flushed(e, q)
  PROVE  /\ \A d \in End : Len(log[d]) <= Len(log'[d]) /\ wrote[d] <= wrote'[d]
         /\ Len(log'[e]) = Len(q) /\ wrote'[e] = Reach(e, Len(q))
<1>1. /\ log' = [log EXCEPT ![e] = q] /\ wrote' = [wrote EXCEPT ![e] = Reach(e, Len(q))]
      /\ log \in [End -> Seq(Record)] /\ wrote \in [End -> Nat]
  BY DEF Flushed, TypeOK
<1>2. /\ Len(q) \in Nat /\ wrote[e] <= Len(q)
  BY EndType
<1>3. wrote[e] <= Reach(e, Len(q))
  BY <1>2, ReachIs
<1>4. log'[e] = q /\ wrote'[e] = Reach(e, Len(q))
  BY <1>1
<1>5. \A d \in End : d # e => log'[d] = log[d] /\ wrote'[d] = wrote[d]
  BY <1>1
<1>6. ASSUME NEW d \in End PROVE Len(log[d]) <= Len(log'[d]) /\ wrote[d] <= wrote'[d]
  <2>1. CASE d = e
    BY <1>3, <1>4, <2>1
  <2>2. CASE d # e
    BY <1>5, <2>2, EndType
  <2> QED  BY <2>1, <2>2
<1> QED  BY <1>4, <1>6

(* The same session, one record more, or the answer of the handshake. *)
LEMMA NextLog ==
  ASSUME TypeOK, NEW e \in End
  PROVE  /\ log[e] \in Seq(Record) /\ Len(log[e]) <= Len(log[e])
         /\ \A x \in Record : Append(log[e], x) \in Seq(Record) /\ Len(log[e]) < Len(Append(log[e], x))
                             /\ Len(log[e]) <= Len(Append(log[e], x))
         /\ \A n : /\ log[e] \o Replies(e, n) \in Seq(Record)
                   /\ Len(log[e]) <= Len(log[e] \o Replies(e, n))
<1>1. log[e] \in Seq(Record) /\ Len(log[e]) \in Nat
  BY EndType
<1>2. \A x \in Record : Append(log[e], x) \in Seq(Record) /\ Len(Append(log[e], x)) = Len(log[e]) + 1
  BY <1>1, SeqAppend
<1>3. ASSUME NEW n
      PROVE  log[e] \o Replies(e, n) \in Seq(Record) /\ Len(log[e]) <= Len(log[e] \o Replies(e, n))
  <2>1. Replies(e, n) \in {<<Flight>>, <<Fin>>, <<>>}
    BY DEF Replies
  <2>2. \A x \in Record : log[e] \o <<x>> = Append(log[e], x) /\ log[e] \o <<>> = log[e]
    BY <1>1, SeqConcat
  <2>3. Flight \in Record /\ Fin \in Record
    BY Items
  <2>4. log[e] \o Replies(e, n) \in {Append(log[e], Flight), Append(log[e], Fin), log[e]}
    BY <2>1, <2>2, <2>3
  <2>5. \A q \in {Append(log[e], Flight), Append(log[e], Fin), log[e]} :
           q \in Seq(Record) /\ Len(log[e]) <= Len(q)
    <3>1. /\ Append(log[e], Flight) \in Seq(Record) /\ Len(Append(log[e], Flight)) = Len(log[e]) + 1
          /\ Append(log[e], Fin) \in Seq(Record) /\ Len(Append(log[e], Fin)) = Len(log[e]) + 1
      BY <1>2, <2>3
    <3> DEFINE a == Append(log[e], Flight)  b == Append(log[e], Fin)  c == log[e]
    <3> HIDE DEF a, b, c
    <3>2. a \in Seq(Record) /\ b \in Seq(Record) /\ c \in Seq(Record)
      BY <1>1, <3>1 DEF a, b, c
    <3>3. Len(c) <= Len(a) /\ Len(c) <= Len(b) /\ Len(c) <= Len(c)
      BY <1>1, <3>1 DEF a, b, c
    <3>4. \A q \in {a, b, c} : q \in Seq(Record) /\ Len(c) <= Len(q)
      BY ONLY <3>2, <3>3
    <3> QED  BY ONLY <3>4 DEF a, b, c
  <2> QED  BY ONLY <2>4, <2>5
<1> QED  BY <1>1, <1>2, <1>3

(* The applications and the copy loops. *)
LEMMA AppAhead ==
  ASSUME IInv, IInv', NEW e \in End, AppSend(e) \/ AppClose(e)
  PROVE  Ahead
<1>0. TypeOK /\ TypeOK'
  BY DEF IInv
<1>1. CASE AppSend(e)
  <2>1. UNCHANGED <<taken, got, log, wrote, read, pos, closed, eof, downAt, upAt, state>>
    BY <1>1 DEF AppSend, session, up, down
  <2>2. sent' = [sent EXCEPT ![e] = @ + 1] /\ sent \in [End -> Nat]
    BY <1>0, <1>1 DEF AppSend, TypeOK
  <2>3. sent[e] < sent'[e] /\ \A d \in End : sent[d] <= sent'[d]
    BY <2>2
  <2>4. \A d \in End : taken[d] <= taken'[d] /\ Len(got[d]) <= Len(got'[d])
    BY <1>0, <2>1, EndType
  <2>5. Bytes(e) < Bytes(e)' /\ \A d \in End : Bytes(d) <= Bytes(d)'
    BY <1>0, <2>3, <2>4, SumBytes
  <2>6. \A d \in End : Records(d) <= Records(d)' /\ Places(d) <= Places(d)'
    BY <1>0, <2>1, SameRecords, SamePlaces
  <2> QED  BY <2>5, <2>6 DEF Ahead
<1>2. CASE AppClose(e)
  <2>1. UNCHANGED <<sent, taken, got, log, wrote, read, pos, eof, downAt, upAt, state>>
    BY <1>2 DEF AppClose, session, up, down
  <2>2. closed' = [closed EXCEPT ![e] = TRUE] /\ closed \in [End -> BOOLEAN] /\ ~closed[e]
    BY <1>0, <1>2 DEF AppClose, TypeOK
  <2>3. One(closed[e]) = 0 /\ One(closed'[e]) = 1
    BY <2>2, OneIs
  <2>7. One(closed[e]) < One(closed'[e])
    BY ONLY <2>3
  <2>8. \A d \in End : One(closed[d]) <= One(closed'[d])
    <3> SUFFICES ASSUME NEW d \in End PROVE One(closed[d]) <= One(closed'[d])
      OBVIOUS
    <3>1. CASE d = e
      BY ONLY <2>3, <3>1
    <3>2. CASE d # e
      <4>1. closed'[d] = closed[d]
        BY <2>2, <3>2
      <4> QED  BY <1>0, <4>1, PlaceType, AtMostItself
    <3> QED  BY <3>1, <3>2
  <2>4. \A d \in End : /\ One(eof[d]) <= One(eof'[d]) /\ One(downAt[d] = "done") <= One(downAt'[d] = "done")
                       /\ UpRank(upAt[d]) <= UpRank(upAt'[d]) /\ StateRank(state[d]) <= StateRank(state'[d])
    BY <1>0, <2>1, PlacesStay
  <2>5. Places(e) < Places(e)' /\ \A d \in End : Places(d) <= Places(d)'
    BY <1>0, <2>4, <2>7, <2>8, SumPlaces
  <2>6. \A d \in End : Records(d) <= Records(d)' /\ Bytes(d) <= Bytes(d)'
    BY <1>0, <2>1, SameRecords, SameBytes
  <2> QED  BY <2>5, <2>6 DEF Ahead
<1> QED  BY <1>1, <1>2

(* A step that moves the state of an end on. *)
LEMMA StateAhead ==
  ASSUME IInv, IInv', NEW e \in End, NEW s \in States, StateRank(state[e]) < StateRank(s),
         state' = [state EXCEPT ![e] = s], UNCHANGED <<closed, eof, downAt, upAt>>
  PROVE  Places(e) < Places(e)' /\ \A d \in End : Places(d) <= Places(d)'
<1>0. TypeOK /\ TypeOK' /\ state \in [End -> States]
  BY DEF IInv, TypeOK
<1>1. StateRank(state[e]) < StateRank(state'[e]) /\ \A d \in End : d # e => state'[d] = state[d]
  BY <1>0
<1>2. \A d \in End : StateRank(state[d]) <= StateRank(state'[d])
  <2> SUFFICES ASSUME NEW d \in End PROVE StateRank(state[d]) <= StateRank(state'[d])
    OBVIOUS
  <2>1. StateRank(state[d]) \in Nat
    BY <1>0, PlaceType
  <2>2. CASE d = e
    <3>1. StateRank(state'[e]) \in Nat
      <4>1. state'[e] = s
        BY <1>0
      <4> QED  BY <4>1, StateRankIs
    <3> QED  BY ONLY <1>1, <2>1, <2>2, <3>1
  <2>3. CASE d # e
    BY <1>1, <2>1, <2>3, AtMostItself
  <2> QED  BY <2>2, <2>3
<1>3. \A d \in End : /\ One(closed[d]) <= One(closed'[d]) /\ One(eof[d]) <= One(eof'[d])
                     /\ One(downAt[d] = "done") <= One(downAt'[d] = "done") /\ UpRank(upAt[d]) <= UpRank(upAt'[d])
  BY <1>0, PlacesStay
<1> QED  BY <1>0, <1>1, <1>2, <1>3, SumPlaces

LEMMA UpAhead ==
  ASSUME IInv, IInv', NEW e \in End, NEW a \in {"copy", "shutdown", "done"}, UpRank(upAt[e]) < UpRank(a),
         upAt' = [upAt EXCEPT ![e] = a], UNCHANGED <<closed, eof, downAt, state>>
  PROVE  Places(e) < Places(e)' /\ \A d \in End : Places(d) <= Places(d)'
<1>0. TypeOK /\ TypeOK' /\ upAt \in [End -> {"copy", "shutdown", "done"}]
  BY DEF IInv, TypeOK
<1>1. UpRank(upAt[e]) < UpRank(upAt'[e]) /\ \A d \in End : d # e => upAt'[d] = upAt[d]
  BY <1>0
<1>2. \A d \in End : UpRank(upAt[d]) <= UpRank(upAt'[d])
  <2> SUFFICES ASSUME NEW d \in End PROVE UpRank(upAt[d]) <= UpRank(upAt'[d])
    OBVIOUS
  <2>1. UpRank(upAt[d]) \in Nat
    BY <1>0, PlaceType
  <2>2. CASE d = e
    <3>1. UpRank(upAt'[e]) \in Nat
      <4>1. upAt'[e] = a
        BY <1>0
      <4> QED  BY <4>1, UpRankIs
    <3> QED  BY ONLY <1>1, <2>1, <2>2, <3>1
  <2>3. CASE d # e
    BY <1>1, <2>1, <2>3, AtMostItself
  <2> QED  BY <2>2, <2>3
<1>3. \A d \in End : /\ One(closed[d]) <= One(closed'[d]) /\ One(eof[d]) <= One(eof'[d])
                     /\ One(downAt[d] = "done") <= One(downAt'[d] = "done")
                     /\ StateRank(state[d]) <= StateRank(state'[d])
  BY <1>0, PlacesStay
<1> QED  BY <1>0, <1>1, <1>2, <1>3, SumPlaces

(* The end of the inner stream, and of the copy that it ends. *)
LEMMA EofAhead ==
  ASSUME IInv, IInv', NEW e \in End, ~eof[e],
         eof' = [eof EXCEPT ![e] = TRUE], UNCHANGED <<closed, downAt, upAt, state>>
  PROVE  Places(e) < Places(e)' /\ \A d \in End : Places(d) <= Places(d)'
<1>0. TypeOK /\ TypeOK' /\ eof \in [End -> BOOLEAN]
  BY DEF IInv, TypeOK
<1>1. eof'[e] /\ \A d \in End : d # e => eof'[d] = eof[d]
  BY <1>0
<1>2. One(eof[e]) = 0 /\ One(eof'[e]) = 1
  BY <1>1 DEF One
<1>3. One(eof[e]) < One(eof'[e])
  BY ONLY <1>2
<1>4. \A d \in End : One(eof[d]) <= One(eof'[d])
  <2> SUFFICES ASSUME NEW d \in End PROVE One(eof[d]) <= One(eof'[d])
    OBVIOUS
  <2>1. CASE d = e
    BY ONLY <1>2, <2>1
  <2>2. CASE d # e
    BY <1>0, <1>1, <2>2, PlaceType, AtMostItself
  <2> QED  BY <2>1, <2>2
<1>5. \A d \in End : /\ One(closed[d]) <= One(closed'[d]) /\ One(downAt[d] = "done") <= One(downAt'[d] = "done")
                     /\ UpRank(upAt[d]) <= UpRank(upAt'[d]) /\ StateRank(state[d]) <= StateRank(state'[d])
  BY <1>0, PlacesStay
<1> QED  BY <1>0, <1>3, <1>4, <1>5, SumPlaces

LEMMA DownAhead ==
  ASSUME IInv, IInv', NEW e \in End, downAt[e] = "copy",
         downAt' = [downAt EXCEPT ![e] = "done"], UNCHANGED <<closed, eof, upAt, state>>
  PROVE  Places(e) < Places(e)' /\ \A d \in End : Places(d) <= Places(d)'
<1>0. TypeOK /\ TypeOK' /\ downAt \in [End -> {"copy", "done"}]
  BY DEF IInv, TypeOK
<1>1. downAt'[e] = "done" /\ \A d \in End : d # e => downAt'[d] = downAt[d]
  BY <1>0
<1>2. One(downAt[e] = "done") = 0 /\ One(downAt'[e] = "done") = 1
  BY <1>1 DEF One
<1>3. One(downAt[e] = "done") < One(downAt'[e] = "done")
  BY ONLY <1>2
<1>4. \A d \in End : One(downAt[d] = "done") <= One(downAt'[d] = "done")
  <2> SUFFICES ASSUME NEW d \in End PROVE One(downAt[d] = "done") <= One(downAt'[d] = "done")
    OBVIOUS
  <2>1. CASE d = e
    BY ONLY <1>2, <2>1
  <2>2. CASE d # e
    BY <1>0, <1>1, <2>2, PlaceType, AtMostItself
  <2> QED  BY <2>1, <2>2
<1>5. \A d \in End : /\ One(closed[d]) <= One(closed'[d]) /\ One(eof[d]) <= One(eof'[d])
                     /\ UpRank(upAt[d]) <= UpRank(upAt'[d]) /\ StateRank(state[d]) <= StateRank(state'[d])
  BY <1>0, PlacesStay
<1> QED  BY <1>0, <1>3, <1>4, <1>5, SumPlaces

(* What a session makes and flushes, and what is read of the other one. *)
LEMMA LogAhead ==
  ASSUME IInv, IInv', NEW e \in End, NEW q \in Seq(Record), Len(log[e]) <= Len(q), Flushed(e, q),
         \A d \in End : read[d] <= read'[d] /\ pos[d] <= pos'[d]
  PROVE  /\ \A d \in End : Records(d) <= Records(d)'
         /\ Len(log[e]) < Len(q) \/ wrote[e] < Reach(e, Len(q)) => Records(e) < Records(e)'
         /\ \A d \in End : read[d] < read'[d] \/ pos[d] < pos'[d] => Records(d) < Records(d)'
<1>0. TypeOK /\ TypeOK'
  BY DEF IInv
<1>1. /\ \A d \in End : Len(log[d]) <= Len(log'[d]) /\ wrote[d] <= wrote'[d]
      /\ Len(log'[e]) = Len(q) /\ wrote'[e] = Reach(e, Len(q))
  BY <1>0, FlushedAhead
<1> QED  BY <1>0, <1>1, SumRecords

LEMMA ReadStays ==
  ASSUME TypeOK, NEW d \in End
  PROVE  (read' = read => read[d] <= read'[d]) /\ (pos' = pos => pos[d] <= pos'[d])
BY EndType, AtMostItself

(* The next plaintext is further on. *)
LEMMA PosAhead ==
  ASSUME TypeOK, NEW e \in End, NEW i, NextPlain(e, i), pos' = [pos EXCEPT ![Other(e)] = i]
  PROVE  pos[Other(e)] < pos'[Other(e)] /\ \A d \in End : pos[d] <= pos'[d]
<1>1. Other(e) \in End /\ pos \in [End -> Nat] /\ read[Other(e)] \in Nat
  BY Ends DEF TypeOK
<1>2. i \in pos[Other(e)] + 1 .. read[Other(e)]
  BY DEF NextPlain, Plain
<1>3. pos'[Other(e)] = i /\ \A d \in End : d # Other(e) => pos'[d] = pos[d]
  BY <1>1
<1>4. pos[Other(e)] < i
  BY <1>1, <1>2
<1> QED  BY <1>1, <1>2, <1>3, <1>4

(* The dropped stream. *)
LEMMA DropAhead ==
  ASSUME IInv, IInv', NEW e \in End, Refuse(e) \/ UpWriteZero(e) \/ Finish(e) \/ Reset(e)
  PROVE  Ahead
<1>0. TypeOK /\ TypeOK' /\ state \in [End -> States]
  BY DEF IInv, TypeOK
<1>1. PICK s \in Ended : Drop(e, s)
  BY DEF Refuse, UpWriteZero, Finish, Reset, Ended
<1>2. state[e] \in States /\ state[e] \notin Ended
  BY <1>0 DEF Refuse, UpWriteZero, Finish, Reset, Ended
<1>3. /\ state' = [state EXCEPT ![e] = s]
      /\ UNCHANGED <<sent, taken, got, log, wrote, read, pos, closed, eof, downAt, upAt>>
  BY <1>1 DEF Drop, apps, session, up, down
<1>4. s \in States /\ StateRank(state[e]) < StateRank(s)
  <2>1. StateRank(s) = 3 /\ StateRank(state[e]) \in Nat /\ StateRank(state[e]) <= 2 /\ s \in States
    BY <1>1, <1>2, StateRankIs DEF States
  <2> QED  BY ONLY <2>1
<1>5. Places(e) < Places(e)' /\ \A d \in End : Places(d) <= Places(d)'
  BY <1>3, <1>4, StateAhead
<1>6. \A d \in End : Bytes(d) <= Bytes(d)' /\ Records(d) <= Records(d)'
  BY <1>0, <1>3, SameBytes, SameRecords
<1> QED  BY <1>5, <1>6 DEF Ahead

(* Before the tunnel. *)
LEMMA OpenAhead ==
  ASSUME IInv, IInv', NEW e \in End, Request(e) \/ Respond(e) \/ StartTunnel(e)
  PROVE  Ahead
<1>0. TypeOK /\ TypeOK'
  BY DEF IInv
<1>1. UNCHANGED <<sent, taken, got, closed, eof, downAt, upAt>>
  BY DEF Request, Respond, StartTunnel, apps, up, down
<1>2. \A d \in End : Bytes(d) <= Bytes(d)'
  BY <1>0, <1>1, SameBytes
<1>3. PICK s \in {"request", "response", "tunnel"} :
        state' = [state EXCEPT ![e] = s] /\ StateRank(state[e]) < StateRank(s)
  <2>1. CASE Request(e)
    <3>1. StateRank(state[e]) = 0 /\ StateRank("request") = 1
      BY <2>1, StateRankIs DEF Request
    <3>2. StateRank(state[e]) < StateRank("request")
      BY ONLY <3>1
    <3> QED  BY <2>1, <3>2 DEF Request
  <2>2. CASE Respond(e)
    <3>1. StateRank(state[e]) = 0 /\ StateRank("response") = 1
      BY <2>2, StateRankIs DEF Respond
    <3>2. StateRank(state[e]) < StateRank("response")
      BY ONLY <3>1
    <3> QED  BY <2>2, <3>2 DEF Respond
  <2>3. CASE StartTunnel(e)
    <3>1. StateRank(state[e]) = 1 /\ StateRank("tunnel") = 2
      BY <2>3, StateRankIs DEF StartTunnel
    <3>2. StateRank(state[e]) < StateRank("tunnel")
      BY ONLY <3>1
    <3> QED  BY <2>3, <3>2 DEF StartTunnel
  <2> QED  BY <2>1, <2>2, <2>3
<1>4. Places(e) < Places(e)' /\ \A d \in End : Places(d) <= Places(d)'
  <2>1. s \in States
    BY DEF States
  <2> QED  BY <1>1, <1>3, <2>1, StateAhead
<1>5. \A d \in End : Records(d) <= Records(d)'
  <2>1. CASE StartTunnel(e)
    BY <1>0, <2>1, SameRecords DEF StartTunnel, session
  <2>2. CASE Request(e) \/ Respond(e)
    <3>1. Flushed(e, Append(log[e], Header)) /\ read' = read
      BY <2>2 DEF Request, Respond, PollWrite
    <3>2. \A d \in End : pos[d] <= pos'[d]
      <4>1. CASE Request(e)
        BY <1>0, <4>1, ReadStays DEF Request
      <4>2. CASE Respond(e)
        BY <1>0, <4>2, PosAhead DEF Respond
      <4> QED  BY <2>2, <4>1, <4>2
    <3>3. /\ Append(log[e], Header) \in Seq(Record)
          /\ Len(log[e]) <= Len(Append(log[e], Header))
      BY <1>0, Items, NextLog, EndType
    <3>4. \A d \in End : read[d] <= read'[d]
      BY <1>0, <3>1, ReadStays
    <3> QED  BY <3>1, <3>2, <3>3, <3>4, LogAhead
  <2> QED  BY <2>1, <2>2
<1> QED  BY <1>2, <1>4, <1>5 DEF Ahead

(* Flushes, and reads of the inner stream. *)
LEMMA FlushAhead == ASSUME IInv, IInv', NEW e \in End, Flush(e) \/ DriveEof(e) PROVE Ahead
<1>0. TypeOK /\ TypeOK'
  BY DEF IInv
<1>1. UNCHANGED <<sent, taken, got, read, pos, closed, downAt, upAt, state>> /\ Flushed(e, log[e])
  BY DEF Flush, DriveEof, apps, up, down
<1>2. /\ \A d \in End : Bytes(d) <= Bytes(d)'
      /\ \A d \in End : read[d] <= read'[d] /\ pos[d] <= pos'[d]
  BY <1>0, <1>1, SameBytes, ReadStays
<1>3. log[e] \in Seq(Record) /\ Len(log[e]) <= Len(log[e])
  BY <1>0, NextLog
<1>4. /\ \A d \in End : Records(d) <= Records(d)'
      /\ wrote[e] < Reach(e, Len(log[e])) => Records(e) < Records(e)'
  BY <1>1, <1>2, <1>3, LogAhead
<1>5. CASE Flush(e)
  <2>1. eof' = eof /\ wrote[e] < Reach(e, Len(log[e]))
    BY <1>5 DEF Flush
  <2>2. \A d \in End : Places(d) <= Places(d)'
    BY <1>0, <1>1, <2>1, SamePlaces
  <2> QED  BY <1>2, <1>4, <2>1, <2>2 DEF Ahead
<1>6. CASE DriveEof(e)
  <2>1. eof' = [eof EXCEPT ![e] = TRUE] /\ ~eof[e]
    BY <1>6 DEF DriveEof, ReadsTls, Reading
  <2>2. Places(e) < Places(e)' /\ \A d \in End : Places(d) <= Places(d)'
    BY <1>1, <2>1, EofAhead
  <2> QED  BY <1>2, <1>4, <2>2 DEF Ahead
<1> QED  BY <1>5, <1>6

LEMMA DriveAhead == ASSUME IInv, IInv', NEW e \in End, NEW k \in 1 .. WireCap, Drive(e, k) PROVE Ahead
<1> DEFINE o == Other(e)  n == read[o] + k  q == log[e] \o Replies(e, n)
<1>0. TypeOK /\ TypeOK' /\ o \in End /\ read \in [End -> Nat]
  BY Ends DEF IInv, TypeOK
<1>1. /\ UNCHANGED <<sent, taken, got, pos, closed, eof, downAt, upAt, state>>
      /\ Flushed(e, q) /\ read' = [read EXCEPT ![o] = n]
  BY DEF Drive, apps, up, down
<1>2. \A d \in End : Bytes(d) <= Bytes(d)' /\ Places(d) <= Places(d)'
  BY <1>0, <1>1, SameBytes, SamePlaces
<1>3. q \in Seq(Record) /\ Len(log[e]) <= Len(q)
  BY <1>0, NextLog
<1>4. read[o] < n
  <2>1. read[o] \in Nat /\ k \in Nat /\ k >= 1
    BY <1>0, TlsTunnelAssumption
  <2> QED  BY ONLY <2>1 DEF n
<1> HIDE DEF n, q
<1>5. read[o] < read'[o] /\ \A d \in End : read[d] <= read'[d]
  <2>1. read'[o] = n /\ \A d \in End : d # o => read'[d] = read[d]
    BY <1>0, <1>1
  <2>2. \A d \in End : d # o => read[d] <= read'[d]
    BY <1>0, <2>1, EndType
  <2>3. n \in Nat
    <3>1. read[o] \in Nat /\ k \in Nat
      BY <1>0, TlsTunnelAssumption
    <3> QED  BY ONLY <3>1 DEF n
  <2>4. read[o] <= n
    <3>1. read[o] \in Nat
      BY <1>0
    <3> QED  BY ONLY <1>4, <2>3, <3>1
  <2> QED  BY <1>4, <2>1, <2>2, <2>4
<1>6. \A d \in End : pos[d] <= pos'[d]
  BY <1>0, <1>1, ReadStays
<1>7. Records(o) < Records(o)' /\ \A d \in End : Records(d) <= Records(d)'
  BY <1>0, <1>1, <1>3, <1>5, <1>6, LogAhead
<1> QED  BY <1>0, <1>2, <1>7 DEF Ahead

(* The copy from the application. *)
LEMMA UpReadAhead == ASSUME IInv, IInv', NEW e \in End, UpRead(e) PROVE Ahead
<1>0. TypeOK /\ TypeOK' /\ taken \in [End -> Nat]
  BY DEF IInv, TypeOK
<1>1. /\ UNCHANGED <<sent, got, log, wrote, read, pos, closed, eof, downAt, upAt, state>>
      /\ taken' = [taken EXCEPT ![e] = @ + 1]
  BY DEF UpRead, apps, session, down
<1>2. \A d \in End : Records(d) <= Records(d)' /\ Places(d) <= Places(d)'
  BY <1>0, <1>1, SameRecords, SamePlaces
<1>3. taken[e] < taken'[e] /\ \A d \in End : taken[d] <= taken'[d]
  BY <1>0, <1>1
<1>4. \A d \in End : sent[d] <= sent'[d] /\ Len(got[d]) <= Len(got'[d])
  BY <1>0, <1>1, EndType
<1>5. Bytes(e) < Bytes(e)' /\ \A d \in End : Bytes(d) <= Bytes(d)'
  BY <1>0, <1>3, <1>4, SumBytes
<1> QED  BY <1>2, <1>5 DEF Ahead

LEMMA UpWriteAhead == ASSUME IInv, IInv', NEW e \in End, UpWrite(e) PROVE Ahead
<1>0. TypeOK /\ TypeOK' /\ upBuf[e] \in Nat
  BY EndType DEF IInv
<1> DEFINE q == Append(log[e], Data(upBuf[e]))
<1>1. UNCHANGED <<sent, taken, got, read, pos, closed, eof, downAt, upAt, state>> /\ Flushed(e, q)
  BY DEF UpWrite, PollWrite, apps, down
<1>2. \A d \in End : Bytes(d) <= Bytes(d)' /\ Places(d) <= Places(d)'
  BY <1>0, <1>1, SameBytes, SamePlaces
<1>3. q \in Seq(Record) /\ Len(log[e]) < Len(q) /\ Len(log[e]) <= Len(q)
  BY <1>0, Items, NextLog
<1>4. \A d \in End : read[d] <= read'[d] /\ pos[d] <= pos'[d]
  BY <1>0, <1>1, ReadStays
<1>5. Records(e) < Records(e)' /\ \A d \in End : Records(d) <= Records(d)'
  BY <1>1, <1>3, <1>4, LogAhead
<1> QED  BY <1>2, <1>5 DEF Ahead

LEMMA UpEndAhead ==
  ASSUME IInv, IInv', NEW e \in End, UpEofAfterPeer(e) \/ UpFinish(e) \/ UpShutdown(e)
  PROVE  Ahead
<1>0. TypeOK /\ TypeOK'
  BY DEF IInv
<1>1. UNCHANGED <<sent, taken, got, read, pos, closed, eof, downAt, state>>
  BY DEF UpEofAfterPeer, UpFinish, UpShutdown, apps, session, down
<1>2. PICK a \in {"shutdown", "done"} : upAt' = [upAt EXCEPT ![e] = a] /\ UpRank(upAt[e]) < UpRank(a)
  <2>1. CASE UpFinish(e)
    <3>1. \E a \in {"shutdown", "done"} : upAt' = [upAt EXCEPT ![e] = a]
      BY <2>1 DEF UpFinish
    <3>2. UpRank(upAt[e]) = 0 /\ UpRank("shutdown") = 1 /\ UpRank("done") = 2
      BY <2>1, UpRankIs DEF UpFinish
    <3>3. UpRank(upAt[e]) < UpRank("shutdown") /\ UpRank(upAt[e]) < UpRank("done")
      BY ONLY <3>2
    <3> QED  BY <3>1, <3>3
  <2>2. CASE UpEofAfterPeer(e) \/ UpShutdown(e)
    <3>1. upAt' = [upAt EXCEPT ![e] = "done"] /\ upAt[e] \in {"copy", "shutdown"}
      BY <2>2 DEF UpEofAfterPeer, UpShutdown
    <3>2. UpRank(upAt[e]) \in {0, 1} /\ UpRank("done") = 2
      BY <3>1, UpRankIs
    <3>3. UpRank(upAt[e]) < UpRank("done")
      BY ONLY <3>2
    <3> QED  BY <3>1, <3>3
  <2> QED  BY <2>1, <2>2
<1>3. Places(e) < Places(e)' /\ \A d \in End : Places(d) <= Places(d)'
  <2>1. a \in {"copy", "shutdown", "done"}
    OBVIOUS
  <2> QED  BY <1>1, <1>2, <2>1, UpAhead
<1>4. \A d \in End : Bytes(d) <= Bytes(d)'
  BY <1>0, <1>1, SameBytes
<1>5. \A d \in End : Records(d) <= Records(d)'
  <2>1. CASE UpEofAfterPeer(e)
    BY <1>0, <1>1, <2>1, SameRecords DEF UpEofAfterPeer, session
  <2>2. CASE UpFinish(e) \/ UpShutdown(e)
    <3>1. PICK q \in {log[e], Append(log[e], Notify)} : Flushed(e, q)
      BY <2>2 DEF UpFinish, UpShutdown
    <3>2. q \in Seq(Record) /\ Len(log[e]) <= Len(q)
      BY <1>0, Items, NextLog
    <3>3. \A d \in End : read[d] <= read'[d] /\ pos[d] <= pos'[d]
      BY <1>0, <1>1, ReadStays
    <3> QED  BY <3>1, <3>2, <3>3, LogAhead
  <2> QED  BY <2>1, <2>2
<1> QED  BY <1>3, <1>4, <1>5 DEF Ahead

(* The copy to the application. *)
LEMMA DownReadAhead == ASSUME IInv, IInv', NEW e \in End, DownRead(e) PROVE Ahead
<1>0. TypeOK /\ TypeOK' /\ Other(e) \in End
  BY Ends DEF IInv
<1>1. UNCHANGED <<sent, taken, got, log, wrote, read, closed, eof, downAt, upAt, state>>
  BY DEF DownRead, apps, session, up
<1>2. \A d \in End : Bytes(d) <= Bytes(d)' /\ Places(d) <= Places(d)'
  BY <1>0, <1>1, SameBytes, SamePlaces
<1>3. pos[Other(e)] < pos'[Other(e)] /\ \A d \in End : pos[d] <= pos'[d]
  BY <1>0, PosAhead DEF DownRead
<1>4. \A d \in End : Len(log[d]) <= Len(log'[d]) /\ wrote[d] <= wrote'[d] /\ read[d] <= read'[d]
  BY <1>0, <1>1, EndType
<1>5. Records(Other(e)) < Records(Other(e))' /\ \A d \in End : Records(d) <= Records(d)'
  BY <1>0, <1>3, <1>4, SumRecords
<1> QED  BY <1>0, <1>2, <1>5 DEF Ahead

LEMMA DownWriteAhead == ASSUME IInv, IInv', NEW e \in End, DownWrite(e) PROVE Ahead
<1>0. TypeOK /\ TypeOK' /\ got \in [End -> Seq(Nat)] /\ downBuf[e] \in Nat
  BY EndType DEF IInv, TypeOK
<1>1. /\ UNCHANGED <<sent, taken, log, wrote, read, pos, closed, eof, downAt, upAt, state>>
      /\ got' = [got EXCEPT ![e] = Append(@, downBuf[e])]
  BY DEF DownWrite, session, up
<1>2. \A d \in End : Records(d) <= Records(d)' /\ Places(d) <= Places(d)'
  BY <1>0, <1>1, SameRecords, SamePlaces
<1>3. Len(got[e]) < Len(got'[e]) /\ \A d \in End : Len(got[d]) <= Len(got'[d])
  <2>1. got'[e] = Append(got[e], downBuf[e]) /\ \A d \in End : d # e => got'[d] = got[d]
    BY <1>0, <1>1
  <2>2. Len(Append(got[e], downBuf[e])) = Len(got[e]) + 1 /\ \A d \in End : Len(got[d]) \in Nat
    BY <1>0, SeqAppend, EndType
  <2>3. Len(got[e]) < Len(got'[e]) /\ Len(got[e]) <= Len(got'[e])
    BY <2>1, <2>2
  <2>4. \A d \in End : d # e => Len(got[d]) <= Len(got'[d])
    BY <2>1, <2>2, AtMostItself
  <2> QED  BY <2>3, <2>4
<1>4. \A d \in End : sent[d] <= sent'[d] /\ taken[d] <= taken'[d]
  BY <1>0, <1>1, EndType
<1>5. Bytes(e) < Bytes(e)' /\ \A d \in End : Bytes(d) <= Bytes(d)'
  BY <1>0, <1>3, <1>4, SumBytes
<1> QED  BY <1>2, <1>5 DEF Ahead

LEMMA DownEofAhead == ASSUME IInv, IInv', NEW e \in End, DownEof(e) PROVE Ahead
<1>0. TypeOK /\ TypeOK'
  BY DEF IInv
<1>1. /\ UNCHANGED <<sent, taken, got, log, wrote, read, pos, closed, eof, upAt, state>>
      /\ downAt[e] = "copy" /\ downAt' = [downAt EXCEPT ![e] = "done"]
  BY DEF DownEof, session, up
<1>2. Places(e) < Places(e)' /\ \A d \in End : Places(d) <= Places(d)'
  BY <1>1, DownAhead
<1>3. \A d \in End : Bytes(d) <= Bytes(d)' /\ Records(d) <= Records(d)'
  BY <1>0, <1>1, SameBytes, SameRecords
<1> QED  BY <1>2, <1>3 DEF Ahead

LEMMA NextAhead == ASSUME IInv, IInv', Next PROVE Ahead
<1>1. ASSUME NEW e \in End, AppSend(e) \/ AppClose(e) PROVE Ahead
  BY <1>1, AppAhead
<1>2. ASSUME NEW e \in End, Refuse(e) \/ UpWriteZero(e) \/ Finish(e) \/ Reset(e) PROVE Ahead
  BY <1>2, DropAhead
<1>3. ASSUME NEW e \in End, Flush(e) \/ DriveEof(e) PROVE Ahead
  BY <1>3, FlushAhead
<1>4. ASSUME NEW e \in End, NEW k \in 1 .. WireCap, Drive(e, k) PROVE Ahead
  BY <1>4, DriveAhead
<1>5. ASSUME NEW e \in End, Request(e) \/ Respond(e) \/ StartTunnel(e) PROVE Ahead
  BY <1>5, OpenAhead
<1>6. ASSUME NEW e \in End, UpRead(e) \/ UpWrite(e) PROVE Ahead
  BY <1>6, UpReadAhead, UpWriteAhead
<1>7. ASSUME NEW e \in End, UpEofAfterPeer(e) \/ UpFinish(e) \/ UpShutdown(e) PROVE Ahead
  BY <1>7, UpEndAhead
<1>8. ASSUME NEW e \in End, DownRead(e) \/ DownWrite(e) \/ DownEof(e) PROVE Ahead
  BY <1>8, DownReadAhead, DownWriteAhead, DownEofAhead
<1> QED  BY <1>1, <1>2, <1>3, <1>4, <1>5, <1>6, <1>7, <1>8 DEF Next, Step

(* An application sends no more than it has. *)
LEMMA SentInductive == Spec => []SentIs
<1>1. Init => SentIs
  BY TlsTunnelAssumption DEF Init, SentIs
<1>2. IInv /\ SentIs /\ [Next]_vars => SentIs'
  <2> SUFFICES ASSUME IInv, SentIs, [Next]_vars PROVE SentIs'
    OBVIOUS
  <2>1. CASE sent' = sent
    BY <2>1 DEF SentIs
  <2>2. ASSUME NEW e \in End, AppSend(e) PROVE SentIs'
    <3>1. sent' = [sent EXCEPT ![e] = @ + 1] /\ sent[e] < MaxBytes[e] /\ sent \in [End -> Nat]
      BY <2>2 DEF AppSend, IInv, TypeOK
    <3>2. sent'[e] <= MaxBytes[e]
      <4>1. sent'[e] = sent[e] + 1 /\ sent[e] \in Nat /\ MaxBytes[e] \in Nat
        BY <3>1, TlsTunnelAssumption
      <4> QED  BY ONLY <3>1, <4>1
    <3>3. \A d \in End : d # e => sent'[d] = sent[d]
      BY <3>1
    <3> QED  BY <3>2, <3>3 DEF SentIs
  <2>3. ASSUME NEW e \in End, \/ AppClose(e) \/ Refuse(e) \/ Flush(e) \/ DriveEof(e)
                              \/ (\E k \in 1 .. WireCap : Drive(e, k))
                              \/ Request(e) \/ Respond(e) \/ StartTunnel(e)
        PROVE  sent' = sent
    BY <2>3 DEF AppClose, Refuse, Drop, Flush, DriveEof, Drive, Request, Respond, StartTunnel, apps
  <2>4. ASSUME NEW e \in End, \/ UpRead(e) \/ UpWrite(e) \/ UpWriteZero(e) \/ UpEofAfterPeer(e)
                              \/ UpFinish(e) \/ UpShutdown(e)
        PROVE  sent' = sent
    BY <2>4 DEF UpRead, UpWrite, UpWriteZero, UpEofAfterPeer, UpFinish, UpShutdown, Drop, apps
  <2>5. ASSUME NEW e \in End, DownRead(e) \/ DownWrite(e) \/ DownEof(e) \/ Finish(e) \/ Reset(e)
        PROVE  sent' = sent
    BY <2>5 DEF DownRead, DownWrite, DownEof, Finish, Reset, Drop, apps
  <2>6. CASE UNCHANGED vars
    BY <2>6 DEF vars, apps, SentIs
  <2> QED  BY <2>1, <2>2, <2>3, <2>4, <2>5, <2>6 DEF Next, Step
<1> QED  BY <1>1, <1>2, Inductive, PTL DEF Spec

(* What an end can do at most. *)
LEMMA DoneIs ==
  ASSUME IInv, SentIs, NEW e \in End
  PROVE  /\ Done(e) \in Nat
         /\ Done(e) <= 6 * MaxBytes[e] + MaxBytes[Other(e)] + 4 * Base(e) + 12
<1> DEFINE m == MaxBytes[e]  n == MaxBytes[Other(e)]  b == Base(e)
<1>1. m \in Nat /\ n \in Nat /\ b \in Nat /\ Other(e) \in End
  BY Ends, TlsTunnelAssumption
<1>2. Bytes(e) \in Nat /\ Bytes(e) <= m + m + n
  <2> DEFINE g == Len(got[e])
  <2>1. sent[e] \in Nat /\ taken[e] \in Nat /\ g \in Nat /\ sent[Other(e)] \in Nat
    BY <1>1, EndType DEF IInv
  <2>2. sent[e] <= m /\ taken[e] <= sent[e] /\ sent[Other(e)] <= n
    BY <1>1 DEF SentIs, IInv, Pace
  <2>3. g <= sent[Other(e)]
    BY GotIsPrefix
  <2>4. Bytes(e) = sent[e] + taken[e] + g
    BY DEF Bytes
  <2> HIDE DEF g, m, n
  <2> QED  BY ONLY <1>1, <2>1, <2>2, <2>3, <2>4
<1>3. Records(e) \in Nat /\ Records(e) <= 4 * (b + m + 1)
  <2> DEFINE l == Len(log[e])  g == Given(e)
  <2>1. /\ l \in Nat /\ wrote[e] \in Nat /\ read[e] \in Nat /\ pos[e] \in Nat
        /\ pos[e] <= read[e] /\ read[e] <= wrote[e] /\ wrote[e] <= l
    BY EndType DEF IInv
  <2>2. g \in Nat /\ l <= b + g + 1
    <3> DEFINE k == IF upAt[e] = "copy" THEN 0 ELSE 1
    <3>1. g \in Nat /\ l <= b + g + k
      BY GivenType DEF IInv, Pace
    <3>2. k \in {0, 1}
      OBVIOUS
    <3> HIDE DEF g, l, b, k
    <3> QED  BY ONLY <1>1, <2>1, <3>1, <3>2
  <2>3. g <= m
    <3>1. taken[e] <= m /\ taken[e] \in Nat
      <4>1. sent[e] <= m /\ taken[e] <= sent[e] /\ sent[e] \in Nat /\ taken[e] \in Nat
        BY EndType DEF SentIs, IInv, Pace
      <4> HIDE DEF m
      <4> QED  BY ONLY <1>1, <4>1
    <3>2. g = taken[e] \/ g = taken[e] - 1
      BY DEF Given
    <3> HIDE DEF g, m
    <3> QED  BY ONLY <1>1, <3>1, <3>2
  <2>4. Records(e) = l + wrote[e] + read[e] + pos[e]
    BY DEF Records
  <2> HIDE DEF l, g, m, b
  <2> QED  BY ONLY <1>1, <2>1, <2>2, <2>3, <2>4
<1>4. Places(e) \in Nat /\ Places(e) <= 8
  <2> DEFINE p == One(closed[e])   q == One(eof[e])  r == One(downAt[e] = "done")
             s == UpRank(upAt[e])  t == StateRank(state[e])
  <2>1. /\ p \in Nat /\ p <= 1 /\ q \in Nat /\ q <= 1 /\ r \in Nat /\ r <= 1
        /\ s \in Nat /\ s <= 2 /\ t \in Nat /\ t <= 3
    BY PlaceType DEF IInv
  <2>2. Places(e) = p + q + r + s + t
    BY DEF Places
  <2> HIDE DEF p, q, r, s, t
  <2> QED  BY ONLY <2>1, <2>2
<1>5. Done(e) = Bytes(e) + Records(e) + Places(e)
  BY DEF Done
<1>6. Done(e) \in Nat /\ Done(e) <= 6 * m + n + 4 * b + 12
  <2> HIDE DEF m, n, b
  <2> QED  BY ONLY <1>1, <1>2, <1>3, <1>4, <1>5
<1> QED  BY <1>6

LEMMA ProgressIs == ASSUME IInv, SentIs PROVE Progress <= Total
<1> DEFINE m == MaxBytes["client"]  n == MaxBytes["server"]
           c == Done("client")      s == Done("server")
<1>1. /\ "client" \in End /\ Other("client") = "server" /\ Base("client") = 3
      /\ "server" \in End /\ Other("server") = "client" /\ Base("server") = 2
  BY DEF End, Other, Base
<1>2. m \in Nat /\ n \in Nat
  BY <1>1, TlsTunnelAssumption
<1>3. c \in Nat /\ c <= 6 * m + n + 4 * 3 + 12
  BY <1>1, DoneIs
<1>4. s \in Nat /\ s <= 6 * n + m + 4 * 2 + 12
  BY <1>1, DoneIs
<1>5. Progress = c + s /\ Total = 7 * (m + n) + 44
  BY DEF Progress, Total
<1> HIDE DEF m, n, c, s
<1> QED  BY ONLY <1>2, <1>3, <1>4, <1>5

(* Every step of the two ends is one of the Total steps there can be: no   *)
(* poll of copy_bidirectional or of a TlsStream repeats another.           *)
THEOREM TunnelsRunDown == Spec => EveryStepAdvances
<1>1. IInv /\ IInv' /\ SentIs' /\ [Next]_vars => [Progress < Progress' /\ Progress' <= Total]_vars
  <2> SUFFICES ASSUME IInv, IInv', SentIs', Next PROVE Progress < Progress' /\ Progress' <= Total
    OBVIOUS
  <2>1. TypeOK /\ TypeOK'
    BY DEF IInv
  <2>2. Progress < Progress'
    BY <2>1, NextAhead, AheadAdvances
  <2>3. Progress' <= Total
    <3>1. (IInv /\ SentIs => Progress <= Total)'
      BY ProgressIs, PTL
    <3> QED  BY <3>1 DEF Total
  <2> QED  BY <2>2, <2>3
<1> QED  BY <1>1, Inductive, SentInductive, PTL DEF Spec, EveryStepAdvances
=============================================================================
