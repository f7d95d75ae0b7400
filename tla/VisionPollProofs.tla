--------------------------- MODULE VisionPollProofs ---------------------------
(***************************************************************************)
(* What VisionPoll's runs check on small instances, proved for any number  *)
(* of items and silent records and any capacities.                         *)
(***************************************************************************)
EXTENDS VisionPoll, TLAPS

-----------------------------------------------------------------------------
(* Types: what the updates of the records keep. *)

LEMMA SeqAppend ==
  ASSUME NEW S, NEW s \in Seq(S), NEW x \in S
  PROVE  Append(s, x) \in Seq(S) /\ Len(Append(s, x)) = Len(s) + 1
OBVIOUS

LEMMA AppGot ==
  ASSUME NEW a \in Apps, NEW v \in Nat
  PROVE  [a EXCEPT !.got = Append(@, v)] \in Apps
<1> DEFINE g == Append(a.got, v)
<1>1. a.got \in Items
  BY DEF Apps
<1>2. g \in Items
  BY <1>1, SeqAppend DEF Items
<1> HIDE DEF g
<1>3. [a EXCEPT !.got = g] \in Apps
  BY <1>2 DEF Apps
<1> QED  BY <1>3 DEF g

LEMMA AppUpdates ==
  ASSUME NEW a \in Apps
  PROVE  /\ a.sent < MaxUp => [a EXCEPT !.sent = @ + 1] \in Apps
         /\ [a EXCEPT !.closed = TRUE] \in Apps
         /\ [a EXCEPT !.eof = TRUE] \in Apps
<1>1. a.sent < MaxUp => a.sent + 1 \in 1 .. MaxUp
  BY VisionPollAssumption DEF Apps
<1> QED  BY <1>1 DEF Apps

LEMMA PeerUpdates ==
  ASSUME NEW p \in Peers
  PROVE  /\ p.sent < MaxDown => [p EXCEPT !.sent = @ + 1] \in Peers
         /\ p.silent < MaxSilent => [p EXCEPT !.silent = @ + 1] \in Peers
         /\ [p EXCEPT !.shut = TRUE] \in Peers
<1>1. /\ p.sent < MaxDown => p.sent + 1 \in 0 .. MaxDown
      /\ p.silent < MaxSilent => p.silent + 1 \in 0 .. MaxSilent
  BY VisionPollAssumption DEF Peers
<1> QED  BY <1>1 DEF Peers

LEMMA PeerGets ==
  ASSUME NEW p \in Peers, NEW g \in Items
  PROVE  [p EXCEPT !.took = @ + 1, !.got = g] \in Peers
<1>1. p.took + 1 \in Nat
  BY DEF Peers
<1> QED  BY <1>1 DEF Peers

LEMMA WakeType ==
  ASSUME task \in Tasks, NEW e, Wake(e)
  PROVE  task' \in Tasks
BY DEF Tasks, Wake

LEMMA TaskUpdates ==
  ASSUME NEW t \in Tasks, NEW a \in {"up", "down", "parked"} \cup Ended,
         NEW w \in SUBSET {"app", "in", "out"}
  PROVE  /\ [t EXCEPT !.at = a] \in Tasks
         /\ [t EXCEPT !.at = a, !.woken = FALSE] \in Tasks
         /\ [t EXCEPT !.at = a, !.wakers = @ \cup w] \in Tasks
         /\ [t EXCEPT !.at = a, !.wakers = w] \in Tasks
BY DEF Tasks

(* What a drain of n records does to the fields. *)
LEMMA DrainType ==
  ASSUME TypeOK, NEW n \in Nat, wrote <= n, NEW a \in {"up", "down", "parked"} \cup Ended,
         Drain(n, a)
  PROVE  /\ task' \in Tasks /\ hist' \in Hists
         /\ wrote' \in wrote .. n /\ wrote' <= peer.took + WireCap
<1>1. peer.took \in Nat /\ Len(log) \in Nat
  BY DEF TypeOK, Peers
<1>2. wrote \in Nat /\ wrote <= peer.took + WireCap
  BY <1>1, VisionPollAssumption DEF TypeOK
<1>3. wrote' \in wrote .. n /\ wrote' <= peer.took + WireCap
  BY SMTT(60), <1>1, <1>2, VisionPollAssumption DEF Drain, Reach
<1>4. task' \in Tasks
  <2>1. CASE Blocks(n)
    BY <2>1, TaskUpdates DEF TypeOK, Drain, Tasks
  <2>2. CASE ~Blocks(n)
    BY <2>2, TaskUpdates DEF TypeOK, Drain, Tasks
  <2> QED  BY <2>1, <2>2
<1>5. hist' \in Hists
  <2>1. Blocks(n) \in BOOLEAN
    BY DEF Blocks
  <2> QED  BY <2>1 DEF TypeOK, Drain, Hists
<1> QED  BY <1>3, <1>4, <1>5

LEMMA TypeInit == Init => TypeOK
<1> SUFFICES ASSUME Init PROVE TypeOK
  OBVIOUS
<1>1. role \in Roles /\ role \in {"client", "server"}
  BY VisionPollAssumption DEF Init
<1>2. app \in Apps /\ app.sent = 1
  BY VisionPollAssumption DEF Init, Apps, Items
<1>3. peer \in Peers /\ peer.took = 0
  BY VisionPollAssumption DEF Init, Peers, Items
<1>4. up \in Ups /\ up.taken = 0 /\ up.buf = None
  BY <1>1 DEF Init, Ups, None
<1>5. task \in Tasks /\ hist \in Hists
  BY <1>1 DEF Init, Tasks, Hists
<1>6. log \in Logs /\ wrote = 0
  BY <1>1 DEF Init, Wrap, Accept, Hello, Ctl, Record, Logs
<1>7. early = <<>> /\ inlog = <<>> /\ read = 0 /\ pos = 0 /\ down = "copy"
  BY DEF Init
<1> QED
  BY <1>1, <1>2, <1>3, <1>4, <1>5, <1>6, <1>7, VisionPollAssumption DEF TypeOK, None, Items, Logs

-----------------------------------------------------------------------------
(* What a part of the invariant depends on. *)

LEMMA HandshakingKept ==
  ASSUME TypeOK, UNCHANGED <<role, read>>,
         inlog' = inlog \/ \E x \in Record : inlog' = Append(inlog, x)
  PROVE  /\ Handshaking' <=> Handshaking
         /\ Notified' <=> Notified
<1>1. \A i \in 1 .. read : inlog'[i] = inlog[i]
  BY DEF TypeOK, Logs
<1> QED  BY <1>1 DEF Handshaking, HandshakingAt, Notified, Took

LEMMA ServerFrame ==
  ASSUME role = "server" => ServerLog, UNCHANGED <<role, log, wrote, early, up>>,
         hist'.hasty = hist.hasty, hist'.answered = hist.answered,
         role = "server" /\ task.at # "up" => task'.at # "up"
  PROVE  (role = "server" => ServerLog)'
BY DEF ServerLog

LEMMA ClientFrame ==
  ASSUME role = "client" => ClientLog, UNCHANGED <<role, log, wrote, early, up>>,
         hist'.hasty = hist.hasty, app'.sent = app.sent \/ ~app.closed,
         app.closed => app'.closed, Handshaking' <=> Handshaking
  PROVE  (role = "client" => ClientLog)'
BY DEF ClientLog, Closing, Before, Given

LEMMA PeerFrame ==
  ASSUME PeerHas, UNCHANGED up, hist'.hasty = hist.hasty,
         peer'.got = peer.got, peer'.took = peer.took
  PROVE  PeerHas'
BY DEF PeerHas, Before, Given

LEMMA IncomingFrame ==
  ASSUME Incoming, UNCHANGED inlog, peer'.sent = peer.sent
  PROVE  Incoming'
BY DEF Incoming

LEMMA AppFrame ==
  ASSUME AppHas, UNCHANGED <<inlog, pos>>, peer'.sent = peer.sent,
         app'.got = app.got, app'.eof = app.eof
  PROVE  AppHas'
BY DEF AppHas, Took

-----------------------------------------------------------------------------
(* The runtime and the application. *)

LEMMA InitInv == Init => IInv
<1> SUFFICES ASSUME Init PROVE IInv
  OBVIOUS
<1>1. TypeOK
  BY TypeInit
<1>2. role \in {"client", "server"}
  BY VisionPollAssumption DEF Init
<1>3. app.sent = 1 /\ ~app.closed /\ app.got = <<>> /\ ~app.eof /\ wrote = 0 /\ early = <<>>
      /\ peer.took = 0 /\ peer.got = <<>> /\ peer.sent = 0 /\ inlog = <<>> /\ read = 0 /\ pos = 0
      /\ up.buf = None /\ up.taken = 0 /\ ~hist.answered /\ ~hist.hasty /\ ~up.need_flush
  BY DEF Init
<1>4. role = "client" => up.pc = "connect" /\ task.at = "up" /\ log = <<Hello>>
  BY DEF Init, Wrap
<1>5. role = "server" => up.pc = "none" /\ task.at = "down" /\ log = <<>>
  BY DEF Init, Accept
<1>6. Handshaking
  BY <1>3 DEF Handshaking, HandshakingAt, Took
<1>7. (role = "server" => ServerLog) /\ (role = "client" => ClientLog)
  <2>1. CASE role = "client"
    <3>1. Len(log) = 1 /\ log[1] = Hello /\ log # <<>>
      BY <1>4, <2>1
    <3> QED  BY <1>3, <1>4, <1>6, <2>1, <3>1 DEF ClientLog, Closing, Before, Given, None
  <2>2. CASE role = "server"
    BY <1>3, <1>5, <2>2 DEF ServerLog
  <2> QED  BY <1>2, <2>1, <2>2
<1>8. PeerHas /\ Incoming /\ AppHas
  BY <1>3 DEF PeerHas, Incoming, AppHas, Before, Given, None
<1>9. Waiting /\ Written
  BY <1>2, <1>3, <1>4, <1>5, <1>6 DEF Waiting, Written, Asleep
<1> QED  BY <1>1, <1>7, <1>8, <1>9 DEF IInv

LEMMA AppSendStep == ASSUME IInv, AppSend PROVE IInv'
<1>1. app' \in Apps /\ app'.sent = app.sent + 1 /\ app'.closed = app.closed /\ ~app.closed
      /\ app'.got = app.got /\ app'.eof = app.eof /\ app.sent \in Nat
  BY SMTT(60), AppUpdates, VisionPollAssumption DEF IInv, TypeOK, AppSend, Apps
<1>2. task' \in Tasks /\ task'.at = task.at
      /\ (task'.woken <=> task.woken \/ "app" \in task.wakers)
      /\ task'.wakers = task.wakers \ {"app"}
  BY WakeType DEF IInv, TypeOK, AppSend, Wake, Tasks
<1>3. UNCHANGED <<role, log, wrote, early, peer, inlog, read, pos, up, down, hist>>
  BY DEF AppSend, session
<1>4. up.taken \in Nat
  BY DEF IInv, TypeOK, Ups
<1>5. TypeOK'
  BY <1>1, <1>2, <1>3, <1>4 DEF IInv, TypeOK
<1>6. Handshaking' <=> Handshaking
  BY <1>3, HandshakingKept DEF IInv
<1>7. (role = "server" => ServerLog)' /\ (role = "client" => ClientLog)'
  BY <1>1, <1>2, <1>3, <1>6, ServerFrame, ClientFrame DEF IInv
<1>8. PeerHas' /\ Incoming' /\ AppHas'
  BY <1>1, <1>3, PeerFrame, IncomingFrame, AppFrame DEF IInv
<1>9. Waiting'
  BY <1>1, <1>2, <1>3 DEF IInv, Waiting, Asleep, Full
<1>10. Written'
  BY <1>1, <1>2, <1>3, <1>6 DEF IInv, Written
<1> QED  BY <1>5, <1>7, <1>8, <1>9, <1>10 DEF IInv

LEMMA AppCloseStep == ASSUME IInv, AppClose PROVE IInv'
<1>1. app' \in Apps
  BY AppUpdates DEF IInv, TypeOK, AppClose
<1>4. app'.sent = app.sent /\ app'.closed = TRUE /\ app.closed = FALSE
      /\ app'.got = app.got /\ app'.eof = app.eof
  BY DEF IInv, TypeOK, AppClose, Apps
<1>2. task' \in Tasks /\ task'.at = task.at
      /\ (task'.woken <=> task.woken \/ "app" \in task.wakers)
      /\ task'.wakers = task.wakers \ {"app"}
  BY WakeType DEF IInv, TypeOK, AppClose, Wake, Tasks
<1>3. UNCHANGED <<role, log, wrote, early, peer, inlog, read, pos, up, down, hist>>
  BY DEF AppClose, session
<1>5. TypeOK'
  BY <1>1, <1>4, <1>2, <1>3 DEF IInv, TypeOK
<1>6. Handshaking' <=> Handshaking
  BY <1>3, HandshakingKept DEF IInv
<1>7. (role = "server" => ServerLog)' /\ (role = "client" => ClientLog)'
  BY <1>1, <1>4, <1>2, <1>3, <1>6, ServerFrame, ClientFrame DEF IInv
<1>8. PeerHas' /\ Incoming' /\ AppHas'
  BY <1>1, <1>4, <1>3, PeerFrame, IncomingFrame, AppFrame DEF IInv
<1>9. Waiting'
  BY <1>1, <1>4, <1>2, <1>3 DEF IInv, Waiting, Asleep, Full
<1>10. Written'
  BY <1>1, <1>4, <1>2, <1>3, <1>6 DEF IInv, Written
<1> QED  BY <1>5, <1>7, <1>8, <1>9, <1>10 DEF IInv

-----------------------------------------------------------------------------
(* The peer. *)

LEMMA PeerSendsStep ==
  ASSUME IInv, NEW r \in Record, PeerSends(r), peer' \in Peers,
         peer'.took = peer.took, peer'.got = peer.got, peer'.shut = peer.shut,
         IF IsData(r) THEN r = Data(peer.sent + 1) /\ peer'.sent = peer.sent + 1
                      ELSE peer'.sent = peer.sent
  PROVE  IInv'
<1> DEFINE n == Len(inlog)
<1>1. inlog \in Logs /\ n \in Nat /\ inlog' = Append(inlog, r) /\ read \in 0 .. n /\ pos \in 0 .. n
  BY DEF IInv, TypeOK, Logs, PeerSends
<1>2. inlog' \in Logs /\ Len(inlog') = n + 1 /\ inlog'[n + 1] = r
      /\ \A i \in 1 .. n : inlog'[i] = inlog[i]
  BY <1>1 DEF Logs
<1>3. task' \in Tasks /\ task'.at = task.at
      /\ (task'.woken <=> task.woken \/ "in" \in task.wakers)
      /\ task'.wakers = task.wakers \ {"in"}
  BY WakeType DEF IInv, TypeOK, PeerSends, Wake, Tasks
<1>4. UNCHANGED <<role, app, log, wrote, early, read, pos, up, down, hist>>
  BY DEF PeerSends, session
<1>5. peer.sent \in Nat /\ Len(app.got) \in Nat
  BY DEF IInv, TypeOK, Peers, Apps, Items
<1>6. ~Took(Notify, n)
  BY DEF PeerSends
<1>7. TypeOK'
  BY <1>1, <1>2, <1>3, <1>4 DEF IInv, TypeOK
<1>8. Handshaking' <=> Handshaking
  BY <1>1, <1>4, HandshakingKept DEF IInv
<1>9. (role = "server" => ServerLog)' /\ (role = "client" => ClientLog)'
  BY <1>3, <1>4, <1>8, ServerFrame, ClientFrame DEF IInv
<1>10. PeerHas'
  BY <1>4, PeerFrame DEF IInv
<1>11. Incoming'
  <2>1. \A i \in 1 .. n + 1 : IsData(inlog'[i]) => inlog'[i][2] \in 1 .. peer'.sent
    BY SMTT(60), <1>1, <1>2, <1>5 DEF IInv, Incoming, Data, IsData
  <2>2. \A v \in 1 .. peer'.sent : \E i \in 1 .. n + 1 : inlog'[i] = Data(v)
    <3> SUFFICES ASSUME NEW v \in 1 .. peer'.sent
                 PROVE  \E i \in 1 .. n + 1 : inlog'[i] = Data(v)
      OBVIOUS
    <3>1. CASE v \in 1 .. peer.sent
      BY <1>1, <1>2, <3>1 DEF IInv, Incoming
    <3>2. CASE v \notin 1 .. peer.sent
      <4>1. v = peer.sent + 1 /\ r = Data(v)
        BY <1>5, <3>2
      <4> QED  BY <1>1, <1>2, <4>1
    <3> QED  BY <3>1, <3>2
  <2>3. \A i, j \in 1 .. n + 1 :
          i < j /\ IsData(inlog'[i]) /\ IsData(inlog'[j]) => inlog'[i][2] < inlog'[j][2]
    <3> SUFFICES ASSUME NEW i \in 1 .. n + 1, NEW j \in 1 .. n + 1, i < j,
                        IsData(inlog'[i]), IsData(inlog'[j])
                 PROVE  inlog'[i][2] < inlog'[j][2]
      OBVIOUS
    <3>1. i \in 1 .. n /\ inlog'[i] = inlog[i] /\ inlog[i][2] \in 1 .. peer.sent
      BY <1>1, <1>2 DEF IInv, Incoming
    <3>2. CASE j = n + 1
      <4>1. r = Data(peer.sent + 1) /\ inlog'[j] = r
        BY <1>2, <3>2
      <4> QED  BY <1>5, <3>1, <4>1 DEF Data
    <3>3. CASE j # n + 1
      BY <1>1, <1>2, <3>1, <3>3 DEF IInv, Incoming
    <3> QED  BY <3>2, <3>3
  <2>4. \A i \in 1 .. n + 1 : inlog'[i] = Notify => i = n + 1
    BY <1>1, <1>2, <1>6 DEF Took
  <2> QED  BY <1>2, <2>1, <2>2, <2>3, <2>4 DEF Incoming
<1>12. AppHas'
  <2>1. Len(app.got) <= peer'.sent
    BY <1>5 DEF IInv, AppHas
  <2>2. \A i \in 1 .. n + 1 :
          IsData(inlog'[i]) => (i <= pos <=> inlog'[i][2] <= Len(app.got))
    <3> SUFFICES ASSUME NEW i \in 1 .. n + 1, IsData(inlog'[i])
                 PROVE  i <= pos <=> inlog'[i][2] <= Len(app.got)
      OBVIOUS
    <3>1. CASE i = n + 1
      <4>1. inlog'[i][2] = peer.sent + 1
        BY <1>2, <3>1 DEF Data
      <4> QED  BY <1>1, <1>5, <3>1, <4>1 DEF IInv, AppHas
    <3>2. CASE i # n + 1
      BY <1>1, <1>2, <3>2 DEF IInv, AppHas
    <3> QED  BY <3>1, <3>2
  <2>3. ~app.eof
    BY <1>6 DEF IInv, AppHas
  <2> QED  BY <1>2, <1>4, <2>1, <2>2, <2>3 DEF IInv, AppHas
<1>13. Waiting'
  BY <1>1, <1>2, <1>3, <1>4 DEF IInv, Waiting, Asleep, Full
<1>14. Written'
  BY <1>3, <1>4, <1>8 DEF IInv, Written
<1> QED  BY <1>7, <1>9, <1>10, <1>11, <1>12, <1>13, <1>14 DEF IInv

LEMMA PeerSendStep ==
  ASSUME IInv, PeerHandshakes \/ PeerSendsSilent \/ PeerSendsData \/ PeerNotifies
  PROVE  IInv'
<1>1. peer \in Peers /\ peer.sent \in Nat
  BY DEF IInv, TypeOK, Peers
<1>2. CASE PeerHandshakes
  <2>1. PICK x \in {Hello, Flight, Finished} : PeerSends(x) /\ peer' = peer
    BY <1>2 DEF PeerHandshakes
  <2>2. x \in Record /\ ~IsData(x)
    BY DEF Hello, Flight, Finished, Ctl, Record, IsData
  <2> QED  BY <1>1, <2>1, <2>2, PeerSendsStep
<1>3. CASE PeerSendsSilent
  <2>1. PeerSends(Silent) /\ peer' = [peer EXCEPT !.silent = @ + 1] /\ peer' \in Peers
    BY <1>1, <1>3, PeerUpdates DEF PeerSendsSilent
  <2>2. Silent \in Record /\ ~IsData(Silent)
    BY DEF Silent, Ctl, Record, IsData
  <2>3. peer'.took = peer.took /\ peer'.got = peer.got /\ peer'.shut = peer.shut
        /\ peer'.sent = peer.sent
    BY <1>1, <2>1 DEF Peers
  <2> QED  BY <2>1, <2>2, <2>3, PeerSendsStep
<1>4. CASE PeerSendsData
  <2>1. PeerSends(Data(peer.sent + 1)) /\ peer' = [peer EXCEPT !.sent = @ + 1] /\ peer' \in Peers
    BY <1>1, <1>4, PeerUpdates DEF PeerSendsData
  <2>2. Data(peer.sent + 1) \in Record /\ IsData(Data(peer.sent + 1))
    BY <1>1 DEF Data, Record, IsData
  <2>3. peer'.took = peer.took /\ peer'.got = peer.got /\ peer'.shut = peer.shut
        /\ peer'.sent = peer.sent + 1
    BY <1>1, <2>1 DEF Peers
  <2> QED  BY <2>1, <2>2, <2>3, PeerSendsStep
<1>5. CASE PeerNotifies
  <2>1. PeerSends(Notify) /\ peer' = peer
    BY <1>5 DEF PeerNotifies
  <2>2. Notify \in Record /\ ~IsData(Notify)
    BY DEF Notify, Ctl, Record, IsData
  <2> QED  BY <1>1, <2>1, <2>2, PeerSendsStep
<1> QED  BY <1>2, <1>3, <1>4, <1>5

LEMMA PeerShutsStep == ASSUME IInv, PeerShuts PROVE IInv'
<1>1. peer' \in Peers /\ peer'.took = peer.took /\ peer'.got = peer.got /\ peer'.sent = peer.sent
  BY PeerUpdates DEF IInv, TypeOK, PeerShuts, Peers
<1>2. task' \in Tasks /\ task'.at = task.at
      /\ (task'.woken <=> task.woken \/ "in" \in task.wakers)
      /\ task'.wakers = task.wakers \ {"in"}
  BY WakeType DEF IInv, TypeOK, PeerShuts, Wake, Tasks
<1>3. UNCHANGED <<role, app, log, wrote, early, inlog, read, pos, up, down, hist>>
  BY DEF PeerShuts, session
<1>4. TypeOK'
  BY <1>1, <1>2, <1>3 DEF IInv, TypeOK
<1>5. Handshaking' <=> Handshaking
  BY <1>3, HandshakingKept DEF IInv
<1>6. (role = "server" => ServerLog)' /\ (role = "client" => ClientLog)'
  BY <1>2, <1>3, <1>5, ServerFrame, ClientFrame DEF IInv
<1>7. PeerHas' /\ Incoming' /\ AppHas'
  BY <1>1, <1>3, PeerFrame, IncomingFrame, AppFrame DEF IInv
<1>8. Waiting'
  BY <1>1, <1>2, <1>3 DEF IInv, Waiting, Asleep, Full
<1>9. Written'
  BY <1>2, <1>3, <1>5 DEF IInv, Written
<1> QED  BY <1>4, <1>6, <1>7, <1>8, <1>9 DEF IInv

(* What the client's session has made: nothing but items between the first  *)
(* one and the last.                                                        *)
LEMMA LogAt ==
  ASSUME IInv, role = "client", NEW k \in 1 .. Len(log)
  PROVE  /\ k <= Before => ~IsData(log[k])
         /\ k > Before => ~Handshaking
         /\ k \in Before + 1 .. Before + Given => log[k] = Data(k - Before)
         /\ k > Before + Given => ~IsData(log[k]) /\ k = Before + Given + 1
<1>1. Before \in {2, 3} /\ Given \in Nat /\ Len(log) \in Nat /\ ClientLog
  BY DEF IInv, TypeOK, Before, Given, None, Ups, Logs
<1>2. ~IsData(Hello) /\ ~IsData(Notify) /\ ~IsData(Finished)
  BY DEF IsData, Hello, Notify, Finished, Ctl
<1>3. k <= Before => ~IsData(log[k])
  BY <1>1, <1>2 DEF ClientLog, Before
<1>4. k > Before => ~Handshaking
  BY <1>1 DEF ClientLog
<1>5. ASSUME k \in Before + 1 .. Before + Given PROVE log[k] = Data(k - Before)
  <2>1. ~Handshaking /\ k - Before \in 1 .. Given /\ k = Before + (k - Before)
    BY <1>1, <1>4, <1>5
  <2>2. \A i \in 1 .. Given : log[Before + i] = Data(i)
    BY <1>1, <2>1 DEF ClientLog
  <2> QED  BY <2>1, <2>2
<1>6. ASSUME k > Before + Given PROVE ~IsData(log[k]) /\ k = Before + Given + 1
  <2>1. ~Handshaking
    BY <1>1, <1>4, <1>6
  <2>2. Len(log) = Before + Given + 1 /\ log[Len(log)] = Notify
    BY <1>1, <1>6, <2>1 DEF ClientLog
  <2> QED  BY <1>1, <1>2, <1>6, <2>2
<1> QED  BY <1>3, <1>4, <1>5, <1>6

LEMMA PeerTakesStep == ASSUME IInv, PeerTakes PROVE IInv'
<1> DEFINE k == peer.took + 1
           r == log[k]
           g == IF IsData(r) THEN Append(peer.got, r[2]) ELSE peer.got
<1>1. peer.took \in Nat /\ wrote \in Nat /\ k <= wrote /\ wrote <= Len(log) /\ Len(log) \in Nat
      /\ peer \in Peers /\ peer.got \in Items /\ log \in Logs /\ role \in {"client", "server"}
  BY SMTT(60), VisionPollAssumption DEF IInv, TypeOK, Peers, Logs, PeerTakes
<1>2. role = "client"
  BY <1>1 DEF IInv, ServerLog
<1>3. r \in Record
  BY <1>1 DEF Logs
<1>4. g \in Items
  <2>1. IsData(r) => r[2] \in Nat
    BY <1>3 DEF Record
  <2> QED  BY <1>1, <2>1, SeqAppend DEF Items
<1>5. peer' = [peer EXCEPT !.took = @ + 1, !.got = g]
  BY DEF PeerTakes
<1> HIDE DEF g
<1>6. peer' \in Peers /\ peer'.took = k /\ peer'.got = g
      /\ peer'.sent = peer.sent /\ peer'.shut = peer.shut
  BY <1>1, <1>4, <1>5, PeerGets DEF Peers
<1>7. task' \in Tasks /\ task'.at = task.at
      /\ (task'.woken <=> task.woken \/ "out" \in task.wakers)
      /\ task'.wakers = task.wakers \ {"out"}
  BY WakeType DEF IInv, TypeOK, PeerTakes, Wake, Tasks
<1>8. UNCHANGED <<role, app, log, wrote, early, inlog, read, pos, up, down, hist>>
  BY DEF PeerTakes, session
<1>9. TypeOK'
  <2>1. wrote \in k .. Len(log) /\ wrote <= k + WireCap
    BY <1>1, VisionPollAssumption DEF IInv, TypeOK
  <2> QED  BY <1>6, <1>7, <1>8, <2>1 DEF IInv, TypeOK
<1>10. Handshaking' <=> Handshaking
  BY <1>8, HandshakingKept DEF IInv
<1>11. (role = "server" => ServerLog)' /\ (role = "client" => ClientLog)'
  BY <1>7, <1>8, <1>10, ServerFrame, ClientFrame DEF IInv
<1>12. PeerHas'
  <2>1. Before' = Before /\ Given' = Given /\ Before \in {2, 3} /\ Given \in Nat
    BY <1>8 DEF IInv, TypeOK, Before, Given, None, Ups
  <2>2. /\ k <= Before => ~IsData(r)
        /\ k \in Before + 1 .. Before + Given => r = Data(k - Before)
        /\ k > Before + Given => ~IsData(r) /\ k = Before + Given + 1
    BY <1>1, <1>2, LogAt
  <2>3. \A i \in 1 .. Len(peer.got) : peer.got[i] = i
    BY DEF IInv, PeerHas
  <2>4. Len(peer.got) = IF peer.took <= Before THEN 0
                        ELSE IF peer.took <= Before + Given THEN peer.took - Before ELSE Given
    BY DEF IInv, PeerHas
  <2>5. CASE k \in Before + 1 .. Before + Given
    <3>1. IsData(r) /\ r[2] = k - Before /\ k - Before \in Nat
      <4>1. r = Data(k - Before) /\ k - Before \in Nat
        BY SMTT(60), <1>1, <2>1, <2>2, <2>5
      <4> QED  BY <4>1 DEF IsData, Data
    <3>2. Len(peer.got) = k - Before - 1
      BY SMTT(60), <1>1, <2>1, <2>4, <2>5
    <3>3. g = Append(peer.got, k - Before)
      BY <3>1 DEF g
    <3>4. Len(g) = k - Before /\ g[k - Before] = k - Before
          /\ \A i \in 1 .. Len(peer.got) : g[i] = peer.got[i]
      BY SMTT(60), <1>1, <3>1, <3>2, <3>3 DEF Items
    <3>5. \A i \in 1 .. Len(g) : g[i] = i
      <4> SUFFICES ASSUME NEW i \in 1 .. Len(g) PROVE g[i] = i
        OBVIOUS
      <4>1. i = k - Before \/ i \in 1 .. Len(peer.got)
        BY <3>1, <3>2, <3>4
      <4> QED  BY <2>3, <3>4, <4>1
    <3> QED  BY SMTT(60), <1>1, <1>6, <2>1, <2>5, <3>4, <3>5 DEF PeerHas
  <2>6. CASE k \notin Before + 1 .. Before + Given
    <3>1. g = peer.got
      BY <1>1, <2>1, <2>2, <2>6 DEF g
    <3> QED  BY SMTT(60), <1>1, <1>6, <2>1, <2>2, <2>3, <2>4, <2>6, <3>1 DEF PeerHas
  <2> QED  BY <2>5, <2>6
<1>13. Incoming' /\ AppHas'
  BY <1>6, <1>8, IncomingFrame, AppFrame DEF IInv
<1>14. Waiting'
  <2>1. Asleep' => Asleep /\ "out" \notin task.wakers
    BY <1>7 DEF Asleep
  <2>2. Asleep' => ~Full
    BY <2>1 DEF Full
  <2> QED  BY <1>6, <1>7, <1>8, <2>1, <2>2 DEF IInv, Waiting
<1>15. Written'
  BY <1>7, <1>8, <1>10 DEF IInv, Written
<1> QED  BY <1>9, <1>11, <1>12, <1>13, <1>14, <1>15 DEF IInv

-----------------------------------------------------------------------------
(* Steps that only move the task. *)

LEMMA PlaceStep ==
  ASSUME IInv, UNCHANGED <<role, app, log, wrote, early, peer, inlog, read, pos, up, down>>,
         task' \in Tasks, hist' \in Hists,
         hist'.answered = hist.answered, hist'.blocked = hist.blocked, hist'.hasty = hist.hasty,
         role = "server" => task'.at # "up",
         task'.at = "spin" => Handshaking \/ hist.blocked \/ hist.answered,
         Waiting'
  PROVE  IInv'
<1>1. TypeOK'
  BY DEF IInv, TypeOK
<1>2. Handshaking' <=> Handshaking
  BY HandshakingKept DEF IInv
<1>3. (role = "server" => ServerLog)' /\ (role = "client" => ClientLog)'
  BY <1>2, ServerFrame, ClientFrame DEF IInv
<1>4. PeerHas' /\ Incoming' /\ AppHas'
  BY PeerFrame, IncomingFrame, AppFrame DEF IInv
<1>5. Written'
  BY <1>2 DEF IInv, Written
<1> QED  BY <1>1, <1>3, <1>4, <1>5 DEF IInv

LEMMA PolledStep == ASSUME IInv, Polled PROVE IInv'
<1>1. UNCHANGED <<role, app, log, wrote, early, peer, inlog, read, pos, up, down, hist>>
  BY DEF Polled, session
<1>2. task \in Tasks /\ hist \in Hists /\ wrote \in Nat /\ log \in Logs /\ role \in {"client", "server"}
  BY VisionPollAssumption DEF IInv, TypeOK, Peers
<1>3. task' \in Tasks /\ task'.at = (IF role = "client" THEN "up" ELSE "down")
  BY <1>2, TaskUpdates DEF Polled, Tasks
<1>4. Waiting'
  <2>1. CASE role = "client"
    BY <1>1, <1>3, <2>1 DEF Waiting, Asleep
  <2>2. CASE role = "server"
    <3>1. (log = <<>> /\ wrote = 0) \/ hist.answered
      BY <2>2 DEF IInv, ServerLog
    <3> QED  BY <1>1, <1>3, <2>2, <3>1 DEF Waiting, Asleep
  <2> QED  BY <1>2, <2>1, <2>2
<1> QED  BY <1>1, <1>2, <1>3, <1>4, PlaceStep

LEMMA UpSpinsStep == ASSUME IInv, UpSpins PROVE IInv'
<1>1. UNCHANGED <<role, app, log, wrote, early, peer, inlog, read, pos, up, down, hist>>
  BY DEF UpSpins, session
<1>2. task \in Tasks /\ hist \in Hists /\ role \in {"client", "server"}
  BY VisionPollAssumption DEF IInv, TypeOK
<1>3. task' \in Tasks /\ task'.at = "spin"
  BY <1>2, TaskUpdates DEF UpSpins, Tasks, Ended
<1>4. Handshaking \/ hist.blocked \/ hist.answered
  <2>1. SUFFICES ASSUME ~Handshaking PROVE hist.blocked \/ hist.answered
    OBVIOUS
  <2>2. ~(Len(log) - wrote < SessCap)
    BY <2>1 DEF UpSpins, Room
  <2>3. wrote # Len(log)
    BY <2>2, VisionPollAssumption DEF IInv, TypeOK, Logs
  <2> QED  BY <2>1, <2>3 DEF IInv, Written
<1>5. Waiting'
  BY <1>1, <1>3 DEF Waiting, Asleep
<1>6. role # "server"
  BY DEF IInv, ServerLog, UpSpins
<1> QED  BY <1>1, <1>2, <1>3, <1>4, <1>5, <1>6, PlaceStep

LEMMA UpDoneStep == ASSUME IInv, UpDone PROVE IInv'
<1>1. UNCHANGED <<role, app, log, wrote, early, peer, inlog, read, pos, up, down, hist>>
  BY DEF UpDone, session
<1>2. task' \in Tasks /\ task'.at = "down" /\ hist \in Hists
  BY TaskUpdates DEF IInv, TypeOK, UpDone, Tasks
<1>3. Waiting'
  BY <1>1, <1>2 DEF UpDone, Waiting, Asleep
<1> QED  BY <1>1, <1>2, <1>3, PlaceStep

LEMMA FailStep == ASSUME IInv, DownCut \/ InnerError PROVE IInv'
<1>1. UNCHANGED <<role, app, log, wrote, early, peer, inlog, read, pos, up, down, hist>>
  BY DEF DownCut, InnerError, session
<1>4. task' = [task EXCEPT !.at = "failed"]
  BY DEF DownCut, InnerError
<1>2. task' \in Tasks /\ task'.at = "failed" /\ hist \in Hists
  BY <1>4, TaskUpdates DEF IInv, TypeOK, Tasks, Ended
<1>3. Waiting'
  BY <1>1, <1>2 DEF Waiting, Asleep
<1> QED  BY <1>1, <1>2, <1>3, PlaceStep

LEMMA DownDoneStep == ASSUME IInv, DownDone PROVE IInv'
<1>1. UNCHANGED <<role, app, log, wrote, early, peer, inlog, read, pos, up, down, hist>>
  BY DEF DownDone, session
<1>2. task' \in Tasks /\ hist \in Hists /\ task'.at \in {"ok", "parked"}
      /\ task'.woken = task.woken /\ task'.wakers = task.wakers
  BY TaskUpdates DEF IInv, TypeOK, DownDone, Tasks, Ended
<1>3. Waiting'
  BY <1>1, <1>2 DEF IInv, DownDone, Waiting, Asleep, Full
<1> QED  BY <1>1, <1>2, <1>3, PlaceStep

LEMMA DownWaitStep == ASSUME IInv, DownWait PROVE IInv'
<1>1. UNCHANGED <<role, app, log, wrote, early, peer, inlog, read, pos, up, down>>
  BY DEF DownWait, session
<1>2. task' \in Tasks /\ task'.at = "parked" /\ task'.woken = task.woken
      /\ task'.wakers = task.wakers \cup {"in"}
  BY TaskUpdates DEF IInv, TypeOK, DownWait, Tasks
<1>3. hist' \in Hists /\ hist'.silent = FALSE /\ hist'.answered = hist.answered
      /\ hist'.blocked = hist.blocked /\ hist'.hasty = hist.hasty
  BY DEF IInv, TypeOK, DownWait, Hists
<1>4. Waiting'
  BY <1>1, <1>2, <1>3 DEF IInv, DownWait, Reading, Waiting, Asleep, Full
<1> QED  BY <1>1, <1>2, <1>3, <1>4, PlaceStep

-----------------------------------------------------------------------------
(* The application to the stream. *)

LEMMA UpRecord ==
  ASSUME NEW u \in Ups, NEW p \in {"none", "connect", "copy", "shutdown", "done"},
         NEW b \in Nat, NEW t \in Nat, NEW f \in BOOLEAN
  PROVE  /\ [u EXCEPT !.buf = b, !.taken = t] \in Ups
         /\ [u EXCEPT !.buf = b, !.need_flush = f] \in Ups
         /\ [u EXCEPT !.pc = p] \in Ups
         /\ [u EXCEPT !.need_flush = f] \in Ups
BY DEF Ups

LEMMA UpReadStep == ASSUME IInv, UpRead PROVE IInv'
<1>1. UNCHANGED <<role, app, log, wrote, early, peer, inlog, read, pos, down, task, hist>>
  BY DEF UpRead, session
<1>2. up \in Ups /\ up.taken \in Nat /\ up.taken + 1 \in Nat /\ up.buf = 0 /\ app.sent \in Nat
      /\ up.pc \in {"connect", "copy"} /\ task.at = "up" /\ app.sent >= 1
      /\ (up.pc = "connect" => up.taken < 1) /\ (up.pc = "copy" => up.taken < app.sent)
  BY DEF IInv, TypeOK, UpRead, Ups, Apps, None
<1>3. up' = [up EXCEPT !.buf = up.taken + 1, !.taken = up.taken + 1]
  BY DEF UpRead
<1>4. up' \in Ups /\ up'.buf = up.taken + 1 /\ up'.taken = up.taken + 1
      /\ up'.pc = up.pc /\ up'.need_flush = up.need_flush
  <2> DEFINE t == up.taken + 1
  <2>1. up' = [up EXCEPT !.buf = t, !.taken = t] /\ t \in Nat
    BY <1>2, <1>3
  <2> HIDE DEF t
  <2>2. up' \in Ups /\ up'.buf = t /\ up'.taken = t
        /\ up'.pc = up.pc /\ up'.need_flush = up.need_flush
    BY <1>2, <2>1 DEF Ups
  <2> QED  BY <2>2 DEF t
<1>5. TypeOK'
  <2>1. up'.taken <= app.sent
    BY <1>2, <1>4
  <2> QED  BY <1>1, <1>4, <2>1 DEF IInv, TypeOK
<1>6. Handshaking' <=> Handshaking
  BY <1>1, HandshakingKept DEF IInv
<1>7. Given' = Given /\ Before' = Before /\ ~Closing /\ ~Closing'
  BY <1>1, <1>2, <1>4 DEF Given, Before, Closing, None
<1>8. (role = "server" => ServerLog)'
  BY <1>1, <1>2 DEF IInv, ServerLog
<1>9. (role = "client" => ClientLog)'
  BY <1>1, <1>2, <1>4, <1>6, <1>7 DEF IInv, ClientLog
<1>10. PeerHas' /\ Incoming' /\ AppHas'
  <2>1. PeerHas'
    BY <1>1, <1>7 DEF IInv, PeerHas
  <2> QED  BY <1>1, <2>1, IncomingFrame, AppFrame DEF IInv
<1>11. Waiting' /\ Written'
  BY <1>1, <1>2, <1>4, <1>6 DEF IInv, Waiting, Asleep, Written
<1> QED  BY <1>5, <1>8, <1>9, <1>10, <1>11 DEF IInv

(* What write_tls in a loop leaves behind. *)
Drained ==
  /\ ~hist'.answered /\ (hist'.blocked <=> wrote' # Len(log'))
  /\ wrote' = Len(log') \/ (wrote' = peer.took + WireCap /\ wrote' < Len(log') /\ "out" \in task'.wakers)

LEMMA DrainLeaves ==
  ASSUME TypeOK, log' \in Logs, Len(log') >= Len(log),
         NEW a \in {"up", "down", "parked"} \cup Ended, Drain(Len(log'), a)
  PROVE  /\ Drained
         /\ task' \in Tasks /\ task'.at = a /\ task'.woken = task.woken
         /\ hist' \in Hists /\ hist'.silent = hist.silent /\ hist'.hasty = hist.hasty
         /\ wrote' \in wrote .. Len(log') /\ wrote' <= peer.took + WireCap
         /\ Blocks(Len(log')) <=> wrote' # Len(log')
<1> DEFINE n == Len(log')
<1>1. n \in Nat /\ wrote \in Nat /\ wrote <= n /\ peer.took \in Nat /\ WireCap \in Nat
  BY SMTT(60), VisionPollAssumption DEF TypeOK, Logs, Peers
<1>2. task' \in Tasks /\ hist' \in Hists /\ wrote' \in wrote .. n /\ wrote' <= peer.took + WireCap
  BY <1>1, DrainType
<1>3. Blocks(n) <=> wrote' # n
  BY <1>1 DEF Drain, Reach, Blocks
<1>4. wrote' = n \/ (wrote' = peer.took + WireCap /\ wrote' < n)
  BY <1>1 DEF Drain, Reach
<1>5. /\ task'.at = a /\ task'.woken = task.woken /\ (Blocks(n) => "out" \in task'.wakers)
      /\ hist'.answered = FALSE /\ hist'.blocked = Blocks(n)
      /\ hist'.silent = hist.silent /\ hist'.hasty = hist.hasty
  BY DEF Drain, TypeOK, Tasks, Hists
<1> QED  BY <1>2, <1>3, <1>4, <1>5 DEF Drained

LEMMA TakenBound ==
  ASSUME NEW t \in Nat, NEW l \in Nat, NEW v \in Nat, t <= l, v # 0, l = 1 \/ l = 2 + (v - 1)
  PROVE  t <= 2 + (v - 1)
OBVIOUS

LEMMA UpWriteStep == ASSUME IInv, UpWrite PROVE IInv'
<1> DEFINE v == up.buf
<1>1. UNCHANGED <<role, app, peer, inlog, read, pos, down>>
  BY DEF UpWrite
<1>2. role = "client" /\ ClientLog
  BY VisionPollAssumption DEF IInv, TypeOK, ServerLog, UpWrite
<1>3. up \in Ups /\ v = up.taken /\ v \in Nat /\ v # 0 /\ Given = v - 1 /\ ~Closing
      /\ up.pc \in {"connect", "copy"} /\ Before = 2 /\ ~hist.hasty
  BY <1>2 DEF IInv, TypeOK, Ups, UpWrite, None, Given, ClientLog, Closing, Before
<1>4. up' = [up EXCEPT !.buf = 0, !.need_flush = up.pc = "copy"]
  BY DEF UpWrite, None
<1>5. up' \in Ups /\ up'.buf = 0 /\ up'.taken = up.taken /\ up'.pc = up.pc
      /\ (up'.need_flush <=> up.pc = "copy")
  <2> DEFINE f == up.pc = "copy"
  <2>1. up' = [up EXCEPT !.buf = 0, !.need_flush = f] /\ f \in BOOLEAN
    BY <1>4
  <2> HIDE DEF f
  <2>2. up' \in Ups /\ up'.buf = 0 /\ up'.taken = up.taken /\ up'.pc = up.pc /\ up'.need_flush = f
    BY <1>3, <2>1 DEF Ups
  <2> QED  BY <2>2 DEF f
<1>6. log \in Logs /\ early \in Items /\ Data(v) \in Record
  BY <1>3 DEF IInv, TypeOK, Data, Record
<1>7. /\ Handshaking => early' = Append(early, v) /\ log' = log /\ Len(early) < SessCap
      /\ ~Handshaking => early' = early /\ log' = Append(log, Data(v))
  BY DEF UpWrite, Room
<1>8. /\ log' \in Logs /\ early' \in Items /\ Len(log') >= Len(log) /\ Len(early') <= SessCap
      /\ log # <<>> => log' # <<>>
  <2>1. Len(early) \in Nat /\ Len(log) \in Nat /\ Len(early) <= SessCap
    BY <1>6 DEF IInv, TypeOK, Items, Logs
  <2>2. CASE Handshaking
    <3>1. early' \in Items /\ Len(early') = Len(early) + 1
      <4>1. early' = Append(early, v) /\ v \in Nat
        BY <1>3, <1>7, <2>2
      <4> QED  BY <1>6, <4>1 DEF Items
    <3>2. Len(early) + 1 <= SessCap
      BY <1>7, <2>1, <2>2, VisionPollAssumption
    <3> QED  BY <1>6, <1>7, <2>1, <2>2, <3>1, <3>2
  <2>3. CASE ~Handshaking
    <3>1. log' \in Logs /\ Len(log') = Len(log) + 1 /\ log' # <<>>
      BY <1>6, <1>7, <2>3 DEF Logs
    <3> QED  BY <1>6, <1>7, <2>1, <2>3, <3>1
  <2> QED  BY <2>2, <2>3
<1>9. Drain(Len(log'), "up")
  BY DEF UpWrite
<1>10. /\ Drained /\ task' \in Tasks /\ task'.at = "up" /\ hist' \in Hists /\ hist'.hasty = hist.hasty
       /\ wrote' \in wrote .. Len(log') /\ wrote' <= peer.took + WireCap
  BY <1>8, <1>9, DrainLeaves DEF IInv
<1>11. TypeOK'
  <2>1. wrote' \in peer.took .. Len(log')
    BY <1>10 DEF IInv, TypeOK, Peers
  <2> QED  BY <1>1, <1>3, <1>5, <1>8, <1>10, <2>1 DEF IInv, TypeOK, None
<1>12. Handshaking' <=> Handshaking
  BY <1>1, HandshakingKept DEF IInv
<1>13. Given' = v /\ Before' = 2 /\ ~Closing' /\ hist'.hasty = FALSE
  BY <1>3, <1>5, <1>10 DEF Given, Before, Closing, None, IInv, TypeOK, Hists
<1>14. ClientLog'
  <2>1. up'.pc # "none" /\ (up'.pc = "connect" => up'.taken <= 1) /\ up'.pc # "done"
    BY <1>2, <1>3, <1>5 DEF ClientLog
  <2>2. CASE Handshaking
    <3>1. early' = Append(early, v) /\ log' = log /\ Len(early) = v - 1
          /\ \A i \in 1 .. Len(early) : early[i] = i
      BY <1>2, <1>3, <1>7, <2>2 DEF ClientLog
    <3>2. Len(early') = v /\ \A i \in 1 .. v : early'[i] = i
      BY <1>3, <1>6, <3>1 DEF Items
    <3>3. log # <<>> /\ log[1] = Hello /\ Len(log) = 1
      BY <1>2, <1>3, <2>2 DEF ClientLog
    <3> QED  BY <1>12, <1>13, <2>1, <2>2, <3>1, <3>2, <3>3 DEF ClientLog
  <2>3. CASE ~Handshaking
    <3>1. /\ early = <<>> /\ log # <<>> /\ log[1] = Hello /\ log[2] = Finished /\ Len(log) = 2 + (v - 1)
          /\ \A i \in 1 .. v - 1 : log[2 + i] = Data(i)
      BY <1>2, <1>3, <2>3 DEF ClientLog
    <3>2. early' = <<>> /\ log' = Append(log, Data(v))
      BY <1>7, <2>3, <3>1
    <3>3. /\ Len(log') = 2 + v /\ log'[2 + v] = Data(v) /\ log'[1] = Hello /\ log'[2] = Finished
          /\ \A i \in 1 .. v - 1 : log'[2 + i] = Data(i)
      BY <1>3, <1>6, <3>1, <3>2 DEF Logs
    <3>4. \A i \in 1 .. v : log'[2 + i] = Data(i)
      BY <1>3, <3>3
    <3>5. log' # <<>> /\ Len(log') = Before' + Given' + (IF Closing' /\ ~hist'.hasty THEN 1 ELSE 0)
      BY <1>3, <1>8, <1>13, <3>1, <3>3
    <3>6. \A i \in 1 .. Given' : log'[Before' + i] = Data(i)
      BY <1>13, <3>4
    <3> QED  BY <1>12, <1>13, <2>1, <2>3, <3>2, <3>3, <3>5, <3>6 DEF ClientLog
  <2> QED  BY <2>2, <2>3
<1>15. PeerHas'
  <2>1. peer.took \in Nat /\ Len(log) \in Nat /\ peer.took <= Len(log)
    BY <1>6 DEF IInv, TypeOK, Peers, Logs
  <2>2. peer.took <= 2 + (v - 1)
    <3>1. Handshaking => Len(log) = 1
      BY <1>2, <1>3 DEF ClientLog
    <3>2. ~Handshaking => Len(log) = 2 + (v - 1)
      BY <1>2, <1>3 DEF ClientLog
    <3>3. Len(log) = 1 \/ Len(log) = 2 + (v - 1)
      BY <3>1, <3>2
    <3>4. v \in Nat /\ v # 0
      BY <1>3
    <3> HIDE DEF v
    <3> QED  BY <2>1, <3>3, <3>4, TakenBound
  <2>3. Len(peer.got) = IF peer.took <= 2 THEN 0 ELSE peer.took - 2
    BY <1>3, <2>1, <2>2 DEF IInv, PeerHas
  <2> QED  BY SMTT(60), <1>1, <1>3, <1>13, <2>1, <2>2, <2>3 DEF IInv, PeerHas
<1>16. Incoming' /\ AppHas'
  BY <1>1, IncomingFrame, AppFrame DEF IInv
<1>17. Waiting'
  BY <1>10 DEF Waiting, Asleep
<1>18. Written'
  BY <1>5, <1>10 DEF Written, Drained
<1> QED  BY <1>1, <1>2, <1>11, <1>14, <1>15, <1>16, <1>17, <1>18 DEF IInv

LEMMA UpConnectedStep == ASSUME IInv, UpConnected PROVE IInv'
<1>1. UNCHANGED <<role, app, log, early, peer, inlog, read, pos, down>>
  BY DEF UpConnected
<1>2. role = "client" /\ ClientLog
  BY VisionPollAssumption DEF IInv, TypeOK, ServerLog, UpConnected
<1>3. log \in Logs /\ Len(log) \in Nat /\ up \in Ups /\ up.pc = "connect"
  BY DEF IInv, TypeOK, Logs, UpConnected
<1>4. Drain(Len(log'), IF Blocks(Len(log)) THEN "parked" ELSE "up")
  BY <1>1 DEF UpConnected
<1>5. /\ Drained /\ task' \in Tasks /\ hist' \in Hists /\ hist'.hasty = hist.hasty
      /\ task'.at = (IF Blocks(Len(log)) THEN "parked" ELSE "up")
      /\ wrote' \in wrote .. Len(log') /\ wrote' <= peer.took + WireCap
      /\ (Blocks(Len(log)) <=> wrote' # Len(log))
  BY <1>1, <1>3, <1>4, DrainLeaves DEF IInv
<1>6. /\ up' \in Ups /\ up'.buf = up.buf /\ up'.taken = up.taken /\ up'.need_flush = up.need_flush
      /\ up'.pc = (IF wrote' # Len(log) THEN "connect" ELSE "copy")
  BY <1>3, <1>5 DEF UpConnected, Ups
<1>7. TypeOK'
  <2>1. wrote' \in peer.took .. Len(log)
    BY <1>1, <1>5 DEF IInv, TypeOK, Peers
  <2> QED  BY <1>1, <1>5, <1>6, <2>1 DEF IInv, TypeOK
<1>8. Handshaking' <=> Handshaking
  BY <1>1, HandshakingKept DEF IInv
<1>9. Given' = Given /\ Before' = Before /\ ~Closing /\ ~Closing'
  BY <1>3, <1>5, <1>6 DEF Given, Before, Closing
<1>10. ClientLog'
  BY <1>1, <1>2, <1>3, <1>5, <1>6, <1>8, <1>9 DEF ClientLog
<1>11. PeerHas'
  BY <1>1, <1>9 DEF IInv, PeerHas
<1>12. Incoming' /\ AppHas'
  BY <1>1, IncomingFrame, AppFrame DEF IInv
<1>13. Waiting'
  BY <1>1, <1>5, <1>6 DEF Waiting, Asleep, Drained, Full
<1>14. Written'
  BY <1>1, <1>5, <1>6 DEF Written, Drained
<1> QED  BY <1>1, <1>2, <1>7, <1>10, <1>11, <1>12, <1>13, <1>14 DEF IInv

LEMMA UpPauseStep == ASSUME IInv, UpPause PROVE IInv'
<1>1. UNCHANGED <<role, app, log, early, peer, inlog, read, pos, down>>
  BY DEF UpPause
<1>2. role = "client" /\ ClientLog
  BY VisionPollAssumption DEF IInv, TypeOK, ServerLog, UpPause
<1>3. /\ Len(log) \in Nat /\ up \in Ups /\ task \in Tasks /\ hist \in Hists /\ up.pc = "copy"
      /\ wrote \in Nat /\ peer.took \in Nat /\ wrote \in peer.took .. Len(log)
      /\ wrote <= peer.took + WireCap /\ WireCap \in Nat
      /\ up.taken = app.sent /\ ~app.closed
  BY SMTT(60), VisionPollAssumption DEF IInv, TypeOK, Logs, Peers, UpPause
<1> DEFINE flush == up.need_flush /\ Blocks(Len(log))
<1>4. up' = [up EXCEPT !.need_flush = flush] /\ flush \in BOOLEAN
  BY <1>3 DEF UpPause, Ups, Blocks
<1>5. task' = [task EXCEPT !.at = "down", !.wakers = @ \cup {"app"} \cup IF flush THEN {"out"} ELSE {}]
  BY DEF UpPause
<1>6. /\ up.need_flush => wrote' = Reach(Len(log))
                          /\ hist' = [hist EXCEPT !.answered = FALSE, !.blocked = flush]
      /\ ~up.need_flush => wrote' = wrote /\ hist' = hist
  BY DEF UpPause
<1>7. up.need_flush => (flush <=> wrote' # Len(log))
                      /\ (wrote' = Len(log) \/ (wrote' = peer.took + WireCap /\ wrote' < Len(log)))
  BY <1>3, <1>6 DEF Reach, Blocks
<1>8. wrote' \in peer.took .. Len(log) /\ wrote' <= peer.took + WireCap
  BY <1>3, <1>6 DEF Reach
<1> HIDE DEF flush
<1>9. /\ up' \in Ups /\ up'.buf = up.buf /\ up'.taken = up.taken /\ up'.pc = "copy"
      /\ up'.need_flush = flush
  BY <1>3, <1>4 DEF Ups
<1>10. /\ task' \in Tasks /\ task'.at = "down" /\ task'.woken = task.woken /\ "app" \in task'.wakers
       /\ (flush => "out" \in task'.wakers)
  BY <1>3, <1>5 DEF Tasks
<1>11. /\ hist' \in Hists /\ hist'.hasty = hist.hasty
       /\ up.need_flush => hist'.answered = FALSE /\ hist'.blocked = flush
  BY <1>3, <1>4, <1>6 DEF Hists
<1>12. TypeOK'
  BY <1>1, <1>8, <1>9, <1>10, <1>11 DEF IInv, TypeOK
<1>13. Handshaking' <=> Handshaking
  BY <1>1, HandshakingKept DEF IInv
<1>14. Given' = Given /\ Before' = Before /\ ~Closing /\ ~Closing'
  BY <1>3, <1>9, <1>11 DEF Given, Before, Closing
<1>15. ClientLog'
  BY <1>1, <1>2, <1>3, <1>9, <1>11, <1>13, <1>14 DEF ClientLog
<1>16. PeerHas'
  BY <1>1, <1>14 DEF IInv, PeerHas
<1>17. Incoming' /\ AppHas'
  BY <1>1, IncomingFrame, AppFrame DEF IInv
<1>18. Written'
  <2>1. CASE up.need_flush
    BY <1>1, <1>7, <1>9, <1>10, <1>11, <2>1 DEF Written
  <2>2. CASE ~up.need_flush
    BY <1>1, <1>3, <1>6, <1>9, <1>10, <1>13, <2>2 DEF IInv, Written
  <2> QED  BY <2>1, <2>2
<1>19. ~hist'.answered => wrote' = Len(log) \/ (wrote' = peer.took + WireCap /\ flush)
  <2>1. CASE up.need_flush
    BY <1>7, <2>1
  <2>2. CASE ~up.need_flush
    BY <1>3, <1>6, <2>2 DEF IInv, Written
  <2> QED  BY <2>1, <2>2
<1>20. Waiting'
  BY <1>1, <1>3, <1>9, <1>10, <1>19 DEF Waiting, Asleep, Full
<1> QED  BY <1>1, <1>2, <1>12, <1>15, <1>16, <1>17, <1>18, <1>20 DEF IInv

LEMMA UpShutdownStep == ASSUME IInv, UpShutdown PROVE IInv'
<1>1. UNCHANGED <<role, app, log, early, peer, inlog, read, pos, down>>
  BY DEF UpShutdown
<1>2. role = "client" /\ ClientLog
  BY VisionPollAssumption DEF IInv, TypeOK, ServerLog, UpShutdown
<1>3. log \in Logs /\ Len(log) \in Nat /\ up \in Ups /\ up.pc = "shutdown"
  BY DEF IInv, TypeOK, Logs, UpShutdown
<1>4. Drain(Len(log'), "down")
  BY <1>1 DEF UpShutdown
<1>5. /\ Drained /\ task' \in Tasks /\ hist' \in Hists /\ hist'.hasty = hist.hasty
      /\ task'.at = "down"
      /\ wrote' \in wrote .. Len(log') /\ wrote' <= peer.took + WireCap
      /\ (Blocks(Len(log)) <=> wrote' # Len(log))
  BY <1>1, <1>3, <1>4, DrainLeaves DEF IInv
<1>6. /\ up' \in Ups /\ up'.buf = up.buf /\ up'.taken = up.taken /\ up'.need_flush = up.need_flush
      /\ up'.pc = (IF wrote' # Len(log) THEN "shutdown" ELSE "done")
  BY <1>3, <1>5 DEF UpShutdown, Ups
<1>7. TypeOK'
  <2>1. wrote' \in peer.took .. Len(log)
    BY <1>1, <1>5 DEF IInv, TypeOK, Peers
  <2> QED  BY <1>1, <1>5, <1>6, <2>1 DEF IInv, TypeOK
<1>8. Handshaking' <=> Handshaking
  BY <1>1, HandshakingKept DEF IInv
<1>9. Given' = Given /\ Before' = Before /\ Closing /\ Closing'
  BY <1>3, <1>5, <1>6 DEF Given, Before, Closing
<1>10. ClientLog'
  BY <1>1, <1>2, <1>3, <1>5, <1>6, <1>8, <1>9 DEF ClientLog
<1>11. PeerHas'
  BY <1>1, <1>9 DEF IInv, PeerHas
<1>12. Incoming' /\ AppHas'
  BY <1>1, IncomingFrame, AppFrame DEF IInv
<1>13. Waiting'
  BY <1>1, <1>5, <1>6 DEF Waiting, Asleep, Drained, Full
<1>14. Written'
  BY <1>1, <1>5, <1>6 DEF Written, Drained
<1> QED  BY <1>1, <1>2, <1>7, <1>10, <1>11, <1>12, <1>13, <1>14 DEF IInv

(* poll_shutdown with the flush before it Pending. *)
LEMMA UpCloseBlockedStep == ASSUME IInv, UpClose, Blocks(Len(log)) PROVE IInv'
<1>1. UNCHANGED <<role, app, log, early, peer, inlog, read, pos, down, up>>
  BY DEF UpClose
<1>2. role = "client" /\ ClientLog
  BY VisionPollAssumption DEF IInv, TypeOK, ServerLog, UpClose
<1>3. log \in Logs /\ Len(log) \in Nat /\ up.pc = "copy" /\ up.taken = app.sent /\ app.closed
  BY DEF IInv, TypeOK, Logs, UpClose
<1>4. Drain(Len(log'), "down")
  BY <1>1 DEF UpClose
<1>5. /\ Drained /\ task' \in Tasks /\ hist' \in Hists /\ hist'.hasty = hist.hasty
      /\ task'.at = "down"
      /\ wrote' \in wrote .. Len(log') /\ wrote' <= peer.took + WireCap
      /\ wrote' # Len(log)
  BY <1>1, <1>3, <1>4, DrainLeaves DEF IInv
<1>6. wrote' \in peer.took .. Len(log)
  BY <1>1, <1>5 DEF IInv, TypeOK, Peers
<1>7. TypeOK'
  BY <1>1, <1>5, <1>6 DEF IInv, TypeOK
<1>8. Handshaking' <=> Handshaking
  BY <1>1, HandshakingKept DEF IInv
<1>9. Given' = Given /\ Before' = Before /\ ~Closing /\ ~Closing'
  BY <1>1, <1>3, <1>5 DEF Given, Before, Closing
<1>10. ClientLog'
  BY <1>1, <1>2, <1>3, <1>5, <1>8, <1>9 DEF ClientLog
<1>11. PeerHas'
  BY <1>1, <1>9 DEF IInv, PeerHas
<1>12. Incoming' /\ AppHas'
  BY <1>1, IncomingFrame, AppFrame DEF IInv
<1>13. Waiting'
  BY <1>1, <1>3, <1>5 DEF Waiting, Asleep, Drained, Full
<1>14. Written'
  BY <1>1, <1>3, <1>5 DEF Written, Drained
<1> QED  BY <1>1, <1>2, <1>7, <1>10, <1>11, <1>12, <1>13, <1>14 DEF IInv

(* close_notify is queued. *)
LEMMA UpCloseQueuesStep == ASSUME IInv, UpClose, ~Blocks(Len(log)) PROVE IInv'
<1> DEFINE n == Len(log')
           b == Blocks(n)
           h == Handshaking
<1>1. UNCHANGED <<role, app, early, peer, inlog, read, pos, down>>
  BY DEF UpClose
<1>2. role = "client" /\ ClientLog /\ role # "server"
  BY VisionPollAssumption DEF IInv, TypeOK, ServerLog, UpClose
<1>3. /\ log \in Logs /\ up \in Ups /\ task \in Tasks /\ hist \in Hists
      /\ up.pc = "copy" /\ up.buf = None /\ up.taken = app.sent /\ app.closed /\ up.taken \in Nat
      /\ wrote \in Nat /\ peer.took \in Nat /\ wrote \in peer.took .. Len(log)
      /\ wrote <= peer.took + WireCap /\ WireCap \in Nat
  <2>1. /\ log \in Logs /\ up \in Ups /\ task \in Tasks /\ hist \in Hists
        /\ up.pc = "copy" /\ up.buf = None /\ up.taken = app.sent /\ app.closed
    BY DEF IInv, TypeOK, UpClose
  <2>2. up.taken \in Nat
    BY <2>1 DEF Ups
  <2>3. /\ wrote \in Nat /\ peer.took \in Nat /\ wrote \in peer.took .. Len(log)
        /\ wrote <= peer.took + WireCap /\ WireCap \in Nat
    BY VisionPollAssumption DEF IInv, TypeOK, Peers, Logs
  <2> QED  BY <2>1, <2>2, <2>3
<1>4. log' = Append(log, Notify) /\ Notify \in Record
  BY DEF UpClose, Notify, Ctl, Record
<1>5. log' \in Logs /\ n = Len(log) + 1 /\ n \in Nat /\ Len(log) \in Nat /\ log'[n] = Notify
      /\ \A i \in 1 .. Len(log) : log'[i] = log[i]
  BY <1>3, <1>4 DEF Logs
<1>6. wrote' = Reach(n)
  BY DEF UpClose
<1>7. /\ wrote' \in peer.took .. n /\ wrote' <= peer.took + WireCap /\ (b <=> wrote' # n)
      /\ wrote' = n \/ (wrote' = peer.took + WireCap /\ b)
  BY <1>3, <1>5, <1>6 DEF Reach, Blocks
<1>8. /\ up' = [up EXCEPT !.pc = IF b THEN "shutdown" ELSE "done"]
      /\ task' = [task EXCEPT !.at = "down", !.wakers = IF b THEN @ \cup {"out"} ELSE @]
      /\ hist' = [hist EXCEPT !.answered = FALSE, !.blocked = b, !.hasty = h]
  BY DEF UpClose
<1>9. b \in BOOLEAN /\ h \in BOOLEAN
  BY DEF Blocks, Handshaking, HandshakingAt
<1> HIDE DEF b, n, h
<1>10. /\ up' \in Ups /\ up'.buf = None /\ up'.taken = up.taken
       /\ (b => up'.pc = "shutdown") /\ (~b => up'.pc = "done")
  BY <1>3, <1>8 DEF Ups
<1>11. /\ task' \in Tasks /\ task'.at = "down" /\ (b => "out" \in task'.wakers)
  BY <1>3, <1>8 DEF Tasks
<1>12. /\ hist' \in Hists /\ hist'.answered = FALSE /\ hist'.blocked = b /\ hist'.hasty = h
  BY <1>3, <1>8, <1>9 DEF Hists
<1>13. TypeOK'
  BY <1>1, <1>3, <1>5, <1>7, <1>10, <1>11, <1>12 DEF IInv, TypeOK, n
<1>14. Handshaking' <=> Handshaking
  BY <1>1, HandshakingKept DEF IInv
<1>15. ~hist.hasty /\ ~Closing /\ Before = 2 /\ Given = up.taken /\ Given' = up.taken /\ Closing'
  BY <1>2, <1>3, <1>10 DEF ClientLog, Closing, Before, Given
<1>16. /\ Handshaking => Before' = 3 /\ hist'.hasty
       /\ ~Handshaking => Before' = 2 /\ ~hist'.hasty
  BY <1>12 DEF Before, h
<1>17. log # <<>> /\ log[1] = Hello /\ log' # <<>> /\ log'[1] = Hello
  BY <1>2, <1>3, <1>5 DEF ClientLog, Logs, n
<1>18. ClientLog'
  <2>1. CASE Handshaking
    <3>3. Len(log) = 1
      BY <1>2, <1>15, <2>1 DEF ClientLog
    <3>1. Len(log) = 1 /\ n = 2 /\ Before' = 3 /\ hist'.hasty /\ log'[2] = Notify
      BY <1>5, <1>16, <2>1, <3>3
    <3>2. Len(early) = Given' /\ \A i \in 1 .. Len(early) : early[i] = i
      BY <1>2, <1>15, <2>1 DEF ClientLog
    <3> QED  BY <1>1, <1>3, <1>10, <1>14, <1>15, <1>17, <2>1, <3>1, <3>2 DEF ClientLog, n
  <2>2. CASE ~Handshaking
    <3>4. Len(log) = 2 + up.taken
      BY <1>2, <1>3, <1>15, <2>2 DEF ClientLog
    <3>5. early = <<>> /\ log[2] = Finished /\ \A i \in 1 .. up.taken : log[2 + i] = Data(i)
      BY <1>2, <1>15, <2>2 DEF ClientLog
    <3>1. Before' = 2 /\ ~hist'.hasty
      BY <1>16, <2>2
    <3>6. 2 \in 1 .. Len(log) /\ \A i \in 1 .. up.taken : 2 + i \in 1 .. Len(log)
      BY <1>3, <3>4
    <3>7. n = 2 + up.taken + 1
      BY <1>5, <3>4
    <3>2. n = 2 + up.taken + 1 /\ log'[2] = Finished /\ \A i \in 1 .. up.taken : log'[2 + i] = Data(i)
      BY <1>5, <3>5, <3>6, <3>7
    <3>3. up'.pc = "done" => wrote' = n
      BY <1>7, <1>9, <1>10
    <3> QED  BY <1>1, <1>3, <1>5, <1>10, <1>14, <1>15, <1>17, <2>2, <3>1, <3>2, <3>3, <3>5
             DEF ClientLog, n
  <2> QED  BY <2>1, <2>2
<1>19. PeerHas'
  <2>1. CASE Handshaking
    <3>1. Len(log) = 1 /\ Before' = 3
      BY <1>2, <1>15, <1>16, <2>1 DEF ClientLog
    <3>2. peer.took <= 1
      BY <1>3, <3>1
    <3> QED  BY <1>1, <1>3, <1>15, <3>1, <3>2 DEF IInv, PeerHas
  <2>2. CASE ~Handshaking
    <3>1. Before' = Before /\ Given' = Given
      BY <1>15, <1>16, <2>2
    <3> QED  BY <1>1, <3>1 DEF IInv, PeerHas
  <2> QED  BY <2>1, <2>2
<1>20. Incoming' /\ AppHas'
  BY <1>1, IncomingFrame, AppFrame DEF IInv
<1>21. Waiting'
  BY <1>1, <1>7, <1>10, <1>11 DEF Waiting, Asleep, Full, n
<1>22. Written'
  BY <1>7, <1>10, <1>11, <1>12 DEF Written, n
<1> QED  BY <1>1, <1>2, <1>13, <1>18, <1>19, <1>20, <1>21, <1>22 DEF IInv

LEMMA UpCloseStep == ASSUME IInv, UpClose PROVE IInv'
BY UpCloseBlockedStep, UpCloseQueuesStep

-----------------------------------------------------------------------------
(* The stream to the application. *)

(* An item that was not handed over has a number above those that were. *)
LEMMA PlainItem ==
  ASSUME IInv, NEW i \in Plain(read)
  PROVE  /\ i \in 1 .. Len(inlog) /\ i > pos /\ i <= read
         /\ inlog[i][2] \in Len(app.got) + 1 .. peer.sent /\ IsData(inlog[i])
<1>1. pos \in Nat /\ read \in Nat /\ Len(inlog) \in Nat /\ read <= Len(inlog)
      /\ i \in pos + 1 .. read /\ IsData(inlog[i])
  BY DEF IInv, TypeOK, Logs, Plain
<1>2. i \in 1 .. Len(inlog) /\ ~(i <= pos)
  BY <1>1
<1>3. inlog[i][2] \in 1 .. peer.sent /\ (i <= pos <=> inlog[i][2] <= Len(app.got))
  BY <1>1, <1>2 DEF IInv, Incoming, AppHas
<1>4. peer.sent \in Nat /\ Len(app.got) \in Nat
  BY DEF IInv, TypeOK, Peers, Apps, Items
<1> QED  BY <1>1, <1>2, <1>3, <1>4

(* The item after those that were handed over is somewhere behind them. *)
LEMMA NextItem ==
  ASSUME IInv, Len(app.got) < peer.sent
  PROVE  \E j \in 1 .. Len(inlog) :
           /\ inlog[j] = Data(Len(app.got) + 1) /\ IsData(inlog[j])
           /\ inlog[j][2] = Len(app.got) + 1 /\ j > pos
<1> DEFINE u == Len(app.got) + 1
<1>1. peer.sent \in Nat /\ Len(app.got) \in Nat /\ pos \in Nat /\ Len(inlog) \in Nat
  BY DEF IInv, TypeOK, Peers, Apps, Items, Logs
<1>2. u \in 1 .. peer.sent
  BY <1>1
<1>3. PICK j \in 1 .. Len(inlog) : inlog[j] = Data(u)
  BY <1>2 DEF IInv, Incoming
<1>4. IsData(inlog[j]) /\ inlog[j][2] = u
  BY <1>3 DEF IsData, Data
<1>5. j <= pos <=> u <= Len(app.got)
  BY <1>4 DEF IInv, AppHas
<1> QED  BY <1>1, <1>3, <1>4, <1>5

LEMMA DownReadStep == ASSUME IInv, DownRead PROVE IInv'
<1>1. UNCHANGED <<role, log, wrote, early, peer, inlog, read, up, down, task, hist>>
  BY DEF DownRead, session
<1>2. PICK i \in Plain(read) :
        /\ \A j \in Plain(read) : i <= j
        /\ app' = [app EXCEPT !.got = Append(@, inlog[i][2])]
        /\ pos' = i
  BY DEF DownRead
<1> DEFINE v == inlog[i][2]
           n == Len(app.got)
<1>3. /\ i \in 1 .. Len(inlog) /\ i > pos /\ i <= read
      /\ v \in n + 1 .. peer.sent /\ IsData(inlog[i])
  BY PlainItem
<1>4. peer.sent \in Nat /\ n \in Nat /\ read \in Nat /\ pos \in Nat /\ Len(inlog) \in Nat
      /\ app \in Apps /\ app.got \in Items /\ read <= Len(inlog)
  BY DEF IInv, TypeOK, Peers, Apps, Items, Logs
<1>5. v = n + 1
  <2>1. SUFFICES ASSUME v # n + 1 PROVE FALSE
    OBVIOUS
  <2>2. PICK j \in 1 .. Len(inlog) : IsData(inlog[j]) /\ inlog[j][2] = n + 1 /\ j > pos
    BY <1>3, <1>4, NextItem
  <2>3. ~(i < j)
    <3>1. i < j => v < inlog[j][2]
      BY <1>3, <2>2 DEF IInv, Incoming
    <3> QED  BY <1>3, <1>4, <2>2, <3>1
  <2>4. j \in pos + 1 .. read
    BY <1>3, <1>4, <2>2, <2>3
  <2>5. i <= j
    BY <1>2, <2>2, <2>4 DEF Plain
  <2> QED  BY <1>3, <2>1, <2>2, <2>3, <2>5
<1>6. v \in Nat
  BY <1>4, <1>5
<1>7. app' = [app EXCEPT !.got = Append(@, v)] /\ pos' = i
  BY <1>2
<1> HIDE DEF v
<1>8. /\ app' \in Apps /\ app'.got = Append(app.got, v) /\ app'.eof = app.eof
      /\ app'.sent = app.sent /\ app'.closed = app.closed
  BY <1>4, <1>6, <1>7, AppGot DEF Apps
<1>9. TypeOK'
  <2>1. pos' \in 0 .. read
    BY <1>3, <1>4, <1>7
  <2> QED  BY <1>1, <1>8, <2>1 DEF IInv, TypeOK
<1>10. Handshaking' <=> Handshaking
  BY <1>1, HandshakingKept DEF IInv
<1>11. (role = "server" => ServerLog)' /\ (role = "client" => ClientLog)'
  BY <1>1, <1>8, <1>10, ServerFrame, ClientFrame DEF IInv
<1>12. PeerHas' /\ Incoming'
  BY <1>1, PeerFrame, IncomingFrame DEF IInv
<1>13. AppHas'
  <2>1. Len(app'.got) = n + 1 /\ app'.got[n + 1] = v /\ \A j \in 1 .. n : app'.got[j] = app.got[j]
    BY <1>4, <1>6, <1>8 DEF Items
  <2>2. \A j \in 1 .. n + 1 : app'.got[j] = j
    BY SMTT(60), <1>4, <1>5, <2>1 DEF IInv, AppHas
  <2>3. \A j \in 1 .. Len(inlog) : IsData(inlog[j]) => (j <= i <=> inlog[j][2] <= n + 1)
    <3> SUFFICES ASSUME NEW j \in 1 .. Len(inlog), IsData(inlog[j])
                 PROVE  j <= i <=> inlog[j][2] <= n + 1
      OBVIOUS
    <3>1. inlog[j][2] \in 1 .. peer.sent
      BY DEF IInv, Incoming
    <3>2. j < i => inlog[j][2] < v
      BY <1>3 DEF IInv, Incoming, v
    <3>3. i < j => v < inlog[j][2]
      BY <1>3 DEF IInv, Incoming, v
    <3>4. i = j => v = inlog[j][2]
      BY DEF v
    <3> QED  BY SMTT(60), <1>3, <1>4, <1>5, <3>1, <3>2, <3>3, <3>4
  <2>4. ~app.eof
    BY <1>3, <1>4, <1>5 DEF IInv, AppHas
  <2>5. n + 1 <= peer.sent
    BY <1>3, <1>4, <1>5
  <2> QED  BY <1>1, <1>7, <1>8, <2>1, <2>2, <2>3, <2>4, <2>5 DEF AppHas
<1>14. Waiting' /\ Written'
  BY <1>1, <1>8, <1>10 DEF IInv, Waiting, Asleep, Full, Written
<1> QED  BY <1>9, <1>11, <1>12, <1>13, <1>14 DEF IInv

LEMMA DownEofStep == ASSUME IInv, DownEof PROVE IInv'
<1>1. UNCHANGED <<role, log, wrote, early, peer, inlog, read, pos, up, task>>
  BY DEF DownEof, session
<1>2. hist' \in Hists /\ hist'.silent = FALSE /\ hist'.answered = hist.answered
      /\ hist'.blocked = hist.blocked /\ hist'.hasty = hist.hasty
  BY DEF IInv, TypeOK, DownEof, Hists
<1>3. /\ app' \in Apps /\ app'.got = app.got /\ app'.eof = TRUE
      /\ app'.sent = app.sent /\ app'.closed = app.closed /\ down' = "done"
  BY AppUpdates DEF IInv, TypeOK, DownEof, Apps
<1>4. TypeOK'
  BY <1>1, <1>2, <1>3 DEF IInv, TypeOK
<1>5. Handshaking' <=> Handshaking
  BY <1>1, HandshakingKept DEF IInv
<1>6. (role = "server" => ServerLog)' /\ (role = "client" => ClientLog)'
  BY <1>1, <1>2, <1>3, <1>5, ServerFrame, ClientFrame DEF IInv
<1>7. PeerHas' /\ Incoming'
  BY <1>1, <1>2, PeerFrame, IncomingFrame DEF IInv
<1>8. read \in Nat /\ Len(inlog) \in Nat /\ read <= Len(inlog) /\ pos \in Nat
      /\ peer.sent \in Nat /\ Len(app.got) \in Nat /\ Len(app.got) <= peer.sent
  BY DEF IInv, TypeOK, Logs, Peers, Apps, Items, AppHas
<1>9. Took(Notify, Len(inlog)) /\ read = Len(inlog)
  <2>1. PICK j \in 1 .. read : inlog[j] = Notify
    BY DEF DownEof, Notified, Took
  <2>2. j \in 1 .. Len(inlog)
    BY <1>8
  <2>3. j = Len(inlog)
    BY <2>1, <2>2 DEF IInv, Incoming
  <2> QED  BY <1>8, <2>1, <2>2, <2>3 DEF Took
<1>10. Len(app.got) = peer.sent
  <2>1. SUFFICES ASSUME Len(app.got) < peer.sent PROVE FALSE
    BY <1>8
  <2>2. PICK j \in 1 .. Len(inlog) : IsData(inlog[j]) /\ j > pos
    BY <2>1, NextItem
  <2>3. j \in pos + 1 .. read
    BY <1>8, <1>9, <2>2
  <2>4. j \in Plain(read)
    BY <2>2, <2>3 DEF Plain
  <2> QED  BY <2>4 DEF DownEof, Reading
<1>11. AppHas'
  BY <1>1, <1>3, <1>9, <1>10 DEF IInv, AppHas, Took, DownEof
<1>12. Waiting' /\ Written'
  BY <1>1, <1>2, <1>3, <1>5 DEF IInv, Waiting, Asleep, Full, Written
<1> QED  BY <1>4, <1>6, <1>7, <1>11, <1>12 DEF IInv

(* What rustls answers to a read of the server's, and of the client's.      *)
LEMMA ServerAnswer ==
  ASSUME role = "server", NEW n
  PROVE  Answer(n) = <<Flight>> \/ Answer(n) = <<>>
BY DEF Answer

LEMMA ClientAnswer ==
  ASSUME role = "client", early \in Items, NEW n
  PROVE  /\ Handshaking /\ ~HandshakingAt(n) =>
              /\ Answer(n) \in Logs /\ Len(Answer(n)) = Len(early) + 1
              /\ Answer(n)[1] = Finished
              /\ \A i \in 1 .. Len(early) : Answer(n)[1 + i] = Data(early[i])
         /\ ~(Handshaking /\ ~HandshakingAt(n)) => Answer(n) = <<>>
<1> DEFINE d == [i \in DOMAIN early |-> Data(early[i])]
<1>1. role # "server"
  OBVIOUS
<1>2. Handshaking /\ ~HandshakingAt(n) => Answer(n) = <<Finished>> \o d
  BY <1>1 DEF Answer
<1>3. Finished \in Record /\ \A x \in Nat : Data(x) \in Record
  BY DEF Finished, Ctl, Data, Record
<1>4. early \in Seq(Nat) /\ DOMAIN early = 1 .. Len(early) /\ Len(early) \in Nat
  BY DEF Items
<1>5. d \in Seq(Record) /\ Len(d) = Len(early) /\ \A i \in 1 .. Len(early) : d[i] = Data(early[i])
  BY <1>3, <1>4
<1> HIDE DEF d
<1>6. /\ <<Finished>> \o d \in Seq(Record) /\ Len(<<Finished>> \o d) = Len(early) + 1
      /\ (<<Finished>> \o d)[1] = Finished
      /\ \A i \in 1 .. Len(early) : (<<Finished>> \o d)[1 + i] = d[i]
  BY <1>3, <1>4, <1>5
<1>7. ~(Handshaking /\ ~HandshakingAt(n)) => Answer(n) = <<>>
  BY <1>1 DEF Answer
<1> QED  BY <1>2, <1>5, <1>6, <1>7 DEF Logs

(* Appending an answer keeps the log a prefix. *)
LEMMA Extended ==
  ASSUME NEW l \in Logs, NEW a \in Logs
  PROVE  /\ l \o a \in Logs /\ Len(l \o a) = Len(l) + Len(a)
         /\ \A i \in 1 .. Len(l) : (l \o a)[i] = l[i]
         /\ \A i \in 1 .. Len(a) : (l \o a)[Len(l) + i] = a[i]
         /\ Len(l) \in Nat /\ Len(a) \in Nat
         /\ a = <<>> => l \o a = l
BY DEF Logs

LEMMA ReceiveStep == ASSUME IInv, NEW k \in 1 .. Len(inlog), Receive(k) PROVE IInv'
<1> DEFINE n == read + k
           a == Answer(n)
           silent == Plain(read') = {} /\ ~Took(Notify, read')
<1>1. UNCHANGED <<role, app, wrote, peer, inlog, pos, up, down>>
  BY DEF Receive
<1>2. /\ read \in Nat /\ pos \in Nat /\ pos <= read /\ Len(inlog) \in Nat /\ Len(log) \in Nat
      /\ log \in Logs /\ early \in Items /\ role \in {"client", "server"}
      /\ task \in Tasks /\ hist \in Hists /\ task.at = "down"
  BY SMTT(60), VisionPollAssumption DEF IInv, TypeOK, Logs, Receive, Reading
<1>3. /\ read' = n /\ n \in Nat /\ read <= n /\ n <= Len(inlog)
      /\ log' = log \o a /\ early' = IF HandshakingAt(n) THEN early ELSE <<>>
  BY <1>2 DEF Receive
<1>4. /\ task' = [task EXCEPT !.at = IF silent THEN "parked" ELSE @]
      /\ hist' = [hist EXCEPT !.silent = silent, !.answered = @ \/ log' # log]
  BY DEF Receive
<1>5. silent \in BOOLEAN
  BY DEF Took
<1>6. Handshaking' <=> HandshakingAt(n)
  BY <1>1, <1>3 DEF Handshaking, HandshakingAt, Took
<1>7. ~Handshaking => ~HandshakingAt(n)
  BY <1>2, <1>3 DEF Handshaking, HandshakingAt, Took
<1>8. a \in Logs
  <2>1. CASE role = "server"
    <3>1. <<Flight>> \in Logs /\ <<>> \in Logs
      BY DEF Flight, Ctl, Record, Logs
    <3> QED  BY <2>1, <3>1, ServerAnswer
  <2>2. CASE role = "client"
    <3>1. <<>> \in Logs
      BY DEF Logs
    <3> QED  BY <1>2, <2>2, <3>1, ClientAnswer
  <2> QED  BY <1>2, <2>1, <2>2
<1> HIDE DEF a, n, silent
<1>9. /\ log' \in Logs /\ Len(log') = Len(log) + Len(a) /\ Len(a) \in Nat
      /\ \A i \in 1 .. Len(log) : log'[i] = log[i]
      /\ \A i \in 1 .. Len(a) : log'[Len(log) + i] = a[i]
      /\ (a = <<>> => log' = log)
  BY <1>2, <1>3, <1>8, Extended
<1>10. task' \in Tasks /\ task'.at = (IF silent THEN "parked" ELSE "down")
       /\ task'.woken = task.woken /\ task'.wakers = task.wakers
  BY <1>2, <1>4 DEF Tasks
<1>11. hist' \in Hists /\ (hist'.answered <=> hist.answered \/ log' # log)
       /\ hist'.blocked = hist.blocked /\ hist'.hasty = hist.hasty /\ hist'.silent = silent
  <2> DEFINE f == hist.answered \/ log' # log
  <2>1. f \in BOOLEAN /\ hist' = [hist EXCEPT !.silent = silent, !.answered = f]
    BY <1>2, <1>4 DEF Hists
  <2> HIDE DEF f
  <2>2. hist' \in Hists /\ hist'.answered = f
        /\ hist'.blocked = hist.blocked /\ hist'.hasty = hist.hasty /\ hist'.silent = silent
    BY <1>2, <1>5, <2>1 DEF Hists
  <2> QED  BY <2>2 DEF f
<1>12. early' \in Items /\ Len(early') <= SessCap
  BY <1>3, VisionPollAssumption DEF IInv, TypeOK, Items
<1>13. TypeOK'
  <2>1. wrote \in peer.took .. Len(log')
    BY <1>2, <1>9 DEF IInv, TypeOK, Peers
  <2>2. read' \in 0 .. Len(inlog) /\ pos \in 0 .. read'
    BY <1>2, <1>3
  <2> QED  BY <1>1, <1>9, <1>10, <1>11, <1>12, <2>1, <2>2 DEF IInv, TypeOK
<1>14. (role = "server" => ServerLog)'
  <2>1. SUFFICES ASSUME role = "server" PROVE ServerLog'
    BY <1>1
  <2>2. ServerLog
    BY <2>1 DEF IInv
  <2>3. log' # <<>> => hist'.answered
    BY <1>11, <2>2 DEF ServerLog
  <2>4. early' = <<>>
    BY <1>3, <2>2 DEF ServerLog
  <2> QED  BY <1>1, <1>10, <1>11, <2>2, <2>3, <2>4 DEF ServerLog
<1>15. role = "client" /\ ~(Handshaking /\ ~HandshakingAt(n)) =>
         log' = log /\ early' = early /\ (Handshaking' <=> Handshaking)
  <2>1. SUFFICES ASSUME role = "client", ~(Handshaking /\ ~HandshakingAt(n))
                 PROVE  log' = log /\ early' = early /\ (Handshaking' <=> Handshaking)
    OBVIOUS
  <2>2. a = <<>>
    BY <1>2, <2>1, ClientAnswer DEF a
  <2>3. ~Handshaking => early = <<>>
    BY <2>1 DEF IInv, ClientLog
  <2> QED  BY <1>3, <1>6, <1>7, <1>9, <2>1, <2>2, <2>3
<1>16. (role = "client" => ClientLog)'
  <2>1. SUFFICES ASSUME role = "client" PROVE ClientLog'
    BY <1>1
  <2>2. ClientLog
    BY <2>1 DEF IInv
  <2>3. Before' = Before /\ Given' = Given /\ (Closing' <=> Closing) /\ Before \in {2, 3}
        /\ Given \in Nat
    BY <1>1, <1>11 DEF IInv, TypeOK, Before, Given, Closing, None, Ups
  <2>4. CASE ~(Handshaking /\ ~HandshakingAt(n))
    BY <1>1, <1>11, <1>15, <2>1, <2>2, <2>3, <2>4 DEF ClientLog
  <2>5. CASE Handshaking /\ ~HandshakingAt(n)
    <3>1. /\ Len(log) = Before - 1 /\ (Closing => hist.hasty) /\ Len(early) = Given
          /\ \A i \in 1 .. Len(early) : early[i] = i
      BY <2>2, <2>5 DEF ClientLog
    <3>2. /\ Len(a) = Len(early) + 1 /\ a[1] = Finished
          /\ \A i \in 1 .. Len(early) : a[1 + i] = Data(early[i])
      BY <1>2, <2>1, <2>5, ClientAnswer DEF a
    <3>3. ~Handshaking' /\ early' = <<>>
      BY <1>3, <1>6, <2>5
    <3>4. Len(log') = Before + Given
      BY <1>2, <1>9, <2>3, <3>1, <3>2
    <3>5. log'[Before] = Finished
      <4>1. 1 \in 1 .. Len(a) /\ Len(log) + 1 = Before
        BY <2>3, <3>1, <3>2
      <4> QED  BY <1>9, <3>2, <4>1
    <3>6. \A i \in 1 .. Given : log'[Before + i] = Data(i)
      <4> SUFFICES ASSUME NEW i \in 1 .. Given PROVE log'[Before + i] = Data(i)
        OBVIOUS
      <4>1. 1 + i \in 1 .. Len(a) /\ Len(log) + (1 + i) = Before + i /\ i \in 1 .. Len(early)
        BY <2>3, <3>1, <3>2
      <4>2. log'[Before + i] = a[1 + i]
        BY <1>9, <4>1
      <4> QED  BY <3>1, <3>2, <4>1, <4>2
    <3>7. log' # <<>> /\ log'[1] = Hello
      <4>1. log # <<>> /\ log[1] = Hello /\ 1 \in 1 .. Len(log)
        BY <1>2, <2>2, <2>3, <3>1 DEF ClientLog
      <4>2. Len(log') # 0
        BY <2>3, <3>4
      <4> QED  BY <1>9, <4>1, <4>2
    <3>8. hist.hasty => Closing /\ Len(log') >= 2 /\ log'[2] = Notify
      <4>1. hist.hasty => Closing /\ Len(log) >= 2 /\ log[2] = Notify
        BY <2>2 DEF ClientLog
      <4>2. hist.hasty => 2 \in 1 .. Len(log) /\ Len(log') >= 2
        BY <1>2, <1>9, <4>1
      <4> QED  BY <1>9, <4>1, <4>2
    <3>9. /\ up.pc # "none" /\ (up.pc = "connect" => up.taken <= 1)
          /\ (Closing => up.buf = None /\ up.taken = app.sent /\ app.closed)
      BY <2>2 DEF ClientLog
    <3>10. up.pc = "done" => hist.hasty
      BY <3>1 DEF Closing
    <3>11. ~(Closing' /\ ~hist'.hasty) /\ hist'.hasty = hist.hasty
      BY <1>11, <2>3, <3>1
    <3>12. Len(log') = Before' + Given' + (IF Closing' /\ ~hist'.hasty THEN 1 ELSE 0)
      BY <2>3, <3>4, <3>11
    <3> QED  BY <1>1, <2>3, <3>3, <3>5, <3>6, <3>7, <3>8, <3>9, <3>10, <3>11, <3>12 DEF ClientLog
  <2> QED  BY <2>4, <2>5
<1>17. PeerHas' /\ Incoming'
  BY <1>1, <1>11, PeerFrame, IncomingFrame DEF IInv
<1>18. AppHas'
  BY <1>1, AppFrame DEF IInv
<1>19. Waiting'
  <2>1. Asleep' => Asleep /\ task.at = "down"
    BY <1>2, <1>10 DEF Asleep
  <2>2. wrote < Len(log) => wrote < Len(log')
    BY <1>2, <1>9 DEF IInv, TypeOK
  <2>3. task'.at = "parked" => hist'.silent
    BY <1>10, <1>11
  <2>4. ~hist'.answered => log' = log /\ ~hist.answered
    BY <1>11
  <2> QED  BY <1>1, <1>10, <2>1, <2>2, <2>3, <2>4 DEF IInv, Waiting, Full
<1>20. Written'
  <2>1. ~hist'.answered => log' = log /\ ~hist.answered
    BY <1>11
  <2>2. task'.at # "spin"
    BY <1>10
  <2>3. ASSUME ~Handshaking', ~hist'.blocked, ~hist'.answered PROVE wrote' = Len(log')
    <3>1. CASE role = "server"
      <4>1. wrote = 0 /\ log = <<>>
        BY <2>1, <2>3, <3>1 DEF IInv, ServerLog
      <4> QED  BY <1>1, <2>1, <2>3, <4>1
    <3>2. CASE role = "client"
      <4>1. ~Handshaking
        <5>1. SUFFICES ASSUME Handshaking PROVE FALSE
          OBVIOUS
        <5>2. Handshaking /\ ~HandshakingAt(n)
          BY <1>6, <2>3, <5>1
        <5>3. Len(a) = Len(early) + 1 /\ Len(early) \in Nat
          BY <1>2, <3>2, <5>2, ClientAnswer DEF a, Items
        <5>4. Len(log') # Len(log)
          BY <1>2, <1>9, <5>3
        <5> QED  BY <2>1, <2>3, <5>4
      <4> QED  BY <1>1, <1>11, <2>1, <2>3, <4>1 DEF IInv, Written
    <3> QED  BY <1>2, <3>1, <3>2
  <2>4. up'.pc = "copy" /\ ~up'.need_flush /\ ~hist'.answered /\ ~app'.closed => wrote' = Len(log')
    BY <1>1, <2>1 DEF IInv, Written
  <2> QED  BY <2>2, <2>3, <2>4 DEF Written
<1> QED  BY <1>13, <1>14, <1>16, <1>17, <1>18, <1>19, <1>20 DEF IInv

-----------------------------------------------------------------------------
(* The inductive invariant. *)

LEMMA StutterStep == ASSUME IInv, UNCHANGED vars PROVE IInv'
<1>1. UNCHANGED <<role, app, log, wrote, early, peer, inlog, read, pos, up, down, task, hist>>
  BY DEF vars
<1>3. Waiting'
  BY <1>1 DEF IInv, Waiting, Asleep, Full
<1>4. TypeOK'
  BY <1>1 DEF IInv, TypeOK
<1>5. Handshaking' <=> Handshaking
  BY <1>1, HandshakingKept DEF IInv
<1>6. (role = "server" => ServerLog)' /\ (role = "client" => ClientLog)'
  BY <1>1, <1>5, ServerFrame, ClientFrame DEF IInv
<1>7. PeerHas' /\ Incoming' /\ AppHas'
  BY <1>1, PeerFrame, IncomingFrame, AppFrame DEF IInv
<1>8. Written'
  BY <1>1, <1>5 DEF IInv, Written
<1> QED  BY <1>3, <1>4, <1>6, <1>7, <1>8 DEF IInv

LEMMA NextStep == ASSUME IInv, [Next]_vars PROVE IInv'
<1>1. CASE Own
  BY <1>1, PolledStep, UpReadStep, UpWriteStep, UpSpinsStep, UpConnectedStep, UpPauseStep,
     UpCloseStep, UpShutdownStep, UpDoneStep, DownReadStep, ReceiveStep, DownWaitStep,
     DownEofStep, FailStep, DownDoneStep DEF Own
<1>2. CASE External
  BY <1>2, AppSendStep, AppCloseStep, PeerSendStep, PeerShutsStep, PeerTakesStep, FailStep
     DEF External
<1> QED  BY <1>1, <1>2, StutterStep DEF Next

(* IInv holds in every state of every execution of one end's task.         *)
THEOREM Inductive == Spec => []IInv
<1>1. Init => IInv
  BY InitInv
<1>2. IInv /\ [Next]_vars => IInv'
  BY NextStep
<1> QED  BY <1>1, <1>2, PTL DEF Spec

(* Types; the socket never holds more than it takes, the session's buffer   *)
(* stays within its limit, nothing is read before it was sent.              *)
THEOREM TypeCorrect == Spec => []TypeOK
<1>1. IInv => TypeOK
  BY DEF IInv
<1> QED  BY <1>1, Inductive, PTL

(* A parked task has been woken for everything it could go on with, but for *)
(* what a poll_read that ended at a silent record left behind.              *)
THEOREM WakersAreKept == Spec => []StallsOnlyAfterSilence
<1>1. ASSUME IInv, task.at = "parked", ~task.woken
      PROVE  /\ ~(role = "client" /\ up.pc = "copy" /\ (up.taken < app.sent \/ app.closed)
                    /\ ~Blocks(Len(log)))
             /\ down = "copy" /\ up.pc # "connect" /\ (read < Len(inlog) \/ peer.shut) => hist.silent
             /\ up.pc # "done" /\ wrote < Reach(Len(log)) => hist.answered
  <2>1. Asleep /\ Waiting
    BY <1>1 DEF IInv, Asleep
  <2>2. wrote \in Nat /\ Len(log) \in Nat /\ peer.took + WireCap \in Nat /\ read \in Nat
        /\ Len(inlog) \in Nat /\ app.sent \in Nat
    BY SMTT(60), <1>1, VisionPollAssumption DEF IInv, TypeOK, Logs, Peers, Apps
  <2>3. ~(role = "client" /\ up.pc = "copy" /\ (up.taken < app.sent \/ app.closed) /\ ~Blocks(Len(log)))
    <3>1. SUFFICES ASSUME role = "client", up.pc = "copy" PROVE ~((up.taken < app.sent \/ app.closed) /\ ~Blocks(Len(log)))
      OBVIOUS
    <3>2. up.taken = app.sent /\ (app.closed => wrote = peer.took + WireCap /\ wrote < Len(log))
      BY <2>1, <3>1 DEF Waiting, Full
    <3>3. app.closed => Blocks(Len(log))
      BY <2>2, <3>2 DEF Blocks, Reach
    <3>4. ~(up.taken < app.sent)
      BY <2>2, <3>2
    <3> QED  BY <3>3, <3>4
  <2>4. down = "copy" /\ up.pc # "connect" /\ (read < Len(inlog) \/ peer.shut) => hist.silent
    BY <1>1, <2>1, <2>2 DEF Waiting
  <2>5. up.pc # "done" /\ wrote < Reach(Len(log)) => hist.answered
    <3>1. up.pc # "done" /\ ~hist.answered => wrote = Len(log) \/ wrote = peer.took + WireCap
      BY <2>1 DEF Waiting, Full
    <3>2. Reach(Len(log)) <= Len(log) /\ Reach(Len(log)) <= peer.took + WireCap /\ Reach(Len(log)) \in Nat
      BY <2>2 DEF Reach
    <3>3. wrote < Reach(Len(log)) => wrote # Len(log) /\ wrote # peer.took + WireCap
      BY <2>2, <3>2
    <3> QED  BY <3>1, <3>3
  <2> QED  BY <2>3, <2>4, <2>5
<1>2. IInv => StallsOnlyAfterSilence
  BY <1>1 DEF StallsOnlyAfterSilence
<1> QED  BY <1>2, Inductive, PTL

(* A poll_shutdown that is Ready after the handshake leaves nothing behind: *)
(* every item is on the wire, in front of close_notify.                     *)
THEOREM ShutdownIsComplete == Spec => []CloseLosesNothing
<1>1. ASSUME IInv, up.pc = "done", ~hist.hasty
      PROVE  /\ wrote = Len(log) /\ log[wrote] = Notify /\ early = <<>>
             /\ \A v \in 1 .. app.sent : \E i \in 1 .. wrote : log[i] = Data(v)
  <2>1. role = "client"
    BY <1>1, VisionPollAssumption DEF IInv, TypeOK, ServerLog
  <2>2. ClientLog /\ Closing
    BY <1>1, <2>1 DEF IInv, Closing
  <2>3. ~Handshaking
    BY <1>1, <2>2 DEF ClientLog
  <2>4. wrote = Len(log) /\ log[Len(log)] = Notify /\ early = <<>>
    BY <1>1, <2>2, <2>3 DEF ClientLog
  <2>5. Before = 2 /\ Given = app.sent /\ app.sent \in Nat
    BY <1>1, <2>2 DEF IInv, TypeOK, ClientLog, Before, Given, Apps
  <2>6. Len(log) = 2 + app.sent + 1 /\ \A v \in 1 .. app.sent : log[2 + v] = Data(v)
    BY <1>1, <2>2, <2>3, <2>5 DEF ClientLog
  <2>7. \A v \in 1 .. app.sent : 2 + v \in 1 .. wrote
    BY <2>4, <2>5, <2>6
  <2> QED  BY <2>4, <2>6, <2>7
<1>2. IInv => CloseLosesNothing
  BY <1>1 DEF CloseLosesNothing
<1> QED  BY <1>2, Inductive, PTL

(* The loop of poll_write that never ends has a full session to blame,      *)
(* which the handshake, the socket or an unwritten answer fills.            *)
THEOREM SpinsAreExplained == Spec => []SpinsOnlyWhenHeldBack
<1>1. IInv => SpinsOnlyWhenHeldBack
  BY DEF IInv, Written, SpinsOnlyWhenHeldBack
<1> QED  BY <1>1, Inductive, PTL

(* An end of the stream that poll_read reports is the peer's close_notify,  *)
(* and everything before it was handed over.                                *)
THEOREM EndIsTheEnd == Spec => []EndIsNotified
<1>1. IInv => EndIsNotified
  BY DEF IInv, AppHas, EndIsNotified
<1> QED  BY <1>1, Inductive, PTL

-----------------------------------------------------------------------------
(* The refinement of ByteStream, in both directions. *)

LEMMA Counted ==
  ASSUME NEW n \in Nat, NEW m \in Nat, n <= m
  PROVE  /\ Upload!Extends([i \in 1 .. m |-> i], [i \in 1 .. n |-> i])
         /\ Download!Extends([i \in 1 .. m |-> i], [i \in 1 .. n |-> i])
BY DEF Upload!Extends, Download!Extends

LEMMA CountedPrefix ==
  ASSUME NEW g \in Items, NEW m \in Nat, Len(g) <= m, \A i \in 1 .. Len(g) : g[i] = i
  PROVE  /\ Upload!Extends([i \in 1 .. m |-> i], g)
         /\ Download!Extends([i \in 1 .. m |-> i], g)
BY DEF Upload!Extends, Download!Extends, Items

LEMMA Appended ==
  ASSUME NEW g \in Items, NEW v \in Nat
  PROVE  Upload!Extends(Append(g, v), g) /\ Download!Extends(Append(g, v), g)
BY DEF Upload!Extends, Download!Extends, Items

LEMMA ReceivedIsPrefix ==
  IInv => /\ Upload!Extends([i \in 1 .. up.taken |-> i], peer.got)
          /\ Download!Extends([i \in 1 .. peer.sent |-> i], app.got)
<1> SUFFICES ASSUME IInv
             PROVE  /\ Upload!Extends([i \in 1 .. up.taken |-> i], peer.got)
                    /\ Download!Extends([i \in 1 .. peer.sent |-> i], app.got)
  OBVIOUS
<1>1. /\ up.taken \in Nat /\ peer.sent \in Nat /\ peer.got \in Items /\ app.got \in Items
      /\ peer.took \in Nat /\ up.buf \in {None, up.taken} /\ up.buf \in Nat
  BY DEF IInv, TypeOK, Ups, Peers, Apps
<1>2. Given \in Nat /\ Given <= up.taken /\ Before \in Nat
  BY <1>1 DEF Given, None, Before
<1>3. Len(peer.got) <= up.taken
  BY SMTT(60), <1>1, <1>2 DEF IInv, PeerHas
<1>4. Len(app.got) <= peer.sent
  BY DEF IInv, AppHas
<1>5. (\A i \in 1 .. Len(peer.got) : peer.got[i] = i) /\ \A i \in 1 .. Len(app.got) : app.got[i] = i
  BY DEF IInv, PeerHas, AppHas
<1> QED  BY <1>1, <1>3, <1>4, <1>5, CountedPrefix

(* Which steps move a direction. *)
LEMMA OwnMoves ==
  ASSUME IInv, Own
  PROVE  /\ UpRead \/ UNCHANGED up.taken
         /\ UNCHANGED peer
         /\ DownRead \/ UNCHANGED app.got
<1>1. up \in Ups /\ app \in Apps
  BY DEF IInv, TypeOK
<1>2. UNCHANGED peer
  BY DEF Own, Polled, UpRead, UpWrite, UpSpins, UpConnected, UpPause, UpClose, UpShutdown, UpDone,
     DownRead, Receive, DownWait, DownEof, DownCut, DownDone
<1>3. UpRead \/ UNCHANGED up.taken
  <2>1. CASE UpWrite \/ UpConnected
    BY <1>1, <2>1 DEF UpWrite, UpConnected, Ups
  <2>2. CASE UpPause \/ UpClose \/ UpShutdown
    BY <1>1, <2>2 DEF UpPause, UpClose, UpShutdown, Ups
  <2>3. CASE Polled \/ UpSpins \/ UpDone \/ DownRead \/ DownWait \/ DownEof \/ DownCut \/ DownDone
             \/ \E k \in 1 .. Len(inlog) : Receive(k)
    BY <2>3 DEF Polled, UpSpins, UpDone, DownRead, Receive, DownWait, DownEof, DownCut, DownDone
  <2> QED  BY <2>1, <2>2, <2>3 DEF Own
<1>4. DownRead \/ UNCHANGED app.got
  <2>1. CASE DownEof
    BY <1>1, <2>1 DEF DownEof, Apps
  <2>2. CASE Polled \/ UpSpins \/ UpDone \/ DownWait \/ DownCut \/ DownDone
             \/ \E k \in 1 .. Len(inlog) : Receive(k)
    BY <2>2 DEF Polled, UpSpins, UpDone, Receive, DownWait, DownCut, DownDone
  <2>3. CASE UpRead \/ UpWrite \/ UpConnected \/ UpPause \/ UpClose \/ UpShutdown
    BY <2>3 DEF UpRead, UpWrite, UpConnected, UpPause, UpClose, UpShutdown
  <2> QED  BY <2>1, <2>2, <2>3 DEF Own
<1> QED  BY <1>2, <1>3, <1>4

LEMMA ExternalMoves ==
  ASSUME IInv, External
  PROVE  /\ PeerTakes \/ UNCHANGED peer.got
         /\ PeerSendsData \/ UNCHANGED peer.sent
         /\ UNCHANGED up /\ UNCHANGED app.got
<1>1. peer \in Peers /\ app \in Apps
  BY DEF IInv, TypeOK
<1>2. CASE AppSend \/ AppClose \/ InnerError
  BY <1>1, <1>2 DEF AppSend, AppClose, InnerError, Apps
<1>3. CASE PeerHandshakes \/ PeerNotifies
  BY <1>3 DEF PeerHandshakes, PeerNotifies, PeerSends
<1>4. CASE PeerSendsSilent \/ PeerSendsData \/ PeerShuts
  BY <1>1, <1>4 DEF PeerSendsSilent, PeerSendsData, PeerShuts, PeerSends, Peers
<1>5. CASE PeerTakes
  <2>1. peer'.sent = peer.sent
    BY <1>1, <1>5 DEF PeerTakes, Peers
  <2> QED  BY <1>5, <2>1 DEF PeerTakes
<1> QED  BY <1>2, <1>3, <1>4, <1>5 DEF External

LEMMA Moves ==
  ASSUME IInv, [Next]_vars
  PROVE  /\ UpRead \/ PeerTakes \/ UNCHANGED <<up.taken, peer.got>>
         /\ DownRead \/ PeerSendsData \/ UNCHANGED <<peer.sent, app.got>>
<1>1. CASE Own
  BY <1>1, OwnMoves
<1>2. CASE External
  BY <1>2, ExternalMoves
<1>3. CASE UNCHANGED vars
  BY <1>3 DEF vars
<1> QED  BY <1>1, <1>2, <1>3 DEF Next

LEMMA UploadStep ==
  ASSUME IInv, IInv', [Next]_vars
  PROVE  Upload!Next \/ UNCHANGED Upload!bsvars
<1>1. up \in Ups /\ up.taken \in Nat /\ peer \in Peers /\ peer.got \in Items /\ log \in Logs
  BY DEF IInv, TypeOK, Ups, Peers
<1>2. CASE UpRead
  <2>1. up'.taken = up.taken + 1 /\ peer' = peer
    BY <1>1, <1>2 DEF UpRead, Ups
  <2>2. Upload!Extends([i \in 1 .. up'.taken |-> i], [i \in 1 .. up.taken |-> i])
    BY <1>1, <2>1, Counted
  <2> QED  BY <2>1, <2>2 DEF Upload!Next, Upload!Write
<1>3. CASE PeerTakes
  <2> DEFINE r == log[peer.took + 1]
  <2>1. up' = up /\ peer'.got = IF IsData(r) THEN Append(peer.got, r[2]) ELSE peer.got
    BY <1>1, <1>3 DEF PeerTakes, Peers
  <2>2. r \in Record
    BY SMTT(60), <1>1, <1>3 DEF IInv, TypeOK, PeerTakes, Logs, Peers
  <2>3. r[2] \in Nat
    BY <2>2 DEF Record
  <2> HIDE DEF r
  <2>4. Upload!Extends([i \in 1 .. up'.taken |-> i], peer'.got)
    <3>1. (Upload!Extends([i \in 1 .. up.taken |-> i], peer.got))'
      BY PTL, ReceivedIsPrefix
    <3> QED  BY <3>1 DEF Upload!Extends
  <2>5. CASE IsData(r)
    <3>1. Upload!Extends(peer'.got, peer.got)
      BY <1>1, <2>1, <2>3, <2>5, Appended
    <3> QED  BY <2>1, <2>4, <3>1 DEF Upload!Next, Upload!Read
  <2>6. CASE ~IsData(r)
    BY <2>1, <2>6 DEF Upload!bsvars
  <2> QED  BY <2>5, <2>6
<1>4. CASE UNCHANGED <<up.taken, peer.got>>
  BY <1>4 DEF Upload!bsvars
<1> QED  BY <1>2, <1>3, <1>4, Moves

LEMMA DownloadStep ==
  ASSUME IInv, IInv', [Next]_vars
  PROVE  Download!Next \/ UNCHANGED Download!bsvars
<1>1. peer \in Peers /\ peer.sent \in Nat /\ app \in Apps /\ app.got \in Items
  BY DEF IInv, TypeOK, Peers, Apps
<1>5. (Download!Extends([i \in 1 .. peer.sent |-> i], app.got))'
  BY PTL, ReceivedIsPrefix
<1>2. CASE PeerSendsData
  <2>1. peer'.sent = peer.sent + 1 /\ app' = app
    BY <1>1, <1>2 DEF PeerSendsData, PeerSends, Peers
  <2> DEFINE n == peer.sent
             m == peer'.sent
  <2>2. Download!Extends([i \in 1 .. m |-> i], [i \in 1 .. n |-> i])
    <3>1. n \in Nat /\ m \in Nat /\ n <= m
      BY <1>1, <2>1
    <3> HIDE DEF n, m
    <3> QED  BY <3>1, Counted
  <2> QED  BY <2>1, <2>2 DEF Download!Next, Download!Write
<1>3. CASE DownRead
  <2>1. PICK k \in Plain(read) : app'.got = Append(app.got, inlog[k][2])
    BY <1>1, <1>3 DEF DownRead, Apps
  <2>2. peer' = peer
    BY <1>3 DEF DownRead
  <2>3. inlog[k][2] \in Nat
    <3>1. k \in 1 .. Len(inlog) /\ IsData(inlog[k])
      BY PlainItem
    <3> QED  BY <1>1, <3>1 DEF IInv, Incoming
  <2>4. Download!Extends([i \in 1 .. peer'.sent |-> i], app'.got)
    BY <1>5 DEF Download!Extends
  <2>5. Download!Extends(app'.got, app.got)
    BY <1>1, <2>1, <2>3, Appended
  <2> QED  BY <2>2, <2>4, <2>5 DEF Download!Next, Download!Read
<1>4. CASE UNCHANGED <<peer.sent, app.got>>
  BY <1>4 DEF Download!bsvars
<1> QED  BY <1>2, <1>3, <1>4, Moves

(* Each direction of the Vision stream under one end's task is a byte       *)
(* stream: nothing is lost, repeated or reordered between the application   *)
(* and the peer, whatever the socket holds back.                            *)
THEOREM Refinement == Spec => ImplementsByteStreams
<1>1. Init => Upload!Init /\ Download!Init
  <2> SUFFICES ASSUME Init PROVE Upload!Init /\ Download!Init
    OBVIOUS
  <2>1. up.taken = 0 /\ peer.got = <<>> /\ peer.sent = 0 /\ app.got = <<>>
    BY DEF Init
  <2>2. [i \in 1 .. 0 |-> i] = <<>>
    OBVIOUS
  <2> QED  BY <2>1, <2>2 DEF Upload!Init, Download!Init
<1>2. IInv /\ IInv' /\ [Next]_vars => [Upload!Next]_(Upload!bsvars)
  BY UploadStep
<1>3. IInv /\ IInv' /\ [Next]_vars => [Download!Next]_(Download!bsvars)
  BY DownloadStep
<1>4. Spec => Upload!Spec
  BY <1>1, <1>2, Inductive, PTL DEF Spec, Upload!Spec
<1>5. Spec => Download!Spec
  BY <1>1, <1>3, Inductive, PTL DEF Spec, Download!Spec
<1> QED  BY <1>4, <1>5 DEF ImplementsByteStreams
-----------------------------------------------------------------------------
(* Every step advances: a poll answers an event, and does something of its *)
(* own once.                                                               *)

LEMMA OneIs == \A b \in BOOLEAN : One(b) \in Nat /\ One(b) <= 1 /\ (b => One(b) = 1) /\ (~b => One(b) = 0)
BY DEF One

LEMMA StageIs ==
  /\ Stage("none") = 0 /\ Stage("connect") = 0 /\ Stage("copy") = 1 /\ Stage("shutdown") = 2
  /\ Stage("done") = 3
  /\ \A p \in {"none", "connect", "copy", "shutdown", "done"} : Stage(p) \in Nat /\ Stage(p) <= 3
<1>1. Stage("none") = 0 /\ Stage("connect") = 0
  BY DEF Stage
<1>2. Stage("copy") = 1
  BY DEF Stage
<1>3. Stage("shutdown") = 2
  BY DEF Stage
<1>4. Stage("done") = 3
  BY DEF Stage
<1> QED  BY <1>1, <1>2, <1>3, <1>4

LEMMA SpotIs ==
  /\ Spot("up") = 0 /\ Spot("down") = 1 /\ Spot("parked") = 2 /\ \A a \in Ended : Spot(a) = 3
  /\ \A a \in {"up", "down", "parked"} \cup Ended : Spot(a) \in Nat /\ Spot(a) <= 3
<1>1. Spot("up") = 0
  BY DEF Spot
<1>2. Spot("down") = 1
  BY DEF Spot
<1>3. Spot("parked") = 2
  BY DEF Spot
<1>4. \A a \in Ended : Spot(a) = 3
  BY DEF Spot, Ended
<1> QED  BY <1>1, <1>2, <1>3, <1>4

LEMMA GivenIs ==
  ASSUME TypeOK
  PROVE  /\ Given \in Nat /\ Given <= up.taken /\ up.taken \in Nat /\ up.taken <= app.sent
         /\ up.buf # None => up.taken = Given + 1
<1>1. up.taken \in Nat /\ up.buf \in {None, up.taken} /\ up.taken <= app.sent /\ None = 0
  BY DEF TypeOK, Ups, None
<1>2. Given = IF up.buf = None THEN up.taken ELSE up.taken - 1
  BY DEF Given
<1> QED  BY ONLY <1>1, <1>2

(* The parts of each count. *)
LEMMA EventType ==
  ASSUME TypeOK
  PROVE  /\ app.sent \in Nat /\ app.sent <= MaxUp /\ One(app.closed) \in Nat /\ One(app.closed) <= 1
         /\ Len(inlog) \in Nat /\ One(peer.shut) \in Nat /\ One(peer.shut) <= 1 /\ peer.took \in Nat
<1>1. app.sent \in 1 .. MaxUp /\ app.closed \in BOOLEAN /\ peer.shut \in BOOLEAN /\ peer.took \in Nat
  BY DEF TypeOK, Apps, Peers
<1>2. app.sent \in Nat /\ app.sent <= MaxUp
  BY <1>1, VisionPollAssumption
<1>3. Len(inlog) \in Nat
  BY DEF TypeOK, Logs
<1> QED  BY <1>1, <1>2, <1>3, OneIs

LEMMA WorkType ==
  ASSUME TypeOK
  PROVE  /\ up.taken \in Nat /\ Given \in Nat /\ Stage(up.pc) \in Nat /\ Stage(up.pc) <= 3
         /\ read \in Nat /\ read <= Len(inlog) /\ pos \in Nat /\ pos <= read
         /\ One(down = "done") \in Nat /\ One(down = "done") <= 1
<1>1. Len(inlog) \in Nat
  BY EventType
<1>2. read \in Nat /\ read <= Len(inlog) /\ pos \in Nat /\ pos <= read
  BY <1>1 DEF TypeOK
<1>3. up.pc \in {"none", "connect", "copy", "shutdown", "done"} /\ (down = "done") \in BOOLEAN
  BY DEF TypeOK, Ups
<1> QED  BY <1>2, <1>3, GivenIs, StageIs, OneIs

LEMMA PlaceType ==
  ASSUME TypeOK
  PROVE  /\ Spot(task.at) \in Nat /\ Spot(task.at) <= 3 /\ Place \in Nat /\ Place <= 6
         /\ task.woken \in BOOLEAN
         /\ Place = Spot(task.at) + (IF task.woken THEN 0 ELSE 3)
<1>1. task.at \in {"up", "down", "parked"} \cup Ended /\ task.woken \in BOOLEAN
  BY DEF TypeOK, Tasks
<1>2. Spot(task.at) \in Nat /\ Spot(task.at) <= 3
  BY <1>1, SpotIs
<1>3. Place = Spot(task.at) + (IF task.woken THEN 0 ELSE 3)
  BY DEF Place
<1> QED  BY <1>1, <1>2, <1>3

LEMMA EventsAreNat ==
  TypeOK => /\ app.sent \in Nat /\ One(app.closed) \in Nat /\ Len(inlog) \in Nat
            /\ One(peer.shut) \in Nat /\ peer.took \in Nat
BY EventType

LEMMA WorksAreNat ==
  TypeOK => /\ up.taken \in Nat /\ Given \in Nat /\ Stage(up.pc) \in Nat
            /\ read \in Nat /\ pos \in Nat /\ One(down = "done") \in Nat
BY WorkType

(* Each count grows with any of its parts. *)
LEMMA SumEvents ==
  ASSUME TypeOK, TypeOK', app.sent <= app'.sent, One(app.closed) <= One(app'.closed),
         Len(inlog) <= Len(inlog'), One(peer.shut) <= One(peer'.shut), peer.took <= peer'.took
  PROVE  /\ Events <= Events'
         /\ \/ app.sent < app'.sent \/ One(app.closed) < One(app'.closed) \/ Len(inlog) < Len(inlog')
            \/ One(peer.shut) < One(peer'.shut) \/ peer.took < peer'.took
            => Events < Events'
<1> DEFINE a == app.sent   b == One(app.closed)   c == Len(inlog)   f == One(peer.shut)   g == peer.took
           p == app'.sent  q == One(app'.closed)  r == Len(inlog')  s == One(peer'.shut)  t == peer'.took
<1>1. a \in Nat /\ b \in Nat /\ c \in Nat /\ f \in Nat /\ g \in Nat
  BY EventType
<1>2. p \in Nat /\ q \in Nat /\ r \in Nat /\ s \in Nat /\ t \in Nat
  <2>1. (TypeOK => /\ app.sent \in Nat /\ One(app.closed) \in Nat /\ Len(inlog) \in Nat
                   /\ One(peer.shut) \in Nat /\ peer.took \in Nat)'
    BY EventsAreNat, PTL
  <2> QED  BY <2>1
<1>3. Events = a + b + c + f + g /\ Events' = p + q + r + s + t
  BY DEF Events
<1>4. a <= p /\ b <= q /\ c <= r /\ f <= s /\ g <= t
  OBVIOUS
<1> DEFINE more == a < p \/ b < q \/ c < r \/ f < s \/ g < t
<1>5. (more => Events < Events') /\ Events <= Events'
  <2> HIDE DEF a, b, c, f, g, p, q, r, s, t
  <2> QED  BY ONLY <1>1, <1>2, <1>3, <1>4
<1> QED  BY <1>5

LEMMA SumWork ==
  ASSUME TypeOK, TypeOK', up.taken <= up'.taken, Given <= Given', Stage(up.pc) <= Stage(up'.pc),
         read <= read', pos <= pos', One(down = "done") <= One(down' = "done")
  PROVE  /\ Work <= Work'
         /\ \/ up.taken < up'.taken \/ Given < Given' \/ Stage(up.pc) < Stage(up'.pc)
            \/ read < read' \/ pos < pos' \/ One(down = "done") < One(down' = "done")
            => Work < Work'
<1> DEFINE a == up.taken   b == Given   c == Stage(up.pc)   f == read   g == pos   h == One(down = "done")
           p == up'.taken  q == Given'  r == Stage(up'.pc)  s == read'  t == pos'  u == One(down' = "done")
<1>1. a \in Nat /\ b \in Nat /\ c \in Nat /\ f \in Nat /\ g \in Nat /\ h \in Nat
  BY WorkType
<1>2. p \in Nat /\ q \in Nat /\ r \in Nat /\ s \in Nat /\ t \in Nat /\ u \in Nat
  <2>1. (TypeOK => /\ up.taken \in Nat /\ Given \in Nat /\ Stage(up.pc) \in Nat
                   /\ read \in Nat /\ pos \in Nat /\ One(down = "done") \in Nat)'
    BY WorksAreNat, PTL
  <2> QED  BY <2>1
<1>3. Work = a + b + c + f + g + h /\ Work' = p + q + r + s + t + u
  BY DEF Work
<1>4. a <= p /\ b <= q /\ c <= r /\ f <= s /\ g <= t /\ h <= u
  OBVIOUS
<1> DEFINE more == a < p \/ b < q \/ c < r \/ f < s \/ g < t \/ h < u
<1>5. (more => Work < Work') /\ Work <= Work'
  <2> HIDE DEF a, b, c, f, g, h, p, q, r, s, t, u
  <2> QED  BY ONLY <1>1, <1>2, <1>3, <1>4
<1> QED  BY <1>5

(* A step of the task does more and is further in its poll; one that wakes *)
(* it may send it back to the start of a poll, but is an event.            *)
Further == Events <= Events' /\ Work <= Work' /\ Place <= Place' /\ (Work < Work' \/ Place < Place')
Wakes   == Events < Events' /\ Work <= Work' /\ Place <= Place' + 3

LEMMA CountType == TypeOK => Events \in Nat /\ Work \in Nat /\ Place \in Nat
<1> SUFFICES ASSUME TypeOK PROVE Events \in Nat /\ Work \in Nat /\ Place \in Nat
  OBVIOUS
<1>1. Events \in Nat
  <2> DEFINE a == app.sent  b == One(app.closed)  c == Len(inlog)  f == One(peer.shut)  g == peer.took
  <2>1. a \in Nat /\ b \in Nat /\ c \in Nat /\ f \in Nat /\ g \in Nat
    BY EventType
  <2>2. Events = a + b + c + f + g
    BY DEF Events
  <2> HIDE DEF a, b, c, f, g
  <2> QED  BY ONLY <2>1, <2>2
<1>2. Work \in Nat
  <2> DEFINE a == up.taken  b == Given  c == Stage(up.pc)  f == read  g == pos  h == One(down = "done")
  <2>1. a \in Nat /\ b \in Nat /\ c \in Nat /\ f \in Nat /\ g \in Nat /\ h \in Nat
    BY WorkType
  <2>2. Work = a + b + c + f + g + h
    BY DEF Work
  <2> HIDE DEF a, b, c, f, g, h
  <2> QED  BY ONLY <2>1, <2>2
<1> QED  BY <1>1, <1>2, PlaceType

LEMMA StepAdvances == ASSUME TypeOK, TypeOK', Further \/ Wakes PROVE Progress < Progress'
<1>1. Events \in Nat /\ Work \in Nat /\ Place \in Nat
  BY CountType
<1>2. Events' \in Nat /\ Work' \in Nat /\ Place' \in Nat
  <2>1. (TypeOK => Events \in Nat /\ Work \in Nat /\ Place \in Nat)'
    BY CountType, PTL
  <2> QED  BY <2>1
<1>3. Progress = 4 * Events + Work + Place /\ Progress' = 4 * Events' + Work' + Place'
  BY DEF Progress
<1>4. \/ Events <= Events' /\ Work <= Work' /\ Place <= Place' /\ (Work < Work' \/ Place < Place')
      \/ Events < Events' /\ Work <= Work' /\ Place <= Place' + 3
  BY DEF Further, Wakes
<1> DEFINE a == Events  b == Work  c == Place  p == Events'  q == Work'  r == Place'  m == Progress  n == Progress'
<1>5. /\ a \in Nat /\ b \in Nat /\ c \in Nat /\ p \in Nat /\ q \in Nat /\ r \in Nat
      /\ m = 4 * a + b + c /\ n = 4 * p + q + r
      /\ \/ a <= p /\ b <= q /\ c <= r /\ (b < q \/ c < r)
         \/ a < p /\ b <= q /\ c <= r + 3
  BY ONLY <1>1, <1>2, <1>3, <1>4
<1>6. m < n
  <2> HIDE DEF a, b, c, p, q, r, m, n
  <2> QED  BY ONLY <1>5
<1> QED  BY <1>6

(* What a step leaves alone. *)
LEMMA AtMostItself == \A n \in Nat : n <= n
OBVIOUS

LEMMA SameEvents ==
  ASSUME TypeOK, TypeOK', app'.sent = app.sent, app'.closed = app.closed, inlog' = inlog, peer' = peer
  PROVE  Events <= Events'
<1>1. /\ app.sent <= app'.sent /\ One(app.closed) <= One(app'.closed) /\ Len(inlog) <= Len(inlog')
      /\ One(peer.shut) <= One(peer'.shut) /\ peer.took <= peer'.took
  BY EventType, AtMostItself
<1> QED  BY <1>1, SumEvents

LEMMA SameWork ==
  ASSUME TypeOK, TypeOK', up'.taken = up.taken, up'.buf = up.buf, up'.pc = up.pc, UNCHANGED <<read, pos, down>>
  PROVE  Work <= Work'
<1>1. Given' = Given
  BY DEF Given
<1>2. /\ up.taken <= up'.taken /\ Given <= Given' /\ Stage(up.pc) <= Stage(up'.pc)
      /\ read <= read' /\ pos <= pos' /\ One(down = "done") <= One(down' = "done")
  BY <1>1, WorkType, AtMostItself
<1> QED  BY <1>2, SumWork

LEMMA SpotMoves ==
  ASSUME TypeOK, TypeOK', task'.woken = task.woken, Spot(task.at) <= Spot(task'.at)
  PROVE  /\ Place <= Place'
         /\ Spot(task.at) < Spot(task'.at) => Place < Place'
<1> DEFINE a == Spot(task.at)  b == Spot(task'.at)  k == IF task.woken THEN 0 ELSE 3
<1>1. a \in Nat /\ k \in {0, 3}
  BY PlaceType
<1>2. b \in Nat
  <2>1. task'.at \in {"up", "down", "parked"} \cup Ended
    BY DEF TypeOK, Tasks
  <2> QED  BY <2>1, SpotIs
<1>3. Place = a + k /\ Place' = b + k
  BY DEF Place
<1>4. a <= b
  OBVIOUS
<1>5. Place <= Place' /\ (a < b => Place < Place')
  <2> HIDE DEF a, b, k
  <2> QED  BY ONLY <1>1, <1>2, <1>3, <1>4
<1> QED  BY <1>5

LEMMA SamePlace == ASSUME TypeOK, TypeOK', task'.woken = task.woken, task'.at = task.at PROVE Place <= Place'
<1>1. Spot(task.at) <= Spot(task'.at)
  BY PlaceType, AtMostItself
<1> QED  BY <1>1, SpotMoves

LEMMA Woken == ASSUME TypeOK, TypeOK', NEW e, Wake(e) PROVE Place <= Place' + 3
<1>1. task'.at = task.at
  BY DEF Wake, TypeOK, Tasks
<1> DEFINE a == Spot(task.at)  k == IF task.woken THEN 0 ELSE 3  l == IF task'.woken THEN 0 ELSE 3
<1>2. a \in Nat /\ k \in {0, 3} /\ l \in {0, 3}
  BY PlaceType
<1>3. Place = a + k /\ Place' = a + l
  BY <1>1 DEF Place
<1> HIDE DEF a, k, l
<1> QED  BY ONLY <1>2, <1>3

(* Events. *)
LEMMA AppWakes == ASSUME TypeOK, TypeOK', AppSend \/ AppClose PROVE Wakes
<1>1. UNCHANGED <<peer, inlog, read, pos, up, down>> /\ Wake("app")
  BY DEF AppSend, AppClose
<1>2. Work <= Work' /\ Place <= Place' + 3
  BY <1>1, SameWork, Woken
<1>3. \/ app'.sent = app.sent + 1 /\ app'.closed = app.closed
      \/ app'.sent = app.sent /\ ~app.closed /\ app'.closed
  BY DEF AppSend, AppClose, TypeOK, Apps
<1>4. app.sent <= app'.sent /\ One(app.closed) <= One(app'.closed)
      /\ (app.sent < app'.sent \/ One(app.closed) < One(app'.closed))
  <2>1. CASE app'.sent = app.sent + 1 /\ app'.closed = app.closed
    BY <2>1, EventType, AtMostItself
  <2>2. CASE app'.sent = app.sent /\ ~app.closed /\ app'.closed
    <3>1. One(app.closed) = 0 /\ One(app'.closed) = 1
      BY <2>2 DEF One
    <3>2. One(app.closed) < One(app'.closed) /\ One(app.closed) <= One(app'.closed)
      BY ONLY <3>1
    <3>3. app.sent <= app'.sent
      BY <2>2, EventType, AtMostItself
    <3> QED  BY ONLY <3>2, <3>3
  <2> QED  BY <1>3, <2>1, <2>2
<1>5. Len(inlog) <= Len(inlog') /\ One(peer.shut) <= One(peer'.shut) /\ peer.took <= peer'.took
  BY <1>1, EventType, AtMostItself
<1> QED  BY <1>2, <1>4, <1>5, SumEvents DEF Wakes

LEMMA PeerWakes ==
  ASSUME TypeOK, TypeOK', \/ PeerHandshakes \/ PeerSendsSilent \/ PeerSendsData
                          \/ PeerNotifies \/ PeerShuts \/ PeerTakes
  PROVE  Wakes
<1>1. UNCHANGED <<app, read, pos, up, down>> /\ \E e \in {"in", "out"} : Wake(e)
  BY DEF PeerHandshakes, PeerSendsSilent, PeerSendsData, PeerNotifies, PeerSends, PeerShuts, PeerTakes
<1>2. Work <= Work' /\ Place <= Place' + 3
  BY <1>1, SameWork, Woken
<1>3. app.sent <= app'.sent /\ One(app.closed) <= One(app'.closed)
  BY <1>1, EventType, AtMostItself
<1>4. CASE PeerHandshakes \/ PeerSendsSilent \/ PeerSendsData \/ PeerNotifies
  <2>1. peer'.shut = peer.shut /\ peer'.took = peer.took
    BY <1>4 DEF PeerHandshakes, PeerSendsSilent, PeerSendsData, PeerNotifies, TypeOK, Peers
  <2>2. \E r : inlog' = Append(inlog, r)
    BY <1>4 DEF PeerHandshakes, PeerSendsSilent, PeerSendsData, PeerNotifies, PeerSends
  <2>3. Len(inlog') = Len(inlog) + 1 /\ Len(inlog) \in Nat
    BY <2>2, EventType DEF TypeOK, Logs
  <2>4. Len(inlog) < Len(inlog') /\ Len(inlog) <= Len(inlog')
    BY ONLY <2>3
  <2>5. One(peer.shut) <= One(peer'.shut) /\ peer.took <= peer'.took
    BY <2>1, EventType, AtMostItself
  <2> QED  BY <1>2, <1>3, <2>4, <2>5, SumEvents DEF Wakes
<1>5. CASE PeerShuts
  <2>1. inlog' = inlog /\ peer'.took = peer.took /\ ~peer.shut /\ peer'.shut
    BY <1>5 DEF PeerShuts, TypeOK, Peers
  <2>2. One(peer.shut) = 0 /\ One(peer'.shut) = 1
    BY <2>1 DEF One
  <2>3. One(peer.shut) < One(peer'.shut) /\ One(peer.shut) <= One(peer'.shut)
    BY ONLY <2>2
  <2>4. Len(inlog) <= Len(inlog') /\ peer.took <= peer'.took
    BY <2>1, EventType, AtMostItself
  <2> QED  BY <1>2, <1>3, <2>3, <2>4, SumEvents DEF Wakes
<1>6. CASE PeerTakes
  <2>1. inlog' = inlog /\ peer'.took = peer.took + 1 /\ peer'.shut = peer.shut
    BY <1>6 DEF PeerTakes, TypeOK, Peers
  <2>2. peer.took < peer'.took /\ peer.took <= peer'.took
    BY <2>1, EventType
  <2>3. Len(inlog) <= Len(inlog') /\ One(peer.shut) <= One(peer'.shut)
    BY <2>1, EventType, AtMostItself
  <2> QED  BY <1>2, <1>3, <2>2, <2>3, SumEvents DEF Wakes
<1> QED  BY <1>4, <1>5, <1>6

(* The task: how far its poll is. *)
LEMMA PlaceAhead ==
  ASSUME TypeOK, TypeOK',
         \/ Polled \/ UpSpins \/ UpPause \/ UpShutdown \/ UpDone \/ UpClose
         \/ DownWait \/ DownCut \/ DownDone \/ InnerError
  PROVE  Place < Place'
<1>1. CASE Polled
  <2>1. task.at = "parked" /\ task.woken /\ ~task'.woken /\ task'.at \in {"up", "down"}
    BY <1>1 DEF Polled, TypeOK, Tasks
  <2>2. Spot(task.at) = 2 /\ Spot(task'.at) \in {0, 1}
    BY <2>1, SpotIs
  <2>3. Place = Spot(task.at) + 0 /\ Place' = Spot(task'.at) + 3
    BY <2>1 DEF Place
  <2> QED  BY ONLY <2>2, <2>3
<1>2. CASE ~Polled
  <2>1. task'.woken = task.woken
    BY <1>2, ZenonT(60) DEF UpSpins, UpPause, UpShutdown, UpDone, UpClose, Drain, DownWait, DownCut, DownDone, InnerError,
                TypeOK, Tasks
  <2>2. \/ task.at = "up" /\ task'.at \in {"down"} \cup Ended
        \/ task.at = "down" /\ task'.at \in {"parked"} \cup Ended
    BY <1>2, ZenonT(60) DEF UpSpins, UpPause, UpShutdown, UpDone, UpClose, Drain, DownWait, DownCut, DownDone, InnerError,
                Reading, TypeOK, Tasks, Ended
  <2>3. \/ Spot(task.at) = 0 /\ Spot(task'.at) \in {1, 3}
        \/ Spot(task.at) = 1 /\ Spot(task'.at) \in {2, 3}
    BY <2>2, SpotIs
  <2>4. Spot(task.at) < Spot(task'.at) /\ Spot(task.at) <= Spot(task'.at)
    BY ONLY <2>3
  <2> QED  BY <2>1, <2>4, SpotMoves
<1> QED  BY <1>1, <1>2

(* The steps of a poll that only go on, or end it. *)
LEMMA TurnAhead ==
  ASSUME TypeOK, TypeOK', Polled \/ UpSpins \/ UpDone \/ DownWait \/ DownCut \/ DownDone \/ InnerError
  PROVE  Further
<1>1. UNCHANGED <<app, inlog, peer, up, read, pos, down>>
  BY DEF Polled, UpSpins, UpDone, DownWait, DownCut, DownDone, InnerError
<1>2. Events <= Events' /\ Work <= Work'
  BY <1>1, SameEvents, SameWork
<1>3. Place < Place' /\ Place <= Place'
  <2>1. Place < Place'
    BY PlaceAhead
  <2>2. Place \in Nat /\ Place' \in Nat
    <3>1. (TypeOK => Events \in Nat /\ Work \in Nat /\ Place \in Nat)'
      BY CountType, PTL
    <3> QED  BY <3>1, CountType
  <2> QED  BY ONLY <2>1, <2>2
<1> QED  BY <1>2, <1>3 DEF Further

(* poll_flush and poll_shutdown. *)
LEMMA UpAhead == ASSUME TypeOK, TypeOK', UpPause \/ UpShutdown \/ UpClose PROVE Further
<1>1. UNCHANGED <<app, inlog, peer, read, pos, down>> /\ up'.taken = up.taken /\ up'.buf = up.buf
  BY DEF UpPause, UpShutdown, UpClose, TypeOK, Ups
<1>2. Events <= Events'
  BY <1>1, SameEvents
<1>3. Stage(up.pc) <= Stage(up'.pc)
  <2>1. \/ up'.pc = up.pc
        \/ up.pc = "copy" /\ up'.pc \in {"shutdown", "done"}
        \/ up.pc = "shutdown" /\ up'.pc = "done"
    BY DEF UpPause, UpShutdown, UpClose, TypeOK, Ups
  <2>2. CASE up'.pc = up.pc
    BY <2>2, WorkType, AtMostItself
  <2>3. CASE up.pc = "copy" /\ up'.pc \in {"shutdown", "done"}
    <3>1. Stage(up.pc) = 1 /\ Stage(up'.pc) \in {2, 3}
      BY <2>3, StageIs
    <3> QED  BY ONLY <3>1
  <2>4. CASE up.pc = "shutdown" /\ up'.pc = "done"
    <3>1. Stage(up.pc) = 2 /\ Stage(up'.pc) = 3
      BY <2>4, StageIs
    <3> QED  BY ONLY <3>1
  <2> QED  BY <2>1, <2>2, <2>3, <2>4
<1>4. Work <= Work'
  <2>1. Given' = Given
    BY <1>1 DEF Given
  <2>2. /\ up.taken <= up'.taken /\ Given <= Given' /\ read <= read' /\ pos <= pos'
        /\ One(down = "done") <= One(down' = "done")
    BY <1>1, <2>1, WorkType, AtMostItself
  <2> QED  BY <1>3, <2>2, SumWork
<1>5. Place < Place' /\ Place <= Place'
  <2>1. Place < Place'
    BY PlaceAhead
  <2>2. Place \in Nat /\ Place' \in Nat
    <3>1. (TypeOK => Events \in Nat /\ Work \in Nat /\ Place \in Nat)'
      BY CountType, PTL
    <3> QED  BY <3>1, CountType
  <2> QED  BY ONLY <2>1, <2>2
<1> QED  BY <1>2, <1>4, <1>5 DEF Further

(* An item taken from the application, and one given to the session. *)
LEMMA UpItemAhead == ASSUME TypeOK, TypeOK', UpRead \/ UpWrite PROVE Further
<1>1. UNCHANGED <<app, inlog, peer, read, pos, down>> /\ up'.pc = up.pc
  BY DEF UpRead, UpWrite, TypeOK, Ups
<1>2. Events <= Events'
  BY <1>1, SameEvents
<1>3. task'.at = task.at /\ task'.woken = task.woken
  BY DEF UpRead, UpWrite, Drain, TypeOK, Tasks
<1>4. Place <= Place'
  BY <1>3, SamePlace
<1>5. up.taken <= up'.taken /\ Given <= Given' /\ (up.taken < up'.taken \/ Given < Given')
  <2>1. CASE UpRead
    <3>1. up'.taken = up.taken + 1 /\ up'.buf = up.taken + 1 /\ up.buf = None /\ up.taken \in Nat
      BY <2>1, GivenIs DEF UpRead, TypeOK, Ups
    <3>2. Given = up.taken
      BY <3>1 DEF Given
    <3>3. Given' = (up.taken + 1) - 1
      BY <3>1 DEF Given, None
    <3> QED  BY ONLY <3>1, <3>2, <3>3
  <2>2. CASE UpWrite
    <3>1. up'.taken = up.taken /\ up'.buf = None /\ up.buf # None
      BY <2>2 DEF UpWrite, TypeOK, Ups
    <3>2. up.taken = Given + 1 /\ Given \in Nat /\ up.taken \in Nat
      BY <3>1, GivenIs
    <3>3. Given' = up.taken
      BY <3>1 DEF Given
    <3> QED  BY ONLY <3>1, <3>2, <3>3
  <2> QED  BY <2>1, <2>2
<1>6. /\ Stage(up.pc) <= Stage(up'.pc) /\ read <= read' /\ pos <= pos'
      /\ One(down = "done") <= One(down' = "done")
  BY <1>1, WorkType, AtMostItself
<1>7. Work <= Work' /\ Work < Work'
  BY <1>5, <1>6, SumWork
<1> QED  BY <1>2, <1>4, <1>7 DEF Further

(* The flush that connect awaits. *)
LEMMA UpConnectedAhead == ASSUME TypeOK, TypeOK', UpConnected PROVE Further
<1>1. /\ UNCHANGED <<app, inlog, peer, read, pos, down>> /\ up'.taken = up.taken /\ up'.buf = up.buf
      /\ task'.woken = task.woken /\ task.at = "up" /\ up.pc = "connect"
  BY DEF UpConnected, Drain, TypeOK, Ups, Tasks
<1>2. Events <= Events'
  BY <1>1, SameEvents
<1>3. /\ up.taken <= up'.taken /\ Given <= Given' /\ read <= read' /\ pos <= pos'
      /\ One(down = "done") <= One(down' = "done")
  <2>1. Given' = Given
    BY <1>1 DEF Given
  <2> QED  BY <1>1, <2>1, WorkType, AtMostItself
<1>4. Spot(task.at) = 0 /\ Stage(up.pc) = 0
  BY <1>1, SpotIs, StageIs
<1>5. CASE Blocks(Len(log))
  <2>1. task'.at = "parked" /\ up'.pc = up.pc
    BY <1>5 DEF UpConnected, Drain, TypeOK, Ups, Tasks
  <2>2. Spot(task'.at) = 2 /\ Stage(up'.pc) = 0
    BY <1>4, <2>1, SpotIs
  <2>3. Spot(task.at) < Spot(task'.at) /\ Spot(task.at) <= Spot(task'.at) /\ Stage(up.pc) <= Stage(up'.pc)
    BY ONLY <1>4, <2>2
  <2> QED  BY <1>1, <1>2, <1>3, <2>3, SpotMoves, SumWork DEF Further
<1>6. CASE ~Blocks(Len(log))
  <2>1. task'.at = task.at /\ up'.pc = "copy"
    BY <1>1, <1>6 DEF UpConnected, Drain, TypeOK, Ups, Tasks
  <2>2. Stage(up'.pc) = 1
    BY <2>1, StageIs
  <2>3. Stage(up.pc) < Stage(up'.pc) /\ Stage(up.pc) <= Stage(up'.pc)
    BY ONLY <1>4, <2>2
  <2> QED  BY <1>1, <1>2, <1>3, <2>1, <2>3, SamePlace, SumWork DEF Further
<1> QED  BY <1>5, <1>6

(* What comes from the stream. *)
LEMMA DownAhead ==
  ASSUME TypeOK, TypeOK', DownRead \/ DownEof \/ (\E k \in 1 .. Len(inlog) : Receive(k))
  PROVE  Further
<1>1. /\ UNCHANGED <<inlog, peer, up>> /\ app'.sent = app.sent /\ app'.closed = app.closed
      /\ task'.woken = task.woken
  BY ZenonT(60) DEF DownRead, DownEof, Receive, TypeOK, Apps, Tasks
<1>2. Events <= Events'
  BY <1>1, SameEvents
<1>3. Place <= Place'
  <2>1. task'.at = task.at \/ (task.at = "down" /\ task'.at = "parked")
    <3>1. CASE task' = task
      BY <3>1
    <3>2. CASE task' # task
      <4>1. PICK k \in 1 .. Len(inlog) : Receive(k)
        BY <3>2 DEF DownRead, DownEof
      <4>2. \E a \in {task.at, "parked"} : task' = [task EXCEPT !.at = a]
        BY <4>1 DEF Receive
      <4>3. task.at = "down"
        BY <4>1 DEF Receive, Reading
      <4>4. task \in Tasks
        BY DEF TypeOK
      <4> QED  BY ONLY <4>2, <4>3, <4>4 DEF Tasks
    <3> QED  BY <3>1, <3>2
  <2>2. CASE task'.at = task.at
    BY <1>1, <2>2, SamePlace
  <2>3. CASE task.at = "down" /\ task'.at = "parked"
    <3>1. Spot(task.at) = 1 /\ Spot(task'.at) = 2
      BY <2>3, SpotIs
    <3>2. Spot(task.at) <= Spot(task'.at)
      BY ONLY <3>1
    <3> QED  BY <1>1, <3>2, SpotMoves
  <2> QED  BY <2>1, <2>2, <2>3
<1>4. up.taken <= up'.taken /\ Given <= Given' /\ Stage(up.pc) <= Stage(up'.pc)
  <2>1. Given' = Given
    BY <1>1 DEF Given
  <2> QED  BY <1>1, <2>1, WorkType, AtMostItself
<1>5. /\ read <= read' /\ pos <= pos' /\ One(down = "done") <= One(down' = "done")
      /\ (read < read' \/ pos < pos' \/ One(down = "done") < One(down' = "done"))
  <2>1. CASE DownRead
    <3>1. UNCHANGED <<read, down>> /\ \E i \in Plain(read) : pos' = i
      BY <2>1 DEF DownRead
    <3>2. pos' \in pos + 1 .. read /\ pos \in Nat /\ read \in Nat
      BY <3>1, WorkType DEF Plain
    <3>3. pos < pos' /\ pos <= pos'
      BY ONLY <3>2
    <3> QED  BY <3>1, <3>3, WorkType, AtMostItself
  <2>2. CASE DownEof
    <3>1. UNCHANGED <<read, pos>> /\ down = "copy" /\ down' = "done"
      BY <2>2 DEF DownEof, Reading
    <3>2. One(down = "done") = 0 /\ One(down' = "done") = 1
      BY <3>1 DEF One
    <3>3. One(down = "done") < One(down' = "done") /\ One(down = "done") <= One(down' = "done")
      BY ONLY <3>2
    <3> QED  BY <3>1, <3>3, WorkType, AtMostItself
  <2>3. CASE \E k \in 1 .. Len(inlog) : Receive(k)
    <3>1. PICK k \in 1 .. Len(inlog) : Receive(k)
      BY <2>3
    <3>2. UNCHANGED <<pos, down>> /\ read' = read + k
      BY <3>1 DEF Receive
    <3>3. k \in Nat /\ k >= 1 /\ read \in Nat
      BY WorkType, EventType
    <3>4. read < read' /\ read <= read'
      BY ONLY <3>2, <3>3
    <3> QED  BY <3>2, <3>4, WorkType, AtMostItself
  <2> QED  BY <2>1, <2>2, <2>3
<1>6. Work <= Work' /\ Work < Work'
  BY <1>4, <1>5, SumWork
<1> QED  BY <1>2, <1>3, <1>6 DEF Further

LEMMA NextAdvances == ASSUME TypeOK, TypeOK', Next PROVE Progress < Progress'
<1>1. CASE AppSend \/ AppClose
  BY <1>1, AppWakes, StepAdvances
<1>2. CASE \/ PeerHandshakes \/ PeerSendsSilent \/ PeerSendsData
           \/ PeerNotifies \/ PeerShuts \/ PeerTakes
  BY <1>2, PeerWakes, StepAdvances
<1>3. CASE Polled \/ UpSpins \/ UpDone \/ DownWait \/ DownCut \/ DownDone \/ InnerError
  BY <1>3, TurnAhead, StepAdvances
<1>4. CASE UpPause \/ UpShutdown \/ UpClose
  BY <1>4, UpAhead, StepAdvances
<1>5. CASE UpRead \/ UpWrite
  BY <1>5, UpItemAhead, StepAdvances
<1>6. CASE UpConnected
  BY <1>6, UpConnectedAhead, StepAdvances
<1>7. CASE DownRead \/ DownEof \/ (\E k \in 1 .. Len(inlog) : Receive(k))
  BY <1>7, DownAhead, StepAdvances
<1> QED  BY <1>1, <1>2, <1>3, <1>4, <1>5, <1>6, <1>7 DEF Next, Own, External

-----------------------------------------------------------------------------
(* What the peer sends: each record of the handshake and close_notify once, *)
(* so that there is an end to the events.                                   *)

Counts(f, l) ==
  Len(inlog) = peer.sent + peer.silent + One(Took(f, Len(inlog))) + One(Took(l, Len(inlog)))

(* A peer that is a server sends its flight and close_notify, one that is a *)
(* client its hello and its Finished, and nothing of these twice.           *)
InlogIs ==
  /\ role = "client" => Counts(Flight, Notify)
  /\ role = "server" => Counts(Hello, Finished)

LEMMA TookGrows ==
  ASSUME TypeOK, NEW r, inlog' = Append(inlog, r), NEW s
  PROVE  Took(s, Len(inlog))' <=> Took(s, Len(inlog)) \/ s = r
<1> DEFINE n == Len(inlog)
<1>1. /\ n \in Nat /\ Len(inlog') = n + 1
      /\ \A i \in 1 .. n : inlog'[i] = inlog[i]
      /\ inlog'[n + 1] = r
  BY DEF TypeOK, Logs
<1>2. Took(s, Len(inlog))' <=> \E i \in 1 .. Len(inlog') : inlog'[i] = s
  BY DEF Took
<1>3. Took(s, Len(inlog)) <=> \E i \in 1 .. n : inlog[i] = s
  BY DEF Took
<1> HIDE DEF n
<1>4. \A i : i \in 1 .. n + 1 <=> i \in 1 .. n \/ i = n + 1
  BY ONLY <1>1
<1> QED  BY ONLY <1>1, <1>2, <1>3, <1>4

LEMMA CountsGrow ==
  ASSUME TypeOK, TypeOK', NEW r, inlog' = Append(inlog, r), NEW f, NEW l, f # l, Counts(f, l),
         \/ /\ (r = f /\ ~Took(f, Len(inlog))) \/ (r = l /\ ~Took(l, Len(inlog)))
            /\ peer'.sent = peer.sent /\ peer'.silent = peer.silent
         \/ /\ r # f /\ r # l
            /\ \/ peer'.sent = peer.sent + 1 /\ peer'.silent = peer.silent
               \/ peer'.sent = peer.sent /\ peer'.silent = peer.silent + 1
  PROVE  Counts(f, l)'
<1> DEFINE n == Len(inlog)  a == peer.sent   b == peer.silent   c == One(Took(f, Len(inlog)))   d == One(Took(l, Len(inlog)))
           m == Len(inlog')  p == peer'.sent  q == peer'.silent  u == One(Took(f, Len(inlog))')  v == One(Took(l, Len(inlog))')
<1>1. n \in Nat /\ m = n + 1
  BY DEF TypeOK, Logs
<1>2. a \in Nat /\ b \in Nat
  BY VisionPollAssumption DEF TypeOK, Peers
<1>3. n = a + b + c + d
  BY DEF Counts
<1>4. /\ Took(f, Len(inlog))' <=> Took(f, Len(inlog)) \/ f = r
      /\ Took(l, Len(inlog))' <=> Took(l, Len(inlog)) \/ l = r
  BY TookGrows
<1>5. c \in Nat /\ d \in Nat
  BY DEF One
<1>6. \/ ((u = c + 1 /\ v = d) \/ (u = c /\ v = d + 1)) /\ p = a /\ q = b
      \/ u = c /\ v = d /\ ((p = a + 1 /\ q = b) \/ (p = a /\ q = b + 1))
  BY <1>4 DEF One
<1>7. m = p + q + u + v
  <2> HIDE DEF n, a, b, c, d, m, p, q, u, v
  <2>1. p + q + u + v = a + b + c + d + 1
    BY ONLY <1>2, <1>5, <1>6
  <2> QED  BY ONLY <1>1, <1>3, <2>1
<1> QED  BY <1>7 DEF Counts, One

LEMMA CountsKept ==
  ASSUME NEW f, NEW l, Counts(f, l), inlog' = inlog, peer'.sent = peer.sent, peer'.silent = peer.silent
  PROVE  Counts(f, l)'
<1>1. \A s : Took(s, Len(inlog))' <=> Took(s, Len(inlog))
  BY DEF Took
<1>2. /\ One(Took(f, Len(inlog)))' = One(Took(f, Len(inlog)))
      /\ One(Took(l, Len(inlog)))' = One(Took(l, Len(inlog)))
  BY <1>1 DEF One
<1> QED  BY <1>2 DEF Counts

LEMMA InlogStep == ASSUME TypeOK, TypeOK', InlogIs, [Next]_vars PROVE InlogIs'
<1>1. role' = role
  BY DEF Next, Own, External, vars, Polled, UpRead, UpWrite, UpSpins, UpConnected, UpPause, UpClose, UpShutdown,
         UpDone, DownRead, Receive, DownWait, DownEof, DownCut, DownDone, AppSend, AppClose, PeerHandshakes,
         PeerSendsSilent, PeerSendsData, PeerNotifies, PeerSends, PeerShuts, PeerTakes, InnerError
<1>2. CASE inlog' = inlog /\ peer'.sent = peer.sent /\ peer'.silent = peer.silent
  BY <1>1, <1>2, CountsKept DEF InlogIs
<1>3. CASE PeerHandshakes \/ PeerNotifies \/ PeerSendsSilent \/ PeerSendsData
  <2> SUFFICES ASSUME NEW f, NEW l, Counts(f, l),
                      \/ role = "client" /\ f = Flight /\ l = Notify
                      \/ role = "server" /\ f = Hello /\ l = Finished
               PROVE  Counts(f, l)'
    <3>1. \A f, l : /\ Counts(f, l)
                    /\ \/ role = "client" /\ f = Flight /\ l = Notify
                       \/ role = "server" /\ f = Hello /\ l = Finished
                    => Counts(f, l)'
      OBVIOUS
    <3> QED  BY <1>1, <3>1 DEF InlogIs
  <2>1. f # l /\ f # Silent /\ l # Silent /\ \A i : f # Data(i) /\ l # Data(i)
    BY DEF Flight, Notify, Hello, Finished, Silent, Ctl, Data
  <2>2. CASE PeerHandshakes
    <3>1. PICK r \in {f, l} : ~Took(r, Len(inlog)) /\ inlog' = Append(inlog, r) /\ peer' = peer
      BY <2>2 DEF PeerHandshakes, PeerSends
    <3> QED  BY <2>1, <3>1, CountsGrow
  <2>3. CASE PeerNotifies
    <3>1. l = Notify /\ ~Took(Notify, Len(inlog)) /\ inlog' = Append(inlog, Notify) /\ peer' = peer
      BY <2>3 DEF PeerNotifies, PeerReady, PeerSends
    <3> QED  BY <2>1, <3>1, CountsGrow
  <2>4. CASE PeerSendsSilent
    <3>1. inlog' = Append(inlog, Silent) /\ peer' = [peer EXCEPT !.silent = @ + 1]
      BY <2>4 DEF PeerSendsSilent, PeerSends
    <3>2. peer'.sent = peer.sent /\ peer'.silent = peer.silent + 1
      BY <3>1 DEF TypeOK, Peers
    <3> QED  BY <2>1, <3>1, <3>2, CountsGrow
  <2>5. CASE PeerSendsData
    <3>1. inlog' = Append(inlog, Data(peer.sent + 1)) /\ peer' = [peer EXCEPT !.sent = @ + 1]
      BY <2>5 DEF PeerSendsData, PeerSends
    <3>2. peer'.sent = peer.sent + 1 /\ peer'.silent = peer.silent
      BY <3>1 DEF TypeOK, Peers
    <3> QED  BY <2>1, <3>1, <3>2, CountsGrow
  <2> QED  BY <1>3, <2>2, <2>3, <2>4, <2>5
<1>4. CASE AppSend \/ AppClose \/ PeerShuts \/ PeerTakes \/ InnerError \/ Own \/ UNCHANGED vars
  <2>1. inlog' = inlog
    BY <1>4, ZenonT(60) DEF Own, vars, Polled, UpRead, UpWrite, UpSpins, UpConnected, UpPause, UpClose, UpShutdown,
         UpDone, DownRead, Receive, DownWait, DownEof, DownCut, DownDone, AppSend, AppClose, PeerShuts, PeerTakes,
         InnerError
  <2>2. peer' = peer \/ PeerShuts \/ PeerTakes
    BY <1>4, ZenonT(60) DEF Own, vars, Polled, UpRead, UpWrite, UpSpins, UpConnected, UpPause, UpClose, UpShutdown,
         UpDone, DownRead, Receive, DownWait, DownEof, DownCut, DownDone, AppSend, AppClose, InnerError
  <2>3. peer'.sent = peer.sent /\ peer'.silent = peer.silent
    <3>1. CASE PeerShuts
      BY <3>1 DEF PeerShuts, TypeOK, Peers
    <3>2. CASE PeerTakes
      BY <3>2 DEF PeerTakes, TypeOK, Peers
    <3> QED  BY <2>2, <3>1, <3>2
  <2> QED  BY SMTT(60), <1>2, <2>1, <2>3
<1> QED  BY SMTT(60), <1>3, <1>4 DEF Next, External

LEMMA InlogInductive == Spec => []InlogIs
<1>1. Init => InlogIs
  <2> SUFFICES ASSUME Init PROVE InlogIs
    OBVIOUS
  <2>1. inlog = <<>> /\ peer.sent = 0 /\ peer.silent = 0
    BY DEF Init
  <2>2. \A f, l : Counts(f, l)
    <3>1. Len(inlog) = 0 /\ 1 .. Len(inlog) = {}
      BY <2>1
    <3>2. \A s : ~Took(s, Len(inlog))
      BY <3>1 DEF Took
    <3> QED  BY <2>1, <3>1, <3>2 DEF Counts, One
  <2> QED  BY <2>2 DEF InlogIs
<1>2. TypeOK /\ TypeOK' /\ InlogIs /\ [Next]_vars => InlogIs'
  BY InlogStep
<1> QED  BY <1>1, <1>2, TypeCorrect, PTL DEF Spec

-----------------------------------------------------------------------------
(* The bound. *)

LEMMA InlogBound == ASSUME TypeOK, InlogIs PROVE Len(inlog) <= 2 + MaxDown + MaxSilent
<1>1. role = "client" \/ role = "server"
  BY VisionPollAssumption DEF TypeOK
<1>2. PICK f, l : Counts(f, l)
  BY <1>1 DEF InlogIs
<1> DEFINE n == Len(inlog)  a == peer.sent   b == peer.silent   c == One(Took(f, Len(inlog)))   d == One(Took(l, Len(inlog)))
<1>3. a \in 0 .. MaxDown /\ b \in 0 .. MaxSilent /\ MaxDown \in Nat /\ MaxSilent \in Nat
  BY VisionPollAssumption DEF TypeOK, Peers
<1>4. c \in {0, 1} /\ d \in {0, 1}
  BY DEF One
<1>5. n = a + b + c + d
  BY <1>2 DEF Counts
<1>6. n <= 2 + MaxDown + MaxSilent
  <2> HIDE DEF n, a, b, c, d
  <2> QED  BY ONLY <1>3, <1>4, <1>5
<1> QED  BY <1>6

(* The socket took no more than the session made of what it was given. *)
LEMMA TookBound == ASSUME IInv PROVE peer.took <= MaxUp + 3
<1>1. MaxUp \in Nat /\ peer.took \in Nat /\ TypeOK
  BY VisionPollAssumption, EventType DEF IInv
<1>2. Len(log) \in Nat /\ wrote \in peer.took .. Len(log)
  BY <1>1 DEF TypeOK, Logs
<1>3. CASE role = "server"
  <2>1. wrote = 0
    BY <1>3 DEF IInv, ServerLog
  <2> QED  BY ONLY <1>1, <1>2, <2>1
<1>4. CASE role = "client"
  <2>1. Given \in Nat /\ Given <= MaxUp
    <3>1. Given \in Nat /\ Given <= up.taken /\ up.taken \in Nat /\ up.taken <= app.sent
      BY <1>1, GivenIs
    <3>2. app.sent \in Nat /\ app.sent <= MaxUp
      BY <1>1, EventType
    <3> QED  BY ONLY <1>1, <3>1, <3>2
  <2>2. Len(log) <= Given + 3
    <3>1. ClientLog
      BY <1>4 DEF IInv
    <3>2. Before = 2 \/ (Before = 3 /\ hist.hasty)
      BY DEF Before
    <3>3. CASE Handshaking
      <4>1. Len(log) = Before - 1
        BY <3>1, <3>3 DEF ClientLog
      <4>2. Before = 2 \/ Before = 3
        BY <3>2
      <4> QED  BY ONLY <2>1, <4>1, <4>2
    <3>4. CASE ~Handshaking
      <4>1. Len(log) = Before + Given + IF Closing /\ ~hist.hasty THEN 1 ELSE 0
        BY <3>1, <3>4 DEF ClientLog
      <4>2. \/ Before = 2 /\ (Len(log) = Before + Given + 1 \/ Len(log) = Before + Given + 0)
            \/ Before = 3 /\ Len(log) = Before + Given + 0
        BY <3>2, <4>1
      <4> QED  BY ONLY <2>1, <4>2
    <3> QED  BY <3>3, <3>4
  <2> QED  BY ONLY <1>1, <1>2, <2>1, <2>2
<1> QED  BY <1>1, <1>3, <1>4, VisionPollAssumption DEF TypeOK

LEMMA ProgressIs == ASSUME IInv, InlogIs PROVE Progress <= Total
<1>1. TypeOK /\ MaxUp \in Nat /\ MaxDown \in Nat /\ MaxSilent \in Nat
  BY VisionPollAssumption DEF IInv
<1> DEFINE s == app.sent  c == One(app.closed)  n == Len(inlog)  z == One(peer.shut)  t == peer.took
           u == up.taken  g == Given  h == Stage(up.pc)  r == read  p == pos  d == One(down = "done")
           m == MaxDown + MaxSilent
<1>2. /\ s \in Nat /\ s <= MaxUp /\ c \in Nat /\ c <= 1 /\ n \in Nat /\ n <= 2 + m
      /\ z \in Nat /\ z <= 1 /\ t \in Nat /\ t <= MaxUp + 3
  <2>1. n <= 2 + m
    <3>1. n <= 2 + MaxDown + MaxSilent /\ n \in Nat
      BY <1>1, InlogBound, EventType
    <3> HIDE DEF n
    <3> QED  BY ONLY <1>1, <3>1
  <2> QED  BY <1>1, <2>1, EventType, TookBound
<1>3. /\ u \in Nat /\ u <= s /\ g \in Nat /\ g <= u /\ h \in Nat /\ h <= 3
      /\ r \in Nat /\ r <= n /\ p \in Nat /\ p <= r /\ d \in Nat /\ d <= 1
  BY <1>1, WorkType, GivenIs
<1>4. Events = s + c + n + z + t /\ Work = u + g + h + r + p + d
  BY DEF Events, Work
<1>5. m \in Nat
  BY <1>1
<1>6. Total = 10 * MaxUp + 6 * m + 42 /\ Progress = 4 * Events + Work + Place
  BY DEF Total, Progress
<1>7. Events <= 2 * MaxUp + m + 7 /\ Events \in Nat
  <2> HIDE DEF s, c, n, z, t, m
  <2> QED  BY ONLY <1>1, <1>2, <1>4, <1>5
<1>8. Work <= 2 * MaxUp + 2 * m + 8 /\ Work \in Nat
  <2> HIDE DEF s, c, n, z, t, u, g, h, r, p, d, m
  <2> QED  BY ONLY <1>1, <1>2, <1>3, <1>4, <1>5
<1>9. Place <= 6 /\ Place \in Nat
  BY <1>1, PlaceType
<1> HIDE DEF m
<1> QED  BY ONLY <1>1, <1>5, <1>6, <1>7, <1>8, <1>9

(* Every step of the stream, of its task and of those around it is one of   *)
(* the Total steps there can be: the polls of poll_read, poll_write,        *)
(* poll_flush and poll_shutdown are bounded by the items and records, for   *)
(* any sizes of socket and session and whatever wakers are left behind.     *)
THEOREM PollsRunDown == Spec => EveryStepAdvances
<1>1. IInv /\ IInv' /\ InlogIs' /\ [Next]_vars => [Progress < Progress' /\ Progress' <= Total]_vars
  <2> SUFFICES ASSUME IInv, IInv', InlogIs', Next PROVE Progress < Progress' /\ Progress' <= Total
    OBVIOUS
  <2>1. TypeOK /\ TypeOK'
    BY DEF IInv
  <2>2. Progress < Progress'
    BY <2>1, NextAdvances
  <2>3. Progress' <= Total
    <3>1. (IInv /\ InlogIs => Progress <= Total)'
      BY ProgressIs, PTL
    <3> QED  BY <3>1 DEF Total
  <2> QED  BY <2>2, <2>3
<1> QED  BY <1>1, Inductive, InlogInductive, PTL DEF Spec, EveryStepAdvances
=============================================================================
