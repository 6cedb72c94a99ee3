----------------------------- MODULE MqttPromiseProofs -----------------------------
(***************************************************************************)
(* The client and the broker keep what MQTT promises, for any number of    *)
(* messages, sockets and faults: the fourth and the fifth part of the      *)
(* invariant, SendInv and ReceiveInv, and the step simulation of Delivery  *)
(* in both directions. For ReceiveInv, most steps bring the client no      *)
(* message and the broker no reply, and one lemma (HushedReceive) covers   *)
(* them; each of the others has its own.                                   *)
(***************************************************************************)
EXTENDS MqttSessionProofs

-----------------------------------------------------------------------------
\* What comes in on a connection that is made.

\* What the client knows of a packet it has taken off its connection.
LEMMA HeardIs ==
    ASSUME Typed, ConnInv, Tidy, SendInv, NEW s \in Sockets, HandleMessage(s),
           c.connected
    PROVE  LET p == Head(c.down[s])
               o == [c EXCEPT !.down[s] = Tail(@)]
           IN  /\ StreamOK(o, broker.conn, broker.rec)
               /\ MessagesOK(o, broker.conn, broker.rec, outQos, taken)
               /\ p.kind \in {"PUBACK", "PUBREC"} =>
                     p.id \in Publishes(o.sent) /\ taken[o.sent[p.id].msg] > 0
               /\ p.kind = "PUBCOMP" /\ Lasts(o, broker.conn) =>
                     p.id \notin broker.rec
               /\ UNCHANGED <<broker, outQos, taken>>
<1> DEFINE p == Head(c.down[s])
           o == [c EXCEPT !.down[s] = Tail(@)]
           d == c.down[s]
           b == broker.conn
<1>1. /\ s = c.sock /\ p \in Packets /\ Made(o, b)
      /\ o.sock = s /\ o.connected = c.connected /\ o.clean = c.clean
      /\ o.sent = c.sent /\ o.buffered = c.buffered /\ o.up = c.up
      /\ \A x \in Sockets :
            o.down[x] = IF x = s THEN Tail(c.down[s]) ELSE c.down[x]
  BY PacketOff
<1>2. d # <<>> /\ UNCHANGED <<broker, outQos, taken>>
  BY DEF HandleMessage, Quiet
<1>3. ObjectOK(c) /\ d \in Seq(Packets) /\ b \in Sockets \union {NoSocket}
      /\ c.sock # NoSocket /\ c.up \in [Sockets -> Seq(Packets)]
  BY SockIs DEF ObjectOK
<1> HIDE DEF o
<1>4. ObjectOK(o)
  BY <1>1 DEF Made
<1>5. Calm(o, b, c, b)
  <2>1. Part(Tail(d), d, Receipts)
    BY <1>2, <1>3, PartTail
  <2>2. o.down[s] = Tail(d)
    BY <1>1
  <2>3. Admitted(c)
    BY DEF Admitted
  <2> QED
    BY <1>1, <2>1, <2>2, <2>3 DEF Calm
<1>6. StreamOK(o, b, broker.rec) /\ MessagesOK(o, b, broker.rec, outQos, taken)
  BY <1>3, <1>4, <1>5, CalmStream, CalmMessages DEF SendInv, StreamInv
<1>7. /\ ReceiptsOK(d, c.sent, taken)
      /\ (Lasts(c, b) => ReleasesOK(d, broker.rec))
  BY <1>1 DEF SendInv, MessagesOK, RepliesOK
<1>8. p = d[1] /\ 1 \in DOMAIN d
  BY <1>2, <1>3, TailIs, SeqIs
<1>9. Lasts(o, b) <=> Lasts(c, b)
  BY <1>1 DEF Lasts
<1>10. p.kind \in {"PUBACK", "PUBREC"} =>
          p.id \in Publishes(o.sent) /\ taken[o.sent[p.id].msg] > 0
  BY <1>1, <1>7, <1>8 DEF ReceiptsOK
<1>11. p.kind = "PUBCOMP" /\ Lasts(o, b) => p.id \notin broker.rec
  BY <1>7, <1>8, <1>9 DEF ReleasesOK
<1> HIDE DEF p, d
<1> QED
  BY <1>2, <1>6, <1>10, <1>11 DEF o, p

-----------------------------------------------------------------------------
\* A message forgotten with the packet that settles it.
LEMMA ForgetSend ==
    ASSUME NEW o, NEW conn \in Sockets \union {NoSocket}, Made(o, conn),
           NEW p \in Answers, Settles(p, o),
           NEW rec, NEW oq, NEW tk, StreamOK(o, conn, rec),
           MessagesOK(o, conn, rec, oq, tk),
           p.kind # "PUBREC",
           p.kind = "PUBCOMP" /\ Lasts(o, conn) => p.id \notin rec,
           NEW r, r = [o EXCEPT !.sent = Unbind(@, p.id)]
    PROVE  StreamOK(r, conn, rec) /\ MessagesOK(r, conn, rec, oq, tk)
<1> DEFINE f == Unbind(o.sent, p.id)
           s == o.sock
           u == Unread(o, conn)
<1>1. DOMAIN f = DOMAIN o.sent \ {p.id} /\ \A i \in DOMAIN f : f[i] = o.sent[i]
  BY DEF Unbind
<1>2. /\ r.sent = f /\ r.clean = o.clean /\ r.connected = o.connected
      /\ r.buffered = o.buffered /\ r.sock = s /\ r.up = o.up /\ r.down = o.down
  BY DEF Made, ObjectOK, Fields
<1> HIDE DEF f
<1>3. s \in Sockets /\ o.connected /\ p.id \in DOMAIN o.sent
      /\ Fits(p, o.sent[p.id]) /\ p.id \notin IdsOf(o.up[s], Asks)
      /\ p.id \notin IdsOf(o.down[s], Answers)
      /\ o.down[s] \in Seq(Packets)
  BY SocketIs DEF Made, LinkedOK, Settles, ObjectOK
<1>4. p.kind \in {"PUBACK", "PUBCOMP", "REQUESTACK"}
  BY DEF Answers
<1>5. /\ HeldOK(o.sent, oq, tk) /\ UnreadOK(u, rec, oq, tk)
      /\ BufferOK(o.buffered, u, oq, tk)
      /\ (Lasts(o, conn) => SessionOK(o.sent, rec, tk))
      /\ (~o.clean => FitAll(u, Asks, o.sent))
      /\ RepliesOK(o, conn, rec, tk)
  BY DEF MessagesOK
<1>6. Unread(r, conn) = u /\ (Lasts(r, conn) <=> Lasts(o, conn))
  BY <1>2 DEF Unread, Lasts
<1>7. StreamOK(r, conn, rec)
  BY <1>2, <1>6 DEF StreamOK, QuietOK, AdmittedOK, FreshOK, Admitted
<1>8. Publishes(f) = Publishes(o.sent) \ {p.id}
  BY <1>1 DEF Publishes
<1>9. HeldOK(f, oq, tk)
  BY <1>1, <1>5, <1>8 DEF HeldOK, Publishes
<1>10. Lasts(o, conn) => SessionOK(f, rec, tk)
  <2> SUFFICES ASSUME Lasts(o, conn) PROVE SessionOK(f, rec, tk)
    OBVIOUS
  <2>1. SessionOK(o.sent, rec, tk)
    BY <1>5
  <2>2. p.id \notin rec
    BY <1>3, <1>4, <2>1 DEF SessionOK, Fits, Publishes
  <2> QED
    BY <1>1, <1>8, <2>1, <2>2 DEF SessionOK, Publishes
<1>11. ~o.clean => FitAll(u, Asks, f)
  <2> SUFFICES ASSUME ~o.clean PROVE FitAll(u, Asks, f)
    OBVIOUS
  <2>1. conn = s \/ u = <<>>
    BY <1>3 DEF StreamOK, AdmittedOK, Admitted
  <2>2. p.id \notin IdsOf(u, Asks)
    <3>1. conn = s => u = o.up[s]
      BY <1>3 DEF Unread, NoSocket, Sockets
    <3> QED
      BY <1>3, <2>1, <3>1 DEF IdsOf
  <2> HIDE DEF u
  <2> QED
    BY <1>1, <1>5, <2>2 DEF FitAll, IdsOf
<1>12. ReceiptsOK(o.down[s], f, tk)
  <2> SUFFICES ASSUME NEW k \in DOMAIN o.down[s],
                      o.down[s][k].kind \in {"PUBACK", "PUBREC"}
               PROVE  /\ o.down[s][k].id \in Publishes(f)
                      /\ tk[f[o.down[s][k].id].msg] > 0
    BY DEF ReceiptsOK
  <2>1. o.down[s][k] \in Answers
    <3>1. o.down[s][k] \in Packets
      BY <1>3, SeqIs
    <3> QED
      BY <3>1 DEF Answers
  <2>2. o.down[s][k].id # p.id
    BY <1>3, <2>1 DEF IdsOf
  <2>3. /\ o.down[s][k].id \in Publishes(o.sent)
        /\ tk[o.sent[o.down[s][k].id].msg] > 0
    BY <1>3, <1>5 DEF RepliesOK, ReceiptsOK
  <2> QED
    BY <1>1, <1>8, <2>2, <2>3 DEF Publishes
<1>13. RepliesOK(r, conn, rec, tk)
  BY <1>2, <1>3, <1>5, <1>6, <1>12 DEF RepliesOK
<1> HIDE DEF u
<1>14. MessagesOK(r, conn, rec, oq, tk)
  BY <1>2, <1>5, <1>6, <1>9, <1>10, <1>11, <1>13 DEF MessagesOK
<1> QED
  BY <1>7, <1>14

\* A message the broker says it has.
LEMMA MarkSend ==
    ASSUME NEW o, NEW conn \in Sockets \union {NoSocket}, Made(o, conn),
           NEW i \in DOMAIN o.sent, i \notin IdsOf(o.up[o.sock], Asks),
           o.sent[i].qos = 2,
           NEW rec, NEW oq, NEW tk, StreamOK(o, conn, rec),
           MessagesOK(o, conn, rec, oq, tk),
           i \in Publishes(o.sent), tk[o.sent[i].msg] > 0,
           NEW r, r = [o EXCEPT !.sent[i].rec = TRUE]
    PROVE  StreamOK(r, conn, rec) /\ MessagesOK(r, conn, rec, oq, tk)
<1> DEFINE f == r.sent
           s == o.sock
           u == Unread(o, conn)
<1>1. /\ DOMAIN f = DOMAIN o.sent
      /\ \A j \in DOMAIN o.sent :
            /\ f[j].kind = o.sent[j].kind /\ f[j].msg = o.sent[j].msg
            /\ f[j].qos = o.sent[j].qos
            /\ j # i => f[j] = o.sent[j]
      /\ f[i].rec = TRUE
  <2>1. DOMAIN o = Fields /\ IsMap(o.sent, Nat \ {0}, Pending)
    BY DEF Made, ObjectOK
  <2>2. r.sent = [o.sent EXCEPT ![i].rec = TRUE]
    BY <2>1 DEF Fields
  <2>3. \A j \in DOMAIN o.sent : o.sent[j] \in Pending
    BY <2>1 DEF IsMap
  <2> QED
    BY <2>2, <2>3 DEF Pending
<1>2. /\ r.clean = o.clean /\ r.connected = o.connected
      /\ r.buffered = o.buffered /\ r.sock = s /\ r.up = o.up /\ r.down = o.down
  BY DEF Made, ObjectOK, Fields
<1> HIDE DEF f
<1>3. s \in Sockets /\ o.connected
  BY SocketIs DEF Made, LinkedOK
<1>5. /\ HeldOK(o.sent, oq, tk) /\ UnreadOK(u, rec, oq, tk)
      /\ BufferOK(o.buffered, u, oq, tk)
      /\ (Lasts(o, conn) => SessionOK(o.sent, rec, tk))
      /\ (~o.clean => FitAll(u, Asks, o.sent))
      /\ RepliesOK(o, conn, rec, tk)
  BY DEF MessagesOK
<1>6. Unread(r, conn) = u /\ (Lasts(r, conn) <=> Lasts(o, conn))
  BY <1>2 DEF Unread, Lasts
<1>7. StreamOK(r, conn, rec)
  BY <1>2, <1>6 DEF StreamOK, QuietOK, AdmittedOK, FreshOK, Admitted
<1>8. Publishes(f) = Publishes(o.sent)
  BY <1>1 DEF Publishes
<1>9. HeldOK(f, oq, tk)
  <2>1. \A j \in Publishes(f) : /\ f[j].msg = o.sent[j].msg
                                /\ f[j].qos = o.sent[j].qos
                                /\ j # i => f[j].rec = o.sent[j].rec
    BY <1>1, <1>8 DEF Publishes
  <2> QED
    BY <1>5, <1>8, <2>1 DEF HeldOK
<1>10. Lasts(o, conn) => SessionOK(f, rec, tk)
  BY <1>1, <1>5, <1>8 DEF SessionOK, Publishes
<1>11. ~o.clean => FitAll(u, Asks, f)
  <2> SUFFICES ASSUME ~o.clean PROVE FitAll(u, Asks, f)
    OBVIOUS
  <2>1. conn = s \/ u = <<>>
    BY <1>3 DEF StreamOK, AdmittedOK, Admitted
  <2>2. i \notin IdsOf(u, Asks)
    <3>1. conn = s => u = o.up[s]
      BY <1>3 DEF Unread, NoSocket, Sockets
    <3> QED
      BY <2>1, <3>1 DEF IdsOf
  <2> HIDE DEF u
  <2> QED
    BY <1>1, <1>5, <2>2 DEF FitAll, IdsOf
<1>12. ReceiptsOK(o.down[s], f, tk)
  BY <1>1, <1>3, <1>5, <1>8 DEF RepliesOK, ReceiptsOK, Publishes
<1>13. RepliesOK(r, conn, rec, tk)
  BY <1>2, <1>3, <1>5, <1>6, <1>12 DEF RepliesOK, f
<1> HIDE DEF u
<1>14. MessagesOK(r, conn, rec, oq, tk)
  BY <1>2, <1>5, <1>6, <1>9, <1>10, <1>11, <1>13 DEF MessagesOK, f
<1> QED
  BY <1>7, <1>14

\* An object that differs in what it has received has promised the same.
LEMMA SameSend ==
    ASSUME NEW o, NEW r, NEW conn, r.up = o.up, r.down = o.down,
           r.sock = o.sock, r.connected = o.connected, r.clean = o.clean,
           r.sent = o.sent, r.buffered = o.buffered,
           NEW rec, NEW oq, NEW tk, StreamOK(o, conn, rec),
           MessagesOK(o, conn, rec, oq, tk)
    PROVE  StreamOK(r, conn, rec) /\ MessagesOK(r, conn, rec, oq, tk)
<1>1. Unread(r, conn) = Unread(o, conn) /\ (Lasts(r, conn) <=> Lasts(o, conn))
  BY DEF Unread, Lasts
<1>2. StreamOK(r, conn, rec)
  BY <1>1 DEF StreamOK, QuietOK, AdmittedOK, FreshOK, Admitted
<1>3. MessagesOK(r, conn, rec, oq, tk)
  BY <1>1 DEF MessagesOK, RepliesOK
<1> QED
  BY <1>2, <1>3

\* The handlers of what comes on a connection that is made.
LEMMA HandlersSend ==
    ASSUME NEW o, Made(o, broker.conn), o.sent = c.sent, Typed, IdsFit,
           StreamOK(o, broker.conn, broker.rec),
           MessagesOK(o, broker.conn, broker.rec, outQos, taken),
           NEW p \in Packets, Settles(p, o),
           p.kind \in {"PUBACK", "PUBREC"} =>
              p.id \in Publishes(o.sent) /\ taken[o.sent[p.id].msg] > 0,
           p.kind = "PUBCOMP" /\ Lasts(o, broker.conn) => p.id \notin broker.rec,
           \/ HandlePublish(o, p) \/ HandlePuback(o, p) \/ HandlePubrec(o, p)
           \/ HandlePubrel(o, p) \/ HandlePubcomp(o, p) \/ HandleRequestAck(o, p)
    PROVE  /\ StreamOK(c', broker.conn, broker.rec)
           /\ MessagesOK(c', broker.conn, broker.rec, outQos, taken)
<1> DEFINE id == p.id
           b == broker.conn
           rec == broker.rec
           Good(r) == StreamOK(r, b, rec) /\ MessagesOK(r, b, rec, outQos, taken)
<1>1. /\ ObjectOK(o) /\ DOMAIN o = Fields /\ id \in Nat /\ Good(o)
      /\ b \in Sockets \union {NoSocket}
  BY DEF Made, ObjectOK, Packets, Typed, TypeInv, BrokerOK
<1> HIDE DEF Good
<1>2. ASSUME NEW kind \in {"PUBACK", "PUBREC", "PUBCOMP"}, NEW r,
             Made(r, b), Good(r)
      PROVE  Good(ScheduleInHandler(r, Control(kind, id)))
  <2> DEFINE e == Control(kind, id)
             n == ScheduleInHandler(r, e)
  <2>1. e \in Packets /\ e.kind \notin Asking
    BY <1>1, ControlIs DEF Kinds, Control, Packet, Asking
  <2> HIDE DEF e
  <2>2. Calm(n, b, r, b)
    BY <1>2, <2>1, SentCalm
  <2>3. ObjectOK(r) /\ r.sock # NoSocket
    BY <1>2 DEF Made, LinkedOK
  <2>4. ObjectOK(n)
    <3>1. PICK x : /\ ObjectOK(x) /\ x.sock = r.sock
                   /\ n = SocketSend(x, <<e>>)
      BY <1>2, <2>1, GoesOut
    <3>2. x.sock \in Sockets /\ <<e>> \in Seq(Packets)
      BY <2>1, <2>3, <3>1, SocketIs
    <3> QED
      BY <3>1, <3>2, SocketSendOK
  <2> HIDE DEF n
  <2>5. StreamOK(n, b, rec)
    BY <1>1, <1>2, <2>2, CalmStream DEF Good
  <2>6. MessagesOK(n, b, rec, outQos, taken)
    BY <1>1, <1>2, <2>2, <2>3, <2>4, CalmMessages DEF Good
  <2> QED
    BY <2>5, <2>6 DEF Good, n, e
<1>4. CASE HandlePublish(o, p) \/ HandlePubrel(o, p)
  <2> DEFINE g == Bind(o.received, id, p.msg)
             h == Unbind(o.received, id)
  <2>3. \/ c' = o
        \/ c' = ScheduleInHandler(o, Control("PUBACK", id))
        \/ c' = ScheduleInHandler([o EXCEPT !.received = g], Control("PUBREC", id))
        \/ c' = ScheduleInHandler([o EXCEPT !.received = h], Control("PUBCOMP", id))
    BY <1>4 DEF HandlePublish, HandlePubrel
  <2>5. IsMap(g, Nat, 0..TopMsg) /\ IsMap(h, Nat, 0..TopMsg)
    <3>1. p.msg \in 0..TopMsg /\ IsMap(o.received, Nat, 0..TopMsg)
      BY <1>1 DEF Packets, ObjectOK
    <3> QED
      BY <1>1, <3>1, MessagesIs
  <2> HIDE DEF g, h
  <2>6. ASSUME NEW x, IsMap(x, Nat, 0..TopMsg)
        PROVE  LET r == [o EXCEPT !.received = x]
               IN  Made(r, b) /\ Good(r)
    <3> DEFINE r == [o EXCEPT !.received = x]
    <3>1. ObjectOK(r) /\ r.sent = o.sent /\ r.clean = o.clean
      BY <1>1, <2>6, ReceivedOK
    <3>2. SameConn(r, o)
      BY <1>1, SentSame
    <3> HIDE DEF r
    <3>3. Made(r, b)
      BY <3>1, <3>2, SameConnOK DEF Made, SameConn
    <3>4. Good(r)
      BY <1>1, <3>1, <3>2, SameSend DEF Good, SameConn
    <3> QED
      BY <3>3, <3>4 DEF r
  <2>7. Good(c')
    <3>1. CASE c' = o \/ c' = ScheduleInHandler(o, Control("PUBACK", id))
      BY <1>1, <1>2, <3>1
    <3>2. ASSUME NEW x, NEW kind \in {"PUBREC", "PUBCOMP"},
                 IsMap(x, Nat, 0..TopMsg),
                 c' = ScheduleInHandler([o EXCEPT !.received = x], Control(kind, id))
          PROVE  Good(c')
      BY <1>2, <2>6, <3>2
    <3> QED
      BY <2>3, <2>5, <3>1, <3>2
  <2> QED
    BY <2>7 DEF Good
<1>5. CASE c' = [o EXCEPT !.sent = Unbind(@, id)] /\ p \in Answers
           /\ p.kind # "PUBREC"
  <2> DEFINE r == [o EXCEPT !.sent = Unbind(@, id)]
  <2>1. StreamOK(r, b, rec) /\ MessagesOK(r, b, rec, outQos, taken)
    BY <1>1, <1>5, ForgetSend
  <2> QED
    BY <1>5, <2>1
<1>6. CASE HandlePuback(o, p)
  BY <1>5, <1>6 DEF HandlePuback, Forget, Answers
<1>7. CASE HandlePubcomp(o, p)
  <2>1. p \in Answers /\ p.kind = "PUBCOMP"
    BY <1>7 DEF HandlePubcomp, Answers
  <2>2. p.id \in DOMAIN o.sent
    BY <2>1 DEF Settles
  <2> QED
    BY <1>5, <1>7, <2>1, <2>2 DEF HandlePubcomp, Forget
<1>8. CASE HandleRequestAck(o, p)
  BY <1>5, <1>8 DEF HandleRequestAck, Answers
<1>9. CASE HandlePubrec(o, p)
  <2> DEFINE r == [o EXCEPT !.sent[id].rec = TRUE]
             e == Control("PUBREL", id)
  <2>1. p \in Answers /\ p.kind = "PUBREC"
    BY <1>9 DEF HandlePubrec, Answers
  <2>2. /\ id \in DOMAIN o.sent /\ o.sent[id].kind # "REQUEST"
        /\ o.sent[id].qos = 2 /\ id \notin IdsOf(o.up[o.sock], Asks)
    BY <2>1 DEF Settles, Fits
  <2>3. o.sent[id] \in Pending /\ id \in Publishes(o.sent)
        /\ taken[o.sent[id].msg] > 0
    BY <1>1, <2>1, <2>2 DEF ObjectOK, IsMap
  <2>4. c' = ScheduleInHandler(r, e)
    BY <1>9, <2>2 DEF HandlePubrec
  <2>5. ObjectOK(r) /\ SameConn(r, o)
    BY <1>1, <2>2, MarkedOK
  <2>6. /\ id \in DOMAIN r.sent /\ r.sent[id].kind = "PUBLISH"
        /\ r.sent[id].qos = 2 /\ r.sent[id].rec = TRUE
    BY <1>1, <2>2, <2>3 DEF Fields, Pending, Publishes
  <2>7. StreamOK(r, b, rec) /\ MessagesOK(r, b, rec, outQos, taken)
    BY <1>1, <2>2, <2>3, MarkSend
  <2> HIDE DEF r
  <2>8. Made(r, b)
    BY <2>5, SameConnOK DEF Made, SameConn
  <2>9. id \notin IdsOf(r.up[r.sock], Asks)
    BY <2>2, <2>5 DEF SameConn
  <2>10. e \in Packets /\ e.id = id /\ e.kind = "PUBREL"
    BY <1>1, ControlIs DEF Kinds, Control, Packet
  <2> HIDE DEF e
  <2>11. id < WireIds
    BY <2>2, IdsAre
  <2>12. Fits(e, r.sent[e.id])
    BY <2>6, <2>10 DEF Fits
  <2> DEFINE n == ScheduleInHandler(r, e)
  <2>13. StreamOK(n, b, rec) /\ MessagesOK(n, b, rec, outQos, taken)
    BY <1>1, <2>6, <2>7, <2>8, <2>9, <2>10, <2>11, <2>12, PutSend
  <2> QED
    BY <2>4, <2>13
<1> QED
  BY <1>4, <1>6, <1>7, <1>8, <1>9

\* Any packet taken off a connection that is made.
LEMMA HeardSend ==
    ASSUME Typed, ConnInv, Tidy, SendInv, IdsFit, NEW s \in Sockets,
           HandleMessage(s), c.connected
    PROVE  SendInv'
<1> DEFINE p == Head(c.down[s])
           o == [c EXCEPT !.down[s] = Tail(@)]
<1>1. /\ p \in Packets /\ Made(o, broker.conn) /\ Settles(p, o)
      /\ o.sent = c.sent
      /\ \/ HandlePublish(o, p) \/ HandlePuback(o, p)
         \/ HandlePubrec(o, p) \/ HandlePubrel(o, p)
         \/ HandlePubcomp(o, p) \/ HandleRequestAck(o, p)
  BY PacketOff
<1>2. /\ StreamOK(o, broker.conn, broker.rec)
      /\ MessagesOK(o, broker.conn, broker.rec, outQos, taken)
      /\ (p.kind \in {"PUBACK", "PUBREC"} =>
            p.id \in Publishes(o.sent) /\ taken[o.sent[p.id].msg] > 0)
      /\ (p.kind = "PUBCOMP" /\ Lasts(o, broker.conn) => p.id \notin broker.rec)
      /\ UNCHANGED <<broker, outQos, taken>>
  BY HeardIs
<1> HIDE DEF o, p
<1>3. /\ StreamOK(c', broker.conn, broker.rec)
      /\ MessagesOK(c', broker.conn, broker.rec, outQos, taken)
  BY <1>1, <1>2, HandlersSend
<1> QED
  BY <1>2, <1>3 DEF SendInv, StreamInv, UnsentOK

-----------------------------------------------------------------------------
\* The answer to CONNECT, and what is sent again after it.

\* What UnreadOK says of the messages of u: each may be taken, and no two are
\* the same.
Offers(u, rec, oq, tk) ==
    /\ \A k \in Carried(u) : Takable(u[k], rec, oq, tk)
    /\ \A k, l \in Carried(u) : u[k].msg = u[l].msg => k = l

\* The messages that are sent again may be taken, each once.
LEMMA AgainOffers ==
    ASSUME NEW o, ObjectOK(o), SettledOK(o), PendingOK(o.sent),
           NEW rec, NEW oq, NEW tk, NEW u,
           HeldOK(o.sent, oq, tk), SessionOK(o.sent, rec, tk),
           BufferOK(o.buffered, u, oq, tk), tk \in [1..OutMsgs -> 0..2],
           NEW q \in Orders(o)
    PROVE  Offers([i \in DOMAIN q |-> q[i].pkt], rec, oq, tk)
<1> DEFINE ps == [i \in DOMAIN q |-> q[i].pkt]
           P(i) == IF o.sent[i].kind = "REQUEST" THEN Control("REQUEST", i)
                   ELSE IF o.sent[i].rec THEN Control("PUBREL", i)
                   ELSE Packet("PUBLISH", i, o.sent[i].msg, o.sent[i].qos)
           E(i) == [seq |-> o.sent[i].seq, pkt |-> P(i)]
<1>1. Resend(o) = {E(i) : i \in DOMAIN o.sent} \union Range(o.buffered)
  BY DEF Resend
<1>2. \A i \in DOMAIN o.sent : P(i).kind = "PUBLISH" =>
         /\ P(i).id = i /\ P(i).msg = o.sent[i].msg /\ P(i).qos = o.sent[i].qos
         /\ i \in Publishes(o.sent) /\ ~o.sent[i].rec
  <2> SUFFICES ASSUME NEW i \in DOMAIN o.sent, P(i).kind = "PUBLISH"
               PROVE  /\ P(i).id = i /\ P(i).msg = o.sent[i].msg
                      /\ P(i).qos = o.sent[i].qos
                      /\ i \in Publishes(o.sent) /\ ~o.sent[i].rec
    OBVIOUS
  <2>1. o.sent[i] \in Pending
    BY DEF ObjectOK, IsMap
  <2>2. o.sent[i].kind # "REQUEST" /\ ~o.sent[i].rec
    BY DEF Control, Packet
  <2>3. o.sent[i].kind = "PUBLISH"
    BY <2>1, <2>2 DEF Pending
  <2> QED
    BY <2>2, <2>3 DEF Packet, Publishes
<1> HIDE DEF P
<1>3. \A i \in DOMAIN o.sent : E(i).pkt = P(i)
  OBVIOUS
<1> HIDE DEF E
<1>4. \A x \in Resend(o) : x.pkt.kind = "PUBLISH" =>
         \/ \E i \in Publishes(o.sent) :
               /\ x = E(i) /\ x.pkt.id = i /\ x.pkt.msg = o.sent[i].msg
               /\ x.pkt.qos = o.sent[i].qos /\ ~o.sent[i].rec
         \/ \E k \in DOMAIN o.buffered : x = o.buffered[k]
  BY <1>1, <1>2, <1>3 DEF Range
<1>5. \A i \in Publishes(o.sent) :
         /\ o.sent[i].qos \in {1, 2} /\ o.sent[i].msg \in 1..OutMsgs
         /\ oq[o.sent[i].msg] = o.sent[i].qos
         /\ tk[o.sent[i].msg] \in 0..2
  <2> SUFFICES ASSUME NEW i \in Publishes(o.sent)
               PROVE  /\ o.sent[i].qos \in {1, 2} /\ o.sent[i].msg \in 1..OutMsgs
                      /\ oq[o.sent[i].msg] = o.sent[i].qos
                      /\ tk[o.sent[i].msg] \in 0..2
    OBVIOUS
  <2>1. i \in DOMAIN o.sent /\ o.sent[i].kind = "PUBLISH"
    BY DEF Publishes
  <2>2. o.sent[i] \in Pending /\ o.sent[i].qos > 0
    BY <2>1 DEF ObjectOK, IsMap, PendingOK
  <2> QED
    BY <2>2 DEF Pending, HeldOK
<1>6. \A k \in DOMAIN o.buffered :
         /\ o.buffered[k].pkt.qos = 0 /\ o.buffered[k].pkt.msg \in 1..OutMsgs
         /\ oq[o.buffered[k].pkt.msg] = 0 /\ tk[o.buffered[k].pkt.msg] = 0
  BY DEF SettledOK, BufferOK
<1>7. \A x \in Resend(o) : x.pkt.kind = "PUBLISH" => Takable(x.pkt, rec, oq, tk)
  <2> SUFFICES ASSUME NEW x \in Resend(o), x.pkt.kind = "PUBLISH"
               PROVE  Takable(x.pkt, rec, oq, tk)
    OBVIOUS
  <2>1. ASSUME NEW i \in Publishes(o.sent), x.pkt.id = i,
               x.pkt.msg = o.sent[i].msg, x.pkt.qos = o.sent[i].qos,
               ~o.sent[i].rec
        PROVE  Takable(x.pkt, rec, oq, tk)
    <3>1. o.sent[i].qos = 2 /\ tk[o.sent[i].msg] > 0 => i \in rec
      BY <2>1 DEF SessionOK
    <3>2. o.sent[i].qos = 1 \/ (o.sent[i].qos = 2 /\ i \in rec)
             \/ tk[o.sent[i].msg] = 0
      BY <1>5, <3>1
    <3> QED
      BY <1>5, <2>1, <3>2 DEF Takable
  <2>2. ASSUME NEW k \in DOMAIN o.buffered, x = o.buffered[k]
        PROVE  Takable(x.pkt, rec, oq, tk)
    BY <1>6, <2>2 DEF Takable
  <2> QED
    BY <1>4, <2>1, <2>2
<1>8. \A x, y \in Resend(o) :
         x.pkt.kind = "PUBLISH" /\ y.pkt.kind = "PUBLISH" /\ x.pkt.msg = y.pkt.msg
            => x = y
  <2>1. \A i, j \in Publishes(o.sent) : o.sent[i].msg = o.sent[j].msg => i = j
    BY DEF HeldOK
  <2>2. \A k, l \in DOMAIN o.buffered :
           o.buffered[k].pkt.msg = o.buffered[l].pkt.msg => k = l
    BY DEF BufferOK
  <2>3. \A i \in Publishes(o.sent), k \in DOMAIN o.buffered :
           o.sent[i].msg # o.buffered[k].pkt.msg
    BY <1>5, <1>6
  <2> QED
    BY <1>4, <2>1, <2>2, <2>3
<1>9. /\ DOMAIN q = 1..Len(q)
      /\ \A i \in DOMAIN q : q[i] \in Resend(o)
  BY OrderIs
<1>10. \A i, j \in DOMAIN q : q[i] = q[j] => i = j
  BY DEF Orders, SetToSeqs
<1>11. DOMAIN ps = DOMAIN q /\ \A i \in DOMAIN q : ps[i] = q[i].pkt
  OBVIOUS
<1> HIDE DEF ps
<1>12. \A k \in Carried(ps) :
          k \in DOMAIN q /\ q[k].pkt.kind = "PUBLISH" /\ ps[k] = q[k].pkt
  BY <1>11 DEF Carried
<1>13. Offers(ps, rec, oq, tk)
  BY <1>7, <1>8, <1>9, <1>10, <1>12 DEF Offers
<1> QED
  BY <1>13 DEF ps

\* Behind a DISCONNECT still in the queue.
LEMMA BehindOffers ==
    ASSUME NEW e \in Seq(Packets), NEW ps \in Seq(Packets),
           NEW rec, NEW oq, NEW tk,
           AreOf(e, {"DISCONNECT"}), Offers(ps, rec, oq, tk)
    PROVE  Offers(e \o ps, rec, oq, tk)
<1> DEFINE k == e \o ps
           n == Len(e)
<1>1. /\ k \in Seq(Packets) /\ Len(k) = n + Len(ps)
      /\ \A i \in 1..n : k[i] = e[i]
      /\ \A i \in 1..Len(ps) : k[n + i] = ps[i]
  BY ConcatIs
<1>2. /\ n \in Nat /\ DOMAIN e = 1..n /\ Len(ps) \in Nat
      /\ DOMAIN ps = 1..Len(ps) /\ DOMAIN k = 1..Len(k)
  BY <1>1, SeqIs
<1> HIDE DEF k
<1>3. \A i \in 1..n : e[i].kind # "PUBLISH"
  BY <1>2 DEF AreOf
<1> HIDE DEF n
<1>4. \A i \in DOMAIN k : i \in 1..n \/ (i - n \in DOMAIN ps /\ n + (i - n) = i)
  BY <1>1, <1>2
<1>5. \A i \in Carried(k) : i - n \in Carried(ps) /\ k[i] = ps[i - n]
  <2> SUFFICES ASSUME NEW i \in Carried(k)
               PROVE  i - n \in Carried(ps) /\ k[i] = ps[i - n]
    OBVIOUS
  <2>1. i \in DOMAIN k /\ k[i].kind = "PUBLISH" /\ i \notin 1..n
    BY <1>1, <1>3 DEF Carried
  <2> QED
    BY <1>1, <1>2, <1>4, <2>1 DEF Carried
<1>6. \A i, j \in Carried(k) : i - n = j - n => i = j
  BY <1>1, <1>2 DEF Carried
<1>7. Offers(k, rec, oq, tk)
  BY <1>5, <1>6 DEF Offers
<1> QED
  BY <1>7 DEF k

\* As bytes, when the identifiers fit in two.
LEMMA EncodedOffers ==
    ASSUME NEW k \in Seq(Packets), NEW f, FitAll(k, Asks, f),
           \A i \in DOMAIN f : i < WireIds,
           NEW rec, NEW oq, NEW tk, Offers(k, rec, oq, tk)
    PROVE  Offers(Encoded(k), rec, oq, tk)
<1> DEFINE e == Encoded(k)
<1>1. /\ e \in Seq(Packets) /\ Len(e) = Len(k)
      /\ \A i \in 1..Len(k) : e[i] = [k[i] EXCEPT !.id = @ % WireIds]
  BY EncodedIs
<1>2. DOMAIN k = 1..Len(k) /\ DOMAIN e = DOMAIN k /\ \A i \in DOMAIN k : k[i] \in Packets
  BY <1>1, SeqIs
<1> HIDE DEF e
<1>3. ASSUME NEW p \in Packets, NEW x, x = [p EXCEPT !.id = @ % WireIds]
      PROVE  /\ x.kind = p.kind /\ x.msg = p.msg /\ x.qos = p.qos
             /\ p \in Asks /\ p.id < WireIds => x = p
             /\ p.kind = "PUBLISH" /\ p \notin Asks => p.qos = 0
             /\ Takable(p, rec, oq, tk) /\ (p \in Asks => p.id < WireIds)
                  /\ p.kind = "PUBLISH" => Takable(x, rec, oq, tk)
  <2>1. x.kind = p.kind /\ x.msg = p.msg /\ x.qos = p.qos
    BY <1>3 DEF Packets
  <2>2. p.id < WireIds => x = p
    BY <1>3, OneEncoded
  <2>3. p.kind = "PUBLISH" /\ p \notin Asks => p.qos = 0
    BY DEF Asks, Packets
  <2> QED
    BY <2>1, <2>2, <2>3 DEF Takable
<1>4. \A i \in DOMAIN k : k[i] \in Asks => k[i].id < WireIds
  BY DEF FitAll
<1>5. \A i \in DOMAIN k : /\ e[i].kind = k[i].kind /\ e[i].msg = k[i].msg
                          /\ Takable(k[i], rec, oq, tk) /\ k[i].kind = "PUBLISH"
                                => Takable(e[i], rec, oq, tk)
  <2> SUFFICES ASSUME NEW i \in DOMAIN k
               PROVE  /\ e[i].kind = k[i].kind /\ e[i].msg = k[i].msg
                      /\ Takable(k[i], rec, oq, tk) /\ k[i].kind = "PUBLISH"
                            => Takable(e[i], rec, oq, tk)
    OBVIOUS
  <2>1. k[i] \in Packets /\ e[i] = [k[i] EXCEPT !.id = @ % WireIds]
    BY <1>1, <1>2
  <2> QED
    BY <1>3, <1>4, <2>1
<1>6. \A i \in Carried(e) : i \in Carried(k) /\ i \in DOMAIN k /\ k[i].kind = "PUBLISH"
  BY <1>2, <1>5 DEF Carried
<1>7. Offers(e, rec, oq, tk)
  BY <1>5, <1>6 DEF Offers
<1> QED
  BY <1>7 DEF e

\* The object that takes the answer to its CONNECT is still without one.
LEMMA OpensCalm ==
    ASSUME Typed, NEW s \in Sockets, NEW u, Opens(u, s), ~c.connected
    PROVE  Calm(u, broker.conn, c, broker.conn) /\ ~Admitted(u)
<1>1. /\ ObjectOK(u) /\ s = c.sock /\ u.sock = s /\ u.connected = FALSE
      /\ u.up = c.up /\ u.buffered = c.buffered /\ u.clean = c.clean
      /\ u.sent = (IF c.clean THEN Empty ELSE c.sent)
      /\ AreOf(u.down[s], Announced)
  BY DEF Opens
<1>2. u.down[s] # <<>> => u.down[s][1].kind \in Announced
  <2>1. u.down[s] \in Seq(Packets)
    BY <1>1 DEF ObjectOK
  <2>2. u.down[s] # <<>> => 1 \in DOMAIN u.down[s]
    BY <2>1, TailIs, SeqIs
  <2> QED
    BY <1>1, <2>2 DEF AreOf
<1>3. ~Admitted(u)
  BY <1>1, <1>2 DEF Admitted, Announced
<1>4. c.clean \in BOOLEAN
  BY DEF Typed, TypeInv, ObjectOK
<1> QED
  BY <1>1, <1>3, <1>4 DEF Calm

\* A connection that is refused.
LEMMA RefusedEases ==
    ASSUME Typed, NEW s \in Sockets, NEW u, Opens(u, s), ~c.connected,
           UNCHANGED <<broker, outQos, taken>>, c' = Disconnected(u, TRUE)
    PROVE  Eases
<1>1. ObjectOK(u) /\ Free(u) # {} /\ u.connected = FALSE
  BY DEF Opens
<1>2. Dropped(c', u)
  BY <1>1, DisconnectedDrops
<1>3. Calm(u, broker.conn, c, broker.conn)
  BY OpensCalm
<1>4. Calm(c', broker.conn, c, broker.conn)
  BY <1>2, <1>3, DroppedCalm
<1> QED
  BY <1>4 DEF Eases

\* A connection that is accepted after disconnect() was called.
LEMMA GivenUpAtOnce ==
    ASSUME Typed, ConnInv, NEW s \in Sockets, NEW u, Opens(u, s), ~c.connected,
           UNCHANGED <<broker, outQos, taken>>,
           NEW e, ObjectOK(e), e.sock = u.sock, e.up = u.up, e.sent = u.sent,
           e.clean = u.clean, e.buffered = <<>>, e.connected = TRUE,
           e.ready = u.ready, e.link = u.link,
           NEW y \in Packets, y.kind = "DISCONNECT",
           NEW z, z = Disconnected(SocketSend(e, <<y>>), FALSE),
           c' = z \/ c' = Disconnected(z, TRUE)
    PROVE  Eases
<1> DEFINE conn == broker.conn
           x == SocketSend(e, <<y>>)
           w == [y EXCEPT !.id = @ % WireIds]
<1>1. /\ ObjectOK(u) /\ Free(u) # {} /\ u.sock = s /\ u.up = c.up
      /\ c.up[s] = <<>> /\ u.ready[s] = "open" /\ u.clean = c.clean
      /\ (u.link[s] = "up" => conn = s)
      /\ u.sent = (IF c.clean THEN Empty ELSE c.sent)
  BY DEF Opens
<1>2. <<y>> \in Seq(Packets) /\ Encoded(<<y>>) = <<w>> /\ w.kind = "DISCONNECT"
      /\ w \in Packets
  <2>1. w.kind = y.kind
    BY DEF Packets
  <2> QED
    BY <2>1, OneEncoded
<1>3. ObjectOK(x) /\ Free(e) \subseteq Free(x) /\ x.connected = TRUE
  BY <1>1, <1>2, SocketSendOK
<1>4. /\ x.clean = e.clean /\ x.sent = e.sent /\ x.buffered = e.buffered
      /\ x.up = [e.up EXCEPT ![e.sock] =
                    IF e.ready[e.sock] = "open" /\ e.link[e.sock] = "up"
                    THEN @ \o <<w>> ELSE @]
  BY <1>2 DEF SocketSend, ObjectOK, Fields
<1> HIDE DEF x, w
<1>5. <<>> \o <<w>> = <<w>>
  BY <1>2
<1>6. /\ \A t \in Sockets : t # s => x.up[t] = c.up[t]
      /\ x.up[s] = <<>> \/ (conn = s /\ x.up[s] = <<w>>)
  <2>1. e.up \in [Sockets -> Seq(Packets)] /\ e.up = c.up /\ e.sock = s
    BY <1>1 DEF ObjectOK
  <2>2. e.link[s] = "up" => conn = s
    BY <1>1
  <2>3. CASE e.ready[e.sock] = "open" /\ e.link[e.sock] = "up"
    <3>1. x.up = [e.up EXCEPT ![s] = @ \o <<w>>]
      BY <1>4, <2>1, <2>3
    <3> QED
      BY <1>1, <1>5, <2>1, <2>2, <2>3, <3>1
  <2>4. CASE ~(e.ready[e.sock] = "open" /\ e.link[e.sock] = "up")
    <3>1. x.up = [e.up EXCEPT ![s] = @]
      BY <1>4, <2>1, <2>4
    <3> QED
      BY <1>1, <2>1, <3>1
  <2> QED
    BY <2>3, <2>4
<1>7. Free(x) # {}
  <2>1. Free(e) = Free(u)
    BY DEF Free
  <2> QED
    BY <1>1, <1>3, <2>1
<1>8. ObjectOK(z) /\ Dropped(z, x) /\ z.connected = FALSE
  <2>1. z = Disconnected(x, FALSE)
    BY DEF x
  <2>2. ObjectOK(z)
    BY <1>3, <1>7, <2>1, DisconnectedOK
  <2>3. Dropped(z, x)
    BY <1>3, <1>7, <2>1, DisconnectedDrops
  <2>4. z.connected = FALSE
    BY <2>3 DEF Dropped
  <2> QED
    BY <2>2, <2>3, <2>4
<1>9. ~Admitted(z)
  BY <1>3, <1>8 DEF Dropped
<1>10. Calm(z, conn, c, conn)
  <2>1. c.clean \in BOOLEAN
    BY DEF Typed, TypeInv, ObjectOK
  <2>2. /\ z.clean = c.clean /\ z.buffered = <<>> /\ z.up = x.up
        /\ z.sent = c.sent \/ (c.clean /\ z.sent = Empty)
    <3>1. z.clean = x.clean /\ z.sent = x.sent /\ z.up = x.up
          /\ (z.buffered = x.buffered \/ z.buffered = <<>>)
      BY <1>8 DEF Dropped
    <3>2. x.clean = u.clean /\ x.sent = u.sent /\ x.buffered = <<>>
      BY <1>4
    <3> QED
      BY <1>1, <3>1, <3>2
  <2>3. Part(<<w>>, c.up[s], Asking)
    <3> DEFINE v == <<w>>
    <3>1. \A i \in DOMAIN v : v[i] = w
      OBVIOUS
    <3>2. w.kind \notin Asking
      BY <1>2 DEF Asking
    <3> HIDE DEF v
    <3>3. Part(v, c.up[s], Asking)
      BY <3>1, <3>2, PartNone
    <3> QED
      BY <3>3 DEF v
  <2>4. ASSUME NEW t \in Sockets
        PROVE  \/ z.up[t] = <<>> \/ z.up[t] = c.up[t]
               \/ t = conn /\ Part(z.up[t], c.up[t], Asking)
    BY <1>6, <2>2, <2>3
  <2> QED
    BY <1>8, <1>9, <2>2, <2>4 DEF Calm
<1>11. Calm(c', conn, c, conn)
  <2>1. CASE c' = z
    BY <1>10, <2>1
  <2>2. CASE c' = Disconnected(z, TRUE)
    <3> DEFINE d == Detach(x)
    <3>1. z = [d EXCEPT !.connected = FALSE]
      BY <1>3 DEF Disconnected, x
    <3>2. ObjectOK(d) /\ Free(x) \subseteq Free(d)
      BY <1>3, DetachOK
    <3> HIDE DEF d
    <3>3. z.ready = d.ready /\ z.up = d.up
      BY <3>1, <3>2 DEF ObjectOK, Fields
    <3>4. Free(z) = Free(d)
      BY <3>3 DEF Free
    <3>5. Dropped(c', z)
      BY <1>7, <1>8, <2>2, <3>2, <3>4, DisconnectedDrops
    <3> QED
      BY <1>10, <3>5, DroppedCalm
  <2> QED
    BY <2>1, <2>2
<1> QED
  BY <1>11 DEF Eases

\* A connection that is accepted, and what is sent again on it.
LEMMA AcceptedSend ==
    ASSUME Typed, ConnInv, Tidy, SendInv, IdsFit, NEW s \in Sockets,
           NEW u, Opens(u, s), ~c.connected, c.down[s][1].kind = "CONNACK",
           UNCHANGED <<broker, outQos, taken>>,
           NEW q \in Orders(u), NEW ps, ps = [i \in DOMAIN q |-> q[i].pkt],
           NEW e, ObjectOK(e), e.sock = u.sock, e.up = u.up, e.down = u.down,
           e.sent = u.sent, e.clean = u.clean, e.buffered = <<>>,
           e.connected = TRUE, e.ready = u.ready, e.link = u.link,
           c' = e \/ c' = SocketSend(e, u.queue \o ps)
    PROVE  SendInv'
<1> DEFINE conn == broker.conn
           rec == broker.rec
           k == u.queue \o ps
           v == Unread(c', conn)
<1>1. /\ ObjectOK(u) /\ SettledOK(u) /\ u.sock = s /\ u.up = c.up /\ s = c.sock
      /\ c.up[s] = <<>> /\ u.ready[s] = "open" /\ u.clean = c.clean
      /\ (u.link[s] = "up" => conn = s) /\ c.down[s] # <<>>
      /\ u.sent = (IF c.clean THEN Empty ELSE c.sent)
      /\ u.buffered = c.buffered
      /\ AreOf(u.queue, {"DISCONNECT"}) /\ AreOf(u.down[s], Announced)
  BY DEF Opens
<1>2. /\ StreamOK(c, conn, rec) /\ MessagesOK(c, conn, rec, outQos, taken)
      /\ PendingOK(c.sent) /\ c.clean \in BOOLEAN /\ ObjectOK(c)
      /\ conn \in Sockets \union {NoSocket} /\ NoSocket \notin Sockets
      /\ taken \in [1..OutMsgs -> 0..2]
  <2>1. /\ StreamOK(c, conn, rec) /\ MessagesOK(c, conn, rec, outQos, taken)
        /\ PendingOK(c.sent)
    BY DEF SendInv, StreamInv, Tidy, TokenInv
  <2>2. /\ ObjectOK(c) /\ taken \in [1..OutMsgs -> 0..2]
        /\ conn \in Sockets \union {NoSocket}
    BY DEF Typed, TypeInv, BrokerOK
  <2>3. c.clean \in BOOLEAN
    BY <2>2 DEF ObjectOK
  <2> QED
    BY <2>1, <2>2, <2>3 DEF NoSocket, Sockets
<1>3. PendingOK(u.sent) /\ \A i \in DOMAIN u.sent : i < WireIds
  BY <1>1, <1>2, IdsAre DEF PendingOK, Empty
<1>4. ps \in Seq(Packets) /\ Lone(ps, Asks) /\ FitAll(ps, Asks, u.sent)
  BY <1>1, <1>3, OrderIs, SentAgain
<1>5. u.queue \in Seq(Packets) /\ k \in Seq(Packets)
  BY <1>1, <1>4 DEF ObjectOK
<1>6. Lone(k, Asks) /\ FitAll(k, Asks, u.sent)
  BY <1>1, <1>4, <1>5, BehindOthers
<1>7. Lone(Encoded(k), Asks) /\ FitAll(Encoded(k), Asks, u.sent)
  BY <1>3, <1>5, <1>6, EncodedTokens
<1>8. Admitted(c)
  BY <1>1, <1>2 DEF Admitted
<1>9. /\ HeldOK(u.sent, outQos, taken)
      /\ u.clean /\ conn = s => rec = {}
      /\ ~u.clean \/ conn = s => SessionOK(u.sent, rec, taken)
  <2>1. Publishes(Empty) = {}
    BY DEF Publishes, Empty
  <2>2. HeldOK(Empty, outQos, taken) /\ SessionOK(Empty, {}, taken)
    BY <2>1 DEF HeldOK, SessionOK
  <2>3. u.clean /\ conn = s => rec = {}
    BY <1>1, <1>2, <1>8 DEF StreamOK, FreshOK
  <2>4. HeldOK(c.sent, outQos, taken) /\ (~c.clean => SessionOK(c.sent, rec, taken))
    BY <1>2 DEF MessagesOK, Lasts
  <2> QED
    BY <1>1, <1>2, <2>2, <2>3, <2>4
<1>10. BufferOK(u.buffered, Unread(c, conn), outQos, taken)
  BY <1>1, <1>2 DEF MessagesOK
<1>11. conn = s => Offers(Encoded(k), rec, outQos, taken)
  <2> SUFFICES ASSUME conn = s PROVE Offers(Encoded(k), rec, outQos, taken)
    OBVIOUS
  <2>1. Offers(ps, rec, outQos, taken)
    BY <1>1, <1>2, <1>3, <1>9, <1>10, AgainOffers, ZenonT(30)
  <2>2. Offers(k, rec, outQos, taken)
    BY <1>1, <1>4, <1>5, <2>1, BehindOffers
  <2> QED
    BY <1>3, <1>5, <1>6, <2>2, EncodedOffers
<1> HIDE DEF k
<1>12. Encoded(k) \in Seq(Packets) /\ <<>> \o Encoded(k) = Encoded(k)
  BY <1>5, EncodedIs
<1>13. /\ c'.sock = s /\ c'.clean = c.clean /\ c'.sent = u.sent
       /\ c'.connected = TRUE /\ c'.buffered = <<>> /\ c'.down = u.down
       /\ \A t \in Sockets : t # s => c'.up[t] = c.up[t]
       /\ c'.up[s] = <<>> \/ (conn = s /\ c'.up[s] = Encoded(k))
  <2>1. CASE c' = e
    BY <1>1, <2>1
  <2>2. CASE c' = SocketSend(e, k)
    <3> DEFINE x == SocketSend(e, k)
    <3>1. /\ x.sock = e.sock /\ x.clean = e.clean /\ x.sent = e.sent
          /\ x.connected = e.connected /\ x.buffered = e.buffered
          /\ x.down = e.down
          /\ x.up = [e.up EXCEPT ![e.sock] =
                       IF e.ready[e.sock] = "open" /\ e.link[e.sock] = "up"
                       THEN @ \o Encoded(k) ELSE @]
      BY DEF SocketSend, ObjectOK, Fields
    <3> HIDE DEF x
    <3>2. e.up \in [Sockets -> Seq(Packets)] /\ e.up = c.up /\ e.sock = s
          /\ (e.link[s] = "up" => conn = s)
      BY <1>1 DEF ObjectOK
    <3>3. /\ \A t \in Sockets : t # s => x.up[t] = c.up[t]
          /\ x.up[s] = <<>> \/ (conn = s /\ x.up[s] = Encoded(k))
      <4>1. CASE e.ready[e.sock] = "open" /\ e.link[e.sock] = "up"
        <5>1. x.up = [e.up EXCEPT ![s] = @ \o Encoded(k)]
          BY <3>1, <3>2, <4>1
        <5> QED
          BY <1>1, <1>12, <3>2, <4>1, <5>1
      <4>2. CASE ~(e.ready[e.sock] = "open" /\ e.link[e.sock] = "up")
        <5>1. x.up = [e.up EXCEPT ![s] = @]
          BY <3>1, <3>2, <4>2
        <5> QED
          BY <1>1, <3>2, <5>1
      <4> QED
        BY <4>1, <4>2
    <3>4. c' = x
      BY <2>2 DEF x
    <3> QED
      BY <1>1, <3>1, <3>3, <3>4
  <2> QED
    BY <2>1, <2>2 DEF k
<1>14. conn # s => v = <<>>
  <2> SUFFICES ASSUME conn # s PROVE v = <<>>
    OBVIOUS
  <2>1. Unread(c, conn) = <<>>
    BY <1>1, <1>2, <1>8 DEF StreamOK, AdmittedOK
  <2> QED
    BY <1>2, <1>13, <2>1 DEF Unread
<1>15. v = <<>> \/ (conn = s /\ v = Encoded(k))
  BY <1>2, <1>13, <1>14 DEF Unread
<1> HIDE DEF v
<1>16. StreamOK(c', conn, rec)
  <2>1. QuietOK(c', conn)
    <3> SUFFICES ASSUME NEW t \in Sockets, t # conn
                 PROVE  c'.up[t] = <<>> \/ Hello(c'.up[t], c'.clean)
      BY DEF QuietOK
    <3>1. c.up[t] = <<>> \/ Hello(c.up[t], c.clean)
      BY <1>2 DEF StreamOK, QuietOK
    <3> QED
      BY <1>13, <3>1
  <2>2. AdmittedOK(c', conn)
    BY <1>13, <1>14 DEF AdmittedOK, v
  <2>3. FreshOK(c', conn, rec)
    BY <1>13 DEF FreshOK
  <2> QED
    BY <2>1, <2>2, <2>3 DEF StreamOK
<1>17. MessagesOK(c', conn, rec, outQos, taken)
  <2>1. UnreadOK(v, rec, outQos, taken) /\ FitAll(v, Asks, u.sent)
    <3>1. UnreadOK(<<>>, rec, outQos, taken) /\ FitAll(<<>>, Asks, u.sent)
      BY NoneUnread
    <3>2. conn = s => UnreadOK(Encoded(k), rec, outQos, taken)
      BY <1>7, <1>11 DEF UnreadOK, Offers, k
    <3>3. FitAll(Encoded(k), Asks, u.sent)
      BY <1>7 DEF k
    <3> QED
      BY <1>15, <3>1, <3>2, <3>3
  <2>2. BufferOK(<<>>, v, outQos, taken)
    BY NoneUnread
  <2>3. Lasts(c', conn) => SessionOK(u.sent, rec, taken)
    BY <1>1, <1>2, <1>9, <1>13 DEF Lasts
  <2>4. RepliesOK(c', conn, rec, taken)
    <3>1. AreOf(c'.down[s], Announced)
      BY <1>1, <1>13
    <3>2. ReceiptsOK(c'.down[s], u.sent, taken) /\ ReleasesOK(c'.down[s], rec)
      BY <3>1 DEF ReceiptsOK, ReleasesOK, AreOf, Announced
    <3> QED
      BY <1>13, <3>2 DEF RepliesOK
  <2> QED
    BY <1>9, <1>13, <2>1, <2>2, <2>3, <2>4 DEF MessagesOK, v
<1>18. UnsentOK' /\ StreamInv'
  BY <1>16 DEF SendInv, UnsentOK, StreamInv
<1> QED
  BY <1>17, <1>18 DEF SendInv

\* The answer to a CONNECT.
LEMMA ConnackSend ==
    ASSUME Typed, Typed', ConnInv, Tidy, SendInv, IdsFit, NEW s \in Sockets,
           HandleMessage(s), ~c.connected
    PROVE  SendInv'
<1>1. PICK u : Opens(u, s)
  BY ConnackOff
<1>2. UNCHANGED <<broker, outQos, taken>>
  BY DEF HandleMessage, Quiet
<1>3. \/ /\ c.down[s][1].kind = "REFUSED" /\ c' = Disconnected(u, TRUE)
      \/ /\ c.down[s][1].kind = "CONNACK"
         /\ \E q \in Orders(u) : c' = Accepted(u, q)
  BY <1>1 DEF Opens
<1>4. CASE c' = Disconnected(u, TRUE)
  BY <1>1, <1>2, <1>4, RefusedEases, EasedSend
<1>5. ASSUME NEW q \in Orders(u), c' = Accepted(u, q),
             c.down[s][1].kind = "CONNACK"
      PROVE  SendInv'
  <2> DEFINE ps == [i \in DOMAIN q |-> q[i].pkt]
             k == u.queue \o ps
             r == Accepted(u, q)
  <2>1. /\ ObjectOK(u) /\ u.sock = s /\ u.sock # NoSocket
        /\ u.ready[u.sock] = "open" /\ AreOf(u.queue, {"DISCONNECT"})
        /\ u.notify = c.notify /\ u.queue = c.queue
        /\ u.reconnecting = c.reconnecting
    BY <1>1 DEF Opens, NoSocket, Sockets
  <2>2. u.notify => u.queue # <<>> /\ ~u.reconnecting
    BY <2>1 DEF ConnInv, ConnOK, NotifyOK
  <2>3. PICK e :
          /\ ObjectOK(e) /\ e.sock = u.sock /\ e.up = u.up /\ e.down = u.down
          /\ e.sent = u.sent /\ e.clean = u.clean /\ e.buffered = <<>>
          /\ e.reconnecting = FALSE /\ e.connected = TRUE
          /\ e.ready = u.ready /\ e.link = u.link
          /\ \/ k = <<>> /\ r = e
             \/ r = SocketSend(e, k)
             \/ /\ u.notify /\ k # <<>>
                /\ \E z : /\ z = Disconnected(SocketSend(e, SubSeq(k, 1, 1)), FALSE)
                          /\ r = z \/ r = Disconnected(z, TRUE)
    BY <2>1, <2>2, AcceptedIs
  <2>4. ps \in Seq(Packets) /\ u.queue \in Seq(Packets)
    BY <2>1, OrderIs DEF ObjectOK
  <2> HIDE DEF ps
  <2>5. CASE r = e \/ r = SocketSend(e, k)
    BY <1>1, <1>2, <1>5, <2>3, <2>5, AcceptedSend DEF ps
  <2>6. ASSUME u.notify, NEW z,
               z = Disconnected(SocketSend(e, SubSeq(k, 1, 1)), FALSE),
               r = z \/ r = Disconnected(z, TRUE)
        PROVE  SendInv'
    <3> DEFINE y == u.queue[1]
    <3>1. /\ Len(u.queue) \in Nat /\ Len(u.queue) > 0 /\ 1 \in DOMAIN u.queue
          /\ y \in Packets /\ k \in Seq(Packets) /\ k[1] = y
          /\ Len(k) = Len(u.queue) + Len(ps) /\ Len(ps) \in Nat
      <4>1. 1 \in DOMAIN u.queue /\ Len(u.queue) > 0 /\ Len(u.queue) \in Nat
        BY <2>2, <2>4, <2>6, TailIs, SeqIs
      <4>2. y \in Packets /\ 1 \in 1..Len(u.queue)
        BY <2>4, <4>1, SeqIs
      <4> QED
        BY <2>4, <4>1, <4>2, ConcatIs
    <3>2. y.kind = "DISCONNECT"
      BY <2>1, <3>1 DEF AreOf
    <3>3. SubSeq(k, 1, 1) = <<y>>
      <4> HIDE DEF k, y
      <4>1. Len(k) \in Nat /\ 1 \in 0..Len(k)
        BY <3>1
      <4>2. /\ SubSeq(k, 1, 1) \in Seq(Packets) /\ Len(SubSeq(k, 1, 1)) = 1
            /\ SubSeq(k, 1, 1)[1] = k[1]
        BY <3>1, <4>1, SubSeqIs
      <4> DEFINE w == SubSeq(k, 1, 1)
      <4> HIDE DEF w
      <4>3. w \in Seq(Packets) /\ Len(w) = 1 /\ w[1] = y
        BY <3>1, <4>2 DEF w
      <4>4. w = <<y>>
        BY <4>3
      <4> QED
        BY <4>4 DEF w
    <3> HIDE DEF y, k
    <3>4. z = Disconnected(SocketSend(e, <<y>>), FALSE)
      BY <2>6, <3>3
    <3>5. c' = z \/ c' = Disconnected(z, TRUE)
      BY <1>5, <2>6
    <3>6. Eases
      BY <1>1, <1>2, <2>3, <3>1, <3>2, <3>4, <3>5, GivenUpAtOnce
    <3> QED
      BY <3>6, EasedSend
  <2> QED
    BY <2>3, <2>5, <2>6
<1> QED
  BY <1>3, <1>4, <1>5

-----------------------------------------------------------------------------
\* What the application sends.

\* Nothing that is kept or under way is about message m.
Untold(o, conn, m) ==
    /\ \A i \in Publishes(o.sent) : o.sent[i].msg # m
    /\ \A k \in Carried(Unread(o, conn)) : Unread(o, conn)[k].msg # m
    /\ \A k \in DOMAIN o.buffered : o.buffered[k].pkt.msg # m

\* A message gets its quality when it is sent, and nothing under way is about
\* one that has none.
LEMMA QualityGiven ==
    ASSUME NEW o, ObjectOK(o), NEW conn \in Sockets \union {NoSocket},
           NEW rec, NEW tk, NEW oq, oq \in [1..OutMsgs -> 0..Unsent],
           MessagesOK(o, conn, rec, oq, tk),
           NEW m \in 1..OutMsgs, oq[m] = Unsent, NEW q \in 0..2
    PROVE  /\ MessagesOK(o, conn, rec, [oq EXCEPT ![m] = q], tk)
           /\ Untold(o, conn, m)
<1> DEFINE u == Unread(o, conn)
           n == [oq EXCEPT ![m] = q]
<1>1. u \in Seq(Packets)
  BY DEF Unread, ObjectOK
<1> HIDE DEF u
<1>2. /\ HeldOK(o.sent, oq, tk)
      /\ UnreadOK(u, rec, oq, tk) /\ BufferOK(o.buffered, u, oq, tk)
      /\ (Lasts(o, conn) => SessionOK(o.sent, rec, tk))
      /\ (~o.clean => FitAll(u, Asks, o.sent))
      /\ RepliesOK(o, conn, rec, tk)
  BY DEF MessagesOK, u
<1>3. \A i \in Publishes(o.sent) : o.sent[i].msg # m
  <2> SUFFICES ASSUME NEW i \in Publishes(o.sent) PROVE o.sent[i].msg # m
    OBVIOUS
  <2>1. o.sent[i] \in Pending
    BY DEF Publishes, ObjectOK, IsMap
  <2>2. o.sent[i].qos \in 0..2 /\ oq[o.sent[i].msg] = o.sent[i].qos
    BY <1>2, <2>1 DEF Pending, HeldOK
  <2> QED
    BY <2>2 DEF Unsent
<1>4. \A k \in Carried(u) : u[k].msg # m
  <2> SUFFICES ASSUME NEW k \in Carried(u) PROVE u[k].msg # m
    OBVIOUS
  <2>1. u[k] \in Packets
    BY <1>1, SeqIs DEF Carried
  <2>2. u[k].qos \in 0..2 /\ oq[u[k].msg] = u[k].qos
    BY <1>2, <2>1 DEF Packets, UnreadOK, Takable
  <2> QED
    BY <2>2 DEF Unsent
<1>5. \A k \in DOMAIN o.buffered : o.buffered[k].pkt.msg # m
  BY <1>2 DEF BufferOK, Unsent
<1>6. \A l \in 1..OutMsgs : l # m => n[l] = oq[l]
  OBVIOUS
<1> HIDE DEF n
<1>7. HeldOK(o.sent, n, tk)
  BY <1>2, <1>3, <1>6 DEF HeldOK
<1>8. UnreadOK(u, rec, n, tk)
  BY <1>2, <1>4, <1>6 DEF UnreadOK, Takable
<1>9. BufferOK(o.buffered, u, n, tk)
  BY <1>2, <1>5, <1>6 DEF BufferOK
<1>10. MessagesOK(o, conn, rec, n, tk)
  BY <1>2, <1>7, <1>8, <1>9 DEF MessagesOK, u
<1> QED
  BY <1>3, <1>4, <1>5, <1>10 DEF u, n, Untold

\* One message more awaits an acknowledgement.
LEMMA TrackedSend ==
    ASSUME NEW o, NEW r, NEW conn, r.up = o.up, r.down = o.down,
           r.sock = o.sock, r.connected = o.connected, r.clean = o.clean,
           r.buffered = o.buffered, NEW i, i \notin DOMAIN o.sent,
           DOMAIN r.sent = DOMAIN o.sent \union {i},
           \A j \in DOMAIN o.sent : r.sent[j] = o.sent[j],
           NEW rec, NEW oq, NEW tk, StreamOK(o, conn, rec),
           MessagesOK(o, conn, rec, oq, tk),
           r.sent[i].rec = FALSE,
           r.sent[i].kind = "PUBLISH" =>
              /\ r.sent[i].msg \in 1..OutMsgs
              /\ oq[r.sent[i].msg] = r.sent[i].qos /\ tk[r.sent[i].msg] = 0
              /\ \A j \in Publishes(o.sent) : o.sent[j].msg # r.sent[i].msg
    PROVE  StreamOK(r, conn, rec) /\ MessagesOK(r, conn, rec, oq, tk)
<1> DEFINE u == Unread(o, conn)
<1>1. Unread(r, conn) = u /\ (Lasts(r, conn) <=> Lasts(o, conn))
  BY DEF Unread, Lasts
<1> HIDE DEF u
<1>2. StreamOK(r, conn, rec)
  BY <1>1 DEF StreamOK, QuietOK, AdmittedOK, FreshOK, Admitted, u
<1>3. /\ HeldOK(o.sent, oq, tk)
      /\ UnreadOK(u, rec, oq, tk) /\ BufferOK(o.buffered, u, oq, tk)
      /\ (Lasts(o, conn) => SessionOK(o.sent, rec, tk))
      /\ (~o.clean => FitAll(u, Asks, o.sent))
      /\ RepliesOK(o, conn, rec, tk)
  BY DEF MessagesOK, u
<1>4. /\ \A j \in Publishes(r.sent) : \/ j = i /\ r.sent[i].kind = "PUBLISH"
                                      \/ j \in Publishes(o.sent) /\ j # i
                                            /\ r.sent[j] = o.sent[j]
      /\ \A j \in Publishes(o.sent) :
            j \in Publishes(r.sent) /\ r.sent[j] = o.sent[j]
  BY DEF Publishes
<1>5. HeldOK(r.sent, oq, tk)
  BY <1>3, <1>4 DEF HeldOK
<1>6. Lasts(o, conn) => SessionOK(r.sent, rec, tk)
  BY <1>3, <1>4 DEF SessionOK
<1>7. FitAll(u, Asks, o.sent) => FitAll(u, Asks, r.sent)
  BY DEF FitAll
<1>8. RepliesOK(r, conn, rec, tk)
  <2>1. ReceiptsOK(o.down[o.sock], o.sent, tk) => ReceiptsOK(o.down[o.sock], r.sent, tk)
    BY <1>4 DEF ReceiptsOK
  <2> QED
    BY <1>1, <1>3, <2>1 DEF RepliesOK
<1>9. MessagesOK(r, conn, rec, oq, tk)
  BY <1>1, <1>3, <1>5, <1>6, <1>7, <1>8 DEF MessagesOK
<1> QED
  BY <1>2, <1>9

\* A message buffered while there is no connection.
LEMMA BufferedSend ==
    ASSUME NEW o, NEW r, NEW conn, ObjectOK(o), r.up = o.up, r.down = o.down,
           r.sock = o.sock, ~o.connected, r.connected = o.connected,
           r.clean = o.clean, r.sent = o.sent,
           NEW z, r.buffered = Append(o.buffered, z), z.pkt.msg \in 1..OutMsgs,
           NEW rec, NEW oq, NEW tk, StreamOK(o, conn, rec),
           MessagesOK(o, conn, rec, oq, tk),
           oq[z.pkt.msg] = 0, tk[z.pkt.msg] = 0,
           Untold(o, conn, z.pkt.msg)
    PROVE  StreamOK(r, conn, rec) /\ MessagesOK(r, conn, rec, oq, tk)
<1> DEFINE u == Unread(o, conn)
           b == o.buffered
           n == Len(b) + 1
<1>1. Unread(r, conn) = u /\ (Lasts(r, conn) <=> Lasts(o, conn))
  BY DEF Unread, Lasts
<1>2. /\ b \in Seq([pkt : Packets, seq : Nat]) /\ DOMAIN b = 1..Len(b)
      /\ Len(b) \in Nat
  BY DEF ObjectOK
<1>3. /\ DOMAIN r.buffered = 1..n /\ r.buffered[n] = z
      /\ \A k \in 1..Len(b) : r.buffered[k] = b[k]
  BY <1>2
<1>4. \A k \in DOMAIN r.buffered : \/ k = n /\ r.buffered[k] = z
                                   \/ k \in DOMAIN b /\ r.buffered[k] = b[k]
  BY <1>2, <1>3
<1> HIDE DEF u, b, n
<1>5. StreamOK(r, conn, rec)
  BY <1>1 DEF StreamOK, QuietOK, AdmittedOK, FreshOK, Admitted, u
<1>6. BufferOK(b, u, oq, tk)
  BY DEF MessagesOK, u, b
<1>7. BufferOK(r.buffered, u, oq, tk)
  <2>1. \A k \in DOMAIN r.buffered :
          /\ r.buffered[k].pkt.msg \in 1..OutMsgs
          /\ oq[r.buffered[k].pkt.msg] = 0 /\ tk[r.buffered[k].pkt.msg] = 0
          /\ \A l \in Carried(u) : u[l].msg # r.buffered[k].pkt.msg
    BY <1>4, <1>6 DEF BufferOK, u, Untold
  <2>2. \A k, l \in DOMAIN r.buffered :
           r.buffered[k].pkt.msg = r.buffered[l].pkt.msg => k = l
    BY <1>4, <1>6 DEF BufferOK, b, Untold
  <2> QED
    BY <2>1, <2>2 DEF BufferOK
<1>8. MessagesOK(r, conn, rec, oq, tk)
  BY <1>1, <1>7 DEF MessagesOK, RepliesOK, u
<1> QED
  BY <1>5, <1>8

\* subscribe and unsubscribe.
LEMMA RequestSend ==
    ASSUME Typed, ConnInv, Tidy, SendInv, IdsFit, AppRequest
    PROVE  SendInv'
<1> DEFINE r == RequiresAck("REQUEST", 0, 0)
           p == Control("REQUEST", FreeId)
           conn == broker.conn
           rec == broker.rec
<1>1. /\ c' = Schedule(r, <<p>>) /\ upsets < MaxUpsets /\ c.connected
      /\ UNCHANGED <<broker, outQos, taken>>
  BY DEF AppRequest, Upset
<1>2. /\ DOMAIN r.sent = DOMAIN c.sent \union {FreeId}
      /\ \A i \in DOMAIN c.sent : r.sent[i] = c.sent[i]
      /\ r.sent[FreeId].kind = "REQUEST" /\ r.sent[FreeId].rec = FALSE
      /\ Made(r, conn) /\ FreeId \notin IdsOf(r.up[r.sock], Asks)
  <2>1. 0 \in 0..OutMsgs /\ 0 \in 0..2
    BY ConstantsAre
  <2>2. Tracked(r, "REQUEST", 0, 0)
    BY <2>1, TrackedTokens
  <2> QED
    BY <1>1, <2>2 DEF Tracked
<1>3. SameConn(r, c) /\ r.clean = c.clean
  <2>1. DOMAIN c = Fields
    BY DEF Typed, TypeInv, ObjectOK
  <2> QED
    BY <2>1 DEF RequiresAck, SameConn, Fields
<1>4. FreeId \in Nat \ {0} /\ FreeId < WireIds /\ FreeId \notin DOMAIN c.sent
  BY <1>1, FreeIdFits, FreeIdIs
<1>5. p \in Packets /\ p.id = FreeId /\ p.kind = "REQUEST"
  BY <1>4, ControlIs DEF Kinds, Control, Packet
<1> HIDE DEF r, p
<1>6. StreamOK(r, conn, rec) /\ MessagesOK(r, conn, rec, outQos, taken)
  BY <1>2, <1>3, <1>4, TrackedSend DEF SameConn, SendInv, StreamInv
<1>7. Fits(p, r.sent[p.id])
  BY <1>2, <1>5 DEF Fits
<1>8. conn \in Sockets \union {NoSocket}
  BY DEF Typed, TypeInv, BrokerOK
<1>9. StreamOK(c', conn, rec) /\ MessagesOK(c', conn, rec, outQos, taken)
  BY <1>1, <1>2, <1>4, <1>5, <1>6, <1>7, <1>8, PutSend
<1> QED
  BY <1>1, <1>9 DEF SendInv, StreamInv, UnsentOK

\* send(), at each quality, connected or not.
LEMMA AppSendSend ==
    ASSUME Typed, ConnInv, Tidy, SendInv, IdsFit, NEW q \in 0..2, AppSend(q)
    PROVE  SendInv'
<1> DEFINE m == NextOut
           r == RequiresAck("PUBLISH", m, q)
           p == Packet("PUBLISH", FreeId, m, q)
           z == Packet("PUBLISH", 0, m, q)
           conn == broker.conn
           rec == broker.rec
           oq == [outQos EXCEPT ![m] = q]
<1>1. ObjectOK(c) /\ DOMAIN c = Fields /\ c.connected \in BOOLEAN
      /\ conn \in Sockets \union {NoSocket}
      /\ outQos \in [1..OutMsgs -> 0..Unsent]
  BY DEF Typed, TypeInv, ObjectOK, BrokerOK
<1>2. m \in 1..OutMsgs /\ outQos[m] = Unsent /\ m \in 0..OutMsgs /\ m \in 0..TopMsg
      /\ \E k \in 1..OutMsgs : outQos[k] = Unsent
  BY NextOutIs, TopIs DEF AppSend
<1>3. taken[m] = 0 /\ oq[m] = q /\ outQos' = oq /\ UNCHANGED <<broker, taken>>
  BY <1>1, <1>2 DEF SendInv, UnsentOK, AppSend
<1>4. UnsentOK'
  BY <1>1, <1>3 DEF SendInv, UnsentOK, Unsent
<1>5. /\ MessagesOK(c, conn, rec, oq, taken) /\ StreamOK(c, conn, rec)
      /\ Untold(c, conn, m)
  <2>1. MessagesOK(c, conn, rec, outQos, taken) /\ StreamOK(c, conn, rec)
    BY DEF SendInv, StreamInv
  <2> HIDE DEF m
  <2> QED
    BY <1>1, <1>2, <2>1, QualityGiven
<1>6. /\ c' = IF q > 0
              THEN IF c.connected THEN Schedule(r, <<p>>) ELSE r
              ELSE IF c.connected
              THEN Schedule([c EXCEPT !.notify = FALSE], <<z>>)
              ELSE [c EXCEPT !.sequence = @ + 1,
                       !.buffered = Append(@, [pkt |-> z, seq |-> c.sequence + 1])]
  BY DEF AppSend
<1>7. ASSUME NEW kind, NEW i \in Nat, NEW x, x = Packet("PUBLISH", i, m, q)
      PROVE  /\ x \in Packets /\ x.id = i /\ x.kind = "PUBLISH"
             /\ x.msg = m /\ x.qos = q
  BY <1>2, <1>7, PacketIs DEF Kinds, Packet
<1> HIDE DEF m, oq
<1>8. CASE q > 0
  <2>1. /\ ObjectOK(r) /\ DOMAIN r.sent = DOMAIN c.sent \union {FreeId}
        /\ \A i \in DOMAIN c.sent : r.sent[i] = c.sent[i]
        /\ r.sent[FreeId].kind = "PUBLISH" /\ r.sent[FreeId].rec = FALSE
        /\ r.sent[FreeId].msg = m /\ r.sent[FreeId].qos = q
        /\ c.connected => /\ Made(r, conn)
                          /\ FreeId \notin IdsOf(r.up[r.sock], Asks)
    <3>1. Tracked(r, "PUBLISH", m, q)
      BY <1>2, <1>8, TrackedTokens
    <3> QED
      BY <3>1 DEF Tracked
  <2>2. SameConn(r, c) /\ r.clean = c.clean
    BY <1>1 DEF RequiresAck, SameConn, Fields
  <2>3. FreeId \in Nat /\ FreeId < WireIds /\ FreeId \notin DOMAIN c.sent
    BY <1>2, FreeIdFits, FreeIdIs
  <2>4. p \in Packets /\ p.id = FreeId /\ p.kind = "PUBLISH" /\ p.msg = m /\ p.qos = q
    BY <1>7, <2>3
  <2> HIDE DEF r, p
  <2>5. StreamOK(r, conn, rec) /\ MessagesOK(r, conn, rec, oq, taken)
    <3>1. /\ r.up = c.up /\ r.down = c.down /\ r.sock = c.sock
          /\ r.connected = c.connected /\ r.buffered = c.buffered
      BY <2>2 DEF SameConn
    <3>2. /\ r.sent[FreeId].msg \in 1..OutMsgs
          /\ oq[r.sent[FreeId].msg] = r.sent[FreeId].qos
          /\ taken[r.sent[FreeId].msg] = 0
          /\ \A j \in Publishes(c.sent) : c.sent[j].msg # r.sent[FreeId].msg
      BY <1>2, <1>3, <1>5, <2>1 DEF Untold
    <3> QED
      BY <1>5, <2>1, <2>2, <2>3, <3>1, <3>2, TrackedSend
  <2>6. CASE c.connected
    <3>1. Fits(p, r.sent[p.id])
      BY <2>1, <2>4 DEF Fits
    <3>2. Takable(p, rec, oq, taken)
      BY <1>2, <1>3, <2>4 DEF Takable
    <3>3. \A k \in Carried(Unread(r, conn)) : Unread(r, conn)[k].msg # p.msg
      <4>1. Unread(r, conn) = Unread(c, conn)
        BY <2>2 DEF Unread, SameConn
      <4> QED
        BY <1>5, <2>4, <4>1 DEF Untold
    <3>4. c' = Schedule(r, <<p>>)
      BY <1>6, <1>8, <2>6
    <3>5. StreamOK(c', conn, rec) /\ MessagesOK(c', conn, rec, oq, taken)
      BY <1>1, <2>1, <2>3, <2>4, <2>5, <2>6, <3>1, <3>2, <3>3, <3>4, PutSend
    <3> QED
      BY <1>3, <1>4, <3>5 DEF SendInv, StreamInv
  <2>7. CASE ~c.connected
    <3>1. c' = r
      BY <1>6, <1>8, <2>7
    <3> QED
      BY <1>3, <1>4, <2>5, <3>1 DEF SendInv, StreamInv
  <2> QED
    BY <2>6, <2>7
<1>9. CASE ~(q > 0)
  <2>1. q = 0 /\ 0 \in Nat
    BY <1>9
  <2>2. z \in Packets /\ z.id = 0 /\ z.kind = "PUBLISH" /\ z.msg = m /\ z.qos = 0
    BY <1>7, <2>1
  <2> HIDE DEF z
  <2>3. z \notin Asks /\ Takable(z, rec, oq, taken) /\ z.id < WireIds
    BY <1>2, <1>3, <2>1, <2>2, ConstantsAre DEF Asks, Takable
  <2>4. CASE c.connected
    <3> DEFINE o == [c EXCEPT !.notify = FALSE]
    <3>1. /\ ObjectOK(o) /\ SameConn(o, c) /\ o.sent = c.sent /\ o.clean = c.clean
      BY <1>1, <2>4 DEF ObjectOK, Fields, SameConn, ConnInv, ConnOK, UsableOK
    <3>2. Made(c, broker.conn)
      BY <1>1, <2>4 DEF Made, ConnInv, ConnOK, UsableOK
    <3>3. c' = Schedule(o, <<z>>)
      BY <1>6, <1>9, <2>4
    <3> HIDE DEF o
    <3>4. Made(o, conn)
      BY <3>1, <3>2, SameConnOK DEF Made, SameConn
    <3>5. StreamOK(o, conn, rec) /\ MessagesOK(o, conn, rec, oq, taken)
      BY <1>5, <3>1, SameSend DEF SameConn
    <3>6. \A k \in Carried(Unread(o, conn)) : Unread(o, conn)[k].msg # z.msg
      <4>1. Unread(o, conn) = Unread(c, conn)
        BY <3>1 DEF Unread, SameConn
      <4> QED
        BY <1>5, <2>2, <4>1 DEF Untold
    <3>7. StreamOK(c', conn, rec) /\ MessagesOK(c', conn, rec, oq, taken)
      BY <1>1, <2>2, <2>3, <3>3, <3>4, <3>5, <3>6, PutSend
    <3> QED
      BY <1>3, <1>4, <3>7 DEF SendInv, StreamInv
  <2>5. CASE ~c.connected
    <3> DEFINE y == [pkt |-> z, seq |-> c.sequence + 1]
    <3>1. y.pkt = z
      OBVIOUS
    <3>2. c' = [c EXCEPT !.sequence = @ + 1, !.buffered = Append(@, y)]
      BY <1>6, <1>9, <2>5
    <3> HIDE DEF y
    <3>3. /\ c'.up = c.up /\ c'.down = c.down /\ c'.sock = c.sock
          /\ c'.connected = c.connected /\ c'.clean = c.clean
          /\ c'.sent = c.sent /\ c'.buffered = Append(c.buffered, y)
      BY <1>1, <3>2 DEF Fields
    <3>4. StreamOK(c', conn, rec) /\ MessagesOK(c', conn, rec, oq, taken)
      <4>1. /\ y.pkt.msg \in 1..OutMsgs
            /\ oq[y.pkt.msg] = 0 /\ taken[y.pkt.msg] = 0
            /\ Untold(c, conn, y.pkt.msg)
        BY <1>2, <1>3, <1>5, <2>1, <2>2, <3>1
      <4> QED
        BY <1>1, <1>5, <2>5, <3>3, <4>1, BufferedSend
    <3> QED
      BY <1>3, <1>4, <3>4 DEF SendInv, StreamInv
  <2> QED
    BY <2>4, <2>5
<1> QED
  BY <1>8, <1>9

-----------------------------------------------------------------------------
\* The fourth part of the invariant is inductive.

\* A page that is opened anew has the messages of localStorage, and its sockets
\* are gone.
LEMMA CrashSend ==
    ASSUME Typed, SendInv, StoreExact, StoreCovers, Crash
    PROVE  SendInv'
<1> DEFINE conn == broker.conn
           rec == broker.rec
           f == store.sent
<1>1. c' = NewClient(store, c.clean) /\ UNCHANGED <<store, broker, outQos, taken>>
  BY DEF Crash
<1>2. /\ c'.sent = f /\ c'.connected = FALSE /\ c'.clean = c.clean
      /\ c'.sock = NoSocket /\ c'.buffered = <<>>
      /\ \A s \in Sockets : c'.up[s] = <<>>
  BY <1>1 DEF NewClient
<1>3. /\ MessagesOK(c, conn, rec, outQos, taken) /\ c.clean \in BOOLEAN
      /\ conn \in Sockets \union {NoSocket} /\ UnsentOK
  BY DEF SendInv, Typed, TypeInv, ObjectOK, BrokerOK
<1>4. /\ HeldOK(c.sent, outQos, taken)
      /\ ~c.clean => SessionOK(c.sent, rec, taken)
  BY <1>3 DEF MessagesOK, Lasts
<1>5. /\ Publishes(f) = Publishes(c.sent)
      /\ \A i \in Publishes(f) : f[i] = c.sent[i]
  BY DEF StoreExact, StoreCovers, Publishes
<1> HIDE DEF f
<1>6. HeldOK(f, outQos, taken) /\ (~c.clean => SessionOK(f, rec, taken))
  BY <1>4, <1>5 DEF HeldOK, SessionOK
<1>7. Unread(c', conn) = <<>> /\ ~Admitted(c')
  BY <1>2, <1>3 DEF Unread, Admitted
<1>8. StreamOK(c', conn, rec)
  BY <1>2, <1>7 DEF StreamOK, QuietOK, AdmittedOK, FreshOK
<1>9. Lasts(c', conn) => ~c.clean
  BY <1>2 DEF Lasts
<1>10. MessagesOK(c', conn, rec, outQos, taken)
  BY <1>2, <1>3, <1>6, <1>7, <1>9, NoneUnread DEF MessagesOK, RepliesOK
<1> QED
  BY <1>1, <1>3, <1>8, <1>10 DEF SendInv, StreamInv, UnsentOK

\* What the broker reads.
LEMMA ReceiveSend ==
    ASSUME Typed, Typed', ConnInv, Tidy, SendInv, NEW s \in Sockets,
           BrokerReceive(s)
    PROVE  SendInv'
<1> DEFINE p == Head(c.up[s])
           o == [c EXCEPT !.up[s] = Tail(@)]
<1>1. \/ BrokerConnect(o, s, p.id = 1) /\ s # broker.conn
      \/ BrokerRefuse(o, s) /\ s # broker.conn
      \/ BrokerRejects(o, s)
      \/ BrokerAnswers(o, s, p) /\ s = broker.conn
  BY DEF BrokerReceive
<1>2. StreamInv
  BY DEF SendInv
<1>3. CASE BrokerConnect(o, s, p.id = 1) /\ s # broker.conn
  BY <1>3, ConnectSend
<1>4. CASE \/ BrokerRefuse(o, s) /\ s # broker.conn
           \/ BrokerRejects(o, s)
           \/ BrokerAnswers(o, s, p) /\ p.kind \notin {"PUBLISH", "PUBREL"}
  <2>1. Eases
    BY <1>2, <1>4, ReceiveEases
  <2> QED
    BY <2>1, EasedSend
<1>5. CASE BrokerAnswers(o, s, p) /\ s = broker.conn /\ p.kind = "PUBLISH"
  BY <1>5, TakeSend
<1>6. CASE BrokerAnswers(o, s, p) /\ s = broker.conn /\ p.kind = "PUBREL"
  BY <1>6, ReleaseSend
<1> QED
  BY <1>1, <1>3, <1>4, <1>5, <1>6

\* The start.
LEMMA SendInit == Init => SendInv
<1> SUFFICES ASSUME Init PROVE SendInv
  OBVIOUS
<1>1. /\ c.connected = FALSE /\ c.sent = Empty /\ c.buffered = <<>>
      /\ c.sock = NoSocket /\ \A s \in Sockets : c.up[s] = <<>>
      /\ broker.conn = NoSocket /\ broker.rec = {}
      /\ \A m \in 1..OutMsgs : taken[m] = 0
  BY DEF Init, NewClient
<1>2. Publishes(Empty) = {}
  BY DEF Publishes, Empty
<1>3. Unread(c, broker.conn) = <<>> /\ ~Admitted(c)
  BY <1>1 DEF Unread, Admitted
<1>4. StreamInv
  BY <1>1, <1>3 DEF StreamInv, StreamOK, QuietOK, AdmittedOK, FreshOK
<1>5. HeldOK(c.sent, outQos, taken) /\ SessionOK(c.sent, broker.rec, taken)
  BY <1>1, <1>2 DEF HeldOK, SessionOK
<1>6. MessagesOK(c, broker.conn, broker.rec, outQos, taken)
  BY <1>1, <1>3, <1>5, NoneUnread DEF MessagesOK, RepliesOK
<1> QED
  BY <1>1, <1>4, <1>6 DEF SendInv, UnsentOK

\* Every step.
LEMMA SendNext ==
    ASSUME Typed, Typed', ConnInv, StoreCovers, Tidy, SendInv, [Next]_vars, IdsFit
    PROVE  SendInv'
<1>1. CASE AppConnect \/ AppDisconnect \/ Timer \/ SlowConnect \/ BrokerSeesEnd
  <2>1. Eases
    <3>1. CASE BrokerSeesEnd
      <4>1. broker.conn \in Sockets
        BY <3>1 DEF BrokerSeesEnd, Typed, TypeInv, BrokerOK
      <4> QED
        BY <3>1, <4>1, FaultsEase
    <3> QED
      BY <1>1, <3>1, AppConnectEases, AppDisconnectEases, TimersEase
  <2> QED
    BY <2>1, EasedSend
<1>2. CASE AppRequest
  BY <1>2, RequestSend
<1>3. ASSUME NEW q \in Qualities, AppSend(q) \/ BrokerPublish(q)
      PROVE  SendInv'
  <2>1. q \in 0..2
    BY ConstantsAre
  <2>2. CASE AppSend(q)
    BY <2>1, <2>2, AppSendSend
  <2>3. CASE BrokerPublish(q)
    BY <2>1, <2>3, PublishEases, EasedSend
  <2> QED
    BY <1>3, <2>2, <2>3
<1>4. ASSUME NEW s \in Sockets,
             \/ SocketOpen(s) \/ SocketClosed(s)
             \/ Break(s) \/ Silence(s) \/ SilenceEnds(s)
      PROVE  SendInv'
  <2>1. Eases
    BY <1>4, SocketOpenEases, SocketClosedEases, FaultsEase
  <2> QED
    BY <2>1, EasedSend
<1>5. ASSUME NEW s \in Sockets, HandleMessage(s)
      PROVE  SendInv'
  BY <1>5, HeardSend, ConnackSend
<1>6. ASSUME NEW s \in Sockets, BrokerReceive(s)
      PROVE  SendInv'
  BY <1>6, ReceiveSend
<1>7. CASE Crash
  BY <1>7, CrashSend DEF Tidy
<1>8. CASE UNCHANGED vars
  BY <1>8 DEF vars, SendInv, StreamInv, UnsentOK
<1> QED
  BY <1>1, <1>2, <1>3, <1>4, <1>5, <1>6, <1>7, <1>8 DEF Next, SocketEvent

\* The fourth part of the invariant.
THEOREM PromiseKept ==
    ASSUME NoRetryFaults, IdsFit
    PROVE  Spec => []SendInv
<1>1. Init => SendInv
  BY SendInit
<1>2. /\ Typed /\ Typed' /\ ConnInv /\ StoreCovers /\ Tidy /\ SendInv /\ [Next]_vars
      => SendInv'
  BY SendNext
<1>3. ClientInv => Tidy
  BY DEF ClientInv
<1> QED
  BY <1>1, <1>2, <1>3, TypedCorrect, ConnCorrect, StoreAlwaysCovers,
     ClientInvariant, PTL DEF Spec

-----------------------------------------------------------------------------
\* The client implements the promise.

\* The variables of the promise, and a step that leaves them.
MessagesOf(f) == {f[i].msg : i \in DOMAIN f}

\* A step that changes neither numbers nor messages held.
LEMMA SameHeld ==
    ASSUME UNCHANGED <<outQos, taken>>,
           MessagesOf(store'.sent) = MessagesOf(store.sent)
    PROVE  UNCHANGED Out!vars
<1>1. Held' = Held
  BY DEF Held, MessagesOf
<1> QED
  BY <1>1 DEF Out!vars

\* localStorage has the messages that await an acknowledgement.
LEMMA HeldAre ==
    ASSUME StoreExact, StoreCovers
    PROVE  /\ DOMAIN store.sent = Publishes(c.sent)
           /\ \A i \in DOMAIN store.sent : store.sent[i] = c.sent[i]
BY DEF StoreExact, StoreCovers, Publishes

\* send() accepts a message.
LEMMA SendAccepts ==
    ASSUME Typed, Tidy, SendInv, NEW q \in 0..2, AppSend(q)
    PROVE  \E m \in 1..OutMsgs : Out!Accept(m, q)
<1> DEFINE m == NextOut
           r == RequiresAck("PUBLISH", m, q)
<1>1. /\ m \in 1..OutMsgs /\ outQos[m] = Unsent /\ m \in 0..OutMsgs
  BY NextOutIs DEF AppSend
<1>2. /\ outQos' = [outQos EXCEPT ![m] = q] /\ UNCHANGED taken
      /\ store' = IF q = 0 THEN store ELSE StoreSent(r, FreeId)
  BY DEF AppSend
<1> HIDE DEF m
<1>3. Held' = IF q = 0 THEN Held ELSE Held \union {m}
  <2>1. CASE q = 0
    BY <1>2, <2>1 DEF Held
  <2>2. CASE q # 0
    <3>1. r.sent[FreeId].msg = m
      <4>1. DOMAIN c = Fields
        BY DEF Typed, TypeInv, ObjectOK
      <4> QED
        BY <4>1 DEF RequiresAck, Bind, Fields
    <3>2. FreeId \notin DOMAIN store.sent
      BY FreeIdIs DEF Tidy, StoreExact
    <3>3. store'.sent = Bind(store.sent, FreeId, r.sent[FreeId])
      <4>1. DOMAIN store = {"sent", "received"}
        BY DEF Typed, TypeInv, StoreOK
      <4> QED
        BY <1>2, <2>2, <4>1 DEF StoreSent
    <3> HIDE DEF r
    <3>4. /\ DOMAIN store'.sent = DOMAIN store.sent \union {FreeId}
          /\ store'.sent[FreeId] = r.sent[FreeId]
          /\ \A i \in DOMAIN store.sent : store'.sent[i] = store.sent[i]
      BY <3>2, <3>3 DEF Bind
    <3> QED
      BY <2>2, <3>1, <3>4 DEF Held
  <2> QED
    BY <2>1, <2>2
<1> QED
  BY <1>1, <1>2, <1>3 DEF Out!Accept, Unsent, Out!Unsent

\* The broker takes a message.
LEMMA ReadTakes ==
    ASSUME Typed, ConnInv, Tidy, SendInv, NEW s \in Sockets, BrokerReceive(s)
    PROVE  (\E m \in 1..OutMsgs : Out!Take(m)) \/ UNCHANGED Out!vars
<1> DEFINE p == Head(c.up[s])
           o == [c EXCEPT !.up[s] = Tail(@)]
           Takes == p.kind = "PUBLISH" /\ (p.qos = 2 => p.id \notin broker.rec)
<1>1. /\ UNCHANGED <<store, outQos>> /\ c.up[s] # <<>>
      /\ \/ UNCHANGED taken
         \/ BrokerAnswers(o, s, p) /\ s = broker.conn
  BY DEF BrokerReceive, BrokerConnect, BrokerRefuse, BrokerRejects
<1>2. Held' = Held
  BY <1>1 DEF Held
<1>3. CASE UNCHANGED taken
  BY <1>1, <1>2, <1>3 DEF Out!vars
<1>4. CASE BrokerAnswers(o, s, p) /\ s = broker.conn /\ ~Takes
  <2>1. UNCHANGED taken
    BY <1>4 DEF BrokerAnswers
  <2> QED
    BY <1>3, <2>1
<1>5. CASE BrokerAnswers(o, s, p) /\ s = broker.conn /\ Takes
  <2>1. p \in Packets
    BY <1>1, PoppedIs DEF SendInv
  <2>2. p.qos > 0 => p \in Asks
    BY <1>5, <2>1 DEF Asks
  <2>3. Takable(p, broker.rec, outQos, taken)
    BY <1>1, <1>5, <2>2, MessageReadIs
  <2>4. taken' = [taken EXCEPT ![p.msg] = Saturate(@)]
    BY <1>5 DEF BrokerAnswers
  <2>5. p.qos \in 0..2
    BY <2>1 DEF Packets
  <2> HIDE DEF o
  <2>6. /\ p.msg \in 1..OutMsgs /\ outQos[p.msg] = p.qos /\ p.qos # Unsent
        /\ taken[p.msg] = 0 \/ p.qos = 1
    BY <1>5, <2>3, <2>5 DEF Takable, Unsent
  <2> HIDE DEF p
  <2>7. taken' = [taken EXCEPT ![p.msg] = IF @ = 0 THEN 1 ELSE 2]
    BY <2>4 DEF Saturate
  <2>8. Out!Take(p.msg)
    BY <1>1, <1>2, <2>6, <2>7 DEF Out!Take, Unsent, Out!Unsent
  <2> QED
    BY <2>6, <2>8
<1> QED
  BY <1>1, <1>3, <1>4, <1>5

\* A message of c that was taken is forgotten.
LEMMA ForgetReleases ==
    ASSUME Typed, ConnInv, Tidy, StoreCovers, SendInv,
           NEW i \in Publishes(c.sent), taken[c.sent[i].msg] > 0,
           store' = [store EXCEPT !.sent = Unbind(@, i)],
           UNCHANGED <<outQos, taken>>
    PROVE  \E m \in 1..OutMsgs : Out!Release(m)
<1> DEFINE f == store.sent
           m == c.sent[i].msg
<1>1. /\ DOMAIN f = Publishes(c.sent)
      /\ \A j \in DOMAIN f : f[j] = c.sent[j]
  BY HeldAre DEF Tidy
<1>2. /\ m \in 1..OutMsgs
      /\ \A j \in Publishes(c.sent) : c.sent[j].msg = m => j = i
  BY DEF SendInv, MessagesOK, HeldOK
<1>3. store'.sent = Unbind(f, i)
  BY DEF Typed, TypeInv, StoreOK
<1> HIDE DEF f, m
<1>4. /\ DOMAIN store'.sent = DOMAIN f \ {i}
      /\ \A j \in DOMAIN store'.sent : store'.sent[j] = f[j]
  BY <1>3 DEF Unbind
<1>5. Held = {f[j].msg : j \in DOMAIN f}
  BY DEF Held, f
<1>6. Held' = {store'.sent[j].msg : j \in DOMAIN store'.sent}
  BY DEF Held
<1>7. i \in DOMAIN f /\ f[i].msg = m
  BY <1>1 DEF m
<1>8. \A j \in DOMAIN f : f[j].msg = m => j = i
  BY <1>1, <1>2
<1>9. Held' = Held \ {m} /\ m \in Held
  BY <1>4, <1>5, <1>6, <1>7, <1>8
<1>10. Out!Release(m)
  BY <1>9 DEF Out!Release, m
<1> QED
  BY <1>2, <1>10

\* A PUBREC changes what localStorage has of its message, and not the message.
LEMMA PubrecHolds ==
    ASSUME Typed, Tidy, StoreCovers, UNCHANGED <<outQos, taken>>,
           NEW o, ObjectOK(o), o.sent = c.sent, NEW p, HandlePubrec(o, p)
    PROVE  UNCHANGED Out!vars
<1> DEFINE r == [o EXCEPT !.sent[p.id].rec = TRUE]
           i == p.id
           f == store.sent
<1>1. CASE UNCHANGED store
  BY <1>1, SameHeld
<1>2. CASE /\ i \in DOMAIN o.sent /\ o.sent[i].kind # "REQUEST"
           /\ store' = StoreSent(r, i)
  <2>1. i \in Publishes(c.sent) /\ o.sent[i] \in Pending
    BY <1>2 DEF ObjectOK, IsMap, Publishes, Pending
  <2>2. i \in DOMAIN f /\ f[i] = o.sent[i]
    BY <2>1, HeldAre DEF Tidy
  <2>3. r.sent[i].msg = o.sent[i].msg
    BY <1>2, <2>1 DEF ObjectOK, Fields, Pending
  <2> HIDE DEF r
  <2>4. store'.sent = Bind(f, i, r.sent[i])
    BY <1>2 DEF StoreSent, Typed, TypeInv, StoreOK
  <2> HIDE DEF f, i
  <2>5. /\ DOMAIN store'.sent = DOMAIN f
        /\ \A j \in DOMAIN f : store'.sent[j].msg = f[j].msg
    BY <2>2, <2>3, <2>4 DEF Bind
  <2>6. MessagesOf(store'.sent) = MessagesOf(store.sent)
    BY <2>5 DEF MessagesOf, f
  <2> QED
    BY <2>6, SameHeld
<1> QED
  BY <1>1, <1>2 DEF HandlePubrec

\* A packet on a connection that is made: what is forgotten was taken.
LEMMA HeardReleases ==
    ASSUME Typed, ConnInv, Tidy, StoreCovers, SendInv, NEW s \in Sockets,
           HandleMessage(s), c.connected
    PROVE  (\E m \in 1..OutMsgs : Out!Release(m)) \/ UNCHANGED Out!vars
<1> DEFINE p == Head(c.down[s])
           o == [c EXCEPT !.down[s] = Tail(@)]
<1>1. /\ p \in Packets /\ Made(o, broker.conn) /\ Settles(p, o)
      /\ o.sent = c.sent
      /\ \/ HandlePublish(o, p) \/ HandlePuback(o, p)
         \/ HandlePubrec(o, p) \/ HandlePubrel(o, p)
         \/ HandlePubcomp(o, p) \/ HandleRequestAck(o, p)
  BY PacketOff
<1>2. /\ p.kind \in {"PUBACK", "PUBREC"} =>
            p.id \in Publishes(o.sent) /\ taken[o.sent[p.id].msg] > 0
      /\ UNCHANGED <<outQos, taken>>
  BY HeardIs
<1> HIDE DEF p, o
<1>3. ObjectOK(o) /\ DOMAIN store = {"sent", "received"}
  BY <1>1 DEF Made, Typed, TypeInv, StoreOK
<1>4. CASE store'.sent = store.sent
  BY <1>2, <1>4, SameHeld
<1>5. CASE HandlePublish(o, p) \/ HandlePubrel(o, p) \/ HandleRequestAck(o, p)
  <2>1. store'.sent = store.sent
    BY <1>3, <1>5 DEF HandlePublish, HandlePubrel, HandleRequestAck, StoreReceived
  <2> QED
    BY <1>4, <2>1
<1>6. CASE HandlePubrec(o, p)
  BY <1>1, <1>2, <1>3, <1>6, PubrecHolds
<1>7. CASE HandlePuback(o, p)
  <2>1. /\ p.id \in Publishes(c.sent) /\ taken[c.sent[p.id].msg] > 0
        /\ store' = [store EXCEPT !.sent = Unbind(@, p.id)]
    BY <1>1, <1>2, <1>7 DEF HandlePuback, Forget, Publishes
  <2> QED
    BY <1>2, <2>1, ForgetReleases
<1>8. CASE HandlePubcomp(o, p)
  <2>1. p.kind = "PUBCOMP" /\ p \in Answers
    BY <1>1, <1>8 DEF HandlePubcomp, Answers
  <2>2. p.id \in DOMAIN o.sent /\ Fits(p, o.sent[p.id])
    BY <1>1, <2>1 DEF Settles
  <2>3. o.sent[p.id].kind = "PUBLISH" /\ o.sent[p.id].rec
    BY <1>3, <2>1, <2>2 DEF Fits, ObjectOK, IsMap, Pending
  <2>4. p.id \in Publishes(c.sent) /\ taken[c.sent[p.id].msg] > 0
    BY <1>1, <2>2, <2>3 DEF Publishes, SendInv, MessagesOK, HeldOK
  <2>5. store' = [store EXCEPT !.sent = Unbind(@, p.id)]
    BY <1>8 DEF HandlePubcomp, Forget
  <2> QED
    BY <1>2, <2>4, <2>5, ForgetReleases
<1> QED
  BY <1>1, <1>5, <1>6, <1>7, <1>8

\* The answer to CONNECT: a clean session gives up what was held.
LEMMA ConnackGivesUp ==
    ASSUME Typed, ConnInv, NEW s \in Sockets, HandleMessage(s), ~c.connected
    PROVE  Out!GiveUp \/ UNCHANGED Out!vars
<1>1. PICK u : Opens(u, s)
  BY ConnackOff
<1>2. UNCHANGED <<outQos, taken>>
  BY DEF HandleMessage, Quiet
<1>3. CASE ~c.clean
  <2>1. UNCHANGED store
    BY <1>1, <1>3 DEF Opens
  <2> QED
    BY <1>2, <2>1, SameHeld
<1>4. CASE c.clean
  <2>1. store'.sent = [i \in DOMAIN store.sent \ DOMAIN c.sent |-> store.sent[i]]
    BY <1>1, <1>4 DEF Opens
  <2>2. Held' \in SUBSET Held
    BY <2>1 DEF Held
  <2> QED
    BY <1>2, <1>4, <2>2 DEF Out!GiveUp
<1> QED
  BY <1>3, <1>4

\* The start.
LEMMA PromiseInit == Init => Out!Init
<1> SUFFICES ASSUME Init PROVE Out!Init
  OBVIOUS
<1>1. store.sent = Empty
  BY DEF Init
<1>2. Held = {}
  BY <1>1 DEF Held, Empty
<1> QED
  BY <1>2 DEF Init, Out!Init, Unsent, Out!Unsent

\* Every step is one of the promise, or a stutter.
LEMMA PromiseStep ==
    ASSUME Typed, ConnInv, Tidy, StoreCovers, SendInv, [Next]_vars
    PROVE  [Out!Next]_(Out!vars)
<1>1. CASE UNCHANGED <<store, outQos, taken>>
  BY <1>1, SameHeld
<1>2. ASSUME NEW q \in Qualities, AppSend(q)
      PROVE  [Out!Next]_(Out!vars)
  <2>1. q \in 0..2
    BY ConstantsAre
  <2>2. PICK m \in 1..OutMsgs : Out!Accept(m, q)
    BY <1>2, <2>1, SendAccepts
  <2> QED
    BY <2>1, <2>2 DEF Out!Next
<1>3. ASSUME NEW s \in Sockets, HandleMessage(s)
      PROVE  [Out!Next]_(Out!vars)
  <2>1. CASE c.connected
    BY <1>3, <2>1, HeardReleases DEF Out!Next
  <2>2. CASE ~c.connected
    BY <1>3, <2>2, ConnackGivesUp DEF Out!Next
  <2> QED
    BY <2>1, <2>2
<1>4. ASSUME NEW s \in Sockets, BrokerReceive(s)
      PROVE  [Out!Next]_(Out!vars)
  BY <1>4, ReadTakes DEF Out!Next
<1>5. CASE \/ AppConnect \/ AppRequest \/ AppDisconnect \/ Timer \/ SlowConnect
           \/ BrokerSeesEnd \/ Crash \/ UNCHANGED vars
  <2>1. UNCHANGED <<store, outQos, taken>>
    BY <1>5 DEF AppConnect, AppRequest, AppDisconnect, Timer, ConnectTimeout,
         ReconnectTimeout, DoPing, SlowConnect, BrokerSeesEnd, Crash, Unstored, vars
  <2> QED
    BY <1>1, <2>1
<1>6. ASSUME NEW q \in Qualities, BrokerPublish(q)
      PROVE  [Out!Next]_(Out!vars)
  <2>1. UNCHANGED <<store, outQos, taken>>
    BY <1>6 DEF BrokerPublish
  <2> QED
    BY <1>1, <2>1
<1>7. ASSUME NEW s \in Sockets,
             \/ SocketOpen(s) \/ SocketClosed(s)
             \/ Break(s) \/ Silence(s) \/ SilenceEnds(s)
      PROVE  [Out!Next]_(Out!vars)
  <2>1. UNCHANGED <<store, outQos, taken>>
    BY <1>7 DEF SocketOpen, SocketClosed, Break, Silence, SilenceEnds, Lose, Unstored
  <2> QED
    BY <1>1, <2>1
<1> QED
  BY <1>2, <1>3, <1>4, <1>5, <1>6, <1>7 DEF Next, SocketEvent

\* The client implements what MQTT promises of the messages it sends.
THEOREM DeliveryImplemented ==
    ASSUME NoRetryFaults, IdsFit
    PROVE  Spec => SendsAsPromised
<1>1. Init => Out!Init
  BY PromiseInit
<1>2. /\ Typed /\ ConnInv /\ Tidy /\ StoreCovers /\ SendInv /\ [Next]_vars
      => [Out!Next]_(Out!vars)
  BY PromiseStep
<1>3. ClientInv => Tidy
  BY DEF ClientInv
<1> QED
  BY <1>1, <1>2, <1>3, TypedCorrect, ConnCorrect, StoreAlwaysCovers,
     ClientInvariant, PromiseKept, PTL DEF Spec, SendsAsPromised, Out!Spec

-----------------------------------------------------------------------------
\* What the promise comes to.

\* What the promise comes to for the messages the client sends.
Sent == INSTANCE DeliveryProofs WITH
          Msgs <- 1..OutMsgs, clean <- c.clean, qos <- outQos,
          took <- taken, held <- Held

\* It is the promise of SendsAsPromised.
LEMMA SamePromise ==
    ASSUME NoRetryFaults, IdsFit
    PROVE  Spec => Sent!Spec
<1>1. Out!Init => Sent!Init
  BY DEF Out!Init, Sent!Init, Out!Unsent, Sent!Unsent
<1>2. [Out!Next]_(Out!vars) => [Sent!Next]_(Sent!vars)
  BY DEF Out!Next, Sent!Next, Out!vars, Sent!vars, Out!Accept, Sent!Accept,
       Out!Take, Sent!Take, Out!Release, Sent!Release, Out!GiveUp, Sent!GiveUp,
       Out!Unsent, Sent!Unsent
<1> QED
  BY <1>1, <1>2, DeliveryImplemented, PTL DEF SendsAsPromised, Out!Spec, Sent!Spec

\* However often the client sends a message again, the broker takes it once,
\* unless it was sent at quality 1 (mqttws31.js:2481-2483).
THEOREM BrokerTakesOnce ==
    ASSUME NoRetryFaults, IdsFit
    PROVE  Spec => [](\A m \in 1..OutMsgs : outQos[m] # 1 => taken[m] <= 1)
<1>1. Typed => c.clean \in BOOLEAN
  BY DEF Typed, TypeInv, ObjectOK
<1>2. Sent!AtMostOnce => \A m \in 1..OutMsgs : outQos[m] # 1 => taken[m] <= 1
  BY DEF Sent!AtMostOnce
<1> QED
  BY <1>1, <1>2, SamePromise, TypedCorrect, Sent!TakenAtMostOnce, PTL

\* Without a clean session, what send() accepted at quality 1 or 2 stays in
\* localStorage until the broker took it (mqttws31.js:2482-2483).
THEOREM NothingLost ==
    ASSUME NoRetryFaults, IdsFit
    PROVE  Spec /\ [](c.clean = FALSE) =>
              [](\A m \in 1..OutMsgs :
                    outQos[m] \in {1, 2} => m \in Held \/ taken[m] > 0)
<1>1. Sent!NotLost => \A m \in 1..OutMsgs :
                         outQos[m] \in {1, 2} => m \in Held \/ taken[m] > 0
  BY DEF Sent!NotLost
<1> QED
  BY <1>1, SamePromise, Sent!AcceptedNotLost, PTL

-----------------------------------------------------------------------------
\* Steps after which no more is to come either way than before.

\* The packets that reply to another, and those a client sends of itself.
Replying == {"PUBACK", "PUBREC", "PUBCOMP", "REQUESTACK"}
Calls == {"CONNECT", "DISCONNECT", "PUBLISH", "PUBREL", "REQUEST"}

\* A part of a part is a part.
LEMMA PartOfPart ==
    ASSUME NEW w \in Seq(Packets), NEW v, NEW u, NEW kinds,
           Part(w, v, kinds), Part(v, u, kinds)
    PROVE  Part(w, u, kinds)
<1>1. PICK n \in Nat : \A i \in DOMAIN w :
         w[i].kind \in kinds => i + n \in DOMAIN v /\ w[i] = v[i + n]
  BY DEF Part
<1>2. PICK m \in Nat : \A i \in DOMAIN v :
         v[i].kind \in kinds => i + m \in DOMAIN u /\ v[i] = u[i + m]
  BY DEF Part
<1>3. DOMAIN w \subseteq Int
  BY SeqIs
<1>4. \A i \in DOMAIN w : (i + n) + m = i + (n + m)
  BY <1>3
<1>5. /\ n + m \in Nat
      /\ \A i \in DOMAIN w : w[i].kind \in kinds =>
            i + (n + m) \in DOMAIN u /\ w[i] = u[i + (n + m)]
  BY <1>1, <1>2, <1>4
<1> QED
  BY <1>5 DEF Part

\* Entries of other kinds are put behind.
LEMMA PartBehind ==
    ASSUME NEW u \in Seq(Packets), NEW ps \in Seq(Packets), NEW kinds,
           \A i \in 1..Len(ps) : ps[i].kind \notin kinds
    PROVE  Part(u \o ps, u, kinds)
<1> DEFINE v == u \o ps
<1>1. /\ v \in Seq(Packets) /\ Len(v) = Len(u) + Len(ps)
      /\ \A i \in 1..Len(u) : v[i] = u[i]
      /\ \A i \in 1..Len(ps) : v[Len(u) + i] = ps[i]
  BY ConcatIs
<1>2. /\ DOMAIN v = 1..Len(v) /\ DOMAIN u = 1..Len(u)
      /\ Len(u) \in Nat /\ Len(ps) \in Nat
  BY <1>1, SeqIs
<1> HIDE DEF v
<1>3. ASSUME NEW i \in DOMAIN v, v[i].kind \in kinds
      PROVE  i + 0 \in DOMAIN u /\ v[i] = u[i + 0]
  <2>1. CASE i <= Len(u)
    BY <1>1, <1>2, <2>1
  <2>2. CASE ~(i <= Len(u))
    <3>1. i - Len(u) \in 1..Len(ps) /\ Len(u) + (i - Len(u)) = i
      BY <1>1, <1>2, <2>2
    <3> QED
      BY <1>1, <1>3, <3>1
  <2> QED
    BY <2>1, <2>2
<1>4. 0 \in Nat
  OBVIOUS
<1> QED
  BY <1>3, <1>4 DEF Part, v

\* What is to come are sequences of packets.
LEMMA ViewsAre ==
    ASSUME NEW o, ObjectOK(o)
    PROVE  /\ Unheard(o) \in Seq(Packets)
           /\ \A conn \in Sockets \union {NoSocket} :
                 Unread(o, conn) \in Seq(Packets)
<1>1. <<>> \in Seq(Packets)
  OBVIOUS
<1> QED
  BY <1>1 DEF ObjectOK, Unheard, Unread

\* On no socket are more replies under way to the broker, and no more messages
\* to the client on its current one.
Hushed(r, o) ==
    /\ \A s \in Sockets : Part(r.up[s], o.up[s], Replying)
    /\ Part(Unheard(r), Unheard(o), Asking)

\* One such step after another is one.
LEMMA HushedOn ==
    ASSUME NEW o, NEW p, NEW r, ObjectOK(r), Hushed(p, o), Hushed(r, p)
    PROVE  Hushed(r, o)
<1>1. Unheard(r) \in Seq(Packets) /\ \A s \in Sockets : r.up[s] \in Seq(Packets)
  BY ViewsAre DEF ObjectOK
<1> QED
  BY <1>1, PartOfPart DEF Hushed

\* The same is under way.
LEMMA HushedSame ==
    ASSUME NEW o, NEW r, ObjectOK(o), r.up = o.up, r.down = o.down, r.sock = o.sock
    PROVE  Hushed(r, o)
<1>1. Unheard(o) \in Seq(Packets) /\ \A s \in Sockets : o.up[s] \in Seq(Packets)
  BY ViewsAre DEF ObjectOK
<1>2. Unheard(r) = Unheard(o)
  BY DEF Unheard
<1> QED
  BY <1>1, <1>2, PartSame DEF Hushed

\* Nothing is to come to the client, and on no socket more to the broker.
LEMMA HushedNothing ==
    ASSUME NEW o, NEW r, ObjectOK(o), Unheard(r) = <<>>,
           \A s \in Sockets : r.up[s] = o.up[s] \/ r.up[s] = <<>>
    PROVE  Hushed(r, o)
<1>1. \A s \in Sockets : o.up[s] \in Seq(Packets)
  BY DEF ObjectOK
<1>2. \A i \in DOMAIN <<>> : FALSE
  OBVIOUS
<1>3. \A u, kinds : Part(<<>>, u, kinds)
  BY <1>2, PartNone
<1> QED
  BY <1>1, <1>3, PartSame DEF Hushed

\* A new socket is a silent one.
LEMMA DoConnectHush ==
    ASSUME NEW o, ObjectOK(o), Free(o) # {}
    PROVE  Hushed(DoConnect(o), o)
<1> DEFINE r == DoConnect(o)
           s == Min(Free(o))
<1>1. s \in Sockets /\ DOMAIN o = Fields
  BY FreeIs DEF ObjectOK
<1> HIDE DEF s
<1>2. r = [o EXCEPT !.connected = FALSE, !.sock = s, !.pinger = "off",
                    !.connectTimer = "armed", !.ready[s] = "connecting",
                    !.on[s] = TRUE, !.link[s] = "up", !.down[s] = <<>>]
  BY DEF DoConnect, s
<1>3. r.up = o.up /\ r.sock = s /\ r.down[s] = <<>>
  BY <1>1, <1>2 DEF ObjectOK, Fields
<1> HIDE DEF r
<1>4. Unheard(r) = <<>>
  BY <1>3 DEF Unheard
<1> QED
  BY <1>3, <1>4, HushedNothing DEF r

\* The next attempt.
LEMMA ReconnectHush ==
    ASSUME NEW o, ObjectOK(o), Free(o) # {}
    PROVE  Hushed(Reconnect(o), o)
<1> DEFINE r == [o EXCEPT !.reconnecting = TRUE]
<1>1. /\ ObjectOK(r) /\ r.ready = o.ready /\ r.up = o.up /\ r.down = o.down
      /\ r.sock = o.sock
  BY DEF ObjectOK, Fields
<1> HIDE DEF r
<1>2. Free(r) # {}
  BY <1>1 DEF Free
<1>3. Hushed(r, o) /\ Hushed(o, o)
  BY <1>1, HushedSame
<1>4. ObjectOK(DoConnect(r)) /\ Hushed(DoConnect(r), r)
  BY <1>1, <1>2, DoConnectOK, DoConnectHush
<1>5. Reconnect(o) \in {o, DoConnect(r)}
  BY DEF Reconnect, r
<1> QED
  BY <1>3, <1>4, <1>5, HushedOn

\* A socket given up.
LEMMA DetachHush ==
    ASSUME NEW o, ObjectOK(o)
    PROVE  Hushed(Detach(o), o)
<1> DEFINE d == Detach(o)
<1>1. d.up = o.up /\ d.sock = NoSocket
  BY DetachDrops
<1> HIDE DEF d
<1>2. Unheard(d) = <<>>
  BY <1>1 DEF Unheard
<1> QED
  BY <1>1, <1>2, HushedNothing DEF d

\* Whatever becomes of the connection, no more is to come.
LEMMA DisconnectedHush ==
    ASSUME NEW o, NEW failed \in BOOLEAN, ObjectOK(o),
           Free(o) # {} \/ (o.connected /\ ~failed)
    PROVE  Hushed(Disconnected(o, failed), o)
<1> DEFINE d == Detach(o)
           u == [d EXCEPT !.connected = FALSE]
           v == [d EXCEPT !.version = 3]
           w == RetryLater(o)
<1>1. ObjectOK(d) /\ Free(o) \subseteq Free(d) /\ Hushed(d, o)
  BY DetachOK, DetachHush
<1>2. ObjectOK(w) /\ w.up = o.up /\ w.down = o.down /\ w.sock = o.sock
  BY RetryLaterOK DEF RetryLater, ObjectOK, Fields
<1>3. Disconnected(o, failed) \in {w, Reconnect(u), u, DoConnect(v), d}
  BY DEF Disconnected
<1>4. ~failed /\ o.connected => Disconnected(o, failed) = u
  BY DEF Disconnected
<1> HIDE DEF d, w
<1>5. /\ ObjectOK(u) /\ u.ready = d.ready /\ u.up = d.up /\ u.down = d.down
      /\ u.sock = d.sock
  BY <1>1 DEF ObjectOK, Fields
<1>6. /\ ObjectOK(v) /\ v.ready = d.ready /\ v.up = d.up /\ v.down = d.down
      /\ v.sock = d.sock
  BY <1>1 DEF ObjectOK, Fields
<1> HIDE DEF u, v
<1>7. Hushed(w, o) /\ Hushed(u, o) /\ Hushed(v, o)
  BY <1>1, <1>2, <1>5, <1>6, HushedSame, HushedOn
<1>8. CASE Free(o) # {}
  <2>1. Free(u) # {} /\ Free(v) # {}
    BY <1>1, <1>5, <1>6, <1>8 DEF Free
  <2>2. /\ ObjectOK(Reconnect(u)) /\ Hushed(Reconnect(u), u)
        /\ ObjectOK(DoConnect(v)) /\ Hushed(DoConnect(v), v)
    BY <1>5, <1>6, <2>1, ReconnectOK, ReconnectHush, DoConnectOK, DoConnectHush
  <2>3. Hushed(Reconnect(u), o) /\ Hushed(DoConnect(v), o)
    BY <1>7, <2>2, HushedOn
  <2> QED
    BY <1>1, <1>3, <1>7, <2>3
<1>9. CASE o.connected /\ ~failed
  BY <1>4, <1>7, <1>9
<1> QED
  BY <1>8, <1>9

\* The client sends what is no reply.
LEMMA SocketSendHush ==
    ASSUME NEW o, NEW ps \in Seq(Packets), ObjectOK(o), o.sock \in Sockets,
           AreOf(ps, Calls)
    PROVE  Hushed(SocketSend(o, ps), o)
<1> DEFINE e == Encoded(ps)
           s == o.sock
           u == IF o.ready[s] = "open" /\ o.link[s] = "up"
                THEN o.up[s] \o e ELSE o.up[s]
           r == SocketSend(o, ps)
<1>1. e \in Seq(Packets) /\ AreOf(e, Calls)
  BY EncodedIs, AreOfEncoded
<1>2. SocketSend(o, ps) = [o EXCEPT !.pinger = IF KeepAlive THEN "reset" ELSE @,
                                    !.up[s] = u]
  BY DEF SocketSend
<1> HIDE DEF e
<1>3. \A i \in 1..Len(e) : e[i].kind \notin Replying
  <2>1. \A i \in 1..Len(e) : e[i].kind \in Calls
    BY <1>1, AreOfAll
  <2> QED
    BY <2>1 DEF Calls, Replying
<1>4. \A x \in Sockets : o.up[x] \in Seq(Packets)
  BY DEF ObjectOK
<1>5. Part(u, o.up[s], Replying)
  BY <1>1, <1>3, <1>4, PartSame, PartBehind
<1> HIDE DEF u
<1>6. /\ r.down = o.down /\ r.sock = o.sock /\ r.up[s] = u
      /\ \A x \in Sockets : x # s => r.up[x] = o.up[x]
  BY <1>2 DEF ObjectOK, Fields
<1> HIDE DEF r
<1>7. Unheard(r) = Unheard(o)
  BY <1>6 DEF Unheard
<1> QED
  BY <1>4, <1>5, <1>6, <1>7, ViewsAre, PartSame DEF Hushed, r

\* The queue is sent.
LEMMA ProcessQueueHush ==
    ASSUME NEW o, ObjectOK(o), o.connected, AreOf(o.queue, Calls)
    PROVE  Hushed(ProcessQueue(o), o)
<1> DEFINE e == [o EXCEPT !.queue = <<>>]
           n == [o EXCEPT !.queue = Reverse(Tail(@))]
           ps == SubSeq(o.queue, 1, Sendable(o))
           t == SocketSend(e, ps)
<1>0. Hushed(o, o)
  BY HushedSame
<1>1. CASE o.queue = <<>>
  BY <1>0, <1>1 DEF ProcessQueue
<1>2. CASE o.queue # <<>> /\ ~CanSend(o)
  <2>1. n.up = o.up /\ n.down = o.down /\ n.sock = o.sock
    BY DEF ObjectOK, Fields
  <2> HIDE DEF n
  <2>2. Hushed(n, o)
    BY <2>1, HushedSame
  <2> QED
    BY <1>2, <2>2 DEF ProcessQueue, n
<1>3. CASE o.queue # <<>> /\ CanSend(o)
  <2>0. <<>> \in Seq(Packets)
    OBVIOUS
  <2>1. /\ ObjectOK(e) /\ e.up = o.up /\ e.down = o.down /\ e.sock = o.sock
        /\ e.connected = o.connected
    BY <2>0 DEF ObjectOK, Fields
  <2>2. e.sock \in Sockets
    BY <2>1, <1>3 DEF CanSend, ObjectOK
  <2>3. Sendable(o) \in 0..Len(o.queue) /\ o.queue \in Seq(Packets)
    <3>1. o.queue \in Seq(Packets) /\ Sendable(o) \in 1..Len(o.queue)
      BY <1>3, SendableIs DEF ObjectOK
    <3>2. Len(o.queue) \in Nat
      BY <3>1, SeqIs
    <3> QED
      BY <3>1, <3>2
  <2>4. ps \in Seq(Packets) /\ AreOf(ps, Calls)
    BY <2>3, SubSeqIs, AreOfSub
  <2>5. ProcessQueue(o) \in {Disconnected(t, FALSE), t}
    BY <1>3 DEF ProcessQueue
  <2> HIDE DEF e, ps
  <2>6. ObjectOK(t) /\ t.connected
    BY <2>1, <2>2, <2>4, SocketSendOK
  <2>7. Hushed(t, e) /\ Hushed(e, o)
    BY <2>1, <2>2, <2>4, SocketSendHush, HushedSame
  <2> HIDE DEF t
  <2>8. Hushed(t, o)
    BY <2>6, <2>7, HushedOn
  <2>9. ObjectOK(Disconnected(t, FALSE)) /\ Hushed(Disconnected(t, FALSE), t)
    BY <2>6, DisconnectedOK, DisconnectedHush
  <2> QED
    BY <2>5, <2>8, <2>9, HushedOn
<1> QED
  BY <1>1, <1>2, <1>3

\* A packet scheduled, which goes out if it can.
LEMMA ScheduleHush ==
    ASSUME NEW o, NEW ps \in Seq(Packets), ObjectOK(o),
           AreOf(o.queue, Calls), AreOf(ps, Calls)
    PROVE  Hushed(Schedule(o, ps), o)
<1> DEFINE q == [o EXCEPT !.queue = @ \o ps]
<1>1. /\ ObjectOK(q) /\ q.connected = o.connected /\ q.queue = o.queue \o ps
      /\ q.up = o.up /\ q.down = o.down /\ q.sock = o.sock
  BY DEF ObjectOK, Fields
<1>2. Schedule(o, ps) = IF o.connected THEN ProcessQueue(q) ELSE q
  BY DEF Schedule
<1> HIDE DEF q
<1>3. Hushed(q, o)
  BY <1>1, HushedSame
<1>4. AreOf(q.queue, Calls)
  BY <1>1, AreOfConcat DEF ObjectOK
<1>5. o.connected => ObjectOK(ProcessQueue(q)) /\ Hushed(ProcessQueue(q), q)
  BY <1>1, <1>4, ProcessQueueOK, ProcessQueueHush
<1> QED
  BY <1>2, <1>3, <1>5, HushedOn

\* Everything is sent again.
LEMMA AcceptedHush ==
    ASSUME NEW o, NEW q \in Orders(o), ObjectOK(o), SettledOK(o), Free(o) # {},
           AreOf(o.queue, Calls)
    PROVE  Hushed(Accepted(o, q), o)
<1> DEFINE ps == [i \in DOMAIN q |-> q[i].pkt]
           l == SubSeq(ps, 1, Min({1, Len(ps)}))
           k == IF CanSend(o) THEN ps ELSE l
           s == [o EXCEPT !.connected = TRUE, !.buffered = <<>>,
                          !.notify = @ /\ o.buffered = <<>>,
                          !.queue = @ \o k]
           r == [s EXCEPT !.reconnecting = @ /\ ps # <<>> /\ ProcessThrows(s)]
<1>0. \A x \in Resend(o) : x.pkt.kind \in Calls
  <2> SUFFICES ASSUME NEW x \in Resend(o)
               PROVE  x.pkt.kind \in Calls
    OBVIOUS
  <2>1. CASE x \in Range(o.buffered)
    BY <2>1 DEF Range, SettledOK, Calls
  <2>2. CASE x \notin Range(o.buffered)
    BY <2>2 DEF Resend, Control, Packet, Calls
  <2> QED
    BY <2>1, <2>2
<1>1. /\ ps \in Seq(Packets) /\ Len(ps) \in Nat
      /\ DOMAIN q = 1..Len(q) /\ \A i \in 1..Len(q) : q[i] \in Resend(o)
  BY OrderIs
<1>2. AreOf(ps, Calls)
  <2>1. DOMAIN ps = DOMAIN q /\ \A i \in DOMAIN q : ps[i] = q[i].pkt
    OBVIOUS
  <2> HIDE DEF ps
  <2> QED
    BY <1>0, <1>1, <2>1 DEF AreOf
<1>3. Accepted(o, q) = Caught(s, ProcessQueue(r))
  BY DEF Accepted
<1> HIDE DEF ps
<1>4. {1, Len(ps)} \in SUBSET Nat /\ {1, Len(ps)} # {}
  BY <1>1
<1>5. Min({1, Len(ps)}) \in 0..Len(ps)
  <2>1. Len(ps) \in Nat
    BY <1>1
  <2>2. /\ Min({1, Len(ps)}) \in {1, Len(ps)}
        /\ \A y \in {1, Len(ps)} : Min({1, Len(ps)}) <= y
    BY <1>4, MinIs
  <2> QED
    BY <2>1, <2>2
<1>6. l \in Seq(Packets) /\ AreOf(l, Calls)
  BY <1>1, <1>2, <1>5, SubSeqIs, AreOfSub
<1> HIDE DEF l
<1>7. k \in Seq(Packets) /\ AreOf(k, Calls)
  BY <1>1, <1>2, <1>6
<1> HIDE DEF k
<1>8. (o.notify /\ o.buffered = <<>>) \in BOOLEAN
  OBVIOUS
<1>9. o.queue \o k \in Seq(Packets) /\ AreOf(o.queue \o k, Calls)
  BY <1>7, AreOfConcat DEF ObjectOK
<1>10. /\ ObjectOK(s) /\ s.ready = o.ready /\ s.up = o.up /\ s.connected
       /\ s.queue = o.queue \o k /\ s.down = o.down /\ s.sock = o.sock
  BY <1>8, <1>9 DEF ObjectOK, Fields
<1> HIDE DEF s
<1>11. (s.reconnecting /\ ps # <<>> /\ ProcessThrows(s)) \in BOOLEAN
  OBVIOUS
<1>12. /\ ObjectOK(r) /\ r.ready = s.ready /\ r.up = s.up /\ r.connected
       /\ r.queue = s.queue /\ r.down = s.down /\ r.sock = s.sock
  BY <1>10, <1>11 DEF ObjectOK, Fields
<1> HIDE DEF r
<1>13. Free(r) # {} /\ Hushed(r, o)
  BY <1>10, <1>12, HushedSame DEF Free
<1> DEFINE a == ProcessQueue(r)
<1>14. ObjectOK(a) /\ Free(a) # {} /\ Hushed(a, r)
  BY <1>9, <1>10, <1>12, <1>13, ProcessQueueOK, ProcessQueueHush
<1> HIDE DEF a
<1>15. ObjectOK(Disconnected(a, TRUE)) /\ Hushed(Disconnected(a, TRUE), a)
  BY <1>14, DisconnectedOK, DisconnectedHush
<1>16. Accepted(o, q) \in {a, Disconnected(a, TRUE)}
  BY <1>3 DEF Caught, a
<1> QED
  BY <1>13, <1>14, <1>15, <1>16, HushedOn

\* A step of the object that brings neither side more, and keeps what the
\* client has of the broker's messages.
Stiller(r, o) ==
    /\ ObjectOK(r) /\ Hushed(r, o)
    /\ r.clean = o.clean /\ r.received = o.received

\* One such step after another is one.
LEMMA StillerOn ==
    ASSUME NEW o, NEW p, NEW r, Stiller(p, o), Stiller(r, p)
    PROVE  Stiller(r, o)
BY HushedOn DEF Stiller

\* An object with the same sockets, messages received and session.
LEMMA StillerSame ==
    ASSUME NEW o, NEW r, ObjectOK(o), ObjectOK(r), r.up = o.up, r.down = o.down,
           r.sock = o.sock, r.clean = o.clean, r.received = o.received
    PROVE  Stiller(r, o)
BY HushedSame DEF Stiller

\* The routines on sockets, once more.
LEMMA DoConnectStill ==
    ASSUME NEW o, ObjectOK(o), Free(o) # {}
    PROVE  Stiller(DoConnect(o), o)
BY DoConnectOK, DoConnectHush, DoConnectKeeps, KeptIn DEF Stiller, Keeps

\* The next attempt.
LEMMA ReconnectStill ==
    ASSUME NEW o, ObjectOK(o), Free(o) # {}
    PROVE  Stiller(Reconnect(o), o)
BY ReconnectOK, ReconnectHush, ReconnectKeeps, KeptIn DEF Stiller, Keeps

\* A connection that is given up.
LEMMA DisconnectedStill ==
    ASSUME NEW o, NEW failed \in BOOLEAN, ObjectOK(o),
           Free(o) # {} \/ (o.connected /\ ~failed)
    PROVE  Stiller(Disconnected(o, failed), o)
BY DisconnectedOK, DisconnectedHush, DisconnectedKeeps, KeptIn DEF Stiller, Keeps

\* What goes out on a socket.
LEMMA SocketSendStill ==
    ASSUME NEW o, NEW ps \in Seq(Packets), ObjectOK(o), o.sock \in Sockets,
           AreOf(ps, Calls)
    PROVE  Stiller(SocketSend(o, ps), o)
BY SocketSendOK, SocketSendHush, SocketSendKeeps, KeptIn DEF Stiller, Keeps

\* A packet scheduled.
LEMMA ScheduleStill ==
    ASSUME NEW o, NEW ps \in Seq(Packets), ObjectOK(o),
           AreOf(o.queue, Calls), AreOf(ps, Calls)
    PROVE  Stiller(Schedule(o, ps), o)
BY ScheduleOK, ScheduleHush, ScheduleKeeps, KeptIn DEF Stiller, Keeps

\* What is sent again after CONNACK.
LEMMA AcceptedStill ==
    ASSUME NEW o, NEW q \in Orders(o), ObjectOK(o), SettledOK(o), Free(o) # {},
           AreOf(o.queue, Calls)
    PROVE  Stiller(Accepted(o, q), o)
BY AcceptedOK, AcceptedHush, AcceptedKeeps, KeptIn DEF Stiller, Keeps

\* One packet of the client's own on a connection that is made.
LEMMA SentStill ==
    ASSUME NEW o, NEW conn, Made(o, conn), NEW p \in Packets, p.kind \in Calls,
           Free(o) # {},
           NEW r, r = Schedule(o, <<p>>) \/ r = ScheduleInHandler(o, p)
    PROVE  Stiller(r, o)
<1> DEFINE s == o.sock
           e == [p EXCEPT !.id = @ % WireIds]
<1>1. /\ r.sock = s /\ r.sent = o.sent /\ r.connected = o.connected
      /\ r.clean = o.clean /\ r.buffered = o.buffered
      /\ r.down = o.down
      /\ \A x \in Sockets : x # s => r.up[x] = o.up[x]
      /\ \/ r.up[s] = o.up[s]
         \/ conn = s /\ r.up[s] = Append(o.up[s], e)
  BY SentIs
<1>2. ObjectOK(r) /\ r.received = o.received
  <2>1. Kept \subseteq DOMAIN o /\ ObjectOK(o) /\ <<p>> \in Seq(Packets)
    BY KeptIn DEF Made
  <2>2. ObjectOK(Schedule(o, <<p>>)) /\ Schedule(o, <<p>>).received = o.received
    BY <2>1, ScheduleOK, ScheduleKeeps DEF Keeps
  <2>3. /\ ObjectOK(ScheduleInHandler(o, p))
        /\ ScheduleInHandler(o, p).received = o.received
    BY <2>1, ScheduleInHandlerOK, ScheduleInHandlerKeeps DEF Keeps
  <2> QED
    BY <2>2, <2>3
<1>3. e \in Packets /\ e.kind \notin Replying
  <2>1. e \in Packets
    BY OneEncoded
  <2>2. e.kind = p.kind
    BY DEF Packets
  <2> QED
    BY <2>1, <2>2 DEF Calls, Replying
<1> HIDE DEF e
<1>4. \A x \in Sockets : o.up[x] \in Seq(Packets)
  BY DEF Made, ObjectOK
<1>5. s \in Sockets
  BY SocketIs DEF Made, LinkedOK
<1>6. Part(r.up[s], o.up[s], Replying)
  BY <1>1, <1>3, <1>4, <1>5, PartSame, PartPut
<1>7. Unheard(r) = Unheard(o)
  BY <1>1 DEF Unheard
<1>8. Part(Unheard(r), Unheard(o), Asking)
  BY <1>7, ViewsAre, PartSame DEF Made
<1>9. Hushed(r, o)
  BY <1>1, <1>4, <1>6, <1>8, PartSame DEF Hushed
<1> QED
  BY <1>1, <1>2, <1>9 DEF Stiller

\* Of a part of a sequence holds what holds of all of it.
LEMMA PartTokens ==
    ASSUME NEW u \in Seq(Packets), NEW v \in Seq(Packets), NEW kinds,
           Part(v, u, kinds), NEW P, \A p \in P : p.kind \in kinds
    PROVE  /\ Lone(u, P) => Lone(v, P)
           /\ \A f : FitAll(u, P, f) => FitAll(v, P, f)
           /\ IdsOf(v, P) \subseteq IdsOf(u, P)
<1>1. PICK n \in Nat : \A i \in DOMAIN v :
         v[i].kind \in kinds => i + n \in DOMAIN u /\ v[i] = u[i + n]
  BY DEF Part
<1>2. \A i \in DOMAIN v : v[i] \in P => i + n \in DOMAIN u /\ v[i] = u[i + n]
  BY <1>1
<1>3. DOMAIN v \subseteq Int
  BY SeqIs
<1>4. ASSUME Lone(u, P) PROVE Lone(v, P)
  <2> SUFFICES ASSUME NEW i \in DOMAIN v, NEW j \in DOMAIN v,
                      v[i] \in P, v[j] \in P, v[i].id = v[j].id
               PROVE  i = j
    BY DEF Lone
  <2>1. i + n = j + n
    BY <1>2, <1>4 DEF Lone
  <2> QED
    BY <1>3, <2>1
<1>5. ASSUME NEW f, FitAll(u, P, f) PROVE FitAll(v, P, f)
  BY <1>2, <1>5 DEF FitAll
<1>6. IdsOf(v, P) \subseteq IdsOf(u, P)
  BY <1>2 DEF IdsOf
<1> QED
  BY <1>4, <1>5, <1>6

\* What comes of part of a sequence.
LEMMA PartComing ==
    ASSUME NEW d, NEW e \in Seq(Packets), Part(e, d, Asking), NEW iq, NEW ar
    PROVE  /\ Coming(d, iq, ar) => Coming(e, iq, ar)
           /\ \A g, clean : Repeats(d, g, clean) => Repeats(e, g, clean)
<1>1. PICK n \in Nat : \A i \in DOMAIN e :
         e[i].kind \in Asking => i + n \in DOMAIN d /\ e[i] = d[i + n]
  BY DEF Part
<1>2. \A k \in Carried(e) : k + n \in Carried(d) /\ e[k] = d[k + n]
  BY <1>1 DEF Carried, Asking
<1>3. Carried(e) \subseteq Int
  BY SeqIs DEF Carried
<1>4. ASSUME Coming(d, iq, ar) PROVE Coming(e, iq, ar)
  <2>1. \A k \in Carried(e) :
           /\ e[k].msg \in 1..InMsgs /\ iq[e[k].msg] = e[k].qos
           /\ e[k].qos # 1 => ar[e[k].msg] = 0
    BY <1>2, <1>4 DEF Coming
  <2>2. ASSUME NEW k \in Carried(e), NEW l \in Carried(e), e[k].msg = e[l].msg
        PROVE  k = l
    <3>1. /\ k + n \in Carried(d) /\ l + n \in Carried(d)
          /\ d[k + n].msg = d[l + n].msg
      BY <1>2, <2>2
    <3>2. k + n = l + n
      BY <1>4, <3>1 DEF Coming
    <3> QED
      BY <1>3, <3>2
  <2> QED
    BY <2>1, <2>2 DEF Coming
<1>5. ASSUME NEW g, NEW clean, Repeats(d, g, clean) PROVE Repeats(e, g, clean)
  BY <1>2, <1>5 DEF Repeats
<1> QED
  BY <1>4, <1>5

\* What is said by part of a sequence.
LEMMA PartSaid ==
    ASSUME NEW u, NEW v, Part(v, u, Replying), NEW g, NEW f, NEW ar,
           SaidOK(u, g, f, ar)
    PROVE  SaidOK(v, g, f, ar)
<1>1. PICK n \in Nat : \A i \in DOMAIN v :
         v[i].kind \in Replying => i + n \in DOMAIN u /\ v[i] = u[i + n]
  BY DEF Part
<1> QED
  BY <1>1 DEF SaidOK, Replying

\* Nothing but what was on its way is on its way.
LEMMA StillInbound ==
    ASSUME NEW r, NEW o, ObjectOK(r), ObjectOK(o), Hushed(r, o), r.clean = o.clean,
           r.received = o.received \/ (o.clean /\ r.received = Empty),
           NEW conn \in Sockets \union {NoSocket}, NEW n \in {conn, NoSocket},
           NEW out, NEW iq, NEW ar, InboundOK(o, conn, out, iq, ar)
    PROVE  InboundOK(r, n, out, iq, ar)
<1> DEFINE d == Unheard(o)
           e == Unheard(r)
           u == Unread(o, conn)
           v == Unread(r, n)
           f == Flying(out)
<1>1. d \in Seq(Packets) /\ e \in Seq(Packets)
  BY ViewsAre
<1>2. u \in Seq(Packets) /\ v \in Seq(Packets)
  BY ViewsAre
<1>3. Part(e, d, Asking)
  BY DEF Hushed
<1>4. Part(v, u, Replying)
  <2>1. CASE n = NoSocket
    <3>1. v = <<>> /\ \A i \in DOMAIN <<>> : FALSE
      BY <2>1 DEF Unread
    <3> QED
      BY <3>1, PartNone
  <2>2. CASE n # NoSocket
    <3>1. n = conn /\ n \in Sockets
      BY <2>2
    <3>2. v = r.up[n] /\ u = o.up[n]
      BY <2>2, <3>1 DEF Unread
    <3> QED
      BY <3>1, <3>2 DEF Hushed
  <2> QED
    BY <2>1, <2>2
<1>5. InboundOK(o, conn, out, iq, ar) => 
        /\ \A m \in 1..InMsgs : iq[m] = Unsent => ar[m] = 0
        /\ GotOK(o.received, iq, ar) /\ Coming(d, iq, ar)
        /\ Repeats(d, o.received, o.clean)
        /\ ~o.clean => LastingOK(d, u, o.received, f, iq, ar)
  BY DEF InboundOK
<1>6. r.received # o.received => o.clean /\ DOMAIN r.received = {}
  BY EmptyIs
<1> HIDE DEF d, e, u, v, f
<1>7. GotOK(r.received, iq, ar)
  BY <1>5, <1>6 DEF GotOK
<1>8. Coming(e, iq, ar) /\ Repeats(e, o.received, o.clean)
  BY <1>1, <1>3, <1>5, PartComing
<1>9. Repeats(e, r.received, r.clean)
  BY <1>6, <1>8 DEF Repeats
<1>10. ASSUME ~r.clean PROVE LastingOK(e, v, r.received, f, iq, ar)
  <2>1. LastingOK(d, u, r.received, f, iq, ar)
    BY <1>5, <1>6, <1>10
  <2>2. (\A p \in Asks : p.kind \in Asking) /\ (\A p \in Answers : p.kind \in Replying)
    BY DEF Asks, Answers, Asking, Replying
  <2>3. /\ Lone(d, Asks) => Lone(e, Asks)
        /\ FitAll(d, Asks, f) => FitAll(e, Asks, f)
        /\ IdsOf(e, Asks) \subseteq IdsOf(d, Asks)
    BY <1>1, <1>3, <2>2, PartTokens
  <2>4. /\ Lone(u, Answers) => Lone(v, Answers)
        /\ FitAll(u, Answers, f) => FitAll(v, Answers, f)
        /\ IdsOf(v, Answers) \subseteq IdsOf(u, Answers)
    BY <1>2, <1>4, <2>2, PartTokens
  <2>5. TokensOK(e, v, f)
    BY <2>1, <2>3, <2>4 DEF LastingOK, TokensOK
  <2>6. SaidOK(v, r.received, f, ar)
    BY <1>4, <2>1, PartSaid DEF LastingOK
  <2> QED
    BY <2>1, <2>5, <2>6 DEF LastingOK
<1> QED
  BY <1>5, <1>7, <1>8, <1>9, <1>10 DEF InboundOK, d, e, u, v, f

\* A step of the system of that kind.
Hushes ==
    /\ Hushed(c', c) /\ c'.clean = c.clean
    /\ c'.received = c.received \/ (c.clean /\ c'.received = Empty)
    /\ (broker.conn)' \in {broker.conn, NoSocket}
    /\ (broker.out)' = broker.out /\ UNCHANGED <<inQos, arrived>>

\* A step of this kind leaves the invariant.
LEMMA HushedReceive ==
    ASSUME Typed, Typed', Hushes, ReceiveInv
    PROVE  ReceiveInv'
<1>1. ObjectOK(c) /\ ObjectOK(c') /\ broker.conn \in Sockets \union {NoSocket}
  BY DEF Typed, TypeInv, BrokerOK
<1>2. InboundOK(c', (broker.conn)', broker.out, inQos, arrived)
  BY <1>1, StillInbound DEF Hushes, ReceiveInv
<1> QED
  BY <1>2 DEF ReceiveInv, Hushes

-----------------------------------------------------------------------------
\* The steps of the page, the timers and the network.
LEMMA QueueCalls ==
    ASSUME Typed, ConnInv
    PROVE  AreOf(c.queue, Calls)
BY SockIs DEF HandshakeOK, UsableOK, AreOf, Calls

\* A step that leaves the broker as it is, or without its connection.
LEMMA StillHushes ==
    ASSUME Stiller(c', c), UNCHANGED <<broker, inQos, arrived>>
    PROVE  Hushes
BY DEF Stiller, Hushes

\* connect().
LEMMA AppConnectHushes ==
    ASSUME Typed, AppConnect
    PROVE  Hushes
<1> DEFINE t == IF c.reconnecting THEN "null" ELSE c.reconnectTimer
           o == [c EXCEPT !.reconnecting = FALSE, !.version = 4,
                          !.reconnectTimer = t]
<1>1. /\ c' = DoConnect(o) /\ UNCHANGED <<broker, inQos, arrived>>
      /\ Free(c) # {}
  BY DEF AppConnect
<1>2. ObjectOK(c) /\ t \in {"null", "idle", "armed"}
  BY DEF Typed, TypeInv, ObjectOK
<1> HIDE DEF t
<1>3. /\ ObjectOK(o) /\ o.clean = c.clean /\ o.received = c.received
      /\ o.up = c.up /\ o.down = c.down /\ o.sock = c.sock /\ o.ready = c.ready
  BY <1>2 DEF ObjectOK, Fields
<1> HIDE DEF o
<1>4. Free(o) = Free(c)
  BY <1>3 DEF Free
<1>5. Stiller(o, c) /\ Stiller(c', o)
  BY <1>1, <1>2, <1>3, <1>4, StillerSame, DoConnectStill
<1> QED
  BY <1>1, <1>5, StillerOn, StillHushes

\* disconnect().
LEMMA AppDisconnectHushes ==
    ASSUME Typed, ConnInv, AppDisconnect
    PROVE  Hushes
<1> DEFINE o == IF c.reconnecting
                THEN [c EXCEPT !.reconnecting = FALSE, !.reconnectTimer = "null"]
                ELSE c
           p == Control("DISCONNECT", 0)
           n == [o EXCEPT !.notify = TRUE]
<1>1. /\ c' = IF c.sock = NoSocket THEN o ELSE Schedule(n, <<p>>)
      /\ UNCHANGED <<broker, inQos, arrived>>
  BY DEF AppDisconnect
<1>2. ObjectOK(c) /\ DOMAIN c = Fields
  BY DEF Typed, TypeInv, ObjectOK
<1>3. /\ ObjectOK(o) /\ o.sock = c.sock /\ o.queue = c.queue
      /\ o.up = c.up /\ o.down = c.down
      /\ o.clean = c.clean /\ o.received = c.received
  BY <1>2, ZenonT(30) DEF ObjectOK, Fields
<1> HIDE DEF o
<1>4. p \in Packets /\ p.kind = "DISCONNECT"
  BY ControlIs DEF Kinds, Control, Packet
<1> HIDE DEF p
<1>5. <<p>> \in Seq(Packets) /\ AreOf(<<p>>, Calls)
  BY <1>4, AreOfOne DEF Calls
<1>6. /\ ObjectOK(n) /\ n.sock = c.sock /\ n.queue = c.queue
      /\ n.up = c.up /\ n.down = c.down
      /\ n.clean = c.clean /\ n.received = c.received
  BY <1>3 DEF ObjectOK, Fields
<1> HIDE DEF n
<1>7. Stiller(o, c) /\ Stiller(n, c)
  BY <1>2, <1>3, <1>6, StillerSame
<1>8. Stiller(Schedule(n, <<p>>), n)
  BY <1>5, <1>6, QueueCalls, ScheduleStill
<1> QED
  BY <1>1, <1>7, <1>8, StillerOn, StillHushes

\* subscribe() and unsubscribe().
LEMMA RequestHushes ==
    ASSUME Typed, ConnInv, AppRequest
    PROVE  Hushes
<1> DEFINE r == RequiresAck("REQUEST", 0, 0)
           p == Control("REQUEST", FreeId)
<1>1. c' = Schedule(r, <<p>>) /\ UNCHANGED <<broker, inQos, arrived>>
  BY DEF AppRequest
<1>2. p \in Packets /\ p.kind = "REQUEST"
  <2>1. FreeId \in Nat
    BY FreeIdIs
  <2> QED
    BY <2>1, ControlIs DEF Kinds, Control, Packet
<1> HIDE DEF p
<1>3. <<p>> \in Seq(Packets) /\ AreOf(<<p>>, Calls)
  BY <1>2, AreOfOne DEF Calls
<1>4. ObjectOK(c) /\ ObjectOK(r)
  <2>1. 0 \in 0..OutMsgs /\ 0 \in 0..2
    BY ConstantsAre
  <2> QED
    BY <2>1, RequiresAckOK DEF Typed, TypeInv
<1>5. /\ r.up = c.up /\ r.down = c.down /\ r.sock = c.sock /\ r.queue = c.queue
      /\ r.clean = c.clean /\ r.received = c.received
  BY <1>4 DEF RequiresAck, ObjectOK, Fields
<1> HIDE DEF r
<1>6. Stiller(r, c) /\ Stiller(Schedule(r, <<p>>), r)
  BY <1>3, <1>4, <1>5, QueueCalls, StillerSame, ScheduleStill
<1> QED
  BY <1>1, <1>6, StillerOn, StillHushes

\* send().
LEMMA AppSendHushes ==
    ASSUME Typed, Typed', ConnInv, NEW q \in 0..2, AppSend(q)
    PROVE  Hushes
<1> DEFINE m == NextOut
           r == RequiresAck("PUBLISH", m, q)
           i == IF q > 0 THEN FreeId ELSE 0
           p == Packet("PUBLISH", i, m, q)
           n == IF q > 0 THEN r ELSE [c EXCEPT !.notify = FALSE]
<1>1. /\ \/ c' = Schedule(n, <<p>>) 
         \/ q > 0 /\ c' = r
         \/ \E z : c' = [c EXCEPT !.sequence = @ + 1, !.buffered = Append(@, z)]
      /\ UNCHANGED <<broker, inQos, arrived>>
      /\ \E k \in 1..OutMsgs : outQos[k] = Unsent
  BY DEF AppSend
<1>2. ObjectOK(c) /\ ObjectOK(c') /\ m \in 1..OutMsgs /\ m \in 0..OutMsgs
  <2>1. NextOut \in 1..OutMsgs /\ OutMsgs \in Nat
    BY <1>1, NextOutIs, ConstantsAre
  <2>2. NextOut \in 0..OutMsgs
    BY <2>1
  <2> QED
    BY <2>1, <2>2 DEF Typed, TypeInv
<1>3. p \in Packets /\ p.kind = "PUBLISH"
  <2>1. i \in Nat /\ m \in 0..TopMsg
    BY <1>2, FreeIdIs, TopIs
  <2> HIDE DEF i, m
  <2> QED
    BY <2>1, PacketIs DEF Kinds, Packet
<1> HIDE DEF p, i
<1>4. <<p>> \in Seq(Packets) /\ AreOf(<<p>>, Calls)
  BY <1>3, AreOfOne DEF Calls
<1>5. ObjectOK(r)
  BY <1>2, RequiresAckOK
<1>6. /\ r.up = c.up /\ r.down = c.down /\ r.sock = c.sock /\ r.queue = c.queue
      /\ r.clean = c.clean /\ r.received = c.received
  BY <1>2 DEF RequiresAck, ObjectOK, Fields
<1> HIDE DEF r, m
<1>7. /\ ObjectOK(n) /\ n.up = c.up /\ n.down = c.down /\ n.sock = c.sock
      /\ n.queue = c.queue /\ n.clean = c.clean /\ n.received = c.received
  <2>1. CASE q > 0
    BY <1>5, <1>6, <2>1
  <2>2. CASE ~(q > 0)
    <3> DEFINE e == [c EXCEPT !.notify = FALSE]
    <3>1. /\ ObjectOK(e) /\ e.up = c.up /\ e.down = c.down /\ e.sock = c.sock
          /\ e.queue = c.queue /\ e.clean = c.clean /\ e.received = c.received
      BY <1>2 DEF ObjectOK, Fields
    <3> QED
      BY <2>2, <3>1
  <2> QED
    BY <2>1, <2>2
<1> HIDE DEF n
<1>8. Stiller(n, c) /\ Stiller(Schedule(n, <<p>>), n) /\ Stiller(r, c)
  BY <1>2, <1>4, <1>5, <1>6, <1>7, QueueCalls, StillerSame, ScheduleStill
<1>9. ASSUME NEW z, c' = [c EXCEPT !.sequence = @ + 1, !.buffered = Append(@, z)]
      PROVE  Stiller(c', c)
  <2>1. /\ c'.up = c.up /\ c'.down = c.down /\ c'.sock = c.sock
        /\ c'.clean = c.clean /\ c'.received = c.received
    BY <1>2, <1>9 DEF ObjectOK, Fields
  <2> QED
    BY <1>2, <2>1, StillerSame
<1>10. Stiller(c', c)
  BY <1>1, <1>8, <1>9, StillerOn
<1> QED
  BY <1>1, <1>10, StillHushes

\* A socket opens.
LEMMA SocketOpenHushes ==
    ASSUME Typed, NEW s \in Sockets, SocketOpen(s)
    PROVE  Hushes
<1> DEFINE o == [c EXCEPT !.ready[s] = "open"]
           p == Connect(o)
<1>1. /\ c' = IF CanSend(o) THEN SocketSend(o, <<p>>) ELSE o
      /\ UNCHANGED <<broker, inQos, arrived>>
  BY DEF SocketOpen, Unstored
<1>2. ObjectOK(c)
  BY DEF Typed, TypeInv
<1>3. /\ ObjectOK(o) /\ o.sock = c.sock /\ o.up = c.up /\ o.down = c.down
      /\ o.clean = c.clean /\ o.received = c.received
  BY <1>2 DEF ObjectOK, Fields
<1>4. p \in Packets /\ p.kind = "CONNECT"
  BY ControlIs DEF Connect, Control, Packet, Kinds
<1> HIDE DEF o, p
<1>5. <<p>> \in Seq(Packets) /\ AreOf(<<p>>, Calls)
  BY <1>4, AreOfOne DEF Calls
<1>6. CanSend(o) => o.sock \in Sockets
  BY <1>3, SocketIs DEF CanSend
<1>7. Stiller(o, c) /\ (CanSend(o) => Stiller(SocketSend(o, <<p>>), o))
  BY <1>2, <1>3, <1>5, <1>6, StillerSame, SocketSendStill
<1> QED
  BY <1>1, <1>7, StillerOn, StillHushes

\* A socket closes.
LEMMA SocketClosedHushes ==
    ASSUME Typed, NEW s \in Sockets, SocketClosed(s)
    PROVE  Hushes
<1> DEFINE o == [c EXCEPT !.ready[s] = "closed", !.on[s] = FALSE,
                          !.up[s] = <<>>]
<1>1. /\ c' = IF c.reconnecting THEN o ELSE Disconnected(o, TRUE)
      /\ c.reconnecting \/ Free(c) # {}
      /\ UNCHANGED <<broker, inQos, arrived>>
  BY DEF SocketClosed, Unstored, Room
<1>2. ObjectOK(c) /\ <<>> \in Seq(Packets)
  BY DEF Typed, TypeInv
<1>3. /\ ObjectOK(o) /\ o.sock = c.sock /\ o.down = c.down
      /\ o.clean = c.clean /\ o.received = c.received
      /\ \A x \in Sockets : o.up[x] = IF x = s THEN <<>> ELSE c.up[x]
      /\ \A x \in Sockets : o.ready[x] = IF x = s THEN "closed" ELSE c.ready[x]
  BY <1>2 DEF ObjectOK, Fields
<1> HIDE DEF o
<1>4. Free(c) \subseteq Free(o)
  BY <1>3 DEF Free
<1>5. Hushed(o, c)
  <2>1. Unheard(o) = Unheard(c)
    BY <1>3 DEF Unheard
  <2>2. Part(Unheard(o), Unheard(c), Asking)
    BY <1>2, <2>1, ViewsAre, PartSame
  <2>3. ASSUME NEW x \in Sockets PROVE Part(o.up[x], c.up[x], Replying)
    <3>1. c.up[x] \in Seq(Packets) /\ \A i \in DOMAIN <<>> : FALSE
      BY <1>2 DEF ObjectOK
    <3> QED
      BY <1>3, <3>1, PartSame, PartNone
  <2> QED
    BY <2>2, <2>3 DEF Hushed
<1>6. Stiller(o, c)
  BY <1>3, <1>5 DEF Stiller
<1>7. ~c.reconnecting => Stiller(Disconnected(o, TRUE), o)
  BY <1>1, <1>3, <1>4, DisconnectedStill
<1> QED
  BY <1>1, <1>6, <1>7, StillerOn, StillHushes

\* A timer goes off.
LEMMA TimersHush ==
    ASSUME Typed, Timer \/ SlowConnect
    PROVE  Hushes
<1>1. UNCHANGED <<broker, inQos, arrived>>
  BY DEF Timer, SlowConnect, ConnectTimeout, ReconnectTimeout, DoPing, Unstored
<1>2. ObjectOK(c)
  BY DEF Typed, TypeInv
<1> DEFINE Alike(o) == /\ ObjectOK(o) /\ o.up = c.up /\ o.down = c.down
                       /\ o.sock = c.sock /\ o.ready = c.ready
                       /\ o.clean = c.clean /\ o.received = c.received
<1>3. ASSUME NEW o, Alike(o)
      PROVE  Stiller(o, c) /\ Free(o) = Free(c)
  BY <1>2, <1>3, StillerSame DEF Free
<1>4. CASE ConnectTimeout \/ SlowConnect
  <2> DEFINE t == [c EXCEPT !.connectTimer = "idle"]
  <2>1. c' = Disconnected(t, TRUE) /\ Free(c) # {}
    BY <1>4 DEF ConnectTimeout, SlowConnect, Room
  <2>2. Alike(t)
    BY <1>2 DEF ObjectOK, Fields
  <2> HIDE DEF t, Alike
  <2>3. ObjectOK(t) /\ Stiller(t, c) /\ Free(t) # {}
    BY <1>3, <2>1, <2>2 DEF Stiller
  <2> QED
    BY <1>1, <2>1, <2>3, DisconnectedStill, StillerOn, StillHushes
<1>5. CASE ReconnectTimeout
  <2> DEFINE r == IF c.orphans > 0 THEN [c EXCEPT !.orphans = @ - 1]
                  ELSE [c EXCEPT !.reconnectTimer = "idle"]
  <2>1. c' = Reconnect(r) /\ Free(c) # {}
    BY <1>5 DEF ReconnectTimeout, Room
  <2>2. Alike(r)
    <3>1. CASE c.orphans > 0
      <4> DEFINE e == [c EXCEPT !.orphans = @ - 1]
      <4>1. c.orphans - 1 \in Nat
        BY <1>2, <3>1 DEF ObjectOK
      <4>2. Alike(e)
        BY <1>2, <4>1 DEF ObjectOK, Fields
      <4> QED
        BY <3>1, <4>2
    <3>2. CASE ~(c.orphans > 0)
      <4> DEFINE e == [c EXCEPT !.reconnectTimer = "idle"]
      <4>1. Alike(e)
        BY <1>2 DEF ObjectOK, Fields
      <4> QED
        BY <3>2, <4>1
    <3> QED
      BY <3>1, <3>2
  <2> HIDE DEF r, Alike
  <2>3. ObjectOK(r) /\ Stiller(r, c) /\ Free(r) # {}
    BY <1>3, <2>1, <2>2 DEF Stiller
  <2> QED
    BY <1>1, <2>1, <2>3, ReconnectStill, StillerOn, StillHushes
<1>6. CASE DoPing
  <2> DEFINE w == [c EXCEPT !.pinger = "waiting"]
             e == [c EXCEPT !.pinger = "off"]
  <2>1. (c' = w \/ c' = Disconnected(e, TRUE)) /\ Free(c) # {}
    BY <1>6 DEF DoPing, Room
  <2>2. Alike(w) /\ Alike(e)
    BY <1>2 DEF ObjectOK, Fields
  <2> HIDE DEF w, e, Alike
  <2>3. ObjectOK(e) /\ Stiller(e, c) /\ Free(e) # {} /\ Stiller(w, c)
    BY <1>3, <2>1, <2>2 DEF Stiller
  <2> QED
    BY <1>1, <2>1, <2>3, DisconnectedStill, StillerOn, StillHushes
<1> QED
  BY <1>4, <1>5, <1>6 DEF Timer

\* A connection breaks, goes silent, or ends.
LEMMA FaultsHush ==
    ASSUME Typed, NEW s \in Sockets,
           Break(s) \/ Silence(s) \/ SilenceEnds(s) \/ BrokerSeesEnd
    PROVE  Hushes
<1>1. ObjectOK(c) /\ \A i \in DOMAIN <<>> : FALSE
  BY DEF Typed, TypeInv
<1>2. \A x \in Sockets : c.up[x] \in Seq(Packets)
  BY <1>1 DEF ObjectOK
<1>3. \A u, kinds : Part(<<>>, u, kinds)
  BY <1>1, PartNone
<1>4. CASE Break(s) \/ Silence(s)
  <2>1. PICK l : /\ c' = [c EXCEPT !.link[s] = l, !.up[s] = <<>>, !.down[s] = <<>>]
                 /\ UNCHANGED <<broker, inQos, arrived>>
    BY <1>4 DEF Break, Silence, Lose
  <2>2. /\ c'.sock = c.sock /\ c'.clean = c.clean /\ c'.received = c.received
        /\ \A x \in Sockets : c'.up[x] = IF x = s THEN <<>> ELSE c.up[x]
        /\ \A x \in Sockets : c'.down[x] = IF x = s THEN <<>> ELSE c.down[x]
    BY <1>1, <2>1 DEF ObjectOK, Fields
  <2>3. Unheard(c') = Unheard(c) \/ Unheard(c') = <<>>
    <3>1. c.sock \in Sockets \union {NoSocket}
      BY <1>1 DEF ObjectOK
    <3> QED
      BY <2>2, <3>1 DEF Unheard
  <2>4. Part(Unheard(c'), Unheard(c), Asking)
    BY <1>1, <1>3, <2>3, ViewsAre, PartSame
  <2>5. \A x \in Sockets : Part(c'.up[x], c.up[x], Replying)
    BY <1>2, <1>3, <2>2, PartSame
  <2> QED
    BY <2>1, <2>2, <2>4, <2>5 DEF Hushes, Hushed
<1>5. CASE SilenceEnds(s)
  <2>1. c' = [c EXCEPT !.link[s] = "down"] /\ UNCHANGED <<broker, inQos, arrived>>
    BY <1>5 DEF SilenceEnds
  <2>2. /\ c'.sock = c.sock /\ c'.clean = c.clean /\ c'.received = c.received
        /\ c'.up = c.up /\ c'.down = c.down
    BY <1>1, <2>1 DEF ObjectOK, Fields
  <2>3. Hushed(c', c)
    BY <1>1, <2>2, HushedSame
  <2> QED
    BY <2>1, <2>2, <2>3 DEF Hushes
<1>6. CASE BrokerSeesEnd
  <2>1. /\ c' = c /\ UNCHANGED <<inQos, arrived>>
        /\ broker' = [broker EXCEPT !.conn = NoSocket]
    BY <1>6 DEF BrokerSeesEnd
  <2>2. (broker.conn)' = NoSocket /\ (broker.out)' = broker.out
    BY <2>1 DEF Typed, TypeInv, BrokerOK
  <2>3. Hushed(c, c)
    BY <1>1, HushedSame
  <2> QED
    BY <2>1, <2>2, <2>3 DEF Hushes
<1> QED
  BY <1>4, <1>5, <1>6

\* A new page has what localStorage kept.
LEMMA CrashHushes ==
    ASSUME Typed, StoreCovers, Crash
    PROVE  Hushes
<1>1. /\ c' = NewClient(store, c.clean) /\ UNCHANGED <<broker, inQos, arrived>>
  BY DEF Crash
<1>2. /\ c'.up = [x \in Sockets |-> <<>>] /\ c'.sock = NoSocket
      /\ c'.clean = c.clean /\ c'.received = store.received
  BY <1>1 DEF NewClient
<1>3. Unheard(c') = <<>> /\ \A x \in Sockets : c'.up[x] = <<>>
  BY <1>2 DEF Unheard
<1>4. Hushed(c', c)
  BY <1>3, HushedNothing DEF Typed, TypeInv
<1> QED
  BY <1>1, <1>2, <1>4 DEF Hushes, StoreCovers

-----------------------------------------------------------------------------
\* The packets that say nothing of the broker's messages, both ways.

\* A packet is taken off the current socket.
LEMMA TakenHush ==
    ASSUME NEW o, ObjectOK(o), NEW u, NEW s, s = u.sock, s \in Sockets,
           s = o.sock, o.down[s] # <<>>, u.up = o.up, u.down[s] = Tail(o.down[s])
    PROVE  Hushed(u, o)
<1>1. o.down[s] \in Seq(Packets) /\ \A x \in Sockets : o.up[x] \in Seq(Packets)
  BY DEF ObjectOK
<1>2. Unheard(o) = o.down[s] /\ Unheard(u) = Tail(o.down[s])
  BY DEF Unheard, NoSocket, Sockets
<1>3. Part(Unheard(u), Unheard(o), Asking)
  BY <1>1, <1>2, PartTail
<1> QED
  BY <1>1, <1>3, PartSame DEF Hushed

\* The answer to a CONNECT: a clean session forgets what it has.
LEMMA ConnackHushes ==
    ASSUME Typed, ConnInv, NEW s \in Sockets, HandleMessage(s), ~c.connected
    PROVE  Hushes
<1>1. PICK u : Opens(u, s)
  BY ConnackOff
<1>2. UNCHANGED <<broker, inQos, arrived>>
  BY <1>1 DEF HandleMessage, Quiet, Opens
<1>3. /\ ObjectOK(u) /\ SettledOK(u) /\ Free(u) # {} /\ u.up = c.up
      /\ s = c.sock /\ u.sock = s /\ c.clean = u.clean
      /\ u.received = (IF c.clean THEN Empty ELSE c.received)
      /\ c.down[s] # <<>> /\ u.down[s] = Tail(c.down[s])
      /\ AreOf(u.queue, {"DISCONNECT"})
      /\ \/ c' = Disconnected(u, TRUE)
         \/ \E q \in Orders(u) : c' = Accepted(u, q)
  BY <1>1 DEF Opens
<1>4. Hushed(u, c) /\ c.clean \in BOOLEAN
  <2>1. ObjectOK(c) /\ c.clean \in BOOLEAN
    BY DEF Typed, TypeInv, ObjectOK
  <2>2. u.up = c.up
    BY <1>1 DEF Opens
  <2>3. Hushed(u, c)
    BY <1>3, <2>1, <2>2, TakenHush
  <2> QED
    BY <2>1, <2>3
<1>5. AreOf(u.queue, Calls)
  BY <1>3 DEF AreOf, Calls
<1>6. Stiller(c', u)
  BY <1>3, <1>5, DisconnectedStill, AcceptedStill
<1>7. Hushed(c', c)
  BY <1>4, <1>6, HushedOn DEF Stiller
<1> QED
  BY <1>2, <1>3, <1>4, <1>6, <1>7 DEF Hushes, Stiller

\* What comes on a connection that is made, taken off it.
LEMMA HeardOff ==
    ASSUME Typed, ConnInv, Tidy, NEW s \in Sockets, HandleMessage(s), c.connected
    PROVE  LET p == Head(c.down[s])
               o == [c EXCEPT !.down[s] = Tail(@)]
           IN  /\ s = c.sock /\ p \in Packets /\ c.down[s] # <<>>
               /\ Made(o, broker.conn) /\ Free(o) # {} /\ Stiller(o, c)
               /\ o.sock = s /\ o.clean = c.clean /\ o.received = c.received
               /\ o.up = c.up /\ o.down[s] = Tail(c.down[s])
               /\ \/ HandlePublish(o, p) \/ HandlePuback(o, p)
                  \/ HandlePubrec(o, p) \/ HandlePubrel(o, p)
                  \/ HandlePubcomp(o, p) \/ HandleRequestAck(o, p)
               /\ UNCHANGED <<broker, inQos>>
<1> DEFINE p == Head(c.down[s])
           o == [c EXCEPT !.down[s] = Tail(@)]
<1>1. /\ s = c.sock /\ p \in Packets /\ Made(o, broker.conn) /\ o.sock = s
      /\ o.clean = c.clean /\ o.up = c.up /\ o.down[s] = Tail(c.down[s])
      /\ \/ HandlePublish(o, p) \/ HandlePuback(o, p)
         \/ HandlePubrec(o, p) \/ HandlePubrel(o, p)
         \/ HandlePubcomp(o, p) \/ HandleRequestAck(o, p)
  BY PacketOff
<1>2. /\ c.down[s] # <<>> /\ Free(c) # {} /\ UNCHANGED <<broker, inQos>>
  BY DEF HandleMessage, Room, Quiet
<1>3. o.received = c.received /\ o.ready = c.ready /\ ObjectOK(c) /\ ObjectOK(o)
  BY <1>1 DEF Typed, TypeInv, ObjectOK, Fields, Made
<1> HIDE DEF o, p
<1>4. Free(o) = Free(c)
  BY <1>1, <1>3 DEF Free
<1>5. Stiller(o, c)
  BY <1>1, <1>2, <1>3, TakenHush DEF Stiller
<1> QED
  BY <1>1, <1>2, <1>3, <1>4, <1>5 DEF o, p

\* A packet on a connection that is made, but for PUBLISH and PUBREL.
LEMMA HeardHushes ==
    ASSUME Typed, Typed', ConnInv, Tidy, NEW s \in Sockets, HandleMessage(s),
           c.connected, Head(c.down[s]).kind \notin {"PUBLISH", "PUBREL"}
    PROVE  Hushes
<1> DEFINE p == Head(c.down[s])
           o == [c EXCEPT !.down[s] = Tail(@)]
<1>1. /\ p \in Packets /\ Made(o, broker.conn) /\ Free(o) # {} /\ Stiller(o, c)
      /\ \/ HandlePublish(o, p) \/ HandlePuback(o, p)
         \/ HandlePubrec(o, p) \/ HandlePubrel(o, p)
         \/ HandlePubcomp(o, p) \/ HandleRequestAck(o, p)
      /\ UNCHANGED <<broker, inQos>> /\ p.kind \notin {"PUBLISH", "PUBREL"}
  BY HeardOff
<1> HIDE DEF o, p
<1>2. ObjectOK(o) /\ ObjectOK(c') /\ p.id \in Nat
  BY <1>1 DEF Made, Typed, TypeInv, Packets
<1>3. ASSUME NEW f, c' = [o EXCEPT !.sent = f]
      PROVE  Stiller(c', o)
  <2>1. /\ c'.up = o.up /\ c'.down = o.down /\ c'.sock = o.sock
        /\ c'.clean = o.clean /\ c'.received = o.received
    BY <1>2, <1>3 DEF ObjectOK, Fields
  <2> QED
    BY <1>2, <2>1, StillerSame
<1>4. Stiller(Disconnected(o, TRUE), o) /\ Stiller(o, o)
  BY <1>1, <1>2, DisconnectedStill, StillerSame
<1>5. Stiller(c', o) /\ NoArrival
  <2>1. CASE HandlePuback(o, p) \/ HandleRequestAck(o, p)
    BY <1>3, <1>4, <2>1 DEF HandlePuback, HandleRequestAck, Forget
  <2>2. CASE HandlePubcomp(o, p)
    BY <1>3, <1>4, <2>2 DEF HandlePubcomp, Forget
  <2>3. CASE HandlePubrec(o, p)
    <3> DEFINE r == [o EXCEPT !.sent[p.id].rec = TRUE]
               e == Control("PUBREL", p.id)
    <3>0. NoArrival
      BY <2>3 DEF HandlePubrec
    <3>1. CASE p.id \notin DOMAIN o.sent
      BY <1>4, <2>3, <3>1 DEF HandlePubrec
    <3>2. CASE p.id \in DOMAIN o.sent
      <4>1. c' = Disconnected(r, TRUE) \/ c' = ScheduleInHandler(r, e)
        BY <2>3, <3>2 DEF HandlePubrec
      <4>2. ObjectOK(r) /\ SameConn(r, o)
        BY <1>2, <3>2, MarkedOK
      <4>3. r.clean = o.clean /\ r.received = o.received
        BY <1>2 DEF ObjectOK, Fields
      <4>4. e \in Packets /\ e.kind \in Calls
        BY <1>2, ControlIs DEF Kinds, Control, Packet, Calls
      <4> HIDE DEF r, e
      <4>5. Made(r, broker.conn)
        BY <1>1, <4>2, SameConnOK DEF Made, SameConn
      <4>6. Free(r) # {} /\ Stiller(r, o)
        BY <1>1, <1>2, <4>2, <4>3, StillerSame DEF SameConn, Free
      <4>7. /\ Stiller(Disconnected(r, TRUE), r)
            /\ Stiller(ScheduleInHandler(r, e), r)
        <5>1. Stiller(Disconnected(r, TRUE), r)
          BY <4>2, <4>6, DisconnectedStill
        <5>2. \A x : x = ScheduleInHandler(r, e) => Stiller(x, r)
          BY <4>4, <4>5, <4>6, SentStill
        <5> QED
          BY <5>1, <5>2
      <4>8. /\ Stiller(Disconnected(r, TRUE), o)
            /\ Stiller(ScheduleInHandler(r, e), o)
        BY <4>6, <4>7, StillerOn
      <4> QED
        BY <3>0, <4>1, <4>8
    <3> QED
      BY <3>1, <3>2
  <2> QED
    BY <1>1, <2>1, <2>2, <2>3 DEF HandlePublish, HandlePubrel
<1>6. Stiller(c', c)
  BY <1>1, <1>5, StillerOn
<1> QED
  BY <1>1, <1>5, <1>6, StillHushes DEF NoArrival

\* The broker sends what is no message, and ends a connection.
LEMMA DeliverStill ==
    ASSUME NEW o, ObjectOK(o), NEW s \in Sockets \union {NoSocket},
           NEW e \in Packets, e.kind \notin Asking
    PROVE  Stiller(Deliver(o, s, <<e>>), o)
<1> DEFINE r == Deliver(o, s, <<e>>)
<1>1. /\ r.sock = o.sock /\ r.up = o.up /\ r.clean = o.clean
      /\ \A x \in Sockets : x # s => r.down[x] = o.down[x]
      /\ s \in Sockets => r.down[s] = o.down[s] \/ r.down[s] = Append(o.down[s], e)
  BY DeliverIs
<1>2. <<e>> \in Seq(Packets)
  OBVIOUS
<1>3. ObjectOK(r) /\ r.received = o.received
  <2>1. ObjectOK(r)
    BY <1>2, DeliverOK
  <2>2. Keeps(r, o)
    BY KeptIn, DeliverKeeps
  <2> QED
    BY <2>1, <2>2 DEF Keeps
<1> HIDE DEF r
<1>4. \/ Unheard(r) = Unheard(o)
      \/ Unheard(r) = Append(Unheard(o), e)
  <2>1. o.sock \in Sockets \union {NoSocket}
    BY DEF ObjectOK
  <2> QED
    BY <1>1, <2>1 DEF Unheard
<1>5. Part(Unheard(r), Unheard(o), Asking)
  BY <1>4, ViewsAre, PartSame, PartPut
<1>6. \A x \in Sockets : o.up[x] \in Seq(Packets)
  BY DEF ObjectOK
<1>7. Hushed(r, o)
  BY <1>1, <1>5, <1>6, PartSame DEF Hushed
<1> QED
  BY <1>1, <1>3, <1>7 DEF Stiller, r

\* A connection the broker closes.
LEMMA DropStill ==
    ASSUME NEW o, ObjectOK(o), NEW s \in Sockets \union {NoSocket}
    PROVE  Stiller(Drop(o, s), o)
<1> DEFINE r == Drop(o, s)
<1>1. /\ r.sock = o.sock /\ r.down = o.down
      /\ \A x \in Sockets : r.up[x] = IF x = s THEN <<>> ELSE o.up[x]
  BY DropIs
<1>2. ObjectOK(r) /\ r.received = o.received /\ r.clean = o.clean
  BY DropOK, DropKeeps, KeptIn DEF Keeps
<1> HIDE DEF r
<1>3. Unheard(r) = Unheard(o)
  BY <1>1 DEF Unheard
<1>4. Part(Unheard(r), Unheard(o), Asking)
  BY <1>3, ViewsAre, PartSame
<1>5. ASSUME NEW x \in Sockets PROVE Part(r.up[x], o.up[x], Replying)
  <2>1. o.up[x] \in Seq(Packets) /\ \A i \in DOMAIN <<>> : FALSE
    BY DEF ObjectOK
  <2> QED
    BY <1>1, <2>1, PartSame, PartNone
<1>6. Hushed(r, o)
  BY <1>4, <1>5 DEF Hushed
<1> QED
  BY <1>2, <1>6 DEF Stiller, r

\* The broker takes a packet off a socket.
LEMMA ReadOff ==
    ASSUME Typed, ConnInv, StreamInv, NEW s \in Sockets, c.up[s] # <<>>,
           NEW o, o = [c EXCEPT !.up[s] = Tail(@)]
    PROVE  /\ Stiller(o, c) /\ o.sock = c.sock /\ o.down = c.down
           /\ Head(c.up[s]) \in Packets
           /\ \A x \in Sockets :
                 o.up[x] = IF x = s THEN Tail(c.up[s]) ELSE c.up[x]
<1>1. /\ ObjectOK(o) /\ o.sock = c.sock /\ o.clean = c.clean /\ o.down = c.down
      /\ Head(c.up[s]) \in Packets
      /\ \A x \in Sockets : o.up[x] = IF x = s THEN Tail(c.up[s]) ELSE c.up[x]
  BY PoppedIs
<1>2. ObjectOK(c) /\ o.received = c.received
  BY DEF Typed, TypeInv, ObjectOK, Fields
<1>3. \A x \in Sockets : c.up[x] \in Seq(Packets)
  BY <1>2 DEF ObjectOK
<1>4. Unheard(o) = Unheard(c)
  BY <1>1 DEF Unheard
<1>5. Part(Unheard(o), Unheard(c), Asking)
  BY <1>2, <1>4, ViewsAre, PartSame
<1>6. \A x \in Sockets : Part(o.up[x], c.up[x], Replying)
  BY <1>1, <1>3, PartSame, PartTail
<1> QED
  BY <1>1, <1>2, <1>5, <1>6 DEF Stiller, Hushed

\* The broker refuses, rejects, or answers what is about the client's messages.
LEMMA ReadHushes ==
    ASSUME Typed, ConnInv, StreamInv, NEW s \in Sockets, BrokerReceive(s),
           NEW p, p = Head(c.up[s]), NEW o, o = [c EXCEPT !.up[s] = Tail(@)],
           \/ BrokerRefuse(o, s) \/ BrokerRejects(o, s)
           \/ /\ BrokerAnswers(o, s, p)
              /\ p.kind \notin {"PUBACK", "PUBREC", "PUBCOMP"}
    PROVE  Hushes
<1>1. Stiller(o, c) /\ ObjectOK(o) /\ p \in Packets
  <2>1. c.up[s] # <<>>
    BY DEF BrokerReceive
  <2> QED
    BY <2>1, ReadOff DEF Stiller
<1>2. p.id \in Nat /\ UNCHANGED <<inQos, arrived>>
  BY <1>1 DEF Packets, BrokerReceive
<1>3. ASSUME NEW kind \in {"REFUSED", "REQUESTACK", "PUBACK", "PUBREC", "PUBCOMP"},
             NEW i \in Nat
      PROVE  Stiller(Deliver(o, s, <<Control(kind, i)>>), c)
  <2> DEFINE e == Control(kind, i)
  <2>1. e \in Packets /\ e.kind = kind
    BY ControlIs DEF Kinds, Control, Packet
  <2> HIDE DEF e
  <2>2. e.kind \notin Asking
    BY <2>1 DEF Asking
  <2>3. Stiller(Deliver(o, s, <<e>>), o)
    BY <1>1, <2>1, <2>2, DeliverStill
  <2> QED
    BY <1>1, <2>3, StillerOn DEF e
<1>4. ASSUME NEW r, Stiller(r, c)
      PROVE  Stiller(Drop(r, s), c)
  BY <1>4, DropStill, StillerOn DEF Stiller
<1>5. broker \in [conn : Sockets \union {NoSocket}, rec : SUBSET Nat,
                  out : Seq(Flights)]
  BY DEF Typed, TypeInv, BrokerOK
<1>6. Stiller(c', c)
  <2>1. CASE BrokerRefuse(o, s)
    <3> DEFINE r == Deliver(o, s, <<Control("REFUSED", 0)>>)
    <3>1. c' = Drop(r, s)
      BY <2>1 DEF BrokerRefuse
    <3>2. Stiller(r, c)
      BY <1>3
    <3> HIDE DEF r
    <3> QED
      BY <1>4, <3>1, <3>2
  <2>2. CASE BrokerRejects(o, s)
    BY <1>1, <1>4, <2>2 DEF BrokerRejects
  <2>3. CASE BrokerAnswers(o, s, p) /\ p.kind \notin {"PUBACK", "PUBREC", "PUBCOMP"}
    <3>1. \/ c' = o \/ c' = Drop(o, s)
          \/ \E kind \in {"REFUSED", "REQUESTACK", "PUBACK", "PUBREC", "PUBCOMP"} :
                c' = Deliver(o, s, <<Control(kind, p.id)>>)
      BY <2>3 DEF BrokerAnswers
    <3> QED
      BY <1>1, <1>2, <1>3, <1>4, <3>1
  <2> QED
    BY <2>1, <2>2, <2>3
<1>7. (broker.out)' = broker.out /\ (broker.conn)' \in {broker.conn, NoSocket}
  <2>1. CASE BrokerRefuse(o, s)
    BY <2>1 DEF BrokerRefuse
  <2>2. CASE BrokerRejects(o, s)
    BY <1>5, <2>2 DEF BrokerRejects
  <2>3. CASE BrokerAnswers(o, s, p) /\ p.kind \notin {"PUBACK", "PUBREC", "PUBCOMP"}
    <3>1. \/ UNCHANGED broker
          \/ \E rec : broker' = [broker EXCEPT !.rec = rec]
          \/ broker' = [broker EXCEPT !.conn = NoSocket]
      BY <2>3 DEF BrokerAnswers
    <3> QED
      BY <1>5, <3>1
  <2> QED
    BY <2>1, <2>2, <2>3
<1> QED
  BY <1>2, <1>6, <1>7 DEF Hushes, Stiller

-----------------------------------------------------------------------------
\* What the broker has in flight, as a map.
Awaits(e) == [kind |-> "PUBLISH", msg |-> e.msg, qos |-> e.qos, rec |-> e.rel]
Separate(out) == \A i, j \in DOMAIN out : out[i].id = out[j].id => i = j

\* The message of each identifier is the one entry that has it.
LEMMA FlyingIs ==
    ASSUME NEW out, Separate(out)
    PROVE  /\ DOMAIN Flying(out) = {out[k].id : k \in DOMAIN out}
           /\ \A k \in DOMAIN out : Flying(out)[out[k].id] = Awaits(out[k])
<1> DEFINE at(i) == CHOOSE k \in DOMAIN out : out[k].id = i
           ids == {out[k].id : k \in DOMAIN out}
<1>1. Flying(out) = [i \in ids |-> Awaits(out[at(i)])]
  BY DEF Flying, Awaits
<1>2. \A k \in DOMAIN out : at(out[k].id) = k /\ out[k].id \in ids
  BY DEF Separate
<1> HIDE DEF at, ids
<1>3. \A k \in DOMAIN out : Flying(out)[out[k].id] = Awaits(out[k])
  BY <1>1, <1>2
<1>4. DOMAIN Flying(out) = ids
  BY <1>1
<1> QED
  BY <1>3, <1>4 DEF ids

\* Nothing in flight is no message.
LEMMA NoneFlying == DOMAIN Flying(<<>>) = {}
<1>1. Separate(<<>>) /\ DOMAIN <<>> = {}
  BY DEF Separate
<1>2. DOMAIN Flying(<<>>) = {<<>>[k].id : k \in DOMAIN <<>>}
  BY <1>1, FlyingIs
<1> QED
  BY <1>1, <1>2

\* Every message in flight is of a place.
LEMMA FlyingAt ==
    ASSUME NEW out, Separate(out), NEW i \in DOMAIN Flying(out)
    PROVE  \E k \in DOMAIN out :
              out[k].id = i /\ Flying(out)[i] = Awaits(out[k])
<1>1. i \in {out[k].id : k \in DOMAIN out}
  BY FlyingIs
<1>2. PICK k \in DOMAIN out : out[k].id = i
  BY <1>1
<1> QED
  BY <1>2, FlyingIs

\* One more message.
LEMMA FlyingMore ==
    ASSUME NEW out \in Seq(Flights), Separate(out), NEW e \in Flights,
           \A k \in DOMAIN out : out[k].id # e.id
    PROVE  LET n == Append(out, e)
           IN  /\ Separate(n)
               /\ DOMAIN Flying(n) = DOMAIN Flying(out) \union {e.id}
               /\ \A i \in DOMAIN Flying(out) : Flying(n)[i] = Flying(out)[i]
               /\ Flying(n)[e.id] = Awaits(e) /\ e.id \notin DOMAIN Flying(out)
<1> DEFINE n == Append(out, e)
<1>1. /\ Len(out) \in Nat /\ DOMAIN out = 1..Len(out)
      /\ DOMAIN n = 1..(Len(out) + 1) /\ n[Len(out) + 1] = e
      /\ \A k \in 1..Len(out) : n[k] = out[k]
  BY SeqIs
<1> HIDE DEF n
<1>2. DOMAIN n = DOMAIN out \union {Len(out) + 1} /\ Len(out) + 1 \notin DOMAIN out
  BY <1>1
<1>3. Separate(n)
  BY <1>1, <1>2 DEF Separate
<1>4. DOMAIN Flying(n) = {n[k].id : k \in DOMAIN n}
  BY <1>3, FlyingIs
<1>5. DOMAIN Flying(out) = {out[k].id : k \in DOMAIN out}
  BY FlyingIs
<1>6. DOMAIN Flying(n) = DOMAIN Flying(out) \union {e.id}
  BY <1>1, <1>2, <1>4, <1>5
<1>7. ASSUME NEW i \in DOMAIN Flying(out) PROVE Flying(n)[i] = Flying(out)[i]
  <2>1. PICK k \in DOMAIN out : out[k].id = i /\ Flying(out)[i] = Awaits(out[k])
    BY FlyingAt
  <2>2. k \in DOMAIN n /\ n[k] = out[k]
    BY <1>1, <1>2
  <2> QED
    BY <1>3, <2>1, <2>2, FlyingIs
<1>8. Flying(n)[e.id] = Awaits(e)
  BY <1>1, <1>2, <1>3, FlyingIs
<1>9. e.id \notin DOMAIN Flying(out)
  BY <1>5
<1> QED
  BY <1>3, <1>6, <1>7, <1>8, <1>9 DEF n

\* One less.
LEMMA FlyingLess ==
    ASSUME Typed, NEW id
    PROVE  LET f == Flying(broker.out)
               g == Flying(InFlight(id))
           IN  /\ DOMAIN g = DOMAIN f \ {id}
               /\ \A i \in DOMAIN g : g[i] = f[i]
<1> DEFINE out == broker.out
           places == {i \in DOMAIN out : out[i].id = id}
           k == CHOOSE i \in places : TRUE
           r == RemoveAt(out, k)
<1>1. OutOK(out) /\ out \in Seq(Flights) /\ Separate(out)
  BY OutOKIs DEF OutOK, Separate
<1>2. CASE places = {}
  <2>1. InFlight(id) = out
    BY <1>2 DEF InFlight
  <2>2. DOMAIN Flying(out) = {out[j].id : j \in DOMAIN out}
    BY <1>1, FlyingIs
  <2>3. id \notin DOMAIN Flying(out)
    BY <1>2, <2>2
  <2> QED
    BY <2>1, <2>3
<1>3. CASE places # {}
  <2>1. k \in DOMAIN out /\ out[k].id = id
    BY <1>3
  <2>2. InFlight(id) = r
    BY <1>3 DEF InFlight
  <2> HIDE DEF k, out
  <2>3. Len(out) \in Nat /\ DOMAIN out = 1..Len(out)
    BY <1>1, SeqIs
  <2>4. /\ r \in Seq(Flights) /\ Len(r) = Len(out) - 1
        /\ \A j \in 1..(Len(out) - 1) :
              r[j] = IF j < k THEN out[j] ELSE out[j + 1]
    BY <1>1, <2>1, <2>3, RemoveAtEntries
  <2> HIDE DEF r
  <2>5. DOMAIN r = 1..(Len(out) - 1)
    BY <2>4, SeqIs
  <2>6. k \in 1..Len(out)
    BY <2>1, <2>3
  <2> DEFINE from(j) == IF j < k THEN j ELSE j + 1
             to(j) == IF j < k THEN j ELSE j - 1
  <2>7. \A j \in DOMAIN r :
           from(j) \in DOMAIN out /\ from(j) # k /\ r[j] = out[from(j)]
    BY <2>3, <2>4, <2>5, <2>6
  <2>8. \A j \in DOMAIN out : j # k => to(j) \in DOMAIN r /\ r[to(j)] = out[j]
    BY <2>3, <2>4, <2>5, <2>6
  <2>9. \A i, j \in DOMAIN r : from(i) = from(j) => i = j
    BY <2>3, <2>5, <2>6
  <2> HIDE DEF from, to
  <2>10. Separate(r)
    BY <1>1, <2>7, <2>9 DEF Separate
  <2>11. DOMAIN Flying(r) = DOMAIN Flying(out) \ {id}
    <3>1. /\ DOMAIN Flying(r) = {r[j].id : j \in DOMAIN r}
          /\ DOMAIN Flying(out) = {out[j].id : j \in DOMAIN out}
      BY <1>1, <2>10, FlyingIs
    <3>2. \A j \in DOMAIN out : out[j].id = id => j = k
      BY <1>1, <2>1 DEF Separate
    <3> QED
      BY <2>1, <2>7, <2>8, <3>1, <3>2
  <2>12. ASSUME NEW i \in DOMAIN Flying(r) PROVE Flying(r)[i] = Flying(out)[i]
    <3>1. PICK j \in DOMAIN r : r[j].id = i /\ Flying(r)[i] = Awaits(r[j])
      BY <2>10, FlyingAt
    <3>2. from(j) \in DOMAIN out /\ r[j] = out[from(j)] /\ out[from(j)].id = i
      BY <2>7, <3>1
    <3>3. Flying(out)[out[from(j)].id] = Awaits(out[from(j)])
      BY <1>1, <3>2, FlyingIs
    <3> QED
      BY <3>1, <3>2, <3>3
  <2> QED
    BY <2>2, <2>11, <2>12 DEF out
<1> QED
  BY <1>2, <1>3

\* One that is released.
Released(n, out, id) ==
    /\ DOMAIN n = DOMAIN out
    /\ \A i \in DOMAIN out :
          n[i] = IF out[i].id = id THEN [out[i] EXCEPT !.rel = TRUE] ELSE out[i]

\* The same of the map: f with the message of an identifier marked.
Marks(h, f, id) ==
    /\ DOMAIN h = DOMAIN f
    /\ \A i \in DOMAIN f :
          h[i] = IF i = id THEN [f[i] EXCEPT !.rec = TRUE] ELSE f[i]

\* What is released is marked in the map.
LEMMA FlyingReleased ==
    ASSUME Typed, NEW id, NEW n, Released(n, broker.out, id)
    PROVE  Marks(Flying(n), Flying(broker.out), id)
<1> DEFINE out == broker.out
<1>1. OutOK(out) /\ out \in Seq(Flights) /\ Separate(out)
  BY OutOKIs DEF OutOK, Separate
<1> HIDE DEF out
<1>2. \A i \in DOMAIN out :
         n[i] = IF out[i].id = id THEN [out[i] EXCEPT !.rel = TRUE] ELSE out[i]
  BY DEF out, Released
<1>3. DOMAIN n = DOMAIN out
  BY DEF out, Released
<1>4. \A i \in DOMAIN out : out[i] \in Flights
  BY <1>1, SeqIs
<1>5. \A i \in DOMAIN out : n[i].id = out[i].id
  BY <1>2, <1>4 DEF Flights
<1>6. \A i \in DOMAIN out :
         Awaits(n[i]) = IF out[i].id = id
                        THEN [Awaits(out[i]) EXCEPT !.rec = TRUE]
                        ELSE Awaits(out[i])
  <2>1. ASSUME NEW i \in DOMAIN out
        PROVE  Awaits(n[i]) = IF out[i].id = id
                              THEN [Awaits(out[i]) EXCEPT !.rec = TRUE]
                              ELSE Awaits(out[i])
    <3>1. CASE out[i].id = id
      <4>1. n[i] = [out[i] EXCEPT !.rel = TRUE]
        BY <1>2, <3>1
      <4> HIDE DEF Awaits
      <4>2. /\ n[i].msg = out[i].msg /\ n[i].qos = out[i].qos
            /\ n[i].rel = TRUE
        BY <1>4, <4>1 DEF Flights
      <4> QED
        BY <3>1, <4>2 DEF Awaits
    <3>2. CASE out[i].id # id
      BY <1>2, <3>2
    <3> QED
      BY <3>1, <3>2
  <2> QED
    BY <2>1
<1>7. Separate(n)
  BY <1>1, <1>3, <1>5 DEF Separate
<1>8. DOMAIN Flying(n) = DOMAIN Flying(out)
  <2>1. /\ DOMAIN Flying(n) = {n[k].id : k \in DOMAIN n}
        /\ DOMAIN Flying(out) = {out[k].id : k \in DOMAIN out}
    BY <1>1, <1>7, FlyingIs
  <2> QED
    BY <1>3, <1>5, <2>1
<1>9. ASSUME NEW i \in DOMAIN Flying(out)
      PROVE  Flying(n)[i] = IF i = id THEN [Flying(out)[i] EXCEPT !.rec = TRUE]
                                      ELSE Flying(out)[i]
  <2>1. PICK k \in DOMAIN out : out[k].id = i /\ Flying(out)[i] = Awaits(out[k])
    BY <1>1, FlyingAt
  <2>2. Flying(n)[i] = Awaits(n[k])
    <3>1. k \in DOMAIN n /\ n[k].id = i
      BY <1>3, <1>5, <2>1
    <3>2. Flying(n)[n[k].id] = Awaits(n[k])
      BY <1>7, <3>1, FlyingIs
    <3> QED
      BY <3>1, <3>2
  <2>3. /\ i = id => Awaits(n[k]) = [Awaits(out[k]) EXCEPT !.rec = TRUE]
        /\ i # id => Awaits(n[k]) = Awaits(out[k])
    BY <1>6, <2>1
  <2> QED
    BY <2>1, <2>2, <2>3
<1> QED
  BY <1>8, <1>9 DEF out, Marks

-----------------------------------------------------------------------------
\* The invariant of what is to come each way, of the two ends and what was
\* handed on; each kind of step keeps it.
Inbound(d, u, g, clean, f, iq, ar) ==
    /\ \A m \in 1..InMsgs : iq[m] = Unsent => ar[m] = 0
    /\ GotOK(g, iq, ar) /\ Coming(d, iq, ar) /\ Repeats(d, g, clean)
    /\ ~clean => LastingOK(d, u, g, f, iq, ar)

\* It is what the invariant says.
LEMMA InboundIs ==
    ASSUME NEW o, NEW conn, NEW out, NEW iq, NEW ar
    PROVE  InboundOK(o, conn, out, iq, ar)
             <=> Inbound(Unheard(o), Unread(o, conn), o.received, o.clean,
                         Flying(out), iq, ar)
BY DEF InboundOK, Inbound

\* A message was handed on, and nothing else happened.
Later(br, ar, m) ==
    br[m] > 0 /\ \A x \in 1..InMsgs : x # m => br[x] = ar[x]

\* The entries behind the first.
LEMMA BehindFirst ==
    ASSUME NEW d \in Seq(Packets), d # <<>>
    PROVE  /\ d[1] = Head(d) /\ 1 \in DOMAIN d
           /\ \A k \in DOMAIN Tail(d) :
                 k + 1 \in DOMAIN d /\ k + 1 # 1 /\ d[k + 1] = Tail(d)[k]
<1>1. /\ Len(d) \in Nat /\ DOMAIN d = 1..Len(d) /\ Len(d) > 0
      /\ Tail(d) \in Seq(Packets) /\ Head(d) = d[1] /\ Len(Tail(d)) = Len(d) - 1
      /\ \A i \in 1..Len(Tail(d)) : Tail(d)[i] = d[i + 1]
  BY SeqIs, TailIs
<1>2. DOMAIN Tail(d) = 1..Len(Tail(d))
  BY <1>1, SeqIs
<1> QED
  BY <1>1, <1>2

\* What is behind a PUBLISH are other messages.
LEMMA OthersCome ==
    ASSUME NEW d \in Seq(Packets), d # <<>>, NEW iq, NEW ar, Coming(d, iq, ar),
           Head(d).kind = "PUBLISH"
    PROVE  \A k \in Carried(Tail(d)) : Tail(d)[k].msg # Head(d).msg
<1>1. 1 \in Carried(d) /\ d[1] = Head(d)
  BY BehindFirst DEF Carried
<1> SUFFICES ASSUME NEW k \in Carried(Tail(d)), Tail(d)[k].msg = Head(d).msg
             PROVE  FALSE
  OBVIOUS
<1>2. k + 1 \in Carried(d) /\ d[k + 1] = Tail(d)[k] /\ k + 1 # 1
  BY BehindFirst DEF Carried
<1> QED
  BY <1>1, <1>2 DEF Coming

\* The client takes the first packet off its socket.
Hearable(p, d, g, clean, iq, ar) ==
    p.kind = "PUBLISH" =>
       /\ p.msg \in 1..InMsgs /\ iq[p.msg] = p.qos
       /\ p.qos # 1 => ar[p.msg] = 0
       /\ \A k \in Carried(d) : d[k].msg # p.msg
       /\ \A i \in DOMAIN g : g[i] = p.msg => ~clean /\ i = p.id

\* A packet that asks for an answer finds its message in flight, and no other
\* packet has its identifier.
Asked(p, d, u, f) ==
    p \in Asks => /\ p.id \in DOMAIN f /\ Fits(p, f[p.id])
                  /\ p.id \notin IdsOf(d, Asks) /\ p.id \notin IdsOf(u, Answers)

\* The first packet is taken off.
LEMMA HearsOne ==
    ASSUME NEW d \in Seq(Packets), d # <<>>, NEW u \in Seq(Packets), NEW g,
           NEW clean, NEW f, NEW iq, NEW ar, Inbound(d, u, g, clean, f, iq, ar)
    PROVE  /\ Inbound(Tail(d), u, g, clean, f, iq, ar)
           /\ Hearable(Head(d), Tail(d), g, clean, iq, ar)
           /\ ~clean => Asked(Head(d), Tail(d), u, f)
<1> DEFINE p == Head(d)
<1>1. Tail(d) \in Seq(Packets)
  BY TailIs
<1>2. Part(Tail(d), d, Asking)
  BY PartTail
<1>3. Coming(Tail(d), iq, ar) /\ Repeats(Tail(d), g, clean)
  BY <1>1, <1>2, PartComing DEF Inbound
<1>4. ASSUME ~clean
      PROVE  /\ LastingOK(Tail(d), u, g, f, iq, ar)
             /\ p \in Asks =>
                 /\ p.id \in DOMAIN f /\ Fits(p, f[p.id])
                 /\ p.id \notin IdsOf(Tail(d), Asks)
                 /\ p.id \notin IdsOf(u, Answers)
  <2>1. TokensOK(d, u, f)
    BY <1>4 DEF Inbound, LastingOK
  <2>2. /\ TokensOK(Tail(d), u, f)
        /\ Head(d) \in Asks =>
                 /\ Head(d).id \in DOMAIN f /\ Fits(Head(d), f[Head(d).id])
                 /\ Head(d).id \notin IdsOf(Tail(d), Asks)
                 /\ Head(d).id \notin IdsOf(u, Answers)
    BY <2>1, AskTaken
  <2> QED
    BY <1>4, <2>2 DEF Inbound, LastingOK
<1>5. ASSUME p.kind = "PUBLISH"
      PROVE  /\ p.msg \in 1..InMsgs /\ iq[p.msg] = p.qos
             /\ p.qos # 1 => ar[p.msg] = 0
             /\ \A k \in Carried(Tail(d)) : Tail(d)[k].msg # p.msg
             /\ \A i \in DOMAIN g : g[i] = p.msg => ~clean /\ i = p.id
  <2>1. 1 \in Carried(d) /\ d[1] = p
    BY <1>5, BehindFirst DEF Carried
  <2>2. Coming(d, iq, ar) /\ Repeats(d, g, clean)
    BY DEF Inbound
  <2>3. \A k \in Carried(Tail(d)) : Tail(d)[k].msg # p.msg
    BY <1>5, <2>2, OthersCome
  <2> QED
    BY <2>1, <2>2, <2>3 DEF Coming, Repeats
<1> QED
  BY <1>3, <1>4, <1>5 DEF Inbound, Hearable, Asked

\* A reply on its way is about a message in flight.
LEMMA SaidIs ==
    ASSUME NEW d, NEW u \in Seq(Packets), NEW f, TokensOK(d, u, f),
           NEW k \in DOMAIN u, u[k].kind \in {"PUBACK", "PUBREC", "PUBCOMP"}
    PROVE  /\ u[k] \in Answers /\ u[k].id \in DOMAIN f
           /\ u[k].id \in IdsOf(u, Answers) /\ Fits(u[k], f[u[k].id])
<1>1. u[k] \in Packets
  BY SeqIs
<1>2. u[k] \in Answers
  BY <1>1 DEF Answers
<1> QED
  BY <1>2 DEF TokensOK, FitAll, IdsOf

\* What was said stays true when more was handed on.
LEMMA SaidAfter ==
    ASSUME NEW d, NEW u \in Seq(Packets), NEW g, NEW h, NEW f, NEW iq,
           NEW ar, NEW br, FlyingOK(f, iq), TokensOK(d, u, f),
           SaidOK(u, g, f, ar), \A x \in 1..InMsgs : ar[x] > 0 => br[x] > 0,
           \A k \in DOMAIN u : u[k].kind = "PUBREC" => u[k].id \in DOMAIN h
    PROVE  SaidOK(u, h, f, br)
<1> SUFFICES ASSUME NEW k \in DOMAIN u, u[k].kind \in {"PUBACK", "PUBCOMP"}
             PROVE  br[f[u[k].id].msg] > 0
  BY DEF SaidOK
<1>1. u[k].id \in DOMAIN f
  BY SaidIs
<1>2. f[u[k].id].msg \in 1..InMsgs
  BY <1>1 DEF FlyingOK
<1> QED
  BY <1>2 DEF SaidOK

\* A message of quality 0 or 1 is handed on.
LEMMA HandsOn ==
    ASSUME NEW d, NEW u \in Seq(Packets), NEW g, NEW clean, NEW f, NEW iq,
           NEW ar, NEW br, Inbound(d, u, g, clean, f, iq, ar),
           NEW m \in 1..InMsgs, iq[m] \in {0, 1}, Later(br, ar, m),
           \A k \in Carried(d) : d[k].msg # m
    PROVE  Inbound(d, u, g, clean, f, iq, br)
<1>1. iq[m] # 2 /\ iq[m] # Unsent /\ \A x \in 1..InMsgs : x = m \/ br[x] = ar[x]
  BY DEF Later, Unsent
<1>2. \A x \in 1..InMsgs : ar[x] > 0 => br[x] > 0
  BY DEF Later
<1>3. GotOK(g, iq, br)
  BY <1>1 DEF Inbound, GotOK
<1>4. Coming(d, iq, br)
  BY <1>1 DEF Inbound, Coming
<1>5. ASSUME ~clean PROVE LastingOK(d, u, g, f, iq, br)
  <2>1. FlyingOK(f, iq) /\ TokensOK(d, u, f) /\ AgreeOK(g, f, ar) /\ SaidOK(u, g, f, ar)
    BY <1>5 DEF Inbound, LastingOK
  <2>2. AgreeOK(g, f, br)
    BY <1>1, <1>2, <2>1 DEF AgreeOK, FlyingOK
  <2>3. SaidOK(u, g, f, br)
    BY <1>2, <2>1, SaidAfter DEF SaidOK
  <2> QED
    BY <2>1, <2>2, <2>3 DEF LastingOK
<1>6. \A x \in 1..InMsgs : iq[x] = Unsent => br[x] = 0
  BY <1>1 DEF Inbound
<1> QED
  BY <1>3, <1>4, <1>5, <1>6 DEF Inbound

\* h is g with message m under id.
Binds(h, g, id, m) ==
    /\ DOMAIN h = DOMAIN g \union {id} /\ h[id] = m
    /\ \A i \in DOMAIN g : i # id => h[i] = g[i]

\* A message of quality 2 is kept until its PUBREL.
LEMMA Receives ==
    ASSUME NEW d, NEW u \in Seq(Packets), NEW g, NEW clean, NEW f, NEW iq,
           NEW ar, Inbound(d, u, g, clean, f, iq, ar),
           NEW m \in 1..InMsgs, iq[m] = 2, ar[m] = 0, NEW id,
           \A k \in Carried(d) : d[k].msg # m,
           \A i \in DOMAIN g : g[i] = m => ~clean /\ i = id,
           ~clean => id \in DOMAIN f /\ f[id].msg = m /\ f[id].qos = 2,
           NEW h, Binds(h, g, id, m)
    PROVE  Inbound(d, u, h, clean, f, iq, ar)
<1>0. /\ DOMAIN h = DOMAIN g \union {id} /\ h[id] = m
      /\ \A i \in DOMAIN g : i # id => h[i] = g[i]
  BY DEF Binds
<1> USE <1>0
<1>1. \A i \in DOMAIN h : i = id \/ (i \in DOMAIN g /\ h[i] = g[i])
  OBVIOUS
<1>2. GotOK(h, iq, ar)
  <2>1. \A i \in DOMAIN h : h[i] \in 1..InMsgs /\ iq[h[i]] = 2 /\ ar[h[i]] = 0
    BY <1>1 DEF Inbound, GotOK
  <2>2. \A i, j \in DOMAIN h : h[i] = h[j] => i = j
    BY <1>1 DEF Inbound, GotOK
  <2> QED
    BY <2>1, <2>2 DEF GotOK
<1>3. Repeats(d, h, clean)
  BY <1>1 DEF Inbound, Repeats
<1>4. ASSUME ~clean PROVE LastingOK(d, u, h, f, iq, ar)
  <2>1. FlyingOK(f, iq) /\ TokensOK(d, u, f) /\ AgreeOK(g, f, ar) /\ SaidOK(u, g, f, ar)
    BY <1>4 DEF Inbound, LastingOK
  <2>2. AgreeOK(h, f, ar)
    <3>1. \A i \in DOMAIN h : i \in DOMAIN f /\ f[i].qos = 2 /\ f[i].msg = h[i]
      BY <1>1, <1>4, <2>1 DEF AgreeOK
    <3> QED
      BY <2>1, <3>1 DEF AgreeOK
  <2>3. SaidOK(u, h, f, ar)
    BY <2>1 DEF SaidOK
  <2> QED
    BY <2>1, <2>2, <2>3 DEF LastingOK
<1> QED
  BY <1>2, <1>3, <1>4 DEF Inbound

\* h is f without id.
Lacks(h, f, id) ==
    /\ DOMAIN h = DOMAIN f \ {id}
    /\ \A i \in DOMAIN h : h[i] = f[i]

\* A PUBREL: the message is handed on if the client has it still.
LEMMA GivesUp ==
    ASSUME NEW d \in Seq(Packets), NEW u \in Seq(Packets), NEW g,
           NEW clean \in BOOLEAN, NEW f, NEW iq, NEW ar, NEW br,
           Inbound(d, u, g, clean, f, iq, ar), NEW id,
           id \in DOMAIN g => Later(br, ar, g[id]),
           id \notin DOMAIN g => br = ar,
           ~clean => /\ id \in DOMAIN f /\ f[id].qos = 2 /\ f[id].rec
                     /\ id \notin IdsOf(d, Asks) /\ id \notin IdsOf(u, Answers),
           NEW h, Lacks(h, g, id)
    PROVE  /\ Inbound(d, u, h, clean, f, iq, br)
           /\ ~clean => br[f[id].msg] > 0
<1>0. DOMAIN h = DOMAIN g \ {id} /\ \A i \in DOMAIN h : h[i] = g[i]
  BY DEF Lacks
<1> USE <1>0
<1>1. GotOK(g, iq, ar) /\ Coming(d, iq, ar) /\ Repeats(d, g, clean)
  BY DEF Inbound
<1>2. \A x \in 1..InMsgs :
         br[x] = ar[x] \/ (id \in DOMAIN g /\ x = g[id] /\ br[x] > 0)
  BY DEF Later
<1>3. \A x \in 1..InMsgs : ar[x] > 0 => br[x] > 0
  BY <1>2
<1>4. id \in DOMAIN g => /\ g[id] \in 1..InMsgs /\ iq[g[id]] = 2
                         /\ br[g[id]] > 0
  BY <1>1 DEF GotOK, Later
<1>5. GotOK(h, iq, br)
  BY <1>1, <1>2 DEF GotOK
<1>6. ASSUME NEW k \in Carried(d), id \in DOMAIN g PROVE d[k].msg # g[id]
  <2>1. SUFFICES ASSUME d[k].msg = g[id] PROVE FALSE
    OBVIOUS
  <2>2. ~clean /\ d[k].id = id
    BY <1>1, <1>6, <2>1 DEF Repeats
  <2>3. k \in DOMAIN d /\ d[k].kind = "PUBLISH" /\ d[k] \in Packets
    BY SeqIs DEF Carried
  <2>4. d[k].qos = 2
    BY <1>1, <1>4, <1>6, <2>1 DEF Coming
  <2>5. d[k] \in Asks
    BY <2>3, <2>4 DEF Asks
  <2>6. d[k].id \in IdsOf(d, Asks)
    BY <2>3, <2>5 DEF IdsOf
  <2> QED
    BY <2>2, <2>6
<1>7. Coming(d, iq, br)
  BY <1>1, <1>2, <1>6 DEF Coming
<1>8. Repeats(d, h, clean)
  BY <1>1 DEF Repeats
<1>9. ASSUME ~clean PROVE LastingOK(d, u, h, f, iq, br) /\ br[f[id].msg] > 0
  <2>1. FlyingOK(f, iq) /\ TokensOK(d, u, f) /\ AgreeOK(g, f, ar) /\ SaidOK(u, g, f, ar)
    BY <1>9 DEF Inbound, LastingOK
  <2>2. id \in DOMAIN f /\ f[id].msg \in 1..InMsgs
    BY <1>9, <2>1 DEF FlyingOK
  <2>3. br[f[id].msg] > 0
    <3>1. CASE id \in DOMAIN g
      BY <1>4, <2>1, <3>1 DEF AgreeOK
    <3>2. CASE id \notin DOMAIN g
      <4>1. ar[f[id].msg] > 0
        BY <1>9, <2>1, <2>2, <3>2 DEF AgreeOK
      <4> QED
        BY <1>3, <2>2, <4>1
    <3> QED
      BY <3>1, <3>2
  <2>4. AgreeOK(h, f, br)
    <3>1. \A i \in DOMAIN h : i \in DOMAIN f /\ f[i].qos = 2 /\ f[i].msg = h[i]
      BY <2>1 DEF AgreeOK
    <3>2. ASSUME NEW i \in DOMAIN f, f[i].qos = 2
          PROVE  IF f[i].rec THEN i \in DOMAIN h \/ br[f[i].msg] > 0
                             ELSE br[f[i].msg] = 0
      <4>1. f[i].msg \in 1..InMsgs
        BY <2>1 DEF FlyingOK
      <4>2. CASE i = id
        BY <1>9, <2>3, <4>2
      <4>3. CASE i # id
        <5>1. id \in DOMAIN g => f[i].msg # g[id]
          BY <2>1, <2>2, <4>3 DEF AgreeOK, FlyingOK
        <5>2. br[f[i].msg] = ar[f[i].msg]
          BY <1>2, <4>1, <5>1
        <5> QED
          BY <2>1, <3>2, <4>3, <5>2 DEF AgreeOK
      <4> QED
        BY <4>2, <4>3
    <3> QED
      BY <3>1, <3>2 DEF AgreeOK
  <2>5. SaidOK(u, h, f, br)
    <3>1. ASSUME NEW k \in DOMAIN u, u[k].kind = "PUBREC"
          PROVE  u[k].id \in DOMAIN h
      <4>1. u[k].id \in IdsOf(u, Answers)
        BY <2>1, <3>1, SaidIs
      <4> QED
        BY <1>9, <2>1, <3>1, <4>1 DEF SaidOK
    <3> QED
      BY <1>3, <2>1, <3>1, SaidAfter
  <2> QED
    BY <2>1, <2>3, <2>4, <2>5 DEF LastingOK
<1>10. \A x \in 1..InMsgs : iq[x] = Unsent => br[x] = 0
  BY <1>2, <1>4 DEF Inbound, Unsent
<1> QED
  BY <1>5, <1>7, <1>8, <1>9, <1>10 DEF Inbound

\* The client replies.
LEMMA Says ==
    ASSUME NEW d, NEW u \in Seq(Packets), NEW g, NEW clean, NEW f, NEW iq,
           NEW ar, Inbound(d, u, g, clean, f, iq, ar), NEW e \in Packets,
           ~clean => /\ Joins(e, d, u, f, Answers)
                     /\ e.kind \in {"PUBACK", "PUBCOMP"} => ar[f[e.id].msg] > 0
                     /\ e.kind = "PUBREC" => e.id \in DOMAIN g
    PROVE  Inbound(d, Append(u, e), g, clean, f, iq, ar)
<1> DEFINE v == Append(u, e)
<1>1. ASSUME ~clean PROVE LastingOK(d, v, g, f, iq, ar)
  <2>1. TokensOK(d, u, f) /\ SaidOK(u, g, f, ar)
    BY <1>1 DEF Inbound, LastingOK
  <2>2. TokensOK(d, v, f)
    BY <1>1, <2>1, AnswerPut
  <2>3. /\ DOMAIN u = 1..Len(u) /\ Len(u) \in Nat
        /\ DOMAIN v = 1..(Len(u) + 1) /\ v[Len(u) + 1] = e
        /\ \A k \in 1..Len(u) : v[k] = u[k]
    BY SeqIs
  <2> HIDE DEF v
  <2>4. \A k \in DOMAIN v : (k \in DOMAIN u /\ v[k] = u[k]) \/ v[k] = e
    BY <2>3
  <2>5. SaidOK(v, g, f, ar)
    BY <1>1, <2>1, <2>4 DEF SaidOK
  <2> QED
    BY <1>1, <2>2, <2>5 DEF Inbound, LastingOK
<1> QED
  BY <1>1 DEF Inbound, v

\* The broker reads PUBACK or PUBCOMP, and forgets the message.
LEMMA Forgets ==
    ASSUME NEW d, NEW u \in Seq(Packets), u # <<>>, NEW g, NEW clean, NEW f,
           NEW iq, NEW ar, Inbound(d, u, g, clean, f, iq, ar),
           NEW p, p = Head(u), p.kind \in {"PUBACK", "PUBCOMP"},
           NEW h, Lacks(h, f, p.id)
    PROVE  /\ Inbound(d, Tail(u), g, clean, h, iq, ar)
           /\ ~clean => p.id \in DOMAIN f /\ ar[f[p.id].msg] > 0
<1>0. DOMAIN h = DOMAIN f \ {p.id} /\ \A i \in DOMAIN h : h[i] = f[i]
  BY DEF Lacks
<1>1. ASSUME ~clean
      PROVE  /\ LastingOK(d, Tail(u), g, h, iq, ar)
             /\ p.id \in DOMAIN f /\ ar[f[p.id].msg] > 0
  <2>1. FlyingOK(f, iq) /\ TokensOK(d, u, f) /\ AgreeOK(g, f, ar) /\ SaidOK(u, g, f, ar)
    BY <1>1 DEF Inbound, LastingOK
  <2>2. 1 \in DOMAIN u /\ u[1] = p
    BY BehindFirst
  <2>3. p \in Answers /\ p.id \in DOMAIN f /\ Fits(p, f[p.id])
    <3>1. u[1].kind \in {"PUBACK", "PUBREC", "PUBCOMP"}
      BY <2>2
    <3>2. u[1] \in Answers /\ u[1].id \in DOMAIN f /\ Fits(u[1], f[u[1].id])
      BY <2>1, <2>2, <3>1, SaidIs
    <3> QED
      BY <2>2, <3>2
  <2>4. ar[f[p.id].msg] > 0
    BY <2>1, <2>2 DEF SaidOK
  <2>5. /\ TokensOK(d, Tail(u), f) /\ p.id \notin IdsOf(Tail(u), Answers)
        /\ p.id \notin IdsOf(d, Asks)
    BY <2>1, <2>3, AnswerTaken
  <2>6. TokensOK(d, Tail(u), h)
    BY <1>0, <2>5, OthersChange
  <2>7. p.id \notin DOMAIN g
    <3>1. SUFFICES ASSUME p.id \in DOMAIN g PROVE FALSE
      OBVIOUS
    <3>2. f[p.id].qos = 2 /\ f[p.id].msg = g[p.id] /\ ar[g[p.id]] = 0
      BY <2>1, <3>1 DEF AgreeOK, Inbound, GotOK
    <3> QED
      BY <2>4, <3>2
  <2>8. FlyingOK(h, iq) /\ AgreeOK(g, h, ar)
    BY <1>0, <2>1, <2>7 DEF FlyingOK, AgreeOK
  <2>9. SaidOK(Tail(u), g, h, ar)
    <3>1. SaidOK(Tail(u), g, f, ar)
      BY <2>1, BehindFirst DEF SaidOK
    <3>2. Tail(u) \in Seq(Packets)
      BY TailIs
    <3>3. ASSUME NEW k \in DOMAIN Tail(u), Tail(u)[k].kind \in {"PUBACK", "PUBCOMP"}
          PROVE  ar[h[Tail(u)[k].id].msg] > 0
      <4>1. Tail(u)[k].id \in DOMAIN f /\ Tail(u)[k].id # p.id
        BY <2>5, <3>2, <3>3, SaidIs
      <4> QED
        BY <1>0, <3>1, <3>3, <4>1 DEF SaidOK
    <3> QED
      BY <3>1, <3>3 DEF SaidOK
  <2> QED
    BY <2>3, <2>4, <2>6, <2>8, <2>9 DEF LastingOK
<1> QED
  BY <1>1 DEF Inbound

\* More packets come, none of which is a PUBLISH.
LEMMA NoneComes ==
    ASSUME NEW d \in Seq(Packets), NEW e \in Packets, e.kind # "PUBLISH",
           NEW iq, NEW ar, Coming(d, iq, ar), NEW g, NEW clean,
           Repeats(d, g, clean)
    PROVE  Coming(Append(d, e), iq, ar) /\ Repeats(Append(d, e), g, clean)
<1> DEFINE n == Append(d, e)
<1>1. /\ DOMAIN d = 1..Len(d) /\ Len(d) \in Nat
      /\ DOMAIN n = 1..(Len(d) + 1) /\ n[Len(d) + 1] = e
      /\ \A k \in 1..Len(d) : n[k] = d[k]
  BY SeqIs
<1> HIDE DEF n
<1>2. \A k \in Carried(n) : k \in Carried(d) /\ n[k] = d[k]
  BY <1>1 DEF Carried
<1> QED
  BY <1>2 DEF Coming, Repeats, n

\* f is of messages in flight.
AllAwait(f) == \A i \in DOMAIN f : \E e : f[i] = Awaits(e)

\* The broker reads PUBREC: the message is on its way no more, its PUBREL is.
LEMMA Frees ==
    ASSUME NEW d \in Seq(Packets), NEW u \in Seq(Packets), u # <<>>, NEW g,
           NEW clean, NEW f, NEW iq, NEW ar, Inbound(d, u, g, clean, f, iq, ar),
           NEW p, p = Head(u), p.kind = "PUBREC",
           NEW h, Marks(h, f, p.id), AllAwait(f),
           NEW n, n = d \/ n = Append(d, Control("PUBREL", p.id))
    PROVE  Inbound(n, Tail(u), g, clean, h, iq, ar)
<1>0. /\ DOMAIN h = DOMAIN f
      /\ \A i \in DOMAIN h :
            h[i] = IF i = p.id THEN [f[i] EXCEPT !.rec = TRUE] ELSE f[i]
      /\ \A i \in DOMAIN f : \E x : f[i] = Awaits(x)
  BY DEF Marks, AllAwait
<1> DEFINE e == Control("PUBREL", p.id)
<1>1. p \in Packets /\ p.id \in Nat
  <2>1. p \in Packets
    BY TailIs
  <2> QED
    BY <2>1 DEF Packets
<1>2. e \in Packets /\ e.kind = "PUBREL" /\ e.id = p.id
  BY <1>1, ControlIs DEF Kinds, Control, Packet
<1> HIDE DEF e
<1>3. Coming(n, iq, ar) /\ Repeats(n, g, clean)
  <2>1. Coming(d, iq, ar) /\ Repeats(d, g, clean)
    BY DEF Inbound
  <2>2. Coming(Append(d, e), iq, ar) /\ Repeats(Append(d, e), g, clean)
    BY <1>2, <2>1, NoneComes
  <2> QED
    BY <2>1, <2>2 DEF e
<1>4. ASSUME ~clean PROVE LastingOK(n, Tail(u), g, h, iq, ar)
  <2>1. FlyingOK(f, iq) /\ TokensOK(d, u, f) /\ AgreeOK(g, f, ar) /\ SaidOK(u, g, f, ar)
    BY <1>4 DEF Inbound, LastingOK
  <2>2. 1 \in DOMAIN u /\ u[1] = p
    BY BehindFirst
  <2>3. p \in Answers /\ p.id \in DOMAIN f /\ Fits(p, f[p.id])
    <3>1. u[1].kind \in {"PUBACK", "PUBREC", "PUBCOMP"}
      BY <2>2
    <3>2. u[1] \in Answers /\ u[1].id \in DOMAIN f /\ Fits(u[1], f[u[1].id])
      BY <2>1, <2>2, <3>1, SaidIs
    <3> QED
      BY <2>2, <3>2
  <2>4. p.id \in DOMAIN g
    BY <2>1, <2>2 DEF SaidOK
  <2>5. /\ TokensOK(d, Tail(u), f) /\ p.id \notin IdsOf(Tail(u), Answers)
        /\ p.id \notin IdsOf(d, Asks)
    BY <2>1, <2>3, AnswerTaken
  <2>6. TokensOK(d, Tail(u), h)
    BY <1>0, <2>5, OthersChange
  <2>7. \A i \in DOMAIN f :
           /\ h[i].kind = f[i].kind /\ h[i].msg = f[i].msg /\ h[i].qos = f[i].qos
           /\ (i # p.id => h[i].rec = f[i].rec) /\ (i = p.id => h[i].rec)
    <3>1. ASSUME NEW i \in DOMAIN f
          PROVE  /\ h[i].kind = f[i].kind /\ h[i].msg = f[i].msg
                 /\ h[i].qos = f[i].qos
                 /\ (i # p.id => h[i].rec = f[i].rec) /\ (i = p.id => h[i].rec)
      <4>1. PICK x : f[i] = Awaits(x)
        BY <1>0
      <4> QED
        BY <1>0, <4>1 DEF Awaits
    <3> QED
      BY <3>1
  <2>8. f[p.id].qos = 2 /\ f[p.id].kind # "REQUEST"
    BY <2>3 DEF Fits
  <2>9. FlyingOK(h, iq)
    BY <1>0, <2>1, <2>7, <2>8 DEF FlyingOK
  <2>10. AgreeOK(g, h, ar)
    BY <1>0, <2>1, <2>4, <2>7 DEF AgreeOK
  <2>11. SaidOK(Tail(u), g, h, ar)
    <3>1. SaidOK(Tail(u), g, f, ar)
      BY <2>1, BehindFirst DEF SaidOK
    <3>2. Tail(u) \in Seq(Packets)
      BY TailIs
    <3>3. ASSUME NEW k \in DOMAIN Tail(u), Tail(u)[k].kind \in {"PUBACK", "PUBCOMP"}
          PROVE  ar[h[Tail(u)[k].id].msg] > 0
      <4>1. Tail(u)[k].id \in DOMAIN f
        BY <2>5, <3>2, <3>3, SaidIs
      <4> QED
        BY <2>7, <3>1, <3>3, <4>1 DEF SaidOK
    <3> QED
      BY <3>1, <3>3 DEF SaidOK
  <2>12. Fits(e, h[p.id])
    BY <1>2, <2>3, <2>7, <2>8 DEF Fits
  <2>13. TokensOK(Append(d, e), Tail(u), h)
    BY <1>0, <1>2, <2>3, <2>5, <2>6, <2>12, AskPut DEF Joins
  <2> QED
    BY <2>6, <2>9, <2>10, <2>11, <2>13 DEF LastingOK, e
<1> QED
  BY <1>3, <1>4 DEF Inbound

\* h is f with the message of p, if that awaits an answer.
Adds(p, f, h) ==
    /\ p.qos = 0 => h = f
    /\ p.qos # 0 =>
          /\ p.id \notin DOMAIN f /\ p.id \in 1..InMsgs
          /\ DOMAIN h = DOMAIN f \union {p.id}
          /\ \A i \in DOMAIN f : h[i] = f[i]
          /\ h[p.id].kind = "PUBLISH" /\ h[p.id].msg = p.msg
          /\ h[p.id].qos = p.qos /\ h[p.id].rec = FALSE

\* The message of a packet is sent now, with the packet's quality.
Given(p, iq, jq) ==
    /\ p.msg \in 1..InMsgs /\ iq[p.msg] = Unsent /\ jq[p.msg] = p.qos
    /\ \A x \in 1..InMsgs : x # p.msg => jq[x] = iq[x]

\* The broker has a new message, and its packet may go out.
LEMMA Announces ==
    ASSUME NEW d \in Seq(Packets), NEW u \in Seq(Packets), NEW g,
           NEW clean, NEW f, NEW ar, NEW iq,
           Inbound(d, u, g, clean, f, iq, ar),
           NEW p \in Packets, p.kind = "PUBLISH", NEW h, Adds(p, f, h),
           NEW jq, Given(p, iq, jq), NEW n, n = d \/ n = Append(d, p)
    PROVE  Inbound(n, u, g, clean, h, jq, ar)
<1> DEFINE m == p.msg
           q == p.qos
<1>0. /\ m \in 1..InMsgs /\ q \in 0..2 /\ p.msg = m /\ p.qos = q
      /\ iq[m] = Unsent
  BY DEF Packets, Given
<1>1. /\ jq[m] = q /\ q # Unsent
      /\ \A x \in 1..InMsgs : x # m => jq[x] = iq[x]
  BY <1>0 DEF Unsent, Given
<1>15. /\ q = 0 => h = f
       /\ q # 0 =>
             /\ p.id \notin DOMAIN f /\ p.id \in 1..InMsgs
             /\ DOMAIN h = DOMAIN f \union {p.id}
             /\ \A i \in DOMAIN f : h[i] = f[i]
             /\ h[p.id].kind = "PUBLISH" /\ h[p.id].msg = m
             /\ h[p.id].qos = q /\ h[p.id].rec = FALSE
  BY DEF Adds
<1> HIDE DEF m, q
<1>2. ar[m] = 0 /\ \A x \in 1..InMsgs : jq[x] = Unsent => ar[x] = 0
  BY <1>0, <1>1 DEF Inbound
<1>3. GotOK(g, iq, ar) /\ Coming(d, iq, ar) /\ Repeats(d, g, clean)
  BY DEF Inbound
<1>4. \A i \in DOMAIN g : g[i] # m
  BY <1>0, <1>3 DEF GotOK, Unsent
<1>5. GotOK(g, jq, ar)
  BY <1>1, <1>3, <1>4 DEF GotOK
<1>6. \A k \in Carried(d) : d[k].msg # m
  <2>1. ASSUME NEW k \in Carried(d) PROVE d[k].qos \in 0..2
    <3>1. d[k] \in Packets
      BY SeqIs DEF Carried
    <3> QED
      BY <3>1 DEF Packets
  <2> QED
    BY <1>0, <1>3, <2>1 DEF Coming, Unsent
<1>7. Coming(d, jq, ar)
  BY <1>1, <1>3, <1>6 DEF Coming
<1>8. Coming(n, jq, ar) /\ Repeats(n, g, clean)
  <2>1. CASE n = d
    BY <1>3, <1>7, <2>1
  <2>2. CASE n = Append(d, p)
    <3>1. /\ DOMAIN d = 1..Len(d) /\ Len(d) \in Nat
          /\ DOMAIN n = 1..(Len(d) + 1) /\ n[Len(d) + 1] = p
          /\ \A k \in 1..Len(d) : n[k] = d[k]
      BY <2>2, SeqIs
    <3>2. \A k \in Carried(n) :
             \/ k \in Carried(d) /\ n[k] = d[k] /\ n[k].msg # m
             \/ k = Len(d) + 1 /\ n[k] = p
      BY <1>6, <3>1 DEF Carried
    <3>3. /\ \A k \in Carried(n) :
                /\ n[k].msg \in 1..InMsgs /\ jq[n[k].msg] = n[k].qos
                /\ n[k].qos # 1 => ar[n[k].msg] = 0
      BY <1>0, <1>1, <1>2, <1>7, <3>2 DEF Coming
    <3>4. \A k, l \in Carried(n) : n[k].msg = n[l].msg => k = l
      BY <1>0, <1>7, <3>2 DEF Coming
    <3>5. Repeats(n, g, clean)
      BY <1>0, <1>3, <1>4, <3>2 DEF Repeats
    <3> QED
      BY <3>3, <3>4, <3>5 DEF Coming
  <2> QED
    BY <2>1, <2>2
<1>9. ASSUME ~clean PROVE LastingOK(n, u, g, h, jq, ar)
  <2>1. FlyingOK(f, iq) /\ TokensOK(d, u, f) /\ AgreeOK(g, f, ar) /\ SaidOK(u, g, f, ar)
    BY <1>9 DEF Inbound, LastingOK
  <2>2. \A i \in DOMAIN f : f[i].msg \in 1..InMsgs /\ f[i].msg # m
    BY <1>0, <2>1 DEF FlyingOK, Unsent
  <2>3. FlyingOK(f, jq)
    BY <1>1, <2>1, <2>2 DEF FlyingOK
  <2>4. CASE q = 0
    <3>1. TokensOK(n, u, f)
      <4>1. Joins(p, d, u, f, Asks)
        BY <1>0, <2>4 DEF Joins, Asks
      <4> QED
        BY <2>1, <4>1, AskPut
    <3> QED
      BY <1>15, <2>1, <2>3, <2>4, <3>1 DEF LastingOK
  <2>5. CASE q # 0
    <3>1. /\ p.id \notin DOMAIN f /\ p.id \in 1..InMsgs
          /\ DOMAIN h = DOMAIN f \union {p.id}
          /\ \A i \in DOMAIN f : h[i] = f[i]
          /\ h[p.id].kind = "PUBLISH" /\ h[p.id].msg = m /\ h[p.id].qos = q
          /\ h[p.id].rec = FALSE
      BY <1>15, <2>5
    <3>2. IdsOf(d, Asks) \subseteq DOMAIN f /\ IdsOf(u, Answers) \subseteq DOMAIN f
      BY <2>1, IdsKnown
    <3>3. TokensOK(d, u, h)
      BY <2>1, <3>1, OthersChange
    <3>4. Joins(p, d, u, h, Asks)
      BY <1>0, <3>1, <3>2 DEF Joins, Fits
    <3>5. TokensOK(n, u, h)
      BY <3>3, <3>4, AskPut
    <3>6. FlyingOK(h, jq)
      <4>1. \A i \in DOMAIN h :
             /\ i \in 1..InMsgs /\ h[i].kind = "PUBLISH"
             /\ h[i].msg \in 1..InMsgs /\ h[i].qos \in {1, 2}
             /\ jq[h[i].msg] = h[i].qos /\ (h[i].rec => h[i].qos = 2)
        BY <1>0, <1>1, <2>3, <2>5, <3>1 DEF FlyingOK
      <4>2. \A i, j \in DOMAIN h : h[i].msg = h[j].msg => i = j
        BY <2>2, <2>3, <3>1 DEF FlyingOK
      <4> QED
        BY <4>1, <4>2 DEF FlyingOK
    <3>7. AgreeOK(g, h, ar)
      BY <1>2, <2>1, <3>1 DEF AgreeOK
    <3>8. SaidOK(u, g, h, ar)
      <4>1. ASSUME NEW k \in DOMAIN u, u[k].kind \in {"PUBACK", "PUBCOMP"}
            PROVE  ar[h[u[k].id].msg] > 0
        <5>1. u[k].id \in DOMAIN f
          BY <2>1, <4>1, SaidIs
        <5> QED
          BY <2>1, <3>1, <4>1, <5>1 DEF SaidOK
      <4> QED
        BY <2>1, <4>1 DEF SaidOK
    <3> QED
      BY <3>5, <3>6, <3>7, <3>8 DEF LastingOK
  <2> QED
    BY <2>4, <2>5
<1> QED
  BY <1>2, <1>5, <1>8, <1>9 DEF Inbound

\* What the broker sends behind a CONNACK: all it has in flight.
Again(ps, out) ==
    /\ ps \in Seq(Packets) /\ DOMAIN ps = 1..(Len(out) + 1)
    /\ ps[1].kind = "CONNACK"
    /\ \A k \in 1..Len(out) : ps[k + 1] = Redelivery(out[k])

\* It is what the broker sends.
LEMMA AgainIs ==
    ASSUME NEW out \in Seq(Flights)
    PROVE  Again(<<Control("CONNACK", 0)>>
                    \o [i \in DOMAIN out |-> Redelivery(out[i])], out)
<1> DEFINE e == Control("CONNACK", 0)
           f == [i \in DOMAIN out |-> Redelivery(out[i])]
           ps == <<e>> \o f
<1>1. f \in Seq(Packets)
  BY RedeliveryIs
<1>2. Len(out) \in Nat /\ DOMAIN out = 1..Len(out)
  BY SeqIs
<1>3. Len(f) = Len(out) /\ \A k \in 1..Len(out) : f[k] = Redelivery(out[k])
  BY <1>1, <1>2
<1>4. e \in Packets /\ e.kind = "CONNACK"
  BY ControlIs DEF Kinds, Control, Packet
<1> HIDE DEF e, f
<1>5. <<e>> \in Seq(Packets) /\ Len(<<e>>) = 1 /\ <<e>>[1] = e
  BY <1>4
<1>6. /\ ps \in Seq(Packets) /\ Len(ps) = 1 + Len(f)
      /\ ps[1] = <<e>>[1] /\ \A k \in 1..Len(f) : ps[1 + k] = f[k]
  BY <1>1, <1>5, ConcatIs
<1> HIDE DEF ps
<1>7. /\ DOMAIN ps = 1..(Len(out) + 1)
      /\ \A k \in 1..Len(out) : ps[k + 1] = Redelivery(out[k])
  BY <1>2, <1>3, <1>6, SeqIs
<1>8. Again(ps, out)
  BY <1>4, <1>5, <1>6, <1>7 DEF Again
<1> QED
  BY <1>8 DEF ps, e, f

\* In a clean session there is no message among it.
LEMMA NothingAgain ==
    ASSUME NEW ps, Again(ps, <<>>)
    PROVE  Carried(ps) = {}
<1>1. DOMAIN ps = {1} /\ ps[1].kind = "CONNACK"
  BY DEF Again
<1> QED
  BY <1>1 DEF Carried

\* In a session that lasts it is what the client can be sent.
LEMMA AgainComes ==
    ASSUME NEW out \in Seq(Flights), Separate(out), NEW ps, Again(ps, out),
           NEW g, NEW iq, NEW ar, FlyingOK(Flying(out), iq),
           AgreeOK(g, Flying(out), ar)
    PROVE  /\ TokensOK(ps, <<>>, Flying(out))
           /\ Coming(ps, iq, ar) /\ Repeats(ps, g, FALSE)
<1> DEFINE f == Flying(out)
<1>1. Len(out) \in Nat /\ DOMAIN out = 1..Len(out)
  BY SeqIs
<1>2. \A k \in DOMAIN out : out[k].id \in DOMAIN f /\ f[out[k].id] = Awaits(out[k])
  BY FlyingIs
<1> HIDE DEF f
<1>3. ASSUME NEW k \in DOMAIN ps, ps[k].kind # "CONNACK"
      PROVE  /\ k - 1 \in DOMAIN out /\ ps[k] = Redelivery(out[k - 1])
             /\ (k - 1) + 1 = k
  BY <1>1, <1>3 DEF Again
<1>4. ASSUME NEW e \in Flights
      PROVE  /\ Redelivery(e).id = e.id
             /\ Redelivery(e).kind = (IF e.rel THEN "PUBREL" ELSE "PUBLISH")
             /\ ~e.rel => Redelivery(e).msg = e.msg /\ Redelivery(e).qos = e.qos
  BY DEF Redelivery, Control, Packet, Flights
<1>5. ASSUME NEW k \in DOMAIN ps, ps[k].kind # "CONNACK"
      PROVE  /\ k - 1 \in DOMAIN out /\ k - 1 + 1 = k
             /\ ps[k].id = out[k - 1].id /\ ps[k].id \in DOMAIN f
             /\ f[ps[k].id].msg = out[k - 1].msg
             /\ f[ps[k].id].kind = "PUBLISH"
             /\ ps[k].kind = "PUBREL" => f[ps[k].id].rec
             /\ ps[k].kind = "PUBLISH" =>
                   /\ ~f[ps[k].id].rec /\ f[ps[k].id].msg = ps[k].msg
                   /\ f[ps[k].id].qos = ps[k].qos
  <2>1. k - 1 \in DOMAIN out /\ ps[k] = Redelivery(out[k - 1]) /\ k - 1 + 1 = k
    BY <1>3, <1>5
  <2>2. out[k - 1] \in Flights
    BY <1>1, <2>1, SeqIs
  <2>3. /\ ps[k].id = out[k - 1].id
        /\ ps[k].kind = (IF out[k - 1].rel THEN "PUBREL" ELSE "PUBLISH")
        /\ ~out[k - 1].rel => /\ ps[k].msg = out[k - 1].msg
                              /\ ps[k].qos = out[k - 1].qos
    BY <1>4, <2>1, <2>2
  <2>4. ps[k].id \in DOMAIN f /\ f[ps[k].id] = Awaits(out[k - 1])
    BY <1>2, <2>1, <2>3
  <2> QED
    BY <2>1, <2>3, <2>4 DEF Awaits
<1>6. \A k, l \in DOMAIN ps :
         ps[k].kind # "CONNACK" /\ ps[l].kind # "CONNACK" /\ ps[k].id = ps[l].id
            => k = l
  <2>1. SUFFICES ASSUME NEW k \in DOMAIN ps, NEW l \in DOMAIN ps,
                        ps[k].kind # "CONNACK", ps[l].kind # "CONNACK",
                        ps[k].id = ps[l].id
                 PROVE  k = l
    OBVIOUS
  <2>2. /\ k - 1 \in DOMAIN out /\ l - 1 \in DOMAIN out
        /\ out[k - 1].id = out[l - 1].id /\ k - 1 + 1 = k /\ l - 1 + 1 = l
    BY <1>5, <2>1
  <2>3. k - 1 = l - 1
    BY <2>2 DEF Separate
  <2> QED
    BY <2>2, <2>3
<1>7. \A p \in Asks : p.kind # "CONNACK"
  BY DEF Asks
<1>8. FlyingOK(f, iq) /\ AgreeOK(g, f, ar)
  BY DEF f
<1>9. TokensOK(ps, <<>>, f)
  <2>1. Lone(ps, Asks)
    BY <1>6, <1>7 DEF Lone
  <2>2. FitAll(ps, Asks, f)
    <3>1. ASSUME NEW k \in DOMAIN ps, ps[k] \in Asks
          PROVE  ps[k].id \in DOMAIN f /\ Fits(ps[k], f[ps[k].id])
      <4>1. ps[k].kind \in {"PUBLISH", "PUBREL"}
        <5>1. ps[k].kind # "CONNACK"
          BY <1>7, <3>1
        <5>2. k - 1 \in DOMAIN out /\ ps[k] = Redelivery(out[k - 1])
          BY <1>3, <5>1
        <5>3. out[k - 1] \in Flights
          BY <1>1, <5>2, SeqIs
        <5> QED
          BY <1>4, <5>2, <5>3
      <4>2. /\ ps[k].id \in DOMAIN f /\ f[ps[k].id].kind = "PUBLISH"
            /\ ps[k].kind = "PUBREL" => f[ps[k].id].rec
            /\ ps[k].kind = "PUBLISH" =>
                   /\ ~f[ps[k].id].rec /\ f[ps[k].id].msg = ps[k].msg
                   /\ f[ps[k].id].qos = ps[k].qos
        BY <1>5, <4>1
      <4>3. f[ps[k].id].rec => f[ps[k].id].qos = 2
        BY <1>8, <4>2 DEF FlyingOK
      <4> QED
        BY <4>1, <4>2, <4>3 DEF Fits
    <3> QED
      BY <3>1 DEF FitAll
  <2>3. Lone(<<>>, Answers) /\ FitAll(<<>>, Answers, f) /\ IdsOf(<<>>, Answers) = {}
    <3>1. \A i \in DOMAIN <<>> : <<>>[i] \notin Answers
      OBVIOUS
    <3> QED
      BY <3>1, NoneThere
  <2> QED
    BY <2>1, <2>2, <2>3 DEF TokensOK
<1>10. ASSUME NEW k \in Carried(ps)
       PROVE  /\ ps[k].id \in DOMAIN f /\ f[ps[k].id].msg = ps[k].msg
              /\ ~f[ps[k].id].rec /\ f[ps[k].id].qos = ps[k].qos
  BY <1>5 DEF Carried
<1>11. Coming(ps, iq, ar)
  <2>1. \A k \in Carried(ps) :
           /\ ps[k].msg \in 1..InMsgs /\ iq[ps[k].msg] = ps[k].qos
           /\ ps[k].qos # 1 => ar[ps[k].msg] = 0
    <3>1. ASSUME NEW k \in Carried(ps)
          PROVE  /\ ps[k].msg \in 1..InMsgs /\ iq[ps[k].msg] = ps[k].qos
                 /\ ps[k].qos # 1 => ar[ps[k].msg] = 0
      <4>1. f[ps[k].id].qos \in {1, 2}
        BY <1>8, <1>10 DEF FlyingOK
      <4>2. f[ps[k].id].qos = 2 => ar[f[ps[k].id].msg] = 0
        BY <1>8, <1>10 DEF AgreeOK
      <4> QED
        BY <1>8, <1>10, <4>1, <4>2 DEF FlyingOK
    <3> QED
      BY <3>1
  <2>2. \A k, l \in Carried(ps) : ps[k].msg = ps[l].msg => k = l
    <3>1. SUFFICES ASSUME NEW k \in Carried(ps), NEW l \in Carried(ps),
                          ps[k].msg = ps[l].msg
                   PROVE  k = l
      OBVIOUS
    <3>2. ps[k].id = ps[l].id
      BY <1>8, <1>10, <3>1 DEF FlyingOK
    <3> QED
      BY <1>6, <3>2 DEF Carried
  <2> QED
    BY <2>1, <2>2 DEF Coming
<1>12. Repeats(ps, g, FALSE)
  <2>1. ASSUME NEW k \in Carried(ps), NEW i \in DOMAIN g, g[i] = ps[k].msg
        PROVE  i = ps[k].id
    BY <1>8, <1>10, <2>1 DEF FlyingOK, AgreeOK
  <2> QED
    BY <2>1 DEF Repeats
<1> QED
  BY <1>9, <1>11, <1>12 DEF f

\* The client's new connection, of which the broker has read nothing: either
\* all that is in flight comes behind the CONNACK, or nothing changes.
LEMMA StartsOver ==
    ASSUME NEW d, NEW u, NEW g, NEW clean \in BOOLEAN, NEW out \in Seq(Flights),
           Separate(out), NEW iq, NEW ar,
           Inbound(d, u, g, clean, Flying(out), iq, ar),
           NEW new, clean => new = <<>>, ~clean => new = out,
           NEW n, n = d \/ Again(n, new)
    PROVE  Inbound(n, <<>>, g, clean, Flying(new), iq, ar)
<1>1. /\ \A m \in 1..InMsgs : iq[m] = Unsent => ar[m] = 0
      /\ GotOK(g, iq, ar) /\ Coming(d, iq, ar) /\ Repeats(d, g, clean)
  BY DEF Inbound
<1>2. CASE clean
  <2>1. Again(n, new) => Carried(n) = {}
    BY <1>2, NothingAgain
  <2>2. Coming(n, iq, ar) /\ Repeats(n, g, clean)
    BY <1>1, <2>1 DEF Coming, Repeats
  <2> QED
    BY <1>1, <1>2, <2>2 DEF Inbound
<1>3. CASE ~clean
  <2> DEFINE f == Flying(out)
  <2>1. FlyingOK(f, iq) /\ TokensOK(d, u, f) /\ AgreeOK(g, f, ar) /\ SaidOK(u, g, f, ar)
    BY <1>3 DEF Inbound, LastingOK
  <2> HIDE DEF f
  <2>2. TokensOK(d, <<>>, f)
    <3>1. \A i \in DOMAIN <<>> : <<>>[i] \notin Answers
      OBVIOUS
    <3>2. Lone(<<>>, Answers) /\ FitAll(<<>>, Answers, f) /\ IdsOf(<<>>, Answers) = {}
      BY <3>1, NoneThere
    <3> QED
      BY <2>1, <3>2 DEF TokensOK
  <2>3. SaidOK(<<>>, g, f, ar)
    BY DEF SaidOK
  <2>4. /\ TokensOK(n, <<>>, f)
        /\ Coming(n, iq, ar) /\ Repeats(n, g, clean)
    <3>1. CASE n = d
      BY <1>1, <2>2, <3>1
    <3>2. CASE Again(n, out)
      <4>1. /\ TokensOK(n, <<>>, Flying(out))
            /\ Coming(n, iq, ar) /\ Repeats(n, g, FALSE)
        BY <2>1, <3>2, AgainComes DEF f
      <4> QED
        BY <1>3, <4>1 DEF f
    <3> QED
      BY <1>3, <3>1, <3>2
  <2>5. LastingOK(n, <<>>, g, f, iq, ar)
    BY <2>1, <2>3, <2>4 DEF LastingOK
  <2> QED
    BY <1>1, <1>3, <2>4, <2>5 DEF Inbound, f
<1> QED
  BY <1>2, <1>3

-----------------------------------------------------------------------------
\* The steps of the broker.
LEMMA ConnectReceive ==
    ASSUME Typed, ConnInv, StreamInv, ReceiveInv, NEW s \in Sockets,
           BrokerReceive(s), s # broker.conn,
           BrokerConnect([c EXCEPT !.up[s] = Tail(@)], s, Head(c.up[s]).id = 1)
    PROVE  ReceiveInv'
<1> DEFINE p == Head(c.up[s])
           o == [c EXCEPT !.up[s] = Tail(@)]
           b == broker.conn
           r == Drop(o, b)
           old == broker.out
           out == IF p.id = 1 THEN <<>> ELSE old
           ps == <<Control("CONNACK", 0)>>
                    \o [i \in DOMAIN out |-> Redelivery(out[i])]
           d == Unheard(r)
           n == Unheard(c')
           g == c.received
<1>1. /\ ObjectOK(c) /\ b \in Sockets \union {NoSocket}
      /\ NoSocket \notin Sockets
  BY SockIs
<1>2. c.up[s] # <<>> /\ UNCHANGED <<inQos, arrived>>
  BY DEF BrokerReceive
<1>3. OutOK(old) /\ old \in Seq(Flights) /\ Separate(old)
  BY OutOKIs DEF OutOK, Separate
<1>4. /\ Stiller(o, c) /\ ObjectOK(o) /\ o.down = c.down /\ o.sock = c.sock
      /\ (p.id = 1) <=> c.clean
  <2>1. Stiller(o, c) /\ o.down = c.down /\ o.sock = c.sock
    BY <1>2, ReadOff
  <2>2. (p.id = 1) <=> c.clean
    BY <1>2, PoppedIs
  <2> QED
    BY <2>1, <2>2 DEF Stiller
<1>5. s = c.sock => c.down[s] = <<>>
  <2>1. /\ o.down = c.down
        /\ s # c.sock \/ s = b \/ o.down[s] = <<>>
    BY <1>1, <1>2, TakenUp, <1>4
  <2> QED
    BY <2>1
<1>6. c' = Deliver(r, s, ps) /\ (broker.conn)' = s /\ (broker.out)' = out
  BY DEF BrokerConnect
<1> HIDE DEF o, p, old
<1>7. Stiller(r, c) /\ ObjectOK(r) /\ r.down = c.down /\ r.sock = c.sock
  <2>1. Stiller(r, o) /\ r.down = o.down /\ r.sock = o.sock
    BY <1>1, <1>4, DropStill, DropIs
  <2> QED
    BY <1>4, <2>1, StillerOn DEF Stiller
<1>8. /\ r.up = o.up \/ (b \in Sockets /\ r.up = [o.up EXCEPT ![b] = <<>>])
      /\ o.up[s] = <<>>
  <2>1. o.up[s] = <<>>
    BY <1>2, PoppedIs DEF o
  <2>2. r.up = o.up \/ (b \in Sockets /\ r.up = [o.up EXCEPT ![b] = <<>>])
    BY <1>1, <1>4 DEF Drop, ObjectOK, Fields
  <2> QED
    BY <2>1, <2>2
<1>9. r.up[s] = <<>>
  <2>1. o.up \in [Sockets -> Seq(Packets)]
    BY <1>4 DEF ObjectOK
  <2> QED
    BY <1>8, <2>1
<1> HIDE DEF r
<1>10. Again(ps, out) /\ out \in Seq(Flights)
  <2>1. out \in Seq(Flights)
    BY <1>3
  <2> HIDE DEF out
  <2> QED
    BY <2>1, AgainIs
<1> HIDE DEF ps
<1>11. ObjectOK(c') /\ Keeps(c', r)
  BY <1>6, <1>7, <1>10, DeliverOK, DeliverKeeps, KeptIn DEF Again
<1>12. /\ c'.sock = r.sock /\ c'.up = r.up
       /\ c'.down = r.down \/ c'.down = [r.down EXCEPT ![s] = @ \o ps]
  BY <1>6, <1>7 DEF Deliver, ObjectOK, Fields
<1>13. n = d \/ n = ps
  <2>1. r.down \in [Sockets -> Seq(Packets)] /\ r.sock \in Sockets \union {NoSocket}
    BY <1>7 DEF ObjectOK
  <2>2. CASE r.sock # s \/ c'.down = r.down
    <3>1. r.sock \in Sockets => c'.down[r.sock] = r.down[r.sock]
      BY <1>12, <2>1, <2>2
    <3> QED
      BY <1>12, <2>1, <3>1 DEF Unheard
  <2>3. CASE r.sock = s /\ c'.down = [r.down EXCEPT ![s] = @ \o ps]
    <3>1. r.down[s] = <<>>
      BY <1>5, <1>7, <2>3
    <3>2. c'.down[s] = <<>> \o ps
      BY <2>1, <2>3, <3>1
    <3>3. <<>> \o ps = ps
      BY <1>10 DEF Again
    <3> QED
      BY <1>1, <1>12, <2>3, <3>2, <3>3 DEF Unheard
  <2> QED
    BY <1>12, <2>2, <2>3
<1>14. Unread(c', s) = <<>>
  BY <1>1, <1>9, <1>12 DEF Unread
<1>15. c'.clean = c.clean /\ c'.received = g /\ r.clean = c.clean /\ r.received = g
  BY <1>7, <1>11 DEF Stiller, Keeps
<1>16. Inbound(d, Unread(r, b), g, c.clean, Flying(old), inQos, arrived)
  <2>1. InboundOK(r, b, old, inQos, arrived)
    BY <1>1, <1>7, <1>15, StillInbound DEF ReceiveInv, Stiller, old
  <2> QED
    BY <1>15, <2>1, InboundIs
<1>17. (c.clean => out = <<>>) /\ (~c.clean => out = old)
  BY <1>4
<1>18. c.clean \in BOOLEAN
  BY <1>1 DEF ObjectOK
<1> HIDE DEF n, d, out
<1>19. Inbound(n, <<>>, g, c.clean, Flying(out), inQos, arrived)
  BY <1>3, <1>10, <1>13, <1>16, <1>17, <1>18, StartsOver
<1>20. InboundOK(c', s, out, inQos, arrived)
  BY <1>14, <1>15, <1>19, InboundIs DEF n
<1> QED
  BY <1>2, <1>6, <1>20 DEF ReceiveInv

\* A message the broker sends.
LEMMA PublishReceive ==
    ASSUME Typed, ReceiveInv, NEW q \in 0..2, BrokerPublish(q)
    PROVE  ReceiveInv'
<1> DEFINE out == broker.out
           used == {out[i].id : i \in DOMAIN out}
           T == (1..InMsgs) \ used
           id == IF q = 0 THEN 0 ELSE Min(T)
           pkt(m) == Packet("PUBLISH", id, m, q)
           e(m) == [id |-> id, msg |-> m, qos |-> q, rel |-> FALSE]
           b == broker.conn
           d == Unheard(c)
           u == Unread(c, b)
           n == Unheard(c')
           new == (broker.out)'
<1>1. PICK m \in 1..InMsgs :
        /\ inQos[m] = Unsent /\ inQos' = [inQos EXCEPT ![m] = q]
        /\ c' = Deliver(c, b, <<pkt(m)>>)
        /\ broker' = IF q = 0 THEN broker
                     ELSE [broker EXCEPT !.out = Append(@, e(m))]
  BY DEF BrokerPublish
<1>2. arrived' = arrived
  BY DEF BrokerPublish
<1>3. OutOK(out) /\ out \in Seq(Flights) /\ Separate(out)
  BY OutOKIs DEF OutOK, Separate
<1>4. id \in Nat /\ (q # 0 => id \in 1..InMsgs /\ id \notin used)
  <2>1. T # {} /\ T \in SUBSET Nat
    BY <1>1, UnusedId
  <2>2. Min(T) \in T
    BY <2>1, MinIs
  <2> QED
    BY <2>2
<1>5. /\ (broker.conn)' = b
      /\ q = 0 => new = out
      /\ q # 0 => new = Append(out, e(m))
  <2>1. broker \in [conn : Sockets \union {NoSocket}, rec : SUBSET Nat,
                    out : Seq(Flights)]
    BY DEF Typed, TypeInv, BrokerOK
  <2> QED
    BY <1>1, <2>1
<1> HIDE DEF id
<1>6. /\ pkt(m) \in Packets /\ pkt(m).kind = "PUBLISH" /\ pkt(m).id = id
      /\ pkt(m).msg = m /\ pkt(m).qos = q
  <2>1. m \in 0..TopMsg
    BY TopIs
  <2>2. pkt(m) \in Packets
    BY <1>4, <2>1, PacketIs DEF Kinds
  <2> QED
    BY <2>2 DEF Packet
<1> DEFINE p == pkt(m)
<1> HIDE DEF pkt
<1>7. /\ ObjectOK(c) /\ b \in Sockets \union {NoSocket}
      /\ inQos \in [1..InMsgs -> 0..Unsent]
  BY DEF Typed, TypeInv, BrokerOK
<1> HIDE DEF p
<1>8. /\ c'.sock = c.sock /\ c'.clean = c.clean /\ c'.up = c.up
      /\ \A x \in Sockets : x # b => c'.down[x] = c.down[x]
      /\ b \in Sockets => \/ c'.down[b] = c.down[b]
                          \/ c'.down[b] = Append(c.down[b], p)
  BY <1>1, <1>6, <1>7, DeliverIs DEF p
<1>9. c'.received = c.received
  <2>1. Keeps(c', c)
    BY <1>1, <1>7, DeliverKeeps, KeptIn
  <2> QED
    BY <2>1 DEF Keeps
<1>10. n = d \/ n = Append(d, p)
  <2>1. c.sock \in Sockets \union {NoSocket}
    BY <1>7 DEF ObjectOK
  <2> QED
    BY <1>8, <2>1 DEF Unheard
<1>11. Unread(c', b) = u
  BY <1>8 DEF Unread
<1>12. d \in Seq(Packets) /\ u \in Seq(Packets)
  BY <1>7, ViewsAre
<1>13. Inbound(d, u, c.received, c.clean, Flying(out), inQos, arrived)
  BY InboundIs DEF ReceiveInv
<1> HIDE DEF n, d, u, out, e
<1>14. /\ q = 0 => Flying(new) = Flying(out)
       /\ q # 0 =>
            /\ p.id \notin DOMAIN Flying(out) /\ p.id \in 1..InMsgs
            /\ DOMAIN Flying(new) = DOMAIN Flying(out) \union {p.id}
            /\ \A i \in DOMAIN Flying(out) : Flying(new)[i] = Flying(out)[i]
            /\ Flying(new)[p.id] = [kind |-> "PUBLISH", msg |-> m, qos |-> q,
                                    rec |-> FALSE]
  <2>1. CASE q = 0
    BY <1>5, <2>1
  <2>2. CASE q # 0
    <3>1. e(m) \in Flights /\ e(m).id = id
      BY <1>4, <2>2 DEF e, Flights
    <3>2. \A k \in DOMAIN out : out[k].id # e(m).id
      BY <1>4, <2>2, <3>1
    <3>3. /\ DOMAIN Flying(new) = DOMAIN Flying(out) \union {id}
          /\ \A i \in DOMAIN Flying(out) : Flying(new)[i] = Flying(out)[i]
          /\ Flying(new)[id] = Awaits(e(m)) /\ id \notin DOMAIN Flying(out)
      <4> DEFINE y == Append(out, e(m))
      <4>1. /\ DOMAIN Flying(y) = DOMAIN Flying(out) \union {e(m).id}
            /\ \A i \in DOMAIN Flying(out) : Flying(y)[i] = Flying(out)[i]
            /\ Flying(y)[e(m).id] = Awaits(e(m))
            /\ e(m).id \notin DOMAIN Flying(out)
        BY <1>3, <3>1, <3>2, FlyingMore
      <4>2. new = y
        BY <1>5, <2>2
      <4> HIDE DEF y, new
      <4> QED
        BY <3>1, <4>1, <4>2
    <3>4. Awaits(e(m)) = [kind |-> "PUBLISH", msg |-> m, qos |-> q, rec |-> FALSE]
      BY DEF Awaits, e
    <3> QED
      BY <1>4, <1>6, <2>2, <3>3, <3>4 DEF p
  <2> QED
    BY <2>1, <2>2
<1>15. p \in Packets /\ p.kind = "PUBLISH" /\ p.msg = m /\ p.qos = q
  BY <1>6 DEF p
<1> HIDE DEF new
<1>16. Inbound(n, u, c.received, c.clean, Flying(new), inQos', arrived)
  <2> DEFINE f == Flying(out)
             h == Flying(new)
             jq == inQos'
  <2>1. Adds(p, f, h)
    BY <1>14, <1>15 DEF Adds
  <2>2. Inbound(d, u, c.received, c.clean, f, inQos, arrived)
    BY <1>13
  <2>3. Given(p, inQos, jq)
    BY <1>1, <1>7, <1>15 DEF Given
  <2> HIDE DEF f, h, jq
  <2>4. Inbound(n, u, c.received, c.clean, h, jq, arrived)
    BY <1>10, <1>12, <1>15, <2>1, <2>2, <2>3, Announces
  <2> QED
    BY <2>4 DEF h, jq
<1>17. InboundOK(c', b, new, inQos', arrived)
  BY <1>1, <1>8, <1>9, <1>11, <1>16, InboundIs DEF n
<1> QED
  BY <1>2, <1>5, <1>17 DEF ReceiveInv, new

\* The broker reads PUBACK or PUBCOMP, and what it forgets was handed on.
LEMMA ForgetReceive ==
    ASSUME Typed, ConnInv, StreamInv, ReceiveInv, NEW s \in Sockets,
           s = broker.conn, c.up[s] # <<>>,
           Head(c.up[s]).kind \in {"PUBACK", "PUBCOMP"},
           BrokerAnswers([c EXCEPT !.up[s] = Tail(@)], s, Head(c.up[s])),
           UNCHANGED <<inQos, arrived>>
    PROVE  LET f == Flying(broker.out)
               p == Head(c.up[s])
           IN  /\ ReceiveInv' /\ (broker.out)' = InFlight(p.id) /\ c'.clean = c.clean
               /\ ~c.clean => p.id \in DOMAIN f /\ arrived[f[p.id].msg] > 0
<1> DEFINE p == Head(c.up[s])
           o == [c EXCEPT !.up[s] = Tail(@)]
           d == Unheard(c)
           u == c.up[s]
           f == Flying(broker.out)
           h == Flying(InFlight(p.id))
<1>1. /\ Stiller(o, c) /\ o.sock = c.sock /\ o.down = c.down
      /\ o.up[s] = Tail(u)
  <2>1. Stiller(o, c) /\ o.sock = c.sock /\ o.down = c.down
    BY ReadOff
  <2>2. DOMAIN c = Fields /\ c.up \in [Sockets -> Seq(Packets)]
    BY SockIs DEF ObjectOK
  <2>3. o.up[s] = Tail(u)
    BY <2>2 DEF Fields
  <2> QED
    BY <2>1, <2>3
<1>2. c' = o /\ (broker.conn)' = s /\ (broker.out)' = InFlight(p.id)
  <2>1. c' = o /\ broker' = [broker EXCEPT !.out = InFlight(p.id)]
    BY DEF BrokerAnswers
  <2>2. broker \in [conn : Sockets \union {NoSocket}, rec : SUBSET Nat,
                    out : Seq(Flights)]
    BY DEF Typed, TypeInv, BrokerOK
  <2> QED
    BY <2>1, <2>2
<1>3. s # NoSocket /\ ObjectOK(c)
  BY SockIs
<1>4. Unread(c, s) = u /\ Unread(c', s) = Tail(u) /\ Unheard(c') = d
  BY <1>1, <1>2, <1>3 DEF Unread, Unheard
<1>5. d \in Seq(Packets) /\ u \in Seq(Packets)
  <2>1. Unread(c, s) \in Seq(Packets) /\ d \in Seq(Packets)
    BY <1>3, ViewsAre
  <2> QED
    BY <1>4, <2>1
<1>6. Inbound(d, u, c.received, c.clean, f, inQos, arrived)
  BY <1>4, InboundIs DEF ReceiveInv
<1>7. Lacks(h, f, p.id)
  BY FlyingLess DEF Lacks
<1>8. p = Head(u) /\ p.kind \in {"PUBACK", "PUBCOMP"}
  OBVIOUS
<1>9. c'.received = c.received /\ c'.clean = c.clean
  BY <1>1, <1>2 DEF Stiller
<1> HIDE DEF d, u, f, h, p, o
<1>10. /\ Inbound(d, Tail(u), c.received, c.clean, h, inQos, arrived)
       /\ ~c.clean => p.id \in DOMAIN f /\ arrived[f[p.id].msg] > 0
  <2>1. u # <<>>
    BY DEF u
  <2>2. Inbound(d, Tail(u), c.received, c.clean, h, inQos, arrived)
    BY <1>5, <1>6, <1>7, <1>8, <2>1, Forgets
  <2>3. ~c.clean => p.id \in DOMAIN f /\ arrived[f[p.id].msg] > 0
    BY <1>5, <1>6, <1>7, <1>8, <2>1, <2>2, Forgets
  <2> QED
    BY <2>2, <2>3
<1>11. InboundOK(c', s, InFlight(p.id), inQos, arrived)
  BY <1>4, <1>9, <1>10, InboundIs DEF h
<1> QED
  BY <1>2, <1>9, <1>10, <1>11 DEF ReceiveInv, f, p

\* The broker reads PUBREC, and releases the message.
LEMMA FreeReceive ==
    ASSUME Typed, ConnInv, StreamInv, ReceiveInv, NEW s \in Sockets,
           s = broker.conn, c.up[s] # <<>>, Head(c.up[s]).kind = "PUBREC",
           BrokerAnswers([c EXCEPT !.up[s] = Tail(@)], s, Head(c.up[s])),
           UNCHANGED <<inQos, arrived>>
    PROVE  ReceiveInv'
<1> DEFINE p == Head(c.up[s])
           o == [c EXCEPT !.up[s] = Tail(@)]
           d == Unheard(c)
           u == c.up[s]
           old == broker.out
           new == (broker.out)'
           f == Flying(old)
           h == Flying(new)
           e == Control("PUBREL", p.id)
           n == Unheard(c')
<1>1. /\ Stiller(o, c) /\ o.sock = c.sock /\ o.down = c.down
      /\ o.up[s] = Tail(u) /\ p \in Packets
  <2>1. Stiller(o, c) /\ o.sock = c.sock /\ o.down = c.down /\ p \in Packets
    BY ReadOff
  <2>2. DOMAIN c = Fields /\ c.up \in [Sockets -> Seq(Packets)]
    BY SockIs DEF ObjectOK
  <2>3. o.up[s] = Tail(u)
    BY <2>2 DEF Fields
  <2> QED
    BY <2>1, <2>3
<1>2. /\ c' = Deliver(o, s, <<e>>) /\ (broker.conn)' = s
      /\ Released(new, old, p.id)
  <2>1. /\ c' = Deliver(o, s, <<e>>)
        /\ broker' = [broker EXCEPT
                !.out = [i \in DOMAIN @ |->
                           IF @[i].id = p.id THEN [@[i] EXCEPT !.rel = TRUE]
                           ELSE @[i]]]
    BY DEF BrokerAnswers
  <2>2. broker \in [conn : Sockets \union {NoSocket}, rec : SUBSET Nat,
                    out : Seq(Flights)]
    BY DEF Typed, TypeInv, BrokerOK
  <2> QED
    BY <2>1, <2>2 DEF Released
<1>3. s # NoSocket /\ ObjectOK(c) /\ ObjectOK(o) /\ c.sock \in Sockets \union {NoSocket}
  BY <1>1, SockIs DEF Stiller, ObjectOK
<1>4. e \in Packets /\ e.kind = "PUBREL" /\ e.kind \notin {"PUBLISH"}
  <2>1. p.id \in Nat
    BY <1>1 DEF Packets
  <2> QED
    BY <2>1, ControlIs DEF Kinds, Control, Packet
<1>5. Separate(old)
  BY OutOKIs DEF OutOK, Separate
<1>6. Marks(h, f, p.id)
  <2> HIDE DEF new
  <2> QED
    BY <1>2, FlyingReleased
<1>7. AllAwait(f)
  BY <1>5, FlyingAt DEF AllAwait
<1>15. p.kind = "PUBREC" /\ p = Head(u)
  OBVIOUS
<1> HIDE DEF e, p, o
<1>8. /\ c'.sock = c.sock /\ c'.up = o.up /\ c'.clean = c.clean
      /\ n = d \/ n = Append(d, e)
  <2>1. /\ c'.sock = o.sock /\ c'.up = o.up /\ c'.clean = o.clean
        /\ \A x \in Sockets : x # s => c'.down[x] = o.down[x]
        /\ c'.down[s] = o.down[s] \/ c'.down[s] = Append(o.down[s], e)
    BY <1>2, <1>3, <1>4, DeliverIs
  <2> QED
    BY <1>1, <1>3, <2>1 DEF Stiller, Unheard
<1>9. c'.received = c.received
  <2>1. Keeps(c', o)
    BY <1>2, <1>3, <1>4, DeliverKeeps, KeptIn
  <2> QED
    BY <1>1, <2>1 DEF Keeps, Stiller
<1>10. Unread(c, s) = u /\ Unread(c', s) = Tail(u)
  BY <1>1, <1>3, <1>8 DEF Unread
<1>11. d \in Seq(Packets) /\ u \in Seq(Packets) /\ u # <<>>
  <2>1. Unread(c, s) \in Seq(Packets) /\ d \in Seq(Packets)
    BY <1>3, ViewsAre
  <2> QED
    BY <1>10, <2>1
<1>12. Inbound(d, u, c.received, c.clean, f, inQos, arrived)
  BY <1>10, InboundIs DEF ReceiveInv
<1> HIDE DEF d, u, f, h, n, old, new
<1>13. Inbound(n, Tail(u), c.received, c.clean, h, inQos, arrived)
  BY <1>6, <1>7, <1>8, <1>11, <1>12, <1>15, Frees DEF e
<1>14. InboundOK(c', s, new, inQos, arrived)
  BY <1>8, <1>9, <1>10, <1>13, InboundIs DEF n, h
<1> QED
  BY <1>2, <1>14 DEF ReceiveInv, new

-----------------------------------------------------------------------------
\* The steps of the client.

\* Other messages that were received leave a connection made.
LEMMA Rebound ==
    ASSUME NEW o, NEW conn, Made(o, conn), NEW g, IsMap(g, Nat, 0..TopMsg)
    PROVE  LET r == [o EXCEPT !.received = g]
           IN  /\ Made(r, conn) /\ r.received = g /\ r.clean = o.clean
               /\ Unheard(r) = Unheard(o) /\ Unread(r, conn) = Unread(o, conn)
<1> DEFINE r == [o EXCEPT !.received = g]
<1>1. ObjectOK(o)
  BY DEF Made
<1>2. ObjectOK(r) /\ r.received = g /\ r.clean = o.clean
  BY <1>1, ReceivedOK
<1>3. SameConn(r, o)
  BY <1>1, SentSame
<1>4. r.up = o.up /\ r.down = o.down /\ r.sock = o.sock
  BY <1>1 DEF ObjectOK, Fields
<1> HIDE DEF r
<1>5. Made(r, conn)
  BY <1>2, <1>3, SameConnOK DEF Made, SameConn
<1>6. Unheard(r) = Unheard(o) /\ Unread(r, conn) = Unread(o, conn)
  BY <1>4 DEF Unheard, Unread
<1> QED
  BY <1>2, <1>5, <1>6 DEF r

\* A reply that may be given: the other end waits for it.
MayReply(kind, id, d, u, g, f, ar) ==
    /\ id < WireIds /\ Joins(Control(kind, id), d, u, f, Answers)
    /\ kind \in {"PUBACK", "PUBCOMP"} => ar[f[id].msg] > 0
    /\ kind = "PUBREC" => id \in DOMAIN g

\* A packet that may be a reply goes out, or waits.
LEMMA Replies ==
    ASSUME NEW o, NEW conn \in Sockets \union {NoSocket}, Made(o, conn),
           NEW kind \in {"PUBACK", "PUBREC", "PUBCOMP"}, NEW id \in Nat,
           NEW f, NEW iq, NEW ar,
           Inbound(Unheard(o), Unread(o, conn), o.received, o.clean, f, iq, ar),
           ~o.clean => MayReply(kind, id, Unheard(o), Unread(o, conn), o.received,
                                f, ar),
           NEW r, \/ r = Schedule(o, <<Control(kind, id)>>)
                  \/ r = ScheduleInHandler(o, Control(kind, id))
    PROVE  Inbound(Unheard(r), Unread(r, conn), r.received, r.clean, f, iq, ar)
<1> DEFINE p == Control(kind, id)
           e == [p EXCEPT !.id = @ % WireIds]
           s == o.sock
           d == Unheard(o)
           u == Unread(o, conn)
           v == Unread(r, conn)
<1>1. p \in Packets /\ p.kind = kind /\ p.id = id
  BY ControlIs DEF Kinds, Control, Packet
<1>2. e \in Packets /\ e.kind = kind /\ (id < WireIds => e = p)
  <2>1. e \in Packets
    <3> HIDE DEF p
    <3> QED
      BY <1>1, OneEncoded
  <2>2. id < WireIds => id % WireIds = id
    BY ConstantsAre
  <2> HIDE DEF p
  <2>3. e.kind = kind /\ (id % WireIds = id => e = p)
    BY <1>1 DEF Packets
  <2> QED
    BY <2>1, <2>2, <2>3
<1>3. r = Schedule(o, <<p>>) \/ r = ScheduleInHandler(o, p)
  OBVIOUS
<1> HIDE DEF p
<1>4. /\ r.sock = s /\ r.clean = o.clean /\ r.down = o.down
      /\ \A x \in Sockets : x # s => r.up[x] = o.up[x]
      /\ \/ r.up[s] = o.up[s]
         \/ conn = s /\ r.up[s] = Append(o.up[s], e)
  BY <1>1, <1>3, SentIs
<1>5. r.received = o.received
  <2>1. Kept \subseteq DOMAIN o
    BY KeptIn DEF Made
  <2> QED
    BY <1>3, <2>1, ScheduleKeeps, ScheduleInHandlerKeeps DEF Keeps
<1>6. Unheard(r) = d
  BY <1>4 DEF Unheard
<1>7. s \in Sockets /\ s # NoSocket
  BY SocketIs DEF Made, LinkedOK
<1> HIDE DEF e
<1>8. v = u \/ v = Append(u, e)
  BY <1>4, <1>7 DEF Unread
<1>9. u \in Seq(Packets)
  BY ViewsAre DEF Made
<1> HIDE DEF d, u, v
<1>10. Inbound(d, Append(u, e), o.received, o.clean, f, iq, ar)
  <2>1. ~o.clean => /\ Joins(e, d, u, f, Answers)
                    /\ e.kind \in {"PUBACK", "PUBCOMP"} => ar[f[e.id].msg] > 0
                    /\ e.kind = "PUBREC" => e.id \in DOMAIN o.received
    BY <1>1, <1>2 DEF MayReply, p, d, u
  <2>2. Inbound(d, u, o.received, o.clean, f, iq, ar)
    BY DEF d, u
  <2> QED
    BY <1>2, <1>9, <2>1, <2>2, Says
<1>11. Inbound(d, v, o.received, o.clean, f, iq, ar)
  BY <1>8, <1>10 DEF d, u
<1> QED
  BY <1>4, <1>5, <1>6, <1>11 DEF v

\* What the client takes off its socket.
LEMMA HeardOne ==
    ASSUME Typed, ConnInv, Tidy, ReceiveInv, NEW s \in Sockets, HandleMessage(s),
           c.connected
    PROVE  LET p == Head(c.down[s])
               o == [c EXCEPT !.down[s] = Tail(@)]
               d == Unheard(o)
               u == Unread(o, broker.conn)
               f == Flying(broker.out)
           IN  /\ Made(o, broker.conn) /\ p \in Packets
               /\ o.received = c.received /\ o.clean = c.clean
               /\ Inbound(d, u, o.received, o.clean, f, inQos, arrived)
               /\ Hearable(p, d, o.received, o.clean, inQos, arrived)
               /\ ~o.clean => Asked(p, d, u, f)
<1> DEFINE p == Head(c.down[s])
           o == [c EXCEPT !.down[s] = Tail(@)]
           b == broker.conn
           d == Unheard(o)
           w == Unheard(c)
           u == Unread(o, b)
           f == Flying(broker.out)
<1>1. /\ s = c.sock /\ p \in Packets /\ c.down[s] # <<>> /\ Made(o, b)
      /\ o.sock = s /\ o.clean = c.clean /\ o.received = c.received
      /\ o.up = c.up /\ o.down[s] = Tail(c.down[s])
  BY HeardOff
<1> HIDE DEF o
<1>2. s # NoSocket /\ ObjectOK(c) /\ b \in Sockets \union {NoSocket}
  BY SockIs
<1>3. w = c.down[s] /\ d = Tail(w) /\ p = Head(w) /\ u = Unread(c, b)
  BY <1>1, <1>2 DEF Unheard, Unread
<1>4. w \in Seq(Packets) /\ u \in Seq(Packets) /\ w # <<>>
  BY <1>1, <1>2, <1>3, ViewsAre
<1>5. Inbound(w, u, o.received, o.clean, f, inQos, arrived)
  BY <1>1, <1>3, InboundIs DEF ReceiveInv
<1> HIDE DEF w, u, f, p, d
<1>6. /\ Inbound(Tail(w), u, o.received, o.clean, f, inQos, arrived)
      /\ Hearable(Head(w), Tail(w), o.received, o.clean, inQos, arrived)
      /\ ~o.clean => Asked(Head(w), Tail(w), u, f)
  BY <1>4, <1>5, HearsOne
<1>7. /\ Inbound(d, u, o.received, o.clean, f, inQos, arrived)
      /\ Hearable(p, d, o.received, o.clean, inQos, arrived)
      /\ ~o.clean => Asked(p, d, u, f)
  BY <1>3, <1>6
<1> QED
  BY <1>1, <1>7 DEF d, u, f, p, o

\* A connection that is made sends what a handler replies.
LEMMA NothingThrows ==
    ASSUME NEW o, NEW conn, Made(o, conn), NEW p \in Packets
    PROVE  ~ProcessThrows([o EXCEPT !.queue = Append(@, p)])
<1> DEFINE q == [o EXCEPT !.queue = Append(@, p)]
<1>1. /\ DOMAIN o = Fields /\ ~o.notify /\ o.sock # NoSocket
      /\ o.ready[o.sock] = "open"
  BY DEF Made, ObjectOK, LinkedOK
<1>2. Append(o.queue, p) \in Seq(Packets)
  BY DEF Made, ObjectOK
<1>3. /\ q.sock = o.sock /\ q.ready = o.ready /\ q.notify = o.notify
      /\ q.queue = Append(o.queue, p)
  BY <1>1 DEF Fields
<1> HIDE DEF q
<1>4. CanSend(q)
  BY <1>1, <1>3 DEF CanSend
<1>5. Sendable(q) = Len(q.queue) /\ Len(q.queue) \in Nat
  BY <1>1, <1>2, <1>3 DEF Sendable
<1>6. ~ProcessThrows(q)
  BY <1>4, <1>5 DEF ProcessThrows
<1> QED
  BY <1>6 DEF q

\* What the application gets counts for its message alone.
LEMMA ArrivalLater ==
    ASSUME Typed, NEW m \in 1..InMsgs, Arrival(m)
    PROVE  Later(arrived', arrived, m)
<1>1. arrived \in [1..InMsgs -> 0..2] /\ arrived' = [arrived EXCEPT ![m] = Saturate(@)]
  BY DEF Typed, TypeInv, Arrival
<1> QED
  BY <1>1 DEF Later, Saturate

\* The application gets a message it may get, or none.
Takes ==
    \/ UNCHANGED arrived
    \/ \E m \in 1..InMsgs :
          /\ inQos[m] # Unsent /\ (arrived[m] = 0 \/ inQos[m] = 1)
          /\ arrived' = [arrived EXCEPT ![m] = Saturate(@)]

\* What the identifier of a message under way tells.
Known(p, d, u, f) ==
    /\ p.id \in DOMAIN f /\ p.id \in Nat /\ p.id < WireIds
    /\ p.id \notin IdsOf(d, Asks) /\ p.id \notin IdsOf(u, Answers)
    /\ f[p.id].kind = "PUBLISH"
    /\ p.kind = "PUBLISH" =>
          f[p.id].msg = p.msg /\ f[p.id].qos = p.qos /\ ~f[p.id].rec
    /\ p.kind = "PUBREL" => f[p.id].qos = 2 /\ f[p.id].rec

\* The identifier of a packet that asks for an answer tells that.
LEMMA AskedIs ==
    ASSUME BrokerIdsFit, NEW d, NEW u, NEW f, NEW iq, FlyingOK(f, iq),
           NEW p, p \in Asks, p.kind \in {"PUBLISH", "PUBREL"}, Asked(p, d, u, f)
    PROVE  Known(p, d, u, f)
<1>1. /\ p.id \in DOMAIN f /\ Fits(p, f[p.id])
      /\ p.id \notin IdsOf(d, Asks) /\ p.id \notin IdsOf(u, Answers)
  BY DEF Asked
<1>2. p.id \in 1..InMsgs /\ f[p.id].kind = "PUBLISH"
  BY <1>1 DEF FlyingOK
<1>3. p.id \in Nat /\ p.id < WireIds
  BY <1>2, ConstantsAre DEF BrokerIdsFit
<1> QED
  BY <1>1, <1>2, <1>3 DEF Fits, Known

\* A PUBLISH of quality 0 or 1 is handed on.
LEMMA PublishHandsOn ==
    ASSUME Typed, BrokerIdsFit, NEW o, Made(o, broker.conn), NEW p \in Packets,
           p.qos \in {0, 1}, HandlePublish(o, p),
           NEW d, d = Unheard(o), NEW u, u = Unread(o, broker.conn),
           NEW f, Inbound(d, u, o.received, o.clean, f, inQos, arrived),
           Hearable(p, d, o.received, o.clean, inQos, arrived),
           ~o.clean => Asked(p, d, u, f)
    PROVE  /\ Takes
           /\ Inbound(Unheard(c'), Unread(c', broker.conn), c'.received, c'.clean,
                      f, inQos, arrived')
<1> DEFINE m == p.msg
           b == broker.conn
           e == Control("PUBACK", p.id)
<1>1. /\ p.kind = "PUBLISH" /\ m \in 1..InMsgs /\ inQos[m] = p.qos
      /\ p.qos # 1 => arrived[m] = 0
      /\ \A k \in Carried(d) : d[k].msg # m
  BY DEF HandlePublish, Hearable
<1>2. p.id \in Nat /\ e \in Packets /\ b \in Sockets \union {NoSocket}
  <2>1. p.id \in Nat /\ b \in Sockets \union {NoSocket}
    BY DEF Packets, Typed, TypeInv, BrokerOK
  <2> QED
    BY <2>1, ControlIs DEF Kinds
<1>3. /\ Arrival(m)
      /\ \/ p.qos = 0 /\ c' = o
         \/ p.qos = 1 /\ c' = ScheduleInHandler(o, e)
  <2>1. ~ProcessThrows([o EXCEPT !.queue = Append(@, e)])
    <3> HIDE DEF e
    <3> QED
      BY <1>2, NothingThrows
  <2> QED
    BY <2>1 DEF HandlePublish
<1>4. Takes
  <2>1. inQos[m] # Unsent /\ (arrived[m] = 0 \/ inQos[m] = 1)
    BY <1>1 DEF Unsent
  <2>2. m \in 1..InMsgs /\ arrived' = [arrived EXCEPT ![m] = Saturate(@)]
    BY <1>1, <1>3 DEF Arrival
  <2> HIDE DEF m
  <2> QED
    BY <2>1, <2>2 DEF Takes
<1>5. Later(arrived', arrived, m)
  BY <1>1, <1>3, ArrivalLater
<1>6. u \in Seq(Packets)
  BY <1>2, ViewsAre DEF Made
<1>7. inQos[m] \in {0, 1}
  BY <1>1
<1> HIDE DEF m
<1>8. Inbound(d, u, o.received, o.clean, f, inQos, arrived')
  BY <1>1, <1>5, <1>6, <1>7, HandsOn
<1>9. CASE c' = o
  BY <1>4, <1>8, <1>9
<1>10. CASE p.qos = 1 /\ c' = ScheduleInHandler(o, e)
  <2>1. ASSUME ~o.clean
        PROVE  MayReply("PUBACK", p.id, d, u, o.received, f, arrived')
    <3>1. p \in Asks
      BY <1>1, <1>10 DEF Asks
    <3>2. FlyingOK(f, inQos)
      BY <2>1 DEF Inbound, LastingOK
    <3>3. /\ p.id \in DOMAIN f /\ p.id < WireIds
          /\ p.id \notin IdsOf(d, Asks) /\ p.id \notin IdsOf(u, Answers)
          /\ f[p.id].kind = "PUBLISH" /\ f[p.id].msg = m /\ f[p.id].qos = 1
      <4>1. Asked(p, d, u, f) /\ p.kind = "PUBLISH" /\ p.kind # "PUBREL"
        BY <1>1, <2>1
      <4>2. p.kind \in {"PUBLISH", "PUBREL"}
        BY <4>1
      <4>3. Known(p, d, u, f)
        BY <3>1, <3>2, <4>1, <4>2, AskedIs
      <4>4. /\ p.id \in DOMAIN f /\ p.id < WireIds
            /\ p.id \notin IdsOf(d, Asks) /\ p.id \notin IdsOf(u, Answers)
            /\ f[p.id].kind = "PUBLISH"
            /\ f[p.id].msg = p.msg /\ f[p.id].qos = p.qos
        BY <4>1, <4>3 DEF Known
      <4> QED
        BY <1>10, <4>4 DEF m
    <3>4. e.kind = "PUBACK" /\ e.id = p.id
      BY DEF Control, Packet
    <3> HIDE DEF e
    <3>5. Joins(e, d, u, f, Answers)
      BY <3>3, <3>4 DEF Joins, Fits
    <3>6. arrived'[f[p.id].msg] > 0
      BY <1>5, <3>3 DEF Later
    <3> QED
      BY <3>3, <3>5, <3>6 DEF MayReply, e
  <2> QED
    BY <1>2, <1>4, <1>8, <1>10, <2>1, Replies
<1> QED
  BY <1>3, <1>9, <1>10

\* A PUBLISH of quality 2 is kept.
LEMMA PublishKeeps ==
    ASSUME Typed, BrokerIdsFit, NEW o, Made(o, broker.conn), NEW p \in Packets,
           p.qos = 2, HandlePublish(o, p),
           NEW d, d = Unheard(o), NEW u, u = Unread(o, broker.conn),
           NEW f, Inbound(d, u, o.received, o.clean, f, inQos, arrived),
           Hearable(p, d, o.received, o.clean, inQos, arrived),
           ~o.clean => Asked(p, d, u, f)
    PROVE  /\ UNCHANGED arrived
           /\ Inbound(Unheard(c'), Unread(c', broker.conn), c'.received, c'.clean,
                      f, inQos, arrived)
<1> DEFINE m == p.msg
           id == p.id
           b == broker.conn
           e == Control("PUBREC", id)
           g == o.received
           h == Bind(g, id, m)
           r == [o EXCEPT !.received = h]
<1>1. /\ p.kind = "PUBLISH" /\ m \in 1..InMsgs /\ inQos[m] = 2 /\ arrived[m] = 0
      /\ \A k \in Carried(d) : d[k].msg # m
      /\ \A i \in DOMAIN g : g[i] = m => ~o.clean /\ i = id
  BY DEF HandlePublish, Hearable
<1>2. id \in Nat /\ b \in Sockets \union {NoSocket}
  BY DEF Packets, Typed, TypeInv, BrokerOK
<1>3. c' = ScheduleInHandler(r, e) /\ UNCHANGED arrived
  BY DEF HandlePublish, NoArrival
<1>4. IsMap(g, Nat, 0..TopMsg) /\ m \in 0..TopMsg
  BY DEF Made, ObjectOK, Packets
<1>5. IsMap(h, Nat, 0..TopMsg)
  BY <1>2, <1>4, MessagesIs
<1>6. Binds(h, g, id, m) /\ id \in DOMAIN h
  BY DEF Bind, Binds
<1> HIDE DEF h
<1>7. /\ Made(r, b) /\ r.received = h /\ r.clean = o.clean
      /\ Unheard(r) = d /\ Unread(r, b) = u
  BY <1>5, Rebound
<1>8. ASSUME ~o.clean
      PROVE  /\ id \in DOMAIN f /\ id < WireIds
             /\ id \notin IdsOf(d, Asks) /\ id \notin IdsOf(u, Answers)
             /\ f[id].kind = "PUBLISH" /\ f[id].msg = m /\ f[id].qos = 2
             /\ ~f[id].rec
  <2>1. p \in Asks
    BY <1>1 DEF Asks
  <2>2. FlyingOK(f, inQos)
    BY <1>8 DEF Inbound, LastingOK
  <2>3. Asked(p, d, u, f) /\ p.kind = "PUBLISH" /\ p.kind # "PUBREL"
    BY <1>1, <1>8
  <2>4. p.kind \in {"PUBLISH", "PUBREL"}
    BY <2>3
  <2>5. Known(p, d, u, f)
    BY <2>1, <2>2, <2>3, <2>4, AskedIs
  <2>6. /\ p.id \in DOMAIN f /\ p.id < WireIds
        /\ p.id \notin IdsOf(d, Asks) /\ p.id \notin IdsOf(u, Answers)
        /\ f[p.id].kind = "PUBLISH"
        /\ f[p.id].msg = p.msg /\ f[p.id].qos = p.qos /\ ~f[p.id].rec
    BY <2>3, <2>5 DEF Known
  <2> QED
    BY <2>6
<1>9. u \in Seq(Packets)
  BY <1>2, ViewsAre DEF Made
<1> HIDE DEF m, id, g, r
<1>10. Inbound(d, u, h, o.clean, f, inQos, arrived)
  <2>1. Inbound(d, u, g, o.clean, f, inQos, arrived)
    BY DEF g
  <2>2. ~o.clean => id \in DOMAIN f /\ f[id].msg = m /\ f[id].qos = 2
    BY <1>8
  <2> QED
    BY <1>1, <1>6, <1>9, <2>1, <2>2, Receives
<1>11. Inbound(Unheard(r), Unread(r, b), r.received, r.clean, f, inQos, arrived)
  BY <1>7, <1>10
<1>12. ~r.clean => MayReply("PUBREC", id, Unheard(r), Unread(r, b), r.received, f,
                            arrived)
  <2>1. ASSUME ~o.clean PROVE MayReply("PUBREC", id, d, u, h, f, arrived)
    <3>1. e.kind = "PUBREC" /\ e.id = id
      BY DEF Control, Packet
    <3> HIDE DEF e
    <3>2. Joins(e, d, u, f, Answers)
      BY <1>8, <2>1, <3>1 DEF Joins, Fits
    <3> QED
      BY <1>6, <1>8, <2>1, <3>2 DEF MayReply, e
  <2> QED
    BY <1>7, <2>1
<1>13. Inbound(Unheard(c'), Unread(c', b), c'.received, c'.clean, f, inQos, arrived)
  BY <1>2, <1>3, <1>7, <1>11, <1>12, Replies
<1> QED
  BY <1>3, <1>13

\* PUBREL: the message is handed on and forgotten.
LEMMA PubrelHandsOn ==
    ASSUME Typed, BrokerIdsFit, NEW o, Made(o, broker.conn), NEW p \in Packets,
           HandlePubrel(o, p),
           NEW d, d = Unheard(o), NEW u, u = Unread(o, broker.conn),
           NEW f, Inbound(d, u, o.received, o.clean, f, inQos, arrived),
           ~o.clean => Asked(p, d, u, f)
    PROVE  /\ Takes
           /\ Inbound(Unheard(c'), Unread(c', broker.conn), c'.received, c'.clean,
                      f, inQos, arrived')
<1> DEFINE id == p.id
           b == broker.conn
           e == Control("PUBCOMP", id)
           g == o.received
           h == Unbind(g, id)
           r == [o EXCEPT !.received = h]
<1>1. p.kind = "PUBREL" /\ p \in Asks
  BY DEF HandlePubrel, Asks
<1>2. id \in Nat /\ b \in Sockets \union {NoSocket}
  BY DEF Packets, Typed, TypeInv, BrokerOK
<1>3. /\ c' = ScheduleInHandler(r, e)
      /\ IF id \in DOMAIN g THEN Arrival(g[id]) ELSE UNCHANGED arrived
  BY DEF HandlePubrel, NoArrival
<1>4. IsMap(g, Nat, 0..TopMsg)
  BY DEF Made, ObjectOK
<1>5. IsMap(h, Nat, 0..TopMsg)
  BY <1>4, MessagesIs
<1>6. Lacks(h, g, id)
  BY DEF Unbind, Lacks
<1> HIDE DEF h
<1>7. /\ Made(r, b) /\ r.received = h /\ r.clean = o.clean
      /\ Unheard(r) = d /\ Unread(r, b) = u
  BY <1>5, Rebound
<1>8. ASSUME ~o.clean
      PROVE  /\ id \in DOMAIN f /\ id < WireIds
             /\ id \notin IdsOf(d, Asks) /\ id \notin IdsOf(u, Answers)
             /\ f[id].kind = "PUBLISH" /\ f[id].qos = 2 /\ f[id].rec
  <2>1. FlyingOK(f, inQos)
    BY <1>8 DEF Inbound, LastingOK
  <2>2. Asked(p, d, u, f)
    BY <1>8
  <2>3. p.kind \in {"PUBLISH", "PUBREL"}
    BY <1>1
  <2>4. Known(p, d, u, f)
    BY <1>1, <2>1, <2>2, <2>3, AskedIs
  <2>5. /\ p.id \in DOMAIN f /\ p.id < WireIds
        /\ p.id \notin IdsOf(d, Asks) /\ p.id \notin IdsOf(u, Answers)
        /\ f[p.id].kind = "PUBLISH" /\ f[p.id].qos = 2 /\ f[p.id].rec
    BY <1>1, <2>4 DEF Known
  <2> QED
    BY <2>5
<1>9. /\ d \in Seq(Packets) /\ u \in Seq(Packets) /\ o.clean \in BOOLEAN
  BY <1>2, ViewsAre DEF Made, ObjectOK
<1> HIDE DEF id, g, r
<1>10. Inbound(d, u, g, o.clean, f, inQos, arrived)
  BY DEF g
<1>11. id \in DOMAIN g =>
          g[id] \in 1..InMsgs /\ inQos[g[id]] = 2 /\ arrived[g[id]] = 0
  BY <1>10 DEF Inbound, GotOK
<1>12. /\ id \in DOMAIN g => Later(arrived', arrived, g[id])
       /\ id \notin DOMAIN g => arrived' = arrived
  BY <1>3, <1>11, ArrivalLater
<1>13. Takes
  <2>1. CASE id \in DOMAIN g
    <3> DEFINE m == g[id]
    <3>1. /\ m \in 1..InMsgs /\ inQos[m] # Unsent /\ arrived[m] = 0
          /\ arrived' = [arrived EXCEPT ![m] = Saturate(@)]
      BY <1>3, <1>11, <2>1 DEF Arrival, Unsent
    <3> HIDE DEF m
    <3> QED
      BY <3>1 DEF Takes
  <2>2. CASE id \notin DOMAIN g
    BY <1>12, <2>2 DEF Takes
  <2> QED
    BY <2>1, <2>2
<1>14. /\ Inbound(d, u, h, o.clean, f, inQos, arrived')
       /\ ~o.clean => arrived'[f[id].msg] > 0
  <2>1. ~o.clean => /\ id \in DOMAIN f /\ f[id].qos = 2 /\ f[id].rec
                    /\ id \notin IdsOf(d, Asks) /\ id \notin IdsOf(u, Answers)
    BY <1>8
  <2>2. Inbound(d, u, h, o.clean, f, inQos, arrived')
    BY <1>6, <1>9, <1>10, <1>12, <2>1, GivesUp
  <2>3. ~o.clean => arrived'[f[id].msg] > 0
    BY <1>6, <1>9, <1>10, <1>12, <2>1, <2>2, GivesUp
  <2> QED
    BY <2>2, <2>3
<1>15. Inbound(Unheard(r), Unread(r, b), r.received, r.clean, f, inQos, arrived')
  BY <1>7, <1>14
<1>16. ~r.clean => MayReply("PUBCOMP", id, Unheard(r), Unread(r, b), r.received, f,
                            arrived')
  <2>1. ASSUME ~o.clean PROVE MayReply("PUBCOMP", id, d, u, h, f, arrived')
    <3>1. e.kind = "PUBCOMP" /\ e.id = id
      BY DEF Control, Packet
    <3> HIDE DEF e
    <3>2. Joins(e, d, u, f, Answers)
      BY <1>8, <2>1, <3>1 DEF Joins, Fits
    <3> QED
      BY <1>8, <1>14, <2>1, <3>2 DEF MayReply, e
  <2> QED
    BY <1>7, <2>1
<1>17. Inbound(Unheard(c'), Unread(c', b), c'.received, c'.clean, f, inQos, arrived')
  BY <1>2, <1>3, <1>7, <1>15, <1>16, Replies
<1> QED
  BY <1>13, <1>17

\* A PUBLISH or a PUBREL on a connection that is made.
LEMMA HeardIn ==
    ASSUME Typed, ConnInv, Tidy, ReceiveInv, BrokerIdsFit, NEW s \in Sockets,
           HandleMessage(s), c.connected,
           Head(c.down[s]).kind \in {"PUBLISH", "PUBREL"}
    PROVE  ReceiveInv' /\ Takes
<1> DEFINE p == Head(c.down[s])
           o == [c EXCEPT !.down[s] = Tail(@)]
           d == Unheard(o)
           u == Unread(o, broker.conn)
           f == Flying(broker.out)
           After == Inbound(Unheard(c'), Unread(c', broker.conn), c'.received,
                            c'.clean, f, inQos, arrived')
<1>1. /\ Made(o, broker.conn) /\ p \in Packets
      /\ Inbound(d, u, o.received, o.clean, f, inQos, arrived)
      /\ Hearable(p, d, o.received, o.clean, inQos, arrived)
      /\ ~o.clean => Asked(p, d, u, f)
  BY HeardOne
<1>2. /\ UNCHANGED <<broker, inQos>> /\ p.kind \in {"PUBLISH", "PUBREL"}
      /\ \/ HandlePublish(o, p) \/ HandlePuback(o, p)
         \/ HandlePubrec(o, p) \/ HandlePubrel(o, p)
         \/ HandlePubcomp(o, p) \/ HandleRequestAck(o, p)
  BY HeardOff
<1> HIDE DEF p, o, f
<1>3. HandlePublish(o, p) \/ HandlePubrel(o, p)
  BY <1>2 DEF HandlePuback, HandlePubrec, HandlePubcomp, HandleRequestAck
<1>4. p.qos \in {0, 1} \/ p.qos = 2
  BY <1>1 DEF Packets
<1> HIDE DEF d, u
<1>5. d = Unheard(o) /\ u = Unread(o, broker.conn)
  BY DEF d, u
<1>6. ASSUME HandlePublish(o, p), p.qos \in {0, 1}
      PROVE  Takes /\ After
  <2>1. Takes
    BY <1>1, <1>5, <1>6, PublishHandsOn
  <2>2. After
    BY <1>1, <1>5, <1>6, PublishHandsOn
  <2> HIDE DEF After
  <2> QED
    BY <2>1, <2>2
<1>7. ASSUME HandlePublish(o, p), p.qos = 2
      PROVE  Takes /\ After
  <2>1. arrived' = arrived
    BY <1>1, <1>5, <1>7, PublishKeeps
  <2>2. Inbound(Unheard(c'), Unread(c', broker.conn), c'.received, c'.clean,
                f, inQos, arrived)
    BY <1>1, <1>5, <1>7, PublishKeeps
  <2> QED
    BY <2>1, <2>2 DEF Takes
<1>8. ASSUME HandlePubrel(o, p)
      PROVE  Takes /\ After
  <2>1. Takes
    BY <1>1, <1>5, <1>8, PubrelHandsOn
  <2>2. After
    BY <1>1, <1>5, <1>8, PubrelHandsOn
  <2> HIDE DEF After
  <2> QED
    BY <2>1, <2>2
<1>9. Takes /\ After
  <2> HIDE DEF After
  <2> QED
    BY <1>3, <1>4, <1>6, <1>7, <1>8
<1>10. InboundOK(c', broker.conn, broker.out, inQos, arrived')
  BY <1>9, InboundIs DEF f
<1>11. ReceiveInv'
  BY <1>2, <1>10 DEF ReceiveInv
<1> QED
  BY <1>9, <1>11

\* A packet on its way to the client.
LEMMA HeardReceive ==
    ASSUME Typed, Typed', ConnInv, Tidy, ReceiveInv, BrokerIdsFit,
           NEW s \in Sockets, HandleMessage(s)
    PROVE  ReceiveInv' /\ Takes
<1>1. CASE c.connected /\ Head(c.down[s]).kind \in {"PUBLISH", "PUBREL"}
  BY <1>1, HeardIn
<1>2. CASE ~c.connected \/ Head(c.down[s]).kind \notin {"PUBLISH", "PUBREL"}
  <2>1. Hushes
    BY <1>2, ConnackHushes, HeardHushes
  <2> QED
    BY <2>1, HushedReceive DEF Hushes, Takes
<1> QED
  BY <1>1, <1>2

\* What the broker reads.
LEMMA ReadReceive ==
    ASSUME Typed, Typed', ConnInv, StreamInv, ReceiveInv, NEW s \in Sockets,
           BrokerReceive(s)
    PROVE  ReceiveInv'
<1> DEFINE p == Head(c.up[s])
           o == [c EXCEPT !.up[s] = Tail(@)]
<1>1. \/ BrokerConnect(o, s, p.id = 1) /\ s # broker.conn
      \/ BrokerRefuse(o, s)
      \/ BrokerRejects(o, s)
      \/ BrokerAnswers(o, s, p) /\ s = broker.conn
  BY DEF BrokerReceive
<1>2. c.up[s] # <<>> /\ UNCHANGED <<inQos, arrived>>
  BY DEF BrokerReceive
<1>3. CASE BrokerConnect(o, s, p.id = 1) /\ s # broker.conn
  BY <1>3, ConnectReceive
<1>4. CASE \/ BrokerRefuse(o, s) \/ BrokerRejects(o, s)
           \/ /\ BrokerAnswers(o, s, p)
              /\ p.kind \notin {"PUBACK", "PUBREC", "PUBCOMP"}
  <2>1. Hushes
    BY <1>4, ReadHushes
  <2> QED
    BY <2>1, HushedReceive
<1>5. CASE /\ BrokerAnswers(o, s, p) /\ s = broker.conn
           /\ p.kind \in {"PUBACK", "PUBCOMP"}
  BY <1>2, <1>5, ForgetReceive
<1>6. CASE BrokerAnswers(o, s, p) /\ s = broker.conn /\ p.kind = "PUBREC"
  BY <1>2, <1>6, FreeReceive
<1> QED
  BY <1>1, <1>3, <1>4, <1>5, <1>6

\* The start.
LEMMA ReceiveInit == Init => ReceiveInv
<1> SUFFICES ASSUME Init PROVE ReceiveInv
  OBVIOUS
<1>1. /\ c.sock = NoSocket /\ c.received = Empty
      /\ broker.conn = NoSocket /\ broker.out = <<>>
      /\ \A m \in 1..InMsgs : arrived[m] = 0
  BY DEF Init, NewClient
<1>2. Unheard(c) = <<>> /\ Unread(c, broker.conn) = <<>>
  BY <1>1 DEF Unheard, Unread
<1>3. DOMAIN c.received = {} /\ DOMAIN Flying(broker.out) = {}
  BY <1>1, NoneFlying DEF Empty
<1>4. Carried(<<>>) = {} /\ DOMAIN <<>> = {}
  BY DEF Carried
<1>5. GotOK(c.received, inQos, arrived)
  BY <1>3 DEF GotOK
<1>6. Coming(<<>>, inQos, arrived) /\ Repeats(<<>>, c.received, c.clean)
  BY <1>4 DEF Coming, Repeats
<1>7. LastingOK(<<>>, <<>>, c.received, Flying(broker.out), inQos, arrived)
  BY <1>3, <1>4 DEF LastingOK, FlyingOK, TokensOK, Lone, FitAll, IdsOf,
                    AgreeOK, SaidOK
<1> QED
  BY <1>1, <1>2, <1>5, <1>6, <1>7 DEF ReceiveInv, InboundOK

\* Every step.
LEMMA ReceiveNext ==
    ASSUME Typed, Typed', ConnInv, StoreCovers, Tidy, StreamInv, ReceiveInv,
           [Next]_vars, BrokerIdsFit
    PROVE  ReceiveInv'
<1>1. CASE \/ AppConnect \/ AppDisconnect \/ AppRequest \/ Timer \/ SlowConnect
           \/ BrokerSeesEnd \/ Crash
  <2>1. Hushes
    <3>1. CASE BrokerSeesEnd
      <4>1. broker.conn \in Sockets
        BY <3>1 DEF BrokerSeesEnd, Typed, TypeInv, BrokerOK
      <4> QED
        BY <3>1, <4>1, FaultsHush
    <3> QED
      BY <1>1, <3>1, AppConnectHushes, AppDisconnectHushes, RequestHushes,
         TimersHush, CrashHushes
  <2> QED
    BY <2>1, HushedReceive
<1>2. ASSUME NEW q \in Qualities, AppSend(q) \/ BrokerPublish(q)
      PROVE  ReceiveInv'
  <2>1. q \in 0..2
    BY ConstantsAre
  <2>2. CASE AppSend(q)
    BY <2>1, <2>2, AppSendHushes, HushedReceive
  <2>3. CASE BrokerPublish(q)
    BY <2>1, <2>3, PublishReceive
  <2> QED
    BY <1>2, <2>2, <2>3
<1>3. ASSUME NEW s \in Sockets,
             \/ SocketOpen(s) \/ SocketClosed(s)
             \/ Break(s) \/ Silence(s) \/ SilenceEnds(s)
      PROVE  ReceiveInv'
  <2>1. Hushes
    BY <1>3, SocketOpenHushes, SocketClosedHushes, FaultsHush
  <2> QED
    BY <2>1, HushedReceive
<1>4. ASSUME NEW s \in Sockets, HandleMessage(s)
      PROVE  ReceiveInv'
  BY <1>4, HeardReceive
<1>5. ASSUME NEW s \in Sockets, BrokerReceive(s)
      PROVE  ReceiveInv'
  BY <1>5, ReadReceive
<1>6. CASE UNCHANGED vars
  BY <1>6 DEF vars, ReceiveInv
<1> QED
  BY <1>1, <1>2, <1>3, <1>4, <1>5, <1>6 DEF Next, SocketEvent

\* The fifth part of the invariant: what is on its way to the client can be
\* handed on, and the broker is told of no message that was not
\* (mqttws31.js _handleMessage and _receiveMessage).
THEOREM ReceiveKept ==
    ASSUME NoRetryFaults, IdsFit, BrokerIdsFit
    PROVE  Spec => []ReceiveInv
<1>1. Init => ReceiveInv
  BY ReceiveInit
<1>2. /\ Typed /\ Typed' /\ ConnInv /\ StoreCovers /\ Tidy /\ StreamInv
      /\ ReceiveInv /\ [Next]_vars
      => ReceiveInv'
  BY ReceiveNext
<1>3. (ClientInv => Tidy) /\ (SendInv => StreamInv)
  BY DEF ClientInv, SendInv
<1> QED
  BY <1>1, <1>2, <1>3, TypedCorrect, ConnCorrect, StoreAlwaysCovers,
     ClientInvariant, PromiseKept, PTL DEF Spec

-----------------------------------------------------------------------------
\* The client and the broker implement the promise in the other direction.

\* What the broker has in flight.
Owed == {broker.out[i].msg : i \in DOMAIN broker.out}

\* A step that changes neither numbers nor messages in flight.
LEMMA SameOwed ==
    ASSUME UNCHANGED <<inQos, arrived>>, Owed' = Owed
    PROVE  UNCHANGED In!vars
BY DEF Owed, In!vars

\* They are the messages of the map.
LEMMA OwedAre ==
    ASSUME NEW out, Separate(out)
    PROVE  {out[i].msg : i \in DOMAIN out} = MessagesOf(Flying(out))
<1> DEFINE f == Flying(out)
<1>1. /\ DOMAIN f = {out[k].id : k \in DOMAIN out}
      /\ \A k \in DOMAIN out : f[out[k].id] = Awaits(out[k])
  BY FlyingIs
<1> HIDE DEF f
<1>2. \A k \in DOMAIN out : out[k].id \in DOMAIN f /\ f[out[k].id].msg = out[k].msg
  <2> SUFFICES ASSUME NEW k \in DOMAIN out
               PROVE  out[k].id \in DOMAIN f /\ f[out[k].id].msg = out[k].msg
    OBVIOUS
  <2>1. out[k].id \in DOMAIN f /\ f[out[k].id] = Awaits(out[k])
    BY <1>1
  <2>2. Awaits(out[k]).msg = out[k].msg
    BY DEF Awaits
  <2> QED
    BY <2>1, <2>2
<1>3. \A i \in DOMAIN f : \E k \in DOMAIN out : out[k].id = i
  BY <1>1
<1> QED
  BY <1>2, <1>3 DEF MessagesOf, f

\* The broker accepts a message.
LEMMA PublishAccepts ==
    ASSUME Typed, NEW q \in 0..2, BrokerPublish(q)
    PROVE  \E m \in 1..InMsgs : In!Accept(m, q)
<1> DEFINE old == broker.out
           new == (broker.out)'
           used == {old[i].id : i \in DOMAIN old}
           id == IF q = 0 THEN 0 ELSE Min((1..InMsgs) \ used)
           entry(m) == [id |-> id, msg |-> m, qos |-> q, rel |-> FALSE]
<1>1. PICK m \in 1..InMsgs :
         /\ inQos[m] = Unsent /\ inQos' = [inQos EXCEPT ![m] = q]
         /\ broker' = IF q = 0 THEN broker
                      ELSE [broker EXCEPT !.out = Append(@, entry(m))]
  BY DEF BrokerPublish
<1>2. UNCHANGED arrived
  BY DEF BrokerPublish
<1>3. broker \in [conn : Sockets \union {NoSocket}, rec : SUBSET Nat,
                  out : Seq(Flights)]
  BY DEF Typed, TypeInv, BrokerOK
<1> DEFINE e == entry(m)
<1>4. e.msg = m
  OBVIOUS
<1> HIDE DEF e, id
<1>5. Owed' = IF q = 0 THEN Owed ELSE Owed \union {m}
  <2>1. CASE q = 0
    BY <1>1, <2>1 DEF Owed
  <2>2. CASE q # 0
    <3>1. old \in Seq(Flights) /\ new = Append(old, e)
      BY <1>1, <1>3, <2>2 DEF e
    <3> HIDE DEF old, new, entry
    <3>2. /\ DOMAIN new = DOMAIN old \union {Len(old) + 1} /\ new[Len(old) + 1] = e
          /\ \A i \in DOMAIN old : new[i] = old[i]
      BY <3>1
    <3>3. {new[i].msg : i \in DOMAIN new} = {old[i].msg : i \in DOMAIN old} \union {m}
      BY <1>4, <3>2
    <3> QED
      BY <2>2, <3>3 DEF Owed, old, new
  <2> QED
    BY <2>1, <2>2
<1>6. In!Accept(m, q)
  BY <1>1, <1>2, <1>5 DEF In!Accept, Unsent, In!Unsent, Owed
<1> QED
  BY <1>6

\* The application gets a message.
LEMMA HeardTakes ==
    ASSUME Takes, UNCHANGED <<broker, inQos>>
    PROVE  (\E m \in 1..InMsgs : In!Take(m)) \/ UNCHANGED In!vars
<1>1. Owed' = Owed
  BY DEF Owed
<1>2. CASE UNCHANGED arrived
  BY <1>1, <1>2, SameOwed
<1>3. ASSUME NEW m \in 1..InMsgs,
             inQos[m] # Unsent, arrived[m] = 0 \/ inQos[m] = 1,
             arrived' = [arrived EXCEPT ![m] = Saturate(@)]
      PROVE  In!Take(m)
  <2>1. arrived' = [arrived EXCEPT ![m] = IF @ = 0 THEN 1 ELSE 2]
    BY <1>3 DEF Saturate
  <2> QED
    BY <1>1, <1>3, <2>1 DEF In!Take, Unsent, In!Unsent, Owed
<1> QED
  BY <1>2, <1>3 DEF Takes

\* The broker forgets a message that the application got, or its session ends.
LEMMA ForgetsArrived ==
    ASSUME Typed, Typed', ReceiveInv, UNCHANGED <<inQos, arrived>>, NEW id,
           (broker.out)' = InFlight(id),
           ~c.clean => /\ id \in DOMAIN Flying(broker.out)
                       /\ arrived[Flying(broker.out)[id].msg] > 0
    PROVE  (\E m \in 1..InMsgs : In!Release(m)) \/ In!GiveUp
<1> DEFINE f == Flying(broker.out)
           h == Flying((broker.out)')
<1>1. /\ DOMAIN h = DOMAIN f \ {id}
      /\ \A i \in DOMAIN h : h[i] = f[i]
  BY FlyingLess
<1>2. Owed = MessagesOf(f) /\ Owed' = MessagesOf(h)
  <2>1. Separate(broker.out) /\ Separate((broker.out)')
    BY DEF Typed, TypeInv, BrokerOK, Separate
  <2> QED
    BY <2>1, OwedAre DEF Owed
<1>3. ~c.clean => FlyingOK(f, inQos)
  BY DEF ReceiveInv, InboundOK, LastingOK
<1> HIDE DEF f, h
<1>4. CASE c.clean
  <2>1. Owed' \in SUBSET Owed
    BY <1>1, <1>2 DEF MessagesOf
  <2> QED
    BY <1>4, <2>1 DEF In!GiveUp, Owed
<1>5. CASE ~c.clean
  <2> DEFINE m == f[id].msg
  <2>1. /\ id \in DOMAIN f /\ arrived[m] > 0 /\ m \in 1..InMsgs
        /\ \A i \in DOMAIN f : f[i].msg = m => i = id
    BY <1>3, <1>5 DEF FlyingOK, f
  <2>2. Owed' = Owed \ {m} /\ m \in Owed
    BY <1>1, <1>2, <2>1 DEF MessagesOf
  <2> HIDE DEF m
  <2>3. PICK n \in 1..InMsgs : n = m
    BY <2>1
  <2>4. In!Release(n)
    BY <2>1, <2>2, <2>3 DEF In!Release, Owed
  <2> QED
    BY <2>4
<1> QED
  BY <1>4, <1>5

\* The broker reads.
LEMMA ReadReleases ==
    ASSUME Typed, Typed', ConnInv, StreamInv, ReceiveInv, NEW s \in Sockets,
           BrokerReceive(s)
    PROVE  \/ \E m \in 1..InMsgs : In!Release(m)
           \/ In!GiveUp \/ UNCHANGED In!vars
<1> DEFINE p == Head(c.up[s])
           o == [c EXCEPT !.up[s] = Tail(@)]
           old == broker.out
           new == (broker.out)'
<1>1. \/ BrokerConnect(o, s, p.id = 1) /\ s # broker.conn
      \/ BrokerRefuse(o, s)
      \/ BrokerRejects(o, s)
      \/ BrokerAnswers(o, s, p) /\ s = broker.conn
  BY DEF BrokerReceive
<1>2. c.up[s] # <<>> /\ UNCHANGED <<inQos, arrived>>
  BY DEF BrokerReceive
<1>3. broker \in [conn : Sockets \union {NoSocket}, rec : SUBSET Nat,
                  out : Seq(Flights)]
  BY DEF Typed, TypeInv, BrokerOK
<1>4. CASE BrokerConnect(o, s, p.id = 1) /\ s # broker.conn
  <2>1. (p.id = 1) <=> c.clean
    BY <1>2, <1>4, PoppedIs
  <2>2. new = IF p.id = 1 THEN <<>> ELSE old
    BY <1>4 DEF BrokerConnect
  <2>3. CASE c.clean
    <3>1. new = <<>>
      BY <2>1, <2>2, <2>3
    <3>2. Owed' \in SUBSET Owed
      BY <3>1 DEF Owed
    <3> QED
      BY <1>2, <2>3, <3>2 DEF In!GiveUp, Owed
  <2>4. CASE ~c.clean
    <3>1. Owed' = Owed
      BY <2>1, <2>2, <2>4 DEF Owed
    <3> QED
      BY <1>2, <3>1, SameOwed
  <2> QED
    BY <2>3, <2>4
<1>5. CASE \/ BrokerRefuse(o, s) \/ BrokerRejects(o, s)
           \/ /\ BrokerAnswers(o, s, p)
              /\ p.kind \notin {"PUBACK", "PUBREC", "PUBCOMP"}
  <2>1. Hushes
    BY <1>5, ReadHushes
  <2>2. Owed' = Owed
    BY <2>1 DEF Hushes, Owed
  <2> QED
    BY <1>2, <2>2, SameOwed
<1>6. CASE /\ BrokerAnswers(o, s, p) /\ s = broker.conn
           /\ p.kind \in {"PUBACK", "PUBCOMP"}
  <2>1. /\ new = InFlight(p.id)
        /\ ~c.clean => /\ p.id \in DOMAIN Flying(old)
                       /\ arrived[Flying(old)[p.id].msg] > 0
    BY <1>2, <1>6, ForgetReceive
  <2> HIDE DEF p, o
  <2> QED
    BY <1>2, <2>1, ForgetsArrived
<1>7. CASE BrokerAnswers(o, s, p) /\ s = broker.conn /\ p.kind = "PUBREC"
  <2>1. new = [i \in DOMAIN old |->
                 IF old[i].id = p.id THEN [old[i] EXCEPT !.rel = TRUE] ELSE old[i]]
    BY <1>3, <1>7 DEF BrokerAnswers
  <2>2. \A i \in DOMAIN old : old[i] \in Flights
    BY <1>3
  <2> HIDE DEF p, old, new
  <2>3. DOMAIN new = DOMAIN old /\ \A i \in DOMAIN old : new[i].msg = old[i].msg
    BY <2>1, <2>2 DEF Flights
  <2>4. Owed' = Owed
    BY <2>3 DEF Owed, old, new
  <2> QED
    BY <1>2, <2>4, SameOwed
<1> QED
  BY <1>1, <1>4, <1>5, <1>6, <1>7

\* The start.
LEMMA ReceiptInit == Init => In!Init
<1> SUFFICES ASSUME Init PROVE In!Init
  OBVIOUS
<1>1. broker.out = <<>>
  BY DEF Init
<1>2. {broker.out[i].msg : i \in DOMAIN broker.out} = {}
  BY <1>1
<1> QED
  BY <1>2 DEF Init, In!Init, Unsent, In!Unsent

\* Every step is one of the promise, or a stutter.
LEMMA ReceiptStep ==
    ASSUME Typed, Typed', ConnInv, Tidy, StreamInv, ReceiveInv, BrokerIdsFit,
           [Next]_vars
    PROVE  [In!Next]_(In!vars)
<1>1. CASE UNCHANGED <<broker, inQos, arrived>>
  <2>1. Owed' = Owed
    BY <1>1 DEF Owed
  <2> QED
    BY <1>1, <2>1, SameOwed
<1>2. ASSUME NEW q \in Qualities, BrokerPublish(q)
      PROVE  [In!Next]_(In!vars)
  <2>1. q \in 0..2
    BY ConstantsAre
  <2>2. PICK m \in 1..InMsgs : In!Accept(m, q)
    BY <1>2, <2>1, PublishAccepts
  <2> QED
    BY <2>1, <2>2 DEF In!Next
<1>3. ASSUME NEW s \in Sockets, HandleMessage(s)
      PROVE  [In!Next]_(In!vars)
  <2>1. Takes /\ UNCHANGED <<broker, inQos>>
    BY <1>3, HeardReceive DEF HandleMessage, Quiet
  <2> QED
    BY <2>1, HeardTakes DEF In!Next
<1>4. ASSUME NEW s \in Sockets, BrokerReceive(s)
      PROVE  [In!Next]_(In!vars)
  BY <1>4, ReadReleases DEF In!Next
<1>5. CASE \/ AppConnect \/ AppRequest \/ AppDisconnect \/ Timer \/ SlowConnect
           \/ Crash \/ UNCHANGED vars
  <2>1. UNCHANGED <<broker, inQos, arrived>>
    BY <1>5 DEF AppConnect, AppRequest, AppDisconnect, Timer, ConnectTimeout,
         ReconnectTimeout, DoPing, SlowConnect, Crash, Unstored, vars
  <2> QED
    BY <1>1, <2>1
<1>6. CASE BrokerSeesEnd
  <2>1. (broker.out)' = broker.out /\ UNCHANGED <<inQos, arrived>>
    BY <1>6 DEF BrokerSeesEnd, Typed, TypeInv, BrokerOK
  <2>2. Owed' = Owed
    BY <2>1 DEF Owed
  <2> QED
    BY <2>1, <2>2, SameOwed
<1>7. ASSUME NEW q \in Qualities, AppSend(q)
      PROVE  [In!Next]_(In!vars)
  <2>1. UNCHANGED <<broker, inQos, arrived>>
    BY <1>7 DEF AppSend
  <2> QED
    BY <1>1, <2>1
<1>8. ASSUME NEW s \in Sockets,
             \/ SocketOpen(s) \/ SocketClosed(s)
             \/ Break(s) \/ Silence(s) \/ SilenceEnds(s)
      PROVE  [In!Next]_(In!vars)
  <2>1. UNCHANGED <<broker, inQos, arrived>>
    BY <1>8 DEF SocketOpen, SocketClosed, Break, Silence, SilenceEnds, Lose, Unstored
  <2> QED
    BY <1>1, <2>1
<1> QED
  BY <1>2, <1>3, <1>4, <1>5, <1>6, <1>7, <1>8 DEF Next, SocketEvent

\* The client and the broker implement what MQTT promises of the messages the
\* client receives.
THEOREM ReceiptImplemented ==
    ASSUME NoRetryFaults, IdsFit, BrokerIdsFit
    PROVE  Spec => ReceivesAsPromised
<1>1. Init => In!Init
  BY ReceiptInit
<1>2. /\ Typed /\ Typed' /\ ConnInv /\ Tidy /\ StreamInv /\ ReceiveInv /\ [Next]_vars
      => [In!Next]_(In!vars)
  BY ReceiptStep
<1>3. (ClientInv => Tidy) /\ (SendInv => StreamInv)
  BY DEF ClientInv, SendInv
<1> QED
  BY <1>1, <1>2, <1>3, TypedCorrect, ConnCorrect, ClientInvariant, PromiseKept,
     ReceiveKept, PTL DEF Spec, ReceivesAsPromised, In!Spec

\* What the promise comes to for the messages the client receives.
Received == INSTANCE DeliveryProofs WITH
              Msgs <- 1..InMsgs, clean <- c.clean, qos <- inQos, took <- arrived,
              held <- {broker.out[i].msg : i \in DOMAIN broker.out}

\* It is the promise of ReceivesAsPromised.
LEMMA SameReceipt ==
    ASSUME NoRetryFaults, IdsFit, BrokerIdsFit
    PROVE  Spec => Received!Spec
<1>1. In!Init => Received!Init
  BY DEF In!Init, Received!Init, In!Unsent, Received!Unsent
<1>2. [In!Next]_(In!vars) => [Received!Next]_(Received!vars)
  BY DEF In!Next, Received!Next, In!vars, Received!vars, In!Accept,
       Received!Accept, In!Take, Received!Take, In!Release, Received!Release,
       In!GiveUp, Received!GiveUp, In!Unsent, Received!Unsent
<1> QED
  BY <1>1, <1>2, ReceiptImplemented, PTL
     DEF ReceivesAsPromised, In!Spec, Received!Spec

\* However often the broker sends a message again, the application gets it once,
\* unless it was sent at quality 1 (mqttws31.js:2717-2719).
THEOREM ArrivesOnce ==
    ASSUME NoRetryFaults, IdsFit, BrokerIdsFit
    PROVE  Spec => [](\A m \in 1..InMsgs : inQos[m] # 1 => arrived[m] <= 1)
<1>1. Typed => c.clean \in BOOLEAN
  BY DEF Typed, TypeInv, ObjectOK
<1>2. Received!AtMostOnce => \A m \in 1..InMsgs : inQos[m] # 1 => arrived[m] <= 1
  BY DEF Received!AtMostOnce
<1> QED
  BY <1>1, <1>2, SameReceipt, TypedCorrect, Received!TakenAtMostOnce, PTL

\* Without a clean session, the broker has a message of quality 1 or 2 in flight
\* until the application got it: no acknowledgement goes out before that
\* (mqttws31.js:2718-2719).
THEOREM NothingMissed ==
    ASSUME NoRetryFaults, IdsFit, BrokerIdsFit
    PROVE  Spec /\ [](c.clean = FALSE) =>
              [](\A m \in 1..InMsgs :
                    inQos[m] \in {1, 2} => m \in Owed \/ arrived[m] > 0)
<1>1. Received!NotLost => \A m \in 1..InMsgs :
                    inQos[m] \in {1, 2} => m \in Owed \/ arrived[m] > 0
  BY DEF Received!NotLost, Owed
<1> QED
  BY <1>1, SameReceipt, Received!AcceptedNotLost, PTL
=============================================================================
