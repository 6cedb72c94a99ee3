----------------------------- MODULE MqttProofs -----------------------------
(***************************************************************************)
(* The client's types, its storage and its connection, for any number of   *)
(* messages, sockets and faults. What a restart of the page would need is  *)
(* in localStorage whatever goes wrong; and every field keeps its type,    *)
(* which takes that identifiers are given out one by one and so stay few,  *)
(* that the broker's messages in flight are different ones, and that a     *)
(* free socket is there whenever a connection is begun. A connection that  *)
(* is made is one packets go out on, unless a fault hits an attempt to     *)
(* retry.                                                                  *)
(***************************************************************************)
EXTENDS MqttInvariant, SeqLemmas, WellFoundedInduction, FiniteSetTheorems, TLAPS

Parts == {"sent", "received"}
Kept == Parts \union {"cursor", "sequence", "clean"}

\* An object p that has the sent and received messages of o, its counters and
\* its kind of session.
Keeps(p, o) ==
    /\ DOMAIN p = DOMAIN o
    /\ p.sent = o.sent /\ p.received = o.received
    /\ p.cursor = o.cursor /\ p.sequence = o.sequence /\ p.clean = o.clean

\* StoreCovers, of an object and a store, with the shape of both.
Covers(o, st) ==
    /\ Kept \subseteq DOMAIN o /\ Parts \subseteq DOMAIN st
    /\ \A i \in DOMAIN o.sent : "kind" \in DOMAIN o.sent[i]
    /\ \A i \in DOMAIN st.sent : "kind" \in DOMAIN st.sent[i]
    /\ \A i \in DOMAIN o.sent :
          o.sent[i].kind = "PUBLISH" =>
              i \in DOMAIN st.sent /\ st.sent[i] = o.sent[i]
    /\ st.received = o.received

CoversInv == Covers(c, store)

\* What covers the storage does so after a routine that leaves both maps
\* alone.
LEMMA KeepsCovers ==
    ASSUME NEW o, NEW p, NEW st, Keeps(p, o), Covers(o, st)
    PROVE  Covers(p, st)
BY DEF Keeps, Covers

\* Two such routines in a row are one.
LEMMA KeepsOn ==
    ASSUME NEW o, NEW p, NEW r, Keeps(p, o), Keeps(r, p)
    PROVE  Keeps(r, o)
BY DEF Keeps

-----------------------------------------------------------------------------
\* The routines of the object.
LEMMA SocketSendKeeps ==
    ASSUME NEW o, NEW ps, Kept \subseteq DOMAIN o
    PROVE  Keeps(SocketSend(o, ps), o)
BY DEF SocketSend, Keeps, Parts, Kept

\* A new socket.
LEMMA DoConnectKeeps ==
    ASSUME NEW o, Kept \subseteq DOMAIN o
    PROVE  Keeps(DoConnect(o), o)
BY DEF DoConnect, Keeps, Parts, Kept

\* A new attempt.
LEMMA ReconnectKeeps ==
    ASSUME NEW o, Kept \subseteq DOMAIN o
    PROVE  Keeps(Reconnect(o), o)
<1> DEFINE r == [o EXCEPT !.reconnecting = TRUE]
<1>1. Keeps(r, o) /\ Kept \subseteq DOMAIN r
  BY DEF Keeps, Parts, Kept
<1>2. Keeps(DoConnect(r), r)
  BY <1>1, DoConnectKeeps
<1> QED
  BY <1>1, <1>2 DEF Reconnect, Keeps

\* Giving up the socket.
LEMMA DetachKeeps ==
    ASSUME NEW o, Kept \subseteq DOMAIN o
    PROVE  Keeps(Detach(o), o)
BY DEF Detach, Keeps, Parts, Kept

\* _disconnected, whatever it goes on to do.
LEMMA DisconnectedKeeps ==
    ASSUME NEW o, NEW failed, Kept \subseteq DOMAIN o
    PROVE  Keeps(Disconnected(o, failed), o)
<1> DEFINE d == Detach(o)
           u == [d EXCEPT !.connected = FALSE]
           v == [d EXCEPT !.version = 3]
<1>1. Keeps(d, o) /\ Kept \subseteq DOMAIN d
  BY DetachKeeps DEF Keeps
<1> HIDE DEF d
<1>2. Keeps(u, o) /\ Kept \subseteq DOMAIN u
  BY <1>1 DEF Keeps, Parts, Kept
<1>3. Keeps(v, o) /\ Kept \subseteq DOMAIN v
  BY <1>1 DEF Keeps, Parts, Kept
<1> HIDE DEF u, v
<1>4. Keeps(Reconnect(u), o)
  BY <1>2, ReconnectKeeps, KeepsOn
<1>5. Keeps(DoConnect(v), o)
  BY <1>3, DoConnectKeeps, KeepsOn
<1>6. Keeps(RetryLater(o), o)
  BY DEF RetryLater, Keeps, Parts, Kept
<1>7. Disconnected(o, failed) \in {RetryLater(o), Reconnect(u), u, DoConnect(v), d}
  BY DEF Disconnected, d, u, v
<1> QED
  BY <1>1, <1>2, <1>4, <1>5, <1>6, <1>7

\* Sending the queue.
LEMMA ProcessQueueKeeps ==
    ASSUME NEW o, Kept \subseteq DOMAIN o
    PROVE  Keeps(ProcessQueue(o), o)
<1> DEFINE e == [o EXCEPT !.queue = <<>>]
           n == [o EXCEPT !.queue = Reverse(Tail(@))]
           t == SocketSend(e, SubSeq(o.queue, 1, Sendable(o)))
<1>1. Keeps(e, o) /\ Kept \subseteq DOMAIN e /\ Keeps(n, o)
  BY DEF Keeps, Parts, Kept
<1>2. Keeps(o, o)
  BY DEF Keeps
<1> HIDE DEF e, n
<1>3. Keeps(t, o) /\ Kept \subseteq DOMAIN t
  BY <1>1, SocketSendKeeps DEF Keeps
<1> HIDE DEF t
<1>4. Keeps(Disconnected(t, FALSE), o)
  BY <1>3, DisconnectedKeeps, KeepsOn
<1>5. ProcessQueue(o) \in {o, n, Disconnected(t, FALSE), t}
  BY DEF ProcessQueue, e, n, t
<1> QED
  BY <1>1, <1>2, <1>3, <1>4, <1>5

\* Putting packets in the queue.
LEMMA ScheduleKeeps ==
    ASSUME NEW o, NEW ps, Kept \subseteq DOMAIN o
    PROVE  Keeps(Schedule(o, ps), o)
<1> DEFINE q == [o EXCEPT !.queue = @ \o ps]
<1>1. Keeps(q, o) /\ Kept \subseteq DOMAIN q
  BY DEF Keeps, Parts, Kept
<1> HIDE DEF q
<1>2. Keeps(ProcessQueue(q), o)
  BY <1>1, ProcessQueueKeeps, KeepsOn
<1>3. Schedule(o, ps) \in {q, ProcessQueue(q)}
  BY DEF Schedule, q
<1> QED
  BY <1>1, <1>2, <1>3

\* The catch around a handler.
LEMMA CaughtKeeps ==
    ASSUME NEW b, NEW a, NEW o, Keeps(a, o), Kept \subseteq DOMAIN o
    PROVE  Keeps(Caught(b, a), o)
<1>1. Kept \subseteq DOMAIN a
  BY DEF Keeps
<1>2. Keeps(Disconnected(a, TRUE), o)
  BY <1>1, DisconnectedKeeps, KeepsOn
<1> QED
  BY <1>2 DEF Caught

\* A packet put in the queue by a handler.
LEMMA ScheduleInHandlerKeeps ==
    ASSUME NEW o, NEW p, Kept \subseteq DOMAIN o
    PROVE  Keeps(ScheduleInHandler(o, p), o)
<1> DEFINE q == [o EXCEPT !.queue = Append(@, p)]
<1>1. Keeps(q, o) /\ Kept \subseteq DOMAIN q
  BY DEF Keeps, Parts, Kept
<1> HIDE DEF q
<1>2. Keeps(ProcessQueue(q), o)
  BY <1>1, ProcessQueueKeeps, KeepsOn
<1>3. Keeps(Caught(q, ProcessQueue(q)), o)
  BY <1>2, CaughtKeeps
<1>4. ScheduleInHandler(o, p) \in {q, Caught(q, ProcessQueue(q))}
  BY DEF ScheduleInHandler, q
<1> QED
  BY <1>1, <1>3, <1>4

\* An accepted connection, on which all that awaits an answer is sent again.
LEMMA AcceptedKeeps ==
    ASSUME NEW o, NEW q, Kept \subseteq DOMAIN o
    PROVE  Keeps(Accepted(o, q), o)
<1> DEFINE ps == [i \in DOMAIN q |-> q[i].pkt]
           s == [o EXCEPT !.connected = TRUE, !.buffered = <<>>,
                          !.notify = @ /\ o.buffered = <<>>,
                          !.queue = @ \o IF CanSend(o) THEN ps
                                      ELSE SubSeq(ps, 1, Min({1, Len(ps)}))]
           r == [s EXCEPT !.reconnecting =
                              @ /\ ps # <<>> /\ ProcessThrows(s)]
<1>1. Keeps(s, o)
  BY DEF Keeps, Parts, Kept
<1> HIDE DEF s
<1>2. Keeps(r, s)
  BY <1>1 DEF Keeps, Parts, Kept
<1>3. Accepted(o, q) = Caught(s, ProcessQueue(r))
  BY DEF Accepted, s
<1> HIDE DEF r, ps
<1>4. Keeps(r, o) /\ Kept \subseteq DOMAIN r
  BY <1>1, <1>2 DEF Keeps
<1>5. Keeps(ProcessQueue(r), o)
  BY <1>4, ProcessQueueKeeps, KeepsOn
<1> QED
  BY <1>3, <1>5, CaughtKeeps

-----------------------------------------------------------------------------
\* The handlers of packets, on the object without the packet.
LEMMA ConnackCovers ==
    ASSUME NEW o, NEW p, Covers(o, store), HandleConnack(o, p)
    PROVE  CoversInv'
<1> DEFINE t == [o EXCEPT !.connectTimer = "idle",
                       !.reconnectTimer = IF @ = "armed" THEN "idle" ELSE @]
           u == Cleaned(t)
           left == [sent |-> [i \in DOMAIN store.sent \ DOMAIN o.sent |->
                                store.sent[i]],
                    received |-> [i \in DOMAIN store.received
                                        \ DOMAIN o.received |->
                                    store.received[i]]]
<1>1. Kept \subseteq DOMAIN o /\ store.received = o.received
  BY DEF Covers
<1>2. Keeps(t, o) /\ t.clean = o.clean
  BY <1>1 DEF Keeps, Parts, Kept
<1> HIDE DEF t
<1>3. CASE o.connectTimer = "null"
  <2>1. c' = Disconnected(o, TRUE) /\ store' = store
    BY <1>3 DEF HandleConnack
  <2> QED
    BY <2>1, <1>1, DisconnectedKeeps, KeepsCovers DEF CoversInv
<1>4. CASE o.connectTimer # "null"
  <2>1. Covers(u, store')
    <3>1. CASE ~o.clean
      <4>1. store' = store
        BY <1>4, <3>1 DEF HandleConnack
      <4>2. u = t
        BY <1>2, <3>1 DEF Cleaned
      <4> QED
        BY <4>1, <4>2, <1>2, KeepsCovers
    <3>2. CASE o.clean
      <4>1. store' = left
        BY <1>4, <3>2 DEF HandleConnack
      <4>2. u = [t EXCEPT !.sent = Empty, !.received = Empty]
        BY <1>2, <3>2 DEF Cleaned
      <4>3. DOMAIN left.received = {} /\ DOMAIN Empty = {}
        BY <1>1 DEF Empty
      <4>4. left.received = Empty
        BY <1>1 DEF Empty
      <4>5. Kept \subseteq DOMAIN u /\ u.sent = Empty /\ u.received = Empty
        BY <4>2, <1>1, <1>2 DEF Keeps, Parts, Kept
      <4>6. Parts \subseteq DOMAIN left
        BY DEF Parts, Kept
      <4>7. \A i \in DOMAIN left.sent : "kind" \in DOMAIN left.sent[i]
        BY DEF Covers
      <4> HIDE DEF left, u
      <4> QED
        BY <4>1, <4>3, <4>4, <4>5, <4>6, <4>7 DEF Covers
    <3> QED
      BY <3>1, <3>2
  <2> HIDE DEF u
  <2>2. Kept \subseteq DOMAIN u
    BY <2>1 DEF Covers
  <2>3. Keeps(c', u)
    <3>1. CASE p.kind = "REFUSED"
      <4>1. c' = Disconnected(u, TRUE)
        BY <1>4, <3>1 DEF HandleConnack, t, u
      <4> QED
        BY <4>1, <2>2, DisconnectedKeeps
    <3>2. CASE p.kind # "REFUSED"
      <4>1. \E q \in Orders(u) : c' = Accepted(u, q)
        BY <1>4, <3>2 DEF HandleConnack, t, u
      <4> QED
        BY <4>1, <2>2, AcceptedKeeps
    <3> QED
      BY <3>1, <3>2
  <2> QED
    BY <2>1, <2>3, KeepsCovers DEF CoversInv
<1> QED
  BY <1>3, <1>4

\* A PUBLISH handled.
LEMMA PublishCovers ==
    ASSUME NEW o, NEW p, Covers(o, store), HandlePublish(o, p)
    PROVE  CoversInv'
<1>1. Kept \subseteq DOMAIN o
  BY DEF Covers
<1>2. CASE p.qos = 0
  BY <1>2 DEF HandlePublish, CoversInv
<1>3. CASE p.qos = 1
  <2>1. c' = ScheduleInHandler(o, Control("PUBACK", p.id)) /\ store' = store
    BY <1>3 DEF HandlePublish
  <2> QED
    BY <2>1, <1>1, ScheduleInHandlerKeeps, KeepsCovers DEF CoversInv
<1>4. CASE p.qos = 2
  <2> DEFINE r == [o EXCEPT !.received = Bind(@, p.id, p.msg)]
  <2>1. /\ c' = ScheduleInHandler(r, Control("PUBREC", p.id))
        /\ store' = StoreReceived(r, p.id)
    BY <1>4 DEF HandlePublish
  <2>2. /\ r.received = Bind(o.received, p.id, p.msg) /\ r.sent = o.sent
        /\ Kept \subseteq DOMAIN r
    BY <1>1 DEF Parts, Kept
  <2>3. r.received[p.id] = p.msg
    BY <2>2 DEF Bind
  <2> HIDE DEF r
  <2>4. store' = [store EXCEPT !.received = Bind(@, p.id, p.msg)]
    BY <2>1, <2>3 DEF StoreReceived
  <2>5. Covers(r, store')
    BY <2>2, <2>4 DEF Covers
  <2> QED
    BY <2>1, <2>2, <2>5, ScheduleInHandlerKeeps, KeepsCovers DEF CoversInv
<1> QED
  BY <1>2, <1>3, <1>4 DEF HandlePublish

\* A message forgotten, in memory and in the store.
LEMMA ForgetCovers ==
    ASSUME NEW o, NEW p, Covers(o, store), Forget(o, p)
    PROVE  CoversInv'
BY DEF Forget, Unbind, Covers, CoversInv, Parts, Kept

\* A PUBREC handled: stored before PUBREL is sent.
LEMMA PubrecCovers ==
    ASSUME NEW o, NEW p, Covers(o, store), HandlePubrec(o, p)
    PROVE  CoversInv'
<1> DEFINE r == [o EXCEPT !.sent[p.id].rec = TRUE]
<1>1. Kept \subseteq DOMAIN o
  BY DEF Covers
<1>2. CASE p.id \notin DOMAIN o.sent
  BY <1>2 DEF HandlePubrec, CoversInv
<1>3. CASE p.id \in DOMAIN o.sent
  <2>1. /\ Kept \subseteq DOMAIN r /\ r.received = o.received
        /\ DOMAIN r.sent = DOMAIN o.sent
        /\ \A i \in DOMAIN o.sent : i # p.id => r.sent[i] = o.sent[i]
    BY <1>1 DEF Parts, Kept
  <2>2. /\ "kind" \in DOMAIN r.sent[p.id]
        /\ r.sent[p.id].kind = o.sent[p.id].kind
    BY <1>1, <1>3 DEF Covers, Parts, Kept
  <2>3. CASE o.sent[p.id].kind = "REQUEST"
    <3>1. c' = Disconnected(r, TRUE) /\ store' = store
      BY <1>3, <2>3 DEF HandlePubrec
    <3> HIDE DEF r
    <3>2. Covers(r, store)
      BY <2>1, <2>2, <2>3 DEF Covers
    <3> QED
      BY <3>1, <3>2, <2>1, DisconnectedKeeps, KeepsCovers DEF CoversInv
  <2>4. CASE o.sent[p.id].kind # "REQUEST"
    <3>1. /\ c' = ScheduleInHandler(r, Control("PUBREL", p.id))
          /\ store' = [store EXCEPT !.sent = Bind(@, p.id, r.sent[p.id])]
      BY <1>3, <2>4 DEF HandlePubrec, StoreSent
    <3> HIDE DEF r
    <3>2. Covers(r, store')
      BY <2>1, <2>2, <3>1 DEF Covers, Bind, Parts, Kept
    <3> QED
      BY <3>1, <3>2, <2>1, ScheduleInHandlerKeeps, KeepsCovers DEF CoversInv
  <2> QED
    BY <2>3, <2>4
<1> QED
  BY <1>2, <1>3

\* A PUBREL handled: the message is passed on and forgotten.
LEMMA PubrelCovers ==
    ASSUME NEW o, NEW p, Covers(o, store), HandlePubrel(o, p)
    PROVE  CoversInv'
<1> DEFINE r == [o EXCEPT !.received = Unbind(@, p.id)]
<1>1. /\ c' = ScheduleInHandler(r, Control("PUBCOMP", p.id))
      /\ store' = [store EXCEPT !.received = Unbind(@, p.id)]
  BY DEF HandlePubrel
<1>2. Covers(r, store') /\ Kept \subseteq DOMAIN r
  BY <1>1 DEF Covers, Parts, Kept
<1> HIDE DEF r
<1> QED
  BY <1>1, <1>2, ScheduleInHandlerKeeps, KeepsCovers DEF CoversInv

\* A PUBCOMP handled.
LEMMA PubcompCovers ==
    ASSUME NEW o, NEW p, Covers(o, store), HandlePubcomp(o, p)
    PROVE  CoversInv'
<1>1. CASE p.id \in DOMAIN o.sent
  BY <1>1, ForgetCovers DEF HandlePubcomp
<1>2. CASE p.id \notin DOMAIN o.sent
  <2>1. /\ c' = Disconnected(o, TRUE)
        /\ store' = [store EXCEPT !.sent = Unbind(@, p.id)]
    BY <1>2 DEF HandlePubcomp
  <2>2. Covers(o, store')
    BY <2>1, <1>2 DEF Covers, Unbind, Parts, Kept
  <2>3. Kept \subseteq DOMAIN o
    BY DEF Covers
  <2> QED
    BY <2>1, <2>2, <2>3, DisconnectedKeeps, KeepsCovers DEF CoversInv
<1> QED
  BY <1>1, <1>2

\* A REQUESTACK handled: forgotten in memory only.
LEMMA RequestAckCovers ==
    ASSUME NEW o, NEW p, Covers(o, store), HandleRequestAck(o, p)
    PROVE  CoversInv'
BY DEF HandleRequestAck, Unbind, Covers, CoversInv, Parts, Kept

-----------------------------------------------------------------------------
\* The calls of the application that send.
LEMMA RequiresAckCovers ==
    ASSUME NEW kind, NEW m, NEW q, CoversInv
    PROVE  LET r == RequiresAck(kind, m, q)
           IN  /\ Kept \subseteq DOMAIN r
               /\ r.received = c.received
               /\ DOMAIN r.sent = DOMAIN c.sent \union {FreeId}
               /\ \A i \in DOMAIN c.sent :
                     i # FreeId => r.sent[i] = c.sent[i]
               /\ "kind" \in DOMAIN r.sent[FreeId]
               /\ r.sent[FreeId].kind = kind
BY DEF RequiresAck, CoversInv, Covers, Bind, Parts, Kept

\* send(): what awaits an acknowledgement is stored.
LEMMA SendCovers ==
    ASSUME NEW q, CoversInv, AppSend(q), q \in {0, 1, 2}
    PROVE  CoversInv'
<1> DEFINE m == NextOut
           r == RequiresAck("PUBLISH", m, q)
           pkt(i) == Packet("PUBLISH", i, m, q)
           n == [c EXCEPT !.notify = FALSE]
<1>1. Kept \subseteq DOMAIN c
  BY DEF CoversInv, Covers
<1>2. CASE q = 0
  <2>1. store' = store
    BY <1>2 DEF AppSend
  <2>2. Keeps(n, c) /\ Kept \subseteq DOMAIN n
    BY <1>1 DEF Keeps, Parts, Kept
  <2>3. CASE c.connected
    <3>1. c' = Schedule(n, <<pkt(0)>>)
      BY <1>2, <2>3 DEF AppSend
    <3> HIDE DEF n
    <3> QED
      BY <3>1, <2>1, <2>2, ScheduleKeeps, KeepsCovers DEF CoversInv
  <2>4. CASE ~c.connected
    <3>1. DOMAIN c' = DOMAIN c /\ c'.sent = c.sent /\ c'.received = c.received
      BY <1>1, <1>2, <2>4 DEF AppSend, Parts, Kept
    <3> QED
      BY <3>1, <2>1 DEF CoversInv, Covers
  <2> QED
    BY <2>3, <2>4
<1>3. CASE q > 0
  <2>1. store' = [store EXCEPT !.sent = Bind(@, FreeId, r.sent[FreeId])]
    BY <1>3 DEF AppSend, StoreSent
  <2>2. c' \in {Schedule(r, <<pkt(FreeId)>>), r}
    BY <1>3 DEF AppSend
  <2>3. Covers(r, store')
    <3>1. /\ Kept \subseteq DOMAIN r /\ r.received = c.received
          /\ DOMAIN r.sent = DOMAIN c.sent \union {FreeId}
          /\ \A i \in DOMAIN c.sent : i # FreeId => r.sent[i] = c.sent[i]
          /\ "kind" \in DOMAIN r.sent[FreeId]
      BY RequiresAckCovers
    <3> HIDE DEF r
    <3> QED
      BY <2>1, <3>1 DEF CoversInv, Covers, Bind, Parts, Kept
  <2>4. Kept \subseteq DOMAIN r
    BY <2>3 DEF Covers
  <2> HIDE DEF r
  <2> QED
    BY <2>2, <2>3, <2>4, ScheduleKeeps, KeepsCovers DEF CoversInv
<1> QED
  BY <1>2, <1>3

\* The application's request.
LEMMA RequestCovers ==
    ASSUME CoversInv, AppRequest
    PROVE  CoversInv'
<1> DEFINE r == RequiresAck("REQUEST", 0, 0)
<1>1. c' = Schedule(r, <<Control("REQUEST", FreeId)>>) /\ store' = store
  BY DEF AppRequest
<1>2. Covers(r, store)
  <2>1. /\ Kept \subseteq DOMAIN r /\ r.received = c.received
        /\ DOMAIN r.sent = DOMAIN c.sent \union {FreeId}
        /\ \A i \in DOMAIN c.sent : i # FreeId => r.sent[i] = c.sent[i]
        /\ "kind" \in DOMAIN r.sent[FreeId]
        /\ r.sent[FreeId].kind = "REQUEST"
    BY RequiresAckCovers
  <2> HIDE DEF r
  <2> QED
    BY <2>1 DEF CoversInv, Covers
<1>3. Kept \subseteq DOMAIN r
  BY <1>2 DEF Covers
<1> HIDE DEF r
<1> QED
  BY <1>1, <1>2, <1>3, ScheduleKeeps, KeepsCovers DEF CoversInv

\* connect() and disconnect() leave both maps alone.
LEMMA AppCovers ==
    ASSUME CoversInv, AppConnect \/ AppDisconnect
    PROVE  CoversInv'
<1> DEFINE n == [c EXCEPT !.reconnecting = FALSE, !.version = 4,
                     !.reconnectTimer = IF c.reconnecting THEN "null" ELSE @]
           o == IF c.reconnecting
                THEN [c EXCEPT !.reconnecting = FALSE, !.reconnectTimer = "null"]
                ELSE c
           w == [o EXCEPT !.notify = TRUE]
           p == <<Control("DISCONNECT", 0)>>
<1>1. Kept \subseteq DOMAIN c
  BY DEF CoversInv, Covers
<1>2. Keeps(n, c) /\ Kept \subseteq DOMAIN n
  BY <1>1 DEF Keeps, Parts, Kept
<1>3. Keeps(o, c) /\ Kept \subseteq DOMAIN o
  BY <1>1 DEF Keeps, Parts, Kept
<1>4. store' = store /\ c' \in {DoConnect(n), o, Schedule(w, p)}
  BY DEF AppConnect, AppDisconnect
<1> HIDE DEF n, o, p
<1>5. Keeps(w, c) /\ Kept \subseteq DOMAIN w
  BY <1>3 DEF Keeps, Parts, Kept
<1> HIDE DEF w
<1>6. Keeps(DoConnect(n), c) /\ Keeps(Schedule(w, p), c)
  BY <1>2, <1>5, DoConnectKeeps, ScheduleKeeps, KeepsOn
<1> QED
  BY <1>3, <1>4, <1>6, KeepsCovers DEF CoversInv

-----------------------------------------------------------------------------
\* Sockets, timers, packets, the broker and the faults.
LEMMA SocketCovers ==
    ASSUME NEW s, CoversInv, SocketOpen(s) \/ SocketClosed(s)
    PROVE  CoversInv'
<1> DEFINE o == [c EXCEPT !.ready[s] = "open"]
           d == [c EXCEPT !.ready[s] = "closed", !.on[s] = FALSE,
                          !.up[s] = <<>>]
<1>1. Kept \subseteq DOMAIN c
  BY DEF CoversInv, Covers
<1>2. /\ Keeps(o, c) /\ Kept \subseteq DOMAIN o
      /\ Keeps(d, c) /\ Kept \subseteq DOMAIN d
  BY <1>1 DEF Keeps, Parts, Kept
<1>3. /\ store' = store
      /\ c' \in {SocketSend(o, <<Connect(o)>>), o, d, Disconnected(d, TRUE)}
  BY DEF SocketOpen, SocketClosed, Unstored
<1> HIDE DEF o, d
<1>4. /\ Keeps(SocketSend(o, <<Connect(o)>>), c)
      /\ Keeps(Disconnected(d, TRUE), c)
  BY <1>2, SocketSendKeeps, DisconnectedKeeps, KeepsOn
<1> QED
  BY <1>2, <1>3, <1>4, KeepsCovers DEF CoversInv

\* The timers leave both maps alone.
LEMMA TimerCovers ==
    ASSUME CoversInv, Timer \/ SlowConnect
    PROVE  CoversInv'
<1> DEFINE t == [c EXCEPT !.connectTimer = "idle"]
           r == [c EXCEPT !.reconnectTimer = "idle"]
           n == [c EXCEPT !.orphans = @ - 1]
           w == [c EXCEPT !.pinger = "waiting"]
           e == [c EXCEPT !.pinger = "off"]
<1>1. Kept \subseteq DOMAIN c
  BY DEF CoversInv, Covers
<1>2. \A o \in {t, r, n, w, e} : Keeps(o, c) /\ Kept \subseteq DOMAIN o
  BY <1>1 DEF Keeps, Parts, Kept
<1>3. /\ store' = store
      /\ c' \in {Disconnected(t, TRUE), Reconnect(r), Reconnect(n), w,
                 Disconnected(e, TRUE)}
  BY DEF Timer, SlowConnect, ConnectTimeout, ReconnectTimeout,
         DoPing, Unstored
<1> HIDE DEF t, r, n, w, e
<1>4. /\ Keeps(Disconnected(t, TRUE), c) /\ Keeps(Disconnected(e, TRUE), c)
      /\ Keeps(Reconnect(r), c) /\ Keeps(Reconnect(n), c)
  BY <1>2, DisconnectedKeeps, ReconnectKeeps, KeepsOn
<1> QED
  BY <1>2, <1>3, <1>4, KeepsCovers DEF CoversInv

\* Any packet the client takes.
LEMMA MessageCovers ==
    ASSUME NEW s, CoversInv, HandleMessage(s)
    PROVE  CoversInv'
<1> DEFINE p == Head(c.down[s])
           o == [c EXCEPT !.down[s] = Tail(@)]
<1>1. Keeps(o, c)
  BY DEF Keeps, CoversInv, Covers, Parts, Kept
<1>2. Covers(o, store)
  BY <1>1, KeepsCovers DEF CoversInv
<1>3. \/ HandleConnack(o, p) \/ HandlePublish(o, p) \/ HandlePuback(o, p)
      \/ HandlePubrec(o, p) \/ HandlePubrel(o, p) \/ HandlePubcomp(o, p)
      \/ HandleRequestAck(o, p)
  BY DEF HandleMessage
<1> HIDE DEF p, o
<1> QED
  BY <1>2, <1>3, ConnackCovers, PublishCovers, ForgetCovers, PubrecCovers,
     PubrelCovers, PubcompCovers, RequestAckCovers
     DEF HandlePuback, CoversInv

\* Packets put on the way to the client.
LEMMA DeliverKeeps ==
    ASSUME NEW o, NEW s, NEW ps, Kept \subseteq DOMAIN o
    PROVE  Keeps(Deliver(o, s, ps), o)
BY DEF Deliver, Keeps, Parts, Kept

\* The end of a connection.
LEMMA DropKeeps ==
    ASSUME NEW o, NEW s, Kept \subseteq DOMAIN o
    PROVE  Keeps(Drop(o, s), o)
BY DEF Drop, Keeps, Parts, Kept

\* The broker's steps.
LEMMA BrokerCovers ==
    ASSUME NEW s, CoversInv, BrokerReceive(s)
    PROVE  CoversInv'
<1> DEFINE p == Head(c.up[s])
           o == [c EXCEPT !.up[s] = Tail(@)]
<1>1. Keeps(o, c) /\ Kept \subseteq DOMAIN o
  BY DEF Keeps, CoversInv, Covers, Parts, Kept
<1>2. /\ \/ BrokerConnect(o, s, p.id = 1) \/ BrokerRefuse(o, s)
         \/ BrokerRejects(o, s) \/ BrokerAnswers(o, s, p)
      /\ store' = store
  BY DEF BrokerReceive
<1> HIDE DEF p, o
<1>3. \A t, ps : Keeps(Deliver(o, t, ps), o) /\ Keeps(Drop(o, t), o)
  BY <1>1, DeliverKeeps, DropKeeps
<1>4. CASE BrokerConnect(o, s, p.id = 1)
  <2>1. \E ps : c' = Deliver(Drop(o, broker.conn), s, ps)
    BY <1>4 DEF BrokerConnect
  <2>2. Keeps(Drop(o, broker.conn), o) /\ Kept \subseteq DOMAIN Drop(o, broker.conn)
    BY <1>1, <1>3 DEF Keeps
  <2> QED
    BY <2>1, <2>2, DeliverKeeps, KeepsOn, <1>1, <1>2, KeepsCovers DEF CoversInv
<1>5. CASE BrokerRefuse(o, s)
  <2> DEFINE d == Deliver(o, s, <<Control("REFUSED", 0)>>)
  <2>1. c' = Drop(d, s)
    BY <1>5 DEF BrokerRefuse
  <2>2. Keeps(d, o) /\ Kept \subseteq DOMAIN d
    BY <1>1, <1>3 DEF Keeps
  <2> HIDE DEF d
  <2> QED
    BY <2>1, <2>2, DropKeeps, KeepsOn, <1>1, <1>2, KeepsCovers DEF CoversInv
<1>6. CASE BrokerRejects(o, s)
  BY <1>6, <1>1, <1>2, <1>3, KeepsOn, KeepsCovers DEF BrokerRejects, CoversInv
<1>7. CASE BrokerAnswers(o, s, p)
  <2>1. c' = o \/ c' = Drop(o, s) \/ \E ps : c' = Deliver(o, s, ps)
    BY <1>7 DEF BrokerAnswers
  <2> QED
    BY <2>1, <1>1, <1>2, <1>3, KeepsOn, KeepsCovers DEF CoversInv
<1> QED
  BY <1>2, <1>4, <1>5, <1>6, <1>7

\* The network's.
LEMMA WorldCovers ==
    ASSUME NEW s, NEW q, CoversInv,
           \/ BrokerSeesEnd \/ BrokerPublish(q)
           \/ Break(s) \/ Silence(s) \/ SilenceEnds(s)
    PROVE  CoversInv'
<1>1. Kept \subseteq DOMAIN c
  BY DEF CoversInv, Covers
<1>2. store' = store
  BY DEF BrokerSeesEnd, BrokerPublish, Break, Silence, SilenceEnds, Lose
<1>3. CASE BrokerPublish(q)
  <2>1. \E ps : c' = Deliver(c, broker.conn, ps)
    BY <1>3 DEF BrokerPublish
  <2> QED
    BY <2>1, <1>1, <1>2, DeliverKeeps, KeepsCovers DEF CoversInv
<1>4. CASE BrokerSeesEnd
  BY <1>4, <1>2 DEF BrokerSeesEnd, CoversInv
<1>5. CASE Break(s) \/ Silence(s) \/ SilenceEnds(s)
  <2>1. Keeps(c', c)
    BY <1>5, <1>1 DEF Break, Silence, SilenceEnds, Lose, Keeps, Parts, Kept
  <2> QED
    BY <2>1, <1>2, KeepsCovers DEF CoversInv
<1> QED
  BY <1>3, <1>4, <1>5

\* A page that is opened again has what was stored.
LEMMA CrashCovers ==
    ASSUME CoversInv, Crash
    PROVE  CoversInv'
BY DEF Crash, NewClient, CoversInv, Covers, Parts, Kept

-----------------------------------------------------------------------------
\* The start.
LEMMA CoversInit ==
    ASSUME Init
    PROVE  CoversInv
BY DEF Init, NewClient, Empty, CoversInv, Covers, Parts, Kept

\* Every step.
LEMMA CoversNext ==
    ASSUME CoversInv, [Next]_vars
    PROVE  CoversInv'
<1>1. CASE AppConnect \/ AppDisconnect
  BY <1>1, AppCovers
<1>2. CASE AppRequest
  BY <1>2, RequestCovers
<1>3. CASE \E q \in Qualities : AppSend(q)
  <2>1. PICK q \in Qualities : AppSend(q)
    BY <1>3
  <2>2. q \in 0..2
    BY MqttAssumption DEF MqttAssumption
  <2>3. q \in {0, 1, 2}
    BY <2>2
  <2> QED
    BY <2>1, <2>3, SendCovers
<1>4. CASE \E q \in Qualities : BrokerPublish(q)
  BY <1>4, WorldCovers
<1>5. CASE \E s \in Sockets : SocketOpen(s) \/ SocketClosed(s)
  BY <1>5, SocketCovers
<1>6. CASE \E s \in Sockets : HandleMessage(s)
  BY <1>6, MessageCovers
<1>7. CASE \E s \in Sockets : BrokerReceive(s)
  BY <1>7, BrokerCovers
<1>8. CASE \E s \in Sockets : Break(s) \/ Silence(s) \/ SilenceEnds(s)
  BY <1>8, WorldCovers
<1>9. CASE BrokerSeesEnd
  BY <1>9, WorldCovers
<1>10. CASE Timer \/ SlowConnect
  BY <1>10, TimerCovers
<1>11. CASE Crash
  BY <1>11, CrashCovers
<1>12. CASE UNCHANGED vars
  BY <1>12 DEF vars, CoversInv
<1> QED
  BY <1>1, <1>2, <1>3, <1>4, <1>5, <1>6, <1>7, <1>8, <1>9, <1>10, <1>11, <1>12
  DEF Next, SocketEvent

\* A restart of the page loses no message that awaits an acknowledgement and
\* none that was received and not yet released, wherever it comes and
\* whatever happened before (store and restore, mqttws31.js:1219-1307).
THEOREM StoreAlwaysCovers == Spec => []StoreCovers
<1>1. Init => CoversInv
  BY CoversInit
<1>2. CoversInv /\ [Next]_vars => CoversInv'
  BY CoversNext
<1>3. CoversInv => StoreCovers
  BY DEF CoversInv, Covers, StoreCovers
<1> QED
  BY <1>1, <1>2, <1>3, PTL DEF Spec

-----------------------------------------------------------------------------
(***************************************************************************)
(* The routines of the object keep its types. A socket must be free where  *)
(* one may be opened.                                                      *)
(***************************************************************************)

\* Every set of naturals with an element has a smallest one.
LEMMA Smallest ==
    ASSUME NEW T \in SUBSET Nat, T # {}
    PROVE  \E x \in T : \A y \in T : x <= y
<1> DEFINE R == OpToRel(<, Nat)
<1>1. IsWellFoundedOn(R, Nat)
  BY NatLessThanWellFounded
<1>2. \A x, y \in Nat : <<x, y>> \in R <=> x < y
  BY DEF OpToRel
<1> HIDE DEF R
<1>3. PICK x \in T : \A y \in T : ~(<<y, x>> \in R)
  BY <1>1, WFMin
<1>4. x \in Nat /\ \A y \in T : y \in Nat /\ ~(y < x)
  BY <1>2, <1>3
<1> QED
  BY <1>4

\* Min finds it.
LEMMA MinIs ==
    ASSUME NEW T \in SUBSET Nat, T # {}
    PROVE  Min(T) \in T /\ \A y \in T : Min(T) <= y
BY Smallest DEF Min

-----------------------------------------------------------------------------
\* The packets the model builds are packets.
LEMMA PacketIs ==
    ASSUME NEW kind \in Kinds, NEW id \in Nat, NEW m \in 0..TopMsg, NEW q \in 0..2
    PROVE  Packet(kind, id, m, q) \in Packets
BY DEF Packet, Packets

\* What the constants are assumed to be.
LEMMA ConstantsAre ==
    /\ OutMsgs \in Nat /\ InMsgs \in Nat /\ MaxUpsets \in Nat
    /\ MaxId \in Nat \ {0} /\ WireIds \in Nat \ {0}
    /\ NumSockets \in Nat \ {0}
    /\ Qualities \subseteq 0..2 /\ CleanSession \subseteq BOOLEAN
BY MqttAssumption DEF MqttAssumption

\* Every message's number is at most TopMsg.
LEMMA TopIs ==
    /\ TopMsg \in Nat /\ OutMsgs <= TopMsg /\ InMsgs <= TopMsg
    /\ OutMsgs \in Nat /\ InMsgs \in Nat
<1> DEFINE T == {OutMsgs, InMsgs}
<1>1. T \in SUBSET Nat
  BY MqttAssumption DEF MqttAssumption
<1>2. \A x \in T, y \in T : \E z \in T : z >= x /\ z >= y
  BY <1>1
<1>3. \E z \in T : \A y \in T : z >= y
  BY <1>1
<1>4. TopMsg \in T /\ \A y \in T : TopMsg >= y
  BY <1>3 DEF TopMsg, Max
<1> QED
  BY <1>1, <1>4

\* A packet that carries no message.
LEMMA ControlIs ==
    ASSUME NEW kind \in Kinds, NEW id \in Nat
    PROVE  Control(kind, id) \in Packets
BY PacketIs, TopIs DEF Control

\* The bytes of a sequence of packets: as many, identifiers cut to two bytes.
LEMMA EncodedIs ==
    ASSUME NEW ps \in Seq(Packets)
    PROVE  /\ Encoded(ps) \in Seq(Packets) /\ Len(Encoded(ps)) = Len(ps)
           /\ \A i \in 1..Len(ps) :
                Encoded(ps)[i] = [ps[i] EXCEPT !.id = @ % WireIds]
<1>1. ASSUME NEW i \in 1..Len(ps)
      PROVE  [ps[i] EXCEPT !.id = @ % WireIds] \in Packets
  <2>1. ps[i] \in Packets
    BY SeqIs
  <2>2. ps[i].id % WireIds \in Nat
    BY <2>1, ConstantsAre DEF Packets
  <2> QED
    BY <2>1, <2>2 DEF Packets
<1>2. DOMAIN ps = 1..Len(ps) /\ Len(ps) \in Nat
  BY SeqIs
<1>3. /\ Encoded(ps) = [i \in 1..Len(ps) |-> Encoded(ps)[i]]
      /\ \A i \in 1..Len(ps) :
            Encoded(ps)[i] = [ps[i] EXCEPT !.id = @ % WireIds]
  BY <1>2 DEF Encoded
<1> HIDE DEF Encoded
<1> QED
  BY <1>1, <1>2, <1>3, MakesSeq

\* The next socket is a free one.
LEMMA FreeIs ==
    ASSUME NEW o, Free(o) # {}
    PROVE  Min(Free(o)) \in Free(o) /\ Free(o) \subseteq Sockets
           /\ \A s \in Free(o) : s \in Nat \ {0}
<1>1. Free(o) \in SUBSET Nat
  BY ConstantsAre DEF Free, Sockets
<1>2. Min(Free(o)) \in Free(o)
  BY <1>1, MinIs
<1>3. \A s \in Sockets : s \in Nat \ {0}
  BY ConstantsAre DEF Sockets
<1> QED
  BY <1>2, <1>3 DEF Free

\* A new socket leaves the types.
LEMMA DoConnectOK ==
    ASSUME NEW o, ObjectOK(o), Free(o) # {}
    PROVE  ObjectOK(DoConnect(o)) 
<1> DEFINE s == Min(Free(o))
<1>1. s \in Sockets
  BY FreeIs
<1>2. DoConnect(o) = [o EXCEPT !.connected = FALSE, !.sock = s, !.pinger = "off",
                  !.connectTimer = "armed", !.ready[s] = "connecting",
                  !.on[s] = TRUE, !.link[s] = "up", !.down[s] = <<>>]
  BY DEF DoConnect
<1> HIDE DEF s
<1> QED
  BY <1>1, <1>2 DEF ObjectOK, Fields

\* A new attempt leaves the types.
LEMMA ReconnectOK ==
    ASSUME NEW o, ObjectOK(o), Free(o) # {}
    PROVE  ObjectOK(Reconnect(o))
<1> DEFINE r == [o EXCEPT !.reconnecting = TRUE]
<1>1. ObjectOK(r) /\ Free(r) # {}
  BY DEF ObjectOK, Fields, Free
<1> HIDE DEF r
<1>2. Reconnect(o) \in {o, DoConnect(r)}
  BY DEF Reconnect, r
<1> QED
  BY <1>1, <1>2, DoConnectOK

\* Giving up the socket leaves the types, and no fewer sockets free.
LEMMA DetachOK ==
    ASSUME NEW o, ObjectOK(o)
    PROVE  ObjectOK(Detach(o)) /\ Free(o) \subseteq Free(Detach(o))
BY DEF ObjectOK, Fields, Detach, Free

\* A retry put off leaves the types.
LEMMA RetryLaterOK ==
    ASSUME NEW o, ObjectOK(o)
    PROVE  ObjectOK(RetryLater(o))
BY DEF ObjectOK, Fields, RetryLater

\* _disconnected leaves the types, with a socket free if it may connect again.
LEMMA DisconnectedOK ==
    ASSUME NEW o, NEW failed \in BOOLEAN, ObjectOK(o),
           Free(o) # {} \/ (o.connected /\ ~failed)
    PROVE  ObjectOK(Disconnected(o, failed))
<1> DEFINE d == Detach(o)
           u == [d EXCEPT !.connected = FALSE]
           v == [d EXCEPT !.version = 3]
<1>1. ObjectOK(d) /\ Free(o) \subseteq Free(d) 
  BY DetachOK
<1> HIDE DEF d
<1>2. ObjectOK(u) /\ Free(u) = Free(d)
  <2>1. ObjectOK(u) /\ u.ready = d.ready /\ u.up = d.up
    BY <1>1 DEF ObjectOK, Fields
  <2> QED
    BY <2>1 DEF Free
<1>3. ObjectOK(v) /\ Free(v) = Free(d)
  <2>1. ObjectOK(v) /\ v.ready = d.ready /\ v.up = d.up
    BY <1>1 DEF ObjectOK, Fields
  <2> QED
    BY <2>1 DEF Free
<1> HIDE DEF u, v
<1>4. CASE Free(o) # {}
  <2>1. /\ ObjectOK(RetryLater(o)) /\ ObjectOK(Reconnect(u))
        /\ ObjectOK(DoConnect(v))
    BY <1>1, <1>2, <1>3, <1>4, RetryLaterOK, ReconnectOK, DoConnectOK
  <2>2. Disconnected(o, failed) \in {RetryLater(o), Reconnect(u), u, DoConnect(v), d}
    BY DEF Disconnected, d, u, v
  <2> QED
    BY <1>1, <1>2, <2>1, <2>2
<1>5. CASE o.connected /\ ~failed
  <2>1. Disconnected(o, failed) = u
    BY <1>5 DEF Disconnected, d, u
  <2> QED
    BY <1>2, <2>1
<1> QED
  BY <1>4, <1>5

\* Writing to the socket leaves the types.
LEMMA SocketSendOK ==
    ASSUME NEW o, NEW ps \in Seq(Packets), ObjectOK(o), o.sock \in Sockets
    PROVE  /\ ObjectOK(SocketSend(o, ps)) /\ Free(o) \subseteq Free(SocketSend(o, ps))
           /\ SocketSend(o, ps).connected = o.connected
<1> DEFINE e == Encoded(ps)
           s == o.sock
           u == IF o.ready[s] = "open" /\ o.link[s] = "up"
                THEN o.up[s] \o e ELSE o.up[s]
           g == IF KeepAlive THEN "reset" ELSE o.pinger
<1>1. e \in Seq(Packets)
  BY EncodedIs
<1>2. SocketSend(o, ps) = [o EXCEPT !.pinger = g, !.up[s] = u]
  BY DEF SocketSend
<1> HIDE DEF e
<1>3. u \in Seq(Packets)
  BY <1>1 DEF ObjectOK
<1>4. o.ready[s] # "open" => u = o.up[s]
  OBVIOUS
<1>a. g \in {"off", "reset", "waiting"}
  BY DEF ObjectOK
<1> HIDE DEF u, g
<1> DEFINE r == [o EXCEPT !.pinger = g, !.up[s] = u]
<1>5. ObjectOK(r)
  BY <1>3, <1>a DEF ObjectOK, Fields
<1>6. /\ r.ready = o.ready /\ r.connected = o.connected
      /\ \A x \in Sockets : o.ready[x] # "open" => r.up[x] = o.up[x]
  BY <1>4 DEF ObjectOK, Fields
<1> HIDE DEF r
<1>7. Free(o) \subseteq Free(r)
  BY <1>6 DEF Free
<1> QED
  BY <1>2, <1>5, <1>6, <1>7 DEF r

\* What is sent of the queue.
LEMMA SendableIs ==
    ASSUME NEW o, ObjectOK(o), o.queue # <<>>
    PROVE  /\ Sendable(o) \in 1..Len(o.queue)
           /\ SubSeq(o.queue, 1, Sendable(o)) \in Seq(Packets)
<1>1. o.queue \in Seq(Packets)
  BY DEF ObjectOK
<1>2. Len(o.queue) \in Nat /\ Len(o.queue) > 0
  BY <1>1, TailIs
<1>3. Sendable(o) \in 1..Len(o.queue)
  BY <1>2 DEF Sendable
<1>4. Sendable(o) \in 0..Len(o.queue)
  BY <1>2, <1>3
<1> QED
  BY <1>1, <1>3, <1>4, SubSeqIs

\* Sending the queue leaves the types.
LEMMA ProcessQueueOK ==
    ASSUME NEW o, ObjectOK(o), o.connected
    PROVE  ObjectOK(ProcessQueue(o)) /\ Free(o) \subseteq Free(ProcessQueue(o))
<1> DEFINE e == [o EXCEPT !.queue = <<>>]
           n == [o EXCEPT !.queue = Reverse(Tail(@))]
           ps == SubSeq(o.queue, 1, Sendable(o))
           t == SocketSend(e, ps)
           d == Detach(t)
           u == [d EXCEPT !.connected = FALSE]
<1>1. CASE o.queue = <<>>
  BY <1>1 DEF ProcessQueue
<1>2. CASE o.queue # <<>> /\ ~CanSend(o)
  <2>1. o.queue \in Seq(Packets)
    BY DEF ObjectOK
  <2>2. Reverse(Tail(o.queue)) \in Seq(Packets)
    BY <1>2, <2>1, ReverseTail
  <2>3. ObjectOK(n) /\ n.ready = o.ready /\ n.up = o.up
    BY <2>2 DEF ObjectOK, Fields
  <2>4. Free(n) = Free(o)
    BY <2>3 DEF Free
  <2> QED
    BY <1>2, <2>3, <2>4 DEF ProcessQueue
<1>3. CASE o.queue # <<>> /\ CanSend(o)
  <2>0. <<>> \in Seq(Packets)
    OBVIOUS
  <2>1. ObjectOK(e) /\ e.ready = o.ready /\ e.up = o.up /\ e.sock = o.sock
        /\ e.connected = o.connected
    BY <2>0 DEF ObjectOK, Fields
  <2>2. Free(e) = Free(o)
    BY <2>1 DEF Free
  <2>3. e.sock \in Sockets
    BY <2>1, <1>3 DEF CanSend, ObjectOK
  <2> HIDE DEF e, ps
  <2>4. ps \in Seq(Packets)
    BY <1>3, SendableIs DEF ps
  <2>5. ObjectOK(t) /\ Free(o) \subseteq Free(t) /\ t.connected
    BY <2>1, <2>2, <2>3, <2>4, SocketSendOK
  <2> HIDE DEF t
  <2>6. ObjectOK(d) /\ Free(t) \subseteq Free(d)
    BY <2>5, DetachOK
  <2> HIDE DEF d
  <2>7. ObjectOK(u) /\ u.ready = d.ready /\ u.up = d.up
    BY <2>6 DEF ObjectOK, Fields
  <2>8. Free(u) = Free(d)
    BY <2>7 DEF Free
  <2> HIDE DEF u
  <2>9. Disconnected(t, FALSE) = u
    BY <2>5 DEF Disconnected, u, d
  <2>10. ProcessQueue(o) \in {Disconnected(t, FALSE), t}
    BY <1>3 DEF ProcessQueue, e, ps, t
  <2> QED
    BY <2>5, <2>6, <2>7, <2>8, <2>9, <2>10
<1> QED
  BY <1>1, <1>2, <1>3

\* Putting packets in the queue leaves the types.
LEMMA ScheduleOK ==
    ASSUME NEW o, NEW ps \in Seq(Packets), ObjectOK(o)
    PROVE  ObjectOK(Schedule(o, ps))
<1> DEFINE q == [o EXCEPT !.queue = @ \o ps]
<1>1. ObjectOK(q) /\ q.connected = o.connected
  BY DEF ObjectOK, Fields
<1>2. Schedule(o, ps) = IF o.connected THEN ProcessQueue(q) ELSE q
  BY DEF Schedule
<1> HIDE DEF q
<1> QED
  BY <1>1, <1>2, ProcessQueueOK

\* The catch around a handler leaves the types.
LEMMA CaughtOK ==
    ASSUME NEW b, NEW a, ObjectOK(a), Free(a) # {}
    PROVE  ObjectOK(Caught(b, a))
BY DisconnectedOK DEF Caught

\* A packet put in the queue by a handler leaves the types.
LEMMA ScheduleInHandlerOK ==
    ASSUME NEW o, NEW p \in Packets, ObjectOK(o), Free(o) # {}
    PROVE  ObjectOK(ScheduleInHandler(o, p))
<1> DEFINE q == [o EXCEPT !.queue = Append(@, p)]
<1>1. /\ ObjectOK(q) /\ q.connected = o.connected
      /\ q.ready = o.ready /\ q.up = o.up
  BY DEF ObjectOK, Fields
<1>2. Free(q) # {}
  BY <1>1 DEF Free
<1>3. ScheduleInHandler(o, p) =
        IF o.connected THEN Caught(q, ProcessQueue(q)) ELSE q
  BY DEF ScheduleInHandler
<1> HIDE DEF q
<1>4. o.connected => ObjectOK(ProcessQueue(q)) /\ Free(ProcessQueue(q)) # {}
  BY <1>1, <1>2, ProcessQueueOK
<1> QED
  BY <1>1, <1>3, <1>4, CaughtOK

\* What a reconnection sends again is finite.
LEMMA ResendIs ==
    ASSUME NEW o, ObjectOK(o)
    PROVE  /\ IsFiniteSet(Resend(o))
           /\ Resend(o) \subseteq [pkt : Packets, seq : Nat]
<1> DEFINE D == DOMAIN o.sent
           pkt(i) == IF o.sent[i].kind = "REQUEST" THEN Control("REQUEST", i)
                     ELSE IF o.sent[i].rec THEN Control("PUBREL", i)
                     ELSE Packet("PUBLISH", i, o.sent[i].msg, o.sent[i].qos)
           f == [i \in D |-> [seq |-> o.sent[i].seq, pkt |-> pkt(i)]]
           F == {f[i] : i \in D}
           B == Range(o.buffered)
<1>1. IsFiniteSet(D) /\ IsMap(o.sent, Nat \ {0}, Pending)
  BY DEF ObjectOK
<1>2. Resend(o) = F \union B
  BY DEF Resend
<1>3. F \subseteq [pkt : Packets, seq : Nat]
  <2>1. ASSUME NEW i \in D PROVE f[i] \in [pkt : Packets, seq : Nat]
    <3>1. i \in Nat /\ o.sent[i] \in Pending
      BY <1>1 DEF IsMap
    <3>2. /\ o.sent[i].seq \in Nat /\ o.sent[i].msg \in 0..TopMsg
          /\ o.sent[i].qos \in 0..2
      BY <3>1, TopIs DEF Pending
    <3> HIDE DEF D
    <3>3. pkt(i) \in Packets
      BY <3>1, <3>2, PacketIs, ControlIs DEF Kinds
    <3> QED
      BY <3>2, <3>3
  <2> HIDE DEF f
  <2> QED
    BY <2>1
<1> HIDE DEF pkt
<1>4. IsFiniteSet(F)
  <2>1. f \in Surjection(D, F)
    BY DEF Surjection
  <2> QED
    BY <2>1, <1>1, FS_Surjection
<1>5. o.buffered \in Seq([pkt : Packets, seq : Nat])
  BY DEF ObjectOK
<1>6. /\ Len(o.buffered) \in Nat /\ DOMAIN o.buffered = 1..Len(o.buffered)
      /\ \A i \in 1..Len(o.buffered) :
            o.buffered[i] \in [pkt : Packets, seq : Nat]
  BY <1>5, SeqIs
<1>7. B \subseteq [pkt : Packets, seq : Nat]
  BY <1>6 DEF Range
<1>8. IsFiniteSet(B)
  <2>1. o.buffered = [i \in 1..Len(o.buffered) |-> o.buffered[i]]
    BY <1>5
  <2>2. o.buffered \in Surjection(1..Len(o.buffered), B)
    BY <2>1, <1>6 DEF Surjection, Range
  <2> QED
    BY <2>2, <1>6, FS_Surjection, FS_Interval
<1> HIDE DEF F, B
<1> QED
  BY <1>2, <1>3, <1>4, <1>7, <1>8, FS_Union

\* The packets of an order in which they are sent again.
LEMMA OrderIs ==
    ASSUME NEW o, NEW q \in Orders(o), ObjectOK(o)
    PROVE  /\ Len(q) \in Nat /\ DOMAIN q = 1..Len(q)
           /\ Len(q) = Cardinality(Resend(o))
           /\ \A i \in 1..Len(q) : q[i] \in Resend(o)
           /\ [i \in DOMAIN q |-> q[i].pkt] \in Seq(Packets)
           /\ Len([i \in DOMAIN q |-> q[i].pkt]) = Len(q)
<1> DEFINE n == Cardinality(Resend(o))
           ps == [i \in DOMAIN q |-> q[i].pkt]
<1>1. n \in Nat
  BY ResendIs, FS_CardinalityType
<1>2. q \in [1..n -> Resend(o)]
  BY DEF Orders, SetToSeqs
<1> HIDE DEF n
<1>3. q \in Seq(Resend(o)) /\ Len(q) = n
  BY <1>1, <1>2, MakesSeq
<1>4. DOMAIN ps = 1..n /\ \A i \in 1..n : ps[i] \in Packets
  BY <1>2, ResendIs
<1>5. ps = [i \in 1..n |-> ps[i]]
  BY <1>2
<1> HIDE DEF ps
<1>6. ps \in Seq(Packets) /\ Len(ps) = n
  BY <1>1, <1>4, <1>5, MakesSeq
<1> QED
  BY <1>1, <1>2, <1>3, <1>6 DEF n, ps

\* An accepted connection, and all that is sent again on it, leaves the types.
LEMMA AcceptedOK ==
    ASSUME NEW o, NEW q \in Orders(o), ObjectOK(o), Free(o) # {}
    PROVE  ObjectOK(Accepted(o, q))
<1> DEFINE ps == [i \in DOMAIN q |-> q[i].pkt]
           l == SubSeq(ps, 1, Min({1, Len(ps)}))
           k == IF CanSend(o) THEN ps ELSE l
           s == [o EXCEPT !.connected = TRUE, !.buffered = <<>>,
                          !.notify = @ /\ o.buffered = <<>>,
                          !.queue = @ \o k]
           r == [s EXCEPT !.reconnecting = @ /\ ps # <<>> /\ ProcessThrows(s)]
<1>1. ps \in Seq(Packets) /\ Len(ps) \in Nat
  BY OrderIs
<1>2. Accepted(o, q) = Caught(s, ProcessQueue(r))
  BY DEF Accepted
<1> HIDE DEF ps
<1>3. {1, Len(ps)} \in SUBSET Nat /\ {1, Len(ps)} # {}
  BY <1>1
<1>4. Min({1, Len(ps)}) \in 0..Len(ps)
  BY <1>1, <1>3, MinIs
<1>5. l \in Seq(Packets)
  BY <1>1, <1>4, SubSeqIs
<1> HIDE DEF l
<1>6. k \in Seq(Packets)
  BY <1>1, <1>5
<1> HIDE DEF k
<1>7. (o.notify /\ o.buffered = <<>>) \in BOOLEAN
  OBVIOUS
<1>8. o.queue \o k \in Seq(Packets)
  BY <1>6 DEF ObjectOK
<1>9. /\ ObjectOK(s) /\ s.ready = o.ready /\ s.up = o.up /\ s.connected
  BY <1>7, <1>8 DEF ObjectOK, Fields
<1> HIDE DEF s
<1>10. (s.reconnecting /\ ps # <<>> /\ ProcessThrows(s)) \in BOOLEAN
  OBVIOUS
<1>11. /\ ObjectOK(r) /\ r.ready = o.ready /\ r.up = o.up /\ r.connected
  BY <1>9, <1>10 DEF ObjectOK, Fields
<1> HIDE DEF r
<1>12. Free(r) # {}
  BY <1>11 DEF Free
<1>13. ObjectOK(ProcessQueue(r)) /\ Free(ProcessQueue(r)) # {}
  BY <1>11, <1>12, ProcessQueueOK
<1> QED
  BY <1>2, <1>13, CaughtOK

-----------------------------------------------------------------------------
(***************************************************************************)
(* The handlers of the packets keep them too, and no handler takes an      *)
(* identifier.                                                             *)
(***************************************************************************)

\* What a handler that takes a packet does to the types and the counts.
HandledOK(o) ==
    /\ ObjectOK(c') /\ StoreOK'
    /\ arrived' \in [1..InMsgs -> 0..2]
    /\ c'.cursor = o.cursor /\ c'.sequence = o.sequence
    /\ DOMAIN c'.sent \subseteq DOMAIN o.sent
    /\ DOMAIN store'.sent \subseteq DOMAIN store.sent \union DOMAIN o.sent

\* An object has the fields that most routines leave alone.
LEMMA KeptIn ==
    ASSUME NEW o, ObjectOK(o)
    PROVE  Kept \subseteq DOMAIN o
BY DEF ObjectOK, Fields, Kept, Parts

\* Counting an arrival leaves its type.
LEMMA ArrivalOK ==
    ASSUME NEW m, arrived \in [1..InMsgs -> 0..2], Arrival(m) \/ NoArrival
    PROVE  arrived' \in [1..InMsgs -> 0..2]
<1>1. \A n : Saturate(n) \in 0..2
  BY DEF Saturate
<1> HIDE DEF Saturate
<1> QED
  BY <1>1 DEF Arrival, NoArrival, Saturate

\* Removing an entry of a map.
LEMMA UnbindIs ==
    ASSUME NEW f, NEW S, NEW T, IsMap(f, S, T), NEW i
    PROVE  /\ IsMap(Unbind(f, i), S, T)
           /\ DOMAIN Unbind(f, i) = DOMAIN f \ {i}
           /\ \A j \in DOMAIN f : j # i => Unbind(f, i)[j] = f[j]
           /\ IsFiniteSet(DOMAIN f) => IsFiniteSet(DOMAIN Unbind(f, i))
<1> DEFINE b == Unbind(f, i)
<1>1. /\ b = [j \in DOMAIN f \ {i} |-> f[j]]
      /\ DOMAIN b = DOMAIN f \ {i}
      /\ \A j \in DOMAIN f : j # i => b[j] = f[j]
  BY DEF Unbind
<1>2. b = [j \in DOMAIN b |-> b[j]]
  BY DEF Unbind
<1> HIDE DEF b
<1>3. IsMap(b, S, T)
  BY <1>1, <1>2 DEF IsMap
<1>4. IsFiniteSet(DOMAIN f) => IsFiniteSet(DOMAIN b)
  BY <1>1, FS_RemoveElement
<1> QED
  BY <1>1, <1>3, <1>4 DEF b

\* A map without entries.
LEMMA EmptyIs ==
    ASSUME NEW S, NEW T
    PROVE  IsMap(Empty, S, T) /\ DOMAIN Empty = {} /\ IsFiniteSet(DOMAIN Empty)
<1>1. DOMAIN Empty = {} /\ Empty = [x \in DOMAIN Empty |-> Empty[x]]
  BY DEF Empty
<1> QED
  BY <1>1, FS_EmptySet DEF IsMap

\* An object with other messages sent or received is still an object.
LEMMA SentOK ==
    ASSUME NEW o, ObjectOK(o), NEW f, IsMap(f, Nat \ {0}, Pending),
           IsFiniteSet(DOMAIN f)
    PROVE  LET r == [o EXCEPT !.sent = f]
           IN  /\ ObjectOK(r) /\ Free(r) = Free(o) /\ r.sent = f
               /\ r.cursor = o.cursor /\ r.sequence = o.sequence
               /\ r.clean = o.clean /\ r.received = o.received
<1> DEFINE r == [o EXCEPT !.sent = f]
<1>1. /\ ObjectOK(r) /\ r.ready = o.ready /\ r.up = o.up /\ r.sent = f
      /\ r.cursor = o.cursor /\ r.sequence = o.sequence
      /\ r.clean = o.clean /\ r.received = o.received
  BY DEF ObjectOK, Fields
<1> HIDE DEF r
<1>2. Free(r) = Free(o)
  BY <1>1 DEF Free
<1> QED
  BY <1>1, <1>2 DEF r

\* The same of the messages received.
LEMMA ReceivedOK ==
    ASSUME NEW o, ObjectOK(o), NEW f, IsMap(f, Nat, 0..TopMsg)
    PROVE  LET r == [o EXCEPT !.received = f]
           IN  /\ ObjectOK(r) /\ Free(r) = Free(o) /\ r.sent = o.sent
               /\ r.cursor = o.cursor /\ r.sequence = o.sequence
               /\ r.clean = o.clean /\ r.received = f
<1> DEFINE r == [o EXCEPT !.received = f]
<1>1. /\ ObjectOK(r) /\ r.ready = o.ready /\ r.up = o.up /\ r.sent = o.sent
      /\ r.cursor = o.cursor /\ r.sequence = o.sequence
      /\ r.clean = o.clean /\ r.received = f
  BY DEF ObjectOK, Fields
<1> HIDE DEF r
<1>2. Free(r) = Free(o)
  BY <1>1 DEF Free
<1> QED
  BY <1>1, <1>2 DEF r

\* localStorage after one of its maps, or both, are written.
LEMMA StoreIs ==
    ASSUME StoreOK, NEW f, NEW g,
           IsMap(f, Nat \ {0}, Pending), IsFiniteSet(DOMAIN f),
           IsMap(g, Nat, 0..TopMsg),
           \/ store' = [store EXCEPT !.sent = f] /\ g = store.received
           \/ store' = [store EXCEPT !.received = g] /\ f = store.sent
           \/ store' = [sent |-> f, received |-> g]
    PROVE  StoreOK' /\ store'.sent = f /\ store'.received = g
BY DEF StoreOK

-----------------------------------------------------------------------------
\* The same of the two maps an object and the store have.
LEMMA PendingIs ==
    ASSUME NEW f, IsMap(f, Nat \ {0}, Pending), IsFiniteSet(DOMAIN f), NEW i
    PROVE  /\ IsMap(Unbind(f, i), Nat \ {0}, Pending)
           /\ IsFiniteSet(DOMAIN Unbind(f, i))
           /\ DOMAIN Unbind(f, i) = DOMAIN f \ {i}
           /\ DOMAIN Unbind(f, i) \subseteq DOMAIN f
<1> DEFINE S == Nat \ {0}
<1>1. IsMap(f, S, Pending)
  OBVIOUS
<1> HIDE DEF S
<1>2. /\ IsMap(Unbind(f, i), S, Pending) /\ IsFiniteSet(DOMAIN Unbind(f, i))
      /\ DOMAIN Unbind(f, i) = DOMAIN f \ {i}
  BY <1>1, UnbindIs
<1> QED
  BY <1>2 DEF S

\* Adding one to those that await an acknowledgement.
LEMMA BindPending ==
    ASSUME NEW f, IsMap(f, Nat \ {0}, Pending), IsFiniteSet(DOMAIN f),
           NEW i \in Nat \ {0}, NEW x \in Pending
    PROVE  /\ IsMap(Bind(f, i, x), Nat \ {0}, Pending)
           /\ IsFiniteSet(DOMAIN Bind(f, i, x))
           /\ DOMAIN Bind(f, i, x) = DOMAIN f \union {i}
           /\ Bind(f, i, x)[i] = x
<1> DEFINE b == Bind(f, i, x)
<1>1. b = [j \in DOMAIN b |-> b[j]]
  BY DEF Bind
<1>2. /\ DOMAIN b = DOMAIN f \union {i}
      /\ b[i] = x /\ \A j \in DOMAIN f : j # i => b[j] = f[j]
  BY DEF Bind
<1> HIDE DEF b
<1>3. IsMap(b, Nat \ {0}, Pending)
  BY <1>1, <1>2 DEF IsMap
<1>4. IsFiniteSet(DOMAIN b)
  BY <1>2, FS_AddElement
<1> QED
  BY <1>2, <1>3, <1>4 DEF b

\* Adding or removing one of those received.
LEMMA MessagesIs ==
    ASSUME NEW f, IsMap(f, Nat, 0..TopMsg), NEW i
    PROVE  /\ IsMap(Unbind(f, i), Nat, 0..TopMsg)
           /\ \A x \in 0..TopMsg : i \in Nat =>
                 /\ IsMap(Bind(f, i, x), Nat, 0..TopMsg)
                 /\ Bind(f, i, x)[i] = x
<1> DEFINE T == 0..TopMsg
<1>1. IsMap(f, Nat, T)
  OBVIOUS
<1> HIDE DEF T
<1>2. IsMap(Unbind(f, i), Nat, T)
  BY <1>1, UnbindIs
<1>3. ASSUME NEW x \in T, i \in Nat
      PROVE  IsMap(Bind(f, i, x), Nat, T) /\ Bind(f, i, x)[i] = x
  <2> DEFINE b == Bind(f, i, x)
  <2>0. b = [j \in DOMAIN b |-> b[j]]
    BY DEF Bind
  <2>1. /\ DOMAIN b = DOMAIN f \union {i}
        /\ b[i] = x /\ \A j \in DOMAIN f : j # i => b[j] = f[j]
    BY DEF Bind
  <2> HIDE DEF b
  <2>2. IsMap(b, Nat, T)
    BY <1>1, <1>3, <2>0, <2>1 DEF IsMap
  <2> QED
    BY <2>1, <2>2 DEF b
<1> QED
  BY <1>2, <1>3 DEF T

\* A CONNACK handled.
LEMMA ConnackOK ==
    ASSUME NEW o, NEW p, ObjectOK(o), Free(o) # {}, StoreOK,
           arrived \in [1..InMsgs -> 0..2], HandleConnack(o, p)
    PROVE  HandledOK(o)
<1> DEFINE t == [o EXCEPT !.connectTimer = "idle",
                       !.reconnectTimer = IF @ = "armed" THEN "idle" ELSE @]
           u == Cleaned(t)
           f == [i \in DOMAIN store.sent \ DOMAIN o.sent |-> store.sent[i]]
           g == [i \in DOMAIN store.received \ DOMAIN o.received |->
                    store.received[i]]
<1>1. arrived' = arrived
  BY DEF HandleConnack, NoArrival
<1>2. CASE o.connectTimer = "null"
  <2>1. c' = Disconnected(o, TRUE) /\ store' = store
    BY <1>2 DEF HandleConnack
  <2>2. ObjectOK(c') /\ Keeps(c', o)
    BY <2>1, KeptIn, DisconnectedOK, DisconnectedKeeps
  <2> QED
    BY <1>1, <2>1, <2>2 DEF HandledOK, Keeps, StoreOK
<1>3. CASE o.connectTimer # "null"
  <2>1. /\ ObjectOK(t) /\ t.ready = o.ready /\ t.up = o.up
        /\ t.sent = o.sent /\ t.cursor = o.cursor
        /\ t.sequence = o.sequence /\ t.clean = o.clean
    BY DEF ObjectOK, Fields
  <2>2. Free(t) = Free(o)
    BY <2>1 DEF Free
  <2>3. \/ /\ p.kind = "REFUSED" /\ c' = Disconnected(u, TRUE)
        \/ \E q \in Orders(u) : c' = Accepted(u, q)
    BY <1>3 DEF HandleConnack
  <2>4. store' = IF o.clean THEN [sent |-> f, received |-> g] ELSE store
    BY <1>3 DEF HandleConnack
  <2> HIDE DEF t
  <2>5. /\ ObjectOK(u) /\ Free(u) # {} /\ DOMAIN u.sent \subseteq DOMAIN o.sent
        /\ u.cursor = o.cursor /\ u.sequence = o.sequence
    <3> DEFINE e == [t EXCEPT !.sent = Empty, !.received = Empty]
    <3>1. IsMap(Empty, Nat \ {0}, Pending) /\ IsMap(Empty, Nat, 0..TopMsg)
          /\ IsFiniteSet(DOMAIN Empty) /\ DOMAIN Empty = {}
      BY EmptyIs
    <3>2. /\ ObjectOK(e) /\ e.ready = t.ready /\ e.up = t.up
          /\ e.sent = Empty /\ e.cursor = t.cursor /\ e.sequence = t.sequence
      BY <2>1, <3>1 DEF ObjectOK, Fields
    <3> HIDE DEF e
    <3>3. Free(e) = Free(o)
      BY <2>1, <3>2 DEF Free
    <3>4. u \in {t, e}
      BY DEF Cleaned, e
    <3> HIDE DEF u
    <3> QED
      BY <2>1, <2>2, <3>1, <3>2, <3>3, <3>4
  <2> HIDE DEF u
  <2>6. ObjectOK(c') /\ Keeps(c', u)
    BY <2>3, <2>5, KeptIn, DisconnectedOK, DisconnectedKeeps, AcceptedOK,
       AcceptedKeeps
  <2>7. StoreOK' /\ DOMAIN store'.sent \subseteq DOMAIN store.sent
    <3>1. CASE ~o.clean
      BY <3>1, <2>4 DEF StoreOK
    <3>2. CASE o.clean
      <4>1. /\ f = [i \in DOMAIN f |-> f[i]] /\ DOMAIN f \subseteq DOMAIN store.sent
            /\ g = [i \in DOMAIN g |-> g[i]]
            /\ DOMAIN g \subseteq DOMAIN store.received
            /\ \A i \in DOMAIN f : f[i] = store.sent[i]
            /\ \A i \in DOMAIN g : g[i] = store.received[i]
        OBVIOUS
      <4>2. store' = [sent |-> f, received |-> g]
        BY <2>4, <3>2
      <4> HIDE DEF f, g
      <4>3. IsMap(f, Nat \ {0}, Pending) /\ IsMap(g, Nat, 0..TopMsg)
        BY <4>1 DEF StoreOK, IsMap
      <4>4. IsFiniteSet(DOMAIN f)
        BY <4>1, FS_Subset DEF StoreOK
      <4> QED
        BY <4>1, <4>2, <4>3, <4>4, StoreIs
    <3> QED
      BY <3>1, <3>2
  <2> QED
    BY <1>1, <2>5, <2>6, <2>7 DEF HandledOK, Keeps
<1> QED
  BY <1>2, <1>3

\* A PUBLISH handled.
LEMMA PublishOK ==
    ASSUME NEW o, NEW p \in Packets, ObjectOK(o), Free(o) # {}, StoreOK,
           arrived \in [1..InMsgs -> 0..2], HandlePublish(o, p)
    PROVE  HandledOK(o)
<1>1. arrived' \in [1..InMsgs -> 0..2]
  BY ArrivalOK DEF HandlePublish
<1>2. p.id \in Nat /\ p.msg \in 0..TopMsg
  BY DEF Packets
<1>3. Control("PUBACK", p.id) \in Packets /\ Control("PUBREC", p.id) \in Packets
  BY <1>2, ControlIs DEF Kinds
<1>4. CASE p.qos = 0
  BY <1>1, <1>4 DEF HandlePublish, HandledOK, StoreOK
<1>5. CASE p.qos = 1
  <2>1. c' = ScheduleInHandler(o, Control("PUBACK", p.id)) /\ store' = store
    BY <1>5 DEF HandlePublish
  <2>2. ObjectOK(c') /\ Keeps(c', o)
    BY <2>1, <1>3, KeptIn, ScheduleInHandlerOK, ScheduleInHandlerKeeps
  <2> QED
    BY <1>1, <2>1, <2>2 DEF HandledOK, Keeps, StoreOK
<1>6. CASE p.qos = 2
  <2> DEFINE f == Bind(o.received, p.id, p.msg)
             g == Bind(store.received, p.id, p.msg)
             r == [o EXCEPT !.received = f]
  <2>1. /\ c' = ScheduleInHandler([o EXCEPT !.received = Bind(@, p.id, p.msg)],
                                  Control("PUBREC", p.id))
        /\ store' = StoreReceived([o EXCEPT !.received = Bind(@, p.id, p.msg)],
                                  p.id)
    BY <1>6 DEF HandlePublish
  <2>2. IsMap(o.received, Nat, 0..TopMsg) /\ IsMap(store.received, Nat, 0..TopMsg)
    BY DEF ObjectOK, StoreOK
  <2>3. /\ IsMap(f, Nat, 0..TopMsg) /\ IsMap(g, Nat, 0..TopMsg)
        /\ f[p.id] = p.msg
    <3>1. IsMap(f, Nat, 0..TopMsg) /\ f[p.id] = p.msg
      BY <2>2, <1>2, MessagesIs
    <3>2. IsMap(g, Nat, 0..TopMsg)
      BY <2>2, <1>2, MessagesIs
    <3> QED
      BY <3>1, <3>2
  <2> HIDE DEF f
  <2>4. /\ ObjectOK(r) /\ Free(r) = Free(o) /\ r.sent = o.sent
        /\ r.cursor = o.cursor /\ r.sequence = o.sequence
        /\ r.clean = o.clean /\ r.received = f
    BY <2>3, ReceivedOK
  <2>5. /\ c' = ScheduleInHandler(r, Control("PUBREC", p.id))
        /\ store' = [store EXCEPT !.received = Bind(@, p.id, r.received[p.id])]
    BY <2>1 DEF f, StoreReceived
  <2>6. store' = [store EXCEPT !.received = g]
    BY <2>3, <2>4, <2>5
  <2> HIDE DEF r, g
  <2>7. ObjectOK(c') /\ Keeps(c', r)
    BY <2>4, <2>5, <1>3, KeptIn, ScheduleInHandlerOK, ScheduleInHandlerKeeps
  <2>8. StoreOK' /\ store'.sent = store.sent
    BY <2>3, <2>6, StoreIs DEF StoreOK
  <2> QED
    BY <1>1, <2>4, <2>7, <2>8 DEF HandledOK, Keeps
<1> QED
  BY <1>4, <1>5, <1>6 DEF HandlePublish

\* A PUBACK, or a PUBCOMP whose message is known, handled.
LEMMA ForgetOK ==
    ASSUME NEW o, NEW p, ObjectOK(o), StoreOK,
           arrived \in [1..InMsgs -> 0..2], Forget(o, p)
    PROVE  HandledOK(o)
<1> DEFINE f == Unbind(o.sent, p.id)
           g == Unbind(store.sent, p.id)
<1>1. /\ c' = [o EXCEPT !.sent = f] /\ store' = [store EXCEPT !.sent = g]
      /\ arrived' = arrived
  BY DEF Forget, NoArrival
<1>2. /\ IsMap(o.sent, Nat \ {0}, Pending) /\ IsFiniteSet(DOMAIN o.sent)
      /\ IsMap(store.sent, Nat \ {0}, Pending)
      /\ IsFiniteSet(DOMAIN store.sent)
      /\ IsMap(store.received, Nat, 0..TopMsg)
  BY DEF ObjectOK, StoreOK
<1>3. /\ IsMap(f, Nat \ {0}, Pending) /\ IsFiniteSet(DOMAIN f)
      /\ DOMAIN f \subseteq DOMAIN o.sent
      /\ IsMap(g, Nat \ {0}, Pending) /\ IsFiniteSet(DOMAIN g)
      /\ DOMAIN g \subseteq DOMAIN store.sent
  <2>1. /\ IsMap(f, Nat \ {0}, Pending) /\ IsFiniteSet(DOMAIN f)
        /\ DOMAIN f \subseteq DOMAIN o.sent
    BY <1>2, PendingIs
  <2>2. /\ IsMap(g, Nat \ {0}, Pending) /\ IsFiniteSet(DOMAIN g)
        /\ DOMAIN g \subseteq DOMAIN store.sent
    BY <1>2, PendingIs
  <2> QED
    BY <2>1, <2>2
<1> HIDE DEF f, g
<1>4. /\ ObjectOK(c') /\ c'.sent = f
      /\ c'.cursor = o.cursor /\ c'.sequence = o.sequence
  BY <1>1, <1>3, SentOK
<1>5. StoreOK' /\ store'.sent = g
  BY <1>1, <1>2, <1>3, StoreIs
<1> QED
  BY <1>1, <1>3, <1>4, <1>5 DEF HandledOK

\* A PUBACK handled, its message known or not.
LEMMA PubackOK ==
    ASSUME NEW o, NEW p, ObjectOK(o), StoreOK,
           arrived \in [1..InMsgs -> 0..2], HandlePuback(o, p)
    PROVE  HandledOK(o)
<1>1. CASE p.id \in DOMAIN o.sent
  BY <1>1, ForgetOK DEF HandlePuback
<1>2. CASE p.id \notin DOMAIN o.sent
  BY <1>2 DEF HandlePuback, HandledOK, NoArrival, StoreOK
<1> QED
  BY <1>1, <1>2

\* A PUBREC handled.
LEMMA PubrecOK ==
    ASSUME NEW o, NEW p \in Packets, ObjectOK(o), Free(o) # {}, StoreOK,
           arrived \in [1..InMsgs -> 0..2], HandlePubrec(o, p)
    PROVE  HandledOK(o)
<1>1. arrived' = arrived
  BY DEF HandlePubrec, NoArrival
<1>2. p.id \in Nat
  BY DEF Packets
<1>3. Control("PUBREL", p.id) \in Packets
  BY <1>2, ControlIs DEF Kinds
<1>4. CASE p.id \notin DOMAIN o.sent
  <2>1. c' = o /\ store' = store
    BY <1>4 DEF HandlePubrec
  <2> QED
    BY <1>1, <2>1 DEF HandledOK, StoreOK
<1>5. CASE p.id \in DOMAIN o.sent
  <2> DEFINE e == [o.sent[p.id] EXCEPT !.rec = TRUE]
             f == [o.sent EXCEPT ![p.id] = e]
             r == [o EXCEPT !.sent = f]
             g == Bind(store.sent, p.id, e)
  <2>1. \/ c' = Disconnected(r, TRUE) /\ store' = store
        \/ /\ c' = ScheduleInHandler(r, Control("PUBREL", p.id))
           /\ store' = [store EXCEPT !.sent = Bind(@, p.id, r.sent[p.id])]
    BY <1>5 DEF HandlePubrec, StoreSent
  <2>2. /\ IsMap(o.sent, Nat \ {0}, Pending) /\ IsFiniteSet(DOMAIN o.sent)
        /\ IsMap(store.sent, Nat \ {0}, Pending)
        /\ IsFiniteSet(DOMAIN store.sent)
        /\ IsMap(store.received, Nat, 0..TopMsg)
    BY DEF ObjectOK, StoreOK
  <2>3. p.id \in Nat \ {0} /\ o.sent[p.id] \in Pending
    BY <1>5, <2>2 DEF IsMap
  <2>4. e \in Pending
    BY <2>3 DEF Pending
  <2> HIDE DEF e
  <2>5. /\ DOMAIN f = DOMAIN o.sent /\ f[p.id] = e
        /\ \A i \in DOMAIN f : f[i] = IF i = p.id THEN e ELSE o.sent[i]
        /\ f = [i \in DOMAIN f |-> f[i]]
    BY <1>5
  <2> HIDE DEF f
  <2>6. IsMap(f, Nat \ {0}, Pending) /\ IsFiniteSet(DOMAIN f)
    BY <2>2, <2>4, <2>5 DEF IsMap
  <2>7. /\ ObjectOK(r) /\ Free(r) = Free(o) /\ r.sent = f
        /\ r.cursor = o.cursor /\ r.sequence = o.sequence
    BY <2>6, SentOK
  <2> HIDE DEF r
  <2>8. ObjectOK(c') /\ Keeps(c', r)
    BY <2>1, <2>7, <1>3, KeptIn, DisconnectedOK, DisconnectedKeeps,
       ScheduleInHandlerOK, ScheduleInHandlerKeeps
  <2>9. /\ StoreOK'
        /\ DOMAIN store'.sent \subseteq DOMAIN store.sent \union DOMAIN o.sent
    <3>1. CASE store' = store
      BY <3>1 DEF StoreOK
    <3>2. CASE store' = [store EXCEPT !.sent = Bind(@, p.id, r.sent[p.id])]
      <4>1. store' = [store EXCEPT !.sent = g]
        BY <3>2, <2>5, <2>7
      <4>2. /\ IsMap(g, Nat \ {0}, Pending) /\ IsFiniteSet(DOMAIN g)
            /\ DOMAIN g = DOMAIN store.sent \union {p.id}
        <5>1. p.id \in Nat \ {0} /\ e \in Pending
          BY <2>3, <2>4
        <5>2. IsMap(store.sent, Nat \ {0}, Pending)
              /\ IsFiniteSet(DOMAIN store.sent)
          BY <2>2
        <5> QED
          BY <5>1, <5>2, BindPending
      <4> HIDE DEF g
      <4>3. StoreOK' /\ store'.sent = g
        BY <4>1, <4>2, <2>2, StoreIs
      <4> QED
        BY <4>2, <4>3, <1>5
    <3> QED
      BY <2>1, <3>1, <3>2
  <2> QED
    BY <1>1, <2>5, <2>7, <2>8, <2>9 DEF HandledOK, Keeps
<1> QED
  BY <1>4, <1>5

\* A PUBREL handled.
LEMMA PubrelOK ==
    ASSUME NEW o, NEW p \in Packets, ObjectOK(o), Free(o) # {}, StoreOK,
           arrived \in [1..InMsgs -> 0..2], HandlePubrel(o, p)
    PROVE  HandledOK(o)
<1> DEFINE f == Unbind(o.received, p.id)
           g == Unbind(store.received, p.id)
           r == [o EXCEPT !.received = f]
<1>1. arrived' \in [1..InMsgs -> 0..2]
  BY ArrivalOK DEF HandlePubrel
<1>2. p.id \in Nat
  BY DEF Packets
<1>3. Control("PUBCOMP", p.id) \in Packets
  BY <1>2, ControlIs DEF Kinds
<1>4. /\ c' = ScheduleInHandler(r, Control("PUBCOMP", p.id))
      /\ store' = [store EXCEPT !.received = g]
  BY DEF HandlePubrel
<1>5. IsMap(o.received, Nat, 0..TopMsg) /\ IsMap(store.received, Nat, 0..TopMsg)
  BY DEF ObjectOK, StoreOK
<1>6. IsMap(f, Nat, 0..TopMsg) /\ IsMap(g, Nat, 0..TopMsg)
  BY <1>5, MessagesIs
<1> HIDE DEF f, g
<1>7. /\ ObjectOK(r) /\ Free(r) = Free(o) /\ r.sent = o.sent
      /\ r.cursor = o.cursor /\ r.sequence = o.sequence
  BY <1>6, ReceivedOK
<1> HIDE DEF r
<1>8. ObjectOK(c') /\ Keeps(c', r)
  BY <1>3, <1>4, <1>7, KeptIn, ScheduleInHandlerOK, ScheduleInHandlerKeeps
<1>9. StoreOK' /\ store'.sent = store.sent
  BY <1>4, <1>6, StoreIs DEF StoreOK
<1> QED
  BY <1>1, <1>7, <1>8, <1>9 DEF HandledOK, Keeps

\* A PUBCOMP handled.
LEMMA PubcompOK ==
    ASSUME NEW o, NEW p, ObjectOK(o), Free(o) # {}, StoreOK,
           arrived \in [1..InMsgs -> 0..2], HandlePubcomp(o, p)
    PROVE  HandledOK(o)
<1>1. CASE p.id \in DOMAIN o.sent
  BY <1>1, ForgetOK DEF HandlePubcomp
<1>2. CASE p.id \notin DOMAIN o.sent
  <2> DEFINE g == Unbind(store.sent, p.id)
  <2>1. /\ c' = Disconnected(o, TRUE) /\ store' = [store EXCEPT !.sent = g]
        /\ arrived' = arrived
    BY <1>2 DEF HandlePubcomp, NoArrival
  <2>2. ObjectOK(c') /\ Keeps(c', o)
    BY <2>1, KeptIn, DisconnectedOK, DisconnectedKeeps
  <2>3. /\ IsMap(g, Nat \ {0}, Pending) /\ IsFiniteSet(DOMAIN g)
        /\ DOMAIN g \subseteq DOMAIN store.sent
    <3>1. IsMap(store.sent, Nat \ {0}, Pending) /\ IsFiniteSet(DOMAIN store.sent)
      BY DEF StoreOK
    <3> QED
      BY <3>1, PendingIs
  <2> HIDE DEF g
  <2>4. StoreOK' /\ store'.sent = g
    BY <2>1, <2>3, StoreIs DEF StoreOK
  <2> QED
    BY <2>1, <2>2, <2>3, <2>4 DEF HandledOK, Keeps
<1> QED
  BY <1>1, <1>2

\* A REQUESTACK handled.
LEMMA RequestAckOK ==
    ASSUME NEW o, NEW p, ObjectOK(o), StoreOK,
           arrived \in [1..InMsgs -> 0..2], HandleRequestAck(o, p)
    PROVE  HandledOK(o)
<1> DEFINE f == Unbind(o.sent, p.id)
<1>1. c' = [o EXCEPT !.sent = f] /\ store' = store /\ arrived' = arrived
  BY DEF HandleRequestAck, NoArrival
<1>2. /\ IsMap(f, Nat \ {0}, Pending) /\ IsFiniteSet(DOMAIN f)
      /\ DOMAIN f \subseteq DOMAIN o.sent
  <2>1. IsMap(o.sent, Nat \ {0}, Pending) /\ IsFiniteSet(DOMAIN o.sent)
    BY DEF ObjectOK
  <2> QED
    BY <2>1, PendingIs
<1> HIDE DEF f
<1>3. /\ ObjectOK(c') /\ c'.sent = f
      /\ c'.cursor = o.cursor /\ c'.sequence = o.sequence
  BY <1>1, <1>2, SentOK
<1> QED
  BY <1>1, <1>2, <1>3 DEF HandledOK, StoreOK

-----------------------------------------------------------------------------
(***************************************************************************)
(* Messages and upsets account for every identifier. The steps of the      *)
(* client.                                                                 *)
(***************************************************************************)

\* At most OutMsgs messages were tried.
LEMMA TriedIs ==
    /\ IsFiniteSet(Tried) /\ Cardinality(Tried) \in Nat
    /\ Cardinality(Tried) <= OutMsgs
<1>1. Tried \in SUBSET (1..OutMsgs)
  BY DEF Tried
<1>2. IsFiniteSet(1..OutMsgs) /\ Cardinality(1..OutMsgs) = OutMsgs
  BY ConstantsAre, FS_Interval
<1> QED
  BY <1>1, <1>2, FS_Subset, FS_CardinalityType

\* The counts after a step that sends nothing.
LEMMA CountStep ==
    ASSUME Typed, outQos' = outQos, upsets' \in {upsets, upsets + 1},
           DOMAIN c'.sent \subseteq DOMAIN c.sent \union DOMAIN store.sent,
           DOMAIN store'.sent \subseteq DOMAIN c.sent \union DOMAIN store.sent,
           c'.cursor \in {c.cursor, 1}, c'.sequence \in {c.sequence, 0}
    PROVE  CountInv'
<1>1. Tried' = Tried
  BY DEF Tried
<1>2. Cardinality(Tried) \in Nat /\ upsets \in Nat
  BY TriedIs, ConstantsAre DEF Typed, TypeInv
<1>3. Tries \in Nat /\ Tries' \in {Tries, Tries + 1}
  BY <1>1, <1>2 DEF Tries
<1>4. 1 \in 1..(1 + Tries) /\ 1..(1 + Tries) \subseteq 1..(1 + Tries')
  <2>1. \A a, b \in Nat : b \in {a, a + 1} =>
            1 \in 1..(1 + a) /\ 1..(1 + a) \subseteq 1..(1 + b)
    OBVIOUS
  <2>2. Tries' \in Nat
    BY <1>3
  <2> QED
    BY <1>3, <2>1, <2>2
<1>5. 0 \in 0..Cardinality(Tried)
  BY <1>2
<1> QED
  BY <1>1, <1>4, <1>5 DEF CountInv, Typed

\* The parts of the inductive invariant that a step of the client's leaves.
LEMMA TypedStep ==
    ASSUME Typed, UNCHANGED <<broker, outQos, taken, inQos>>,
           upsets' \in {upsets, upsets + 1}, upsets' <= MaxUpsets,
           HandledOK(c)
    PROVE  Typed'
<1>1. CountInv'
  BY CountStep DEF HandledOK
<1>2. upsets' \in 0..MaxUpsets
  BY ConstantsAre DEF Typed, TypeInv
<1>3. BrokerOK'
  BY DEF BrokerOK, Typed, TypeInv
<1> QED
  BY <1>1, <1>2, <1>3 DEF Typed, TypeInv, HandledOK

\* And what a step of the client's keeps that does not touch what is stored.
LEMMA PlainStep ==
    ASSUME Typed, UNCHANGED <<broker, outQos, taken, inQos, store, arrived>>,
           upsets' = upsets \/ (upsets' = upsets + 1 /\ upsets < MaxUpsets),
           ObjectOK(c'), Keeps(c', c)
    PROVE  Typed'
<1>1. HandledOK(c)
  BY DEF HandledOK, Keeps, StoreOK, Typed, TypeInv
<1>2. upsets' \in {upsets, upsets + 1} /\ upsets' <= MaxUpsets
  BY ConstantsAre DEF Typed, TypeInv
<1> QED
  BY <1>1, <1>2, TypedStep

-----------------------------------------------------------------------------
\* Any packet handled leaves the invariant.
LEMMA MessageOK ==
    ASSUME NEW s \in Sockets, Typed, HandleMessage(s)
    PROVE  Typed'
<1> DEFINE p == Head(c.down[s])
           o == [c EXCEPT !.down[s] = Tail(@)]
<1>1. c.down[s] \in Seq(Packets) /\ c.down[s] # <<>>
  BY DEF HandleMessage, Typed, TypeInv, ObjectOK
<1>2. p \in Packets /\ Tail(c.down[s]) \in Seq(Packets)
  BY <1>1, TailIs
<1>3. /\ ObjectOK(o) /\ o.ready = c.ready /\ o.up = c.up /\ o.sent = c.sent
      /\ o.cursor = c.cursor /\ o.sequence = c.sequence
  BY <1>2 DEF Typed, TypeInv, ObjectOK, Fields
<1>4. /\ \/ HandleConnack(o, p) \/ HandlePublish(o, p) \/ HandlePuback(o, p)
         \/ HandlePubrec(o, p) \/ HandlePubrel(o, p) \/ HandlePubcomp(o, p)
         \/ HandleRequestAck(o, p)
      /\ UNCHANGED <<broker, outQos, taken, inQos, upsets>> /\ Room
  BY DEF HandleMessage, Quiet
<1> HIDE DEF p, o
<1>5. Free(o) # {}
  BY <1>3, <1>4 DEF Room, Free
<1>6. StoreOK /\ arrived \in [1..InMsgs -> 0..2] /\ upsets \in 0..MaxUpsets
  BY DEF Typed, TypeInv
<1>7. HandledOK(o)
  BY <1>2, <1>3, <1>4, <1>5, <1>6, ConnackOK, PublishOK, PubackOK, PubrecOK,
     PubrelOK, PubcompOK, RequestAckOK
<1>8. HandledOK(c)
  BY <1>3, <1>7 DEF HandledOK
<1> QED
  BY <1>4, <1>6, <1>8, TypedStep, ConstantsAre

\* The socket's open and close events leave it.
LEMMA SocketEventOK ==
    ASSUME NEW s \in Sockets, Typed, SocketOpen(s) \/ SocketClosed(s)
    PROVE  Typed'
<1> DEFINE o == [c EXCEPT !.ready[s] = "open"]
           d == [c EXCEPT !.ready[s] = "closed", !.on[s] = FALSE,
                          !.up[s] = <<>>]
           ps == <<Connect(o)>>
<1>1. ObjectOK(c) /\ Kept \subseteq DOMAIN c
  BY KeptIn DEF Typed, TypeInv
<1>2. ObjectOK(o) /\ Keeps(o, c) /\ o.sock = c.sock
  BY <1>1 DEF ObjectOK, Fields, Keeps
<1>3. /\ ObjectOK(d) /\ Keeps(d, c) /\ d.connected = c.connected
      /\ \A x \in Sockets : x # s => d.ready[x] = c.ready[x] /\ d.up[x] = c.up[x]
      /\ d.ready[s] = "closed" /\ d.up[s] = <<>>
  BY <1>1 DEF ObjectOK, Fields, Keeps
<1>4. Free(c) \subseteq Free(d)
  BY <1>3 DEF Free
<1>5. UNCHANGED <<broker, outQos, taken, inQos, store, arrived, upsets>>
  BY DEF SocketOpen, SocketClosed, Unstored
<1>6. \/ CanSend(o) /\ c' = SocketSend(o, ps)
      \/ c' = o \/ c' = d
      \/ Room /\ c' = Disconnected(d, TRUE)
  BY DEF SocketOpen, SocketClosed
<1>7. ps \in Seq(Packets)
  <2>1. Connect(o) \in Packets
    BY ControlIs DEF Connect, Kinds
  <2> QED
    BY <2>1
<1> HIDE DEF ps, o, d
<1>8. CASE CanSend(o) /\ c' = SocketSend(o, ps)
  <2>1. o.sock \in Sockets
    BY <1>2, <1>8 DEF CanSend, ObjectOK
  <2>2. ObjectOK(c') /\ Keeps(c', o)
    BY <1>2, <1>7, <1>8, <2>1, KeptIn, SocketSendOK, SocketSendKeeps
  <2>3. Keeps(c', c)
    BY <1>2, <2>2, KeepsOn
  <2> QED
    BY <1>5, <2>2, <2>3, PlainStep
<1>9. CASE c' = o
  BY <1>2, <1>5, <1>9, PlainStep
<1>10. CASE c' = d
  BY <1>3, <1>5, <1>10, PlainStep
<1>11. CASE Room /\ c' = Disconnected(d, TRUE)
  <2>1. Free(d) # {}
    BY <1>4, <1>11 DEF Room
  <2>2. ObjectOK(c') /\ Keeps(c', d)
    BY <1>3, <1>11, <2>1, KeptIn, DisconnectedOK, DisconnectedKeeps
  <2>3. Keeps(c', c)
    BY <1>3, <2>2, KeepsOn
  <2> QED
    BY <1>5, <2>2, <2>3, PlainStep
<1> QED
  BY <1>6, <1>8, <1>9, <1>10, <1>11

\* The timers leave it.
LEMMA TimersOK ==
    ASSUME Typed, Timer \/ SlowConnect
    PROVE  Typed'
<1> DEFINE t == [c EXCEPT !.connectTimer = "idle"]
           r == [c EXCEPT !.reconnectTimer = "idle"]
           n == [c EXCEPT !.orphans = @ - 1]
           w == [c EXCEPT !.pinger = "waiting"]
           e == [c EXCEPT !.pinger = "off"]
<1>1. ObjectOK(c) /\ Kept \subseteq DOMAIN c
  BY KeptIn DEF Typed, TypeInv
<1>2. /\ ObjectOK(t) /\ Keeps(t, c) /\ t.ready = c.ready /\ t.up = c.up
  BY <1>1 DEF ObjectOK, Fields, Keeps
<1>3. /\ ObjectOK(r) /\ Keeps(r, c) /\ r.ready = c.ready /\ r.up = c.up
  BY <1>1 DEF ObjectOK, Fields, Keeps
<1>4. c.orphans > 0 =>
      /\ ObjectOK(n) /\ Keeps(n, c) /\ n.ready = c.ready /\ n.up = c.up
  <2>1. c.orphans \in Nat /\ (c.orphans > 0 => c.orphans - 1 \in Nat)
    BY <1>1 DEF ObjectOK
  <2> QED
    BY <1>1, <2>1 DEF ObjectOK, Fields, Keeps
<1>5. /\ ObjectOK(w) /\ Keeps(w, c) /\ w.ready = c.ready /\ w.up = c.up
  BY <1>1 DEF ObjectOK, Fields, Keeps
<1>6. /\ ObjectOK(e) /\ Keeps(e, c) /\ e.ready = c.ready /\ e.up = c.up
  BY <1>1 DEF ObjectOK, Fields, Keeps
<1>7. /\ UNCHANGED <<broker, outQos, taken, inQos, store, arrived>> /\ Room
      /\ upsets' = upsets \/ (upsets' = upsets + 1 /\ upsets < MaxUpsets)
      /\ \/ c' = Disconnected(t, TRUE) \/ c' = Reconnect(r)
         \/ (c.orphans > 0 /\ c' = Reconnect(n)) \/ c' = w
         \/ c' = Disconnected(e, TRUE)
  BY DEF Timer, SlowConnect, ConnectTimeout, ReconnectTimeout,
         DoPing, Unstored, Upset
<1> HIDE DEF t, r, n, w, e
<1>8. /\ Free(t) = Free(c) /\ Free(r) = Free(c) /\ Free(e) = Free(c)
      /\ c.orphans > 0 => Free(n) = Free(c)
  BY <1>2, <1>3, <1>4, <1>6 DEF Free
<1>9. Free(c) # {}
  BY <1>7 DEF Room
<1>10. CASE c' = Disconnected(t, TRUE)
  <2>1. ObjectOK(c') /\ Keeps(c', c)
    BY <1>2, <1>8, <1>9, <1>10, KeptIn, DisconnectedOK, DisconnectedKeeps, KeepsOn
  <2> QED
    BY <2>1, <1>7, PlainStep
<1>11. CASE c' = Disconnected(e, TRUE)
  <2>1. ObjectOK(c') /\ Keeps(c', c)
    BY <1>6, <1>8, <1>9, <1>11, KeptIn, DisconnectedOK, DisconnectedKeeps, KeepsOn
  <2> QED
    BY <2>1, <1>7, PlainStep
<1>12. CASE c' = Reconnect(r)
  <2>1. ObjectOK(c') /\ Keeps(c', c)
    BY <1>3, <1>8, <1>9, <1>12, KeptIn, ReconnectOK, ReconnectKeeps, KeepsOn
  <2> QED
    BY <2>1, <1>7, PlainStep
<1>13. CASE c.orphans > 0 /\ c' = Reconnect(n)
  <2>1. ObjectOK(c') /\ Keeps(c', c)
    BY <1>4, <1>8, <1>9, <1>13, KeptIn, ReconnectOK, ReconnectKeeps, KeepsOn
  <2> QED
    BY <2>1, <1>7, PlainStep
<1>14. CASE c' = w
  BY <1>5, <1>7, <1>14, PlainStep
<1> QED
  BY <1>7, <1>10, <1>11, <1>12, <1>13, <1>14

\* connect() and disconnect() leave it.
LEMMA AppOK ==
    ASSUME Typed, AppConnect \/ AppDisconnect
    PROVE  Typed'
<1> DEFINE n == [c EXCEPT !.reconnecting = FALSE, !.version = 4,
                     !.reconnectTimer = IF c.reconnecting THEN "null" ELSE @]
           o == IF c.reconnecting
                THEN [c EXCEPT !.reconnecting = FALSE, !.reconnectTimer = "null"]
                ELSE c
           w == [o EXCEPT !.notify = TRUE]
           ps == <<Control("DISCONNECT", 0)>>
<1>1. ObjectOK(c) /\ Kept \subseteq DOMAIN c
  BY KeptIn DEF Typed, TypeInv
<1>2. /\ UNCHANGED <<broker, outQos, taken, inQos, store, arrived>>
      /\ upsets' = upsets \/ (upsets' = upsets + 1 /\ upsets < MaxUpsets)
      /\ \/ Free(c) # {} /\ c' = DoConnect(n)
         \/ c' = o \/ c' = Schedule(w, ps)
  BY DEF AppConnect, AppDisconnect, Upset
<1>3. ObjectOK(n) /\ Keeps(n, c) /\ n.ready = c.ready /\ n.up = c.up
  BY <1>1 DEF ObjectOK, Fields, Keeps
<1>4. ObjectOK(o) /\ Keeps(o, c)
  BY <1>1 DEF ObjectOK, Fields, Keeps
<1>5. ps \in Seq(Packets)
  <2>1. Control("DISCONNECT", 0) \in Packets
    BY ControlIs DEF Kinds
  <2> QED
    BY <2>1
<1> HIDE DEF n, o, ps
<1>6. ObjectOK(w) /\ Keeps(w, c)
  BY <1>4 DEF ObjectOK, Fields, Keeps
<1> HIDE DEF w
<1>7. CASE Free(c) # {} /\ c' = DoConnect(n)
  <2>1. Free(n) # {}
    BY <1>3, <1>7 DEF Free
  <2>2. ObjectOK(c') /\ Keeps(c', c)
    BY <1>3, <1>7, <2>1, KeptIn, DoConnectOK, DoConnectKeeps, KeepsOn
  <2> QED
    BY <1>2, <2>2, PlainStep
<1>8. CASE c' = o
  BY <1>2, <1>4, <1>8, PlainStep
<1>9. CASE c' = Schedule(w, ps)
  <2>1. ObjectOK(c') /\ Keeps(c', c)
    BY <1>5, <1>6, <1>9, KeptIn, ScheduleOK, ScheduleKeeps, KeepsOn
  <2> QED
    BY <1>2, <2>1, PlainStep
<1> QED
  BY <1>2, <1>7, <1>8, <1>9

-----------------------------------------------------------------------------
(***************************************************************************)
(* The two calls of the application's that take an identifier.             *)
(***************************************************************************)

\* An identifier that is free, and not above what the counts allow.
LEMMA FreeIdIs ==
    ASSUME Typed
    PROVE  /\ FreeId \in Nat \ {0} /\ FreeId \notin DOMAIN c.sent
           /\ FreeId \in 1..(2 + Tries)
<1> DEFINE D == DOMAIN c.sent
           n == Cardinality(D)
           I == c.cursor..(c.cursor + n)
           T == I \ D
<1>1. /\ IsFiniteSet(D) /\ c.cursor \in Nat \ {0}
      /\ D \subseteq 1..(1 + Tries) /\ c.cursor \in 1..(1 + Tries)
  BY DEF Typed, TypeInv, ObjectOK, CountInv
<1>2. n \in Nat
  BY <1>1, FS_CardinalityType
<1>3. Tries \in Nat
  BY TriedIs, ConstantsAre DEF Tries, Typed, TypeInv
<1> HIDE DEF D
<1>4. Cardinality(I) = n + 1
  BY <1>1, <1>2, FS_Interval, SMTT(30)
<1>5. ~(I \subseteq D)
  BY <1>1, <1>2, <1>4, FS_Subset
<1>6. FreeId = Min(T)
  BY DEF FreeId, D
<1> HIDE DEF n
<1>7. T \in SUBSET Nat /\ T # {}
  BY <1>1, <1>2, <1>5
<1>8. Min(T) \in T /\ \A y \in T : Min(T) <= y
  BY <1>7, MinIs
<1> DEFINE x == Min(T)
<1>9. x \in Nat /\ x >= c.cursor /\ x <= c.cursor + n /\ x \notin D
  BY <1>1, <1>2, <1>8
<1>10. x = c.cursor \/ x - 1 \in I
  BY <1>1, <1>2, <1>9
<1>11. x = c.cursor \/ x - 1 \in D
  BY <1>8, <1>9, <1>10
<1> HIDE DEF x, T
<1>12. x \in 1..(2 + Tries)
  <2>1. c.cursor \in Nat /\ c.cursor <= 1 + Tries /\ c.cursor >= 1
    BY <1>1, <1>3
  <2>2. \A y \in D : y <= 1 + Tries
    BY <1>1, <1>3
  <2> QED
    BY <1>3, <1>9, <1>11, <2>1, <2>2
<1> QED
  BY <1>6, <1>9, <1>12 DEF x, D

\* The object with one more message that awaits an acknowledgement.
LEMMA RequiresAckOK ==
    ASSUME NEW kind \in {"PUBLISH", "REQUEST"}, NEW m \in 0..OutMsgs,
           NEW q \in 0..2, Typed
    PROVE  LET r == RequiresAck(kind, m, q)
           IN  /\ ObjectOK(r) /\ DOMAIN r.sent = DOMAIN c.sent \union {FreeId}
               /\ r.sent[FreeId] \in Pending
               /\ r.cursor \in {1, FreeId}
               /\ r.sequence = IF kind = "PUBLISH" THEN c.sequence + 1
                               ELSE c.sequence
<1> DEFINE seq == IF kind = "PUBLISH" THEN c.sequence + 1 ELSE Undefined
           e == [kind |-> kind, msg |-> m, qos |-> q, seq |-> seq, rec |-> FALSE]
           f == Bind(c.sent, FreeId, e)
           k == IF FreeId = MaxId THEN 1 ELSE FreeId
           n == IF kind = "PUBLISH" THEN seq ELSE c.sequence
           r == RequiresAck(kind, m, q)
<1>1. r = [c EXCEPT !.sent = f, !.cursor = k, !.sequence = n]
  BY DEF RequiresAck
<1>2. ObjectOK(c) /\ c.sequence \in Nat
  BY DEF Typed, TypeInv, ObjectOK
<1>3. e \in Pending /\ n \in Nat
  BY <1>2, ConstantsAre DEF Pending, Undefined
<1>4. n = IF kind = "PUBLISH" THEN c.sequence + 1 ELSE c.sequence
  OBVIOUS
<1> HIDE DEF e, n
<1>5. IsMap(c.sent, Nat \ {0}, Pending) /\ IsFiniteSet(DOMAIN c.sent)
  BY <1>2 DEF ObjectOK
<1>6. FreeId \in Nat \ {0}
  BY FreeIdIs
<1>7. /\ IsMap(f, Nat \ {0}, Pending) /\ IsFiniteSet(DOMAIN f)
      /\ DOMAIN f = DOMAIN c.sent \union {FreeId}
      /\ f[FreeId] = e
  BY <1>3, <1>5, <1>6, BindPending
<1> HIDE DEF f
<1>8. k \in Nat \ {0} /\ k \in {1, FreeId}
  BY <1>6
<1> HIDE DEF k, r
<1>9. r.sent = f /\ r.cursor = k /\ r.sequence = n
  BY <1>1, <1>2 DEF ObjectOK, Fields
<1>10. ObjectOK(r)
  BY <1>1, <1>2, <1>3, <1>7, <1>8 DEF ObjectOK, Fields
<1> QED
  BY <1>3, <1>4, <1>7, <1>8, <1>9, <1>10 DEF r

\* The counts after a call that takes an identifier.
LEMMA CountTaken ==
    ASSUME Typed, Tries' = Tries + 1,
           DOMAIN c'.sent \subseteq DOMAIN c.sent \union {FreeId},
           DOMAIN store'.sent \subseteq DOMAIN store.sent \union {FreeId},
           c'.cursor \in {c.cursor, 1, FreeId},
           c'.sequence \in 0..Cardinality(Tried')
    PROVE  CountInv'
<1>1. Tries \in Nat
  BY TriedIs, ConstantsAre DEF Tries, Typed, TypeInv
<1>2. FreeId \in 1..(1 + Tries')
  <2>1. FreeId \in Nat /\ 1 <= FreeId /\ FreeId <= 2 + Tries
    BY FreeIdIs, <1>1
  <2>2. 1 + Tries' = 2 + Tries
    BY <1>1
  <2> QED
    BY <1>1, <2>1, <2>2
<1>3. 1 \in 1..(1 + Tries') /\ 1..(1 + Tries) \subseteq 1..(1 + Tries')
  <2>1. \A a \in Nat : 1 \in 1..(1 + (a + 1)) /\ 1..(1 + a) \subseteq 1..(1 + (a + 1))
    OBVIOUS
  <2> QED
    BY <1>1, <2>1
<1>4. /\ DOMAIN c.sent \subseteq 1..(1 + Tries)
      /\ DOMAIN store.sent \subseteq 1..(1 + Tries)
      /\ c.cursor \in 1..(1 + Tries)
  BY DEF Typed, CountInv
<1> QED
  BY <1>2, <1>3, <1>4 DEF CountInv

\* The application's request leaves the invariant.
LEMMA RequestOK ==
    ASSUME Typed, AppRequest
    PROVE  Typed'
<1> DEFINE r == RequiresAck("REQUEST", 0, 0)
           ps == <<Control("REQUEST", FreeId)>>
<1>1. /\ c' = Schedule(r, ps) /\ upsets' = upsets + 1 /\ upsets < MaxUpsets
      /\ UNCHANGED <<store, broker, outQos, taken, inQos, arrived>>
  BY DEF AppRequest, Upset
<1>2. /\ ObjectOK(r) /\ DOMAIN r.sent = DOMAIN c.sent \union {FreeId}
      /\ r.cursor \in {1, FreeId} /\ r.sequence = c.sequence
  BY RequiresAckOK, ConstantsAre
<1>3. ps \in Seq(Packets)
  <2>1. Control("REQUEST", FreeId) \in Packets
    BY FreeIdIs, ControlIs DEF Kinds
  <2> QED
    BY <2>1
<1> HIDE DEF r, ps
<1>4. ObjectOK(c') /\ Keeps(c', r)
  BY <1>1, <1>2, <1>3, KeptIn, ScheduleOK, ScheduleKeeps
<1>5. upsets \in Nat /\ MaxUpsets \in Nat
  BY ConstantsAre DEF Typed, TypeInv
<1>6. Tried' = Tried
  BY <1>1 DEF Tried
<1>7. Tries' = Tries + 1
  BY <1>1, <1>5, <1>6, TriedIs DEF Tries
<1>8. c'.sequence \in 0..Cardinality(Tried')
  BY <1>2, <1>4, <1>6 DEF Keeps, Typed, CountInv
<1>9. CountInv'
  BY <1>1, <1>2, <1>4, <1>7, <1>8, CountTaken DEF Keeps
<1>10. upsets' \in 0..MaxUpsets
  BY <1>1, <1>5
<1>11. BrokerOK' /\ StoreOK'
  BY <1>1 DEF BrokerOK, StoreOK, Typed, TypeInv
<1> QED
  BY <1>1, <1>4, <1>9, <1>10, <1>11 DEF Typed, TypeInv

\* The message to send next is one that was not tried.
LEMMA NextOutIs ==
    ASSUME \E m \in 1..OutMsgs : outQos[m] = Unsent
    PROVE  NextOut \in 1..OutMsgs /\ outQos[NextOut] = Unsent
<1> DEFINE T == {m \in 1..OutMsgs : outQos[m] = Unsent}
<1>1. T \in SUBSET Nat /\ T # {}
  OBVIOUS
<1>2. Min(T) \in T
  BY <1>1, MinIs
<1> QED
  BY <1>2 DEF NextOut

\* send() leaves the invariant, whichever way it answers.
LEMMA SendOK ==
    ASSUME NEW q \in 0..2, Typed, AppSend(q)
    PROVE  Typed'
<1> DEFINE m == NextOut
           r == RequiresAck("PUBLISH", m, q)
           pkt(i) == Packet("PUBLISH", i, m, q)
           n == [c EXCEPT !.notify = FALSE]
<1>1. m \in 1..OutMsgs /\ outQos[m] = Unsent
  BY NextOutIs DEF AppSend
<1>2. /\ outQos' = [outQos EXCEPT ![m] = q]
      /\ UNCHANGED <<broker, taken, inQos, arrived, upsets>>
  BY DEF AppSend
<1> HIDE DEF m
<1>3. /\ ObjectOK(c) /\ StoreOK /\ outQos \in [1..OutMsgs -> 0..Unsent]
      /\ upsets \in 0..MaxUpsets /\ upsets \in Nat
      /\ c.sequence \in Nat /\ c.sequence <= Cardinality(Tried)
  BY ConstantsAre, TriedIs DEF Typed, TypeInv, CountInv
<1>4. outQos' \in [1..OutMsgs -> 0..Unsent] /\ outQos'[m] # Unsent
  BY <1>1, <1>2, <1>3 DEF Unsent
<1>5. /\ Cardinality(Tried') = Cardinality(Tried) + 1
      /\ Tries' = Tries + 1
  <2>1. Tried' = Tried \union {m} /\ m \notin Tried
    BY <1>1, <1>2, <1>3, <1>4 DEF Tried
  <2>2. Cardinality(Tried') = Cardinality(Tried) + 1
    BY <2>1, TriedIs, FS_AddElement
  <2> QED
    BY <1>2, <1>3, <2>2, TriedIs DEF Tries
<1>6. \A i \in Nat : pkt(i) \in Packets /\ <<pkt(i)>> \in Seq(Packets)
  <2>1. m \in 0..TopMsg
    BY <1>1, TopIs
  <2>2. \A i \in Nat : pkt(i) \in Packets
    BY <2>1, PacketIs DEF Kinds
  <2> QED
    BY <2>2
<1> HIDE DEF pkt
<1>7. BrokerOK' 
  BY <1>2 DEF BrokerOK, Typed, TypeInv
<1>8. SUFFICES ObjectOK(c') /\ StoreOK' /\ CountInv'
  BY <1>2, <1>4, <1>7 DEF Typed, TypeInv
<1>9. CASE q = 0
  <2>1. store' = store
    BY <1>9 DEF AppSend
  <2>2. StoreOK'
    BY <1>3, <2>1 DEF StoreOK
  <2>3. /\ ObjectOK(c') /\ c'.sent = c.sent /\ c'.cursor = c.cursor
        /\ c'.sequence \in {c.sequence, c.sequence + 1}
    <3>1. CASE c.connected
      <4>1. c' = Schedule(n, <<pkt(0)>>)
        BY <1>9, <3>1 DEF AppSend, pkt, m
      <4>2. ObjectOK(n) /\ Keeps(n, c)
        BY <1>3 DEF ObjectOK, Fields, Keeps
      <4> HIDE DEF n
      <4>3. ObjectOK(c') /\ Keeps(c', n)
        BY <1>6, <4>1, <4>2, KeptIn, ScheduleOK, ScheduleKeeps
      <4> QED
        BY <4>2, <4>3 DEF Keeps
    <3>2. CASE ~c.connected
      <4> DEFINE e == [pkt |-> pkt(0), seq |-> c.sequence + 1]
                 b == Append(c.buffered, e)
      <4>1. c' = [c EXCEPT !.sequence = @ + 1, !.buffered = Append(@, e)]
        BY <1>9, <3>2 DEF AppSend, pkt, m
      <4>2. e \in [pkt : Packets, seq : Nat]
        BY <1>3, <1>6
      <4>3. b \in Seq([pkt : Packets, seq : Nat])
        BY <1>3, <4>2 DEF ObjectOK
      <4>4. c.sequence + 1 \in Nat
        BY <1>3
      <4>5. c' = [c EXCEPT !.sequence = c.sequence + 1, !.buffered = b]
        BY <4>1, <1>3 DEF ObjectOK, Fields
      <4> HIDE DEF b, e
      <4>6. ObjectOK(c')
        BY <1>3, <4>3, <4>4, <4>5 DEF ObjectOK, Fields
      <4>7. /\ c'.sent = c.sent /\ c'.cursor = c.cursor
            /\ c'.sequence = c.sequence + 1
        BY <1>3, <4>5 DEF ObjectOK, Fields
      <4> QED
        BY <4>6, <4>7
    <3> QED
      BY <3>1, <3>2
  <2>4. c'.sequence \in 0..Cardinality(Tried')
    BY <1>3, <1>5, <2>3, TriedIs
  <2>5. CountInv'
    BY <1>5, <2>1, <2>3, <2>4, CountTaken
  <2> QED
    BY <2>2, <2>3, <2>5
<1>10. CASE q > 0
  <2>1. store' = [store EXCEPT !.sent = Bind(@, FreeId, r.sent[FreeId])]
    BY <1>10 DEF AppSend, StoreSent, m
  <2>2. c' \in {Schedule(r, <<pkt(FreeId)>>), r}
    BY <1>10 DEF AppSend, m, pkt
  <2>3. /\ ObjectOK(r) /\ DOMAIN r.sent = DOMAIN c.sent \union {FreeId}
        /\ r.sent[FreeId] \in Pending
        /\ r.cursor \in {1, FreeId} /\ r.sequence = c.sequence + 1
    <3>1. m \in 0..OutMsgs
      BY <1>1
    <3> QED
      BY <3>1, RequiresAckOK
  <2> HIDE DEF r
  <2>4. FreeId \in Nat \ {0}
    BY FreeIdIs
  <2>5. ObjectOK(c') /\ Keeps(c', r)
    <3>1. Keeps(r, r)
      BY DEF Keeps
    <3> QED
      BY <1>6, <2>2, <2>3, <2>4, <3>1, KeptIn, ScheduleOK, ScheduleKeeps
  <2> DEFINE g == Bind(store.sent, FreeId, r.sent[FreeId])
  <2>6. /\ IsMap(g, Nat \ {0}, Pending) /\ IsFiniteSet(DOMAIN g)
        /\ DOMAIN g = DOMAIN store.sent \union {FreeId}
    <3>1. IsMap(store.sent, Nat \ {0}, Pending) /\ IsFiniteSet(DOMAIN store.sent)
      BY <1>3 DEF StoreOK
    <3> DEFINE f == store.sent
               x == r.sent[FreeId]
    <3>2. /\ IsMap(f, Nat \ {0}, Pending) /\ IsFiniteSet(DOMAIN f)
          /\ x \in Pending
      BY <2>3, <3>1
    <3> HIDE DEF f, x
    <3>3. /\ IsMap(Bind(f, FreeId, x), Nat \ {0}, Pending)
          /\ IsFiniteSet(DOMAIN Bind(f, FreeId, x))
          /\ DOMAIN Bind(f, FreeId, x) = DOMAIN f \union {FreeId}
      BY <2>4, <3>2, BindPending
    <3> QED
      BY <3>3 DEF f, x
  <2>7. store' = [store EXCEPT !.sent = g]
    BY <2>1, <1>3 DEF StoreOK
  <2> HIDE DEF g
  <2>8. StoreOK' /\ store'.sent = g
    BY <1>3, <2>6, <2>7, StoreIs DEF StoreOK
  <2>9. c'.sequence \in 0..Cardinality(Tried')
    BY <1>3, <1>5, <2>3, <2>5, TriedIs DEF Keeps
  <2>10. CountInv'
    BY <1>5, <2>3, <2>5, <2>6, <2>8, <2>9, CountTaken DEF Keeps
  <2> QED
    BY <2>5, <2>8, <2>10
<1> QED
  BY <1>9, <1>10

-----------------------------------------------------------------------------
(***************************************************************************)
(* The broker's steps: its messages in flight have different identifiers.  *)
(***************************************************************************)

\* Packets put on the way to the client leave the types.
LEMMA DeliverOK ==
    ASSUME NEW o, NEW s, NEW ps \in Seq(Packets), ObjectOK(o)
    PROVE  ObjectOK(Deliver(o, s, ps))
<1> DEFINE d == o.down[s] \o ps
           r == [o EXCEPT !.down[s] = d]
<1>1. Deliver(o, s, ps) = IF Works(o, s) THEN r ELSE o
  BY DEF Deliver
<1>2. CASE s \in Sockets
  <2>1. d \in Seq(Packets)
    BY <1>2 DEF ObjectOK
  <2> HIDE DEF d
  <2>2. ObjectOK(r)
    BY <1>2, <2>1 DEF ObjectOK, Fields
  <2> QED
    BY <1>1, <2>2
<1>3. CASE s \notin Sockets
  <2>1. [o.down EXCEPT ![s] = d] = o.down
    BY <1>3 DEF ObjectOK
  <2>2. r = [o EXCEPT !.down = [o.down EXCEPT ![s] = d]]
    OBVIOUS
  <2> HIDE DEF d
  <2>3. ObjectOK(r)
    BY <2>1, <2>2 DEF ObjectOK, Fields
  <2> QED
    BY <1>1, <2>3
<1> QED
  BY <1>2, <1>3

\* So does the end of a connection.
LEMMA DropOK ==
    ASSUME NEW o, NEW s \in Sockets \union {NoSocket}, ObjectOK(o)
    PROVE  ObjectOK(Drop(o, s))
<1>1. CASE s = NoSocket
  BY <1>1 DEF Drop
<1>2. CASE s # NoSocket
  <2>1. s \in Sockets
    BY <1>2
  <2>2. Drop(o, s) = [o EXCEPT !.link[s] = "down", !.up[s] = <<>>]
    BY <1>2 DEF Drop
  <2> QED
    BY <2>1, <2>2 DEF ObjectOK, Fields
<1> QED
  BY <1>1, <1>2

\* The inductive invariant after a step of the broker's.
LEMMA BrokerStep ==
    ASSUME Typed, UNCHANGED <<store, outQos, arrived>>,
           upsets' = upsets \/ (upsets' = upsets + 1 /\ upsets < MaxUpsets),
           ObjectOK(c'), Keeps(c', c), BrokerOK',
           inQos' \in [1..InMsgs -> 0..Unsent], taken' \in [1..OutMsgs -> 0..2]
    PROVE  Typed'
<1>1. upsets' \in {upsets, upsets + 1} /\ upsets' \in 0..MaxUpsets
  BY ConstantsAre DEF Typed, TypeInv
<1>2. CountInv'
  BY <1>1, CountStep DEF Keeps
<1>3. StoreOK'
  BY DEF StoreOK, Typed, TypeInv
<1> QED
  BY <1>1, <1>2, <1>3 DEF Typed, TypeInv

\* What the broker has in flight.
OutOK(out) ==
    /\ out \in Seq(Flights)
    /\ \A i, j \in DOMAIN out :
          out[i].id = out[j].id \/ out[i].msg = out[j].msg => i = j
    /\ \A i \in DOMAIN out : inQos[out[i].msg] # Unsent

\* What BrokerOK says of what is in flight.
LEMMA OutOKIs ==
    ASSUME Typed
    PROVE  OutOK(broker.out)
BY DEF Typed, TypeInv, BrokerOK, OutOK

\* A broker with such messages in flight is in order.
LEMMA NewOut ==
    ASSUME Typed, UNCHANGED inQos, NEW out, OutOK(out),
           NEW conn \in Sockets \union {NoSocket}, NEW rec \in SUBSET Nat,
           broker' = [conn |-> conn, rec |-> rec, out |-> out]
    PROVE  BrokerOK'
BY DEF BrokerOK, OutOK

\* A message that is answered for leaves the others in order.
LEMMA InFlightOK ==
    ASSUME NEW id, Typed
    PROVE  OutOK(InFlight(id))
<1> DEFINE out == broker.out
           places == {i \in DOMAIN out : out[i].id = id}
           k == CHOOSE i \in places : TRUE
           r == RemoveAt(out, k)
<1>1. OutOK(out)
  BY OutOKIs
<1>2. CASE places = {}
  BY <1>1, <1>2 DEF InFlight
<1>3. CASE places # {}
  <2>1. k \in DOMAIN out
    BY <1>3
  <2>2. InFlight(id) = r
    BY <1>3 DEF InFlight
  <2> HIDE DEF k, out
  <2>3. out \in Seq(Flights)
    BY <1>1 DEF OutOK
  <2>4. Len(out) \in Nat /\ DOMAIN out = 1..Len(out)
    BY <2>3, SeqIs
  <2>5. /\ r \in Seq(Flights) /\ Len(r) = Len(out) - 1
        /\ \A j \in 1..(Len(out) - 1) :
              r[j] = IF j < k THEN out[j] ELSE out[j + 1]
    BY <2>1, <2>3, <2>4, RemoveAtEntries
  <2> HIDE DEF r
  <2>6. DOMAIN r = 1..(Len(out) - 1)
    BY <2>5, SeqIs
  <2>7. k \in 1..Len(out)
    BY <2>1, <2>4
  <2> DEFINE g(j) == IF j < k THEN j ELSE j + 1
  <2>8. \A j \in DOMAIN r : g(j) \in DOMAIN out /\ r[j] = out[g(j)]
    BY <2>4, <2>5, <2>6, <2>7
  <2>9. \A i, j \in DOMAIN r : g(i) = g(j) => i = j
    BY <2>4, <2>6, <2>7
  <2> HIDE DEF g
  <2>10. \A i, j \in DOMAIN r :
            r[i].id = r[j].id \/ r[i].msg = r[j].msg => i = j
    BY <1>1, <2>8, <2>9 DEF OutOK
  <2>11. \A i \in DOMAIN r : inQos[r[i].msg] # Unsent
    BY <1>1, <2>8 DEF OutOK
  <2> QED
    BY <2>2, <2>5, <2>10, <2>11 DEF OutOK
<1> QED
  BY <1>2, <1>3

\* A PUBREC changes the stage of an entry and nothing else.
LEMMA ReleasedOK ==
    ASSUME NEW id, Typed
    PROVE  OutOK([i \in DOMAIN broker.out |->
                    IF broker.out[i].id = id
                    THEN [broker.out[i] EXCEPT !.rel = TRUE]
                    ELSE broker.out[i]])
<1> DEFINE out == broker.out
           r == [i \in DOMAIN out |->
                    IF out[i].id = id THEN [out[i] EXCEPT !.rel = TRUE] ELSE out[i]]
<1>1. OutOK(out)
  BY OutOKIs
<1> HIDE DEF out
<1>2. out \in Seq(Flights)
  BY <1>1 DEF OutOK
<1>3. /\ Len(out) \in Nat /\ DOMAIN out = 1..Len(out)
      /\ \A i \in 1..Len(out) : out[i] \in Flights
  BY <1>2, SeqIs
<1>4. \A i \in 1..Len(out) : /\ r[i] \in Flights
                             /\ r[i].id = out[i].id /\ r[i].msg = out[i].msg
  <2>1. ASSUME NEW i \in 1..Len(out)
        PROVE  r[i] \in Flights /\ r[i].id = out[i].id /\ r[i].msg = out[i].msg
    <3>1. out[i] \in Flights
      BY <1>3
    <3>2. r[i] \in {out[i], [out[i] EXCEPT !.rel = TRUE]}
      BY <1>3
    <3> HIDE DEF r
    <3> QED
      BY <3>1, <3>2 DEF Flights
  <2> QED
    BY <2>1
<1>5. r = [i \in 1..Len(out) |-> r[i]] /\ DOMAIN r = DOMAIN out
  BY <1>3
<1> HIDE DEF r
<1>6. r \in Seq(Flights)
  BY <1>3, <1>4, <1>5, MakesSeq
<1>7. OutOK(r)
  BY <1>1, <1>3, <1>4, <1>5, <1>6 DEF OutOK
<1> QED
  BY <1>7 DEF r, out

\* The broker takes a CONNECT.
LEMMA ConnectedOK ==
    ASSUME NEW o, NEW s \in Sockets, NEW clean \in BOOLEAN, Typed,
           ObjectOK(o), Keeps(o, c), BrokerConnect(o, s, clean),
           UNCHANGED <<store, outQos, inQos, arrived>>
    PROVE  Typed'
<1> DEFINE out == IF clean THEN <<>> ELSE broker.out
           f == [i \in DOMAIN out |-> Redelivery(out[i])]
           ps == <<Control("CONNACK", 0)>> \o f
           d == Drop(o, broker.conn)
           rec == IF clean THEN {} ELSE broker.rec
<1>1. /\ c' = Deliver(d, s, ps)
      /\ broker' = [conn |-> s, out |-> out, rec |-> rec]
      /\ UNCHANGED <<taken, upsets>>
  BY DEF BrokerConnect
<1>2. OutOK(out)
  <2>1. OutOK(<<>>)
    BY DEF OutOK
  <2> QED
    BY <2>1, OutOKIs
<1> HIDE DEF out
<1>3. ps \in Seq(Packets)
  <2>1. out \in Seq(Flights)
    BY <1>2 DEF OutOK
  <2>2. /\ Len(out) \in Nat /\ DOMAIN out = 1..Len(out)
        /\ \A i \in 1..Len(out) : out[i] \in Flights
    BY <2>1, SeqIs
  <2>3. \A e \in Flights : Redelivery(e) \in Packets
    <3>1. SUFFICES ASSUME NEW e \in Flights PROVE Redelivery(e) \in Packets
      OBVIOUS
    <3>2. e.id \in Nat /\ e.msg \in 0..TopMsg /\ e.qos \in 0..2
      BY TopIs DEF Flights
    <3> QED
      BY <3>2, PacketIs, ControlIs DEF Redelivery, Kinds
  <2>4. f = [i \in 1..Len(out) |-> f[i]] /\ \A i \in 1..Len(out) : f[i] \in Packets
    BY <2>2, <2>3
  <2> HIDE DEF f
  <2>5. f \in Seq(Packets)
    BY <2>2, <2>4, MakesSeq
  <2>6. Control("CONNACK", 0) \in Packets
    BY ControlIs DEF Kinds
  <2> QED
    BY <2>5, <2>6
<1> HIDE DEF ps
<1>4. broker.conn \in Sockets \union {NoSocket} /\ rec \in SUBSET Nat
  BY DEF Typed, TypeInv, BrokerOK
<1> HIDE DEF rec
<1>5. Kept \subseteq DOMAIN o
  BY KeptIn
<1>6. ObjectOK(d) /\ Keeps(d, o) /\ Kept \subseteq DOMAIN d
  BY <1>4, <1>5, DropOK, DropKeeps DEF Keeps
<1> HIDE DEF d
<1>7. ObjectOK(c') /\ Keeps(c', d)
  BY <1>1, <1>3, <1>6, DeliverOK, DeliverKeeps
<1>8. Keeps(c', c)
  BY <1>6, <1>7, KeepsOn
<1>9. BrokerOK'
  BY <1>1, <1>2, <1>4, NewOut
<1>10. inQos' \in [1..InMsgs -> 0..Unsent] /\ taken' \in [1..OutMsgs -> 0..2]
  BY <1>1 DEF Typed, TypeInv
<1> QED
  BY <1>1, <1>7, <1>8, <1>9, <1>10, BrokerStep

\* The broker takes any other packet.
LEMMA AnswersOK ==
    ASSUME NEW o, NEW s \in Sockets, NEW p \in Packets, Typed,
           ObjectOK(o), Keeps(o, c), BrokerAnswers(o, s, p),
           UNCHANGED <<store, outQos, inQos, arrived>>
    PROVE  Typed'
<1>1. p.id \in Nat
  BY DEF Packets
<1>2. /\ broker = [conn |-> broker.conn, rec |-> broker.rec, out |-> broker.out]
      /\ broker.conn \in Sockets \union {NoSocket} /\ broker.rec \in SUBSET Nat
  BY DEF Typed, TypeInv, BrokerOK
<1>3. Kept \subseteq DOMAIN o
  BY KeptIn
<1>4. ObjectOK(c') /\ Keeps(c', c)
  <2>1. \/ c' = o \/ c' = Drop(o, s)
        \/ \E k \in Kinds : c' = Deliver(o, s, <<Control(k, p.id)>>)
    BY DEF BrokerAnswers, Kinds
  <2>2. \A k \in Kinds : <<Control(k, p.id)>> \in Seq(Packets)
    BY <1>1, ControlIs
  <2>3. CASE c' = o
    BY <2>3
  <2>4. CASE c' = Drop(o, s)
    <3>1. ObjectOK(c') /\ Keeps(c', o)
      BY <2>4, <1>3, DropOK, DropKeeps
    <3> QED
      BY <3>1, KeepsOn
  <2>5. CASE \E k \in Kinds : c' = Deliver(o, s, <<Control(k, p.id)>>)
    <3>1. ObjectOK(c') /\ Keeps(c', o)
      BY <2>2, <2>5, <1>3, DeliverOK, DeliverKeeps
    <3> QED
      BY <3>1, KeepsOn
  <2> QED
    BY <2>1, <2>3, <2>4, <2>5
<1>5. BrokerOK'
  <2> DEFINE rel == [i \in DOMAIN broker.out |->
                       IF broker.out[i].id = p.id
                       THEN [broker.out[i] EXCEPT !.rel = TRUE]
                       ELSE broker.out[i]]
             add == broker.rec \union {p.id}
             sub == broker.rec \ {p.id}
  <2>1. \E conn \in Sockets \union {NoSocket}, rec \in {broker.rec, add, sub},
           out \in {broker.out, InFlight(p.id), rel} :
              broker' = [conn |-> conn, rec |-> rec, out |-> out]
    BY <1>2 DEF BrokerAnswers
  <2>2. \A rec \in {broker.rec, add, sub} : rec \in SUBSET Nat
    BY <1>1, <1>2
  <2>3. \A out \in {broker.out, InFlight(p.id), rel} : OutOK(out)
    BY OutOKIs, InFlightOK, ReleasedOK
  <2> HIDE DEF rel, add, sub
  <2> QED
    BY <2>1, <2>2, <2>3, NewOut
<1>6. taken' \in [1..OutMsgs -> 0..2]
  <2>1. taken' = taken \/ taken' = [taken EXCEPT ![p.msg] = Saturate(@)]
    BY DEF BrokerAnswers
  <2>2. \A n : Saturate(n) \in 0..2
    BY DEF Saturate
  <2> QED
    BY <2>1, <2>2 DEF Typed, TypeInv
<1>7. inQos' \in [1..InMsgs -> 0..Unsent]
  BY DEF Typed, TypeInv
<1>8. upsets' = upsets
  BY DEF BrokerAnswers
<1> QED
  BY <1>4, <1>5, <1>6, <1>7, <1>8, BrokerStep

\* The broker's step leaves the invariant.
LEMMA ReceiveOK ==
    ASSUME NEW s \in Sockets, Typed, BrokerReceive(s)
    PROVE  Typed'
<1> DEFINE p == Head(c.up[s])
           o == [c EXCEPT !.up[s] = Tail(@)]
           ref == <<Control("REFUSED", 0)>>
<1>1. c.up[s] \in Seq(Packets) /\ c.up[s] # <<>>
  BY DEF BrokerReceive, Typed, TypeInv, ObjectOK
<1>2. p \in Packets /\ Tail(c.up[s]) \in Seq(Packets)
  BY <1>1, TailIs
<1>3. ObjectOK(c) /\ Kept \subseteq DOMAIN c
  BY KeptIn DEF Typed, TypeInv
<1>4. ObjectOK(o) /\ Keeps(o, c)
  BY <1>2, <1>3 DEF ObjectOK, Fields, Keeps
<1>5. /\ \/ BrokerConnect(o, s, p.id = 1) \/ BrokerRefuse(o, s)
         \/ BrokerRejects(o, s) \/ BrokerAnswers(o, s, p)
      /\ UNCHANGED <<store, outQos, inQos, arrived>>
  BY DEF BrokerReceive
<1> HIDE DEF p, o
<1>6. Kept \subseteq DOMAIN o
  BY <1>4, KeptIn
<1>7. taken \in [1..OutMsgs -> 0..2] /\ inQos' \in [1..InMsgs -> 0..Unsent]
  BY <1>5 DEF Typed, TypeInv
<1>8. /\ broker = [conn |-> broker.conn, rec |-> broker.rec, out |-> broker.out]
      /\ broker.conn \in Sockets \union {NoSocket} /\ broker.rec \in SUBSET Nat
  BY DEF Typed, TypeInv, BrokerOK
<1>9. CASE BrokerConnect(o, s, p.id = 1)
  <2>1. (p.id = 1) \in BOOLEAN
    OBVIOUS
  <2> QED
    BY <1>4, <1>5, <1>9, <2>1, ConnectedOK
<1>10. CASE BrokerRefuse(o, s)
  <2> DEFINE d == Deliver(o, s, ref)
  <2>1. /\ c' = Drop(d, s) /\ UNCHANGED <<broker, taken>>
        /\ upsets' = upsets + 1 /\ upsets < MaxUpsets
    BY <1>10 DEF BrokerRefuse, Upset
  <2>2. ref \in Seq(Packets)
    BY ControlIs DEF Kinds
  <2> HIDE DEF ref
  <2>3. ObjectOK(d) /\ Keeps(d, o) /\ Kept \subseteq DOMAIN d
    BY <1>4, <1>6, <2>2, DeliverOK, DeliverKeeps DEF Keeps
  <2> HIDE DEF d
  <2>4. ObjectOK(c') /\ Keeps(c', d)
    BY <2>1, <2>3, DropOK, DropKeeps
  <2>5. Keeps(c', c)
    BY <1>4, <2>3, <2>4, KeepsOn
  <2>6. BrokerOK'
    BY <1>5, <2>1 DEF BrokerOK, Typed, TypeInv
  <2> QED
    BY <1>5, <1>7, <2>1, <2>4, <2>5, <2>6, BrokerStep
<1>11. CASE BrokerRejects(o, s)
  <2>1. /\ c' = Drop(o, s) /\ UNCHANGED <<taken, upsets>>
        /\ broker' = [broker EXCEPT !.conn = IF @ = s THEN NoSocket ELSE @]
    BY <1>11 DEF BrokerRejects
  <2>2. ObjectOK(c') /\ Keeps(c', o)
    BY <1>4, <1>6, <2>1, DropOK, DropKeeps
  <2>3. Keeps(c', c)
    BY <1>4, <2>2, KeepsOn
  <2>4. \E conn \in Sockets \union {NoSocket} :
           broker' = [conn |-> conn, rec |-> broker.rec, out |-> broker.out]
    BY <1>8, <2>1
  <2>5. BrokerOK'
    BY <1>5, <1>8, <2>4, OutOKIs, NewOut
  <2> QED
    BY <1>5, <1>7, <2>1, <2>2, <2>3, <2>5, BrokerStep
<1>12. CASE BrokerAnswers(o, s, p)
  BY <1>2, <1>4, <1>5, <1>12, AnswersOK
<1> QED
  BY <1>5, <1>9, <1>10, <1>11, <1>12

-----------------------------------------------------------------------------
(***************************************************************************)
(* Faults, a restart, and the theorem.                                     *)
(***************************************************************************)

\* So do the faults of the network.
LEMMA FaultsOK ==
    ASSUME NEW s \in Sockets, Typed,
           BrokerSeesEnd \/ Break(s) \/ Silence(s) \/ SilenceEnds(s)
    PROVE  Typed'
<1>1. ObjectOK(c) /\ Kept \subseteq DOMAIN c
  BY KeptIn DEF Typed, TypeInv
<1>2. CASE BrokerSeesEnd
  <2>1. /\ UNCHANGED <<c, store, outQos, taken, inQos, arrived, upsets>>
        /\ broker' = [broker EXCEPT !.conn = NoSocket]
    BY <1>2 DEF BrokerSeesEnd
  <2>2. broker' = [conn |-> NoSocket, rec |-> broker.rec, out |-> broker.out]
        /\ broker.rec \in SUBSET Nat
    BY <2>1 DEF Typed, TypeInv, BrokerOK
  <2>3. BrokerOK'
    BY <2>1, <2>2, OutOKIs, NewOut
  <2>4. Keeps(c', c) /\ ObjectOK(c')
    BY <1>1, <2>1 DEF Keeps
  <2>5. inQos' \in [1..InMsgs -> 0..Unsent] /\ taken' \in [1..OutMsgs -> 0..2]
    BY <2>1 DEF Typed, TypeInv
  <2> QED
    BY <2>1, <2>3, <2>4, <2>5, BrokerStep
<1>3. CASE Break(s) \/ Silence(s) \/ SilenceEnds(s)
  <2>1. /\ UNCHANGED <<store, broker, outQos, taken, inQos, arrived>>
        /\ upsets' = upsets \/ (upsets' = upsets + 1 /\ upsets < MaxUpsets)
        /\ \/ c' = [c EXCEPT !.link[s] = "down"]
           \/ \E l \in {"down", "dead"} :
                c' = [c EXCEPT !.link[s] = l, !.up[s] = <<>>, !.down[s] = <<>>]
    BY <1>3 DEF Break, Silence, SilenceEnds, Lose, Upset
  <2>2. CASE c' = [c EXCEPT !.link[s] = "down"]
    BY <1>1, <2>1, <2>2, PlainStep DEF ObjectOK, Fields, Keeps
  <2>3. CASE \E l \in {"down", "dead"} :
                c' = [c EXCEPT !.link[s] = l, !.up[s] = <<>>, !.down[s] = <<>>]
    <3>1. PICK l \in {"down", "dead"} :
                c' = [c EXCEPT !.link[s] = l, !.up[s] = <<>>, !.down[s] = <<>>]
      BY <2>3
    <3>2. ObjectOK(c')
      BY <1>1, <3>1 DEF ObjectOK, Fields
    <3>3. Keeps(c', c)
      BY <1>1, <3>1 DEF Keeps
    <3> QED
      BY <2>1, <3>2, <3>3, PlainStep
  <2> QED
    BY <2>1, <2>2, <2>3
<1> QED
  BY <1>2, <1>3

\* The broker has an identifier for a new message: those in use belong to
\* different messages, and none of them to the new one.
LEMMA UnusedId ==
    ASSUME Typed, NEW m \in 1..InMsgs, inQos[m] = Unsent
    PROVE  (1..InMsgs) \ {broker.out[i].id : i \in DOMAIN broker.out} # {}
<1> DEFINE out == broker.out
           used == {out[i].id : i \in DOMAIN out}
           A == 1..InMsgs
           B == A \ {m}
           at(x) == CHOOSE i \in DOMAIN out : out[i].id = x
           g == [x \in A |-> out[at(x)].msg]
<1>1. SUFFICES ASSUME A \subseteq used PROVE FALSE
  OBVIOUS
<1>2. OutOK(out)
  BY OutOKIs
<1>3. \A i \in DOMAIN out : out[i] \in Flights
  <2>1. out \in Seq(Flights)
    BY <1>2 DEF OutOK
  <2> HIDE DEF out
  <2> QED
    BY <2>1, SeqIs
<1> HIDE DEF out
<1>4. \A x \in A : at(x) \in DOMAIN out /\ out[at(x)].id = x
  BY <1>1
<1> HIDE DEF at
<1>5. \A x \in A : g[x] \in B
  <2>1. \A i \in DOMAIN out : out[i].msg \in A /\ out[i].msg # m
    BY <1>2, <1>3 DEF OutOK, Flights
  <2> HIDE DEF A
  <2> QED
    BY <1>4, <2>1
<1>6. \A x, y \in A : g[x] = g[y] => x = y
  BY <1>2, <1>4 DEF OutOK
<1> HIDE DEF B
<1>7. g \in Injection(A, B)
  BY <1>5, <1>6 DEF Injection, IsInjective
<1> HIDE DEF g
<1>8. IsFiniteSet(A) /\ Cardinality(A) = InMsgs /\ InMsgs \in Nat
  BY ConstantsAre, FS_Interval
<1>9. IsFiniteSet(B) /\ Cardinality(B) = InMsgs - 1
  BY <1>8, FS_RemoveElement DEF B
<1>10. Cardinality(A) <= Cardinality(B)
  BY <1>7, <1>9, FS_Injection
<1> QED
  BY <1>8, <1>9, <1>10

\* A message the broker sends has an identifier of its own.
LEMMA PublishesOK ==
    ASSUME NEW q \in 0..2, Typed, BrokerPublish(q)
    PROVE  Typed'
<1> DEFINE used == {broker.out[i].id : i \in DOMAIN broker.out}
           T == (1..InMsgs) \ used
           id == IF q = 0 THEN 0 ELSE Min(T)
           pkt(m) == Packet("PUBLISH", id, m, q)
           e(m) == [id |-> id, msg |-> m, qos |-> q, rel |-> FALSE]
<1>1. PICK m \in 1..InMsgs :
        /\ inQos[m] = Unsent
        /\ inQos' = [inQos EXCEPT ![m] = q]
        /\ c' = Deliver(c, broker.conn, <<pkt(m)>>)
        /\ broker' = IF q = 0 THEN broker
                     ELSE [broker EXCEPT !.out = Append(@, e(m))]
  BY DEF BrokerPublish
<1>2. UNCHANGED <<store, outQos, taken, arrived, upsets>>
  BY DEF BrokerPublish
<1>3. T # {} /\ T \in SUBSET Nat
  BY <1>1, UnusedId
<1>4. id \in Nat /\ (q # 0 => id \notin used)
  <2>1. Min(T) \in T
    BY <1>3, MinIs
  <2> QED
    BY <2>1
<1> HIDE DEF id
<1>5. <<pkt(m)>> \in Seq(Packets)
  <2>1. m \in 0..TopMsg
    BY TopIs
  <2>2. pkt(m) \in Packets
    BY <1>4, <2>1, PacketIs DEF Kinds
  <2> QED
    BY <2>2
<1> HIDE DEF pkt
<1>6. ObjectOK(c') /\ Keeps(c', c)
  <2>1. ObjectOK(c) /\ Kept \subseteq DOMAIN c
    BY KeptIn DEF Typed, TypeInv
  <2> QED
    BY <1>1, <1>5, <2>1, DeliverOK, DeliverKeeps
<1>7. /\ inQos' \in [1..InMsgs -> 0..Unsent] /\ inQos'[m] # Unsent
      /\ \A k \in 1..InMsgs : inQos[k] # Unsent => inQos'[k] # Unsent
  BY <1>1 DEF Typed, TypeInv, Unsent
<1>8. OutOK(broker.out)
  BY OutOKIs
<1>9. BrokerOK'
  <2> DEFINE out == broker.out
  <2>1. out \in Seq(Flights)
    BY <1>8 DEF OutOK
  <2>2. broker \in [conn : Sockets \union {NoSocket}, rec : SUBSET Nat,
                    out : Seq(Flights)]
    BY DEF Typed, TypeInv, BrokerOK
  <2> HIDE DEF out
  <2>3. /\ Len(out) \in Nat /\ DOMAIN out = 1..Len(out)
        /\ \A i \in 1..Len(out) : out[i] \in Flights
    BY <2>1, SeqIs
  <2>4. CASE q = 0
    <3>1. broker' = broker /\ broker.out = out
      BY <1>1, <2>4 DEF out
    <3>2. \A i \in DOMAIN out : inQos'[out[i].msg] # Unsent
      BY <1>7, <1>8, <2>3 DEF OutOK, Flights, out
    <3> QED
      BY <1>8, <2>2, <3>1, <3>2 DEF BrokerOK, OutOK
  <2>5. CASE q # 0
    <3> DEFINE f == e(m)
               n == Append(out, f)
    <3>1. f \in Flights /\ f.id = id /\ f.msg = m
      BY <1>4 DEF Flights
    <3>2. broker' = [broker EXCEPT !.out = n]
      BY <1>1, <2>5 DEF out
    <3> HIDE DEF f
    <3>3. /\ n \in Seq(Flights) /\ Len(n) = Len(out) + 1
          /\ \A i \in 1..Len(out) : n[i] = out[i]
          /\ n[Len(out) + 1] = f
      BY <2>1, <3>1
    <3> HIDE DEF n
    <3>4. DOMAIN n = 1..(Len(out) + 1)
      BY <3>3, SeqIs
    <3>5. \A i \in 1..Len(out) : out[i].id # id /\ out[i].msg # m
      BY <1>1, <1>4, <1>8, <2>3, <2>5 DEF OutOK, out
    <3>6. \A i, j \in DOMAIN n :
             n[i].id = n[j].id \/ n[i].msg = n[j].msg => i = j
      <4>1. \A i, j \in 1..Len(out) :
               out[i].id = out[j].id \/ out[i].msg = out[j].msg => i = j
        BY <1>8, <2>3 DEF OutOK, out
      <4>2. \A i \in DOMAIN n : i \in 1..Len(out) \/ i = Len(out) + 1
        BY <2>3, <3>4
      <4> QED
        BY <3>1, <3>3, <3>5, <4>1, <4>2
    <3>7. \A i \in DOMAIN n : inQos'[n[i].msg] # Unsent
      <4>1. \A i \in 1..Len(out) : inQos[out[i].msg] # Unsent
                                    /\ out[i].msg \in 1..InMsgs
        BY <1>8, <2>3 DEF OutOK, out, Flights
      <4>2. \A i \in DOMAIN n : i \in 1..Len(out) \/ i = Len(out) + 1
        BY <2>3, <3>4
      <4> QED
        BY <1>7, <3>1, <3>3, <4>1, <4>2
    <3>8. /\ broker' \in [conn : Sockets \union {NoSocket}, rec : SUBSET Nat,
                          out : Seq(Flights)]
          /\ broker'.out = n
      BY <2>2, <3>2, <3>3
    <3> QED
      BY <3>6, <3>7, <3>8 DEF BrokerOK
  <2> QED
    BY <2>4, <2>5
<1>10. taken' \in [1..OutMsgs -> 0..2]
  BY <1>2 DEF Typed, TypeInv
<1> QED
  BY <1>2, <1>6, <1>7, <1>9, <1>10, BrokerStep

\* A page that opens has the types, and what was stored.
LEMMA NewClientOK ==
    ASSUME NEW saved, NEW clean \in BOOLEAN,
           IsMap(saved.sent, Nat \ {0}, Pending), IsFiniteSet(DOMAIN saved.sent),
           IsMap(saved.received, Nat, 0..TopMsg)
    PROVE  /\ ObjectOK(NewClient(saved, clean))
           /\ NewClient(saved, clean).sent = saved.sent
           /\ NewClient(saved, clean).received = saved.received
           /\ NewClient(saved, clean).cursor = 1
           /\ NewClient(saved, clean).sequence = 0
BY DEF NewClient, ObjectOK, Fields, NoSocket

\* A crash leaves the invariant, the counts begun again.
LEMMA CrashOK ==
    ASSUME Typed, Crash
    PROVE  Typed'
<1>1. /\ c' = NewClient(store, c.clean)
      /\ UNCHANGED <<store, broker, outQos, taken, inQos, arrived>>
      /\ upsets' = upsets + 1 /\ upsets < MaxUpsets
  BY DEF Crash, Upset
<1>2. c.clean \in BOOLEAN /\ StoreOK
  BY DEF Typed, TypeInv, ObjectOK
<1>3. /\ ObjectOK(c') /\ c'.sent = store.sent
      /\ c'.cursor = 1 /\ c'.sequence = 0
  BY <1>1, <1>2, NewClientOK DEF StoreOK
<1>4. CountInv'
  BY <1>1, <1>3, CountStep
<1>5. BrokerOK' /\ StoreOK'
  BY <1>1, <1>2 DEF BrokerOK, StoreOK, Typed, TypeInv
<1>6. upsets' \in 0..MaxUpsets
  BY <1>1, ConstantsAre DEF Typed, TypeInv
<1> QED
  BY <1>1, <1>3, <1>4, <1>5, <1>6 DEF Typed, TypeInv

\* The start.
LEMMA TypedInit ==
    ASSUME Init
    PROVE  Typed
<1>1. /\ store = [sent |-> Empty, received |-> Empty]
      /\ \E clean \in CleanSession : c = NewClient(store, clean)
      /\ broker = [conn |-> NoSocket, rec |-> {}, out |-> <<>>]
      /\ outQos = [m \in 1..OutMsgs |-> Unsent]
      /\ taken = [m \in 1..OutMsgs |-> 0]
      /\ inQos = [m \in 1..InMsgs |-> Unsent]
      /\ arrived = [m \in 1..InMsgs |-> 0]
      /\ upsets = 0
  BY DEF Init
<1>2. IsMap(Empty, Nat \ {0}, Pending) /\ IsFiniteSet(DOMAIN Empty)
      /\ DOMAIN Empty = {}
  BY EmptyIs
<1>3. IsMap(Empty, Nat, 0..TopMsg)
  BY EmptyIs
<1>4. StoreOK
  BY <1>1, <1>2, <1>3 DEF StoreOK
<1>5. /\ ObjectOK(c) /\ c.sent = Empty /\ c.cursor = 1 /\ c.sequence = 0
  BY <1>1, <1>2, <1>3, NewClientOK, ConstantsAre
<1>6. BrokerOK
  BY <1>1 DEF BrokerOK
<1>7. TypeInv
  BY <1>1, <1>4, <1>5, <1>6, ConstantsAre DEF TypeInv, Unsent
<1>8. Tries \in Nat /\ Cardinality(Tried) \in Nat
  BY <1>1, TriedIs DEF Tries
<1>9. CountInv
  BY <1>1, <1>2, <1>5, <1>8 DEF CountInv
<1> QED
  BY <1>7, <1>9 DEF Typed

\* Every step.
LEMMA TypedNext ==
    ASSUME Typed, [Next]_vars
    PROVE  Typed'
<1>1. CASE AppConnect \/ AppDisconnect
  BY <1>1, AppOK
<1>2. CASE AppRequest
  BY <1>2, RequestOK
<1>3. CASE \E q \in Qualities : AppSend(q) \/ BrokerPublish(q)
  BY <1>3, ConstantsAre, SendOK, PublishesOK
<1>4. CASE \E s \in Sockets : SocketEvent(s)
  BY <1>4, SocketEventOK, MessageOK DEF SocketEvent
<1>5. CASE \E s \in Sockets : BrokerReceive(s)
  BY <1>5, ReceiveOK
<1>6. CASE \E s \in Sockets : Break(s) \/ Silence(s) \/ SilenceEnds(s)
  BY <1>6, FaultsOK
<1>7. CASE BrokerSeesEnd
  <2>1. 1 \in Sockets
    BY ConstantsAre DEF Sockets
  <2> QED
    BY <1>7, <2>1, FaultsOK
<1>8. CASE Timer \/ SlowConnect
  BY <1>8, TimersOK
<1>9. CASE Crash
  BY <1>9, CrashOK
<1>10. CASE UNCHANGED vars
  <2>1. TypeInv'
    BY <1>10 DEF vars, Typed, TypeInv, StoreOK, BrokerOK
  <2>2. CountInv'
    BY <1>10 DEF vars, Typed, CountInv, Tries, Tried
  <2> QED
    BY <2>1, <2>2 DEF Typed
<1> QED
  BY <1>1, <1>2, <1>3, <1>4, <1>5, <1>6, <1>7, <1>8, <1>9, <1>10 DEF Next

\* The invariant is stronger than TypeOK.
LEMMA TypedOK ==
    ASSUME Typed
    PROVE  TypeOK
<1>1. Tries \in Nat /\ Tries <= OutMsgs + MaxUpsets
  BY TriedIs, ConstantsAre DEF Tries, Typed, TypeInv
<1>2. 1..(1 + Tries) \subseteq Ids
  BY <1>1, ConstantsAre DEF Ids
<1>3. \A ps \in Seq(Packets) : \A i \in DOMAIN ps : PacketOK(ps[i])
  <2>1. \A p \in Packets : PacketOK(p)
    BY DEF Packets, PacketOK, TopMsg
  <2> QED
    BY <2>1, SeqIs
<1>4. c.sequence \in 0..OutMsgs
  <2>1. c.sequence \in 0..Cardinality(Tried)
    BY DEF Typed, CountInv
  <2> QED
    BY <2>1, TriedIs, ConstantsAre
<1>5. DOMAIN c.sent \subseteq Ids /\ c.cursor \in Ids
  BY <1>2 DEF Typed, CountInv
<1>6. ObjectOK(c) /\ BrokerOK
  BY DEF Typed, TypeInv
<1> QED
  BY <1>3, <1>4, <1>5, <1>6 DEF TypeOK, ObjectOK, BrokerOK, Typed, TypeInv

\* Every field of the client's, the store, the broker and what the two
\* applications know keep their types whatever goes wrong: the identifiers and
\* the sequence numbers stay within their bounds, and there is always a free
\* socket where the code opens one.
THEOREM TypeCorrect == Spec => []TypeOK
<1>1. Init => Typed
  BY TypedInit
<1>2. Typed /\ [Next]_vars => Typed'
  BY TypedNext
<1>3. Typed => TypeOK
  BY TypedOK
<1> QED
  BY <1>1, <1>2, <1>3, PTL DEF Spec

-----------------------------------------------------------------------------
(***************************************************************************)
(* Usable connections. The routines that open, close and give up a socket  *)
(* leave the connection in order.                                          *)
(***************************************************************************)

\* The kinds of a sequence's packets, entry by entry.
LEMMA AreOfAll ==
    ASSUME NEW ps \in Seq(Packets), NEW kinds
    PROVE  AreOf(ps, kinds) <=> \A i \in 1..Len(ps) : ps[i].kind \in kinds
BY SeqIs DEF AreOf

\* Of two sequences, one behind the other.
LEMMA AreOfConcat ==
    ASSUME NEW ps \in Seq(Packets), NEW qs \in Seq(Packets), NEW kinds,
           AreOf(ps, kinds), AreOf(qs, kinds)
    PROVE  AreOf(ps \o qs, kinds)
<1>1. /\ Len(ps) \in Nat /\ Len(qs) \in Nat
      /\ \A i \in 1..Len(ps) : ps[i].kind \in kinds
      /\ \A i \in 1..Len(qs) : qs[i].kind \in kinds
  BY AreOfAll, SeqIs
<1>2. /\ ps \o qs \in Seq(Packets) /\ Len(ps \o qs) = Len(ps) + Len(qs)
      /\ \A i \in 1..Len(ps) : (ps \o qs)[i] = ps[i]
      /\ \A i \in 1..Len(qs) : (ps \o qs)[Len(ps) + i] = qs[i]
  BY ConcatIs
<1> DEFINE r == ps \o qs
<1> HIDE DEF r
<1>3. ASSUME NEW i \in 1..Len(r) PROVE r[i].kind \in kinds
  <2>1. CASE i <= Len(ps)
    BY <1>1, <1>2, <2>1 DEF r
  <2>2. CASE i > Len(ps)
    <3>1. i - Len(ps) \in 1..Len(qs) /\ Len(ps) + (i - Len(ps)) = i
      BY <1>1, <1>2, <2>2 DEF r
    <3> QED
      BY <1>1, <1>2, <3>1 DEF r
  <2> QED
    BY <1>1, <2>1, <2>2
<1> QED
  BY <1>2, <1>3, AreOfAll DEF r

\* Of the front of one.
LEMMA AreOfSub ==
    ASSUME NEW ps \in Seq(Packets), NEW n \in 0..Len(ps), NEW kinds,
           AreOf(ps, kinds)
    PROVE  AreOf(SubSeq(ps, 1, n), kinds)
<1>1. /\ SubSeq(ps, 1, n) \in Seq(Packets) /\ Len(SubSeq(ps, 1, n)) = n
      /\ \A i \in 1..n : SubSeq(ps, 1, n)[i] = ps[i]
  BY SubSeqIs
<1>2. \A i \in 1..n : i \in 1..Len(ps)
  BY SeqIs
<1> QED
  BY <1>1, <1>2, AreOfAll

\* Of one without its head.
LEMMA AreOfTail ==
    ASSUME NEW ps \in Seq(Packets), ps # <<>>, NEW kinds, AreOf(ps, kinds)
    PROVE  AreOf(Tail(ps), kinds) /\ Head(ps).kind \in kinds
<1>1. /\ Tail(ps) \in Seq(Packets) /\ Head(ps) = ps[1]
      /\ Len(ps) > 0 /\ Len(ps) \in Nat
      /\ Len(Tail(ps)) = Len(ps) - 1
      /\ \A i \in 1..Len(Tail(ps)) : Tail(ps)[i] = ps[i + 1]
  BY TailIs, SeqIs
<1>2. \A i \in 1..Len(ps) : ps[i].kind \in kinds
  BY AreOfAll
<1>3. \A i \in 1..Len(Tail(ps)) : i + 1 \in 1..Len(ps)
  BY <1>1
<1>4. \A i \in 1..Len(Tail(ps)) : Tail(ps)[i].kind \in kinds
  BY <1>1, <1>2, <1>3
<1>5. AreOf(Tail(ps), kinds)
  BY <1>1, <1>4, AreOfAll
<1>6. 1 \in 1..Len(ps)
  BY <1>1
<1> QED
  BY <1>1, <1>2, <1>5, <1>6

\* Of one packet.
LEMMA AreOfOne ==
    ASSUME NEW p \in Packets, NEW kinds, p.kind \in kinds
    PROVE  <<p>> \in Seq(Packets) /\ AreOf(<<p>>, kinds)
BY DEF AreOf

\* Of none.
LEMMA AreOfNone ==
    ASSUME NEW kinds
    PROVE  AreOf(<<>>, kinds)
BY DEF AreOf

\* Of the bytes: the kinds of what they encode.
LEMMA AreOfEncoded ==
    ASSUME NEW ps \in Seq(Packets), NEW kinds, AreOf(ps, kinds)
    PROVE  AreOf(Encoded(ps), kinds)
<1>1. /\ Encoded(ps) \in Seq(Packets) /\ Len(Encoded(ps)) = Len(ps)
      /\ \A i \in 1..Len(ps) :
            Encoded(ps)[i] = [ps[i] EXCEPT !.id = @ % WireIds]
  BY EncodedIs
<1>2. \A i \in 1..Len(ps) : ps[i].kind \in kinds /\ ps[i] \in Packets
  BY AreOfAll, SeqIs
<1>3. \A i \in 1..Len(ps) : Encoded(ps)[i].kind = ps[i].kind
  <2>1. ASSUME NEW i \in 1..Len(ps)
        PROVE  [ps[i] EXCEPT !.id = @ % WireIds].kind = ps[i].kind
    BY <1>2 DEF Packets
  <2> QED
    BY <1>1, <2>1
<1> QED
  BY <1>1, <1>2, <1>3, AreOfAll

-----------------------------------------------------------------------------
\* A new socket in the place of one that is not heard of any more.
LEMMA DoConnectConn ==
    ASSUME NEW o, ObjectOK(o), SettledOK(o), NotifyOK(o), Free(o) # {},
           o.reconnectTimer # "armed",
           o.sock # NoSocket =>
              o.link[o.sock] # "up" /\ o.down[o.sock] = <<>>,
           AreOf(o.queue, {"DISCONNECT"})
    PROVE  ConnOK(DoConnect(o), broker.conn)
<1> DEFINE s == Min(Free(o))
           r == DoConnect(o)
<1>1. s \in Sockets /\ s # NoSocket /\ s \in Free(o)
  BY FreeIs DEF NoSocket
<1>2. o.ready[s] = "closed" /\ o.up[s] = <<>> /\ s # broker.conn
  BY <1>1 DEF Free
<1>3. r = [o EXCEPT !.connected = FALSE, !.sock = s, !.pinger = "off",
                  !.connectTimer = "armed", !.ready[s] = "connecting",
                  !.on[s] = TRUE, !.link[s] = "up", !.down[s] = <<>>]
  BY DEF DoConnect
<1> HIDE DEF s, r
<1>4. /\ r.connected = FALSE /\ r.sock = s /\ r.connectTimer = "armed"
      /\ r.reconnectTimer = o.reconnectTimer
      /\ r.ready[s] = "connecting" /\ r.on[s] = TRUE /\ r.link[s] = "up"
      /\ r.down[s] = <<>> /\ r.up = o.up
      /\ r.orphans = o.orphans /\ r.buffered = o.buffered
      /\ r.notify = o.notify /\ r.queue = o.queue
      /\ r.reconnecting = o.reconnecting /\ r.pinger = "off"
  BY <1>1, <1>3 DEF ObjectOK, Fields
<1>5. \A x \in Sockets : x # s =>
        /\ r.ready[x] = o.ready[x] /\ r.on[x] = o.on[x]
        /\ r.link[x] = o.link[x] /\ r.down[x] = o.down[x]
  BY <1>1, <1>3 DEF ObjectOK, Fields
<1> DEFINE SocketOK(x) ==
             /\ r.on[x] <=> r.ready[x] # "closed"
             /\ r.link[x] # "up" => r.up[x] = <<>>
             /\ r.link[x] = "dead" => r.down[x] = <<>>
             /\ r.on[x] /\ x # r.sock => r.link[x] # "up" /\ r.down[x] = <<>>
<1>a. ASSUME NEW x \in Sockets PROVE SocketOK(x)
  <2>1. CASE x = s
    BY <1>4, <2>1
  <2>2. CASE x # s
    <3>1. x # NoSocket
      BY ConstantsAre DEF Sockets, NoSocket
    <3> QED
      BY <1>4, <1>5, <2>2, <3>1 DEF SettledOK
  <2> QED
    BY <2>1, <2>2
<1>6. SettledOK(r)
  BY <1>4, <1>a DEF SettledOK
<1>7. CurrentOK(r)
  BY <1>1, <1>4 DEF CurrentOK
<1>8. HandshakeOK(r, broker.conn)
  BY <1>2, <1>4 DEF HandshakeOK
<1>9. UsableOK(r, broker.conn) /\ NotifyOK(r) /\ PingerOK(r)
  BY <1>4 DEF UsableOK, NotifyOK, PingerOK
<1> QED
  BY <1>6, <1>7, <1>8, <1>9 DEF ConnOK, r

\* An object with no socket, to connect or not.
LEMMA ParkedConn ==
    ASSUME NEW o, SettledOK(o), NotifyOK(o), o.sock = NoSocket,
           o.connectTimer = "null", ~o.connected,
           AreOf(o.queue, {"DISCONNECT"}), NEW conn
    PROVE  ConnOK(o, conn)
BY DEF ConnOK, CurrentOK, PingerOK, HandshakeOK, UsableOK

\* An object whose socket is given up has none and no queue.
LEMMA DetachSettled ==
    ASSUME NEW o, ObjectOK(o), SettledOK(o)
    PROVE  LET d == Detach(o)
           IN  /\ SettledOK(d) /\ NotifyOK(d)
               /\ d.sock = NoSocket /\ d.connectTimer = "null"
               /\ d.queue = <<>>
               /\ d.notify = FALSE /\ d.connected = o.connected
               /\ d.reconnecting = o.reconnecting
               /\ d.reconnectTimer = o.reconnectTimer
<1> DEFINE d == Detach(o)
           s == o.sock
<1>1. /\ d.sock = NoSocket /\ d.queue = <<>> /\ d.notify = FALSE
      /\ d.connectTimer = "null"
      /\ d.connected = o.connected /\ d.reconnecting = o.reconnecting
      /\ d.reconnectTimer = o.reconnectTimer /\ d.orphans = o.orphans
      /\ d.buffered = <<>> /\ d.link = o.link /\ d.up = o.up
  BY DEF Detach, ObjectOK, Fields
<1>2. \A x \in Sockets : x # s =>
         d.ready[x] = o.ready[x] /\ d.on[x] = o.on[x] /\ d.down[x] = o.down[x]
  BY DEF Detach, ObjectOK, Fields
<1>3. s \in Sockets /\ s # NoSocket =>
         d.ready[s] = "closed" /\ d.on[s] = FALSE /\ d.down[s] = <<>>
  BY DEF Detach, ObjectOK, Fields
<1>4. \A x \in Sockets : x # NoSocket
  BY ConstantsAre DEF Sockets, NoSocket
<1> HIDE DEF d, s
<1>5. SettledOK(d) /\ NotifyOK(d)
  BY <1>1, <1>2, <1>3, <1>4 DEF SettledOK, NotifyOK, s
<1> QED
  BY <1>1, <1>5 DEF d

\* When it may be tried again later: no timer runs that will, and the socket
\* will not be heard of.
RetryOK(o) ==
    /\ ~o.connected /\ o.reconnecting /\ ~o.notify
    /\ o.reconnectTimer # "armed" /\ o.connectTimer # "armed"
    /\ HandshakeOK(o, broker.conn) /\ CurrentOK(o) /\ PingerOK(o)
    /\ o.sock # NoSocket => o.link[o.sock] # "up" /\ o.down[o.sock] = <<>>

\* A retry put off.
LEMMA RetryLaterConn ==
    ASSUME NEW o, ObjectOK(o), SettledOK(o), RetryOK(o)
    PROVE  ConnOK(RetryLater(o), broker.conn)
<1> DEFINE r == RetryLater(o)
<1>1. r = [o EXCEPT !.reconnectTimer = "armed", !.orphans = @ + 0]
  BY DEF RetryLater, RetryOK
<1>2. /\ r.reconnectTimer = "armed" /\ r.orphans = 0
      /\ r.connected = o.connected /\ r.sock = o.sock
      /\ r.connectTimer = o.connectTimer /\ r.reconnecting = o.reconnecting
      /\ r.ready = o.ready /\ r.on = o.on /\ r.link = o.link /\ r.up = o.up
      /\ r.down = o.down /\ r.buffered = o.buffered /\ r.notify = o.notify
      /\ r.queue = o.queue /\ r.pinger = o.pinger
  BY <1>1 DEF ObjectOK, Fields, SettledOK
<1> HIDE DEF r
<1>3. SettledOK(r)
  BY <1>2 DEF SettledOK, RetryOK
<1>4. CurrentOK(r) /\ PingerOK(r)
  BY <1>2 DEF CurrentOK, PingerOK, RetryOK
<1>5. HandshakeOK(r, broker.conn)
  BY <1>2 DEF HandshakeOK, RetryOK
<1>6. UsableOK(r, broker.conn) /\ NotifyOK(r)
  BY <1>2 DEF UsableOK, NotifyOK, RetryOK
<1> QED
  BY <1>3, <1>4, <1>5, <1>6 DEF ConnOK, r

\* _disconnected, when it ends, connects again or puts a retry off.
LEMMA DisconnectedConn ==
    ASSUME NEW o, NEW failed \in BOOLEAN, ObjectOK(o), SettledOK(o),
           \/ o.connected /\ ~failed
           \/ failed /\ ~o.reconnecting /\ Free(o) # {}
           \/ failed /\ RetryOK(o)
    PROVE  ConnOK(Disconnected(o, failed), broker.conn)
<1> DEFINE d == Detach(o)
           u == [d EXCEPT !.connected = FALSE]
           w == [u EXCEPT !.reconnecting = TRUE]
           v == [d EXCEPT !.version = 3]
<1>1. /\ SettledOK(d) /\ NotifyOK(d) /\ d.sock = NoSocket
      /\ d.connectTimer = "null" /\ d.queue = <<>>
      /\ d.notify = FALSE /\ d.connected = o.connected
      /\ d.reconnecting = o.reconnecting
      /\ d.reconnectTimer = o.reconnectTimer
      /\ ObjectOK(d) /\ Free(o) \subseteq Free(d)
  BY DetachSettled, DetachOK
<1>2. o.connected => o.reconnectTimer # "armed"
  BY DEF SettledOK
<1>3. AreOf(<<>>, {"DISCONNECT"})
  BY AreOfNone
<1>4. Disconnected(o, failed) =
        IF failed /\ o.reconnecting THEN RetryLater(o)
        ELSE IF o.connected
        THEN IF failed /\ AutoReconnect THEN Reconnect(u) ELSE u
        ELSE IF Fallback /\ o.version = 4 THEN DoConnect(v) ELSE d
  BY DEF Disconnected
<1>5. u.connected = FALSE => Reconnect(u) = DoConnect(w)
  BY DEF Reconnect
<1> HIDE DEF d
<1>6. /\ ObjectOK(u) /\ u.ready = d.ready /\ u.up = d.up /\ u.sock = d.sock
      /\ u.queue = d.queue /\ u.connected = FALSE
      /\ u.reconnecting = d.reconnecting /\ u.reconnectTimer = d.reconnectTimer
      /\ u.orphans = d.orphans /\ u.buffered = d.buffered
      /\ u.notify = d.notify /\ u.connectTimer = d.connectTimer
      /\ u.link = d.link /\ u.on = d.on
      /\ u.down = d.down
  BY <1>1, ZenonT(30) DEF ObjectOK, Fields
<1>7. /\ ObjectOK(v) /\ v.ready = d.ready /\ v.up = d.up /\ v.sock = d.sock
      /\ v.queue = d.queue /\ v.connected = d.connected
      /\ v.reconnecting = d.reconnecting /\ v.reconnectTimer = d.reconnectTimer
      /\ v.orphans = d.orphans /\ v.buffered = d.buffered
      /\ v.notify = d.notify /\ v.connectTimer = d.connectTimer
      /\ v.link = d.link /\ v.on = d.on
      /\ v.down = d.down
  BY <1>1 DEF ObjectOK, Fields
<1> HIDE DEF u
<1>8. /\ ObjectOK(w) /\ w.ready = u.ready /\ w.up = u.up /\ w.sock = u.sock
      /\ w.queue = u.queue /\ w.connected = FALSE
      /\ w.reconnecting = TRUE /\ w.reconnectTimer = u.reconnectTimer
      /\ w.orphans = u.orphans /\ w.buffered = u.buffered
      /\ w.notify = u.notify /\ w.connectTimer = u.connectTimer
      /\ w.link = u.link /\ w.on = u.on
      /\ w.down = u.down
  <2>1. ObjectOK(w)
    BY <1>6, ZenonT(60) DEF ObjectOK, Fields
  <2>2. DOMAIN u = Fields
    BY <1>6 DEF ObjectOK
  <2>3. /\ w.ready = u.ready /\ w.up = u.up /\ w.sock = u.sock
        /\ w.queue = u.queue /\ w.connected = u.connected
        /\ w.reconnecting = TRUE /\ w.reconnectTimer = u.reconnectTimer
        /\ w.orphans = u.orphans /\ w.buffered = u.buffered
        /\ w.notify = u.notify /\ w.connectTimer = u.connectTimer
        /\ w.link = u.link /\ w.on = u.on
        /\ w.down = u.down
    BY <2>2 DEF Fields
  <2> HIDE DEF w
  <2> QED
    BY <1>6, <2>1, <2>3
<1> HIDE DEF v, w
<1>9. Free(u) = Free(d) /\ Free(v) = Free(d) /\ Free(w) = Free(d)
  BY <1>6, <1>7, <1>8 DEF Free
<1>10a. NotifyOK(u) /\ NotifyOK(v) /\ NotifyOK(w)
  BY <1>1, <1>6, <1>7, <1>8 DEF NotifyOK
<1>10. SettledOK(u) \/ d.reconnectTimer = "armed"
  BY <1>1, <1>6 DEF SettledOK
<1>11. SettledOK(v)
  BY <1>1, <1>7 DEF SettledOK
<1>12. SettledOK(w) \/ d.reconnectTimer = "armed"
  BY <1>1, <1>6, <1>8 DEF SettledOK
<1>13. CASE failed /\ RetryOK(o)
  BY <1>4, <1>13, RetryLaterConn DEF RetryOK
<1>14. CASE o.connected /\ ~(failed /\ o.reconnecting)
  <2>1. SettledOK(u) /\ SettledOK(w)
    BY <1>1, <1>2, <1>10, <1>12, <1>14
  <2>2. ConnOK(u, broker.conn)
    BY <1>1, <1>3, <1>6, <1>10a, <2>1, ParkedConn
  <2>3. failed => ConnOK(DoConnect(w), broker.conn)
    BY <1>1, <1>2, <1>3, <1>6, <1>8, <1>9, <1>10a, <1>14, <2>1, DoConnectConn
       DEF RetryOK
  <2> QED
    BY <1>4, <1>5, <1>6, <1>14, <2>2, <2>3
<1>15. CASE failed /\ ~o.reconnecting /\ Free(o) # {} /\ ~o.connected
  <2>1. o.reconnectTimer # "armed"
    BY <1>15 DEF SettledOK
  <2>2. ConnOK(d, broker.conn)
    BY <1>1, <1>3, <1>15, ParkedConn
  <2>3. ConnOK(DoConnect(v), broker.conn)
    BY <1>1, <1>3, <1>7, <1>9, <1>10a, <1>11, <1>15, <2>1, DoConnectConn
  <2> QED
    BY <1>4, <1>15, <2>2, <2>3
<1> QED
  BY <1>13, <1>14, <1>15

-----------------------------------------------------------------------------
(***************************************************************************)
(* The routines that write to it.                                          *)
(***************************************************************************)

\* The current socket is a socket.
LEMMA SocketIs ==
    ASSUME NEW o, ObjectOK(o), o.sock # NoSocket
    PROVE  o.sock \in Sockets
BY DEF ObjectOK

\* Writing to the socket of a connection that is made.
LEMMA SocketSendConn ==
    ASSUME NEW o, NEW ps \in Seq(Packets), ObjectOK(o), SettledOK(o),
           CurrentOK(o), NEW conn, LinkedOK(o, conn), AreOf(ps, FromClient)
    PROVE  LET r == SocketSend(o, ps)
           IN  /\ SettledOK(r) /\ CurrentOK(r) /\ LinkedOK(r, conn)
               /\ r.connected = o.connected /\ r.notify = o.notify
               /\ r.queue = o.queue /\ r.reconnecting = o.reconnecting
<1> DEFINE e == Encoded(ps)
           s == o.sock
           u == IF o.ready[s] = "open" /\ o.link[s] = "up"
                THEN o.up[s] \o e ELSE o.up[s]
           g == IF KeepAlive THEN "reset" ELSE o.pinger
           r == [o EXCEPT !.pinger = g, !.up[s] = u]
<1>0. s \in Sockets /\ s # NoSocket
  BY SocketIs DEF LinkedOK
<1>1. e \in Seq(Packets) /\ AreOf(e, FromClient)
  BY EncodedIs, AreOfEncoded
<1>2. SocketSend(o, ps) = r
  BY DEF SocketSend
<1> HIDE DEF e
<1>3. o.up[s] \in Seq(Packets) /\ AreOf(o.up[s], FromClient)
  BY <1>0 DEF ObjectOK, LinkedOK
<1>4. AreOf(u, FromClient)
  BY <1>1, <1>3, AreOfConcat
<1>5. o.link[s] # "up" => u = o.up[s]
  OBVIOUS
<1> HIDE DEF u, g
<1>6. /\ r.up[s] = u /\ \A x \in Sockets : x # s => r.up[x] = o.up[x]
      /\ r.connected = o.connected /\ r.notify = o.notify
      /\ r.queue = o.queue /\ r.reconnecting = o.reconnecting
      /\ r.sock = s /\ r.connectTimer = o.connectTimer
      /\ r.reconnectTimer = o.reconnectTimer /\ r.orphans = o.orphans
      /\ r.buffered = o.buffered /\ r.ready = o.ready /\ r.on = o.on
      /\ r.link = o.link /\ r.down = o.down
  BY <1>0 DEF ObjectOK, Fields
<1> HIDE DEF r, s
<1>7. \A x \in Sockets : r.link[x] # "up" => r.up[x] = o.up[x]
  BY <1>5, <1>6
<1>8. SettledOK(r)
  BY <1>6, <1>7 DEF SettledOK, s
<1>9. CurrentOK(r)
  BY <1>6 DEF CurrentOK, s
<1>10. LinkedOK(r, conn)
  BY <1>4, <1>6 DEF LinkedOK, s
<1> QED
  BY <1>2, <1>6, <1>8, <1>9, <1>10

\* A connection on which the queue may be sent.
Busy(o, conn) ==
    /\ ObjectOK(o) /\ SettledOK(o) /\ NotifyOK(o) /\ CurrentOK(o)
    /\ o.connected /\ LinkedOK(o, conn) /\ AreOf(o.queue, FromClient)

\* Sending the queue on it.
LEMMA ProcessQueueConn ==
    ASSUME NEW o, Busy(o, broker.conn)
    PROVE  /\ ConnOK(ProcessQueue(o), broker.conn)
           /\ ~ProcessQueue(o).reconnecting
<1> DEFINE e == [o EXCEPT !.queue = <<>>]
           ps == SubSeq(o.queue, 1, Sendable(o))
           t == SocketSend(e, ps)
<1>1. CASE o.queue = <<>>
  <2>1. ~o.notify /\ ~o.reconnecting
    BY <1>1 DEF Busy, NotifyOK, LinkedOK
  <2> QED
    BY <1>1, <2>1 DEF ProcessQueue, Busy, ConnOK, PingerOK, HandshakeOK, UsableOK
<1>2. CASE o.queue # <<>>
  <2>1. CanSend(o)
    BY DEF Busy, LinkedOK, CanSend
  <2>2. <<>> \in Seq(Packets)
    OBVIOUS
  <2>3. /\ ObjectOK(e) /\ e.queue = <<>> /\ e.sock = o.sock
        /\ e.connected = o.connected /\ e.notify = o.notify
        /\ e.reconnecting = o.reconnecting
        /\ e.connectTimer = o.connectTimer
        /\ e.reconnectTimer = o.reconnectTimer /\ e.orphans = o.orphans
        /\ e.buffered = o.buffered /\ e.ready = o.ready /\ e.on = o.on
        /\ e.link = o.link /\ e.down = o.down /\ e.up = o.up
    BY <2>2 DEF Busy, ObjectOK, Fields
  <2> HIDE DEF e
  <2>4. SettledOK(e) /\ CurrentOK(e) /\ LinkedOK(e, broker.conn)
    BY <2>3 DEF Busy, SettledOK, CurrentOK, LinkedOK
  <2>5. o.queue \in Seq(Packets) /\ Sendable(o) \in 0..Len(o.queue)
    <3>1. ObjectOK(o) /\ o.queue \in Seq(Packets)
      BY DEF Busy, ObjectOK
    <3>2. Sendable(o) \in 1..Len(o.queue) /\ Len(o.queue) \in Nat
      BY <1>2, <3>1, SendableIs, SeqIs
    <3> QED
      BY <3>1, <3>2
  <2>6. ps \in Seq(Packets) /\ AreOf(ps, FromClient)
    BY <2>5, <1>2, SendableIs, AreOfSub DEF Busy
  <2> HIDE DEF ps
  <2>7. e.sock \in Sockets
    BY <2>3, <2>4, SocketIs DEF LinkedOK
  <2>8. /\ ObjectOK(t) /\ SettledOK(t) /\ CurrentOK(t)
        /\ LinkedOK(t, broker.conn) /\ t.connected
        /\ t.notify = o.notify /\ t.queue = <<>>
    BY <2>3, <2>4, <2>6, <2>7, SocketSendConn, SocketSendOK DEF Busy
  <2> HIDE DEF t
  <2>9. ProcessQueue(o) = IF o.notify THEN Disconnected(t, FALSE) ELSE t
    BY <1>2, <2>1 DEF ProcessQueue, t, e, ps
  <2>10. CASE o.notify
    <3>1. ConnOK(Disconnected(t, FALSE), broker.conn)
      BY <2>8, DisconnectedConn
    <3>2. Disconnected(t, FALSE) = [Detach(t) EXCEPT !.connected = FALSE]
      BY <2>8 DEF Disconnected
    <3>3. ~Disconnected(t, FALSE).reconnecting
      BY <2>8, <3>2, DetachOK, DetachSettled DEF LinkedOK, ObjectOK, Fields
    <3> QED
      BY <2>9, <2>10, <3>1, <3>3
  <2>11. CASE ~o.notify
    BY <2>8, <2>9, <2>11
       DEF ConnOK, HandshakeOK, UsableOK, NotifyOK, PingerOK, LinkedOK
  <2> QED
    BY <2>10, <2>11
<1> QED
  BY <1>1, <1>2

\* The catch around a handler.
LEMMA CaughtConn ==
    ASSUME NEW b, NEW a, ObjectOK(a), ConnOK(a, broker.conn),
           ~a.reconnecting, Free(a) # {}
    PROVE  ConnOK(Caught(b, a), broker.conn)
BY DisconnectedConn DEF Caught, ConnOK

\* Putting packets in the queue, connected or not.
LEMMA ScheduleConn ==
    ASSUME NEW o, NEW ps \in Seq(Packets), ps # <<>>, ObjectOK(o),
           SettledOK(o), CurrentOK(o), PingerOK(o), HandshakeOK(o, broker.conn),
           o.notify => ~o.reconnecting,
           o.connected => LinkedOK(o, broker.conn) /\ o.queue = <<>>,
           AreOf(ps, FromClient), o.connected \/ AreOf(ps, {"DISCONNECT"})
    PROVE  ConnOK(Schedule(o, ps), broker.conn)
<1> DEFINE k == o.queue \o ps
           q == [o EXCEPT !.queue = k]
<1>1. /\ k \in Seq(Packets) /\ k # <<>> /\ o.queue \in Seq(Packets)
      /\ (o.queue = <<>> => k = ps)
  BY DEF ObjectOK
<1>2. ~o.connected => AreOf(k, {"DISCONNECT"})
  BY <1>1, AreOfConcat DEF HandshakeOK
<1>3. Schedule(o, ps) = IF o.connected THEN ProcessQueue(q) ELSE q
  BY DEF Schedule
<1> HIDE DEF k
<1>4. /\ ObjectOK(q) /\ q.queue = k /\ q.sock = o.sock
      /\ q.connected = o.connected /\ q.notify = o.notify
      /\ q.reconnecting = o.reconnecting
      /\ q.connectTimer = o.connectTimer
      /\ q.reconnectTimer = o.reconnectTimer /\ q.orphans = o.orphans
      /\ q.buffered = o.buffered /\ q.ready = o.ready /\ q.on = o.on
      /\ q.link = o.link /\ q.down = o.down /\ q.up = o.up
      /\ q.pinger = o.pinger
  BY <1>1 DEF ObjectOK, Fields
<1> HIDE DEF q
<1>5. SettledOK(q) /\ CurrentOK(q) /\ NotifyOK(q) /\ PingerOK(q)
  BY <1>1, <1>4 DEF SettledOK, CurrentOK, NotifyOK, PingerOK
<1>6. CASE o.connected
  <2>1. Busy(q, broker.conn)
    BY <1>1, <1>4, <1>5, <1>6 DEF Busy, LinkedOK
  <2> QED
    BY <1>3, <1>6, <2>1, ProcessQueueConn
<1>7. CASE ~o.connected
  <2>1. HandshakeOK(q, broker.conn)
    BY <1>2, <1>4, <1>7 DEF HandshakeOK
  <2> QED
    BY <1>3, <1>4, <1>5, <1>7, <2>1 DEF ConnOK, UsableOK
<1> QED
  BY <1>6, <1>7

\* The handler of a packet on a connection that is made.
Made(o, conn) ==
    /\ ObjectOK(o) /\ SettledOK(o) /\ CurrentOK(o) /\ o.connected
    /\ LinkedOK(o, conn) /\ ~o.notify /\ o.queue = <<>>

\* A connection that is made meets the invariant.
LEMMA MadeConn ==
    ASSUME NEW o, NEW conn, Made(o, conn)
    PROVE  ConnOK(o, conn)
BY DEF Made, ConnOK, LinkedOK, NotifyOK, PingerOK, HandshakeOK, UsableOK

\* A packet put in the queue by a handler.
LEMMA ScheduleInHandlerConn ==
    ASSUME NEW o, NEW p \in Packets, Made(o, broker.conn),
           p.kind \in FromClient, Free(o) # {}
    PROVE  ConnOK(ScheduleInHandler(o, p), broker.conn)
<1> DEFINE q == [o EXCEPT !.queue = Append(@, p)]
           n == ProcessQueue(q)
<1>1. <<p>> \in Seq(Packets) /\ AreOf(<<p>>, FromClient)
  BY AreOfOne
<1>2. Append(o.queue, p) = <<p>> /\ <<p>> # <<>>
  BY DEF Made
<1>3. /\ ObjectOK(q) /\ q.queue = <<p>> /\ q.sock = o.sock
      /\ q.connected = o.connected /\ q.notify = o.notify
      /\ q.reconnecting = o.reconnecting
      /\ q.connectTimer = o.connectTimer
      /\ q.reconnectTimer = o.reconnectTimer /\ q.orphans = o.orphans
      /\ q.buffered = o.buffered /\ q.ready = o.ready /\ q.on = o.on
      /\ q.link = o.link /\ q.down = o.down /\ q.up = o.up
  BY <1>1, <1>2 DEF Made, ObjectOK, Fields
<1>4. ScheduleInHandler(o, p) = Caught(q, n)
  BY DEF ScheduleInHandler, Made
<1> HIDE DEF q
<1>5. Free(q) # {}
  BY <1>3 DEF Free
<1>6. Busy(q, broker.conn)
  BY <1>1, <1>2, <1>3
     DEF Busy, Made, SettledOK, CurrentOK, NotifyOK, LinkedOK
<1>7. /\ ConnOK(n, broker.conn) /\ ~n.reconnecting
      /\ ObjectOK(n) /\ Free(q) \subseteq Free(n)
  BY <1>6, ProcessQueueConn, ProcessQueueOK DEF Busy
<1> HIDE DEF n
<1> QED
  BY <1>4, <1>5, <1>7, CaughtConn

\* The fields ConnOK speaks of.
SameConn(r, o) ==
    /\ r.connected = o.connected /\ r.sock = o.sock /\ r.queue = o.queue
    /\ r.connectTimer = o.connectTimer /\ r.reconnectTimer = o.reconnectTimer
    /\ r.reconnecting = o.reconnecting /\ r.orphans = o.orphans
    /\ r.notify = o.notify /\ r.buffered = o.buffered
    /\ r.ready = o.ready /\ r.on = o.on /\ r.link = o.link
    /\ r.up = o.up /\ r.down = o.down /\ r.pinger = o.pinger

\* Objects that agree on those fields agree on the invariant.
LEMMA SameConnOK ==
    ASSUME NEW o, NEW r, SameConn(r, o), NEW conn
    PROVE  /\ SettledOK(r) <=> SettledOK(o)
           /\ NotifyOK(r) <=> NotifyOK(o)
           /\ CurrentOK(r) <=> CurrentOK(o)
           /\ PingerOK(r) <=> PingerOK(o)
           /\ HandshakeOK(r, conn) <=> HandshakeOK(o, conn)
           /\ LinkedOK(r, conn) <=> LinkedOK(o, conn)
           /\ ConnOK(r, conn) <=> ConnOK(o, conn)
<1>1. SettledOK(r) <=> SettledOK(o)
  BY DEF SameConn, SettledOK
<1>2. /\ NotifyOK(r) <=> NotifyOK(o)
      /\ CurrentOK(r) <=> CurrentOK(o)
      /\ PingerOK(r) <=> PingerOK(o)
  BY DEF SameConn, NotifyOK, CurrentOK, PingerOK
<1>3. HandshakeOK(r, conn) <=> HandshakeOK(o, conn)
  BY DEF SameConn, HandshakeOK
<1>4. /\ LinkedOK(r, conn) <=> LinkedOK(o, conn)
      /\ UsableOK(r, conn) <=> UsableOK(o, conn)
  BY DEF SameConn, LinkedOK, UsableOK
<1> QED
  BY <1>1, <1>2, <1>3, <1>4 DEF ConnOK

-----------------------------------------------------------------------------
(***************************************************************************)
(* The calls of the application's, the socket's events and the timers.     *)
(***************************************************************************)

\* connect() begins a connection.
LEMMA AppConnectConn ==
    ASSUME ObjectOK(c), ConnInv, AppConnect
    PROVE  ConnInv'
<1> DEFINE t == IF c.reconnecting THEN "null" ELSE c.reconnectTimer
           o == [c EXCEPT !.reconnecting = FALSE, !.version = 4,
                          !.reconnectTimer = t]
<1>1. /\ ~c.connected /\ c.sock = NoSocket /\ Free(c) # {}
      /\ c' = DoConnect(o) /\ broker' = broker
  BY DEF AppConnect
<1>2. t # "armed" /\ t \in {"null", "idle", "armed"}
  BY DEF ConnInv, ConnOK, SettledOK, ObjectOK
<1> HIDE DEF t
<1>3. /\ ObjectOK(o) /\ o.queue = c.queue /\ o.sock = c.sock
      /\ o.reconnecting = FALSE /\ o.reconnectTimer = t
      /\ o.connected = c.connected /\ o.notify = c.notify
      /\ o.connectTimer = c.connectTimer /\ o.orphans = c.orphans
      /\ o.buffered = c.buffered /\ o.ready = c.ready /\ o.on = c.on
      /\ o.link = c.link /\ o.down = c.down /\ o.up = c.up
  BY <1>2 DEF ObjectOK, Fields
<1> HIDE DEF o
<1>4. SettledOK(o) /\ NotifyOK(o)
  BY <1>2, <1>3 DEF ConnInv, ConnOK, SettledOK, NotifyOK
<1>5. AreOf(o.queue, {"DISCONNECT"})
  BY <1>1, <1>3 DEF ConnInv, ConnOK, HandshakeOK
<1>6. Free(o) # {}
  BY <1>1, <1>3 DEF Free
<1>7. ConnOK(DoConnect(o), broker.conn)
  BY <1>1, <1>2, <1>3, <1>4, <1>5, <1>6, DoConnectConn
<1> QED
  BY <1>1, <1>7 DEF ConnInv

\* The application's request.
LEMMA RequestConn ==
    ASSUME Typed, ConnInv, AppRequest
    PROVE  ConnInv'
<1> DEFINE r == RequiresAck("REQUEST", 0, 0)
           p == Control("REQUEST", FreeId)
<1>1. c.connected /\ c' = Schedule(r, <<p>>) /\ broker' = broker
  BY DEF AppRequest
<1>2. SameConn(r, c)
  BY DEF RequiresAck, SameConn, Typed, TypeInv, ObjectOK, Fields
<1>3. p \in Packets /\ p.kind = "REQUEST" /\ ObjectOK(r)
  <2>1. FreeId \in Nat /\ 0 \in 0..OutMsgs /\ 0 \in 0..2
    BY FreeIdIs, TopIs
  <2>2. p \in Packets
    BY <2>1, ControlIs DEF Kinds
  <2> QED
    BY <2>1, <2>2, RequiresAckOK DEF Control, Packet
<1> HIDE DEF r, p
<1>4. <<p>> \in Seq(Packets) /\ AreOf(<<p>>, FromClient) /\ <<p>> # <<>>
  BY <1>3, AreOfOne DEF FromClient
<1>5. /\ SettledOK(r) /\ CurrentOK(r) /\ PingerOK(r) /\ HandshakeOK(r, broker.conn)
      /\ r.connected /\ ~r.notify /\ LinkedOK(r, broker.conn) /\ r.queue = <<>>
  BY <1>1, <1>2, SameConnOK DEF ConnInv, ConnOK, UsableOK, SameConn
<1>6. ConnOK(Schedule(r, <<p>>), broker.conn)
  BY <1>3, <1>4, <1>5, ScheduleConn
<1> QED
  BY <1>1, <1>6 DEF ConnInv

\* disconnect(), whatever the connection has come to.
LEMMA AppDisconnectConn ==
    ASSUME ObjectOK(c), ConnInv, AppDisconnect
    PROVE  ConnInv'
<1> DEFINE o == IF c.reconnecting
                THEN [c EXCEPT !.reconnecting = FALSE, !.reconnectTimer = "null"]
                ELSE c
           p == Control("DISCONNECT", 0)
           n == [o EXCEPT !.notify = TRUE]
<1>1. /\ c' = IF c.sock = NoSocket THEN o ELSE Schedule(n, <<p>>)
      /\ broker' = broker
  BY DEF AppDisconnect
<1>2. /\ ObjectOK(o) /\ o.queue = c.queue /\ o.sock = c.sock
      /\ o.reconnecting = FALSE
      /\ (o.reconnectTimer = "armed" => c.reconnectTimer = "armed" /\ ~c.reconnecting)
      /\ o.connected = c.connected /\ o.notify = c.notify
      /\ o.connectTimer = c.connectTimer /\ o.orphans = c.orphans
      /\ o.buffered = c.buffered /\ o.ready = c.ready /\ o.on = c.on
      /\ o.link = c.link /\ o.down = c.down /\ o.up = c.up
  BY ZenonT(30) DEF ObjectOK, Fields
<1> HIDE DEF o
<1>3. o.reconnectTimer # "armed"
  BY <1>2 DEF ConnInv, ConnOK, SettledOK
<1>4. SettledOK(o) /\ NotifyOK(o) /\ CurrentOK(o) /\ PingerOK(o)
  BY <1>2, <1>3
     DEF ConnInv, ConnOK, SettledOK, NotifyOK, CurrentOK, PingerOK
<1>5. HandshakeOK(o, broker.conn)
  BY <1>2 DEF ConnInv, ConnOK, HandshakeOK
<1>6. UsableOK(o, broker.conn)
  BY <1>2 DEF ConnInv, ConnOK, UsableOK, LinkedOK
<1>7. ConnOK(o, broker.conn)
  BY <1>4, <1>5, <1>6 DEF ConnOK
<1>8. /\ ObjectOK(n) /\ n.queue = o.queue /\ n.sock = o.sock
      /\ n.reconnecting = FALSE
      /\ n.connected = o.connected
      /\ n.connectTimer = o.connectTimer /\ n.orphans = o.orphans
      /\ n.reconnectTimer = o.reconnectTimer
      /\ n.buffered = o.buffered /\ n.ready = o.ready /\ n.on = o.on
      /\ n.link = o.link /\ n.down = o.down /\ n.up = o.up
  BY <1>2 DEF ObjectOK, Fields
<1> HIDE DEF n
<1>9. /\ SettledOK(n) /\ CurrentOK(n) /\ HandshakeOK(n, broker.conn)
      /\ PingerOK(n)
      /\ n.connected => LinkedOK(n, broker.conn) /\ n.queue = <<>>
  BY <1>2, <1>4, <1>5, <1>6, <1>8
     DEF SettledOK, CurrentOK, PingerOK, HandshakeOK, UsableOK, LinkedOK
<1>10. p \in Packets /\ p.kind = "DISCONNECT"
  BY ControlIs DEF Kinds, Control, Packet
<1> HIDE DEF p
<1>11. /\ <<p>> \in Seq(Packets) /\ <<p>> # <<>>
       /\ AreOf(<<p>>, FromClient) /\ AreOf(<<p>>, {"DISCONNECT"})
  BY <1>10, AreOfOne DEF FromClient
<1>12. ConnOK(Schedule(n, <<p>>), broker.conn)
  BY <1>8, <1>9, <1>11, ScheduleConn
<1> QED
  BY <1>1, <1>7, <1>12 DEF ConnInv

\* The handlers of a socket are the current one's.
LEMMA CurrentIs ==
    ASSUME NEW o, SettledOK(o), NEW s \in Sockets, o.on[s],
           o.link[s] = "up" \/ o.down[s] # <<>>
    PROVE  s = o.sock /\ s # NoSocket
BY ConstantsAre DEF SettledOK, Sockets, NoSocket

\* The socket opens: CONNECT is the first packet on it.
LEMMA SocketOpenConn ==
    ASSUME ObjectOK(c), ConnInv, NEW s \in Sockets, SocketOpen(s)
    PROVE  ConnInv'
<1> DEFINE o == [c EXCEPT !.ready[s] = "open"]
           p == Connect(o)
           r == SocketSend(o, <<p>>)
           g == IF KeepAlive THEN "reset" ELSE o.pinger
<1>1. /\ c.ready[s] = "connecting" /\ c.link[s] = "up" /\ broker' = broker
      /\ c' = IF CanSend(o) THEN r ELSE o
  BY DEF SocketOpen, Unstored
<1>2. SettledOK(c) /\ CurrentOK(c) /\ HandshakeOK(c, broker.conn)
      /\ UsableOK(c, broker.conn) /\ NotifyOK(c) /\ PingerOK(c)
  BY DEF ConnInv, ConnOK
<1>3. c.on[s] = TRUE
  BY <1>1, <1>2 DEF SettledOK, ObjectOK
<1>4. s = c.sock /\ s # NoSocket
  BY <1>1, <1>2, <1>3, CurrentIs
<1>5. ~c.connected
  BY <1>1, <1>2, <1>4 DEF UsableOK, LinkedOK
<1>6. c.up[s] = <<>> /\ c.down[s] = <<>> /\ broker.conn # s
      /\ AreOf(c.queue, {"DISCONNECT"})
  BY <1>1, <1>2, <1>4, <1>5 DEF HandshakeOK
<1>7. p \in Packets /\ p.kind = "CONNECT"
  BY ControlIs DEF Kinds, Connect, Control, Packet
<1> HIDE DEF p
<1>8. <<p>> \in Seq(Packets)
  BY <1>7
<1>9. /\ Encoded(<<p>>) \in Seq(Packets) /\ Len(Encoded(<<p>>)) = 1
      /\ AreOf(Encoded(<<p>>), {"CONNECT"})
  BY <1>7, <1>8, AreOfOne, AreOfEncoded, EncodedIs
<1> DEFINE e == Encoded(<<p>>)
<1> HIDE DEF e
<1>10. e[1].kind = "CONNECT" /\ e \in Seq(Packets) /\ Len(e) = 1
  BY <1>9, AreOfAll DEF e
<1>11. /\ o.ready[s] = "open" /\ o.sock = s /\ o.link = c.link /\ o.up = c.up
       /\ \A x \in Sockets : x # s => o.ready[x] = c.ready[x]
  BY <1>4 DEF ObjectOK, Fields
<1>12. CanSend(o)
  BY <1>4, <1>11 DEF CanSend
<1>13. r = [o EXCEPT !.pinger = g, !.up[s] = o.up[s] \o e]
  BY <1>1, <1>11 DEF SocketSend, e
<1> HIDE DEF g
<1>14. o.up[s] \o e = e
  <2>1. <<>> \o e = e
    BY <1>10
  <2> QED
    BY <1>6, <1>11, <2>1
<1> HIDE DEF r
<1>15. /\ r.connected = c.connected /\ r.sock = s
       /\ r.queue = c.queue
       /\ r.connectTimer = c.connectTimer /\ r.reconnectTimer = c.reconnectTimer
       /\ r.reconnecting = c.reconnecting /\ r.orphans = c.orphans
       /\ r.notify = c.notify /\ r.buffered = c.buffered
       /\ r.ready[s] = "open" /\ r.on = c.on /\ r.link = c.link
       /\ r.up[s] = e /\ r.down = c.down
       /\ \A x \in Sockets : x # s => r.ready[x] = c.ready[x] /\ r.up[x] = c.up[x]
  BY <1>4, <1>13, <1>14 DEF ObjectOK, Fields
<1>16. SettledOK(r) /\ NotifyOK(r) /\ CurrentOK(r) /\ PingerOK(r)
  <2>1. SettledOK(r)
    BY <1>1, <1>2, <1>3, <1>4, <1>15 DEF SettledOK
  <2> QED
    BY <1>1, <1>2, <1>4, <1>15, <2>1 DEF NotifyOK, CurrentOK, PingerOK
<1>17. HandshakeOK(r, broker.conn)
  BY <1>4, <1>6, <1>10, <1>15 DEF HandshakeOK
<1>18. ConnOK(r, broker.conn)
  BY <1>5, <1>15, <1>16, <1>17 DEF ConnOK, UsableOK
<1> QED
  BY <1>1, <1>12, <1>18 DEF ConnInv

\* The socket closes.
LEMMA SocketClosedConn ==
    ASSUME ObjectOK(c), ConnInv, NEW s \in Sockets, SocketClosed(s)
    PROVE  ConnInv'
<1> DEFINE o == [c EXCEPT !.ready[s] = "closed", !.on[s] = FALSE,
                          !.up[s] = <<>>]
<1>1. /\ c.on[s] /\ c.link[s] = "down" /\ c.down[s] = <<>>
      /\ c.reconnecting \/ Free(c) # {}
      /\ c' = IF c.reconnecting THEN o ELSE Disconnected(o, TRUE)
      /\ broker' = broker
  BY DEF SocketClosed, Unstored, Room
<1>2. /\ o.connected = c.connected /\ o.sock = c.sock /\ o.queue = c.queue
      /\ o.connectTimer = c.connectTimer /\ o.reconnectTimer = c.reconnectTimer
      /\ o.reconnecting = c.reconnecting /\ o.orphans = c.orphans
      /\ o.notify = c.notify /\ o.buffered = c.buffered
      /\ o.pinger = c.pinger
      /\ o.ready[s] = "closed" /\ o.on[s] = FALSE /\ o.link = c.link
      /\ o.up[s] = <<>> /\ o.down = c.down
      /\ \A x \in Sockets : x # s =>
            o.ready[x] = c.ready[x] /\ o.up[x] = c.up[x] /\ o.on[x] = c.on[x]
  BY DEF ObjectOK, Fields
<1>3. ObjectOK(o)
  BY DEF ObjectOK, Fields
<1> HIDE DEF o
<1>4. SettledOK(o) /\ NotifyOK(o) /\ CurrentOK(o) /\ PingerOK(o)
  <2>1. SettledOK(o)
    BY <1>1, <1>2 DEF ConnInv, ConnOK, SettledOK
  <2>2. CurrentOK(o)
    BY <1>1, <1>2, <1>3, SocketIs DEF ConnInv, ConnOK, CurrentOK
  <2> QED
    BY <1>2, <2>1, <2>2 DEF ConnInv, ConnOK, NotifyOK, PingerOK
<1>5. CASE c.reconnecting
  <2>1. ~c.connected
    BY <1>5 DEF ConnInv, ConnOK, UsableOK, LinkedOK
  <2>2. HandshakeOK(o, broker.conn)
    BY <1>1, <1>2, <1>3, <2>1, SocketIs DEF ConnInv, ConnOK, HandshakeOK
  <2> QED
    BY <1>1, <1>2, <1>4, <1>5, <2>1, <2>2 DEF ConnInv, ConnOK, UsableOK
<1>6. CASE ~c.reconnecting
  <2>1. Free(c) \subseteq Free(o)
    BY <1>2 DEF Free
  <2>2. ConnOK(Disconnected(o, TRUE), broker.conn)
    BY <1>1, <1>2, <1>3, <1>4, <1>6, <2>1, DisconnectedConn
  <2> QED
    BY <1>1, <1>6, <2>2 DEF ConnInv
<1> QED
  BY <1>5, <1>6

\* send(), connected or not.
LEMMA AppSendConn ==
    ASSUME Typed, ConnInv, NEW q \in 0..2, AppSend(q)
    PROVE  ConnInv'
<1> DEFINE m == NextOut
           r == RequiresAck("PUBLISH", m, q)
           pkt(i) == Packet("PUBLISH", i, m, q)
           n == [c EXCEPT !.notify = FALSE]
           e == [pkt |-> pkt(0), seq |-> c.sequence + 1]
           b == [c EXCEPT !.sequence = @ + 1, !.buffered = Append(@, e)]
<1>1. m \in 1..OutMsgs
  BY NextOutIs DEF AppSend
<1>2. /\ broker' = broker
      /\ c.connected \/ Offline
      /\ c' = IF q > 0
              THEN IF c.connected THEN Schedule(r, <<pkt(FreeId)>>) ELSE r
              ELSE IF c.connected THEN Schedule(n, <<pkt(0)>>) ELSE b
  BY DEF AppSend
<1> HIDE DEF m
<1>3. \A i \in Nat :
         /\ pkt(i) \in Packets /\ <<pkt(i)>> \in Seq(Packets) /\ <<pkt(i)>> # <<>>
         /\ pkt(i).kind = "PUBLISH" /\ pkt(i).qos = q
         /\ AreOf(<<pkt(i)>>, FromClient)
  <2>1. ASSUME NEW i \in Nat
        PROVE  pkt(i) \in Packets /\ pkt(i).kind = "PUBLISH" /\ pkt(i).qos = q
    <3>1. m \in 0..TopMsg
      BY <1>1, TopIs
    <3>2. pkt(i) \in Packets
      BY <3>1, PacketIs DEF Kinds
    <3> QED
      BY <3>2 DEF Packet
  <2> HIDE DEF pkt
  <2> QED
    BY <2>1, AreOfOne DEF FromClient
<1> HIDE DEF pkt
<1>4. /\ ObjectOK(c) /\ FreeId \in Nat /\ m \in 0..OutMsgs
      /\ ConnOK(c, broker.conn)
  BY <1>1, FreeIdIs DEF Typed, TypeInv, ConnInv
<1>5. SameConn(r, c) /\ ObjectOK(r)
  <2>1. ObjectOK(r)
    BY <1>4, RequiresAckOK
  <2> QED
    BY <1>4, <2>1 DEF RequiresAck, SameConn, ObjectOK, Fields
<1> HIDE DEF r
<1>6. CASE c.connected
  <2>1. Made(c, broker.conn) /\ HandshakeOK(c, broker.conn)
    BY <1>4, <1>6 DEF ConnOK, UsableOK, Made
  <2>2. SameConn(n, c) /\ ObjectOK(n)
    BY <1>4, <2>1 DEF SameConn, Made, ObjectOK, Fields
  <2> HIDE DEF n
  <2>3. ASSUME NEW o \in {n, r}, NEW i \in Nat
        PROVE  ConnOK(Schedule(o, <<pkt(i)>>), broker.conn)
    <3>1. SameConn(o, c) /\ ObjectOK(o)
      BY <1>5, <2>2
    <3>2. /\ SettledOK(o) /\ CurrentOK(o) /\ HandshakeOK(o, broker.conn)
          /\ PingerOK(o)
          /\ LinkedOK(o, broker.conn)
      BY <1>4, <2>1, <3>1, SameConnOK DEF Made, ConnOK
    <3>3. o.connected /\ ~o.notify /\ o.queue = <<>>
      BY <2>1, <3>1 DEF Made, SameConn
    <3> QED
      BY <1>3, <3>1, <3>2, <3>3, ScheduleConn
  <2> QED
    BY <1>2, <1>4, <1>6, <2>3 DEF ConnInv
<1>7. CASE ~c.connected
  <2>1. CASE q > 0
    BY <1>2, <1>4, <1>5, <1>7, <2>1, SameConnOK DEF ConnInv
  <2>2. CASE q = 0
    <3>1. c' = b
      BY <1>2, <1>7, <2>2
    <3>2. /\ e \in [pkt : Packets, seq : Nat]
          /\ e.pkt.kind = "PUBLISH" /\ e.pkt.qos = 0
      <4>1. c.sequence + 1 \in Nat
        BY <1>4 DEF ObjectOK
      <4>2. pkt(0) \in Packets /\ pkt(0).kind = "PUBLISH" /\ pkt(0).qos = 0
        BY <1>3, <2>2
      <4> QED
        BY <4>1, <4>2
    <3> HIDE DEF e
    <3>3. \A i \in DOMAIN Append(c.buffered, e) :
             /\ Append(c.buffered, e)[i].pkt.kind = "PUBLISH"
             /\ Append(c.buffered, e)[i].pkt.qos = 0
      <4>1. /\ c.buffered \in Seq([pkt : Packets, seq : Nat])
            /\ \A i \in 1..Len(c.buffered) :
                  c.buffered[i].pkt.kind = "PUBLISH" /\ c.buffered[i].pkt.qos = 0
        BY <1>4, SeqIs DEF ConnOK, SettledOK, ObjectOK
      <4> QED
        BY <3>2, <4>1
    <3>4. /\ b.connected = c.connected /\ b.sock = c.sock /\ b.queue = c.queue
          /\ b.connectTimer = c.connectTimer
          /\ b.reconnectTimer = c.reconnectTimer
          /\ b.reconnecting = c.reconnecting /\ b.orphans = c.orphans
          /\ b.notify = c.notify /\ b.buffered = Append(c.buffered, e)
          /\ b.ready = c.ready /\ b.on = c.on /\ b.link = c.link
          /\ b.up = c.up /\ b.down = c.down /\ b.pinger = c.pinger
      BY <1>4 DEF ObjectOK, Fields
    <3> HIDE DEF b
    <3>5. SettledOK(b) /\ NotifyOK(b) /\ CurrentOK(b) /\ PingerOK(b)
      BY <1>4, <3>3, <3>4
         DEF ConnOK, SettledOK, NotifyOK, CurrentOK, PingerOK
    <3>6. HandshakeOK(b, broker.conn) /\ UsableOK(b, broker.conn)
      BY <1>4, <1>7, <3>4 DEF ConnOK, HandshakeOK, UsableOK
    <3> QED
      BY <1>2, <3>1, <3>5, <3>6 DEF ConnInv, ConnOK
  <2> QED
    BY <2>1, <2>2
<1> QED
  BY <1>6, <1>7

-----------------------------------------------------------------------------
\* The connection takes too long.
LEMMA ConnectTimeoutConn ==
    ASSUME ObjectOK(c), ConnInv, ConnectTimeout \/ SlowConnect, NoRetryFaults
    PROVE  ConnInv'
<1> DEFINE o == [c EXCEPT !.connectTimer = "idle"]
<1>1. /\ c.connectTimer = "armed" /\ Free(c) # {} /\ broker' = broker
      /\ c' = Disconnected(o, TRUE)
      /\ Broken \/ ~c.reconnecting
  BY DEF ConnectTimeout, SlowConnect, Room, Unstored, Upset, NoRetryFaults
<1>2. /\ ObjectOK(o) /\ o.queue = c.queue /\ o.sock = c.sock
      /\ o.reconnecting = c.reconnecting
      /\ o.reconnectTimer = c.reconnectTimer
      /\ o.connected = c.connected /\ o.notify = c.notify
      /\ o.connectTimer = "idle" /\ o.orphans = c.orphans
      /\ o.buffered = c.buffered /\ o.ready = c.ready /\ o.on = c.on
      /\ o.link = c.link /\ o.down = c.down /\ o.up = c.up
      /\ o.pinger = c.pinger
  BY DEF ObjectOK, Fields
<1> HIDE DEF o
<1>3. c.sock # NoSocket /\ SettledOK(o) /\ CurrentOK(o) /\ PingerOK(o)
  BY <1>1, <1>2 DEF ConnInv, ConnOK, SettledOK, CurrentOK, PingerOK
<1>4. Free(o) # {}
  BY <1>1, <1>2 DEF Free
<1>5. ASSUME c.reconnecting PROVE RetryOK(o)
  <2>1. ~c.connected /\ ~c.notify
    BY <1>5 DEF ConnInv, ConnOK, UsableOK, LinkedOK, NotifyOK
  <2>2. c.link[c.sock] # "up" /\ c.down[c.sock] = <<>>
    BY <1>1, <1>3, <1>5 DEF Broken
  <2>3. c.reconnectTimer # "armed"
    BY <1>1, <1>3 DEF ConnInv, ConnOK, CurrentOK
  <2>4. HandshakeOK(o, broker.conn)
    BY <1>2 DEF ConnInv, ConnOK, HandshakeOK
  <2> QED
    BY <1>2, <1>3, <1>5, <2>1, <2>2, <2>3, <2>4 DEF RetryOK
<1>6. ConnOK(Disconnected(o, TRUE), broker.conn)
  BY <1>2, <1>3, <1>4, <1>5, DisconnectedConn
<1> QED
  BY <1>1, <1>6 DEF ConnInv

\* The time to try again has come.
LEMMA ReconnectTimeoutConn ==
    ASSUME ObjectOK(c), ConnInv, ReconnectTimeout
    PROVE  ConnInv'
<1> DEFINE o == [c EXCEPT !.reconnectTimer = "idle"]
           w == [o EXCEPT !.reconnecting = TRUE]
<1>1. c.orphans = 0
  BY DEF ConnInv, ConnOK, SettledOK
<1>2. /\ c.reconnectTimer = "armed" /\ Free(c) # {} /\ broker' = broker
      /\ c' = Reconnect(o)
  BY <1>1 DEF ReconnectTimeout, Room, Unstored
<1>3. c.reconnecting /\ ~c.connected
  BY <1>2 DEF ConnInv, ConnOK, SettledOK
<1>4. /\ ObjectOK(w) /\ w.queue = c.queue /\ w.sock = c.sock
      /\ w.reconnecting = TRUE /\ w.reconnectTimer = "idle"
      /\ w.connected = c.connected /\ w.notify = c.notify
      /\ w.connectTimer = c.connectTimer /\ w.orphans = c.orphans
      /\ w.buffered = c.buffered /\ w.ready = c.ready /\ w.on = c.on
      /\ w.link = c.link /\ w.down = c.down /\ w.up = c.up
      /\ o.connected = c.connected
  BY DEF ObjectOK, Fields
<1>5. c' = DoConnect(w)
  BY <1>2, <1>3, <1>4 DEF Reconnect
<1> HIDE DEF o, w
<1>6. SettledOK(w) /\ NotifyOK(w)
  BY <1>3, <1>4 DEF ConnInv, ConnOK, SettledOK, NotifyOK
<1>7. AreOf(w.queue, {"DISCONNECT"})
  BY <1>3, <1>4 DEF ConnInv, ConnOK, HandshakeOK
<1>8. w.sock # NoSocket => w.link[w.sock] # "up" /\ w.down[w.sock] = <<>>
  BY <1>2, <1>4 DEF ConnInv, ConnOK, CurrentOK
<1>9. Free(w) # {}
  BY <1>2, <1>4 DEF Free
<1>10. ConnOK(DoConnect(w), broker.conn)
  BY <1>4, <1>6, <1>7, <1>8, <1>9, DoConnectConn
<1> QED
  BY <1>2, <1>5, <1>10 DEF ConnInv

\* An object with another state of the pinger.
SameButPinger(r, o) ==
    /\ r.connected = o.connected /\ r.sock = o.sock /\ r.queue = o.queue
    /\ r.connectTimer = o.connectTimer /\ r.reconnectTimer = o.reconnectTimer
    /\ r.reconnecting = o.reconnecting /\ r.orphans = o.orphans
    /\ r.notify = o.notify /\ r.buffered = o.buffered
    /\ r.ready = o.ready /\ r.on = o.on /\ r.link = o.link
    /\ r.up = o.up /\ r.down = o.down

\* The pinger's timer, twice without an answer: no retry is lost while it runs.
LEMMA DoPingConn ==
    ASSUME ObjectOK(c), ConnInv, DoPing
    PROVE  ConnInv'
<1> DEFINE w == [c EXCEPT !.pinger = "waiting"]
           o == [c EXCEPT !.pinger = "off"]
<1>1. /\ c.pinger # "off" /\ c.sock # NoSocket /\ Broken /\ Free(c) # {}
      /\ c' \in {w, Disconnected(o, TRUE)} /\ broker' = broker
  BY DEF DoPing, Room, Unstored
<1>2. ~c.reconnecting
  BY <1>1 DEF ConnInv, ConnOK, PingerOK, Broken
<1>3. \A x \in {w, o} : ObjectOK(x) /\ SameButPinger(x, c)
  <2>1. ObjectOK(w) /\ SameButPinger(w, c)
    BY DEF SameButPinger, ObjectOK, Fields
  <2>2. ObjectOK(o) /\ SameButPinger(o, c)
    BY DEF SameButPinger, ObjectOK, Fields
  <2> QED
    BY <2>1, <2>2
<1> HIDE DEF w, o
<1>4. ConnOK(w, broker.conn) /\ SettledOK(o)
  <2>1. /\ SettledOK(w) /\ SettledOK(o)
        /\ NotifyOK(w) /\ CurrentOK(w) /\ PingerOK(w)
    BY <1>2, <1>3
       DEF ConnInv, ConnOK, SameButPinger, SettledOK, NotifyOK, CurrentOK, PingerOK
  <2>2. HandshakeOK(w, broker.conn) /\ UsableOK(w, broker.conn)
    BY <1>3
       DEF ConnInv, ConnOK, SameButPinger, HandshakeOK, UsableOK, LinkedOK
  <2> QED
    BY <2>1, <2>2 DEF ConnOK
<1>5. Free(o) # {} /\ ~o.reconnecting
  BY <1>1, <1>2, <1>3 DEF Free, SameButPinger
<1>6. ConnOK(Disconnected(o, TRUE), broker.conn)
  BY <1>3, <1>4, <1>5, DisconnectedConn
<1> QED
  BY <1>1, <1>4, <1>6 DEF ConnInv

-----------------------------------------------------------------------------
(***************************************************************************)
(* The packets the client takes.                                           *)
(***************************************************************************)

\* What a handler may leave: the object with other messages, disconnected, or
\* with a packet sent.
LEMMA RepliesConn ==
    ASSUME NEW o, Made(o, broker.conn), Free(o) # {},
           NEW r, ObjectOK(r), SameConn(r, o)
    PROVE  /\ ConnOK(r, broker.conn)
           /\ ConnOK(Disconnected(r, TRUE), broker.conn)
           /\ \A p \in Packets : p.kind \in FromClient =>
                 ConnOK(ScheduleInHandler(r, p), broker.conn)
<1>1. Made(r, broker.conn)
  BY SameConnOK DEF Made, SameConn
<1>2. Free(r) # {}
  BY DEF Free, SameConn
<1>3. SettledOK(r) /\ ~r.reconnecting
  BY <1>1 DEF Made, LinkedOK
<1>4. ConnOK(Disconnected(r, TRUE), broker.conn)
  BY <1>1, <1>2, <1>3, DisconnectedConn DEF Made
<1> QED
  BY <1>1, <1>2, <1>4, MadeConn, ScheduleInHandlerConn

\* Other messages sent or received are no other connection.
LEMMA SentSame ==
    ASSUME NEW o, ObjectOK(o), NEW f
    PROVE  /\ SameConn([o EXCEPT !.sent = f], o)
           /\ SameConn([o EXCEPT !.received = f], o)
BY DEF SameConn, ObjectOK, Fields

\* Nor is one marked as received.
LEMMA MarkedOK ==
    ASSUME NEW o, ObjectOK(o), NEW i \in DOMAIN o.sent
    PROVE  LET r == [o EXCEPT !.sent[i].rec = TRUE]
           IN  ObjectOK(r) /\ SameConn(r, o)
<1> DEFINE e == [o.sent[i] EXCEPT !.rec = TRUE]
           f == [o.sent EXCEPT ![i] = e]
<1>1. IsMap(o.sent, Nat \ {0}, Pending) /\ IsFiniteSet(DOMAIN o.sent)
  BY DEF ObjectOK
<1>2. e \in Pending
  BY <1>1 DEF IsMap, Pending
<1>3. [o EXCEPT !.sent[i].rec = TRUE] = [o EXCEPT !.sent = f]
  BY DEF ObjectOK, Fields
<1> HIDE DEF e
<1>4. /\ DOMAIN f = DOMAIN o.sent
      /\ \A j \in DOMAIN f : f[j] = IF j = i THEN e ELSE o.sent[j]
      /\ f = [j \in DOMAIN f |-> f[j]]
  OBVIOUS
<1> HIDE DEF f
<1>5. IsMap(f, Nat \ {0}, Pending) /\ IsFiniteSet(DOMAIN f)
  BY <1>1, <1>2, <1>4 DEF IsMap
<1> QED
  BY <1>3, <1>5, SentOK, SentSame

\* The handlers of the packets of a connection that is made.
LEMMA HandlersConn ==
    ASSUME NEW o, Made(o, broker.conn), Free(o) # {}, NEW p \in Packets,
           \/ HandlePublish(o, p) \/ HandlePuback(o, p) \/ HandlePubrec(o, p)
           \/ HandlePubrel(o, p) \/ HandlePubcomp(o, p) \/ HandleRequestAck(o, p)
    PROVE  ConnOK(c', broker.conn)
<1> DEFINE After(r) == \/ c' = r \/ c' = Disconnected(r, TRUE)
                       \/ \E k \in FromClient :
                             c' = ScheduleInHandler(r, Control(k, p.id))
           b == [o EXCEPT !.received = Bind(@, p.id, p.msg)]
           n == [o EXCEPT !.received = Unbind(@, p.id)]
           f == [o EXCEPT !.sent = Unbind(@, p.id)]
           m == [o EXCEPT !.sent[p.id].rec = TRUE]
<1>1. ObjectOK(o) /\ p.id \in Nat /\ p.msg \in 0..TopMsg
  BY DEF Made, Packets
<1>2. \A k \in FromClient :
         Control(k, p.id) \in Packets /\ Control(k, p.id).kind = k
  <2>1. \A k \in FromClient : k \in Kinds
    BY DEF FromClient, Announced, Kinds
  <2> QED
    BY <1>1, <2>1, ControlIs DEF Control, Packet
<1>3. ASSUME NEW r, ObjectOK(r), SameConn(r, o), After(r)
      PROVE  ConnOK(c', broker.conn)
  BY <1>2, <1>3, RepliesConn
<1>4. SameConn(o, o)
  BY DEF SameConn
<1>5. ObjectOK(b) /\ SameConn(b, o) /\ ObjectOK(n) /\ SameConn(n, o)
  <2>1. IsMap(o.received, Nat, 0..TopMsg)
    BY <1>1 DEF ObjectOK
  <2>2. /\ IsMap(Bind(o.received, p.id, p.msg), Nat, 0..TopMsg)
        /\ IsMap(Unbind(o.received, p.id), Nat, 0..TopMsg)
    BY <1>1, <2>1, MessagesIs
  <2> QED
    BY <1>1, <2>2, ReceivedOK, SentSame
<1>6. ObjectOK(f) /\ SameConn(f, o)
  <2>1. IsMap(o.sent, Nat \ {0}, Pending) /\ IsFiniteSet(DOMAIN o.sent)
    BY <1>1 DEF ObjectOK
  <2>2. /\ IsMap(Unbind(o.sent, p.id), Nat \ {0}, Pending)
        /\ IsFiniteSet(DOMAIN Unbind(o.sent, p.id))
    BY <2>1, PendingIs
  <2> QED
    BY <1>1, <2>2, SentOK, SentSame
<1>7. p.id \in DOMAIN o.sent => ObjectOK(m) /\ SameConn(m, o)
  BY <1>1, MarkedOK
<1>8. {"PUBACK", "PUBREC", "PUBREL", "PUBCOMP"} \subseteq FromClient
  BY DEF FromClient
<1> HIDE DEF b, n, f, m
<1>9. CASE HandlePublish(o, p)
  <2>1. c' = o \/ c' = ScheduleInHandler(o, Control("PUBACK", p.id))
        \/ c' = ScheduleInHandler(b, Control("PUBREC", p.id))
    BY <1>9 DEF HandlePublish, b
  <2>2. After(o) \/ After(b)
    BY <1>8, <2>1
  <2> QED
    BY <1>1, <1>3, <1>4, <1>5, <2>2
<1>10. CASE HandlePuback(o, p) \/ HandleRequestAck(o, p)
  <2>1. c' = f \/ c' = o
    BY <1>10 DEF HandlePuback, Forget, HandleRequestAck, f
  <2> QED
    BY <1>1, <1>3, <1>4, <1>6, <2>1
<1>11. CASE HandlePubrec(o, p)
  <2>1. \/ c' = o
        \/ /\ p.id \in DOMAIN o.sent
           /\ \/ c' = Disconnected(m, TRUE)
              \/ c' = ScheduleInHandler(m, Control("PUBREL", p.id))
    BY <1>11 DEF HandlePubrec, m
  <2> QED
    BY <1>1, <1>3, <1>4, <1>7, <1>8, <2>1
<1>12. CASE HandlePubrel(o, p)
  <2>1. c' = ScheduleInHandler(n, Control("PUBCOMP", p.id))
    BY <1>12 DEF HandlePubrel, n
  <2> QED
    BY <1>3, <1>5, <1>8, <2>1
<1>13. CASE HandlePubcomp(o, p)
  <2>1. c' = f \/ c' = Disconnected(o, TRUE)
    BY <1>13 DEF HandlePubcomp, Forget, f
  <2> QED
    BY <1>1, <1>3, <1>4, <1>6, <2>1
<1> QED
  BY <1>9, <1>10, <1>11, <1>12, <1>13

\* The packets of an order to send again go to the broker.
LEMMA OrderKinds ==
    ASSUME NEW o, ObjectOK(o), SettledOK(o), NEW q \in Orders(o)
    PROVE  AreOf([i \in DOMAIN q |-> q[i].pkt], FromClient)
<1> DEFINE ps == [i \in DOMAIN q |-> q[i].pkt]
<1>1. \A x \in Resend(o) : x.pkt.kind \in FromClient
  <2>1. ASSUME NEW x \in Resend(o) PROVE x.pkt.kind \in FromClient
    <3>1. CASE x \in Range(o.buffered)
      BY <3>1 DEF Range, SettledOK, FromClient
    <3>2. CASE x \notin Range(o.buffered)
      BY <2>1, <3>2 DEF Resend, Control, Packet, FromClient
    <3> QED
      BY <3>1, <3>2
  <2> QED
    BY <2>1
<1>2. DOMAIN q = 1..Len(q) /\ \A i \in 1..Len(q) : q[i] \in Resend(o)
  BY OrderIs
<1>3. DOMAIN ps = DOMAIN q /\ \A i \in DOMAIN q : ps[i] = q[i].pkt
  OBVIOUS
<1> HIDE DEF ps
<1>4. AreOf(ps, FromClient)
  BY <1>1, <1>2, <1>3 DEF AreOf
<1> QED
  BY <1>4 DEF ps

\* A connection the broker has accepted.
LEMMA AcceptedConn ==
    ASSUME NEW o, ObjectOK(o), SettledOK(o), NotifyOK(o), CurrentOK(o),
           o.sock # NoSocket, o.ready[o.sock] = "open",
           o.connectTimer = "idle", o.reconnectTimer # "armed",
           AreOf(o.queue, {"DISCONNECT"}), AreOf(o.up[o.sock], FromClient),
           AreOf(o.down[o.sock], FromBroker),
           o.link[o.sock] = "up" => broker.conn = o.sock,
           NEW q \in Orders(o), Free(o) # {}
    PROVE  ConnOK(Accepted(o, q), broker.conn)
<1> DEFINE ps == [i \in DOMAIN q |-> q[i].pkt]
           k == o.queue \o ps
           s == [o EXCEPT !.connected = TRUE, !.buffered = <<>>,
                          !.notify = @ /\ o.buffered = <<>>, !.queue = k]
           g == s.reconnecting /\ ps # <<>> /\ ProcessThrows(s)
           r == [s EXCEPT !.reconnecting = g]
           n == ProcessQueue(r)
<1>1. ps \in Seq(Packets) /\ AreOf(ps, FromClient)
  BY OrderIs, OrderKinds
<1>2. CanSend(o)
  BY DEF CanSend
<1>3. Accepted(o, q) = Caught(s, n)
  BY <1>2 DEF Accepted
<1> HIDE DEF ps
<1>4. /\ o.queue \in Seq(Packets) /\ AreOf(o.queue, FromClient)
      /\ k \in Seq(Packets) /\ (o.queue # <<>> => k # <<>>)
  <2>1. o.queue \in Seq(Packets)
    BY DEF ObjectOK
  <2>2. AreOf(o.queue, FromClient)
    BY DEF AreOf, FromClient
  <2> QED
    BY <1>1, <2>1, <2>2
<1>5. AreOf(k, FromClient)
  BY <1>1, <1>4, AreOfConcat
<1> HIDE DEF k
<1>6. /\ ObjectOK(s) /\ s.queue = k /\ s.sock = o.sock
      /\ s.reconnecting = o.reconnecting /\ s.connected
      /\ (s.notify => o.notify) /\ s.notify \in BOOLEAN
      /\ s.connectTimer = o.connectTimer
      /\ s.reconnectTimer = o.reconnectTimer /\ s.orphans = o.orphans
      /\ s.buffered = <<>> /\ s.ready = o.ready /\ s.on = o.on
      /\ s.link = o.link /\ s.down = o.down /\ s.up = o.up
  <2>1. (o.notify /\ o.buffered = <<>>) \in BOOLEAN
    OBVIOUS
  <2> QED
    BY <1>4, <2>1 DEF ObjectOK, Fields
<1> HIDE DEF s
<1>7. g = FALSE
  <2>1. CASE o.reconnecting
    <3>1. ~s.notify
      BY <1>6, <2>1 DEF NotifyOK
    <3>2. CanSend(s) /\ Sendable(s) = Len(s.queue)
      BY <1>2, <1>6, <3>1 DEF CanSend, Sendable
    <3>3. Len(s.queue) \in Nat
      BY <1>4, <1>6, SeqIs
    <3> QED
      BY <3>2, <3>3 DEF ProcessThrows
  <2> QED
    BY <1>6, <2>1 DEF ObjectOK
<1> HIDE DEF g
<1>8. /\ ObjectOK(r) /\ r.queue = k /\ r.sock = o.sock
      /\ r.reconnecting = FALSE /\ r.connected
      /\ r.notify = s.notify
      /\ r.connectTimer = o.connectTimer
      /\ r.reconnectTimer = o.reconnectTimer /\ r.orphans = o.orphans
      /\ r.buffered = <<>> /\ r.ready = o.ready /\ r.on = o.on
      /\ r.link = o.link /\ r.down = o.down /\ r.up = o.up
  <2>1. ObjectOK(r) /\ r.reconnecting = FALSE
    <3>1. r = [s EXCEPT !.reconnecting = FALSE]
      BY <1>7
    <3>2. ObjectOK(s)
      BY <1>6
    <3> HIDE DEF r
    <3> QED
      BY <3>1, <3>2 DEF ObjectOK, Fields
  <2>2. /\ r.queue = s.queue /\ r.sock = s.sock
        /\ r.connected = s.connected /\ r.notify = s.notify
        /\ r.connectTimer = s.connectTimer
        /\ r.reconnectTimer = s.reconnectTimer /\ r.orphans = s.orphans
        /\ r.buffered = s.buffered /\ r.ready = s.ready /\ r.on = s.on
        /\ r.link = s.link /\ r.down = s.down /\ r.up = s.up
    BY <1>6 DEF ObjectOK, Fields
  <2> HIDE DEF r
  <2> QED
    BY <1>6, <2>1, <2>2
<1> HIDE DEF r
<1>9. SettledOK(r) /\ CurrentOK(r) /\ NotifyOK(r)
  <2>1. SettledOK(r)
    BY <1>8 DEF SettledOK
  <2> QED
    BY <1>4, <1>6, <1>8, <2>1 DEF CurrentOK, NotifyOK
<1>10. Busy(r, broker.conn)
  BY <1>5, <1>8, <1>9 DEF Busy, LinkedOK
<1>11. Free(r) # {}
  BY <1>8 DEF Free
<1>12. /\ ConnOK(n, broker.conn) /\ ~n.reconnecting
       /\ ObjectOK(n) /\ Free(n) # {}
  BY <1>10, <1>11, ProcessQueueConn, ProcessQueueOK DEF Busy
<1> HIDE DEF n
<1> QED
  BY <1>3, <1>12, CaughtConn

\* The object with d under way to the client on a socket: the rest is as it was.
WithDown(o, s, d) == [o EXCEPT !.down[s] = d]
OnlyDown(r, o, s, d) ==
    /\ ObjectOK(r) /\ r.down[s] = d
    /\ \A x \in Sockets : x # s => r.down[x] = o.down[x]
    /\ r.sock = o.sock /\ r.connected = o.connected
    /\ r.connectTimer = o.connectTimer
    /\ r.reconnectTimer = o.reconnectTimer
    /\ r.orphans = o.orphans /\ r.reconnecting = o.reconnecting
    /\ r.notify = o.notify /\ r.queue = o.queue
    /\ r.buffered = o.buffered /\ r.clean = o.clean
    /\ r.ready = o.ready /\ r.on = o.on /\ r.link = o.link
    /\ r.sent = o.sent /\ r.up = o.up /\ r.pinger = o.pinger

LEMMA DownIs ==
    ASSUME NEW o, ObjectOK(o), NEW s \in Sockets, NEW d \in Seq(Packets)
    PROVE  OnlyDown(WithDown(o, s, d), o, s, d)
<1>0. PICK r : r = WithDown(o, s, d)
  OBVIOUS
<1>1. o.down \in [Sockets -> Seq(Packets)] /\ DOMAIN o = Fields
  BY DEF ObjectOK
<1> DEFINE m == [o.down EXCEPT ![s] = d]
<1>2. /\ m \in [Sockets -> Seq(Packets)] /\ m[s] = d
      /\ \A x \in Sockets : x # s => m[x] = o.down[x]
  BY <1>1
<1>3. r = [o EXCEPT !.down = m]
  BY <1>0, <1>1 DEF Fields, WithDown
<1> HIDE DEF m
<1>4. /\ r.down = m
      /\ r.sock = o.sock /\ r.connected = o.connected
      /\ r.connectTimer = o.connectTimer
      /\ r.reconnectTimer = o.reconnectTimer
      /\ r.orphans = o.orphans /\ r.reconnecting = o.reconnecting /\ r.notify = o.notify
      /\ r.queue = o.queue /\ r.buffered = o.buffered /\ r.clean = o.clean
      /\ r.ready = o.ready /\ r.on = o.on /\ r.link = o.link
      /\ r.sent = o.sent /\ r.up = o.up /\ r.pinger = o.pinger
  BY <1>1, <1>3 DEF Fields
<1>5. ObjectOK(r)
  BY <1>2, <1>3, SMTT(30) DEF ObjectOK, Fields
<1> QED
  BY <1>0, <1>2, <1>4, <1>5 DEF OnlyDown

\* The same with u under way to the broker.
WithUp(o, s, u) == [o EXCEPT !.up[s] = u]

LEMMA UpIs ==
    ASSUME NEW o, ObjectOK(o), NEW s \in Sockets, NEW u \in Seq(Packets)
    PROVE  LET r == WithUp(o, s, u)
           IN  /\ ObjectOK(r) /\ r.up[s] = u
               /\ \A x \in Sockets : x # s => r.up[x] = o.up[x]
               /\ r.sock = o.sock /\ r.connected = o.connected
               /\ r.connectTimer = o.connectTimer
               /\ r.reconnectTimer = o.reconnectTimer
               /\ r.orphans = o.orphans /\ r.reconnecting = o.reconnecting
               /\ r.notify = o.notify /\ r.queue = o.queue
               /\ r.buffered = o.buffered /\ r.clean = o.clean
               /\ r.ready = o.ready /\ r.on = o.on /\ r.link = o.link
               /\ r.sent = o.sent /\ r.down = o.down /\ r.pinger = o.pinger
<1>0. PICK r : r = WithUp(o, s, u)
  OBVIOUS
<1>1. o.up \in [Sockets -> Seq(Packets)] /\ DOMAIN o = Fields
  BY DEF ObjectOK
<1> DEFINE m == [o.up EXCEPT ![s] = u]
<1>2. /\ m \in [Sockets -> Seq(Packets)] /\ m[s] = u
      /\ \A x \in Sockets : x # s => m[x] = o.up[x]
  BY <1>1
<1>3. r = [o EXCEPT !.up = m]
  BY <1>0, <1>1 DEF Fields, WithUp
<1> HIDE DEF m
<1>4. /\ r.up = m
      /\ r.sock = o.sock /\ r.connected = o.connected
      /\ r.connectTimer = o.connectTimer
      /\ r.reconnectTimer = o.reconnectTimer
      /\ r.orphans = o.orphans /\ r.reconnecting = o.reconnecting /\ r.notify = o.notify
      /\ r.queue = o.queue /\ r.buffered = o.buffered /\ r.clean = o.clean
      /\ r.ready = o.ready /\ r.on = o.on /\ r.link = o.link
      /\ r.sent = o.sent /\ r.down = o.down /\ r.pinger = o.pinger
  BY <1>1, <1>3 DEF Fields
<1>5. ObjectOK(r)
  BY <1>2, <1>3, SMTT(30) DEF ObjectOK, Fields
<1> QED
  BY <1>0, <1>2, <1>4, <1>5

-----------------------------------------------------------------------------
\* Any packet taken off the current socket.
LEMMA HandleMessageConn ==
    ASSUME ObjectOK(c), ConnInv, NEW s \in Sockets, HandleMessage(s)
    PROVE  ConnInv'
<1> DEFINE p == Head(c.down[s])
           d == Tail(c.down[s])
           o == [c EXCEPT !.down[s] = Tail(@)]
<1>1. /\ c.on[s] /\ c.down[s] # <<>> /\ Free(c) # {}
      /\ \/ HandleConnack(o, p) \/ HandlePublish(o, p) \/ HandlePuback(o, p)
         \/ HandlePubrec(o, p) \/ HandlePubrel(o, p) \/ HandlePubcomp(o, p)
         \/ HandleRequestAck(o, p)
      /\ broker' = broker
  BY DEF HandleMessage, Room, Quiet
<1>2. /\ SettledOK(c) /\ NotifyOK(c) /\ CurrentOK(c)
      /\ HandshakeOK(c, broker.conn) /\ UsableOK(c, broker.conn)
      /\ PingerOK(c)
  BY DEF ConnInv, ConnOK
<1>3. s = c.sock /\ s # NoSocket
  BY <1>1, <1>2, CurrentIs
<1>4. c.down[s] \in Seq(Packets) /\ c.down[s] # <<>>
  BY <1>1 DEF ObjectOK
<1>5. /\ d \in Seq(Packets) /\ p \in Packets /\ p = c.down[s][1]
      /\ Len(c.down[s]) \in Nat /\ Len(d) = Len(c.down[s]) - 1
      /\ \A i \in 1..Len(d) : d[i] = c.down[s][i + 1]
  BY <1>4, TailIs, SeqIs
<1>6. o = [c EXCEPT !.down[s] = d]
  OBVIOUS
<1> HIDE DEF d
<1>7. /\ ObjectOK(o) /\ o.sock = c.sock /\ o.connected = c.connected
      /\ o.connectTimer = c.connectTimer
      /\ o.reconnectTimer = c.reconnectTimer /\ o.orphans = c.orphans
      /\ o.reconnecting = c.reconnecting /\ o.notify = c.notify
      /\ o.queue = c.queue /\ o.buffered = c.buffered
      /\ o.ready = c.ready /\ o.on = c.on /\ o.link = c.link /\ o.up = c.up
      /\ o.down[s] = d /\ o.pinger = c.pinger
      /\ \A x \in Sockets : x # s => o.down[x] = c.down[x]
  <2>1. o = WithDown(c, s, d)
    BY <1>6 DEF WithDown
  <2> HIDE DEF o
  <2> QED
    BY <1>5, <2>1, DownIs DEF OnlyDown
<1> HIDE DEF o
<1>8. Free(o) # {}
  BY <1>1, <1>7 DEF Free
<1>9. SettledOK(o) /\ NotifyOK(o)
  <2>1. c.link[s] # "dead"
    BY <1>2, <1>4 DEF SettledOK
  <2> QED
    BY <1>2, <1>3, <1>7, <2>1 DEF SettledOK, NotifyOK
<1>10. c.ready[s] # "closed"
  BY <1>1, <1>2 DEF SettledOK
<1>11. CASE c.connected
  <2>1. LinkedOK(c, broker.conn) /\ ~c.notify /\ c.queue = <<>>
    BY <1>2, <1>11 DEF UsableOK
  <2>2. AreOf(d, FromBroker) /\ p.kind \in FromBroker
    BY <1>3, <1>4, <2>1, AreOfTail DEF LinkedOK, d
  <2>3. CurrentOK(o)
    BY <1>1, <1>2, <1>3, <1>7, <2>1 DEF CurrentOK, SettledOK, LinkedOK
  <2>4. Made(o, broker.conn)
    BY <1>3, <1>7, <1>9, <1>11, <2>1, <2>2, <2>3 DEF Made, LinkedOK
  <2>5. ~HandleConnack(o, p)
    BY <2>2 DEF HandleConnack, FromBroker, Announced
  <2>6. ConnOK(c', broker.conn)
    BY <1>1, <1>5, <1>8, <2>4, <2>5, HandlersConn
  <2> QED
    BY <1>1, <2>6 DEF ConnInv
<1>12. CASE ~c.connected
  <2> DEFINE x == IF o.reconnectTimer = "armed" THEN "idle"
                  ELSE o.reconnectTimer
             t == [o EXCEPT !.connectTimer = "idle", !.reconnectTimer = x]
             e == [t EXCEPT !.sent = Empty, !.received = Empty]
             u == Cleaned(t)
  <2>1. /\ AreOf(c.queue, {"DISCONNECT"})
        /\ p.kind \in {"CONNACK", "REFUSED"}
        /\ \A i \in 2..Len(c.down[s]) : c.down[s][i].kind \in Announced
        /\ p.kind = "REFUSED" =>
              Len(c.down[s]) = 1 /\ c.link[s] # "up"
        /\ c.ready[s] = "open"
    <3>1. c.ready[s] \in {"connecting", "open", "closed"}
      BY DEF ObjectOK
    <3> QED
      BY <1>2, <1>3, <1>4, <1>5, <1>10, <1>12, <3>1 DEF HandshakeOK
  <2>2. c.connectTimer # "null"
    BY <1>2, <1>3 DEF CurrentOK
  <2>3. /\ HandleConnack(o, p)
        /\ \/ p.kind = "REFUSED" /\ c' = Disconnected(u, TRUE)
           \/ \E q \in Orders(u) : p.kind = "CONNACK" /\ c' = Accepted(u, q)
    <3>1. HandleConnack(o, p)
      BY <1>1, <2>1 DEF HandlePublish, HandlePuback, HandlePubrec,
           HandlePubrel, HandlePubcomp, HandleRequestAck
    <3>2. t = [o EXCEPT !.connectTimer = "idle",
                  !.reconnectTimer = IF @ = "armed" THEN "idle" ELSE @]
      BY <1>7 DEF ObjectOK, Fields
    <3> QED
      BY <1>7, <2>1, <2>2, <3>1, <3>2 DEF HandleConnack
  <2>4. x # "armed" /\ x \in {"null", "idle"}
    BY <1>7 DEF ObjectOK
  <2> HIDE DEF x
  <2>5. /\ ObjectOK(t) /\ t.connectTimer = "idle" /\ t.reconnectTimer = x
        /\ t.sock = o.sock /\ t.connected = o.connected
        /\ t.orphans = o.orphans /\ t.reconnecting = o.reconnecting
        /\ t.notify = o.notify /\ t.queue = o.queue /\ t.buffered = o.buffered
        /\ t.ready = o.ready /\ t.on = o.on /\ t.link = o.link
        /\ t.up = o.up /\ t.down = o.down /\ t.pinger = o.pinger
    BY <1>7, <2>4 DEF ObjectOK, Fields
  <2> HIDE DEF t
  <2>6. ObjectOK(u) /\ SameConn(u, t)
    <3>1. IsMap(Empty, Nat \ {0}, Pending) /\ IsMap(Empty, Nat, 0..TopMsg)
          /\ IsFiniteSet(DOMAIN Empty)
      BY EmptyIs
    <3>2. ObjectOK(e) /\ SameConn(e, t) /\ SameConn(t, t)
      BY <2>5, <3>1 DEF ObjectOK, Fields, SameConn
    <3>3. u \in {t, e}
      BY DEF Cleaned
    <3> QED
      BY <2>5, <3>2, <3>3
  <2> HIDE DEF u
  <2>7. SettledOK(t) /\ NotifyOK(t)
    BY <1>9, <2>4, <2>5 DEF SettledOK, NotifyOK
  <2>8. CurrentOK(t)
    BY <1>1, <1>2, <1>3, <1>7, <2>4, <2>5 DEF CurrentOK, SettledOK
  <2>9. /\ SettledOK(u) /\ NotifyOK(u) /\ CurrentOK(u)
    BY <2>6, <2>7, <2>8, SameConnOK
  <2>10. Free(u) # {}
    BY <1>8, <2>5, <2>6 DEF Free, SameConn
  <2>11. /\ u.sock = s /\ u.connected = FALSE /\ u.connectTimer = "idle"
         /\ u.reconnectTimer # "armed" /\ u.reconnecting = c.reconnecting
         /\ u.notify = c.notify /\ u.queue = c.queue
         /\ u.ready = c.ready /\ u.on = c.on /\ u.link = c.link
         /\ u.up = c.up /\ u.down[s] = d /\ u.pinger = c.pinger
    <3>1. c.connected = FALSE
      BY <1>12 DEF ObjectOK
    <3> QED
      BY <1>3, <1>7, <2>4, <2>5, <2>6, <3>1 DEF SameConn
  <2>12. CASE p.kind = "REFUSED"
    <3>1. c.link[s] # "up" /\ d = <<>> /\ c' = Disconnected(u, TRUE)
      <4>1. Len(d) = 0
        BY <1>5, <2>1, <2>12
      <4>2. d = <<>>
        BY <1>5, <4>1
      <4> QED
        BY <2>1, <2>3, <2>12, <4>2
    <3>2. HandshakeOK(u, broker.conn)
      BY <2>1, <2>11, <3>1 DEF HandshakeOK
    <3>a. PingerOK(u)
      BY <1>2, <1>3, <1>4, <1>5, <2>11, <2>12, <3>1 DEF PingerOK
    <3>3. c.reconnecting => RetryOK(u)
      BY <1>2, <2>9, <2>11, <3>1, <3>2, <3>a DEF RetryOK, NotifyOK
    <3>4. ConnOK(c', broker.conn)
      BY <2>6, <2>9, <2>10, <2>11, <3>1, <3>3, DisconnectedConn
    <3> QED
      BY <1>1, <3>4 DEF ConnInv
  <2>13. CASE p.kind = "CONNACK"
    <3>1. PICK q \in Orders(u) : c' = Accepted(u, q)
      BY <2>3, <2>13
    <3>2. AreOf(d, FromBroker)
      <4>1. \A i \in 1..Len(d) : i + 1 \in 2..Len(c.down[s])
        BY <1>5
      <4>2. \A i \in 1..Len(d) : d[i].kind \in FromBroker
        BY <1>5, <2>1, <4>1 DEF FromBroker
      <4> QED
        BY <1>5, <4>2, AreOfAll
    <3>3. c.link[s] = "up" => broker.conn = s /\ c.up[s] = <<>>
      BY <1>2, <1>3, <1>4, <1>12, <2>1 DEF HandshakeOK
    <3>4. c.link[s] # "up" => c.up[s] = <<>>
      BY <1>2 DEF SettledOK
    <3>5. AreOf(c.up[s], FromClient)
      BY <3>3, <3>4, AreOfNone
    <3>6. ConnOK(c', broker.conn)
      BY <1>3, <2>1, <2>6, <2>9, <2>10, <2>11, <3>1, <3>2, <3>3, <3>5,
         AcceptedConn
    <3> QED
      BY <1>1, <3>6 DEF ConnInv
  <2> QED
    BY <2>1, <2>12, <2>13
<1> QED
  BY <1>11, <1>12

-----------------------------------------------------------------------------
(***************************************************************************)
(* The broker's side of the connection.                                    *)
(***************************************************************************)

\* A connection that ends changes its socket's link and what is on the way up.
LEMMA DropIs ==
    ASSUME NEW o, ObjectOK(o), NEW s \in Sockets \union {NoSocket}
    PROVE  LET r == Drop(o, s)
           IN  /\ r.connected = o.connected /\ r.sock = o.sock
               /\ r.queue = o.queue /\ r.connectTimer = o.connectTimer
               /\ r.reconnectTimer = o.reconnectTimer
               /\ r.reconnecting = o.reconnecting /\ r.orphans = o.orphans
               /\ r.notify = o.notify /\ r.buffered = o.buffered
               /\ r.ready = o.ready /\ r.on = o.on /\ r.down = o.down
               /\ r.sent = o.sent /\ r.pinger = o.pinger
               /\ \A x \in Sockets :
                     /\ r.link[x] = IF x = s THEN "down" ELSE o.link[x]
                     /\ r.up[x] = IF x = s THEN <<>> ELSE o.up[x]
<1>0. \A x \in Sockets : x # NoSocket
  BY ConstantsAre DEF Sockets, NoSocket
<1>1. CASE s = NoSocket
  BY <1>0, <1>1 DEF Drop
<1>2. CASE s # NoSocket
  <2>1. s \in Sockets
    BY <1>2
  <2>2. Drop(o, s) = [o EXCEPT !.link[s] = "down", !.up[s] = <<>>]
    BY <1>2 DEF Drop
  <2> QED
    BY <2>1, <2>2 DEF ObjectOK, Fields
<1> QED
  BY <1>1, <1>2

\* A connection ends, and another may take its place.
LEMMA DropConn ==
    ASSUME NEW o, NEW conn, NEW new, ObjectOK(o), ConnOK(o, conn),
           NEW s \in Sockets \union {NoSocket},
           \/ o.sock = NoSocket
           \/ new = conn
           \/ new # o.sock /\ (conn = o.sock => s = conn),
           s # o.sock \/ o.connected \/ s = conn
    PROVE  ConnOK(Drop(o, s), new)
<1> DEFINE r == Drop(o, s)
<1>1. /\ r.connected = o.connected /\ r.sock = o.sock
      /\ r.queue = o.queue /\ r.connectTimer = o.connectTimer
      /\ r.reconnectTimer = o.reconnectTimer
      /\ r.reconnecting = o.reconnecting /\ r.orphans = o.orphans
      /\ r.notify = o.notify /\ r.buffered = o.buffered
      /\ r.ready = o.ready /\ r.on = o.on /\ r.down = o.down
      /\ r.pinger = o.pinger
      /\ \A x \in Sockets :
            /\ r.link[x] = IF x = s THEN "down" ELSE o.link[x]
            /\ r.up[x] = IF x = s THEN <<>> ELSE o.up[x]
  BY DropIs
<1> HIDE DEF r
<1>2. o.sock # NoSocket => o.sock \in Sockets
  BY SocketIs
<1>3. SettledOK(r) /\ NotifyOK(r)
  BY <1>1 DEF ConnOK, SettledOK, NotifyOK
<1>4. CurrentOK(r)
  BY <1>1, <1>2 DEF ConnOK, CurrentOK
<1>5. HandshakeOK(r, new)
  BY <1>1, <1>2 DEF ConnOK, HandshakeOK
<1>6. UsableOK(r, new)
  <2>1. SUFFICES ASSUME o.connected PROVE LinkedOK(r, new) /\ ~r.notify /\ r.queue = <<>>
    BY <1>1 DEF UsableOK
  <2>2. LinkedOK(o, conn) /\ ~o.notify /\ o.queue = <<>>
    BY <2>1 DEF ConnOK, UsableOK
  <2>3. AreOf(<<>>, FromClient)
    BY AreOfNone
  <2> QED
    BY <1>1, <1>2, <2>2, <2>3 DEF LinkedOK
<1>7. PingerOK(r)
  <2>1. SUFFICES ASSUME r.sock # NoSocket, r.reconnecting,
                        r.link[r.sock] # "up", o.link[o.sock] = "up"
                 PROVE  r.down[r.sock] # <<>> /\ r.down[r.sock][1].kind = "CONNACK"
    BY <1>1 DEF ConnOK, PingerOK
  <2>2. o.sock \in Sockets /\ s = o.sock /\ ~o.connected /\ s = conn
    BY <1>1, <1>2, <2>1 DEF ConnOK, UsableOK, LinkedOK
  <2>3. o.ready[s] = "open"
    <3>1. o.ready[s] \in {"connecting", "open", "closed"}
      BY <2>2 DEF ObjectOK
    <3> QED
      BY <1>1, <2>1, <2>2, <3>1
         DEF ConnOK, SettledOK, CurrentOK, HandshakeOK
  <2> QED
    BY <1>1, <2>1, <2>2, <2>3 DEF ConnOK, HandshakeOK
<1> QED
  BY <1>3, <1>4, <1>5, <1>6, <1>7 DEF ConnOK, r

\* The broker answers on its connection.
LEMMA DeliverConn ==
    ASSUME NEW o, ObjectOK(o), NEW s \in Sockets \union {NoSocket},
           ConnOK(o, s), NEW ps \in Seq(Packets),
           AreOf(ps, Announced) \/ (o.connected /\ AreOf(ps, FromBroker))
    PROVE  ConnOK(Deliver(o, s, ps), s)
<1> DEFINE k == o.down[s] \o ps
           r == [o EXCEPT !.down[s] = k]
<1>1. Deliver(o, s, ps) = IF Works(o, s) THEN r ELSE o
  BY DEF Deliver
<1>2. SUFFICES ASSUME Works(o, s) PROVE ConnOK(r, s)
  BY <1>1
<1>3. s \in Sockets /\ o.on[s] /\ o.link[s] = "up" /\ s # NoSocket
  BY <1>2 DEF Works
<1>4. s = o.sock
  BY <1>3, CurrentIs DEF ConnOK
<1>5. o.down[s] \in Seq(Packets)
  BY <1>3 DEF ObjectOK
<1>6. /\ Len(o.down[s]) \in Nat /\ k \in Seq(Packets)
      /\ Len(k) = Len(o.down[s]) + Len(ps) /\ Len(ps) \in Nat
      /\ \A i \in 1..Len(o.down[s]) : k[i] = o.down[s][i]
      /\ \A i \in 1..Len(ps) : k[Len(o.down[s]) + i] = ps[i]
  BY <1>5, ConcatIs, SeqIs
<1>7. /\ r.connected = o.connected /\ r.sock = o.sock
      /\ r.queue = o.queue /\ r.connectTimer = o.connectTimer
      /\ r.reconnectTimer = o.reconnectTimer
      /\ r.reconnecting = o.reconnecting /\ r.orphans = o.orphans
      /\ r.notify = o.notify /\ r.buffered = o.buffered
      /\ r.ready = o.ready /\ r.on = o.on /\ r.link = o.link
      /\ r.up = o.up /\ r.down[s] = k /\ r.pinger = o.pinger
      /\ \A x \in Sockets : x # s => r.down[x] = o.down[x]
  <2>1. r = WithDown(o, s, k)
    BY DEF WithDown
  <2> HIDE DEF k, r
  <2> QED
    BY <1>3, <1>6, <2>1, DownIs DEF OnlyDown
<1> HIDE DEF k, r
<1>8. SettledOK(r) /\ NotifyOK(r)
  BY <1>3, <1>4, <1>7 DEF ConnOK, SettledOK, NotifyOK
<1>9. CurrentOK(r) /\ PingerOK(r)
  BY <1>3, <1>4, <1>7 DEF ConnOK, CurrentOK, PingerOK
<1>10. CASE o.connected
  <2>1. LinkedOK(o, s) /\ ~o.notify /\ o.queue = <<>>
    BY <1>10 DEF ConnOK, UsableOK
  <2>2. AreOf(ps, FromBroker)
    BY DEF AreOf, FromBroker
  <2>3. AreOf(k, FromBroker)
    BY <1>4, <1>5, <2>1, <2>2, AreOfConcat DEF LinkedOK, k
  <2>4. LinkedOK(r, s)
    BY <1>4, <1>7, <2>1, <2>3 DEF LinkedOK
  <2> QED
    BY <1>7, <1>8, <1>9, <1>10, <2>1, <2>4 DEF ConnOK, HandshakeOK, UsableOK
<1>11. CASE ~o.connected
  <2>1. o.ready[s] # "closed" /\ o.ready[s] \in {"connecting", "open", "closed"}
    BY <1>3 DEF ConnOK, SettledOK, ObjectOK
  <2>2. /\ o.ready[s] = "open" /\ o.up[s] = <<>>
        /\ AreOf(o.queue, {"DISCONNECT"})
        /\ o.down[s] # <<>> /\ o.down[s][1].kind = "CONNACK"
        /\ \A i \in 2..Len(o.down[s]) : o.down[s][i].kind \in Announced
    BY <1>3, <1>4, <1>11, <2>1 DEF ConnOK, HandshakeOK
  <2>3. Len(o.down[s]) > 0
    BY <1>5, <2>2, TailIs
  <2>4. k # <<>> /\ k[1].kind = "CONNACK"
    <3>1. 1 \in 1..Len(o.down[s]) /\ Len(k) > 0
      BY <1>6, <2>3
    <3>2. k # <<>>
      BY <1>6, <3>1
    <3> QED
      BY <1>6, <2>2, <3>1, <3>2
  <2>5. AreOf(ps, Announced)
    BY <1>11
  <2>6. \A i \in 1..Len(ps) : ps[i].kind \in Announced
    BY <2>5, AreOfAll
  <2>7. \A i \in 2..Len(k) : k[i].kind \in Announced
    <3>1. ASSUME NEW i \in 2..Len(k) PROVE k[i].kind \in Announced
      <4>1. CASE i <= Len(o.down[s])
        BY <1>6, <2>2, <4>1, SMTT(30)
      <4>2. CASE i > Len(o.down[s])
        <5>1. /\ i - Len(o.down[s]) \in 1..Len(ps)
              /\ Len(o.down[s]) + (i - Len(o.down[s])) = i
          BY <1>6, <4>2
        <5> QED
          BY <1>6, <2>6, <5>1
      <4> QED
        BY <1>6, <4>1, <4>2
    <3> QED
      BY <3>1
  <2>8. HandshakeOK(r, s)
    BY <1>4, <1>7, <2>2, <2>4, <2>7 DEF HandshakeOK
  <2> QED
    BY <1>7, <1>8, <1>9, <1>11, <2>8 DEF ConnOK, UsableOK
<1> QED
  BY <1>10, <1>11

\* The packet the broker takes off a socket.
LEMMA TakenUp ==
    ASSUME ObjectOK(c), ConnInv, NEW s \in Sockets, c.up[s] # <<>>
    PROVE  LET o == [c EXCEPT !.up[s] = Tail(@)]
               p == Head(c.up[s])
           IN  /\ ObjectOK(o) /\ o.sock = c.sock /\ o.on = c.on
               /\ o.connected = c.connected /\ o.link = c.link /\ p \in Packets
               /\ c.link[s] = "up" /\ (c.on[s] <=> s = c.sock)
               /\ \/ s # c.sock /\ ConnOK(o, broker.conn)
                  \/ /\ s = c.sock /\ s = broker.conn /\ c.connected
                     /\ ConnOK(o, broker.conn) /\ p.kind \in FromClient
                  \/ /\ s = c.sock /\ s # broker.conn /\ ~c.connected
                     /\ o.up[s] = <<>> /\ p.kind = "CONNECT"
                     /\ o.ready[s] = "open" /\ o.down[s] = <<>>
                     /\ AreOf(o.queue, {"DISCONNECT"})
                     /\ SettledOK(o) /\ NotifyOK(o) /\ CurrentOK(o)
                     /\ o.reconnecting = c.reconnecting
                     /\ o.pinger = c.pinger
<1> DEFINE u == Tail(c.up[s])
           p == Head(c.up[s])
           o == [c EXCEPT !.up[s] = Tail(@)]
<1>1. c.up[s] \in Seq(Packets) /\ c.up[s] # <<>>
  BY DEF ObjectOK
<1>2. /\ u \in Seq(Packets) /\ p \in Packets /\ p = c.up[s][1]
      /\ Len(c.up[s]) \in Nat /\ Len(u) = Len(c.up[s]) - 1
  BY <1>1, TailIs, SeqIs
<1>3. o = [c EXCEPT !.up[s] = u]
  OBVIOUS
<1> HIDE DEF u
<1>4. /\ ObjectOK(o) /\ o.sock = c.sock /\ o.connected = c.connected
      /\ o.connectTimer = c.connectTimer
      /\ o.reconnectTimer = c.reconnectTimer /\ o.orphans = c.orphans
      /\ o.reconnecting = c.reconnecting /\ o.notify = c.notify
      /\ o.queue = c.queue /\ o.buffered = c.buffered
      /\ o.ready = c.ready /\ o.on = c.on /\ o.link = c.link
      /\ o.down = c.down /\ o.up[s] = u /\ o.pinger = c.pinger
      /\ \A x \in Sockets : x # s => o.up[x] = c.up[x]
  <2>1. o = WithUp(c, s, u)
    BY <1>3 DEF WithUp
  <2> HIDE DEF o
  <2> QED
    BY <1>2, <2>1, UpIs
<1> HIDE DEF o
<1>5. /\ SettledOK(c) /\ NotifyOK(c) /\ CurrentOK(c)
      /\ HandshakeOK(c, broker.conn) /\ UsableOK(c, broker.conn)
  BY DEF ConnInv, ConnOK
<1>6. c.link[s] = "up" /\ s # NoSocket
  BY <1>1, <1>5, ConstantsAre DEF SettledOK, Sockets, NoSocket
<1>7. c.on[s] <=> s = c.sock
  BY <1>5, <1>6 DEF SettledOK, CurrentOK
<1>8. SettledOK(o) /\ NotifyOK(o) /\ CurrentOK(o) /\ PingerOK(o)
  <2>1. SettledOK(o)
    BY <1>4, <1>5, <1>6 DEF SettledOK
  <2> QED
    BY <1>4, <1>5, <1>6, <2>1 DEF CurrentOK, NotifyOK, PingerOK, ConnInv, ConnOK
<1>9. CASE s # c.sock
  <2>1. HandshakeOK(o, broker.conn)
    <3>1. o.sock # NoSocket => o.up[o.sock] = c.up[c.sock]
      BY <1>4, <1>9, SocketIs
    <3> QED
      BY <1>4, <1>5, <3>1 DEF HandshakeOK
  <2>2. UsableOK(o, broker.conn)
    <3>1. o.sock # NoSocket => o.up[o.sock] = c.up[c.sock]
      BY <1>4, <1>9, SocketIs
    <3> QED
      BY <1>4, <1>5, <3>1 DEF UsableOK, LinkedOK
  <2>3. ConnOK(o, broker.conn)
    BY <1>8, <2>1, <2>2 DEF ConnOK
  <2> QED
    BY <1>2, <1>4, <1>6, <1>7, <1>9, <2>3 DEF o
<1>10. CASE s = c.sock /\ c.connected
  <2>1. LinkedOK(c, broker.conn) /\ ~c.notify /\ c.queue = <<>>
    BY <1>5, <1>10 DEF UsableOK
  <2>2. AreOf(u, FromClient) /\ p.kind \in FromClient /\ broker.conn = s
    BY <1>1, <1>6, <1>10, <2>1, AreOfTail DEF LinkedOK, u
  <2>3. LinkedOK(o, broker.conn)
    BY <1>4, <1>10, <2>1, <2>2 DEF LinkedOK
  <2>4. ConnOK(o, broker.conn)
    BY <1>4, <1>8, <1>10, <2>1, <2>3 DEF ConnOK, HandshakeOK, UsableOK
  <2> QED
    BY <1>2, <1>4, <1>6, <1>7, <1>10, <2>2, <2>4 DEF o
<1>11. CASE s = c.sock /\ ~c.connected
  <2>1. c.ready[s] # "closed" /\ c.ready[s] \in {"connecting", "open", "closed"}
    BY <1>5, <1>7, <1>11 DEF SettledOK, ObjectOK
  <2>2. /\ c.ready[s] = "open" /\ c.down[s] = <<>> /\ broker.conn # s
        /\ Len(c.up[s]) = 1 /\ p.kind = "CONNECT"
        /\ AreOf(c.queue, {"DISCONNECT"})
    BY <1>1, <1>2, <1>5, <1>6, <1>11, <2>1 DEF HandshakeOK
  <2>3. u = <<>>
    <3>1. Len(u) = 0
      BY <1>2, <2>2
    <3> QED
      BY <1>2, <3>1
  <2> QED
    BY <1>2, <1>4, <1>6, <1>7, <1>8, <1>11, <2>2, <2>3 DEF o
<1> QED
  BY <1>9, <1>10, <1>11

-----------------------------------------------------------------------------
(***************************************************************************)
(* The broker's answer to CONNECT, and its step.                           *)
(***************************************************************************)

\* The object with packets on the way down a socket, which may break, and with
\* none the other way.
Answered(r, o, s, ps) ==
    /\ r.connected = o.connected /\ r.sock = o.sock
    /\ r.queue = o.queue /\ r.connectTimer = o.connectTimer
    /\ r.reconnectTimer = o.reconnectTimer
    /\ r.reconnecting = o.reconnecting /\ r.orphans = o.orphans
    /\ r.notify = o.notify /\ r.buffered = o.buffered
    /\ r.ready = o.ready /\ r.on = o.on
    /\ r.up[s] = <<>> /\ r.down[s] = ps /\ r.pinger = o.pinger
    /\ \A x \in Sockets : x # s => r.down[x] = o.down[x]
    /\ \A x \in Sockets : \/ r.link[x] = "down" /\ r.up[x] = <<>>
                          \/ /\ r.link[x] = o.link[x]
                             /\ x = s \/ r.up[x] = o.up[x]

\* The answer to a CONNECT: CONNACK and what is in flight, or a refusal and
\* the end of the connection.
LEMMA AnswerConn ==
    ASSUME NEW o, NEW s \in Sockets, NEW ps \in Seq(Packets), NEW conn,
           ObjectOK(o), SettledOK(o), NotifyOK(o), CurrentOK(o),
           s = o.sock, ~o.connected, o.ready[s] = "open", o.link[s] = "up",
           AreOf(o.queue, {"DISCONNECT"}),
           ps # <<>>, AreOf(Tail(ps), Announced),
           NEW r, Answered(r, o, s, ps),
           \/ ps[1].kind = "CONNACK" /\ conn = s
           \/ /\ ps[1].kind = "REFUSED" /\ Len(ps) = 1 /\ r.link[s] = "down"
              /\ ~o.reconnecting \/ o.pinger = "off"
    PROVE  ConnOK(r, conn)
<1>1. s # NoSocket
  BY ConstantsAre DEF Sockets, NoSocket
<1>2. o.on[s] = TRUE
  BY DEF SettledOK, ObjectOK
<1>3. SettledOK(r) /\ NotifyOK(r)
  BY DEF SettledOK, NotifyOK, Answered
<1>4. CurrentOK(r) /\ PingerOK(r)
  BY <1>1, <1>2 DEF CurrentOK, PingerOK, Answered
<1>5. \A i \in 2..Len(ps) : ps[i].kind \in Announced
  <2>1. /\ Tail(ps) \in Seq(Packets) /\ Len(ps) \in Nat
        /\ Len(Tail(ps)) = Len(ps) - 1
        /\ \A i \in 1..Len(Tail(ps)) : Tail(ps)[i] = ps[i + 1]
    BY TailIs, SeqIs
  <2>2. \A i \in 1..Len(Tail(ps)) : Tail(ps)[i].kind \in Announced
    BY <2>1, AreOfAll
  <2>3. \A i \in 2..Len(ps) : i - 1 \in 1..Len(Tail(ps)) /\ (i - 1) + 1 = i
    BY <2>1
  <2> QED
    BY <2>1, <2>2, <2>3
<1>6. HandshakeOK(r, conn)
  BY <1>1, <1>5 DEF HandshakeOK, Answered
<1> QED
  BY <1>3, <1>4, <1>6 DEF ConnOK, UsableOK, Answered

\* What the broker has in flight, sent again, is announced.
LEMMA RedeliveryIs ==
    ASSUME NEW out \in Seq(Flights)
    PROVE  LET f == [i \in DOMAIN out |-> Redelivery(out[i])]
           IN  f \in Seq(Packets) /\ AreOf(f, Announced)
<1> DEFINE f == [i \in DOMAIN out |-> Redelivery(out[i])]
<1>1. /\ Len(out) \in Nat /\ DOMAIN out = 1..Len(out)
      /\ \A i \in 1..Len(out) : out[i] \in Flights
  BY SeqIs
<1>2. \A e \in Flights : Redelivery(e) \in Packets
                         /\ Redelivery(e).kind \in Announced
  <2>1. SUFFICES ASSUME NEW e \in Flights
                 PROVE  Redelivery(e) \in Packets
                        /\ Redelivery(e).kind \in Announced
    OBVIOUS
  <2>2. e.id \in Nat /\ e.msg \in 0..TopMsg /\ e.qos \in 0..2
    BY TopIs DEF Flights
  <2>3. Redelivery(e) \in Packets
    BY <2>2, PacketIs, ControlIs DEF Redelivery, Kinds
  <2> QED
    BY <2>3 DEF Redelivery, Control, Packet, Announced
<1>3. /\ f = [i \in 1..Len(out) |-> f[i]]
      /\ \A i \in 1..Len(out) : f[i] \in Packets /\ f[i].kind \in Announced
  BY <1>1, <1>2
<1> HIDE DEF f
<1>4. f \in Seq(Packets)
  BY <1>1, <1>3, MakesSeq
<1>5. AreOf(f, Announced)
  BY <1>3 DEF AreOf
<1> QED
  BY <1>4, <1>5 DEF f

\* The broker accepts a CONNECT, and gives up an older connection.
LEMMA BrokerConnectConn ==
    ASSUME TypeInv, ConnInv, NEW s \in Sockets, c.up[s] # <<>>,
           Head(c.up[s]).kind = "CONNECT", s # broker.conn,
           NEW clean \in BOOLEAN,
           BrokerConnect([c EXCEPT !.up[s] = Tail(@)], s, clean)
    PROVE  ConnInv'
<1> DEFINE o == [c EXCEPT !.up[s] = Tail(@)]
           d == Drop(o, broker.conn)
           out == IF clean THEN <<>> ELSE broker.out
           f == [i \in DOMAIN out |-> Redelivery(out[i])]
           ps == <<Control("CONNACK", 0)>> \o f
<1>1. c' = Deliver(d, s, ps) /\ broker'.conn = s
  BY DEF BrokerConnect
<1>2. /\ ObjectOK(o) /\ o.sock = c.sock /\ o.on = c.on
      /\ o.connected = c.connected /\ o.link = c.link
      /\ c.link[s] = "up" /\ (c.on[s] <=> s = c.sock)
      /\ \/ s # c.sock /\ ConnOK(o, broker.conn)
         \/ /\ s = c.sock /\ ~c.connected
            /\ o.up[s] = <<>>
            /\ o.ready[s] = "open" /\ o.down[s] = <<>>
            /\ AreOf(o.queue, {"DISCONNECT"})
            /\ SettledOK(o) /\ NotifyOK(o) /\ CurrentOK(o)
  BY TakenUp DEF TypeInv
<1> HIDE DEF o
<1>3. broker.conn \in Sockets \union {NoSocket} /\ broker.out \in Seq(Flights)
  BY DEF TypeInv, BrokerOK
<1>4. /\ d.connected = o.connected /\ d.sock = o.sock
      /\ d.queue = o.queue /\ d.connectTimer = o.connectTimer
      /\ d.reconnectTimer = o.reconnectTimer
      /\ d.reconnecting = o.reconnecting /\ d.orphans = o.orphans
      /\ d.notify = o.notify /\ d.buffered = o.buffered
      /\ d.ready = o.ready /\ d.on = o.on /\ d.down = o.down
      /\ d.pinger = o.pinger
      /\ \A x \in Sockets :
            /\ d.link[x] = IF x = broker.conn THEN "down" ELSE o.link[x]
            /\ d.up[x] = IF x = broker.conn THEN <<>> ELSE o.up[x]
  BY <1>2, <1>3, DropIs
<1>5. ObjectOK(d)
  BY <1>2, <1>3, DropOK
<1>6. CASE s # c.sock
  <2>1. ConnOK(d, s)
    BY <1>2, <1>3, <1>6, DropConn
  <2> HIDE DEF d
  <2>2. c' = d
    BY <1>1, <1>2, <1>4, <1>6 DEF Deliver, Works
  <2> QED
    BY <1>1, <2>1, <2>2 DEF ConnInv
<1>7. CASE s = c.sock
  <2>1. f \in Seq(Packets) /\ AreOf(f, Announced)
    <3>1. out \in Seq(Flights)
      BY <1>3
    <3> HIDE DEF out
    <3> QED
      BY <3>1, RedeliveryIs
  <2>2. /\ Control("CONNACK", 0) \in Packets
        /\ Control("CONNACK", 0).kind = "CONNACK"
    BY ControlIs DEF Kinds, Control, Packet
  <2> HIDE DEF f, d
  <2> DEFINE a == Control("CONNACK", 0)
  <2> HIDE DEF a
  <2>3. /\ ps \in Seq(Packets) /\ ps # <<>> /\ ps[1] = a /\ Tail(ps) = f
    BY <2>1, <2>2 DEF a
  <2>4. ps[1].kind = "CONNACK" /\ AreOf(Tail(ps), Announced)
    BY <2>1, <2>2, <2>3 DEF a
  <2> HIDE DEF ps
  <2>5. Works(d, s)
    BY <1>2, <1>4, <1>7, ConstantsAre DEF Works, Sockets, NoSocket
  <2>6. d.down[s] \o ps = ps
    <3>1. <<>> \o ps = ps
      BY <2>3
    <3> QED
      BY <1>2, <1>4, <1>7, <3>1, ZenonT(30)
  <2>7. c' = [d EXCEPT !.down[s] = ps]
    BY <1>1, <2>5, <2>6 DEF Deliver
  <2>8. /\ c'.connected = d.connected /\ c'.sock = d.sock
        /\ c'.queue = d.queue /\ c'.connectTimer = d.connectTimer
        /\ c'.reconnectTimer = d.reconnectTimer
        /\ c'.reconnecting = d.reconnecting /\ c'.orphans = d.orphans
        /\ c'.notify = d.notify /\ c'.buffered = d.buffered
        /\ c'.ready = d.ready /\ c'.on = d.on /\ c'.pinger = d.pinger
        /\ c'.link = d.link /\ c'.up = d.up /\ c'.down[s] = ps
        /\ \A x \in Sockets : x # s => c'.down[x] = d.down[x]
    BY <1>5, <2>7 DEF ObjectOK, Fields
  <2>9. Answered(c', o, s, ps)
    BY <1>2, <1>4, <1>7, <2>8 DEF Answered
  <2>10. ConnOK(c', s)
    BY <1>2, <1>7, <2>3, <2>4, <2>9, AnswerConn
  <2> QED
    BY <1>1, <2>10 DEF ConnInv
<1> QED
  BY <1>6, <1>7

\* The broker refuses one.
LEMMA BrokerRefuseConn ==
    ASSUME TypeInv, ConnInv, NEW s \in Sockets, c.up[s] # <<>>,
           Head(c.up[s]).kind = "CONNECT", s # broker.conn,
           BrokerRefuse([c EXCEPT !.up[s] = Tail(@)], s), NoRetryFaults
    PROVE  ConnInv'
<1> DEFINE o == [c EXCEPT !.up[s] = Tail(@)]
           a == Control("REFUSED", 0)
           d == Deliver(o, s, <<a>>)
<1>1. c' = Drop(d, s) /\ broker' = broker /\ ~Retrying(s)
  BY DEF BrokerRefuse, Upset, NoRetryFaults
<1>2. /\ ObjectOK(o) /\ o.sock = c.sock /\ o.on = c.on
      /\ o.connected = c.connected /\ o.link = c.link
      /\ c.link[s] = "up" /\ (c.on[s] <=> s = c.sock)
      /\ \/ s # c.sock /\ ConnOK(o, broker.conn)
         \/ /\ s = c.sock /\ ~c.connected
            /\ o.up[s] = <<>>
            /\ o.ready[s] = "open" /\ o.down[s] = <<>>
            /\ AreOf(o.queue, {"DISCONNECT"})
            /\ SettledOK(o) /\ NotifyOK(o) /\ CurrentOK(o)
            /\ o.reconnecting = c.reconnecting /\ o.pinger = c.pinger
  BY TakenUp DEF TypeInv
<1>3. a \in Packets /\ a.kind = "REFUSED"
  BY ControlIs DEF Kinds, Control, Packet
<1> HIDE DEF o, a
<1>4. <<a>> \in Seq(Packets) /\ <<a>>[1] = a /\ Tail(<<a>>) = <<>>
      /\ Len(<<a>>) = 1 /\ <<a>> # <<>>
  BY <1>3
<1> DEFINE ps == <<a>>
<1> HIDE DEF ps
<1>5. CASE s # c.sock
  <2>1. d = o
    BY <1>2, <1>5 DEF Deliver, Works
  <2>2. ConnOK(Drop(o, s), broker.conn)
    BY <1>2, <1>5, DropConn
  <2> QED
    BY <1>1, <2>1, <2>2 DEF ConnInv
<1>6. CASE s = c.sock
  <2>1. Works(o, s)
    BY <1>2, <1>6, ConstantsAre DEF Works, Sockets, NoSocket
  <2>2. o.down[s] \o ps = ps
    <3>1. <<>> \o ps = ps
      BY <1>4 DEF ps
    <3> QED
      BY <1>2, <1>6, <3>1
  <2>3. d = [o EXCEPT !.down[s] = ps]
    BY <2>1, <2>2 DEF Deliver, ps
  <2>4. ObjectOK(d)
    BY <1>2, <1>4, DeliverOK
  <2> HIDE DEF d
  <2>5. /\ d.connected = o.connected /\ d.sock = o.sock
        /\ d.queue = o.queue /\ d.connectTimer = o.connectTimer
        /\ d.reconnectTimer = o.reconnectTimer
        /\ d.reconnecting = o.reconnecting /\ d.orphans = o.orphans
        /\ d.notify = o.notify /\ d.buffered = o.buffered
        /\ d.ready = o.ready /\ d.on = o.on
        /\ d.link = o.link /\ d.up = o.up /\ d.down[s] = ps
        /\ d.pinger = o.pinger
        /\ \A x \in Sockets : x # s => d.down[x] = o.down[x]
    BY <1>2, <2>3 DEF ObjectOK, Fields
  <2>6. /\ c'.connected = d.connected /\ c'.sock = d.sock
        /\ c'.queue = d.queue /\ c'.connectTimer = d.connectTimer
        /\ c'.reconnectTimer = d.reconnectTimer
        /\ c'.reconnecting = d.reconnecting /\ c'.orphans = d.orphans
        /\ c'.notify = d.notify /\ c'.buffered = d.buffered
        /\ c'.ready = d.ready /\ c'.on = d.on /\ c'.down = d.down
        /\ c'.pinger = d.pinger
        /\ \A x \in Sockets :
              /\ c'.link[x] = IF x = s THEN "down" ELSE d.link[x]
              /\ c'.up[x] = IF x = s THEN <<>> ELSE d.up[x]
    BY <1>1, <2>4, DropIs
  <2>7. AreOf(Tail(ps), Announced)
    BY <1>4, AreOfNone DEF ps
  <2>8. Answered(c', o, s, ps) /\ c'.link[s] = "down"
    BY <1>2, <1>6, <2>5, <2>6 DEF Answered
  <2>9. ps \in Seq(Packets) /\ ps # <<>> /\ ps[1].kind = "REFUSED" /\ Len(ps) = 1
    BY <1>3, <1>4 DEF ps
  <2>a. ~o.reconnecting \/ o.pinger = "off"
    BY <1>1, <1>2, <1>6 DEF Retrying
  <2>10. ConnOK(c', broker.conn)
    BY <1>2, <1>6, <2>a, <2>7, <2>8, <2>9, AnswerConn
  <2> QED
    BY <1>1, <2>10 DEF ConnInv
<1> QED
  BY <1>5, <1>6

\* The broker takes any packet.
LEMMA BrokerReceiveConn ==
    ASSUME TypeInv, ConnInv, NEW s \in Sockets, BrokerReceive(s),
           NoRetryFaults
    PROVE  ConnInv'
<1> DEFINE o == [c EXCEPT !.up[s] = Tail(@)]
           p == Head(c.up[s])
<1>1. c.up[s] # <<>>
  BY DEF BrokerReceive
<1>2. CASE p.kind = "CONNECT" /\ s # broker.conn
  <2>1. BrokerConnect(o, s, p.id = 1) \/ BrokerRefuse(o, s)
    BY <1>2 DEF BrokerReceive
  <2>2. (p.id = 1) \in BOOLEAN
    OBVIOUS
  <2> QED
    BY <1>1, <1>2, <2>1, <2>2, BrokerConnectConn, BrokerRefuseConn
<1>3. CASE ~(p.kind = "CONNECT" /\ s # broker.conn)
  <2>1. BrokerRejects(o, s) \/ (BrokerAnswers(o, s, p) /\ s = broker.conn)
    BY <1>3 DEF BrokerReceive
  <2>2. /\ ObjectOK(o) /\ o.sock = c.sock /\ o.connected = c.connected
        /\ p \in Packets /\ ConnOK(o, broker.conn)
        /\ o.on = c.on /\ (c.on[s] <=> s = c.sock)
        /\ s = c.sock => s = broker.conn /\ c.connected
    BY <1>1, <1>3, TakenUp DEF TypeInv
  <2> HIDE DEF o, p
  <2>3. s \in Sockets \union {NoSocket} /\ s # NoSocket
    BY ConstantsAre DEF Sockets, NoSocket
  <2>4. CASE BrokerRejects(o, s)
    <3>1. c' = Drop(o, s)
          /\ broker'.conn = IF broker.conn = s THEN NoSocket ELSE broker.conn
      BY <2>4 DEF BrokerRejects, TypeInv, BrokerOK
    <3>2. ConnOK(Drop(o, s), broker'.conn)
      BY <2>2, <2>3, <3>1, DropConn
    <3> QED
      BY <3>1, <3>2 DEF ConnInv
  <2>5. CASE BrokerAnswers(o, s, p) /\ s = broker.conn
    <3>1. \/ c' = o /\ broker'.conn = broker.conn
          \/ \E k \in {"PUBACK", "PUBREC", "PUBCOMP", "REQUESTACK", "PUBREL"} :
                /\ c' = Deliver(o, s, <<Control(k, p.id)>>)
                /\ broker'.conn = broker.conn
          \/ c' = Drop(o, s) /\ broker'.conn = NoSocket
      BY <2>5 DEF BrokerAnswers, TypeInv, BrokerOK
    <3>2. CASE \E k \in {"PUBACK", "PUBREC", "PUBCOMP", "REQUESTACK", "PUBREL"} :
                /\ c' = Deliver(o, s, <<Control(k, p.id)>>)
                /\ broker'.conn = broker.conn
      <4>1. PICK k \in {"PUBACK", "PUBREC", "PUBCOMP", "REQUESTACK", "PUBREL"} :
                /\ c' = Deliver(o, s, <<Control(k, p.id)>>)
                /\ broker'.conn = broker.conn
        BY <3>2
      <4> DEFINE a == Control(k, p.id)
      <4>2. a \in Packets /\ a.kind = k /\ k \in FromBroker
        <5>1. p.id \in Nat /\ k \in Kinds
          BY <2>2 DEF Packets, Kinds
        <5>2. a \in Packets
          BY <5>1, ControlIs
        <5> QED
          BY <5>2 DEF Control, Packet, FromBroker, Announced
      <4> HIDE DEF a
      <4>3. <<a>> \in Seq(Packets) /\ AreOf(<<a>>, FromBroker)
        BY <4>2, AreOfOne
      <4>4. CASE s = c.sock
        <5>1. ConnOK(Deliver(o, s, <<a>>), s)
          BY <2>2, <2>3, <2>5, <4>3, <4>4, DeliverConn
        <5> QED
          BY <2>5, <4>1, <5>1 DEF ConnInv, a
      <4>5. CASE s # c.sock
        <5>1. Deliver(o, s, <<a>>) = o
          BY <2>2, <4>5 DEF Deliver, Works
        <5> QED
          BY <2>2, <4>1, <5>1 DEF ConnInv, a
      <4> QED
        BY <4>4, <4>5
    <3>3. CASE c' = Drop(o, s) /\ broker'.conn = NoSocket
      <4>1. ConnOK(Drop(o, s), NoSocket)
        BY <2>2, <2>3, <2>5, DropConn
      <4> QED
        BY <3>3, <4>1 DEF ConnInv
    <3> QED
      BY <2>2, <3>1, <3>2, <3>3 DEF ConnInv
  <2> QED
    BY <2>1, <2>4, <2>5
<1> QED
  BY <1>2, <1>3

-----------------------------------------------------------------------------
(***************************************************************************)
(* The faults, a restart, and the theorem.                                 *)
(***************************************************************************)

\* The broker sees that its connection is gone.
LEMMA SeesEndConn ==
    ASSUME TypeInv, ConnInv, BrokerSeesEnd
    PROVE  ConnInv'
<1>1. /\ c' = c /\ broker'.conn = NoSocket
      /\ c.ready[broker.conn] = "closed" \/ c.link[broker.conn] # "up"
  BY DEF BrokerSeesEnd, TypeInv, BrokerOK
<1>2. HandshakeOK(c, NoSocket)
  BY <1>1 DEF ConnInv, ConnOK, HandshakeOK
<1>3. UsableOK(c, NoSocket)
  BY <1>1 DEF ConnInv, ConnOK, UsableOK, LinkedOK
<1> QED
  BY <1>1, <1>2, <1>3 DEF ConnInv, ConnOK

\* A message of the broker's.
LEMMA PublishConn ==
    ASSUME Typed, ConnInv, NEW q \in 0..2, BrokerPublish(q)
    PROVE  ConnInv'
<1> DEFINE id == IF q = 0 THEN 0
                 ELSE Min((1..InMsgs) \ {broker.out[i].id : i \in DOMAIN broker.out})
<1>1. PICK m \in 1..InMsgs :
        /\ inQos[m] = Unsent
        /\ c' = Deliver(c, broker.conn, <<Packet("PUBLISH", id, m, q)>>)
        /\ broker'.conn = broker.conn
  BY DEF BrokerPublish, Typed, TypeInv, BrokerOK
<1>2. id \in Nat
  <2> DEFINE T == (1..InMsgs) \ {broker.out[i].id : i \in DOMAIN broker.out}
  <2>1. T # {} /\ T \in SUBSET Nat
    BY <1>1, UnusedId
  <2>2. Min(T) \in T
    BY <2>1, MinIs
  <2> QED
    BY <2>1, <2>2
<1> HIDE DEF id
<1> DEFINE p == Packet("PUBLISH", id, m, q)
<1>3. p \in Packets /\ p.kind \in Announced
  <2>1. m \in 0..TopMsg
    BY TopIs
  <2>2. p \in Packets
    BY <1>2, <2>1, PacketIs DEF Kinds
  <2> QED
    BY <2>2 DEF Packet, Announced
<1> HIDE DEF p
<1>4. <<p>> \in Seq(Packets) /\ AreOf(<<p>>, Announced)
  BY <1>3, AreOfOne
<1>5. broker.conn \in Sockets \union {NoSocket} /\ ObjectOK(c)
  BY DEF Typed, TypeInv, BrokerOK
<1>6. ConnOK(Deliver(c, broker.conn, <<p>>), broker.conn)
  BY <1>4, <1>5, DeliverConn DEF ConnInv
<1> QED
  BY <1>1, <1>6 DEF ConnInv, p, id

\* A connection that breaks, or goes silent.
LEMMA LoseConn ==
    ASSUME ObjectOK(c), ConnInv, NEW s \in Sockets, Break(s) \/ Silence(s),
           NoRetryFaults
    PROVE  ConnInv'
<1>1. PICK l \in {"down", "dead"} : Lose(s, l) /\ ~Retrying(s)
  BY DEF Break, Silence, Upset, NoRetryFaults
<1>2. /\ c.on[s] /\ c.link[s] = "up" /\ s # NoSocket
      /\ c' = [c EXCEPT !.link[s] = l, !.up[s] = <<>>, !.down[s] = <<>>]
      /\ broker' = broker
  BY <1>1 DEF Lose, Works
<1>3. SettledOK(c) /\ NotifyOK(c) /\ CurrentOK(c)
      /\ HandshakeOK(c, broker.conn) /\ UsableOK(c, broker.conn)
      /\ PingerOK(c)
  BY DEF ConnInv, ConnOK
<1>4. s = c.sock
  BY <1>2, <1>3, CurrentIs
<1>5. /\ c'.connected = c.connected /\ c'.sock = c.sock
      /\ c'.queue = c.queue /\ c'.connectTimer = c.connectTimer
      /\ c'.reconnectTimer = c.reconnectTimer
      /\ c'.reconnecting = c.reconnecting /\ c'.orphans = c.orphans
      /\ c'.notify = c.notify /\ c'.buffered = c.buffered
      /\ c'.ready = c.ready /\ c'.on = c.on /\ c'.pinger = c.pinger
      /\ c'.link[s] = l /\ c'.up[s] = <<>> /\ c'.down[s] = <<>>
      /\ \A x \in Sockets : x # s =>
            /\ c'.link[x] = c.link[x] /\ c'.up[x] = c.up[x]
            /\ c'.down[x] = c.down[x]
  BY <1>2 DEF ObjectOK, Fields
<1>6. SettledOK(c') /\ NotifyOK(c')
  BY <1>3, <1>4, <1>5 DEF SettledOK, NotifyOK
<1>7. CurrentOK(c') /\ PingerOK(c')
  BY <1>1, <1>3, <1>4, <1>5 DEF CurrentOK, PingerOK, Retrying
<1>8. HandshakeOK(c', broker.conn)
  BY <1>3, <1>4, <1>5 DEF HandshakeOK
<1>9. UsableOK(c', broker.conn)
  <2>1. AreOf(<<>>, FromClient) /\ AreOf(<<>>, FromBroker)
    BY AreOfNone
  <2>2. c.connected => LinkedOK(c', broker.conn)
    BY <1>3, <1>4, <1>5, <2>1 DEF UsableOK, LinkedOK
  <2> QED
    BY <1>3, <1>5, <2>2 DEF UsableOK
<1> QED
  BY <1>2, <1>6, <1>7, <1>8, <1>9 DEF ConnInv, ConnOK

\* Silence that ends.
LEMMA SilenceEndsConn ==
    ASSUME ObjectOK(c), ConnInv, NEW s \in Sockets, SilenceEnds(s)
    PROVE  ConnInv'
<1>1. /\ c.on[s] /\ c.link[s] = "dead" /\ c' = [c EXCEPT !.link[s] = "down"]
      /\ broker' = broker
  BY DEF SilenceEnds
<1>2. /\ c'.connected = c.connected /\ c'.sock = c.sock
      /\ c'.queue = c.queue /\ c'.connectTimer = c.connectTimer
      /\ c'.reconnectTimer = c.reconnectTimer
      /\ c'.reconnecting = c.reconnecting /\ c'.orphans = c.orphans
      /\ c'.notify = c.notify /\ c'.buffered = c.buffered
      /\ c'.ready = c.ready /\ c'.on = c.on /\ c'.up = c.up /\ c'.down = c.down
      /\ c'.link[s] = "down" /\ c'.pinger = c.pinger
      /\ \A x \in Sockets : x # s => c'.link[x] = c.link[x]
  BY <1>1 DEF ObjectOK, Fields
<1>3. SettledOK(c)
  BY DEF ConnInv, ConnOK
<1>4. \A x \in Sockets : c'.link[x] = "up" <=> c.link[x] = "up"
  BY <1>1, <1>2
<1>5. \A x \in Sockets : c'.link[x] = "dead" => c.link[x] = "dead"
  BY <1>2
<1>6. c.sock # NoSocket => c.sock \in Sockets
  BY SocketIs
<1>7. SettledOK(c') /\ NotifyOK(c')
  BY <1>2, <1>4, <1>5 DEF ConnInv, ConnOK, SettledOK, NotifyOK
<1>8. CurrentOK(c') /\ PingerOK(c')
  BY <1>2, <1>4, <1>5, <1>6 DEF ConnInv, ConnOK, CurrentOK, PingerOK
<1>9. HandshakeOK(c', broker.conn)
  BY <1>2, <1>4, <1>6 DEF ConnInv, ConnOK, HandshakeOK
<1>10. UsableOK(c', broker.conn)
  BY <1>2, <1>4, <1>6 DEF ConnInv, ConnOK, UsableOK, LinkedOK
<1> QED
  BY <1>1, <1>7, <1>8, <1>9, <1>10 DEF ConnInv, ConnOK

\* A page that opens has no connection yet.
LEMMA NewClientConn ==
    ASSUME NEW saved, NEW clean, NEW conn
    PROVE  ConnOK(NewClient(saved, clean), conn)
<1> DEFINE n == NewClient(saved, clean)
<1>1. /\ n.connected = FALSE /\ n.sock = NoSocket /\ n.queue = <<>>
      /\ n.connectTimer = "null" /\ n.reconnectTimer = "null"
      /\ n.reconnecting = FALSE /\ n.orphans = 0 /\ n.notify = FALSE
      /\ n.buffered = <<>>
      /\ \A s \in Sockets : /\ n.ready[s] = "closed" /\ n.on[s] = FALSE
                            /\ n.link[s] = "down" /\ n.up[s] = <<>>
                            /\ n.down[s] = <<>>
  BY DEF NewClient
<1> HIDE DEF n
<1>2. SettledOK(n) /\ NotifyOK(n)
  BY <1>1 DEF SettledOK, NotifyOK
<1>3. AreOf(n.queue, {"DISCONNECT"})
  BY <1>1, AreOfNone
<1>4. ConnOK(n, conn)
  BY <1>1, <1>2, <1>3, ParkedConn
<1> QED
  BY <1>4 DEF n

\* The types and counts always hold.
LEMMA TypedCorrect == Spec => []Typed
<1>1. Init => Typed
  BY TypedInit
<1>2. Typed /\ [Next]_vars => Typed'
  BY TypedNext
<1> QED
  BY <1>1, <1>2, PTL DEF Spec

\* The start.
LEMMA ConnInit == Init => ConnInv
BY NewClientConn DEF Init, ConnInv

\* Every step.
LEMMA ConnNext ==
    ASSUME Typed, ConnInv, [Next]_vars, NoRetryFaults
    PROVE  ConnInv'
<1>1. TypeInv /\ ObjectOK(c)
  BY DEF Typed, TypeInv
<1>2. CASE AppConnect \/ AppRequest \/ AppDisconnect
  BY <1>1, <1>2, AppConnectConn, RequestConn, AppDisconnectConn
<1>3. ASSUME NEW q \in Qualities, AppSend(q) \/ BrokerPublish(q)
      PROVE  ConnInv'
  <2>1. q \in 0..2
    BY ConstantsAre
  <2> QED
    BY <1>1, <1>3, <2>1, AppSendConn, PublishConn
<1>4. ASSUME NEW s \in Sockets,
             \/ SocketOpen(s) \/ SocketClosed(s) \/ HandleMessage(s)
             \/ BrokerReceive(s) \/ Break(s) \/ Silence(s) \/ SilenceEnds(s)
      PROVE  ConnInv'
  BY <1>1, <1>4, SocketOpenConn, SocketClosedConn, HandleMessageConn,
     BrokerReceiveConn, LoseConn, SilenceEndsConn
<1>5. CASE Timer \/ BrokerSeesEnd \/ SlowConnect
  BY <1>1, <1>5, ConnectTimeoutConn, ReconnectTimeoutConn, DoPingConn,
     SeesEndConn DEF Timer
<1>6. CASE Crash
  BY <1>6, NewClientConn DEF Crash, ConnInv
<1>7. CASE UNCHANGED vars
  BY <1>7 DEF vars, ConnInv
<1> QED
  BY <1>2, <1>3, <1>4, <1>5, <1>6, <1>7 DEF Next, SocketEvent

\* The connection is always in order.
LEMMA ConnCorrect ==
    ASSUME NoRetryFaults
    PROVE  Spec => []ConnInv
<1>1. Init => ConnInv
  BY ConnInit
<1>2. Typed /\ ConnInv /\ [Next]_vars => ConnInv'
  BY ConnNext
<1> QED
  BY <1>1, <1>2, TypedCorrect, PTL DEF Spec

\* A client that says it is connected has an open socket whose handlers are
\* on, for any number of messages, sockets and upsets, as long as no attempt to
\* retry fails after sending its CONNECT or outlasts its connect timeout: then
\* the pinger and the connect timeout set a reconnect timer each, and the second
\* one starts a socket beside the first (mqttws31.js:774-790, 1751-1760).
THEOREM Usable ==
    ASSUME NoRetryFaults
    PROVE  Spec => []ConnectedUsable
<1>1. TypeInv /\ ConnInv => ConnectedUsable
  BY SocketIs
     DEF TypeInv, ConnInv, ConnOK, UsableOK, LinkedOK, SettledOK, ConnectedUsable
<1>2. Typed => TypeInv
  BY DEF Typed
<1> QED
  BY <1>1, <1>2, TypedCorrect, ConnCorrect, PTL

=============================================================================
