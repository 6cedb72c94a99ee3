----------------------------- MODULE MqttSessionProofs -----------------------------
(***************************************************************************)
(* The client's messages in flight, for any number of messages, sockets    *)
(* and faults. If connections are usable, what is in localStorage is what  *)
(* is in memory, which takes that an answer finds the message it settles:  *)
(* one packet at most is under way for each identifier. The last part is   *)
(* about the broker and the network: what they do leaves the client's      *)
(* messages such that the broker may take what it has still to read. Most  *)
(* steps leave no more to come than there was before, and one lemma        *)
(* (EasedSend) covers them; each of the others has its own.                *)
(***************************************************************************)
EXTENDS MqttProofs

-----------------------------------------------------------------------------
(***************************************************************************)
(* What is in flight. The tokens on the way, each way, under every change  *)
(* the model makes to them.                                                *)
(***************************************************************************)

\* The tokens of a sequence, P of them counted, when its head is taken off.
LEMMA HeadTaken ==
    ASSUME NEW ps \in Seq(Packets), ps # <<>>, NEW P, NEW f,
           Lone(ps, P), FitAll(ps, P, f)
    PROVE  /\ Lone(Tail(ps), P) /\ FitAll(Tail(ps), P, f)
           /\ IdsOf(Tail(ps), P) \subseteq IdsOf(ps, P)
           /\ Head(ps) \in P =>
                 /\ Head(ps).id \in DOMAIN f
                 /\ Fits(Head(ps), f[Head(ps).id])
                 /\ Head(ps).id \in IdsOf(ps, P)
                 /\ Head(ps).id \notin IdsOf(Tail(ps), P)
<1> DEFINE t == Tail(ps)
<1>1. /\ Head(ps) = ps[1] /\ t \in Seq(Packets) /\ Len(ps) > 0
      /\ Len(t) = Len(ps) - 1 /\ \A i \in 1..Len(t) : t[i] = ps[i + 1]
  BY TailIs
<1>2. /\ Len(ps) \in Nat /\ DOMAIN ps = 1..Len(ps) /\ Len(t) \in Nat
      /\ DOMAIN t = 1..Len(t)
  BY <1>1, SeqIs
<1> HIDE DEF t
<1>3. \A i \in DOMAIN t : i \in Nat \ {0} /\ i + 1 \in DOMAIN ps /\ t[i] = ps[i + 1]
  BY <1>1, <1>2
<1>4. Lone(t, P)
  BY <1>3 DEF Lone
<1>5. FitAll(t, P, f)
  BY <1>3 DEF FitAll
<1>6. IdsOf(t, P) \subseteq IdsOf(ps, P)
  BY <1>3 DEF IdsOf
<1>7. ASSUME Head(ps) \in P
      PROVE  /\ Head(ps).id \in DOMAIN f /\ Fits(Head(ps), f[Head(ps).id])
             /\ Head(ps).id \in IdsOf(ps, P) /\ Head(ps).id \notin IdsOf(t, P)
  <2>1. 1 \in DOMAIN ps /\ ps[1] \in P
    BY <1>1, <1>2, <1>7
  <2>2. Head(ps).id \in DOMAIN f /\ Fits(Head(ps), f[Head(ps).id])
    BY <1>1, <2>1 DEF FitAll
  <2>3. Head(ps).id \in IdsOf(ps, P)
    BY <1>1, <2>1 DEF IdsOf
  <2>4. \A i \in DOMAIN t : t[i] \in P => t[i].id # ps[1].id
    <3> SUFFICES ASSUME NEW i \in DOMAIN t, t[i] \in P, t[i].id = ps[1].id
                 PROVE  FALSE
      OBVIOUS
    <3>1. i + 1 = 1
      BY <1>3, <2>1 DEF Lone
    <3> QED
      BY <1>3, <3>1
  <2> QED
    BY <1>1, <2>2, <2>3, <2>4 DEF IdsOf
<1> QED
  BY <1>4, <1>5, <1>6, <1>7 DEF t

\* And when a packet is put behind it.
LEMMA PacketPut ==
    ASSUME NEW ps \in Seq(Packets), NEW p \in Packets, NEW P, NEW f,
           Lone(ps, P), FitAll(ps, P, f),
           p \in P => /\ p.id \notin IdsOf(ps, P)
                      /\ p.id \in DOMAIN f /\ Fits(p, f[p.id])
    PROVE  /\ Lone(Append(ps, p), P) /\ FitAll(Append(ps, p), P, f)
           /\ IdsOf(Append(ps, p), P) \subseteq IdsOf(ps, P) \union {p.id}
           /\ p \notin P => IdsOf(Append(ps, p), P) \subseteq IdsOf(ps, P)
<1> DEFINE t == Append(ps, p)
           n == Len(ps) + 1
<1>1. /\ t \in Seq(Packets) /\ Len(t) = n /\ t[n] = p
      /\ \A i \in 1..Len(ps) : t[i] = ps[i]
  OBVIOUS
<1>2. Len(ps) \in Nat /\ DOMAIN ps = 1..Len(ps) /\ DOMAIN t = 1..Len(t)
  BY <1>1, SeqIs
<1> HIDE DEF t
<1>3. \A i \in DOMAIN t : (i \in DOMAIN ps /\ t[i] = ps[i]) \/ (i = n /\ t[i] = p)
  BY <1>1, <1>2
<1> HIDE DEF n
<1>4. \A i \in DOMAIN ps : ps[i] \in P => ps[i].id \in IdsOf(ps, P)
  BY DEF IdsOf
<1>5. Lone(t, P)
  BY <1>3, <1>4 DEF Lone
<1>6. FitAll(t, P, f)
  BY <1>3 DEF FitAll
<1>7. \A i \in DOMAIN t :
         t[i] \in P => t[i].id \in IdsOf(ps, P) \/ (p \in P /\ t[i].id = p.id)
  BY <1>3, <1>4
<1>8. \A x \in IdsOf(t, P) : x \in IdsOf(ps, P) \/ (p \in P /\ x = p.id)
  BY <1>7 DEF IdsOf
<1> QED
  BY <1>5, <1>6, <1>8 DEF t

\* And when there is none.
LEMMA NoneThere ==
    ASSUME NEW ps, NEW P, \A i \in DOMAIN ps : ps[i] \notin P, NEW f
    PROVE  Lone(ps, P) /\ FitAll(ps, P, f) /\ IdsOf(ps, P) = {}
BY DEF Lone, FitAll, IdsOf

\* Tokens fit messages that stay as they are.
LEMMA SameFits ==
    ASSUME NEW ps, NEW P, NEW f, NEW g, FitAll(ps, P, f),
           \A i \in IdsOf(ps, P) : i \in DOMAIN f => i \in DOMAIN g /\ g[i] = f[i]
    PROVE  FitAll(ps, P, g)
BY DEF FitAll, IdsOf

-----------------------------------------------------------------------------
\* The tokens both ways.
LEMMA AskTaken ==
    ASSUME NEW u \in Seq(Packets), NEW d, NEW f, TokensOK(u, d, f), u # <<>>
    PROVE  /\ TokensOK(Tail(u), d, f)
           /\ Head(u) \in Asks =>
                 /\ Head(u).id \in DOMAIN f /\ Fits(Head(u), f[Head(u).id])
                 /\ Head(u).id \notin IdsOf(Tail(u), Asks)
                 /\ Head(u).id \notin IdsOf(d, Answers)
<1>1. Lone(u, Asks) /\ FitAll(u, Asks, f)
  BY DEF TokensOK
<1>2. /\ Lone(Tail(u), Asks) /\ FitAll(Tail(u), Asks, f)
      /\ IdsOf(Tail(u), Asks) \subseteq IdsOf(u, Asks)
      /\ Head(u) \in Asks =>
            /\ Head(u).id \in DOMAIN f /\ Fits(Head(u), f[Head(u).id])
            /\ Head(u).id \in IdsOf(u, Asks)
            /\ Head(u).id \notin IdsOf(Tail(u), Asks)
  BY <1>1, HeadTaken
<1> QED
  BY <1>2 DEF TokensOK

\* Without the first of those on the way down.
LEMMA AnswerTaken ==
    ASSUME NEW u, NEW d \in Seq(Packets), NEW f, TokensOK(u, d, f), d # <<>>
    PROVE  /\ TokensOK(u, Tail(d), f)
           /\ Head(d) \in Answers =>
                 /\ Head(d).id \in DOMAIN f /\ Fits(Head(d), f[Head(d).id])
                 /\ Head(d).id \notin IdsOf(Tail(d), Answers)
                 /\ Head(d).id \notin IdsOf(u, Asks)
<1>1. Lone(d, Answers) /\ FitAll(d, Answers, f)
  BY DEF TokensOK
<1>2. /\ Lone(Tail(d), Answers) /\ FitAll(Tail(d), Answers, f)
      /\ IdsOf(Tail(d), Answers) \subseteq IdsOf(d, Answers)
      /\ Head(d) \in Answers =>
            /\ Head(d).id \in DOMAIN f /\ Fits(Head(d), f[Head(d).id])
            /\ Head(d).id \in IdsOf(d, Answers)
            /\ Head(d).id \notin IdsOf(Tail(d), Answers)
  BY <1>1, HeadTaken
<1> QED
  BY <1>2 DEF TokensOK

\* A packet that may join those under way: no token, or the one of an
\* identifier that has none.
Joins(p, u, d, f, P) ==
    p \in P => /\ p.id \in DOMAIN f /\ Fits(p, f[p.id])
               /\ p.id \notin IdsOf(u, Asks) /\ p.id \notin IdsOf(d, Answers)

\* Such a packet put on the way up.
LEMMA AskPut ==
    ASSUME NEW u \in Seq(Packets), NEW d, NEW f, TokensOK(u, d, f),
           NEW p \in Packets, Joins(p, u, d, f, Asks)
    PROVE  TokensOK(Append(u, p), d, f)
<1>1. Lone(u, Asks) /\ FitAll(u, Asks, f)
  BY DEF TokensOK
<1>2. p \in Asks => /\ p.id \notin IdsOf(u, Asks)
                    /\ p.id \in DOMAIN f /\ Fits(p, f[p.id])
  BY DEF Joins
<1>3. /\ Lone(Append(u, p), Asks) /\ FitAll(Append(u, p), Asks, f)
      /\ IdsOf(Append(u, p), Asks) \subseteq IdsOf(u, Asks) \union {p.id}
      /\ p \notin Asks => IdsOf(Append(u, p), Asks) \subseteq IdsOf(u, Asks)
  BY <1>1, <1>2, PacketPut
<1>4. IdsOf(Append(u, p), Asks) \cap IdsOf(d, Answers) = {}
  BY <1>3 DEF TokensOK, Joins
<1> QED
  BY <1>3, <1>4 DEF TokensOK

\* Such a packet put on the way down.
LEMMA AnswerPut ==
    ASSUME NEW u, NEW d \in Seq(Packets), NEW f, TokensOK(u, d, f),
           NEW p \in Packets, Joins(p, u, d, f, Answers)
    PROVE  TokensOK(u, Append(d, p), f)
<1>1. Lone(d, Answers) /\ FitAll(d, Answers, f)
  BY DEF TokensOK
<1>2. p \in Answers => /\ p.id \notin IdsOf(d, Answers)
                       /\ p.id \in DOMAIN f /\ Fits(p, f[p.id])
  BY DEF Joins
<1>3. /\ Lone(Append(d, p), Answers) /\ FitAll(Append(d, p), Answers, f)
      /\ IdsOf(Append(d, p), Answers) \subseteq IdsOf(d, Answers) \union {p.id}
      /\ p \notin Answers =>
            IdsOf(Append(d, p), Answers) \subseteq IdsOf(d, Answers)
  BY <1>1, <1>2, PacketPut
<1>4. IdsOf(u, Asks) \cap IdsOf(Append(d, p), Answers) = {}
  BY <1>3 DEF TokensOK, Joins
<1> QED
  BY <1>3, <1>4 DEF TokensOK

\* The messages that await an acknowledgement change, and none of a token.
LEMMA OthersChange ==
    ASSUME NEW u, NEW d, NEW f, NEW g, TokensOK(u, d, f),
           \A i \in DOMAIN f :
              i \in IdsOf(u, Asks) \union IdsOf(d, Answers) =>
                 i \in DOMAIN g /\ g[i] = f[i]
    PROVE  TokensOK(u, d, g)
<1>1. FitAll(u, Asks, g) /\ FitAll(d, Answers, g)
  BY SameFits DEF TokensOK
<1> QED
  BY <1>1 DEF TokensOK

\* With nothing on the way down that answers.
LEMMA NoAnswers ==
    ASSUME NEW u, NEW d, NEW f, Lone(u, Asks), FitAll(u, Asks, f),
           \A i \in DOMAIN d : d[i] \notin Answers
    PROVE  TokensOK(u, d, f)
BY NoneThere DEF TokensOK

-----------------------------------------------------------------------------
(***************************************************************************)
(* A packet that is sent on a connection that is made.                     *)
(***************************************************************************)

\* An identifier in use fits in two bytes.
LEMMA IdsAre ==
    ASSUME Typed, IdsFit, NEW i, i \in DOMAIN c.sent \union DOMAIN store.sent
    PROVE  i \in Nat \ {0} /\ i < WireIds
<1>1. /\ OutMsgs \in Nat /\ MaxUpsets \in Nat /\ WireIds \in Nat
      /\ upsets \in 0..MaxUpsets
  BY ConstantsAre DEF Typed, TypeInv
<1>2. Cardinality(Tried) \in Nat /\ Cardinality(Tried) <= OutMsgs
  BY TriedIs
<1>3. i \in 1..(1 + Tries)
  BY DEF Typed, CountInv
<1> QED
  BY <1>1, <1>2, <1>3 DEF Tries, IdsFit

\* _disconnected leaves no connection.
LEMMA DisconnectedOff ==
    ASSUME NEW o, ObjectOK(o), NEW failed \in BOOLEAN,
           failed => ~o.connected \/ ~o.reconnecting
    PROVE  Disconnected(o, failed).connected = FALSE
<1>1. ObjectOK(Detach(o)) /\ Detach(o).connected = o.connected
  <2>1. DOMAIN o = Fields
    BY DEF ObjectOK
  <2>2. Detach(o).connected = o.connected
    BY <2>1 DEF Detach, Fields
  <2> QED
    BY <2>2, DetachOK
<1> DEFINE d == Detach(o)
<1>2. DOMAIN d = Fields /\ "connected" \in DOMAIN d /\ DOMAIN o = Fields
  BY <1>1 DEF ObjectOK, Fields
<1>3. d.connected = o.connected
  BY <1>1
<1> HIDE DEF d
<1>4. /\ DoConnect([d EXCEPT !.version = 3]).connected = FALSE
      /\ Reconnect([d EXCEPT !.connected = FALSE]).connected = FALSE
      /\ [d EXCEPT !.connected = FALSE].connected = FALSE
  BY <1>2 DEF DoConnect, Reconnect, Fields
<1>5. RetryLater(o).connected = o.connected
  BY <1>2 DEF RetryLater, Fields
<1>6. o.connected \in BOOLEAN /\ o.reconnecting \in BOOLEAN
  BY DEF ObjectOK
<1>7. CASE failed /\ o.reconnecting
  BY <1>5, <1>6, <1>7 DEF Disconnected
<1>8. CASE ~(failed /\ o.reconnecting)
  BY <1>3, <1>4, <1>6, <1>8 DEF Disconnected, d
<1> QED
  BY <1>7, <1>8

-----------------------------------------------------------------------------
\* A packet goes out on a connection that is made.
LEMMA OneEncoded ==
    ASSUME NEW p \in Packets
    PROVE  /\ Encoded(<<p>>) = <<[p EXCEPT !.id = @ % WireIds]>>
           /\ [p EXCEPT !.id = @ % WireIds] \in Packets
           /\ [p EXCEPT !.id = @ % WireIds] \in Asks <=> p \in Asks
           /\ p.id < WireIds => [p EXCEPT !.id = @ % WireIds] = p
<1> DEFINE q == [p EXCEPT !.id = @ % WireIds]
<1>1. <<p>> \in Seq(Packets) /\ Len(<<p>>) = 1 /\ <<p>>[1] = p
  OBVIOUS
<1>2. /\ Encoded(<<p>>) \in Seq(Packets) /\ Len(Encoded(<<p>>)) = 1
      /\ Encoded(<<p>>)[1] = q
  <2> DEFINE ps == <<p>>
  <2>1. ps \in Seq(Packets) /\ Len(ps) = 1 /\ ps[1] = p /\ 1 \in 1..Len(ps)
    BY <1>1
  <2> HIDE DEF ps
  <2>2. /\ Encoded(ps) \in Seq(Packets) /\ Len(Encoded(ps)) = 1
        /\ Encoded(ps)[1] = [ps[1] EXCEPT !.id = @ % WireIds]
    BY <2>1, EncodedIs
  <2> QED
    BY <2>1, <2>2 DEF ps
<1>3. /\ p.kind \in Kinds /\ p.id \in Nat /\ p.qos \in 0..2 /\ p.msg \in 0..TopMsg
      /\ p = [kind |-> p.kind, id |-> p.id, msg |-> p.msg, qos |-> p.qos]
  BY DEF Packets
<1>4. WireIds \in Nat \ {0}
  BY ConstantsAre
<1>5. p.id % WireIds \in Nat /\ (p.id < WireIds => p.id % WireIds = p.id)
  BY <1>3, <1>4
<1>6. q = [kind |-> p.kind, id |-> p.id % WireIds, msg |-> p.msg, qos |-> p.qos]
  BY <1>3
<1> HIDE DEF q
<1>7. q \in Packets /\ q.kind = p.kind /\ q.qos = p.qos
  BY <1>3, <1>5, <1>6 DEF Packets
<1>8. q \in Asks <=> p \in Asks
  BY <1>7 DEF Asks
<1>9. p.id < WireIds => q = p
  BY <1>3, <1>5, <1>6
<1>10. Encoded(<<p>>) = <<q>>
  <2> DEFINE e == Encoded(<<p>>)
  <2>1. e \in Seq(Packets) /\ Len(e) = 1 /\ e[1] = q
    BY <1>2 DEF q
  <2> HIDE DEF e
  <2>2. e = <<q>>
    BY <2>1
  <2> QED
    BY <2>2 DEF e
<1> QED
  BY <1>7, <1>8, <1>9, <1>10 DEF q

\* What is under way on the current socket.
LEMMA SentOne ==
    ASSUME NEW o, ObjectOK(o), o.sock \in Sockets, NEW p \in Packets, NEW f,
           TokensOK(o.up[o.sock], o.down[o.sock], f),
           Joins(p, o.up[o.sock], o.down[o.sock], f, Asks),
           p \in Asks => p.id < WireIds
    PROVE  LET r == SocketSend(o, <<p>>)
           IN  /\ r.sock = o.sock /\ r.connected = o.connected
               /\ r.sent = o.sent
               /\ TokensOK(r.up[o.sock], r.down[o.sock], f)
<1> DEFINE r == SocketSend(o, <<p>>)
           s == o.sock
           e == [p EXCEPT !.id = @ % WireIds]
<1>1. /\ Encoded(<<p>>) = <<e>> /\ e \in Packets
      /\ e \in Asks <=> p \in Asks
      /\ p.id < WireIds => e = p
  BY OneEncoded
<1> HIDE DEF e
<1>2. o.up[s] \in Seq(Packets) /\ o.down[s] \in Seq(Packets)
  BY DEF ObjectOK
<1>3. /\ r.sock = s /\ r.connected = o.connected /\ r.sent = o.sent
      /\ r.down = o.down
      /\ r.up[s] = o.up[s] \o <<e>> \/ r.up[s] = o.up[s]
  BY <1>1 DEF SocketSend, ObjectOK, Fields
<1>4. o.up[s] \o <<e>> = Append(o.up[s], e)
  BY <1>1, <1>2
<1>5. Joins(e, o.up[s], o.down[s], f, Asks)
  BY <1>1 DEF Joins
<1> HIDE DEF r
<1>6. TokensOK(Append(o.up[s], e), o.down[s], f)
  BY <1>1, <1>2, <1>5, AskPut
<1>7. TokensOK(r.up[s], r.down[s], f)
  BY <1>3, <1>4, <1>6
<1> QED
  BY <1>3, <1>7 DEF r

\* A packet that goes through the queue is sent from what is o otherwise.
LEMMA GoesOut ==
    ASSUME NEW o, NEW conn, Made(o, conn), NEW p \in Packets,
           NEW r, r = Schedule(o, <<p>>) \/ r = ScheduleInHandler(o, p)
    PROVE  \E e : /\ ObjectOK(e) /\ e.sock = o.sock /\ e.up = o.up
                  /\ e.down = o.down /\ e.sent = o.sent
                  /\ e.connected = o.connected /\ e.ready = o.ready
                  /\ e.link = o.link /\ e.clean = o.clean
                  /\ e.buffered = o.buffered /\ r = SocketSend(e, <<p>>)
<1> DEFINE q == [o EXCEPT !.queue = <<p>>]
           e == [q EXCEPT !.queue = <<>>]
<1>1. <<p>> \in Seq(Packets) /\ <<>> \in Seq(Packets)
  OBVIOUS
<1>2. /\ o.queue = <<>> /\ o.queue \o <<p>> = <<p>>
      /\ Append(o.queue, p) = <<p>> /\ <<p>> # <<>>
  BY DEF Made
<1>3. /\ ObjectOK(q) /\ q.queue = <<p>> /\ q.sock = o.sock
      /\ q.connected = o.connected /\ q.notify = o.notify
      /\ q.ready = o.ready /\ q.up = o.up /\ q.down = o.down
      /\ q.sent = o.sent /\ q.link = o.link /\ q.clean = o.clean
      /\ q.buffered = o.buffered
  BY <1>1 DEF Made, ObjectOK, Fields
<1>4. r = ProcessQueue(q) \/ r = Caught(q, ProcessQueue(q))
  BY <1>2 DEF Schedule, ScheduleInHandler, Made
<1> HIDE DEF q
<1>5. /\ ObjectOK(e) /\ e.sock = o.sock /\ e.up = o.up /\ e.down = o.down
      /\ e.sent = o.sent /\ e.connected = o.connected /\ e.ready = o.ready
      /\ e.link = o.link /\ e.clean = o.clean /\ e.buffered = o.buffered
  BY <1>1, <1>3 DEF ObjectOK, Fields
<1>6. CanSend(q) /\ ~q.notify /\ o.sock \in Sockets
  BY <1>3, SocketIs DEF Made, LinkedOK, CanSend
<1>7. Len(q.queue) = 1 /\ Sendable(q) = 1 /\ SubSeq(q.queue, 1, 1) = <<p>>
  <2> DEFINE ps == <<p>>
             x == SubSeq(ps, 1, 1)
  <2>0. /\ ps \in Seq(Packets) /\ Len(ps) = 1 /\ ps[1] = p
        /\ 1 \in 0..Len(ps) /\ 1 \in 1..1
    BY <1>1
  <2> HIDE DEF ps
  <2>3. x \in Seq(Packets) /\ Len(x) = 1 /\ x[1] = p
    BY <2>0, SubSeqIs
  <2> HIDE DEF x
  <2>4. x = <<p>>
    BY <2>3
  <2>1. Len(<<p>>) = 1 /\ SubSeq(<<p>>, 1, 1) = <<p>>
    BY <2>0, <2>4 DEF ps, x
  <2> QED
    BY <1>3, <1>6, <2>1 DEF Sendable, Made
<1>8. ProcessQueue(q) = SocketSend(e, <<p>>) /\ ~ProcessThrows(q)
  <2>1. q.queue # <<>> /\ Sendable(q) = Len(q.queue)
    BY <1>2, <1>3, <1>7
  <2>2. ~ProcessThrows(q)
    BY <1>6, <1>7 DEF ProcessThrows
  <2>3. SubSeq(q.queue, 1, Sendable(q)) = <<p>>
    BY <1>7
  <2> QED
    BY <1>6, <2>1, <2>2, <2>3 DEF ProcessQueue
<1>9. r = SocketSend(e, <<p>>)
  BY <1>4, <1>8 DEF Caught
<1> HIDE DEF e
<1> QED
  BY <1>5, <1>9

\* Its tokens.
LEMMA SentTokens ==
    ASSUME NEW o, NEW conn, Made(o, conn), NEW p \in Packets, NEW f,
           TokensOK(o.up[o.sock], o.down[o.sock], f),
           Joins(p, o.up[o.sock], o.down[o.sock], f, Asks),
           p \in Asks => p.id < WireIds,
           NEW r, r = Schedule(o, <<p>>) \/ r = ScheduleInHandler(o, p)
    PROVE  /\ r.sock = o.sock /\ r.sent = o.sent /\ r.connected = o.connected
           /\ TokensOK(r.up[o.sock], r.down[o.sock], f)
<1>1. PICK e : /\ ObjectOK(e) /\ e.sock = o.sock /\ e.up = o.up
               /\ e.down = o.down /\ e.sent = o.sent
               /\ e.connected = o.connected /\ r = SocketSend(e, <<p>>)
  BY GoesOut
<1>2. o.sock \in Sockets
  BY SocketIs DEF Made, LinkedOK
<1> QED
  BY <1>1, <1>2, SentOne

\* The same for a reply sent while a packet is handled.
LEMMA SentInHandlerTokens ==
    ASSUME NEW o, NEW conn, Made(o, conn), NEW p \in Packets, NEW f,
           TokensOK(o.up[o.sock], o.down[o.sock], f),
           Joins(p, o.up[o.sock], o.down[o.sock], f, Asks), p.id < WireIds
    PROVE  LET n == ScheduleInHandler(o, p)
           IN  /\ n.sock = o.sock /\ n.sent = o.sent
               /\ TokensOK(n.up[o.sock], n.down[o.sock], f)
<1>1. PICK n : n = ScheduleInHandler(o, p)
  OBVIOUS
<1>2. /\ n.sock = o.sock /\ n.sent = o.sent
      /\ TokensOK(n.up[o.sock], n.down[o.sock], f)
  BY <1>1, SentTokens
<1> QED
  BY <1>1, <1>2

-----------------------------------------------------------------------------
(***************************************************************************)
(* The steps that send nothing.                                            *)
(***************************************************************************)

\* A step that leaves what was sent, here and in the store.
LEMMA SameSent ==
    ASSUME Tidy, c'.sent = c.sent, store'.sent = store.sent, TokenOK(c')
    PROVE  Tidy'
BY DEF Tidy, TokenInv, StoreExact

\* A step that leaves both maps.
LEMMA PlainTokens ==
    ASSUME Tidy, Keeps(c', c), UNCHANGED store, TokenOK(c')
    PROVE  Tidy'
<1>1. c'.sent = c.sent
  BY DEF Keeps
<1> QED
  BY <1>1, SameSent

\* Without a connection there is nothing to say.
LEMMA OffTokens ==
    ASSUME NEW o, o.connected = FALSE
    PROVE  TokenOK(o)
BY DEF TokenOK

\* connect() begins a connection, on which nothing is under way.
LEMMA AppConnectTokens ==
    ASSUME Typed, Tidy, AppConnect
    PROVE  Tidy'
<1> DEFINE t == IF c.reconnecting THEN "null" ELSE c.reconnectTimer
           o == [c EXCEPT !.reconnecting = FALSE, !.version = 4,
                          !.reconnectTimer = t]
<1>1. c' = DoConnect(o) /\ UNCHANGED store
  BY DEF AppConnect
<1> HIDE DEF t
<1>2. ObjectOK(c) /\ DOMAIN c = Fields
  BY DEF Typed, TypeInv, ObjectOK
<1>3. Keeps(o, c) /\ Kept \subseteq DOMAIN o /\ DOMAIN o = Fields
  BY <1>2 DEF Keeps, Kept, Parts, Fields
<1> HIDE DEF o
<1>4. Keeps(DoConnect(o), o) /\ DoConnect(o).connected = FALSE
  BY <1>3, DoConnectKeeps DEF DoConnect, Fields
<1>5. Keeps(c', c)
  BY <1>1, <1>3, <1>4, KeepsOn
<1> QED
  BY <1>1, <1>4, <1>5, PlainTokens, OffTokens

\* disconnect(): DISCONNECT is no token.
LEMMA AppDisconnectTokens ==
    ASSUME Typed, ConnInv, Tidy, AppDisconnect
    PROVE  Tidy'
<1> DEFINE o == IF c.reconnecting
                THEN [c EXCEPT !.reconnecting = FALSE, !.reconnectTimer = "null"]
                ELSE c
           p == Control("DISCONNECT", 0)
           n == [o EXCEPT !.notify = TRUE]
           q == [n EXCEPT !.queue = @ \o <<p>>]
           e == [q EXCEPT !.queue = <<>>]
<1>1. /\ c' = IF c.sock = NoSocket THEN o ELSE Schedule(n, <<p>>)
      /\ UNCHANGED store
  BY DEF AppDisconnect
<1>2. ObjectOK(c) /\ DOMAIN c = Fields /\ Kept \subseteq DOMAIN c
  BY KeptIn DEF Typed, TypeInv, ObjectOK
<1>3. /\ ObjectOK(o) /\ Keeps(o, c) /\ o.sock = c.sock
      /\ o.connected = c.connected /\ o.queue = c.queue
      /\ o.ready = c.ready
  BY <1>2, ZenonT(30) DEF ObjectOK, Fields, Keeps
<1> HIDE DEF o
<1>4. p \in Packets /\ <<p>> \in Seq(Packets) /\ <<>> \in Seq(Packets)
  BY ControlIs DEF Kinds
<1> HIDE DEF p
<1>5. /\ ObjectOK(n) /\ Keeps(n, o) /\ n.sock = c.sock /\ n.notify = TRUE
      /\ n.connected = c.connected /\ n.queue = c.queue /\ n.ready = c.ready
  BY <1>3 DEF ObjectOK, Fields, Keeps
<1> HIDE DEF n
<1>6. Keeps(c', c)
  <2>1. Keeps(n, c) /\ Kept \subseteq DOMAIN n
    BY <1>3, <1>5, KeepsOn, KeptIn
  <2>2. Keeps(Schedule(n, <<p>>), c)
    BY <2>1, ScheduleKeeps, KeepsOn
  <2> QED
    BY <1>1, <1>3, <2>2
<1>7. CASE ~c.connected \/ c.sock = NoSocket
  <2>1. c.connected \in BOOLEAN /\ c.connected = FALSE
    BY <1>2, <1>7 DEF ObjectOK, ConnInv, ConnOK, UsableOK, LinkedOK
  <2>2. Schedule(n, <<p>>) = q
    BY <1>5, <2>1 DEF Schedule
  <2>3. q.connected = FALSE
    BY <1>5, <2>1 DEF ObjectOK, Fields
  <2>4. c'.connected = FALSE
    BY <1>1, <1>3, <2>1, <2>2, <2>3
  <2> QED
    BY <1>1, <1>6, <2>4, PlainTokens, OffTokens
<1>8. CASE c.connected /\ c.sock # NoSocket
  <2>1. n.queue \o <<p>> = <<p>> /\ c.sock \in Sockets /\ c.ready[c.sock] = "open"
    <3>1. c.queue = <<>> /\ c.ready[c.sock] = "open"
      BY <1>8 DEF ConnInv, ConnOK, UsableOK, LinkedOK
    <3>2. <<>> \o <<p>> = <<p>>
      BY <1>4
    <3>3. c.sock \in Sockets
      BY <1>2, <1>8, SocketIs
    <3> QED
      BY <1>5, <3>1, <3>2, <3>3
  <2>2. /\ ObjectOK(q) /\ q.queue = <<p>> /\ q.notify = TRUE
        /\ q.sock = c.sock /\ q.ready = c.ready /\ q.connected = c.connected
    BY <1>4, <1>5, <2>1 DEF ObjectOK, Fields
  <2>3. Schedule(n, <<p>>) = ProcessQueue(q)
    BY <1>5, <1>8 DEF Schedule
  <2> HIDE DEF q
  <2>4. /\ ObjectOK(e) /\ e.sock = c.sock
    BY <1>4, <2>2 DEF ObjectOK, Fields
  <2> HIDE DEF e
  <2>5. /\ Sendable(q) = 1 /\ q.queue # <<>> /\ CanSend(q) /\ Len(q.queue) = 1
    BY <1>8, <2>1, <2>2 DEF Sendable, CanSend
  <2> DEFINE x == SubSeq(q.queue, 1, Sendable(q))
  <2>6. x \in Seq(Packets)
    BY <2>2, <2>5, SendableIs
  <2>7. ProcessQueue(q) = Disconnected(SocketSend(e, x), FALSE)
    BY <2>2, <2>5 DEF ProcessQueue, e
  <2> HIDE DEF x
  <2>8. ObjectOK(SocketSend(e, x))
    BY <2>1, <2>4, <2>6, SocketSendOK
  <2>9. c'.connected = FALSE
    BY <1>1, <1>8, <2>3, <2>7, <2>8, DisconnectedOff
  <2> QED
    BY <1>1, <1>6, <2>9, PlainTokens, OffTokens
<1>9. c.connected \in BOOLEAN
  BY <1>2 DEF ObjectOK
<1> QED
  BY <1>7, <1>8, <1>9

\* The socket opens.
LEMMA SocketOpenTokens ==
    ASSUME Typed, ConnInv, Tidy, NEW s \in Sockets, SocketOpen(s)
    PROVE  Tidy'
<1> DEFINE o == [c EXCEPT !.ready[s] = "open"]
           ps == <<Connect(o)>>
<1>1. /\ c.ready[s] = "connecting" /\ c.link[s] = "up" /\ UNCHANGED store
      /\ c' = o \/ c' = SocketSend(o, ps)
  BY DEF SocketOpen, Unstored
<1>2. ObjectOK(c) /\ DOMAIN c = Fields
  BY DEF Typed, TypeInv, ObjectOK
<1>3. c.connected = FALSE
  <2>1. SettledOK(c)
    BY DEF ConnInv, ConnOK
  <2>2. c.on[s] /\ c.on[s] \in BOOLEAN
    BY <1>1, <1>2, <2>1 DEF SettledOK, ObjectOK
  <2>3. s = c.sock
    BY <1>1, <2>1, <2>2 DEF SettledOK
  <2> QED
    BY <1>1, <1>2, <2>3 DEF ConnInv, ConnOK, UsableOK, LinkedOK, ObjectOK
<1>4. Keeps(o, c) /\ Kept \subseteq DOMAIN o /\ DOMAIN o = Fields
      /\ o.connected = FALSE
  BY <1>2, <1>3 DEF Keeps, Kept, Parts, Fields
<1> HIDE DEF o, ps
<1>5. Keeps(SocketSend(o, ps), c)
  BY <1>4, SocketSendKeeps, KeepsOn
<1>6. SocketSend(o, ps).connected = FALSE
  BY <1>4 DEF SocketSend, Fields
<1> QED
  BY <1>1, <1>4, <1>5, <1>6, PlainTokens, OffTokens

\* _disconnected: nothing is under way on a connection that is given up.
LEMMA DisconnectedTokens ==
    ASSUME NEW o, ObjectOK(o), Keeps(o, c), Tidy, UNCHANGED store,
           ~o.connected \/ ~o.reconnecting, c' = Disconnected(o, TRUE)
    PROVE  Tidy'
<1>1. Keeps(c', c)
  BY KeptIn, DisconnectedKeeps, KeepsOn
<1>2. c'.connected = FALSE
  BY DisconnectedOff
<1> QED
  BY <1>1, <1>2, PlainTokens, OffTokens

\* A client that is connected is not trying to be.
LEMMA NotBoth ==
    ASSUME ConnInv
    PROVE  ~c.connected \/ ~c.reconnecting
BY DEF ConnInv, ConnOK, UsableOK, LinkedOK

\* The socket closes.
LEMMA SocketClosedTokens ==
    ASSUME Typed, ConnInv, Tidy, NEW s \in Sockets, SocketClosed(s)
    PROVE  Tidy'
<1> DEFINE o == [c EXCEPT !.ready[s] = "closed", !.on[s] = FALSE,
                          !.up[s] = <<>>]
<1>1. /\ UNCHANGED store
      /\ c' = IF c.reconnecting THEN o ELSE Disconnected(o, TRUE)
  BY DEF SocketClosed, Unstored
<1>2. ObjectOK(c) /\ DOMAIN c = Fields
  BY DEF Typed, TypeInv, ObjectOK
<1>3. <<>> \in Seq(Packets)
  OBVIOUS
<1>4. /\ ObjectOK(o) /\ Keeps(o, c) /\ o.connected = c.connected
      /\ o.reconnecting = c.reconnecting
  BY <1>2, <1>3 DEF ObjectOK, Fields, Keeps
<1> HIDE DEF o
<1>5. CASE c.reconnecting
  <2>1. c'.connected = FALSE
    BY <1>1, <1>2, <1>4, <1>5, NotBoth DEF ObjectOK
  <2> QED
    BY <1>1, <1>4, <1>5, <2>1, PlainTokens, OffTokens
<1>6. CASE ~c.reconnecting
  BY <1>1, <1>4, <1>6, DisconnectedTokens
<1> QED
  BY <1>5, <1>6

\* The timers.
LEMMA TimersTokens ==
    ASSUME Typed, ConnInv, Tidy, Timer \/ SlowConnect
    PROVE  Tidy'
<1>1. ObjectOK(c) /\ DOMAIN c = Fields /\ Kept \subseteq DOMAIN c
  BY KeptIn DEF Typed, TypeInv, ObjectOK
<1>2. UNCHANGED store
  BY DEF Timer, SlowConnect, ConnectTimeout, ReconnectTimeout, DoPing, Unstored
<1>3. CASE ConnectTimeout \/ SlowConnect
  <2> DEFINE t == [c EXCEPT !.connectTimer = "idle"]
  <2>1. c' = Disconnected(t, TRUE)
    BY <1>3 DEF ConnectTimeout, SlowConnect
  <2>2. /\ ObjectOK(t) /\ Keeps(t, c) /\ t.connected = c.connected
        /\ t.reconnecting = c.reconnecting
    BY <1>1 DEF ObjectOK, Fields, Keeps
  <2> HIDE DEF t
  <2> QED
    BY <1>2, <2>1, <2>2, NotBoth, DisconnectedTokens
<1>4. CASE ReconnectTimeout
  <2> DEFINE r == [c EXCEPT !.reconnectTimer = "idle"]
  <2>1. c.orphans = 0 /\ (c.reconnectTimer = "armed" => ~c.connected)
    BY DEF ConnInv, ConnOK, SettledOK
  <2>2. c' = Reconnect(r) /\ c.connected = FALSE
    BY <1>1, <1>4, <2>1 DEF ReconnectTimeout, ObjectOK
  <2>3. Keeps(r, c) /\ r.connected = FALSE /\ DOMAIN r = Fields
    BY <1>1, <2>2 DEF Fields, Keeps
  <2> HIDE DEF r
  <2>4. Reconnect(r).connected = FALSE
    BY <2>3 DEF Reconnect, DoConnect, Fields
  <2>5. Keeps(Reconnect(r), c)
    BY <1>1, <2>3, ReconnectKeeps, KeepsOn DEF Kept, Parts, Fields
  <2> QED
    BY <1>2, <2>2, <2>4, <2>5, PlainTokens, OffTokens
<1>5. CASE DoPing
  <2> DEFINE w == [c EXCEPT !.pinger = "waiting"]
             e == [c EXCEPT !.pinger = "off"]
  <2>1. c' = w \/ c' = Disconnected(e, TRUE)
    BY <1>5 DEF DoPing
  <2>2. /\ ObjectOK(e) /\ Keeps(e, c) /\ e.connected = c.connected
        /\ e.reconnecting = c.reconnecting
    BY <1>1 DEF ObjectOK, Fields, Keeps
  <2>3. /\ Keeps(w, c) /\ w.connected = c.connected /\ w.up = c.up
        /\ w.down = c.down /\ w.sock = c.sock /\ w.sent = c.sent
    BY <1>1 DEF Fields, Keeps
  <2> HIDE DEF w, e
  <2>4. TokenOK(w)
    BY <2>3 DEF Tidy, TokenInv, TokenOK
  <2> QED
    BY <1>2, <2>1, <2>2, <2>3, <2>4, NotBoth, DisconnectedTokens, PlainTokens
<1> QED
  BY <1>3, <1>4, <1>5 DEF Timer

-----------------------------------------------------------------------------
(***************************************************************************)
(* The calls that take an identifier: no packet under way has it.          *)
(***************************************************************************)

\* The bound on identifiers leaves room for one more.
LEMMA FreeIdFits ==
    ASSUME Typed, IdsFit,
           \/ upsets < MaxUpsets
           \/ \E m \in 1..OutMsgs : outQos[m] = Unsent
    PROVE  FreeId \in Nat \ {0} /\ FreeId < WireIds
<1>1. /\ OutMsgs \in Nat /\ MaxUpsets \in Nat /\ WireIds \in Nat
      /\ upsets \in 0..MaxUpsets
  BY ConstantsAre DEF Typed, TypeInv
<1>2. Cardinality(Tried) \in Nat /\ Cardinality(Tried) <= OutMsgs
  BY TriedIs
<1>3. FreeId \in Nat \ {0} /\ FreeId \in 1..(2 + Tries)
  BY FreeIdIs
<1>4. CASE upsets < MaxUpsets
  BY <1>1, <1>2, <1>3, <1>4 DEF Tries, IdsFit
<1>5. CASE \E m \in 1..OutMsgs : outQos[m] = Unsent
  <2>1. IsFiniteSet(1..OutMsgs) /\ Cardinality(1..OutMsgs) = OutMsgs
    BY <1>1, FS_Interval
  <2>2. Tried \in SUBSET (1..OutMsgs) /\ Tried # 1..OutMsgs
    BY <1>5 DEF Tried
  <2>3. Cardinality(Tried) # OutMsgs
    BY <2>1, <2>2, FS_Subset
  <2> QED
    BY <1>1, <1>2, <1>3, <2>3 DEF Tries, IdsFit
<1> QED
  BY <1>4, <1>5

\* A token's identifier is that of a message that awaits it.
LEMMA IdsKnown ==
    ASSUME NEW u, NEW d, NEW f, TokensOK(u, d, f)
    PROVE  IdsOf(u, Asks) \subseteq DOMAIN f /\ IdsOf(d, Answers) \subseteq DOMAIN f
BY DEF TokensOK, FitAll, IdsOf

Tracked(r, kind, m, q) ==
    LET u == r.up[c.sock]
        d == r.down[c.sock]
    IN  /\ ObjectOK(r) /\ r.connected = c.connected /\ r.sock = c.sock
        /\ DOMAIN r.sent = DOMAIN c.sent \union {FreeId}
        /\ \A i \in DOMAIN c.sent : r.sent[i] = c.sent[i]
        /\ r.sent[FreeId].kind = kind /\ r.sent[FreeId].msg = m
        /\ r.sent[FreeId].qos = q /\ r.sent[FreeId].rec = FALSE
        /\ PendingOK(r.sent)
        /\ c.connected => /\ Made(r, broker.conn) /\ TokensOK(u, d, r.sent)
                          /\ FreeId \notin IdsOf(u, Asks)
                          /\ FreeId \notin IdsOf(d, Answers)

\* A message that awaits an acknowledgement gets an identifier nothing under
\* way has.
LEMMA TrackedTokens ==
    ASSUME NEW kind \in {"PUBLISH", "REQUEST"}, NEW m \in 0..OutMsgs,
           NEW q \in 0..2, kind = "PUBLISH" => q > 0,
           Typed, ConnInv, Tidy
    PROVE  Tracked(RequiresAck(kind, m, q), kind, m, q)
<1> DEFINE r == RequiresAck(kind, m, q)
           u == r.up[c.sock]
           d == r.down[c.sock]
           seq == IF kind = "PUBLISH" THEN c.sequence + 1 ELSE Undefined
           x == [kind |-> kind, msg |-> m, qos |-> q, seq |-> seq, rec |-> FALSE]
           f == Bind(c.sent, FreeId, x)
<1>1. ObjectOK(c) /\ DOMAIN c = Fields
  BY DEF Typed, TypeInv, ObjectOK
<1>2. ObjectOK(r) /\ DOMAIN r.sent = DOMAIN c.sent \union {FreeId}
  BY RequiresAckOK
<1>3. /\ r.sent = f /\ SameConn(r, c)
  BY <1>1 DEF RequiresAck, SameConn, Fields
<1>4. FreeId \notin DOMAIN c.sent
  BY FreeIdIs
<1>5. /\ x.kind = kind /\ x.msg = m /\ x.qos = q /\ x.rec = FALSE
  OBVIOUS
<1> HIDE DEF r, x
<1>6. /\ \A i \in DOMAIN c.sent : f[i] = c.sent[i]
      /\ f[FreeId] = x /\ DOMAIN f = DOMAIN c.sent \union {FreeId}
  BY <1>4 DEF Bind
<1> HIDE DEF f
<1>7. PendingOK(f)
  BY <1>5, <1>6 DEF Tidy, TokenInv, PendingOK
<1>8. ASSUME c.connected
      PROVE  /\ Made(r, broker.conn) /\ TokensOK(u, d, r.sent)
             /\ FreeId \notin IdsOf(u, Asks) /\ FreeId \notin IdsOf(d, Answers)
  <2>1. Made(c, broker.conn)
    BY <1>1, <1>8 DEF Made, ConnInv, ConnOK, UsableOK
  <2>2. Made(r, broker.conn)
    BY <1>2, <1>3, <2>1, SameConnOK DEF Made, SameConn
  <2>3. u = c.up[c.sock] /\ d = c.down[c.sock]
    BY <1>3 DEF SameConn
  <2> HIDE DEF u, d
  <2>4. TokensOK(u, d, c.sent)
    BY <1>8, <2>3 DEF Tidy, TokenInv, TokenOK
  <2>5. FreeId \notin IdsOf(u, Asks) /\ FreeId \notin IdsOf(d, Answers)
    BY <1>4, <2>4, IdsKnown
  <2>6. TokensOK(u, d, f)
    BY <1>6, <2>4, OthersChange
  <2> QED
    BY <1>3, <2>2, <2>5, <2>6
<1> HIDE DEF u, d
<1>9. r.connected = c.connected /\ r.sock = c.sock
  BY <1>3 DEF SameConn
<1> QED
  BY <1>2, <1>3, <1>5, <1>6, <1>7, <1>8, <1>9 DEF r, u, d, Tracked

\* The application's request: the REQUEST is its token.
LEMMA RequestTokens ==
    ASSUME Typed, ConnInv, Tidy, IdsFit, AppRequest
    PROVE  Tidy'
<1> DEFINE r == RequiresAck("REQUEST", 0, 0)
           p == Control("REQUEST", FreeId)
           u == r.up[c.sock]
           d == r.down[c.sock]
<1>1. /\ c' = Schedule(r, <<p>>) /\ upsets < MaxUpsets /\ UNCHANGED store
      /\ c.connected
  BY DEF AppRequest, Upset
<1>2. /\ ObjectOK(r) /\ r.connected = c.connected /\ r.sock = c.sock
      /\ DOMAIN r.sent = DOMAIN c.sent \union {FreeId}
      /\ \A i \in DOMAIN c.sent : r.sent[i] = c.sent[i]
      /\ r.sent[FreeId].kind = "REQUEST" /\ PendingOK(r.sent)
      /\ Made(r, broker.conn) /\ TokensOK(u, d, r.sent)
      /\ FreeId \notin IdsOf(u, Asks) /\ FreeId \notin IdsOf(d, Answers)
  <2>1. 0 \in 0..OutMsgs /\ 0 \in 0..2
    BY ConstantsAre
  <2>2. Tracked(r, "REQUEST", 0, 0)
    BY <2>1, TrackedTokens
  <2> QED
    BY <1>1, <2>2 DEF Tracked
<1> HIDE DEF r
<1>3. FreeId \in Nat \ {0} /\ FreeId < WireIds
  BY <1>1, FreeIdFits
<1>4. p \in Packets /\ p.id = FreeId /\ p.kind = "REQUEST"
  BY <1>3, ControlIs DEF Kinds, Control, Packet
<1> HIDE DEF p, u, d
<1>5. Joins(p, u, d, r.sent, Asks)
  BY <1>2, <1>4 DEF Joins, Fits
<1>6. /\ c'.sock = r.sock /\ c'.sent = r.sent
      /\ TokensOK(c'.up[r.sock], c'.down[r.sock], r.sent)
  BY <1>1, <1>2, <1>3, <1>4, <1>5, SentTokens DEF u, d
<1>7. StoreExact'
  BY <1>1, <1>2, <1>6 DEF Tidy, StoreExact
<1> QED
  BY <1>2, <1>6, <1>7 DEF Tidy, TokenInv, TokenOK

\* send(): the PUBLISH is the message's token.
LEMMA SendTokens ==
    ASSUME Typed, ConnInv, Tidy, IdsFit, NEW q \in 0..2, AppSend(q)
    PROVE  Tidy'
<1> DEFINE m == NextOut
           r == RequiresAck("PUBLISH", m, q)
           p == Packet("PUBLISH", FreeId, m, q)
           z == Packet("PUBLISH", 0, m, q)
           u == r.up[c.sock]
           d == r.down[c.sock]
<1>1. ObjectOK(c) /\ DOMAIN c = Fields
  BY DEF Typed, TypeInv, ObjectOK
<1>2. m \in 1..OutMsgs /\ \E k \in 1..OutMsgs : outQos[k] = Unsent
  BY NextOutIs DEF AppSend
<1>3. m \in 0..OutMsgs /\ m \in 0..TopMsg
  BY <1>2, TopIs
<1>4. c.connected \in BOOLEAN
  BY <1>1 DEF ObjectOK
<1>5. CASE q > 0
  <2>1. /\ c' = IF c.connected THEN Schedule(r, <<p>>) ELSE r
        /\ store' = StoreSent(r, FreeId)
    BY <1>5 DEF AppSend
  <2>2. /\ ObjectOK(r) /\ r.connected = c.connected /\ r.sock = c.sock
        /\ DOMAIN r.sent = DOMAIN c.sent \union {FreeId}
        /\ \A i \in DOMAIN c.sent : r.sent[i] = c.sent[i]
        /\ r.sent[FreeId].kind = "PUBLISH" /\ PendingOK(r.sent)
        /\ r.sent[FreeId].msg = m
        /\ r.sent[FreeId].qos = q /\ r.sent[FreeId].rec = FALSE
        /\ c.connected => /\ Made(r, broker.conn) /\ TokensOK(u, d, r.sent)
                          /\ FreeId \notin IdsOf(u, Asks)
                          /\ FreeId \notin IdsOf(d, Answers)
    <3>1. Tracked(r, "PUBLISH", m, q)
      BY <1>3, <1>5, TrackedTokens
    <3> QED
      BY <3>1 DEF Tracked
  <2> HIDE DEF r
  <2>3. FreeId \in Nat \ {0} /\ FreeId < WireIds
    BY <1>2, FreeIdFits
  <2>4. /\ p \in Packets /\ p.id = FreeId /\ p.kind = "PUBLISH"
        /\ p.msg = m /\ p.qos = q
    BY <1>3, <2>3, PacketIs DEF Kinds, Packet
  <2> HIDE DEF p, u, d, m
  <2>5. c.connected => Joins(p, u, d, r.sent, Asks)
    BY <2>2, <2>4 DEF Joins, Fits
  <2>6. /\ c'.sent = r.sent
        /\ c.connected => /\ c'.sock = r.sock
                          /\ TokensOK(c'.up[r.sock], c'.down[r.sock], r.sent)
    <3>1. CASE c.connected
      BY <2>1, <2>2, <2>3, <2>4, <2>5, <3>1, SentTokens DEF u, d
    <3> QED
      BY <2>1, <3>1
  <2>7. TokenOK(c')
    <3>1. CASE c.connected
      BY <2>6, <2>2, <3>1 DEF TokenOK
    <3>2. CASE ~c.connected
      BY <1>4, <2>1, <2>2, <3>2 DEF TokenOK
    <3> QED
      BY <3>1, <3>2
  <2>8. DOMAIN store'.sent \subseteq DOMAIN store.sent \union {FreeId}
    <3>1. DOMAIN store = {"sent", "received"}
      BY DEF Typed, TypeInv, StoreOK
    <3>2. store'.sent = Bind(store.sent, FreeId, r.sent[FreeId])
      BY <2>1, <3>1 DEF StoreSent
    <3> QED
      BY <3>2 DEF Bind
  <2>9. StoreExact'
    BY <2>2, <2>6, <2>8 DEF Tidy, StoreExact
  <2> QED
    BY <2>2, <2>6, <2>7, <2>9 DEF Tidy, TokenInv
<1>6. CASE ~(q > 0)
  <2>1. q = 0
    BY <1>6
  <2> DEFINE o == [c EXCEPT !.notify = FALSE]
             b == [c EXCEPT !.sequence = @ + 1,
                            !.buffered = Append(@,
                               [pkt |-> z, seq |-> c.sequence + 1])]
  <2>2. /\ c' = IF c.connected THEN Schedule(o, <<z>>) ELSE b
        /\ UNCHANGED store
    BY <1>6, <2>1 DEF AppSend
  <2>3. z \in Packets /\ z \notin Asks
    <3>1. z \in Packets
      BY <1>3, <2>1, PacketIs DEF Kinds
    <3>2. z.kind = "PUBLISH" /\ z.qos = 0
      BY <2>1 DEF Packet
    <3> QED
      BY <3>1, <3>2 DEF Asks
  <2> HIDE DEF z
  <2>4. CASE c.connected
    <3>1. /\ ObjectOK(o) /\ SameConn(o, c) /\ o.sent = c.sent
      BY <1>1, <2>4 DEF ObjectOK, Fields, SameConn, ConnInv, ConnOK, UsableOK
    <3>2. Made(c, broker.conn)
      BY <1>1, <2>4 DEF Made, ConnInv, ConnOK, UsableOK
    <3> HIDE DEF o
    <3>3. Made(o, broker.conn)
      BY <3>1, <3>2, SameConnOK DEF Made, SameConn
    <3>4. TokensOK(o.up[o.sock], o.down[o.sock], c.sent)
      BY <2>4, <3>1 DEF SameConn, Tidy, TokenInv, TokenOK
    <3>5. Joins(z, o.up[o.sock], o.down[o.sock], c.sent, Asks)
      BY <2>3 DEF Joins
    <3>6. /\ c'.sock = o.sock /\ c'.sent = o.sent
          /\ TokensOK(c'.up[o.sock], c'.down[o.sock], c.sent)
      BY <2>2, <2>3, <2>4, <3>3, <3>4, <3>5, SentTokens
    <3> QED
      BY <2>2, <3>1, <3>6, SameSent DEF TokenOK
  <2>5. CASE ~c.connected
    <3>1. b.sent = c.sent /\ b.connected = FALSE
      BY <1>1, <1>4, <2>5 DEF Fields
    <3> QED
      BY <2>2, <2>5, <3>1, SameSent, OffTokens
  <2> QED
    BY <2>4, <2>5
<1> QED
  BY <1>5, <1>6

-----------------------------------------------------------------------------
(***************************************************************************)
(* The broker's steps and the network's, which change what is under way    *)
(* only.                                                                   *)
(***************************************************************************)

\* Losing packets leaves the tokens in order.
LEMMA NoToken ==
    ASSUME NEW u, NEW d, NEW f, TokensOK(u, d, f)
    PROVE  /\ TokensOK(<<>>, d, f) /\ TokensOK(<<>>, <<>>, f)
<1>1. \A P : Lone(<<>>, P) /\ FitAll(<<>>, P, f) /\ IdsOf(<<>>, P) = {}
  BY NoneThere
<1> QED
  BY <1>1 DEF TokensOK

\* The tokens of the current socket, whatever it is connected to.
Carries(o) ==
    /\ ObjectOK(o) /\ o.sock \in Sockets
    /\ TokensOK(o.up[o.sock], o.down[o.sock], o.sent)
\* r is o but for what is under way.
Follows(r, o) ==
    /\ r.connected = o.connected /\ r.sock = o.sock /\ r.sent = o.sent
    /\ TokensOK(r.up[o.sock], r.down[o.sock], o.sent)

\* The broker sends one packet.
LEMMA DeliverOne ==
    ASSUME NEW o, Carries(o), NEW s, NEW e \in Packets,
           s = o.sock => Joins(e, o.up[s], o.down[s], o.sent, Answers)
    PROVE  Follows(Deliver(o, s, <<e>>), o)
<1> DEFINE r == Deliver(o, s, <<e>>)
           k == o.sock
<1>1. o.down[k] \in Seq(Packets) /\ o.up[k] \in Seq(Packets)
  BY DEF Carries, ObjectOK
<1>2. /\ r.connected = o.connected /\ r.sock = o.sock /\ r.sent = o.sent
      /\ r.up = o.up
      /\ \/ r.down[k] = o.down[k]
         \/ s = k /\ r.down[k] = o.down[k] \o <<e>>
  BY DEF Deliver, Carries, ObjectOK, Fields
<1>3. o.down[k] \o <<e>> = Append(o.down[k], e)
  BY <1>1
<1>4. s = k => TokensOK(o.up[k], Append(o.down[k], e), o.sent)
  BY <1>1, AnswerPut DEF Carries
<1> HIDE DEF r
<1>5. TokensOK(r.up[k], r.down[k], o.sent)
  BY <1>2, <1>3, <1>4 DEF Carries
<1> QED
  BY <1>2, <1>5 DEF Follows, r

\* The broker sends on another socket than the client's.
LEMMA DeliverElsewhere ==
    ASSUME NEW o, Carries(o), NEW s, NEW ps, s # o.sock
    PROVE  Follows(Deliver(o, s, ps), o)
BY DEF Deliver, Carries, ObjectOK, Fields, Follows

\* The connection ends.
LEMMA DropOne ==
    ASSUME NEW o, Carries(o), NEW s \in Sockets \union {NoSocket}
    PROVE  Follows(Drop(o, s), o)
<1> DEFINE r == Drop(o, s)
           k == o.sock
<1>1. /\ r.connected = o.connected /\ r.sock = o.sock /\ r.sent = o.sent
      /\ r.down = o.down
      /\ \A x \in Sockets : r.up[x] = IF x = s THEN <<>> ELSE o.up[x]
  BY DropIs DEF Carries
<1> HIDE DEF r
<1>2. r.up[k] = <<>> \/ r.up[k] = o.up[k]
  BY <1>1 DEF Carries
<1>3. TokensOK(<<>>, o.down[k], o.sent)
  BY NoToken DEF Carries
<1>4. TokensOK(r.up[k], r.down[k], o.sent)
  BY <1>1, <1>2, <1>3 DEF Carries
<1> QED
  BY <1>1, <1>4 DEF Follows, r

\* A step that only changes what is under way.
LEMMA FollowsTokens ==
    ASSUME Tidy, NEW o, Follows(c', o), o.sent = c.sent,
           store'.sent = store.sent
    PROVE  Tidy'
<1>1. TokenOK(c') /\ c'.sent = c.sent
  BY DEF Follows, TokenOK
<1> QED
  BY <1>1, SameSent

\* A client that is connected carries tokens in order.
LEMMA NowOn ==
    ASSUME Typed, ConnInv, Tidy, c.connected
    PROVE  Carries(c)
<1>1. ObjectOK(c) /\ c.sock # NoSocket
  BY DEF Typed, TypeInv, ConnInv, ConnOK, UsableOK, LinkedOK
<1> QED
  BY <1>1, SocketIs DEF Carries, Tidy, TokenInv, TokenOK

-----------------------------------------------------------------------------
\* A message of the broker's is no token.
LEMMA PublishesTokens ==
    ASSUME Typed, ConnInv, Tidy, NEW q \in 0..2, BrokerPublish(q)
    PROVE  Tidy'
<1> DEFINE used == {broker.out[i].id : i \in DOMAIN broker.out}
           id == IF q = 0 THEN 0 ELSE Min((1..InMsgs) \ used)
           e(m) == Packet("PUBLISH", id, m, q)
<1> PICK m \in 1..InMsgs : /\ inQos[m] = Unsent
                           /\ c' = Deliver(c, broker.conn, <<e(m)>>)
  BY DEF BrokerPublish
<1> DEFINE p == e(m)
<1>1. c' = Deliver(c, broker.conn, <<p>>) /\ UNCHANGED store
  BY DEF BrokerPublish
<1>2. id \in Nat
  <2>1. InMsgs \in Nat
    BY ConstantsAre
  <2>2. (1..InMsgs) \ used # {}
    BY UnusedId
  <2>3. (1..InMsgs) \ used \in SUBSET Nat
    BY <2>1
  <2>4. Min((1..InMsgs) \ used) \in (1..InMsgs) \ used
    BY <2>2, <2>3, MinIs
  <2> QED
    BY <2>3, <2>4
<1> HIDE DEF id
<1>3. p \in Packets /\ p.kind = "PUBLISH"
  <2>1. m \in 0..TopMsg
    BY TopIs
  <2> QED
    BY <1>2, <2>1, PacketIs DEF Kinds, Packet
<1> HIDE DEF p
<1>4. c.connected \in BOOLEAN /\ ObjectOK(c)
  BY DEF Typed, TypeInv, ObjectOK
<1>5. CASE c.connected
  <2>1. Carries(c)
    BY <1>5, NowOn
  <2>2. Joins(p, c.up[c.sock], c.down[c.sock], c.sent, Answers)
    BY <1>3 DEF Joins, Answers
  <2>3. Follows(c', c)
    BY <1>1, <1>3, <2>1, <2>2, DeliverOne
  <2> QED
    BY <1>1, <2>3, FollowsTokens
<1>6. CASE ~c.connected
  <2>1. c'.connected = FALSE /\ c'.sent = c.sent
    BY <1>1, <1>4, <1>6 DEF Deliver, ObjectOK, Fields
  <2> QED
    BY <1>1, <2>1, SameSent, OffTokens
<1> QED
  BY <1>5, <1>6

\* The network's faults only lose packets.
LEMMA FaultsTokens ==
    ASSUME Typed, ConnInv, Tidy, NEW s \in Sockets,
           BrokerSeesEnd \/ Break(s) \/ Silence(s) \/ SilenceEnds(s)
    PROVE  Tidy'
<1>1. ObjectOK(c) /\ c.connected \in BOOLEAN
  BY DEF Typed, TypeInv, ObjectOK
<1>2. UNCHANGED store
  BY DEF BrokerSeesEnd, Break, Silence, SilenceEnds, Lose
<1>3. /\ c'.sent = c.sent /\ c'.connected = c.connected /\ c'.sock = c.sock
      /\ \A x \in Sockets : \/ c'.up[x] = c.up[x] /\ c'.down[x] = c.down[x]
                            \/ c'.up[x] = <<>> /\ c'.down[x] = <<>>
  <2>1. CASE BrokerSeesEnd
    BY <2>1 DEF BrokerSeesEnd
  <2>2. CASE SilenceEnds(s)
    BY <1>1, <2>2 DEF SilenceEnds, ObjectOK, Fields
  <2>3. ASSUME NEW l, c' = [c EXCEPT !.link[s] = l, !.up[s] = <<>>, !.down[s] = <<>>]
        PROVE  /\ c'.sent = c.sent /\ c'.connected = c.connected /\ c'.sock = c.sock
               /\ \A x \in Sockets : \/ c'.up[x] = c.up[x] /\ c'.down[x] = c.down[x]
                                     \/ c'.up[x] = <<>> /\ c'.down[x] = <<>>
    BY <1>1, <2>3 DEF ObjectOK, Fields
  <2> QED
    BY <2>1, <2>2, <2>3 DEF Break, Silence, Lose
<1>4. CASE c.connected
  <2>1. Carries(c)
    BY <1>4, NowOn
  <2>2. Follows(c', c)
    BY <1>3, <2>1, NoToken DEF Carries, Follows
  <2> QED
    BY <1>2, <2>2, FollowsTokens
<1>5. CASE ~c.connected
  BY <1>1, <1>2, <1>3, <1>5, SameSent, OffTokens
<1> QED
  BY <1>4, <1>5

\* A page that is opened again takes up what localStorage has, which is what
\* the closed one had.
LEMMA CrashTokens ==
    ASSUME Tidy, StoreCovers, Crash
    PROVE  Tidy'
<1>1. c' = NewClient(store, c.clean) /\ UNCHANGED store
  BY DEF Crash
<1>2. c'.sent = store.sent /\ c'.connected = FALSE
  BY <1>1 DEF NewClient
<1>3. \A i \in DOMAIN store.sent :
         i \in DOMAIN c.sent /\ c.sent[i].kind = "PUBLISH"
  BY DEF Tidy, StoreExact
<1>4. \A i \in DOMAIN store.sent :
         /\ i \in DOMAIN c.sent /\ store.sent[i] = c.sent[i]
         /\ store.sent[i].kind = "PUBLISH"
  BY <1>3 DEF StoreCovers
<1>5. PendingOK(store.sent)
  BY <1>4 DEF Tidy, TokenInv, PendingOK
<1>6. StoreExact'
  BY <1>1, <1>2, <1>4 DEF StoreExact
<1> QED
  BY <1>2, <1>5, <1>6, OffTokens DEF Tidy, TokenInv

-----------------------------------------------------------------------------
(***************************************************************************)
(* The packets the broker takes, each answered at most once.               *)
(***************************************************************************)

\* p is off its socket, and no other packet has its identifier.
Taken(p, o) ==
    p \in Asks => /\ p.id \in DOMAIN o.sent /\ Fits(p, o.sent[p.id])
                  /\ p.id \notin IdsOf(o.up[o.sock], Asks)
                  /\ p.id \notin IdsOf(o.down[o.sock], Answers)

\* The broker's answer takes the place of the packet it answers.
LEMMA AnswersTokens ==
    ASSUME NEW o, Carries(o), NEW s \in Sockets, NEW p \in Packets,
           s = o.sock => Taken(p, o), BrokerAnswers(o, s, p)
    PROVE  Follows(c', o)
<1>1. Follows(o, o)
  BY DEF Follows, Carries
<1>2. p.id \in Nat /\ p.qos \in 0..2
  BY DEF Packets
<1> DEFINE Answer(kind) == Control(kind, p.id)
<1>3. ASSUME NEW kind \in {"PUBACK", "PUBREC", "PUBCOMP", "REQUESTACK", "PUBREL"}
      PROVE  /\ Answer(kind) \in Packets /\ Answer(kind).kind = kind
             /\ Answer(kind).id = p.id
  BY <1>2, ControlIs DEF Kinds, Control, Packet
<1> HIDE DEF Answer
<1>4. ASSUME NEW kind \in {"PUBACK", "PUBREC", "PUBCOMP", "REQUESTACK", "PUBREL"},
             s = o.sock => Joins(Answer(kind), o.up[s], o.down[s], o.sent, Answers)
      PROVE  Follows(Deliver(o, s, <<Answer(kind)>>), o)
  BY <1>3, <1>4, DeliverOne
<1>5. CASE p.kind = "PUBLISH" /\ p.qos = 1 /\ c' = Deliver(o, s, <<Answer("PUBACK")>>)
  <2>1. p \in Asks
    BY <1>5 DEF Asks
  <2>2. s = o.sock => Joins(Answer("PUBACK"), o.up[s], o.down[s], o.sent, Answers)
    BY <1>3, <1>5, <2>1 DEF Joins, Taken, Fits
  <2> QED
    BY <1>4, <1>5, <2>2
<1>6. CASE p.kind = "PUBLISH" /\ p.qos = 2 /\ c' = Deliver(o, s, <<Answer("PUBREC")>>)
  <2>1. p \in Asks
    BY <1>6 DEF Asks
  <2>2. s = o.sock => Joins(Answer("PUBREC"), o.up[s], o.down[s], o.sent, Answers)
    BY <1>3, <1>6, <2>1 DEF Joins, Taken, Fits
  <2> QED
    BY <1>4, <1>6, <2>2
<1>7. CASE p.kind = "PUBREL" /\ c' = Deliver(o, s, <<Answer("PUBCOMP")>>)
  <2>1. p \in Asks
    BY <1>7 DEF Asks
  <2>2. s = o.sock => Joins(Answer("PUBCOMP"), o.up[s], o.down[s], o.sent, Answers)
    BY <1>3, <1>7, <2>1 DEF Joins, Taken, Fits
  <2> QED
    BY <1>4, <1>7, <2>2
<1>8. CASE p.kind = "REQUEST" /\ c' = Deliver(o, s, <<Answer("REQUESTACK")>>)
  <2>1. p \in Asks
    BY <1>8 DEF Asks
  <2>2. s = o.sock => Joins(Answer("REQUESTACK"), o.up[s], o.down[s], o.sent, Answers)
    BY <1>3, <1>8, <2>1 DEF Joins, Taken, Fits
  <2> QED
    BY <1>4, <1>8, <2>2
<1>9. CASE c' = Deliver(o, s, <<Answer("PUBREL")>>)
  <2>1. Answer("PUBREL") \notin Answers
    BY <1>3 DEF Answers
  <2>2. s = o.sock => Joins(Answer("PUBREL"), o.up[s], o.down[s], o.sent, Answers)
    BY <2>1 DEF Joins
  <2> QED
    BY <1>4, <1>9, <2>2
<1>10. CASE c' = Drop(o, s)
  BY <1>10, DropOne
<1> QED
  BY <1>1, <1>5, <1>6, <1>7, <1>8, <1>9, <1>10 DEF BrokerAnswers, Answer

\* The broker takes a packet.
LEMMA ReceiveTokens ==
    ASSUME Typed, ConnInv, Tidy, NEW s \in Sockets, BrokerReceive(s)
    PROVE  Tidy'
<1> DEFINE p == Head(c.up[s])
           o == [c EXCEPT !.up[s] = Tail(@)]
           k == c.sock
<1>1. /\ ObjectOK(c) /\ TypeInv /\ c.up[s] # <<>> /\ c.connected \in BOOLEAN
      /\ broker.conn \in Sockets \union {NoSocket}
  BY DEF Typed, TypeInv, ObjectOK, BrokerOK, BrokerReceive
<1>2. UNCHANGED store
  BY DEF BrokerReceive
<1>3. /\ ObjectOK(o) /\ o.sock = c.sock /\ o.connected = c.connected
      /\ p \in Packets
      /\ \/ s # c.sock
         \/ /\ s = c.sock /\ s = broker.conn /\ c.connected
            /\ p.kind \in FromClient
         \/ s = c.sock /\ s # broker.conn /\ ~c.connected
  BY <1>1, TakenUp
<1>4. o.sent = c.sent /\ o.down = c.down /\ \A x \in Sockets :
         o.up[x] = IF x = s THEN Tail(c.up[s]) ELSE c.up[x]
  BY <1>1 DEF ObjectOK, Fields
<1>5. \/ /\ p.kind = "CONNECT" /\ s # broker.conn
         /\ \E clean \in BOOLEAN : BrokerConnect(o, s, clean)
      \/ p.kind = "CONNECT" /\ s # broker.conn /\ BrokerRefuse(o, s)
      \/ BrokerRejects(o, s)
      \/ p.kind # "CONNECT" /\ s = broker.conn /\ BrokerAnswers(o, s, p)
  <2>1. (p.id = 1) \in BOOLEAN
    OBVIOUS
  <2> QED
    BY <2>1 DEF BrokerReceive
<1> HIDE DEF o, p
<1>6. CASE c.connected
  <2>1. Carries(c)
    BY <1>6, NowOn
  <2>2. c.up[s] \in Seq(Packets)
    BY <1>1 DEF ObjectOK
  <2>3. s = k => TokensOK(Tail(c.up[s]), c.down[s], c.sent) /\ Taken(p, o)
    BY <1>1, <1>3, <1>4, <2>1, <2>2, AskTaken DEF Carries, Taken, p
  <2>4. Carries(o)
    BY <1>3, <1>4, <2>1, <2>3 DEF Carries
  <2>5. ASSUME NEW clean \in BOOLEAN, BrokerConnect(o, s, clean), s # k
        PROVE  Follows(c', o)
    <3> DEFINE r == Drop(o, broker.conn)
    <3>1. PICK ps : c' = Deliver(r, s, ps)
      BY <2>5 DEF BrokerConnect
    <3>2. Follows(r, o) /\ ObjectOK(r)
      BY <1>1, <1>3, <2>4, DropOne, DropOK
    <3> HIDE DEF r
    <3>3. Carries(r) /\ s # r.sock
      BY <1>3, <2>4, <2>5, <3>2 DEF Carries, Follows
    <3>4. Follows(Deliver(r, s, ps), r)
      BY <3>3, DeliverElsewhere
    <3> QED
      BY <3>1, <3>2, <3>4 DEF Follows
  <2>6. ASSUME BrokerRefuse(o, s), s # k
        PROVE  Follows(c', o)
    <3> DEFINE ps == <<Control("REFUSED", 0)>>
               r == Deliver(o, s, ps)
    <3>1. c' = Drop(r, s)
      BY <2>6 DEF BrokerRefuse
    <3>2. ps \in Seq(Packets)
      <4>1. Control("REFUSED", 0) \in Packets
        BY ControlIs DEF Kinds
      <4> QED
        BY <4>1
    <3> HIDE DEF ps
    <3>3. Follows(r, o) /\ ObjectOK(r)
      BY <1>3, <2>4, <2>6, <3>2, DeliverElsewhere, DeliverOK
    <3> HIDE DEF r
    <3>4. Carries(r)
      BY <2>4, <3>3 DEF Carries, Follows
    <3>5. Follows(Drop(r, s), r)
      BY <3>4, DropOne
    <3> QED
      BY <3>1, <3>3, <3>5 DEF Follows
  <2>7. ASSUME BrokerRejects(o, s) PROVE Follows(c', o)
    BY <2>4, <2>7, DropOne DEF BrokerRejects
  <2>8. ASSUME BrokerAnswers(o, s, p) PROVE Follows(c', o)
    BY <1>3, <2>3, <2>4, <2>8, AnswersTokens
  <2>9. Follows(c', o)
    <3>1. CASE s = k
      BY <1>3, <1>5, <1>6, <2>7, <2>8, <3>1
    <3>2. CASE s # k
      BY <1>5, <2>5, <2>6, <2>7, <2>8, <3>2
    <3> QED
      BY <3>1, <3>2
  <2> QED
    BY <1>2, <1>4, <2>9, FollowsTokens
<1>7. CASE ~c.connected
  <2> DEFINE Same(r) == /\ DOMAIN r = Fields /\ r.sent = o.sent
                        /\ r.connected = o.connected
  <2>1. Same(o)
    BY <1>3 DEF ObjectOK
  <2>3. ASSUME NEW r, Same(r), NEW x, NEW ps
        PROVE  Same(Drop(r, x)) /\ Same(Deliver(r, x, ps))
    BY <2>3 DEF Drop, Deliver, Fields
  <2> HIDE DEF Same
  <2>4. Same(c')
    <3>1. CASE \E clean \in BOOLEAN : BrokerConnect(o, s, clean)
      BY <2>1, <2>3, <3>1 DEF BrokerConnect
    <3>2. CASE BrokerRefuse(o, s)
      BY <2>1, <2>3, <3>2 DEF BrokerRefuse
    <3>3. CASE BrokerRejects(o, s)
      BY <2>1, <2>3, <3>3 DEF BrokerRejects
    <3>4. CASE BrokerAnswers(o, s, p)
      BY <2>1, <2>3, <3>4 DEF BrokerAnswers
    <3> QED
      BY <1>5, <3>1, <3>2, <3>3, <3>4
  <2>2. c'.sent = c.sent /\ c'.connected = FALSE
    BY <1>1, <1>3, <1>4, <1>7, <2>4 DEF Same
  <2> QED
    BY <1>2, <2>2, SameSent, OffTokens
<1> QED
  BY <1>6, <1>7

-----------------------------------------------------------------------------
(***************************************************************************)
(* What an accepted connection sends again.                                *)
(***************************************************************************)

\* What is sent again has one token for each message that awaits an answer.
LEMMA SentAgain ==
    ASSUME NEW o, ObjectOK(o), SettledOK(o), PendingOK(o.sent),
           NEW q \in Orders(o)
    PROVE  LET ps == [i \in DOMAIN q |-> q[i].pkt]
           IN  Lone(ps, Asks) /\ FitAll(ps, Asks, o.sent)
<1> DEFINE ps == [i \in DOMAIN q |-> q[i].pkt]
           P(i) == IF o.sent[i].kind = "REQUEST" THEN Control("REQUEST", i)
                   ELSE IF o.sent[i].rec THEN Control("PUBREL", i)
                   ELSE Packet("PUBLISH", i, o.sent[i].msg, o.sent[i].qos)
           E(i) == [seq |-> o.sent[i].seq, pkt |-> P(i)]
<1>1. \A x \in Range(o.buffered) : x.pkt \notin Asks
  BY DEF SettledOK, Asks, Range
<1>2. \A i \in DOMAIN o.sent : P(i).id = i /\ Fits(P(i), o.sent[i])
  <2> SUFFICES ASSUME NEW i \in DOMAIN o.sent
               PROVE  P(i).id = i /\ Fits(P(i), o.sent[i])
    OBVIOUS
  <2>1. o.sent[i].kind = "REQUEST" \/ (o.sent[i].rec => o.sent[i].qos = 2)
    BY DEF PendingOK
  <2>2. o.sent[i].rec \in BOOLEAN
    BY DEF ObjectOK, IsMap, Pending
  <2>3. CASE o.sent[i].kind = "REQUEST"
    BY <2>3 DEF Control, Packet, Fits
  <2>4. CASE o.sent[i].kind # "REQUEST" /\ o.sent[i].rec
    BY <2>1, <2>2, <2>4 DEF Control, Packet, Fits
  <2>5. CASE o.sent[i].kind # "REQUEST" /\ ~o.sent[i].rec
    BY <2>5 DEF Packet, Fits
  <2> QED
    BY <2>3, <2>4, <2>5
<1>3. Resend(o) = {E(i) : i \in DOMAIN o.sent} \union Range(o.buffered)
  BY DEF Resend
<1> HIDE DEF P
<1>4. \A x \in Resend(o) : x.pkt \in Asks =>
         \E i \in DOMAIN o.sent : x = E(i)
  BY <1>1, <1>3
<1>5. \A i \in DOMAIN o.sent : E(i).pkt = P(i)
  OBVIOUS
<1> HIDE DEF E
<1>6. \A x \in Resend(o) : x.pkt \in Asks =>
         /\ x.pkt.id \in DOMAIN o.sent /\ x = E(x.pkt.id)
         /\ Fits(x.pkt, o.sent[x.pkt.id])
  BY <1>2, <1>4, <1>5
<1>7. /\ DOMAIN q = 1..Len(q)
      /\ \A i \in DOMAIN q : q[i] \in Resend(o)
  BY OrderIs
<1>8. \A i, j \in DOMAIN q : q[i] = q[j] => i = j
  BY DEF Orders, SetToSeqs
<1>9. DOMAIN ps = DOMAIN q /\ \A i \in DOMAIN q : ps[i] = q[i].pkt
  OBVIOUS
<1> HIDE DEF ps
<1>10. \A i \in DOMAIN ps : ps[i] \in Asks =>
          /\ ps[i].id \in DOMAIN o.sent /\ q[i] = E(ps[i].id)
          /\ Fits(ps[i], o.sent[ps[i].id])
  BY <1>6, <1>7, <1>9
<1>11. Lone(ps, Asks)
  BY <1>8, <1>9, <1>10 DEF Lone
<1>12. FitAll(ps, Asks, o.sent)
  BY <1>10 DEF FitAll
<1> QED
  BY <1>11, <1>12 DEF ps

\* Behind a DISCONNECT still in the queue.
LEMMA BehindOthers ==
    ASSUME NEW e \in Seq(Packets), NEW ps \in Seq(Packets), NEW f,
           AreOf(e, {"DISCONNECT"}), Lone(ps, Asks), FitAll(ps, Asks, f)
    PROVE  Lone(e \o ps, Asks) /\ FitAll(e \o ps, Asks, f)
<1> DEFINE k == e \o ps
           n == Len(e)
<1>1. /\ k \in Seq(Packets) /\ Len(k) = n + Len(ps)
      /\ \A i \in 1..n : k[i] = e[i]
      /\ \A i \in 1..Len(ps) : k[n + i] = ps[i]
  BY ConcatIs
<1>2. /\ n \in Nat /\ DOMAIN e = 1..n /\ Len(ps) \in Nat
      /\ DOMAIN ps = 1..Len(ps) /\ DOMAIN k = 1..Len(k)
  BY <1>1, SeqIs
<1> HIDE DEF k
<1>3. \A i \in 1..n : e[i] \notin Asks
  BY <1>2 DEF AreOf, Asks
<1> HIDE DEF n
<1>4. \A i \in DOMAIN k : i \in 1..n \/ (i - n \in DOMAIN ps /\ n + (i - n) = i)
  BY <1>1, <1>2
<1>5. \A i \in DOMAIN k : k[i] \in Asks => i - n \in DOMAIN ps /\ k[i] = ps[i - n]
  <2> SUFFICES ASSUME NEW i \in DOMAIN k, k[i] \in Asks
               PROVE  i - n \in DOMAIN ps /\ k[i] = ps[i - n]
    OBVIOUS
  <2>1. i \notin 1..n
    BY <1>1, <1>3
  <2> QED
    BY <1>1, <1>2, <1>4, <2>1
<1>6. \A i, j \in DOMAIN k : i - n = j - n => i = j
  BY <1>1, <1>2
<1>7. Lone(k, Asks)
  BY <1>5, <1>6 DEF Lone
<1>8. FitAll(k, Asks, f)
  BY <1>5 DEF FitAll
<1> QED
  BY <1>7, <1>8 DEF k

\* As bytes, when the identifiers fit in two.
LEMMA EncodedTokens ==
    ASSUME NEW k \in Seq(Packets), NEW f, Lone(k, Asks), FitAll(k, Asks, f),
           \A i \in DOMAIN f : i < WireIds
    PROVE  Lone(Encoded(k), Asks) /\ FitAll(Encoded(k), Asks, f)
<1> DEFINE e == Encoded(k)
<1>1. /\ e \in Seq(Packets) /\ Len(e) = Len(k)
      /\ \A i \in 1..Len(k) : e[i] = [k[i] EXCEPT !.id = @ % WireIds]
  BY EncodedIs
<1>2. DOMAIN k = 1..Len(k) /\ DOMAIN e = DOMAIN k /\ \A i \in DOMAIN k : k[i] \in Packets
  BY <1>1, SeqIs
<1> HIDE DEF e
<1>3. \A i \in DOMAIN k : /\ e[i] \in Asks <=> k[i] \in Asks
                          /\ k[i].id < WireIds => e[i] = k[i]
  <2> SUFFICES ASSUME NEW i \in DOMAIN k
               PROVE  /\ e[i] \in Asks <=> k[i] \in Asks
                      /\ k[i].id < WireIds => e[i] = k[i]
    OBVIOUS
  <2>1. k[i] \in Packets /\ e[i] = [k[i] EXCEPT !.id = @ % WireIds]
    BY <1>1, <1>2
  <2> QED
    <3>1. ASSUME NEW p \in Packets, NEW x, x = [p EXCEPT !.id = @ % WireIds]
          PROVE  /\ x \in Asks <=> p \in Asks
                 /\ p.id < WireIds => x = p
      BY <3>1, OneEncoded
    <3> QED
      BY <2>1, <3>1
<1>4. \A i \in DOMAIN k : k[i] \in Asks => k[i].id < WireIds
  BY DEF FitAll
<1>5. \A i \in DOMAIN e : e[i] \in Asks => k[i] \in Asks /\ e[i] = k[i]
  BY <1>2, <1>3, <1>4
<1>6. Lone(e, Asks) /\ FitAll(e, Asks, f)
  BY <1>2, <1>5 DEF Lone, FitAll
<1> QED
  BY <1>6 DEF e

\* What a connection the broker has accepted does: it sends what is in the
\* queue and behind that what it sends again, unless disconnect() was called,
\* which takes effect after the first of these.
LEMMA AcceptedIs ==
    ASSUME NEW o, ObjectOK(o), o.sock # NoSocket, o.ready[o.sock] = "open",
           o.notify => ~o.reconnecting, NEW q \in Orders(o)
    PROVE  LET k == o.queue \o [i \in DOMAIN q |-> q[i].pkt]
               r == Accepted(o, q)
           IN  \E e :
                 /\ ObjectOK(e) /\ e.sock = o.sock /\ e.up = o.up /\ e.down = o.down
                 /\ e.sent = o.sent /\ e.clean = o.clean /\ e.buffered = <<>>
                 /\ e.reconnecting = FALSE /\ e.connected = TRUE
                 /\ e.ready = o.ready /\ e.link = o.link
                 /\ \/ k = <<>> /\ r = e
                    \/ r = SocketSend(e, k)
                    \/ /\ o.notify /\ k # <<>>
                       /\ \E z : /\ z = Disconnected(
                                        SocketSend(e, SubSeq(k, 1, 1)), FALSE)
                                 /\ r = z \/ r = Disconnected(z, TRUE)
<1> DEFINE ps == [i \in DOMAIN q |-> q[i].pkt]
           k == o.queue \o ps
           h == o.notify /\ o.buffered = <<>>
           s == [o EXCEPT !.connected = TRUE, !.buffered = <<>>,
                          !.notify = h, !.queue = k]
           g == s.reconnecting /\ ps # <<>> /\ ProcessThrows(s)
           r == [s EXCEPT !.reconnecting = g]
           n == ProcessQueue(r)
           e == [r EXCEPT !.queue = <<>>]
           y == SubSeq(k, 1, Sendable(r))
<1>1. ps \in Seq(Packets)
  BY OrderIs
<1>2. CanSend(o) /\ o.sock \in Sockets /\ <<>> \in Seq(Packets) /\ h \in BOOLEAN
  BY SocketIs DEF CanSend
<1>3. Accepted(o, q) = Caught(s, n)
  BY <1>2 DEF Accepted
<1> HIDE DEF ps
<1>4. o.queue \in Seq(Packets) /\ k \in Seq(Packets) /\ Len(k) \in Nat
  BY <1>1 DEF ObjectOK
<1> HIDE DEF k, h
<1>5. DOMAIN o = Fields
  BY DEF ObjectOK
<1>6. /\ ObjectOK(s) /\ s.queue = k /\ s.sock = o.sock
      /\ s.reconnecting = o.reconnecting /\ s.connected = TRUE
      /\ s.notify = h /\ s.ready = o.ready
      /\ s.clean = o.clean /\ s.buffered = <<>>
      /\ s.down = o.down /\ s.up = o.up /\ s.sent = o.sent /\ s.link = o.link
  <2>1. /\ s.connected = TRUE /\ s.clean = o.clean /\ s.sock = o.sock
        /\ s.reconnecting = o.reconnecting
        /\ s.connectTimer = o.connectTimer
        /\ s.reconnectTimer = o.reconnectTimer /\ s.orphans = o.orphans
        /\ s.pinger = o.pinger /\ s.version = o.version /\ s.sent = o.sent
        /\ s.received = o.received /\ s.queue = k /\ s.notify = h
        /\ s.buffered = <<>> /\ s.cursor = o.cursor
        /\ s.sequence = o.sequence /\ s.ready = o.ready /\ s.on = o.on
        /\ s.link = o.link /\ s.up = o.up /\ s.down = o.down
    BY <1>5 DEF Fields
  <2>2. <<>> \in Seq([pkt : Packets, seq : Nat])
    OBVIOUS
  <2>3. DOMAIN s = Fields
    BY <1>5
  <2> HIDE DEF s
  <2>4. ObjectOK(s)
    <3>1. {s.connected, s.clean, s.reconnecting, s.notify} \subseteq BOOLEAN
      <4>1. /\ o.connected \in BOOLEAN /\ o.clean \in BOOLEAN
            /\ o.reconnecting \in BOOLEAN /\ o.notify \in BOOLEAN
        BY SMT DEF ObjectOK
      <4>2. s.connected \in BOOLEAN
        BY <2>1, Zenon
      <4>3. s.clean \in BOOLEAN
        BY <2>1, <4>1, Zenon
      <4>4. s.reconnecting \in BOOLEAN
        BY <2>1, <4>1, Zenon
      <4>5. s.notify \in BOOLEAN
        BY <1>2, <2>1, Zenon
      <4> QED
        BY <4>2, <4>3, <4>4, <4>5
    <3>2. /\ s.sock \in Sockets \union {NoSocket}
         /\ s.connectTimer \in {"null", "idle", "armed"}
         /\ s.reconnectTimer \in {"null", "idle", "armed"}
         /\ s.orphans \in Nat /\ s.pinger \in {"off", "reset", "waiting"}
         /\ s.version \in {3, 4} /\ s.cursor \in Nat \ {0} /\ s.sequence \in Nat
      BY <1>2, <1>4, <2>2, <2>1 DEF ObjectOK
    <3>3. /\ IsMap(s.sent, Nat \ {0}, Pending) /\ IsFiniteSet(DOMAIN s.sent)
         /\ IsMap(s.received, Nat, 0..TopMsg)
      BY <1>2, <1>4, <2>2, <2>1 DEF ObjectOK
    <3>4. /\ s.queue \in Seq(Packets)
         /\ s.buffered \in Seq([pkt : Packets, seq : Nat])
      BY <1>2, <1>4, <2>2, <2>1 DEF ObjectOK
    <3>5. /\ s.ready \in [Sockets -> {"connecting", "open", "closed"}]
         /\ s.on \in [Sockets -> BOOLEAN]
         /\ s.link \in [Sockets -> {"up", "down", "dead"}]
         /\ s.up \in [Sockets -> Seq(Packets)]
         /\ s.down \in [Sockets -> Seq(Packets)]
      BY <1>2, <1>4, <2>2, <2>1 DEF ObjectOK
    <3> QED
      BY <2>3, <3>1, <3>2, <3>3, <3>4, <3>5 DEF ObjectOK
  <2> QED
    BY <2>1, <2>4
<1> HIDE DEF s
<1>7. g = FALSE
  <2>1. CASE o.reconnecting
    <3>1. ~s.notify
      BY <1>6, <2>1 DEF h
    <3>2. CanSend(s) /\ Sendable(s) = Len(s.queue)
      BY <1>2, <1>6, <3>1 DEF CanSend, Sendable
    <3> QED
      BY <1>4, <1>6, <3>2 DEF ProcessThrows
  <2>2. o.reconnecting \in BOOLEAN
    BY DEF ObjectOK
  <2> QED
    BY <1>6, <2>1, <2>2
<1> HIDE DEF g
<1>8. r = [s EXCEPT !.reconnecting = FALSE]
  BY <1>7
<1> HIDE DEF r
<1>9. /\ ObjectOK(r) /\ r.queue = k /\ r.sock = o.sock
      /\ r.reconnecting = FALSE /\ r.connected = TRUE
      /\ r.notify = h /\ r.ready = o.ready
      /\ r.clean = o.clean /\ r.buffered = <<>>
      /\ r.down = o.down /\ r.up = o.up /\ r.sent = o.sent /\ r.link = o.link
  <2>1. DOMAIN s = Fields
    BY <1>6 DEF ObjectOK
  <2>2. /\ r.connected = s.connected /\ r.clean = s.clean /\ r.sock = s.sock
        /\ r.reconnecting = FALSE /\ r.connectTimer = s.connectTimer
        /\ r.reconnectTimer = s.reconnectTimer /\ r.orphans = s.orphans
        /\ r.pinger = s.pinger /\ r.version = s.version /\ r.sent = s.sent
        /\ r.received = s.received /\ r.queue = s.queue
        /\ r.notify = s.notify /\ r.buffered = s.buffered
        /\ r.cursor = s.cursor /\ r.sequence = s.sequence
        /\ r.ready = s.ready /\ r.on = s.on /\ r.link = s.link
        /\ r.up = s.up /\ r.down = s.down
    BY <1>8, <2>1 DEF Fields
  <2>3. DOMAIN r = Fields
    BY <1>8, <2>1
  <2>4. ObjectOK(r)
    <3>1. {r.connected, r.clean, r.reconnecting, r.notify} \subseteq BOOLEAN
      <4>1. /\ s.connected \in BOOLEAN /\ s.clean \in BOOLEAN
            /\ s.reconnecting \in BOOLEAN /\ s.notify \in BOOLEAN
        BY <1>6 DEF ObjectOK
      <4>2. r.connected \in BOOLEAN
        BY <2>2, <4>1, Zenon
      <4>3. r.clean \in BOOLEAN
        BY <2>2, <4>1, Zenon
      <4>4. r.reconnecting \in BOOLEAN
        BY <2>2, Zenon
      <4>5. r.notify \in BOOLEAN
        BY <2>2, <4>1, Zenon
      <4> QED
        BY <4>2, <4>3, <4>4, <4>5
    <3>2. /\ r.sock \in Sockets \union {NoSocket}
         /\ r.connectTimer \in {"null", "idle", "armed"}
         /\ r.reconnectTimer \in {"null", "idle", "armed"}
         /\ r.orphans \in Nat /\ r.pinger \in {"off", "reset", "waiting"}
         /\ r.version \in {3, 4} /\ r.cursor \in Nat \ {0} /\ r.sequence \in Nat
      BY <1>6, <2>2 DEF ObjectOK
    <3>3. /\ IsMap(r.sent, Nat \ {0}, Pending) /\ IsFiniteSet(DOMAIN r.sent)
         /\ IsMap(r.received, Nat, 0..TopMsg)
      BY <1>6, <2>2 DEF ObjectOK
    <3>4. /\ r.queue \in Seq(Packets)
         /\ r.buffered \in Seq([pkt : Packets, seq : Nat])
      BY <1>6, <2>2 DEF ObjectOK
    <3>5. /\ r.ready \in [Sockets -> {"connecting", "open", "closed"}]
         /\ r.on \in [Sockets -> BOOLEAN]
         /\ r.link \in [Sockets -> {"up", "down", "dead"}]
         /\ r.up \in [Sockets -> Seq(Packets)]
         /\ r.down \in [Sockets -> Seq(Packets)]
      BY <1>6, <2>2 DEF ObjectOK
    <3> QED
      BY <2>3, <3>1, <3>2, <3>3, <3>4, <3>5 DEF ObjectOK
  <2> QED
    BY <1>6, <2>2, <2>4
<1>10. CanSend(r) /\ CanSend(s)
  BY <1>2, <1>6, <1>9 DEF CanSend
<1>11. CASE k = <<>>
  <2>1. n = r /\ ~ProcessThrows(s)
    BY <1>6, <1>9, <1>11 DEF ProcessQueue, ProcessThrows
  <2>2. Accepted(o, q) = r
    BY <1>3, <2>1 DEF Caught
  <2> QED
    BY <1>9, <1>11, <2>2 DEF k, ps
<1>12. CASE k # <<>>
  <2>1. /\ ObjectOK(e) /\ e.sock = o.sock /\ e.up = o.up /\ e.down = o.down
        /\ e.sent = o.sent /\ e.reconnecting = FALSE /\ e.connected = TRUE
        /\ e.clean = o.clean /\ e.buffered = <<>>
        /\ e.ready = o.ready /\ e.link = o.link
    <3>1. DOMAIN r = Fields
      BY <1>9 DEF ObjectOK
    <3>2. /\ e.connected = r.connected /\ e.clean = r.clean
          /\ e.sock = r.sock /\ e.reconnecting = r.reconnecting
          /\ e.connectTimer = r.connectTimer
          /\ e.reconnectTimer = r.reconnectTimer /\ e.orphans = r.orphans
          /\ e.pinger = r.pinger /\ e.version = r.version /\ e.sent = r.sent
          /\ e.received = r.received /\ e.queue = <<>>
          /\ e.notify = r.notify /\ e.buffered = r.buffered
          /\ e.cursor = r.cursor /\ e.sequence = r.sequence
          /\ e.ready = r.ready /\ e.on = r.on /\ e.link = r.link
          /\ e.up = r.up /\ e.down = r.down
      BY <3>1 DEF Fields
    <3>3. DOMAIN e = Fields
      BY <3>1
    <3> HIDE DEF e
    <3>4. ObjectOK(e)
      <4>1. {e.connected, e.clean, e.reconnecting, e.notify} \subseteq BOOLEAN
        BY <1>2, <1>9, <3>2 DEF ObjectOK
      <4>2. /\ e.sock \in Sockets \union {NoSocket}
           /\ e.connectTimer \in {"null", "idle", "armed"}
           /\ e.reconnectTimer \in {"null", "idle", "armed"}
           /\ e.orphans \in Nat /\ e.pinger \in {"off", "reset", "waiting"}
           /\ e.version \in {3, 4} /\ e.cursor \in Nat \ {0} /\ e.sequence \in Nat
        BY <1>2, <1>9, <3>2 DEF ObjectOK
      <4>3. /\ IsMap(e.sent, Nat \ {0}, Pending) /\ IsFiniteSet(DOMAIN e.sent)
           /\ IsMap(e.received, Nat, 0..TopMsg)
        BY <1>2, <1>9, <3>2 DEF ObjectOK
      <4>4. /\ e.queue \in Seq(Packets)
           /\ e.buffered \in Seq([pkt : Packets, seq : Nat])
        BY <1>2, <1>9, <3>2 DEF ObjectOK
      <4>5. /\ e.ready \in [Sockets -> {"connecting", "open", "closed"}]
           /\ e.on \in [Sockets -> BOOLEAN]
           /\ e.link \in [Sockets -> {"up", "down", "dead"}]
           /\ e.up \in [Sockets -> Seq(Packets)]
           /\ e.down \in [Sockets -> Seq(Packets)]
        BY <1>2, <1>9, <3>2 DEF ObjectOK
      <4> QED
        BY <3>3, <4>1, <4>2, <4>3, <4>4, <4>5 DEF ObjectOK
    <3> QED
      BY <1>9, <3>2, <3>4
  <2>2. n = IF h THEN Disconnected(SocketSend(e, y), FALSE) ELSE SocketSend(e, y)
    BY <1>9, <1>10, <1>12 DEF ProcessQueue
  <2> HIDE DEF e, n
  <2>3. CASE h
    <3>1. y = SubSeq(k, 1, 1) /\ o.notify
      BY <1>9, <2>3 DEF Sendable, h
    <3>2. /\ n = Disconnected(SocketSend(e, SubSeq(k, 1, 1)), FALSE)
          /\ Accepted(o, q) = n \/ Accepted(o, q) = Disconnected(n, TRUE)
      BY <1>3, <2>2, <2>3, <3>1 DEF Caught
    <3> QED
      BY <1>12, <2>1, <3>1, <3>2 DEF k, ps
  <2>4. CASE ~h
    <3>1. Sendable(r) = Len(k) /\ Sendable(s) = Len(k)
      BY <1>6, <1>9, <2>4 DEF Sendable
    <3>2. ~ProcessThrows(s)
      BY <1>4, <1>6, <1>10, <3>1 DEF ProcessThrows
    <3>3. y = k
      BY <1>4, <3>1
    <3>4. Accepted(o, q) = SocketSend(e, k)
      BY <1>3, <2>2, <2>4, <3>2, <3>3 DEF Caught
    <3> QED
      BY <2>1, <3>4 DEF k, ps
  <2> QED
    BY <2>3, <2>4
<1> QED
  BY <1>11, <1>12

\* Nothing but what fits is under way on it.
LEMMA AcceptedTokens ==
    ASSUME NEW o, ObjectOK(o), SettledOK(o), PendingOK(o.sent),
           o.sock # NoSocket, o.ready[o.sock] = "open",
           AreOf(o.queue, {"DISCONNECT"}), o.up[o.sock] = <<>>,
           \A i \in DOMAIN o.down[o.sock] : o.down[o.sock][i] \notin Answers,
           \A i \in DOMAIN o.sent : i < WireIds,
           o.notify => ~o.reconnecting, NEW q \in Orders(o)
    PROVE  TokenOK(Accepted(o, q))
<1> DEFINE ps == [i \in DOMAIN q |-> q[i].pkt]
           k == o.queue \o ps
           r == Accepted(o, q)
<1>1. ps \in Seq(Packets) /\ Lone(ps, Asks) /\ FitAll(ps, Asks, o.sent)
  BY OrderIs, SentAgain
<1>2. PICK e :
        /\ ObjectOK(e) /\ e.sock = o.sock /\ e.up = o.up /\ e.down = o.down
        /\ e.sent = o.sent /\ e.clean = o.clean /\ e.buffered = <<>>
        /\ e.reconnecting = FALSE /\ e.connected = TRUE
        /\ e.ready = o.ready /\ e.link = o.link
        /\ \/ k = <<>> /\ r = e
           \/ r = SocketSend(e, k)
           \/ /\ o.notify /\ k # <<>>
              /\ \E z : /\ z = Disconnected(SocketSend(e, SubSeq(k, 1, 1)), FALSE)
                        /\ r = z \/ r = Disconnected(z, TRUE)
  BY AcceptedIs
<1> HIDE DEF ps
<1>3. o.queue \in Seq(Packets) /\ k \in Seq(Packets) /\ o.sock \in Sockets
  BY <1>1, SocketIs DEF ObjectOK
<1>4. Lone(k, Asks) /\ FitAll(k, Asks, o.sent)
  BY <1>1, <1>3, BehindOthers
<1> HIDE DEF k, r
<1>5. Lone(<<>>, Asks) /\ FitAll(<<>>, Asks, o.sent)
  <2>1. \A i \in DOMAIN <<>> : <<>>[i] \notin Asks
    OBVIOUS
  <2> QED
    BY <2>1, NoneThere
<1>6. Lone(Encoded(k), Asks) /\ FitAll(Encoded(k), Asks, o.sent)
  BY <1>3, <1>4, EncodedTokens
<1>7. /\ TokensOK(Encoded(k), o.down[o.sock], o.sent)
      /\ TokensOK(<<>>, o.down[o.sock], o.sent)
  BY <1>5, <1>6, NoAnswers
<1>8. CASE r = e
  <2>1. /\ r.sock = o.sock /\ r.up[r.sock] = <<>>
        /\ r.down[r.sock] = o.down[o.sock] /\ r.sent = o.sent
    BY <1>2, <1>8
  <2> QED
    BY <1>7, <2>1 DEF TokenOK, r
<1>9. CASE r = SocketSend(e, k)
  <2>1. Encoded(k) \in Seq(Packets) /\ <<>> \o Encoded(k) = Encoded(k)
    BY <1>3, EncodedIs
  <2>2. /\ r.sock = e.sock /\ r.down = e.down /\ r.sent = e.sent
        /\ r.up = [e.up EXCEPT ![e.sock] =
                      IF e.ready[e.sock] = "open" /\ e.link[e.sock] = "up"
                      THEN @ \o Encoded(k) ELSE @]
    BY <1>2, <1>9 DEF SocketSend, ObjectOK, Fields
  <2>3. e.up \in [Sockets -> Seq(Packets)] /\ e.up[o.sock] = <<>>
    BY <1>2 DEF ObjectOK
  <2>4. r.up[o.sock] = <<>> \/ r.up[o.sock] = Encoded(k)
    BY <1>2, <1>3, <2>1, <2>2, <2>3
  <2>5. r.sock = o.sock /\ r.down[r.sock] = o.down[o.sock] /\ r.sent = o.sent
    BY <1>2, <2>2
  <2>6. TokensOK(r.up[r.sock], r.down[r.sock], r.sent)
    BY <1>7, <2>4, <2>5
  <2> QED
    BY <2>6 DEF TokenOK, r
<1>10. ASSUME NEW z, k # <<>>,
              z = Disconnected(SocketSend(e, SubSeq(k, 1, 1)), FALSE),
              r = z \/ r = Disconnected(z, TRUE)
       PROVE  TokenOK(Accepted(o, q))
  <2> DEFINE y == SubSeq(k, 1, 1)
             x == SocketSend(e, y)
  <2>1. y \in Seq(Packets)
    <3>1. 1 \in 0..Len(k)
      BY <1>3, <1>10, TailIs
    <3> QED
      BY <1>3, <3>1, SubSeqIs
  <2> HIDE DEF y
  <2>2. ObjectOK(x) /\ x.connected = TRUE
    BY <1>2, <1>3, <2>1, SocketSendOK
  <2>3. z = Disconnected(x, FALSE)
    BY <1>10 DEF y
  <2> HIDE DEF x
  <2>4. z.connected = FALSE /\ ObjectOK(z)
    BY <2>2, <2>3, DisconnectedOff, DisconnectedOK
  <2>5. Disconnected(z, TRUE).connected = FALSE
    BY <2>4, DisconnectedOff
  <2> QED
    BY <1>10, <2>4, <2>5, OffTokens DEF r
<1> QED
  BY <1>2, <1>8, <1>9, <1>10

-----------------------------------------------------------------------------
(***************************************************************************)
(* The packets the client takes, and the theorem.                          *)
(***************************************************************************)

\* p is off the current socket, and no other packet has its identifier.
Settles(p, o) ==
    p \in Answers => /\ p.id \in DOMAIN o.sent /\ Fits(p, o.sent[p.id])
                     /\ p.id \notin IdsOf(o.up[o.sock], Asks)
                     /\ p.id \notin IdsOf(o.down[o.sock], Answers)

\* A reply to the broker's message is no token.
LEMMA ReplyTokens ==
    ASSUME NEW o, NEW p \in Packets, p \notin Asks, Made(o, broker.conn),
           TokensOK(o.up[o.sock], o.down[o.sock], o.sent)
    PROVE  Follows(ScheduleInHandler(o, p), o)
<1>1. Joins(p, o.up[o.sock], o.down[o.sock], o.sent, Asks)
  BY DEF Joins
<1> DEFINE r == ScheduleInHandler(o, p)
<1>2. /\ r.sock = o.sock /\ r.sent = o.sent /\ r.connected = o.connected
      /\ TokensOK(r.up[o.sock], r.down[o.sock], o.sent)
  BY <1>1, SentTokens
<1> QED
  BY <1>2 DEF Follows

\* A message forgotten with the packet that settles it.
LEMMA ForgetTokens ==
    ASSUME NEW o, NEW p \in Answers, Settles(p, o),
           IsMap(o.sent, Nat \ {0}, Pending), PendingOK(o.sent),
           TokensOK(o.up[o.sock], o.down[o.sock], o.sent)
    PROVE  LET f == Unbind(o.sent, p.id)
           IN  /\ TokensOK(o.up[o.sock], o.down[o.sock], f) /\ PendingOK(f)
               /\ DOMAIN f = DOMAIN o.sent \ {p.id}
               /\ \A i \in DOMAIN f : f[i] = o.sent[i]
<1> DEFINE f == Unbind(o.sent, p.id)
<1>1. DOMAIN f = DOMAIN o.sent \ {p.id} /\ \A i \in DOMAIN f : f[i] = o.sent[i]
  BY DEF Unbind
<1> HIDE DEF f
<1>2. TokensOK(o.up[o.sock], o.down[o.sock], f)
  BY <1>1, OthersChange DEF Settles
<1>3. PendingOK(f)
  BY <1>1 DEF PendingOK
<1> QED
  BY <1>1, <1>2, <1>3 DEF f

\* The handlers of what comes on a connection that is made.
LEMMA HandlersTokens ==
    ASSUME NEW o, Made(o, broker.conn), o.sent = c.sent, Typed, IdsFit, Tidy,
           TokensOK(o.up[o.sock], o.down[o.sock], o.sent),
           NEW p \in Packets, Settles(p, o),
           \/ HandlePublish(o, p) \/ HandlePuback(o, p) \/ HandlePubrec(o, p)
           \/ HandlePubrel(o, p) \/ HandlePubcomp(o, p) \/ HandleRequestAck(o, p)
    PROVE  Tidy'
<1> DEFINE id == p.id
           f == Unbind(o.sent, id)
<1>1. /\ ObjectOK(o) /\ DOMAIN o = Fields /\ id \in Nat
      /\ IsMap(o.sent, Nat \ {0}, Pending)
      /\ DOMAIN store = {"sent", "received"}
      /\ o.received = o.received
  BY DEF Made, ObjectOK, Packets, Typed, TypeInv, StoreOK
<1>2. PendingOK(o.sent) /\ StoreExact
  BY DEF Tidy, TokenInv
<1>3. ASSUME NEW kind \in {"PUBACK", "PUBREC", "PUBCOMP"}
      PROVE  Control(kind, id) \in Packets /\ Control(kind, id) \notin Asks
  <2>1. Control(kind, id).kind = kind
    BY DEF Control, Packet
  <2> QED
    BY <1>1, <2>1, ControlIs DEF Kinds, Asks
<1>4. CASE HandlePublish(o, p) \/ HandlePubrel(o, p)
  <2> DEFINE g == Bind(o.received, id, p.msg)
             h == Unbind(o.received, id)
  <2>1. store'.sent = store.sent
    BY <1>1, <1>4 DEF HandlePublish, HandlePubrel, StoreReceived
  <2>2. ASSUME NEW x
        PROVE  LET r == [o EXCEPT !.received = x]
               IN  r.sent = o.sent /\ SameConn(r, o) /\ r.received = x
    BY <1>1 DEF Fields, SameConn
  <2>3. \/ c' = o
        \/ c' = ScheduleInHandler(o, Control("PUBACK", id))
        \/ c' = ScheduleInHandler([o EXCEPT !.received = g], Control("PUBREC", id))
        \/ c' = ScheduleInHandler([o EXCEPT !.received = h], Control("PUBCOMP", id))
    BY <1>4 DEF HandlePublish, HandlePubrel
  <2>4. p.msg \in 0..TopMsg /\ IsMap(o.received, Nat, 0..TopMsg)
    BY <1>1 DEF Packets, ObjectOK
  <2>5. IsMap(g, Nat, 0..TopMsg) /\ IsMap(h, Nat, 0..TopMsg)
    BY <1>1, <2>4, MessagesIs
  <2> HIDE DEF g, h
  <2>6. ASSUME NEW x, IsMap(x, Nat, 0..TopMsg)
        PROVE  LET r == [o EXCEPT !.received = x]
               IN  /\ Made(r, broker.conn) /\ r.sent = o.sent /\ r.sock = o.sock
                   /\ TokensOK(r.up[r.sock], r.down[r.sock], r.sent)
    <3> DEFINE r == [o EXCEPT !.received = x]
    <3>1. ObjectOK(r)
      BY <1>1, <2>6, ReceivedOK
    <3>2. SameConn(r, o) /\ r.sent = o.sent
      BY <2>2
    <3> HIDE DEF r
    <3>3. Made(r, broker.conn)
      BY <3>1, <3>2, SameConnOK DEF Made, SameConn
    <3>4. TokensOK(r.up[r.sock], r.down[r.sock], r.sent) /\ r.sock = o.sock
      BY <3>2 DEF SameConn
    <3> QED
      BY <3>2, <3>3, <3>4 DEF r
  <2>7. ASSUME NEW x, NEW kind \in {"PUBREC", "PUBCOMP"},
               IsMap(x, Nat, 0..TopMsg),
               c' = ScheduleInHandler([o EXCEPT !.received = x], Control(kind, id))
        PROVE  Tidy'
    <3> DEFINE r == [o EXCEPT !.received = x]
    <3>1. /\ Made(r, broker.conn) /\ r.sent = c.sent
          /\ TokensOK(r.up[r.sock], r.down[r.sock], r.sent)
      BY <2>6, <2>7
    <3> HIDE DEF r
    <3>2. c' = ScheduleInHandler(r, Control(kind, id))
      BY <2>7 DEF r
    <3>3. Follows(c', r)
      BY <1>3, <3>1, <3>2, ReplyTokens
    <3> QED
      BY <2>1, <3>1, <3>3, FollowsTokens
  <2>8. CASE c' = o
    BY <2>1, <2>8, FollowsTokens DEF Follows
  <2>9. CASE c' = ScheduleInHandler(o, Control("PUBACK", id))
    <3>1. Follows(c', o)
      BY <1>3, <2>9, ReplyTokens
    <3> QED
      BY <2>1, <3>1, FollowsTokens
  <2> QED
    BY <2>3, <2>5, <2>7, <2>8, <2>9
<1>5. ASSUME p \in Answers, c' = [o EXCEPT !.sent = f],
             \/ store' = [store EXCEPT !.sent = Unbind(@, id)]
             \/ o.sent[id].kind # "PUBLISH" /\ UNCHANGED store
      PROVE  Tidy'
  <2>1. /\ TokensOK(o.up[o.sock], o.down[o.sock], f) /\ PendingOK(f)
        /\ DOMAIN f = DOMAIN o.sent \ {id}
        /\ \A i \in DOMAIN f : f[i] = o.sent[i]
    BY <1>1, <1>2, <1>5, ForgetTokens
  <2> HIDE DEF f
  <2>2. /\ c'.sent = f /\ c'.up = o.up /\ c'.down = o.down /\ c'.sock = o.sock
    BY <1>1, <1>5 DEF Fields
  <2>3. \A i \in DOMAIN store'.sent : i \in DOMAIN store.sent /\ i # id
    BY <1>1, <1>2, <1>5 DEF StoreExact, Unbind
  <2>4. StoreExact'
    BY <1>2, <2>1, <2>2, <2>3 DEF StoreExact
  <2> QED
    BY <2>1, <2>2, <2>4 DEF Tidy, TokenInv, TokenOK
<1>6. CASE HandlePuback(o, p)
  <2>1. p \in Answers
    BY <1>6 DEF HandlePuback, Answers
  <2>2. p.id \in DOMAIN o.sent
    BY <2>1 DEF Settles
  <2> QED
    BY <1>5, <1>6, <2>1, <2>2 DEF HandlePuback, Forget
<1>7. CASE HandlePubcomp(o, p)
  <2>1. p \in Answers
    BY <1>7 DEF HandlePubcomp, Answers
  <2>2. p.id \in DOMAIN o.sent
    BY <2>1 DEF Settles
  <2> QED
    BY <1>5, <1>7, <2>1, <2>2 DEF HandlePubcomp, Forget
<1>8. CASE HandleRequestAck(o, p)
  <2>1. p \in Answers /\ p.kind = "REQUESTACK"
    BY <1>8 DEF HandleRequestAck, Answers
  <2>2. o.sent[id].kind = "REQUEST"
    BY <2>1 DEF Settles, Fits
  <2> QED
    BY <1>5, <1>8, <2>1, <2>2 DEF HandleRequestAck
<1>9. CASE HandlePubrec(o, p)
  <2> DEFINE r == [o EXCEPT !.sent[id].rec = TRUE]
             e == Control("PUBREL", id)
             u == o.up[o.sock]
             d == o.down[o.sock]
  <2>1. p \in Answers /\ p.kind = "PUBREC"
    BY <1>9 DEF HandlePubrec, Answers
  <2>2. /\ id \in DOMAIN o.sent /\ o.sent[id].kind # "REQUEST"
        /\ o.sent[id].qos = 2 /\ id \notin IdsOf(u, Asks)
        /\ id \notin IdsOf(d, Answers)
    BY <2>1 DEF Settles, Fits
  <2>3. o.sent[id].kind = "PUBLISH" /\ o.sent[id] \in Pending
    BY <1>1, <2>2 DEF IsMap, Pending
  <2>4. c' = ScheduleInHandler(r, e) /\ store' = StoreSent(r, id)
    BY <1>9, <2>2 DEF HandlePubrec
  <2>5. ObjectOK(r) /\ SameConn(r, o)
    BY <1>1, <2>2, MarkedOK
  <2>6. /\ DOMAIN r.sent = DOMAIN o.sent
        /\ \A i \in DOMAIN o.sent : i # id => r.sent[i] = o.sent[i]
        /\ r.sent[id].kind = "PUBLISH" /\ r.sent[id].qos = 2
        /\ r.sent[id].rec = TRUE
    BY <1>1, <2>2, <2>3 DEF Fields, Pending
  <2> HIDE DEF r
  <2>7. Made(r, broker.conn)
    BY <2>5, SameConnOK DEF Made, SameConn
  <2>8. PendingOK(r.sent)
    BY <1>2, <2>6 DEF PendingOK
  <2>9. TokensOK(u, d, r.sent)
    BY <2>2, <2>6, OthersChange
  <2>10. u = r.up[r.sock] /\ d = r.down[r.sock] /\ r.sock = o.sock
    BY <2>5 DEF SameConn
  <2> HIDE DEF u, d
  <2>11. e \in Packets /\ e.id = id /\ e.kind = "PUBREL"
    BY <1>1, ControlIs DEF Kinds, Control, Packet
  <2> HIDE DEF e
  <2>12. Joins(e, u, d, r.sent, Asks)
    BY <2>2, <2>6, <2>11 DEF Joins, Fits
  <2>13. id < WireIds
    BY <2>2, IdsAre
  <2>14. /\ c'.sock = r.sock /\ c'.sent = r.sent
         /\ TokensOK(c'.up[r.sock], c'.down[r.sock], r.sent)
    <3>1. /\ TokensOK(r.up[r.sock], r.down[r.sock], r.sent)
          /\ Joins(e, r.up[r.sock], r.down[r.sock], r.sent, Asks)
      BY <2>9, <2>10, <2>12
    <3>2. e \in Packets /\ e.id < WireIds
      BY <2>11, <2>13
    <3>3. PICK n : n = ScheduleInHandler(r, e)
      OBVIOUS
    <3> DEFINE held == r.sent
    <3>4. TokensOK(r.up[r.sock], r.down[r.sock], held)
      BY <3>1
    <3>5. Joins(e, r.up[r.sock], r.down[r.sock], held, Asks)
      BY <3>1
    <3>6. held = r.sent
      OBVIOUS
    <3> HIDE DEF held
    <3>7. /\ n.sock = r.sock /\ n.sent = r.sent
          /\ TokensOK(n.up[r.sock], n.down[r.sock], held)
      BY <2>7, <3>2, <3>3, <3>4, <3>5, SentInHandlerTokens
    <3> QED
      BY <2>4, <3>3, <3>6, <3>7
  <2>15. DOMAIN store'.sent \subseteq DOMAIN store.sent \union {id}
    <3>1. store'.sent = Bind(store.sent, id, r.sent[id])
      BY <1>1, <2>4 DEF StoreSent
    <3> QED
      BY <3>1 DEF Bind
  <2>16. StoreExact'
    BY <1>2, <2>2, <2>6, <2>14, <2>15 DEF StoreExact
  <2> QED
    BY <2>8, <2>14, <2>16 DEF Tidy, TokenInv, TokenOK
<1> QED
  BY <1>4, <1>6, <1>7, <1>8, <1>9

-----------------------------------------------------------------------------
\* The answer to a CONNECT is taken off socket s: u is the object as it takes
\* it, with its messages forgotten if its session is clean.
Opens(u, s) ==
    /\ ObjectOK(u) /\ SettledOK(u) /\ Free(u) # {}
    /\ s = c.sock /\ c.down[s] # <<>> /\ c.up[s] = <<>>
    /\ u.sock = s /\ u.connected = FALSE /\ u.notify = c.notify
    /\ u.reconnecting = c.reconnecting /\ u.queue = c.queue
    /\ u.ready = c.ready /\ u.up = c.up /\ u.link = c.link
    /\ u.buffered = c.buffered /\ u.clean = c.clean
    /\ u.sent = (IF c.clean THEN Empty ELSE c.sent)
    /\ u.received = (IF c.clean THEN Empty ELSE c.received)
    /\ \A x \in Sockets :
          u.down[x] = IF x = s THEN Tail(c.down[s]) ELSE c.down[x]
    /\ AreOf(u.queue, {"DISCONNECT"}) /\ u.ready[s] = "open"
    /\ AreOf(u.down[s], Announced)
    /\ (u.link[s] = "up" => broker.conn = s)
    /\ \/ /\ c.down[s][1].kind = "REFUSED" /\ u.down[s] = <<>>
          /\ c' = Disconnected(u, TRUE)
       \/ /\ c.down[s][1].kind = "CONNACK"
          /\ \E q \in Orders(u) : c' = Accepted(u, q)
    /\ UNCHANGED arrived
    /\ (~c.clean => UNCHANGED store)
    /\ (c.clean => store'.sent = [i \in DOMAIN store.sent \ DOMAIN c.sent |->
                                     store.sent[i]])

\* The answer comes on the current socket, before any connection is made.
LEMMA ConnackOff ==
    ASSUME Typed, ConnInv, NEW s \in Sockets, HandleMessage(s), ~c.connected
    PROVE  \E u : Opens(u, s)
<1> DEFINE p == Head(c.down[s])
           d == Tail(c.down[s])
           o == [c EXCEPT !.down[s] = Tail(@)]
           x == IF o.reconnectTimer = "armed" THEN "idle" ELSE o.reconnectTimer
           t == [o EXCEPT !.connectTimer = "idle", !.reconnectTimer = x]
           e == [t EXCEPT !.sent = Empty, !.received = Empty]
           u == Cleaned(t)
<1>1. /\ c.on[s] /\ c.down[s] # <<>> /\ Free(c) # {}
      /\ \/ HandleConnack(o, p) \/ HandlePublish(o, p) \/ HandlePuback(o, p)
         \/ HandlePubrec(o, p) \/ HandlePubrel(o, p) \/ HandlePubcomp(o, p)
         \/ HandleRequestAck(o, p)
  BY DEF HandleMessage, Room
<1>2. /\ SettledOK(c) /\ NotifyOK(c) /\ CurrentOK(c)
      /\ HandshakeOK(c, broker.conn)
  BY DEF ConnInv, ConnOK
<1>3. ObjectOK(c) /\ StoreOK /\ c.down[s] \in Seq(Packets)
  BY DEF Typed, TypeInv, ObjectOK
<1>4. s = c.sock /\ s # NoSocket
  BY <1>1, <1>2, CurrentIs
<1>5. /\ d \in Seq(Packets) /\ p \in Packets /\ p = c.down[s][1]
      /\ Len(c.down[s]) \in Nat /\ Len(d) = Len(c.down[s]) - 1
      /\ \A i \in 1..Len(d) : d[i] = c.down[s][i + 1]
  BY <1>1, <1>3, TailIs, SeqIs
<1>6. o = [c EXCEPT !.down[s] = d]
  OBVIOUS
<1> HIDE DEF d
<1>7. /\ ObjectOK(o) /\ SameConn([o EXCEPT !.down = c.down], c)
      /\ o.sock = s /\ o.connected = FALSE /\ o.connectTimer = c.connectTimer
      /\ o.reconnecting = c.reconnecting /\ o.notify = c.notify
      /\ o.reconnectTimer = c.reconnectTimer /\ o.orphans = c.orphans
      /\ o.queue = c.queue /\ o.buffered = c.buffered
      /\ o.ready = c.ready /\ o.on = c.on /\ o.link = c.link /\ o.up = c.up
      /\ o.sent = c.sent /\ o.clean = c.clean /\ o.down[s] = d
      /\ o.received = c.received
      /\ \A y \in Sockets : y # s => o.down[y] = c.down[y]
  BY <1>3, <1>4, <1>5, <1>6 DEF ObjectOK, Fields, SameConn
<1> HIDE DEF o
<1>8. c.ready[s] \in {"connecting", "open", "closed"} /\ c.ready[s] # "closed"
  BY <1>1, <1>2, <1>3 DEF SettledOK, ObjectOK
<1>9. /\ AreOf(c.queue, {"DISCONNECT"})
      /\ p.kind \in {"CONNACK", "REFUSED"} /\ c.ready[s] = "open"
      /\ \A i \in 2..Len(c.down[s]) : c.down[s][i].kind \in Announced
  BY <1>1, <1>2, <1>4, <1>5, <1>8 DEF HandshakeOK
<1>10. c.connectTimer # "null"
  BY <1>2, <1>4 DEF CurrentOK
<1>11. /\ HandleConnack(o, p) /\ UNCHANGED arrived
       /\ \/ p.kind = "REFUSED" /\ c' = Disconnected(u, TRUE)
          \/ p.kind = "CONNACK" /\ \E q \in Orders(u) : c' = Accepted(u, q)
       /\ ~c.clean => UNCHANGED store
       /\ c.clean => store'.sent = [i \in DOMAIN store.sent \ DOMAIN c.sent |->
                                       store.sent[i]]
  <2>1. HandleConnack(o, p)
    BY <1>1, <1>9 DEF HandlePublish, HandlePuback, HandlePubrec,
         HandlePubrel, HandlePubcomp, HandleRequestAck
  <2>2. t = [o EXCEPT !.connectTimer = "idle",
                !.reconnectTimer = IF @ = "armed" THEN "idle" ELSE @]
    BY <1>7 DEF ObjectOK, Fields
  <2>3. o.clean = c.clean /\ o.sent = c.sent /\ o.connectTimer # "null"
    BY <1>7, <1>10
  <2>4. \/ p.kind = "REFUSED" /\ c' = Disconnected(u, TRUE)
        \/ p.kind = "CONNACK" /\ \E q \in Orders(u) : c' = Accepted(u, q)
    BY <2>1, <2>2, <2>3 DEF HandleConnack
  <2>5. store' = IF ~c.clean THEN store ELSE
                   [sent |-> [i \in DOMAIN store.sent \ DOMAIN c.sent |->
                                store.sent[i]],
                    received |-> [i \in DOMAIN store.received
                                       \ DOMAIN o.received |->
                                     store.received[i]]]
    BY <2>1, <2>3 DEF HandleConnack
  <2>6. UNCHANGED arrived
    BY <2>1 DEF HandleConnack, NoArrival
  <2> QED
    BY <2>1, <2>4, <2>5, <2>6
<1>12. x # "armed" /\ x \in {"null", "idle"}
  BY <1>7 DEF ObjectOK
<1> HIDE DEF x
<1>13. /\ ObjectOK(t) /\ t.clean = c.clean /\ t.sent = o.sent /\ t.sock = o.sock
       /\ t.connected = o.connected /\ t.reconnectTimer = x
       /\ t.orphans = o.orphans /\ t.reconnecting = o.reconnecting
       /\ t.notify = o.notify /\ t.queue = o.queue /\ t.buffered = o.buffered
       /\ t.ready = o.ready /\ t.on = o.on /\ t.link = o.link
       /\ t.up = o.up /\ t.down = o.down /\ t.received = o.received
  BY <1>7, <1>12 DEF ObjectOK, Fields
<1> HIDE DEF t
<1>14. /\ ObjectOK(u) /\ SameConn(u, t) /\ u.clean = c.clean
       /\ u.sent = (IF c.clean THEN Empty ELSE c.sent)
       /\ u.received = (IF c.clean THEN Empty ELSE c.received)
  <2>1. IsMap(Empty, Nat \ {0}, Pending) /\ IsMap(Empty, Nat, 0..TopMsg)
        /\ IsFiniteSet(DOMAIN Empty)
    BY EmptyIs
  <2>2. /\ ObjectOK(e) /\ SameConn(e, t) /\ SameConn(t, t) /\ e.sent = Empty
        /\ e.clean = t.clean /\ e.received = Empty
    BY <1>13, <2>1 DEF ObjectOK, Fields, SameConn
  <2>3. u = IF c.clean THEN e ELSE t
    BY <1>13 DEF Cleaned
  <2> QED
    BY <1>7, <1>13, <2>2, <2>3
<1> HIDE DEF u
<1>15. /\ u.sock = s /\ u.connected = FALSE /\ u.notify = c.notify
       /\ u.reconnecting = c.reconnecting /\ u.queue = c.queue
       /\ u.ready = c.ready /\ u.up = c.up /\ u.link = c.link
       /\ u.buffered = c.buffered
       /\ \A y \in Sockets : u.down[y] = IF y = s THEN d ELSE c.down[y]
  BY <1>7, <1>13, <1>14 DEF SameConn
<1>16. c.up[s] = <<>> /\ (c.link[s] = "up" => broker.conn = s)
  <2>1. c.link[s] = "up" => c.up[s] = <<>> /\ broker.conn = s
    BY <1>1, <1>2, <1>4, <1>9 DEF HandshakeOK
  <2>2. c.link[s] # "up" => c.up[s] = <<>>
    BY <1>2 DEF SettledOK
  <2> QED
    BY <2>1, <2>2
<1>17. AreOf(d, Announced)
  <2>1. \A i \in 1..Len(d) : i + 1 \in 2..Len(c.down[s])
    BY <1>5
  <2>2. \A i \in 1..Len(d) : d[i].kind \in Announced
    BY <1>5, <1>9, <2>1
  <2> QED
    BY <1>5, <2>2, AreOfAll
<1>18. SettledOK(u)
  <2>1. SettledOK(o)
    <3>1. c.link[s] # "dead"
      BY <1>1, <1>2 DEF SettledOK
    <3> QED
      BY <1>2, <1>4, <1>7, <3>1 DEF SettledOK
  <2>2. SettledOK(t)
    BY <1>12, <1>13, <2>1 DEF SettledOK
  <2> QED
    BY <1>14, <2>2, SameConnOK
<1>19. Free(u) # {}
  BY <1>1, <1>15 DEF Free
<1>20. p.kind = "REFUSED" => d = <<>>
  <2> SUFFICES ASSUME p.kind = "REFUSED" PROVE d = <<>>
    OBVIOUS
  <2>1. Len(c.down[s]) = 1
    BY <1>1, <1>2, <1>4, <1>5 DEF HandshakeOK
  <2>2. Len(d) = 0
    BY <1>5, <2>1
  <2> QED
    BY <1>5, <2>2
<1>21. \/ c.down[s][1].kind = "REFUSED" /\ d = <<>> /\ c' = Disconnected(u, TRUE)
       \/ /\ c.down[s][1].kind = "CONNACK"
          /\ \E q \in Orders(u) : c' = Accepted(u, q)
  BY <1>5, <1>11, <1>20
<1>22. AreOf(u.queue, {"DISCONNECT"}) /\ u.ready[s] = "open" /\ u.down[s] = d
  BY <1>9, <1>15
<1> HIDE DEF p
<1> QED
  BY <1>1, <1>4, <1>11, <1>14, <1>15, <1>16, <1>17, <1>18, <1>19, <1>21, <1>22
     DEF d, Opens

\* A CONNACK: every message in memory is sent again, or forgotten for good.
LEMMA ConnackTokens ==
    ASSUME Typed, ConnInv, Tidy, IdsFit, NEW s \in Sockets, HandleMessage(s),
           ~c.connected
    PROVE  Tidy'
<1>0. PICK u : Opens(u, s)
  BY ConnackOff
<1>1. /\ ObjectOK(u) /\ SettledOK(u)
      /\ s = c.sock /\ c.up[s] = <<>>
      /\ u.sock = s /\ u.connected = FALSE /\ u.notify = c.notify
      /\ u.reconnecting = c.reconnecting /\ u.up = c.up
      /\ u.sent = (IF c.clean THEN Empty ELSE c.sent)
      /\ AreOf(u.queue, {"DISCONNECT"}) /\ u.ready[s] = "open"
      /\ AreOf(u.down[s], Announced)
      /\ \/ c' = Disconnected(u, TRUE)
         \/ \E q \in Orders(u) : c' = Accepted(u, q)
      /\ (~c.clean => UNCHANGED store)
      /\ (c.clean => store'.sent = [i \in DOMAIN store.sent \ DOMAIN c.sent |->
                                       store.sent[i]])
  BY <1>0 DEF Opens
<1>2. /\ PendingOK(u.sent) /\ \A i \in DOMAIN u.sent : i < WireIds
  <2>1. DOMAIN Empty = {}
    BY EmptyIs
  <2> QED
    BY <1>1, <2>1, IdsAre DEF Tidy, TokenInv, PendingOK
<1>3. \A i \in DOMAIN store'.sent : i \in DOMAIN u.sent /\ u.sent[i].kind = "PUBLISH"
  <2>1. CASE c.clean
    BY <1>1, <2>1 DEF Tidy, StoreExact
  <2>2. CASE ~c.clean
    BY <1>1, <2>2 DEF Tidy, StoreExact
  <2> QED
    BY <2>1, <2>2
<1>4. Keeps(c', u)
  BY <1>1, KeptIn, DisconnectedKeeps, AcceptedKeeps
<1>5. TokenOK(c')
  <2>1. CASE c' = Disconnected(u, TRUE)
    BY <1>1, <2>1, DisconnectedOff, OffTokens
  <2>2. ASSUME NEW q \in Orders(u), c' = Accepted(u, q)
        PROVE  TokenOK(c')
    <3>1. \A i \in DOMAIN u.down[u.sock] : u.down[u.sock][i] \notin Answers
      BY <1>1 DEF AreOf, Answers, Announced
    <3>2. u.notify => ~u.reconnecting
      BY <1>1 DEF ConnInv, ConnOK, NotifyOK
    <3>3. u.sock # NoSocket /\ u.ready[u.sock] = "open" /\ u.up[u.sock] = <<>>
      BY <1>1 DEF NoSocket, Sockets
    <3> QED
      BY <1>1, <1>2, <2>2, <3>1, <3>2, <3>3, AcceptedTokens
  <2> QED
    BY <1>1, <2>1, <2>2
<1>6. c'.sent = u.sent
  BY <1>4 DEF Keeps
<1>7. StoreExact'
  BY <1>3, <1>6 DEF StoreExact
<1> QED
  BY <1>2, <1>5, <1>6, <1>7 DEF Tidy, TokenInv

\* A packet taken off the current socket of a connection that is made.
LEMMA PacketOff ==
    ASSUME Typed, ConnInv, Tidy, NEW s \in Sockets, HandleMessage(s), c.connected
    PROVE  LET p == Head(c.down[s])
               o == [c EXCEPT !.down[s] = Tail(@)]
           IN  /\ s = c.sock /\ p \in Packets
               /\ Made(o, broker.conn) /\ Settles(p, o)
               /\ o.sock = s /\ o.connected = c.connected /\ o.clean = c.clean
               /\ o.sent = c.sent /\ o.buffered = c.buffered /\ o.up = c.up
               /\ \A x \in Sockets :
                     o.down[x] = IF x = s THEN Tail(c.down[s]) ELSE c.down[x]
               /\ TokensOK(o.up[s], o.down[s], o.sent)
               /\ \/ HandlePublish(o, p) \/ HandlePuback(o, p)
                  \/ HandlePubrec(o, p) \/ HandlePubrel(o, p)
                  \/ HandlePubcomp(o, p) \/ HandleRequestAck(o, p)
<1> DEFINE p == Head(c.down[s])
           d == Tail(c.down[s])
           o == [c EXCEPT !.down[s] = Tail(@)]
<1>1. /\ c.on[s] /\ c.down[s] # <<>>
      /\ \/ HandleConnack(o, p) \/ HandlePublish(o, p) \/ HandlePuback(o, p)
         \/ HandlePubrec(o, p) \/ HandlePubrel(o, p) \/ HandlePubcomp(o, p)
         \/ HandleRequestAck(o, p)
  BY DEF HandleMessage, Room
<1>2. /\ SettledOK(c) /\ CurrentOK(c) /\ UsableOK(c, broker.conn)
  BY DEF ConnInv, ConnOK
<1>3. ObjectOK(c) /\ c.down[s] \in Seq(Packets)
  BY DEF Typed, TypeInv, ObjectOK
<1>4. s = c.sock /\ s # NoSocket
  BY <1>1, <1>2, CurrentIs
<1>5. d \in Seq(Packets) /\ p \in Packets /\ o = [c EXCEPT !.down[s] = d]
  BY <1>1, <1>3, TailIs
<1> HIDE DEF d
<1>6. /\ ObjectOK(o) /\ o.sock = s /\ o.connected = c.connected
      /\ o.connectTimer = c.connectTimer
      /\ o.reconnectTimer = c.reconnectTimer /\ o.orphans = c.orphans
      /\ o.reconnecting = c.reconnecting /\ o.notify = c.notify
      /\ o.queue = c.queue /\ o.buffered = c.buffered /\ o.clean = c.clean
      /\ o.ready = c.ready /\ o.on = c.on /\ o.link = c.link /\ o.up = c.up
      /\ o.sent = c.sent /\ o.down[s] = d
      /\ \A x \in Sockets : x # s => o.down[x] = c.down[x]
  <2>1. ObjectOK(c) /\ s \in Sockets /\ d \in Seq(Packets)
    BY <1>3, <1>5
  <2>2. o = WithDown(c, s, d)
    BY <1>5 DEF WithDown
  <2> HIDE DEF o
  <2>3. OnlyDown(o, c, s, d)
    BY <2>1, <2>2, DownIs
  <2> QED
    BY <1>4, <2>3 DEF OnlyDown
<1> HIDE DEF o
<1>7. LinkedOK(c, broker.conn) /\ ~c.notify /\ c.queue = <<>>
  BY <1>2 DEF UsableOK
<1>8. Carries(c)
  BY NowOn
<1>9. TokensOK(c.up[s], d, c.sent) /\ Settles(p, o)
  <2>1. TokensOK(c.up[s], c.down[s], c.sent) /\ c.down[s] # <<>>
    BY <1>1, <1>4, <1>8 DEF Carries
  <2>2. /\ TokensOK(c.up[s], Tail(c.down[s]), c.sent)
        /\ Head(c.down[s]) \in Answers =>
              /\ Head(c.down[s]).id \in DOMAIN c.sent
              /\ Fits(Head(c.down[s]), c.sent[Head(c.down[s]).id])
              /\ Head(c.down[s]).id \notin IdsOf(Tail(c.down[s]), Answers)
              /\ Head(c.down[s]).id \notin IdsOf(c.up[s], Asks)
    BY <1>3, <2>1, AnswerTaken
  <2> QED
    BY <1>6, <2>2 DEF Settles, d, p
<1>10. AreOf(d, FromBroker) /\ p.kind \in FromBroker
  BY <1>1, <1>3, <1>4, <1>7, AreOfTail DEF LinkedOK, d
<1>11. c.link[s] # "dead" /\ c.ready[s] # "closed"
  BY <1>1, <1>2 DEF SettledOK
<1>12. SettledOK(o)
  BY <1>2, <1>4, <1>6, <1>11 DEF SettledOK
<1>13. CurrentOK(o)
  BY <1>1, <1>2, <1>4, <1>6, <1>7 DEF CurrentOK, LinkedOK
<1>14. Made(o, broker.conn)
  BY <1>4, <1>6, <1>7, <1>10, <1>12, <1>13 DEF Made, LinkedOK
<1>15. ~HandleConnack(o, p)
  BY <1>10 DEF HandleConnack, FromBroker, Announced
<1>16. TokensOK(o.up[s], o.down[s], o.sent)
  BY <1>6, <1>9
<1> HIDE DEF p
<1> QED
  BY <1>1, <1>4, <1>5, <1>6, <1>9, <1>14, <1>15, <1>16 DEF o, p, d

\* Any packet taken off the current socket.
LEMMA MessageTokens ==
    ASSUME Typed, ConnInv, Tidy, IdsFit, NEW s \in Sockets, HandleMessage(s)
    PROVE  Tidy'
<1> DEFINE p == Head(c.down[s])
           o == [c EXCEPT !.down[s] = Tail(@)]
<1>1. CASE c.connected
  <2>1. /\ Made(o, broker.conn) /\ o.sent = c.sent /\ p \in Packets
        /\ Settles(p, o) /\ TokensOK(o.up[o.sock], o.down[o.sock], o.sent)
        /\ \/ HandlePublish(o, p) \/ HandlePuback(o, p)
           \/ HandlePubrec(o, p) \/ HandlePubrel(o, p)
           \/ HandlePubcomp(o, p) \/ HandleRequestAck(o, p)
    BY <1>1, PacketOff
  <2> HIDE DEF o, p
  <2> QED
    BY <2>1, HandlersTokens
<1>2. CASE ~c.connected
  BY <1>2, ConnackTokens
<1> QED
  BY <1>1, <1>2

-----------------------------------------------------------------------------
\* The start.
LEMMA TidyInit == Init => Tidy
<1> SUFFICES ASSUME Init PROVE Tidy
  OBVIOUS
<1>1. c.connected = FALSE /\ c.sent = Empty /\ store.sent = Empty
  BY DEF Init, NewClient
<1>2. DOMAIN Empty = {}
  BY DEF Empty
<1> QED
  BY <1>1, <1>2 DEF Tidy, TokenInv, TokenOK, PendingOK, StoreExact

\* Every step.
LEMMA TidyNext ==
    ASSUME Typed, ConnInv, StoreCovers, Tidy, [Next]_vars, IdsFit
    PROVE  Tidy'
<1>1. CASE AppConnect \/ AppRequest \/ AppDisconnect
  BY <1>1, AppConnectTokens, RequestTokens, AppDisconnectTokens
<1>2. ASSUME NEW q \in Qualities, AppSend(q) \/ BrokerPublish(q)
      PROVE  Tidy'
  <2>1. q \in 0..2
    BY ConstantsAre
  <2> QED
    BY <1>2, <2>1, SendTokens, PublishesTokens
<1>3. ASSUME NEW s \in Sockets,
             \/ SocketOpen(s) \/ SocketClosed(s) \/ HandleMessage(s)
             \/ BrokerReceive(s) \/ Break(s) \/ Silence(s) \/ SilenceEnds(s)
      PROVE  Tidy'
  BY <1>3, SocketOpenTokens, SocketClosedTokens, MessageTokens, ReceiveTokens,
     FaultsTokens
<1>4. CASE Timer \/ SlowConnect
  BY <1>4, TimersTokens
<1>5. CASE BrokerSeesEnd
  BY <1>5, SameSent DEF BrokerSeesEnd, Tidy, TokenInv
<1>6. CASE Crash
  BY <1>6, CrashTokens
<1>7. CASE UNCHANGED vars
  BY <1>7 DEF vars, Tidy, TokenInv, StoreExact
<1> QED
  BY <1>1, <1>2, <1>3, <1>4, <1>5, <1>6, <1>7 DEF Next, SocketEvent

\* The whole inductive invariant, with both assumptions.
THEOREM ClientInvariant ==
    ASSUME NoRetryFaults, IdsFit
    PROVE  Spec => []ClientInv
<1>1. Init => Tidy
  BY TidyInit
<1>2. Typed /\ ConnInv /\ StoreCovers /\ Tidy /\ [Next]_vars => Tidy'
  BY TidyNext
<1>3. Typed /\ ConnInv /\ Tidy => ClientInv
  BY DEF ClientInv
<1> QED
  BY <1>1, <1>2, <1>3, TypedCorrect, ConnCorrect, StoreAlwaysCovers, PTL DEF Spec

\* What is in localStorage is in memory: no restart brings back a message that
\* was settled.  It takes that no attempt to retry fails after sending its
\* CONNECT or outlasts its connect timeout, and that two bytes hold every
\* identifier that is given out; otherwise an acknowledgement may belong to an
\* earlier owner of its identifier, or to a second copy of a packet, and be
\* taken for an answer to a message in memory that another connection still
\* holds.
THEOREM Exact ==
    ASSUME NoRetryFaults, IdsFit
    PROVE  Spec => []StoreExact
<1>1. ClientInv => StoreExact
  BY DEF ClientInv, Tidy
<1> QED
  BY <1>1, ClientInvariant, PTL

-----------------------------------------------------------------------------
\* Steps after which no more is to come than before.

\* The entries of v of these kinds are entries of u, as many places further on.
Part(v, u, kinds) ==
    \E n \in Nat : \A i \in DOMAIN v :
       v[i].kind \in kinds => i + n \in DOMAIN u /\ v[i] = u[i + n]
Asking == {"PUBLISH", "PUBREL", "REQUEST"}
Receipts == {"PUBACK", "PUBREC", "PUBCOMP"}

\* A sequence is part of itself.
LEMMA PartSame ==
    ASSUME NEW u \in Seq(Packets), NEW kinds
    PROVE  Part(u, u, kinds)
<1>1. 0 \in Nat /\ \A i \in DOMAIN u : i + 0 = i
  BY SeqIs
<1> QED
  BY <1>1 DEF Part

\* A sequence with none of the kinds is part of any.
LEMMA PartNone ==
    ASSUME NEW v, NEW u, NEW kinds, \A i \in DOMAIN v : v[i].kind \notin kinds
    PROVE  Part(v, u, kinds)
<1>1. 0 \in Nat
  OBVIOUS
<1> QED
  BY <1>1 DEF Part

\* The first entry is taken off.
LEMMA PartTail ==
    ASSUME NEW u \in Seq(Packets), u # <<>>, NEW kinds
    PROVE  Part(Tail(u), u, kinds)
<1> DEFINE v == Tail(u)
<1>1. /\ v \in Seq(Packets) /\ Len(u) > 0 /\ Len(v) = Len(u) - 1
      /\ \A i \in 1..Len(v) : v[i] = u[i + 1]
  BY TailIs
<1>2. DOMAIN v = 1..Len(v) /\ DOMAIN u = 1..Len(u) /\ Len(u) \in Nat
  BY <1>1, SeqIs
<1> HIDE DEF v
<1>3. \A i \in DOMAIN v : i + 1 \in DOMAIN u /\ v[i] = u[i + 1]
  BY <1>1, <1>2
<1>4. 1 \in Nat
  OBVIOUS
<1> QED
  BY <1>3, <1>4 DEF Part, v

\* An entry of another kind is put behind.
LEMMA PartPut ==
    ASSUME NEW u \in Seq(Packets), NEW p \in Packets, NEW kinds,
           p.kind \notin kinds
    PROVE  Part(Append(u, p), u, kinds)
<1> DEFINE v == Append(u, p)
<1>1. /\ v \in Seq(Packets) /\ Len(v) = Len(u) + 1
      /\ \A i \in 1..Len(u) : v[i] = u[i]
      /\ v[Len(u) + 1] = p
  OBVIOUS
<1>2. DOMAIN v = 1..Len(v) /\ DOMAIN u = 1..Len(u) /\ Len(u) \in Nat
  BY <1>1, SeqIs
<1> HIDE DEF v
<1>3. \A i \in DOMAIN v : v[i].kind \in kinds =>
         i + 0 \in DOMAIN u /\ v[i] = u[i + 0]
  BY <1>1, <1>2
<1>4. 0 \in Nat
  OBVIOUS
<1> QED
  BY <1>3, <1>4 DEF Part, v

-----------------------------------------------------------------------------
\* A step after which no more is to come than before, and no less is known: o
\* and conn are the object and the broker's connection, r and n the new ones.
Calm(r, n, o, conn) ==
    /\ r.clean = o.clean
    /\ r.sent = o.sent \/ (o.clean /\ ~r.connected /\ r.sent = Empty)
    /\ r.buffered = o.buffered \/ r.buffered = <<>>
    /\ n = conn \/ (n = NoSocket /\ (conn # NoSocket => r.up[conn] = <<>>))
    /\ \A s \in Sockets :
          \/ r.up[s] = <<>> \/ r.up[s] = o.up[s]
          \/ s # conn /\ Hello(r.up[s], r.clean)
          \/ /\ s = conn /\ Part(r.up[s], o.up[s], Asking)
             /\ Admitted(r) => s = r.sock \/ o.up[s] # <<>>
    /\ Admitted(r) =>
          Admitted(o) /\ r.sock = o.sock /\ (~r.connected => ~o.connected)
    /\ r.connected =>
          o.connected /\ Part(r.down[o.sock], o.down[o.sock], Receipts)

\* What StreamOK says survives a calm step.
LEMMA CalmStream ==
    ASSUME NEW r, NEW n, NEW o, NEW conn, Calm(r, n, o, conn),
           conn \in Sockets \union {NoSocket},
           NEW rec, StreamOK(o, conn, rec)
    PROVE  StreamOK(r, n, rec)
<1>0. NoSocket \notin Sockets
  BY DEF NoSocket, Sockets
<1>1. QuietOK(r, n)
  <2> SUFFICES ASSUME NEW s \in Sockets, s # n
               PROVE  r.up[s] = <<>> \/ Hello(r.up[s], r.clean)
    BY DEF QuietOK
  <2>1. s = conn => r.up[s] = <<>>
    BY <1>0 DEF Calm
  <2>2. s # conn => o.up[s] = <<>> \/ Hello(o.up[s], o.clean)
    BY DEF StreamOK, QuietOK
  <2> QED
    BY <2>1, <2>2 DEF Calm
<1>2. AdmittedOK(r, n)
  <2> SUFFICES ASSUME Admitted(r), n # r.sock
               PROVE  Unread(r, n) = <<>>
    BY DEF AdmittedOK
  <2>1. CASE n = NoSocket
    BY <2>1 DEF Unread
  <2>2. CASE n # NoSocket
    <3>1. n = conn /\ n \in Sockets /\ r.sock = o.sock /\ Admitted(o)
      BY <2>2 DEF Calm
    <3>2. o.up[n] = <<>>
      BY <2>2, <3>1 DEF StreamOK, AdmittedOK, Unread
    <3>3. r.up[n] = <<>> \/ r.up[n] = o.up[n]
      BY <3>1, <3>2 DEF Calm
    <3> QED
      BY <2>2, <3>2, <3>3 DEF Unread
  <2> QED
    BY <2>1, <2>2
<1>3. FreshOK(r, n, rec)
  <2> SUFFICES ASSUME r.clean, ~r.connected, Admitted(r), n = r.sock
               PROVE  rec = {}
    BY DEF FreshOK
  <2>1. r.sock # NoSocket
    BY DEF Admitted
  <2>2. n = conn /\ o.clean /\ ~o.connected /\ Admitted(o) /\ r.sock = o.sock
    BY <2>1 DEF Calm
  <2> QED
    BY <2>2 DEF StreamOK, FreshOK
<1> QED
  BY <1>1, <1>2, <1>3 DEF StreamOK

\* What the parts that speak of packets on the way come to for fewer of them.
LEMMA PartUnread ==
    ASSUME NEW u \in Seq(Packets), NEW v \in Seq(Packets), Part(v, u, Asking),
           NEW rec, NEW oq, NEW tk
    PROVE  /\ UnreadOK(u, rec, oq, tk) => UnreadOK(v, rec, oq, tk)
           /\ \A b : BufferOK(b, u, oq, tk) => BufferOK(b, v, oq, tk)
           /\ \A f : FitAll(u, Asks, f) => FitAll(v, Asks, f)
<1>1. PICK n \in Nat : \A i \in DOMAIN v :
         v[i].kind \in Asking => i + n \in DOMAIN u /\ v[i] = u[i + n]
  BY DEF Part
<1>2. \A i \in DOMAIN v : /\ v[i] \in Asks => v[i].kind \in Asking
                          /\ v[i].kind = "PUBLISH" => v[i].kind \in Asking
  BY DEF Asks, Asking
<1>3. \A i, j \in DOMAIN v : i + n = j + n => i = j
  BY SeqIs
<1>4. Lone(u, Asks) => Lone(v, Asks)
  BY <1>1, <1>2, <1>3 DEF Lone
<1>5. \A k \in Carried(v) : k + n \in Carried(u) /\ v[k] = u[k + n]
  BY <1>1, <1>2 DEF Carried
<1>6. Carried(v) \subseteq DOMAIN v
  BY DEF Carried
<1>7. UnreadOK(u, rec, oq, tk) => UnreadOK(v, rec, oq, tk)
  <2> SUFFICES ASSUME UnreadOK(u, rec, oq, tk) PROVE UnreadOK(v, rec, oq, tk)
    OBVIOUS
  <2>1. \A k \in Carried(v) : Takable(v[k], rec, oq, tk)
    BY <1>5 DEF UnreadOK
  <2>2. \A k, l \in Carried(v) : v[k].msg = v[l].msg => k = l
    BY <1>3, <1>5, <1>6 DEF UnreadOK
  <2> QED
    BY <1>4, <2>1, <2>2 DEF UnreadOK
<1>8. \A b : BufferOK(b, u, oq, tk) => BufferOK(b, v, oq, tk)
  BY <1>5 DEF BufferOK
<1>9. \A f : FitAll(u, Asks, f) => FitAll(v, Asks, f)
  BY <1>1, <1>2 DEF FitAll
<1> QED
  BY <1>7, <1>8, <1>9

\* Fewer receipts on the way are still receipts of what was done.
LEMMA PartReceipts ==
    ASSUME NEW d, NEW e, Part(e, d, Receipts), NEW f, NEW rec, NEW tk
    PROVE  /\ ReceiptsOK(d, f, tk) => ReceiptsOK(e, f, tk)
           /\ ReleasesOK(d, rec) => ReleasesOK(e, rec)
<1>1. \A i \in DOMAIN e : e[i].kind \in Receipts =>
         \E j \in DOMAIN d : e[i] = d[j]
  BY DEF Part
<1> QED
  BY <1>1 DEF ReceiptsOK, ReleasesOK, Receipts

\* With nothing to read.
LEMMA NoneUnread ==
    ASSUME NEW rec, NEW oq, NEW tk
    PROVE  /\ UnreadOK(<<>>, rec, oq, tk)
           /\ \A b, u : BufferOK(b, u, oq, tk) => BufferOK(b, <<>>, oq, tk)
           /\ \A u : BufferOK(<<>>, u, oq, tk)
           /\ \A f : FitAll(<<>>, Asks, f)
<1>1. DOMAIN <<>> = {}
  OBVIOUS
<1>2. Carried(<<>>) = {}
  BY <1>1 DEF Carried
<1> QED
  BY <1>1, <1>2 DEF UnreadOK, BufferOK, FitAll, Lone

\* What MessagesOK says survives a calm step.
LEMMA CalmMessages ==
    ASSUME NEW r, NEW n, NEW o, NEW conn, Calm(r, n, o, conn),
           conn \in Sockets \union {NoSocket}, ObjectOK(o), ObjectOK(r),
           o.connected => o.sock # NoSocket,
           NEW rec, NEW oq, NEW tk, MessagesOK(o, conn, rec, oq, tk)
    PROVE  MessagesOK(r, n, rec, oq, tk)
<1> DEFINE u == Unread(o, conn)
           v == Unread(r, n)
<1>0. NoSocket \notin Sockets
  BY DEF NoSocket, Sockets
<1>1. u \in Seq(Packets) /\ v \in Seq(Packets) /\ Part(v, u, Asking)
  <2>1. <<>> \in Seq(Packets) /\ Part(<<>>, u, Asking)
    <3>1. \A i \in DOMAIN <<>> : <<>>[i].kind \notin Asking
      OBVIOUS
    <3> QED
      BY <3>1, PartNone
  <2>2. conn \in Sockets => o.up[conn] \in Seq(Packets) /\ r.up[conn] \in Seq(Packets)
    BY DEF ObjectOK
  <2>3. CASE n = NoSocket
    BY <2>1, <2>2, <2>3 DEF Unread
  <2>4. CASE n # NoSocket
    <3>1. n = conn /\ conn \in Sockets /\ u = o.up[conn] /\ v = r.up[conn]
      BY <2>4 DEF Calm, Unread
    <3>2. r.up[conn] = <<>> \/ r.up[conn] = o.up[conn]
             \/ Part(r.up[conn], o.up[conn], Asking)
      BY <3>1 DEF Calm
    <3> QED
      BY <2>1, <2>2, <3>1, <3>2, PartSame
  <2> QED
    BY <2>3, <2>4
<1> HIDE DEF u, v
<1>2. /\ HeldOK(o.sent, oq, tk)
      /\ UnreadOK(u, rec, oq, tk) /\ BufferOK(o.buffered, u, oq, tk)
      /\ Lasts(o, conn) => SessionOK(o.sent, rec, tk)
      /\ ~o.clean => FitAll(u, Asks, o.sent)
      /\ RepliesOK(o, conn, rec, tk)
  BY DEF MessagesOK, u
<1>3. /\ UnreadOK(v, rec, oq, tk) /\ BufferOK(o.buffered, v, oq, tk)
      /\ \A f : FitAll(u, Asks, f) => FitAll(v, Asks, f)
  BY <1>1, <1>2, PartUnread
<1>4. BufferOK(r.buffered, v, oq, tk)
  BY <1>3, NoneUnread DEF Calm
<1>5. HeldOK(r.sent, oq, tk)
  <2>1. Publishes(Empty) = {}
    BY DEF Publishes, Empty
  <2>2. HeldOK(Empty, oq, tk)
    BY <2>1 DEF HeldOK
  <2> QED
    BY <1>2, <2>2 DEF Calm
<1>6. Lasts(r, n) => Lasts(o, conn) /\ r.sent = o.sent
  <2>1. r.connected => Admitted(r)
    BY DEF Admitted
  <2>2. o.clean \in BOOLEAN /\ r.clean \in BOOLEAN
    BY DEF ObjectOK
  <2> QED
    BY <2>1, <2>2 DEF Lasts, Calm
<1>7. ~r.clean => FitAll(v, Asks, r.sent)
  BY <1>2, <1>3 DEF Calm
<1>8. RepliesOK(r, n, rec, tk)
  <2> SUFFICES ASSUME r.connected
               PROVE  /\ ReceiptsOK(r.down[r.sock], r.sent, tk) /\ r.buffered = <<>>
                      /\ Lasts(r, n) => ReleasesOK(r.down[r.sock], rec)
    BY DEF RepliesOK
  <2>1. r.sock = o.sock /\ o.connected /\ r.sent = o.sent
        /\ Part(r.down[o.sock], o.down[o.sock], Receipts)
    BY DEF Calm, Admitted
  <2>2. /\ ReceiptsOK(o.down[o.sock], o.sent, tk) /\ o.buffered = <<>>
        /\ Lasts(o, conn) => ReleasesOK(o.down[o.sock], rec)
    BY <1>2, <2>1 DEF RepliesOK
  <2>3. r.buffered = <<>>
    BY <2>2 DEF Calm
  <2>4. /\ ReceiptsOK(r.down[o.sock], o.sent, tk)
        /\ ReleasesOK(o.down[o.sock], rec) => ReleasesOK(r.down[o.sock], rec)
    BY <2>1, <2>2, PartReceipts
  <2> QED
    BY <1>6, <2>1, <2>2, <2>3, <2>4
<1>9. Lasts(r, n) => SessionOK(r.sent, rec, tk)
  BY <1>2, <1>6
<1> QED
  BY <1>3, <1>4, <1>5, <1>7, <1>8, <1>9 DEF MessagesOK, v

\* A step of everything after which no more is to come than before.
Eases ==
    /\ Calm(c', (broker.conn)', c, broker.conn)
    /\ (broker.rec)' = broker.rec /\ UNCHANGED <<outQos, taken>>

\* A step that eases keeps the fourth part of the invariant.
LEMMA EasedSend ==
    ASSUME Typed, Typed', ConnInv, SendInv, Eases
    PROVE  SendInv'
<1>1. ObjectOK(c) /\ ObjectOK(c') /\ broker.conn \in Sockets \union {NoSocket}
  BY DEF Typed, TypeInv, BrokerOK
<1>2. c.connected => c.sock # NoSocket
  BY DEF ConnInv, ConnOK, UsableOK, LinkedOK
<1>3. StreamOK(c', (broker.conn)', (broker.rec)')
  BY <1>1, CalmStream DEF Eases, SendInv, StreamInv
<1>4. MessagesOK(c', (broker.conn)', (broker.rec)', outQos', taken')
  BY <1>1, <1>2, CalmMessages DEF Eases, SendInv
<1>5. UnsentOK'
  BY DEF Eases, SendInv, UnsentOK
<1> QED
  BY <1>3, <1>4, <1>5 DEF SendInv, StreamInv

\* A step that changes timers or flags only is calm.
LEMMA CalmSame ==
    ASSUME NEW o, NEW r, ObjectOK(o), o.connected => o.sock # NoSocket,
           r.clean = o.clean, r.sent = o.sent, r.buffered = o.buffered,
           r.up = o.up, r.down = o.down, r.connected = o.connected,
           r.sock = o.sock, NEW conn
    PROVE  Calm(r, conn, o, conn)
<1>1. Admitted(r) => Admitted(o)
  BY DEF Admitted
<1>2. o.connected => Part(o.down[o.sock], o.down[o.sock], Receipts)
  BY SocketIs, PartSame DEF ObjectOK
<1> QED
  BY <1>1, <1>2 DEF Calm

\* r is o with its connection given up, if it had one.
Dropped(r, o) ==
    /\ r.connected = FALSE /\ r.clean = o.clean /\ r.sent = o.sent
    /\ r.up = o.up /\ (r.buffered = o.buffered \/ r.buffered = <<>>)
    /\ Admitted(r) => ~o.connected /\ r.sock = o.sock /\ r.down = o.down

\* Giving up the connection after a calm step is calm.
LEMMA DroppedCalm ==
    ASSUME NEW r, NEW o, NEW b, NEW n, NEW conn,
           Dropped(r, o), Calm(o, n, b, conn)
    PROVE  Calm(r, n, b, conn)
<1>1. Admitted(r) => Admitted(o) /\ ~o.connected /\ r.sock = o.sock
  BY DEF Dropped, Admitted
<1>2. /\ r.clean = b.clean
      /\ r.sent = b.sent \/ (b.clean /\ r.sent = Empty)
      /\ r.buffered = b.buffered \/ r.buffered = <<>>
      /\ n = conn \/ (n = NoSocket /\ (conn # NoSocket => r.up[conn] = <<>>))
  BY DEF Dropped, Calm
<1>3. /\ Admitted(o) =>
          Admitted(b) /\ o.sock = b.sock /\ (~o.connected => ~b.connected)
      /\ ~r.connected
  BY DEF Calm, Dropped
<1>4. ASSUME NEW s \in Sockets
      PROVE  \/ r.up[s] = <<>> \/ r.up[s] = b.up[s]
             \/ s # conn /\ Hello(r.up[s], r.clean)
             \/ /\ s = conn /\ Part(r.up[s], b.up[s], Asking)
                /\ Admitted(r) => s = r.sock \/ b.up[s] # <<>>
  BY <1>1 DEF Dropped, Calm
<1> QED
  BY <1>1, <1>2, <1>3, <1>4 DEF Calm

\* _doConnect begins a connection the broker knows nothing of.
LEMMA DoConnectDrops ==
    ASSUME NEW o, ObjectOK(o), Free(o) # {}
    PROVE  /\ Dropped(DoConnect(o), o) /\ DoConnect(o).buffered = o.buffered
           /\ ~Admitted(DoConnect(o))
<1> DEFINE r == DoConnect(o)
           s == Min(Free(o))
<1>1. s \in Sockets /\ DOMAIN o = Fields
  BY FreeIs DEF ObjectOK
<1> HIDE DEF s
<1>2. r = [o EXCEPT !.connected = FALSE, !.sock = s, !.pinger = "off",
                    !.connectTimer = "armed", !.ready[s] = "connecting",
                    !.on[s] = TRUE, !.link[s] = "up", !.down[s] = <<>>]
  BY DEF DoConnect, s
<1>3. /\ r.connected = FALSE /\ r.clean = o.clean /\ r.sent = o.sent
      /\ r.up = o.up /\ r.buffered = o.buffered
      /\ r.sock = s /\ r.down[s] = <<>>
  BY <1>1, <1>2 DEF ObjectOK, Fields
<1> HIDE DEF r
<1>4. ~Admitted(r)
  BY <1>3 DEF Admitted
<1> QED
  BY <1>3, <1>4 DEF Dropped, r

\* Detaching the socket gives up what is buffered.
LEMMA DetachDrops ==
    ASSUME NEW o, ObjectOK(o)
    PROVE  LET d == Detach(o)
           IN  /\ d.connected = o.connected /\ d.clean = o.clean
               /\ d.sent = o.sent /\ d.up = o.up /\ d.buffered = <<>>
               /\ d.sock = NoSocket
BY DEF Detach, ObjectOK, Fields

\* _disconnected gives up the connection, whatever it goes on to do.
LEMMA DisconnectedDrops ==
    ASSUME NEW o, NEW failed \in BOOLEAN, ObjectOK(o),
           Free(o) # {} \/ (o.connected /\ ~failed),
           failed => ~o.connected \/ ~o.reconnecting
    PROVE  Dropped(Disconnected(o, failed), o)
<1> DEFINE d == Detach(o)
           r == Disconnected(o, failed)
           dn == [d EXCEPT !.connected = FALSE]
           dv == [d EXCEPT !.version = 3]
<1>1. ObjectOK(d) /\ Free(o) \subseteq Free(d)
  BY DetachOK
<1>2. /\ d.connected = o.connected /\ d.clean = o.clean
      /\ d.sent = o.sent /\ d.up = o.up /\ d.buffered = <<>>
      /\ d.sock = NoSocket
  BY DetachDrops
<1>3. o.connected \in BOOLEAN /\ o.reconnecting \in BOOLEAN
  BY DEF ObjectOK
<1>4. r = IF failed /\ o.reconnecting THEN RetryLater(o)
          ELSE IF o.connected
          THEN IF failed /\ AutoReconnect THEN Reconnect(dn) ELSE dn
          ELSE IF Fallback /\ o.version = 4 THEN DoConnect(dv) ELSE d
  BY DEF Disconnected
<1> HIDE DEF d, r
<1>5. /\ ObjectOK(dn) /\ Free(dn) = Free(d)
      /\ dn.connected = FALSE /\ dn.clean = o.clean
      /\ dn.sent = o.sent /\ dn.up = o.up /\ dn.buffered = <<>>
      /\ dn.sock = NoSocket
  <2>1. /\ ObjectOK(dn) /\ dn.ready = d.ready /\ dn.up = d.up
        /\ dn.connected = FALSE /\ dn.clean = d.clean /\ dn.sent = d.sent
        /\ dn.buffered = d.buffered /\ dn.sock = d.sock
    BY <1>1 DEF ObjectOK, Fields
  <2> QED
    BY <1>2, <2>1 DEF Free
<1>6. /\ ObjectOK(dv) /\ Free(dv) = Free(d)
      /\ dv.clean = o.clean
      /\ dv.sent = o.sent /\ dv.up = o.up /\ dv.buffered = <<>>
  <2>1. /\ ObjectOK(dv) /\ dv.ready = d.ready /\ dv.up = d.up
        /\ dv.clean = d.clean /\ dv.sent = d.sent /\ dv.buffered = d.buffered
    BY <1>1 DEF ObjectOK, Fields
  <2> QED
    BY <1>2, <2>1 DEF Free
<1> HIDE DEF dn, dv
<1>7. CASE failed /\ o.reconnecting
  <2>1. r = RetryLater(o) /\ o.connected = FALSE
    BY <1>3, <1>4, <1>7
  <2>2. /\ r.connected = FALSE /\ r.clean = o.clean /\ r.sent = o.sent
        /\ r.up = o.up /\ r.buffered = o.buffered /\ r.sock = o.sock
        /\ r.down = o.down
    BY <2>1 DEF RetryLater, ObjectOK, Fields
  <2> QED
    BY <2>1, <2>2 DEF Dropped, r
<1>8. CASE ~(failed /\ o.reconnecting) /\ o.connected
  <2>1. CASE failed /\ AutoReconnect
    <3>1. Free(o) # {}
      BY <2>1
    <3>2. Free(dn) # {}
      BY <1>1, <1>5, <3>1
    <3> DEFINE e == [dn EXCEPT !.reconnecting = TRUE]
    <3>3. r = DoConnect(e)
      BY <1>4, <1>5, <1>8, <2>1 DEF Reconnect
    <3>4. /\ ObjectOK(e) /\ Free(e) = Free(dn) /\ e.clean = o.clean
          /\ e.sent = o.sent /\ e.up = o.up /\ e.buffered = <<>>
      <4>1. /\ ObjectOK(e) /\ e.ready = dn.ready /\ e.up = dn.up
            /\ e.clean = dn.clean /\ e.sent = dn.sent
            /\ e.buffered = dn.buffered
        BY <1>5 DEF ObjectOK, Fields
      <4> QED
        BY <1>5, <4>1 DEF Free
    <3> HIDE DEF e
    <3>5. Dropped(r, e) /\ r.buffered = e.buffered /\ ~Admitted(r)
      BY <3>2, <3>3, <3>4, DoConnectDrops
    <3> QED
      BY <3>4, <3>5 DEF Dropped, r
  <2>2. CASE ~(failed /\ AutoReconnect)
    <3>1. r = dn
      BY <1>4, <1>8, <2>2
    <3> QED
      BY <1>5, <3>1 DEF Dropped, Admitted, r
  <2> QED
    BY <2>1, <2>2
<1>9. CASE ~(failed /\ o.reconnecting) /\ ~o.connected
  <2>1. CASE Fallback /\ o.version = 4
    <3>1. r = DoConnect(dv) /\ Free(dv) # {}
      BY <1>1, <1>4, <1>6, <1>9, <2>1
    <3>2. Dropped(r, dv) /\ r.buffered = dv.buffered /\ ~Admitted(r)
      BY <1>6, <3>1, DoConnectDrops
    <3> QED
      BY <1>6, <3>2 DEF Dropped, r
  <2>2. CASE ~(Fallback /\ o.version = 4)
    <3>1. r = d
      BY <1>4, <1>9, <2>2
    <3> QED
      BY <1>2, <1>3, <1>9, <3>1 DEF Dropped, Admitted, r
  <2> QED
    BY <2>1, <2>2
<1> QED
  BY <1>7, <1>8, <1>9

-----------------------------------------------------------------------------
\* What the application, the sockets, the timers and the faults do.

\* A packet put in the queue of a connection that is made goes up its
\* socket, or is lost with it.
LEMMA SentIs ==
    ASSUME NEW o, NEW conn, Made(o, conn), NEW p \in Packets,
           NEW r, r = Schedule(o, <<p>>) \/ r = ScheduleInHandler(o, p)
    PROVE  LET s == o.sock
           IN  /\ r.sock = s /\ r.sent = o.sent /\ r.connected = o.connected
               /\ r.clean = o.clean /\ r.buffered = o.buffered
               /\ r.down = o.down
               /\ \A x \in Sockets : x # s => r.up[x] = o.up[x]
               /\ \/ r.up[s] = o.up[s]
                  \/ /\ conn = s
                     /\ r.up[s] = Append(o.up[s], [p EXCEPT !.id = @ % WireIds])
<1> DEFINE s == o.sock
           q == [p EXCEPT !.id = @ % WireIds]
<1>1. PICK e : /\ ObjectOK(e) /\ e.sock = o.sock /\ e.up = o.up
               /\ e.down = o.down /\ e.sent = o.sent
               /\ e.connected = o.connected /\ e.ready = o.ready
               /\ e.link = o.link /\ e.clean = o.clean
               /\ e.buffered = o.buffered /\ r = SocketSend(e, <<p>>)
  BY GoesOut
<1>2. s \in Sockets /\ (o.link[s] = "up" => conn = s)
  BY SocketIs DEF Made, LinkedOK
<1>3. Encoded(<<p>>) = <<q>> /\ q \in Packets
  BY OneEncoded
<1> HIDE DEF q
<1>4. r = [e EXCEPT !.pinger = IF KeepAlive THEN "reset" ELSE @,
                    !.up[s] = IF e.ready[s] = "open" /\ e.link[s] = "up"
                              THEN @ \o <<q>> ELSE @]
  BY <1>1, <1>3 DEF SocketSend
<1>5. e.up \in [Sockets -> Seq(Packets)] /\ e.up[s] \o <<q>> = Append(e.up[s], q)
  BY <1>1, <1>2, <1>3 DEF ObjectOK
<1>6. /\ r.sock = e.sock /\ r.sent = e.sent /\ r.connected = e.connected
      /\ r.clean = e.clean /\ r.buffered = e.buffered
      /\ r.down = e.down
      /\ \A x \in Sockets : x # s => r.up[x] = e.up[x]
      /\ \/ r.up[s] = e.up[s]
         \/ e.link[s] = "up" /\ r.up[s] = Append(e.up[s], q)
  <2>1. /\ r.sock = e.sock /\ r.sent = e.sent /\ r.connected = e.connected
        /\ r.clean = e.clean /\ r.buffered = e.buffered
        /\ r.down = e.down
        /\ r.up = [e.up EXCEPT ![s] =
                     IF e.ready[s] = "open" /\ e.link[s] = "up"
                     THEN @ \o <<q>> ELSE @]
    BY <1>1, <1>4, ZenonT(30) DEF ObjectOK, Fields
  <2> QED
    BY <1>2, <1>5, <2>1
<1> QED
  BY <1>1, <1>2, <1>6 DEF q

\* A packet sent that is none the broker takes a message from.
LEMMA SentCalm ==
    ASSUME NEW o, NEW conn, Made(o, conn), NEW p \in Packets, p.kind \notin Asking,
           NEW r, r = Schedule(o, <<p>>) \/ r = ScheduleInHandler(o, p)
    PROVE  Calm(r, conn, o, conn)
<1> DEFINE s == o.sock
           q == [p EXCEPT !.id = @ % WireIds]
<1>1. /\ r.sock = s /\ r.sent = o.sent /\ r.connected = o.connected
      /\ r.clean = o.clean /\ r.buffered = o.buffered
      /\ r.down = o.down
      /\ \A x \in Sockets : x # s => r.up[x] = o.up[x]
      /\ \/ r.up[s] = o.up[s]
         \/ conn = s /\ r.up[s] = Append(o.up[s], q)
  BY SentIs
<1>2. q \in Packets /\ q.kind = p.kind
  <2>1. q \in Packets
    BY OneEncoded
  <2>2. "kind" \in DOMAIN p
    BY DEF Packets
  <2> QED
    BY <2>1, <2>2
<1> HIDE DEF q
<1>3. s \in Sockets /\ o.up[s] \in Seq(Packets) /\ o.down[s] \in Seq(Packets)
  BY SocketIs DEF Made, LinkedOK, ObjectOK
<1>4. /\ Part(Append(o.up[s], q), o.up[s], Asking)
      /\ Part(o.down[s], o.down[s], Receipts)
  BY <1>2, <1>3, PartPut, PartSame
<1>5. o.connected /\ Admitted(o)
  BY DEF Made, Admitted
<1>6. ASSUME NEW x \in Sockets
      PROVE  \/ r.up[x] = o.up[x]
             \/ x = conn /\ Part(r.up[x], o.up[x], Asking) /\ x = r.sock
  BY <1>1, <1>4
<1> QED
  BY <1>1, <1>4, <1>5, <1>6 DEF Calm

-----------------------------------------------------------------------------
\* connect().
LEMMA AppConnectEases ==
    ASSUME Typed, AppConnect
    PROVE  Eases
<1> DEFINE t == IF c.reconnecting THEN "null" ELSE c.reconnectTimer
           o == [c EXCEPT !.reconnecting = FALSE, !.version = 4,
                          !.reconnectTimer = t]
<1>1. /\ c' = DoConnect(o) /\ UNCHANGED <<broker, outQos, taken>>
      /\ ~c.connected /\ Free(c) # {}
  BY DEF AppConnect
<1>2. ObjectOK(c) /\ DOMAIN c = Fields /\ t \in {"null", "idle", "armed"}
  BY DEF Typed, TypeInv, ObjectOK
<1> HIDE DEF t
<1>3. /\ ObjectOK(o) /\ o.clean = c.clean /\ o.sent = c.sent
      /\ o.buffered = c.buffered /\ o.up = c.up /\ o.down = c.down
      /\ o.connected = c.connected /\ o.sock = c.sock /\ o.ready = c.ready
  BY <1>2 DEF ObjectOK, Fields
<1> HIDE DEF o
<1>4. Free(o) = Free(c)
  BY <1>3 DEF Free
<1>5. Calm(o, broker.conn, c, broker.conn)
  BY <1>1, <1>2, <1>3, CalmSame
<1>6. Calm(c', broker.conn, c, broker.conn)
  BY <1>1, <1>3, <1>4, <1>5, DoConnectDrops, DroppedCalm
<1> QED
  BY <1>1, <1>6 DEF Eases

\* disconnect(), now or behind the first message.
LEMMA AppDisconnectEases ==
    ASSUME Typed, ConnInv, AppDisconnect
    PROVE  Eases
<1> DEFINE o == IF c.reconnecting
                THEN [c EXCEPT !.reconnecting = FALSE, !.reconnectTimer = "null"]
                ELSE c
           p == Control("DISCONNECT", 0)
           n == [o EXCEPT !.notify = TRUE]
           q == [n EXCEPT !.queue = @ \o <<p>>]
           e == [q EXCEPT !.queue = <<>>]
           b == broker.conn
<1>1. /\ c' = IF c.sock = NoSocket THEN o ELSE Schedule(n, <<p>>)
      /\ UNCHANGED <<broker, outQos, taken>>
  BY DEF AppDisconnect
<1>2. ObjectOK(c) /\ DOMAIN c = Fields
  BY DEF Typed, TypeInv, ObjectOK
<1>0. c.connected => c.sock # NoSocket
  BY DEF ConnInv, ConnOK, UsableOK, LinkedOK
<1>3. /\ ObjectOK(o) /\ o.sock = c.sock
      /\ o.connected = c.connected /\ o.queue = c.queue
      /\ o.ready = c.ready /\ o.up = c.up /\ o.down = c.down /\ o.link = c.link
      /\ o.clean = c.clean /\ o.sent = c.sent /\ o.buffered = c.buffered
  BY <1>2, ZenonT(30) DEF ObjectOK, Fields
<1> HIDE DEF o
<1>4. p \in Packets /\ <<p>> \in Seq(Packets) /\ <<>> \in Seq(Packets)
      /\ p.kind = "DISCONNECT"
  BY ControlIs DEF Kinds, Control, Packet
<1> HIDE DEF p
<1>5. /\ ObjectOK(n) /\ n.notify = TRUE /\ n.sock = c.sock
      /\ n.connected = c.connected /\ n.queue = c.queue
      /\ n.ready = c.ready /\ n.up = c.up /\ n.down = c.down /\ n.link = c.link
      /\ n.clean = c.clean /\ n.sent = c.sent /\ n.buffered = c.buffered
  BY <1>3 DEF ObjectOK, Fields
<1> HIDE DEF n
<1>6. /\ ObjectOK(q) /\ q.notify = TRUE /\ q.sock = c.sock
      /\ q.queue = c.queue \o <<p>>
      /\ q.connected = c.connected
      /\ q.ready = c.ready /\ q.up = c.up /\ q.down = c.down /\ q.link = c.link
      /\ q.clean = c.clean /\ q.sent = c.sent /\ q.buffered = c.buffered
  BY <1>4, <1>5, SMTT(30) DEF ObjectOK, Fields
<1> HIDE DEF q
<1>7. Calm(c', b, c, b)
  <2>1. CASE c.sock = NoSocket
    BY <1>0, <1>1, <1>2, <1>3, <2>1, CalmSame
  <2>2. CASE c.sock # NoSocket /\ ~c.connected
    <3>1. c' = q
      BY <1>1, <1>5, <2>2 DEF Schedule, q
    <3> QED
      BY <1>0, <1>2, <1>6, <3>1, CalmSame
  <2>3. CASE c.sock # NoSocket /\ c.connected
    <3>1. /\ c.queue = <<>> /\ c.ready[c.sock] = "open" /\ c.sock \in Sockets
          /\ c.link[c.sock] = "up" => b = c.sock
      BY <1>2, <2>3, SocketIs DEF ConnInv, ConnOK, UsableOK, LinkedOK
    <3>2. q.queue = <<p>> /\ Len(q.queue) = 1 /\ q.queue # <<>>
      BY <1>4, <1>6, <3>1
    <3>3. c' = ProcessQueue(q)
      BY <1>1, <1>5, <2>3 DEF Schedule, q
    <3>4. /\ ObjectOK(e) /\ e.sock = c.sock /\ e.connected = c.connected
          /\ e.ready = c.ready /\ e.up = c.up /\ e.down = c.down
          /\ e.link = c.link /\ e.clean = c.clean /\ e.sent = c.sent
          /\ e.buffered = c.buffered
      BY <1>4, <1>6 DEF ObjectOK, Fields
    <3> DEFINE w == SubSeq(q.queue, 1, Sendable(q))
               z == SocketSend(e, w)
    <3>5. /\ Sendable(q) = 1 /\ CanSend(q)
      BY <1>6, <2>3, <3>1 DEF Sendable, CanSend
    <3>6. c' = Disconnected(z, FALSE)
      BY <1>6, <3>2, <3>3, <3>5 DEF ProcessQueue, e
    <3> HIDE DEF e
    <3>7. w = <<p>>
      <4>1. q.queue \in Seq(Packets) /\ 1 \in 0..Len(q.queue)
        BY <1>6, <3>2 DEF ObjectOK
      <4>2. w \in Seq(Packets) /\ Len(w) = 1 /\ w[1] = q.queue[1]
        BY <3>5, <4>1, SubSeqIs
      <4> HIDE DEF w
      <4> QED
        BY <3>2, <4>2
    <3> HIDE DEF w
    <3> DEFINE s == c.sock
               x == [p EXCEPT !.id = @ % WireIds]
    <3>8. Encoded(<<p>>) = <<x>> /\ x \in Packets /\ x.kind \notin Asking
      <4>1. Encoded(<<p>>) = <<x>> /\ x \in Packets
        BY <1>4, OneEncoded
      <4>2. "kind" \in DOMAIN p
        BY <1>4 DEF Packets
      <4> QED
        BY <1>4, <4>1, <4>2 DEF Asking
    <3> HIDE DEF x
    <3>9. z = [e EXCEPT !.pinger = IF KeepAlive THEN "reset" ELSE @,
                        !.up[s] = IF e.ready[s] = "open" /\ e.link[s] = "up"
                                  THEN @ \o <<x>> ELSE @]
      BY <3>4, <3>7, <3>8 DEF SocketSend
    <3>10. c.up \in [Sockets -> Seq(Packets)] /\ c.up[s] \o <<x>> = Append(c.up[s], x)
           /\ c.down[s] \in Seq(Packets) /\ c.up[s] \in Seq(Packets)
      BY <1>2, <3>1, <3>8 DEF ObjectOK
    <3>11. ObjectOK(z)
      BY <1>4, <3>1, <3>4, <3>7, SocketSendOK
    <3>12. /\ z.sock = s /\ z.sent = c.sent /\ z.connected = c.connected
           /\ z.clean = c.clean /\ z.buffered = c.buffered
           /\ z.down = c.down
           /\ \A y \in Sockets : y # s => z.up[y] = c.up[y]
           /\ z.up[s] = c.up[s] \/ (b = s /\ z.up[s] = Append(c.up[s], x))
      <4>1. DOMAIN e = Fields
        BY <3>4 DEF ObjectOK
      <4>2. /\ z.sock = e.sock /\ z.sent = e.sent /\ z.connected = e.connected
            /\ z.clean = e.clean /\ z.buffered = e.buffered /\ z.down = e.down
            /\ z.up = [e.up EXCEPT ![s] =
                         IF e.ready[s] = "open" /\ e.link[s] = "up"
                         THEN @ \o <<x>> ELSE @]
        BY <3>9, <4>1 DEF Fields
      <4> QED
        BY <3>1, <3>4, <3>10, <4>2
    <3> HIDE DEF z
    <3>13. Calm(z, b, c, b)
      <4>1. /\ Part(Append(c.up[s], x), c.up[s], Asking)
            /\ Part(c.down[s], c.down[s], Receipts)
        BY <3>8, <3>10, PartPut, PartSame
      <4>2. ASSUME NEW y \in Sockets
            PROVE  \/ z.up[y] = c.up[y]
                   \/ y = b /\ Part(z.up[y], c.up[y], Asking) /\ y = z.sock
        BY <3>12, <4>1
      <4>3. c.connected /\ Admitted(c) /\ z.connected
        BY <2>3, <3>12 DEF Admitted
      <4> QED
        BY <3>12, <4>1, <4>2, <4>3 DEF Calm
    <3>14. Dropped(c', z)
      BY <2>3, <3>6, <3>11, <3>12, DisconnectedDrops
    <3> QED
      BY <3>13, <3>14, DroppedCalm
  <2> QED
    BY <2>1, <2>2, <2>3
<1> QED
  BY <1>1, <1>7 DEF Eases

\* What the invariant says of the object and its current socket.
LEMMA SockIs ==
    ASSUME Typed, ConnInv
    PROVE  /\ ObjectOK(c) /\ DOMAIN c = Fields
           /\ c.connected => c.sock # NoSocket
           /\ SettledOK(c) /\ NotifyOK(c) /\ CurrentOK(c)
           /\ HandshakeOK(c, broker.conn) /\ UsableOK(c, broker.conn)
           /\ ~c.connected \/ ~c.reconnecting
           /\ broker.conn \in Sockets \union {NoSocket} /\ NoSocket \notin Sockets
BY SMTT(30) DEF Typed, TypeInv, ObjectOK, BrokerOK, ConnInv, ConnOK, UsableOK, LinkedOK,
       NoSocket, Sockets

\* The flag of a clean session survives the encoding.
LEMMA ConnectFits == 1 < WireIds => \A i \in {0, 1} : i % WireIds = i
BY ConstantsAre

\* A socket that opens carries a CONNECT, and nothing else.
LEMMA SocketOpenEases ==
    ASSUME Typed, ConnInv, IdsFit, NEW s \in Sockets, SocketOpen(s)
    PROVE  Eases
<1> DEFINE o == [c EXCEPT !.ready[s] = "open"]
           p == Connect(o)
           i == IF o.clean THEN 1 ELSE 0
           b == broker.conn
<1>1. /\ c.ready[s] = "connecting" /\ c.link[s] = "up"
      /\ c' = IF CanSend(o) THEN SocketSend(o, <<p>>) ELSE o
      /\ UNCHANGED <<broker, outQos, taken>>
  BY DEF SocketOpen, Unstored
<1>2. /\ ObjectOK(c) /\ DOMAIN c = Fields
      /\ c.connected => c.sock # NoSocket
      /\ SettledOK(c) /\ HandshakeOK(c, b) /\ UsableOK(c, b)
  BY SockIs
<1>3. s = c.sock /\ c.connected = FALSE /\ s # NoSocket
  <2>1. c.on[s] /\ c.on[s] \in BOOLEAN
    BY <1>1, <1>2 DEF SettledOK, ObjectOK
  <2>2. s = c.sock
    BY <1>1, <1>2, <2>1 DEF SettledOK
  <2> QED
    BY <1>1, <1>2, <2>2 DEF UsableOK, LinkedOK, ObjectOK, NoSocket, Sockets
<1>4. /\ ObjectOK(o) /\ o.sock = s /\ o.ready[s] = "open" /\ o.link = c.link
      /\ o.clean = c.clean /\ o.sent = c.sent /\ o.buffered = c.buffered
      /\ o.up = c.up /\ o.down = c.down /\ o.connected = c.connected
  BY <1>2, <1>3 DEF ObjectOK, Fields
<1> HIDE DEF o
<1>5. CanSend(o) /\ c.up[s] = <<>> /\ c.down[s] = <<>> /\ b # s
  BY <1>1, <1>2, <1>3, <1>4 DEF CanSend, HandshakeOK
<1>6. p \in Packets /\ p.kind = "CONNECT" /\ p.id = i /\ <<p>> \in Seq(Packets)
  BY ControlIs DEF Connect, Control, Packet, Kinds
<1>7. i % WireIds = i
  <2>1. 1 < WireIds /\ WireIds \in Nat
    BY ConstantsAre DEF IdsFit
  <2> QED
    BY <2>1, ConnectFits
<1>8. i = 1 <=> c.clean
  BY <1>4
<1> HIDE DEF p, i
<1>9. Encoded(<<p>>) = <<p>> /\ <<>> \o <<p>> = <<p>>
  <2>1. p = [p EXCEPT !.id = p.id]
    BY <1>6 DEF Packets
  <2>2. [p EXCEPT !.id = @ % WireIds] = p
    BY <1>6, <1>7, <2>1
  <2> QED
    BY <1>6, <2>2, OneEncoded
<1> DEFINE r == SocketSend(o, <<p>>)
<1>10. r = [o EXCEPT !.pinger = IF KeepAlive THEN "reset" ELSE @,
                     !.up[s] = IF o.ready[s] = "open" /\ o.link[s] = "up"
                               THEN @ \o <<p>> ELSE @]
  BY <1>4, <1>9 DEF SocketSend
<1>11. c' = r
  BY <1>1, <1>5
<1> HIDE DEF r
<1>12. /\ r.sock = s /\ r.connected = FALSE /\ r.clean = c.clean
       /\ r.sent = c.sent /\ r.buffered = c.buffered /\ r.down = c.down
       /\ r.up[s] = <<p>>
       /\ \A x \in Sockets : x # s => r.up[x] = c.up[x]
  <2>1. /\ r.sock = o.sock /\ r.connected = o.connected /\ r.clean = o.clean
        /\ r.sent = o.sent /\ r.buffered = o.buffered /\ r.down = o.down
        /\ r.up = [o.up EXCEPT ![s] = @ \o <<p>>]
    BY <1>1, <1>4, <1>10 DEF ObjectOK, Fields
  <2>2. c.up \in [Sockets -> Seq(Packets)] /\ c.up[s] \o <<p>> = <<p>>
    BY <1>2, <1>5, <1>9 DEF ObjectOK
  <2>3. /\ r.up[s] = <<p>>
        /\ \A x \in Sockets : x # s => r.up[x] = c.up[x]
    BY <1>4, <2>1, <2>2
  <2> QED
    BY <1>3, <1>4, <2>1, <2>3
<1>13. Hello(r.up[s], r.clean)
  <2>1. r.up[s] = <<p>>
    BY <1>12
  <2>2. Len(<<p>>) = 1 /\ <<p>>[1] = p
    BY <1>6
  <2> QED
    BY <1>6, <1>8, <1>12, <2>1, <2>2 DEF Hello
<1>14. ~Admitted(r)
  BY <1>5, <1>12 DEF Admitted
<1>15. ASSUME NEW x \in Sockets
       PROVE  r.up[x] = c.up[x] \/ (x # b /\ Hello(r.up[x], r.clean))
  BY <1>5, <1>12, <1>13
<1>16. Calm(r, b, c, b)
  BY <1>12, <1>14, <1>15 DEF Calm
<1> QED
  BY <1>1, <1>11, <1>16 DEF Eases

\* A socket that closes is given up.
LEMMA SocketClosedEases ==
    ASSUME Typed, ConnInv, NEW s \in Sockets, SocketClosed(s)
    PROVE  Eases
<1> DEFINE o == [c EXCEPT !.ready[s] = "closed", !.on[s] = FALSE,
                          !.up[s] = <<>>]
           b == broker.conn
<1>1. /\ UNCHANGED <<broker, outQos, taken>>
      /\ c' = IF c.reconnecting THEN o ELSE Disconnected(o, TRUE)
      /\ c.reconnecting \/ Free(c) # {}
  BY DEF SocketClosed, Unstored, Room
<1>2. /\ ObjectOK(c) /\ DOMAIN c = Fields /\ (c.connected => c.sock # NoSocket)
  BY SockIs
<1>3. <<>> \in Seq(Packets)
  OBVIOUS
<1>4. /\ ObjectOK(o) /\ o.connected = c.connected
      /\ o.reconnecting = c.reconnecting /\ o.sock = c.sock
      /\ o.clean = c.clean /\ o.sent = c.sent /\ o.buffered = c.buffered
      /\ o.down = c.down
      /\ \A x \in Sockets : o.up[x] = IF x = s THEN <<>> ELSE c.up[x]
      /\ \A x \in Sockets : o.ready[x] = IF x = s THEN "closed" ELSE c.ready[x]
  BY <1>2, <1>3 DEF ObjectOK, Fields
<1> HIDE DEF o
<1>5. Calm(o, b, c, b)
  <2>1. Admitted(o) => Admitted(c)
    BY <1>4 DEF Admitted
  <2>2. c.connected => Part(c.down[c.sock], c.down[c.sock], Receipts)
    BY <1>2, SocketIs, PartSame DEF ObjectOK
  <2> QED
    BY <1>4, <2>1, <2>2 DEF Calm
<1>6. Free(c) \subseteq Free(o)
  BY <1>4 DEF Free
<1>7. CASE c.reconnecting
  BY <1>1, <1>5, <1>7 DEF Eases
<1>8. CASE ~c.reconnecting
  <2>1. Dropped(c', o)
    BY <1>1, <1>4, <1>6, <1>8, DisconnectedDrops
  <2> QED
    BY <1>1, <1>5, <2>1, DroppedCalm DEF Eases
<1> QED
  BY <1>7, <1>8

\* _disconnected after a change of timers or flags.
LEMMA GivenUpEases ==
    ASSUME Typed, ConnInv, NEW o, ObjectOK(o), Free(c) # {},
           o.clean = c.clean, o.sent = c.sent, o.buffered = c.buffered,
           o.up = c.up, o.down = c.down, o.connected = c.connected,
           o.sock = c.sock, o.ready = c.ready, o.reconnecting = c.reconnecting,
           c' = Disconnected(o, TRUE), UNCHANGED <<broker, outQos, taken>>
    PROVE  Eases
<1>1. /\ ObjectOK(c) /\ (c.connected => c.sock # NoSocket)
      /\ ~c.connected \/ ~c.reconnecting
  BY SockIs
<1>2. Calm(o, broker.conn, c, broker.conn)
  BY <1>1, CalmSame
<1>3. Free(o) = Free(c)
  BY DEF Free
<1>4. Dropped(c', o)
  BY <1>1, <1>3, DisconnectedDrops
<1> QED
  BY <1>2, <1>4, DroppedCalm DEF Eases

\* The timers give up a connection or begin one.
LEMMA TimersEase ==
    ASSUME Typed, ConnInv, Timer \/ SlowConnect
    PROVE  Eases
<1>1. /\ ObjectOK(c) /\ DOMAIN c = Fields /\ (c.connected => c.sock # NoSocket)
      /\ SettledOK(c)
  BY SockIs
<1>2. UNCHANGED <<broker, outQos, taken>>
  BY DEF Timer, SlowConnect, ConnectTimeout, ReconnectTimeout, DoPing, Unstored
<1>3. CASE ConnectTimeout \/ SlowConnect
  <2> DEFINE t == [c EXCEPT !.connectTimer = "idle"]
  <2>1. c' = Disconnected(t, TRUE) /\ Free(c) # {}
    BY <1>3 DEF ConnectTimeout, SlowConnect, Room
  <2>2. /\ ObjectOK(t) /\ t.clean = c.clean /\ t.sent = c.sent
        /\ t.buffered = c.buffered /\ t.up = c.up /\ t.down = c.down
        /\ t.connected = c.connected /\ t.sock = c.sock /\ t.ready = c.ready
        /\ t.reconnecting = c.reconnecting
    BY <1>1 DEF ObjectOK, Fields
  <2> HIDE DEF t
  <2> QED
    BY <1>2, <2>1, <2>2, GivenUpEases
<1>4. CASE ReconnectTimeout
  <2> DEFINE r == [c EXCEPT !.reconnectTimer = "idle"]
             e == [r EXCEPT !.reconnecting = TRUE]
  <2>1. c.orphans = 0 /\ (c.reconnectTimer = "armed" => ~c.connected)
    BY <1>1 DEF SettledOK
  <2>2. c' = Reconnect(r) /\ c.connected = FALSE /\ Free(c) # {}
    BY <1>1, <1>4, <2>1 DEF ReconnectTimeout, ObjectOK, Room
  <2>3. /\ ObjectOK(e) /\ e.clean = c.clean /\ e.sent = c.sent
        /\ e.buffered = c.buffered /\ e.up = c.up /\ e.down = c.down
        /\ e.connected = c.connected /\ e.sock = c.sock /\ e.ready = c.ready
        /\ r.connected = c.connected
    BY <1>1 DEF ObjectOK, Fields
  <2>4. c' = DoConnect(e)
    BY <2>2, <2>3 DEF Reconnect
  <2> HIDE DEF e
  <2>5. Free(e) = Free(c)
    BY <2>3 DEF Free
  <2>6. Calm(e, broker.conn, c, broker.conn)
    BY <1>1, <2>3, CalmSame
  <2>7. Dropped(c', e)
    BY <2>2, <2>3, <2>4, <2>5, DoConnectDrops
  <2> QED
    BY <1>2, <2>6, <2>7, DroppedCalm DEF Eases
<1>5. CASE DoPing
  <2> DEFINE w == [c EXCEPT !.pinger = "waiting"]
             e == [c EXCEPT !.pinger = "off"]
  <2>1. (c' = w \/ c' = Disconnected(e, TRUE)) /\ Free(c) # {}
    BY <1>5 DEF DoPing, Room
  <2>2. /\ ObjectOK(e) /\ e.clean = c.clean /\ e.sent = c.sent
        /\ e.buffered = c.buffered /\ e.up = c.up /\ e.down = c.down
        /\ e.connected = c.connected /\ e.sock = c.sock /\ e.ready = c.ready
        /\ e.reconnecting = c.reconnecting
    BY <1>1 DEF ObjectOK, Fields
  <2>3. /\ w.clean = c.clean /\ w.sent = c.sent
        /\ w.buffered = c.buffered /\ w.up = c.up /\ w.down = c.down
        /\ w.connected = c.connected /\ w.sock = c.sock
    BY <1>1 DEF Fields
  <2> HIDE DEF w, e
  <2>4. Calm(w, broker.conn, c, broker.conn)
    BY <1>1, <2>3, CalmSame
  <2>5. CASE c' = w
    BY <1>2, <2>4, <2>5 DEF Eases
  <2>6. CASE c' = Disconnected(e, TRUE)
    BY <1>2, <2>1, <2>2, <2>6, GivenUpEases
  <2> QED
    BY <2>1, <2>5, <2>6
<1> QED
  BY <1>3, <1>4, <1>5 DEF Timer

\* What a fault takes from a connection, and the broker's end of one.
LEMMA FaultsEase ==
    ASSUME Typed, ConnInv, NEW s \in Sockets,
           Break(s) \/ Silence(s) \/ SilenceEnds(s) \/ BrokerSeesEnd
    PROVE  Eases
<1> DEFINE b == broker.conn
<1>1. /\ ObjectOK(c) /\ DOMAIN c = Fields /\ (c.connected => c.sock # NoSocket)
      /\ b \in Sockets \union {NoSocket} /\ NoSocket \notin Sockets
  BY SockIs
<1>0. c.connected => /\ Part(c.down[c.sock], c.down[c.sock], Receipts)
                     /\ Part(<<>>, c.down[c.sock], Receipts)
  <2>1. \A i \in DOMAIN <<>> : <<>>[i].kind \notin Receipts
    OBVIOUS
  <2>2. Part(<<>>, c.down[c.sock], Receipts)
    BY <2>1, PartNone
  <2> QED
    BY <1>1, <2>2, SocketIs, PartSame DEF ObjectOK
<1>2. UNCHANGED <<outQos, taken>>
  BY DEF Break, Silence, Lose, SilenceEnds, BrokerSeesEnd
<1>3. CASE Break(s) \/ Silence(s)
  <2>1. PICK l : /\ c' = [c EXCEPT !.link[s] = l, !.up[s] = <<>>, !.down[s] = <<>>]
                 /\ UNCHANGED broker
    BY <1>3 DEF Break, Silence, Lose
  <2>2. /\ c'.connected = c.connected /\ c'.sock = c.sock
        /\ c'.clean = c.clean /\ c'.sent = c.sent /\ c'.buffered = c.buffered
        /\ \A x \in Sockets : c'.up[x] = IF x = s THEN <<>> ELSE c.up[x]
        /\ \A x \in Sockets : c'.down[x] = IF x = s THEN <<>> ELSE c.down[x]
    BY <1>1, <2>1 DEF ObjectOK, Fields
  <2>3. c.sock # NoSocket => c.sock \in Sockets
    BY <1>1, SocketIs
  <2>4. Admitted(c') => Admitted(c)
    BY <2>2, <2>3 DEF Admitted
  <2>5. Calm(c', b, c, b)
    BY <1>0, <1>1, <2>2, <2>3, <2>4 DEF Calm
  <2> QED
    BY <1>2, <2>1, <2>5 DEF Eases
<1>4. CASE SilenceEnds(s)
  <2>1. c' = [c EXCEPT !.link[s] = "down"] /\ UNCHANGED broker
    BY <1>4 DEF SilenceEnds
  <2>2. /\ c'.connected = c.connected /\ c'.sock = c.sock
        /\ c'.clean = c.clean /\ c'.sent = c.sent /\ c'.buffered = c.buffered
        /\ c'.up = c.up /\ c'.down = c.down
    BY <1>1, <2>1 DEF Fields
  <2>3. Calm(c', b, c, b)
    BY <1>1, <2>2, CalmSame
  <2> QED
    BY <1>2, <2>1, <2>3 DEF Eases
<1>5. CASE BrokerSeesEnd
  <2>1. /\ c.up[b] = <<>> /\ c' = c
        /\ broker' = [broker EXCEPT !.conn = NoSocket]
    BY <1>5 DEF BrokerSeesEnd
  <2>2. (broker.conn)' = NoSocket /\ (broker.rec)' = broker.rec
    BY <2>1 DEF Typed, TypeInv, BrokerOK
  <2>3. Calm(c, b, c, b)
    BY <1>1, CalmSame
  <2>4. Calm(c, NoSocket, c, b)
    BY <2>1, <2>3 DEF Calm
  <2> QED
    BY <1>2, <2>1, <2>2, <2>4 DEF Eases
<1> QED
  BY <1>3, <1>4, <1>5

\* One entry of another kind more.
LEMMA PartOn ==
    ASSUME NEW v \in Seq(Packets), NEW u, NEW kinds, Part(v, u, kinds),
           NEW p \in Packets, p.kind \notin kinds
    PROVE  Part(Append(v, p), u, kinds)
<1> DEFINE w == Append(v, p)
<1>1. /\ w \in Seq(Packets) /\ Len(w) = Len(v) + 1
      /\ \A i \in 1..Len(v) : w[i] = v[i]
      /\ w[Len(v) + 1] = p
  OBVIOUS
<1>2. DOMAIN w = 1..Len(w) /\ DOMAIN v = 1..Len(v) /\ Len(v) \in Nat
  BY <1>1, SeqIs
<1> HIDE DEF w
<1>3. PICK n \in Nat : \A i \in DOMAIN v :
         v[i].kind \in kinds => i + n \in DOMAIN u /\ v[i] = u[i + n]
  BY DEF Part
<1>4. \A i \in DOMAIN w : w[i].kind \in kinds => i \in DOMAIN v /\ w[i] = v[i]
  BY <1>1, <1>2
<1>5. \A i \in DOMAIN w :
         w[i].kind \in kinds => i + n \in DOMAIN u /\ w[i] = u[i + n]
  BY <1>3, <1>4
<1> QED
  BY <1>5 DEF Part, w

\* What the broker sends on a connection changes what is on its way down.
LEMMA DeliverIs ==
    ASSUME NEW o, ObjectOK(o), NEW s \in Sockets \union {NoSocket}, NEW e \in Packets
    PROVE  LET r == Deliver(o, s, <<e>>)
           IN  /\ r.connected = o.connected /\ r.sock = o.sock
               /\ r.clean = o.clean /\ r.sent = o.sent
               /\ r.buffered = o.buffered /\ r.up = o.up
               /\ \A x \in Sockets : x # s => r.down[x] = o.down[x]
               /\ s \in Sockets => \/ r.down[s] = o.down[s]
                                   \/ r.down[s] = Append(o.down[s], e)
<1> DEFINE r == Deliver(o, s, <<e>>)
<1>1. CASE Works(o, s)
  <2>1. s \in Sockets
    BY <1>1 DEF Works, NoSocket
  <2>2. o.down \in [Sockets -> Seq(Packets)] /\ o.down[s] \o <<e>> = Append(o.down[s], e)
    BY <2>1 DEF ObjectOK
  <2>3. /\ r.connected = o.connected /\ r.sock = o.sock
        /\ r.clean = o.clean /\ r.sent = o.sent
        /\ r.buffered = o.buffered /\ r.up = o.up
        /\ r.down = [o.down EXCEPT ![s] = @ \o <<e>>]
    BY <1>1 DEF Deliver, ObjectOK, Fields
  <2> QED
    BY <2>1, <2>2, <2>3
<1>2. CASE ~Works(o, s)
  BY <1>2 DEF Deliver
<1> QED
  BY <1>1, <1>2

\* The first packet on its way stays the first.
LEMMA FirstStays ==
    ASSUME NEW d \in Seq(Packets), NEW e \in Packets
    PROVE  Append(d, e)[1] = IF d = <<>> THEN e ELSE d[1]
OBVIOUS

\* The broker sends what announces nothing it did.
LEMMA DeliverCalm ==
    ASSUME NEW o, NEW n, NEW b, NEW conn, Calm(o, n, b, conn), ObjectOK(o),
           o.connected => o.sock # NoSocket,
           NEW s \in Sockets \union {NoSocket}, NEW e \in Packets,
           e.kind \notin Receipts, e.kind # "CONNACK"
    PROVE  Calm(Deliver(o, s, <<e>>), n, b, conn)
<1> DEFINE r == Deliver(o, s, <<e>>)
<1>1. /\ r.connected = o.connected /\ r.sock = o.sock
      /\ r.clean = o.clean /\ r.sent = o.sent
      /\ r.buffered = o.buffered /\ r.up = o.up
      /\ \A x \in Sockets : x # s => r.down[x] = o.down[x]
      /\ s \in Sockets => \/ r.down[s] = o.down[s]
                          \/ r.down[s] = Append(o.down[s], e)
  BY DeliverIs
<1>2. \A x \in Sockets : \/ r.down[x] = o.down[x]
                         \/ r.down[x] = Append(o.down[x], e)
  BY <1>1
<1> HIDE DEF r
<1>3. \A x \in Sockets : o.down[x] \in Seq(Packets)
  BY DEF ObjectOK
<1>4. o.sock # NoSocket => o.sock \in Sockets
  BY SocketIs
<1>5. Admitted(r) => Admitted(o)
  <2> DEFINE d == o.down[o.sock]
             w == Append(d, e)
  <2>1. CASE r.connected
    BY <1>1, <2>1 DEF Admitted
  <2>2. CASE r.sock # NoSocket /\ r.down[o.sock] # <<>>
               /\ r.down[o.sock][1].kind = "CONNACK"
    <3>1. d \in Seq(Packets) /\ (r.down[o.sock] = d \/ r.down[o.sock] = w)
      BY <1>1, <1>2, <1>3, <1>4, <2>2
    <3>2. w[1] = IF d = <<>> THEN e ELSE d[1]
      BY <3>1, FirstStays
    <3> HIDE DEF w
    <3>3. d # <<>> /\ d[1].kind = "CONNACK"
      BY <2>2, <3>1, <3>2
    <3> QED
      BY <1>1, <2>2, <3>3 DEF Admitted
  <2> QED
    BY <1>1, <2>1, <2>2 DEF Admitted
<1>6. r.connected => b.connected /\ Part(r.down[b.sock], b.down[b.sock], Receipts)
  <2> SUFFICES ASSUME r.connected
               PROVE  b.connected /\ Part(r.down[b.sock], b.down[b.sock], Receipts)
    OBVIOUS
  <2>1. b.connected /\ b.sock = o.sock /\ Part(o.down[b.sock], b.down[b.sock], Receipts)
    BY <1>1 DEF Calm, Admitted
  <2>2. Part(Append(o.down[b.sock], e), b.down[b.sock], Receipts)
    BY <1>1, <1>3, <1>4, <2>1, PartOn
  <2> QED
    BY <1>1, <1>2, <1>4, <2>1, <2>2
<1>7. /\ r.clean = b.clean
      /\ r.sent = b.sent \/ (b.clean /\ ~r.connected /\ r.sent = Empty)
      /\ r.buffered = b.buffered \/ r.buffered = <<>>
      /\ n = conn \/ (n = NoSocket /\ (conn # NoSocket => r.up[conn] = <<>>))
  BY <1>1 DEF Calm
<1>8. ASSUME NEW x \in Sockets
      PROVE  \/ r.up[x] = <<>> \/ r.up[x] = b.up[x]
             \/ x # conn /\ Hello(r.up[x], r.clean)
             \/ /\ x = conn /\ Part(r.up[x], b.up[x], Asking)
                /\ Admitted(r) => x = r.sock \/ b.up[x] # <<>>
  BY <1>1, <1>5 DEF Calm
<1>9. Admitted(r) =>
          Admitted(b) /\ r.sock = b.sock /\ (~r.connected => ~b.connected)
  BY <1>1, <1>5 DEF Calm
<1> QED
  BY <1>6, <1>7, <1>8, <1>9 DEF Calm, r

\* It ends a connection.
LEMMA DropCalm ==
    ASSUME NEW o, NEW n, NEW b, NEW conn, Calm(o, n, b, conn), ObjectOK(o),
           NEW s \in Sockets \union {NoSocket}, conn \in Sockets \union {NoSocket},
           NEW m, m = n \/ (m = NoSocket /\ s = n)
    PROVE  Calm(Drop(o, s), m, b, conn)
<1> DEFINE r == Drop(o, s)
<1>1. /\ r.connected = o.connected /\ r.sock = o.sock
      /\ r.clean = o.clean /\ r.sent = o.sent
      /\ r.buffered = o.buffered /\ r.down = o.down
      /\ s = NoSocket => r = o
      /\ \A x \in Sockets : r.up[x] = IF x = s THEN <<>> ELSE o.up[x]
  <2>1. s = NoSocket => r = o
    BY DEF Drop
  <2>2. s # NoSocket =>
          /\ r.connected = o.connected /\ r.sock = o.sock
          /\ r.clean = o.clean /\ r.sent = o.sent
          /\ r.buffered = o.buffered /\ r.down = o.down
          /\ r.up = [o.up EXCEPT ![s] = <<>>]
    BY DEF Drop, ObjectOK, Fields
  <2>3. o.up \in [Sockets -> Seq(Packets)] /\ NoSocket \notin Sockets
    BY DEF ObjectOK, NoSocket, Sockets
  <2> HIDE DEF r
  <2> QED
    BY <2>1, <2>2, <2>3
<1> HIDE DEF r
<1>2. Admitted(r) => Admitted(o)
  BY <1>1 DEF Admitted
<1>3. m = conn \/ (m = NoSocket /\ (conn # NoSocket => r.up[conn] = <<>>))
  <2>1. n = conn \/ (n = NoSocket /\ (conn # NoSocket => o.up[conn] = <<>>))
    BY DEF Calm
  <2>2. CASE m = n /\ n = conn
    BY <2>2
  <2>3. CASE m = n /\ n # conn
    <3>1. conn # NoSocket => o.up[conn] = <<>> \/ r.up[conn] = <<>>
      BY <2>1, <2>3
    <3>2. conn \in Sockets => r.up[conn] \in {o.up[conn], <<>>}
      BY <1>1
    <3> QED
      BY <2>1, <2>3, <3>1, <3>2
  <2>4. CASE m # n
    <3>1. m = NoSocket /\ s = n /\ n # NoSocket
      BY <2>4
    <3> QED
      BY <1>1, <2>1, <3>1
  <2> QED
    BY <2>2, <2>3, <2>4
<1>4. /\ r.clean = b.clean
      /\ r.sent = b.sent \/ (b.clean /\ ~r.connected /\ r.sent = Empty)
      /\ r.buffered = b.buffered \/ r.buffered = <<>>
  BY <1>1 DEF Calm
<1>5. ASSUME NEW x \in Sockets
      PROVE  \/ r.up[x] = <<>> \/ r.up[x] = b.up[x]
             \/ x # conn /\ Hello(r.up[x], r.clean)
             \/ /\ x = conn /\ Part(r.up[x], b.up[x], Asking)
                /\ Admitted(r) => x = r.sock \/ b.up[x] # <<>>
  BY <1>1, <1>2 DEF Calm
<1>6. Admitted(r) =>
          Admitted(b) /\ r.sock = b.sock /\ (~r.connected => ~b.connected)
  BY <1>1, <1>2 DEF Calm
<1>7. r.connected => b.connected /\ Part(r.down[b.sock], b.down[b.sock], Receipts)
  BY <1>1 DEF Calm
<1> QED
  BY <1>3, <1>4, <1>5, <1>6, <1>7 DEF Calm, r

-----------------------------------------------------------------------------
\* What the broker does: it announces, admits, takes and releases.

\* The broker announces a message.
LEMMA PublishEases ==
    ASSUME Typed, ConnInv, NEW q \in 0..2, BrokerPublish(q)
    PROVE  Eases
<1> DEFINE used == {broker.out[i].id : i \in DOMAIN broker.out}
           id == IF q = 0 THEN 0 ELSE Min((1..InMsgs) \ used)
           e(m) == Packet("PUBLISH", id, m, q)
           b == broker.conn
<1> PICK m \in 1..InMsgs :
       /\ inQos[m] = Unsent /\ c' = Deliver(c, broker.conn, <<e(m)>>)
       /\ broker' = IF q = 0 THEN broker
                    ELSE [broker EXCEPT !.out = Append(@,
                            [id |-> id, msg |-> m, qos |-> q, rel |-> FALSE])]
  BY DEF BrokerPublish
<1> DEFINE p == e(m)
<1>1. /\ c' = Deliver(c, b, <<p>>) /\ UNCHANGED <<outQos, taken>>
      /\ (broker.conn)' = b /\ (broker.rec)' = broker.rec
  BY DEF BrokerPublish, Typed, TypeInv, BrokerOK
<1>2. id \in Nat
  <2>1. InMsgs \in Nat
    BY ConstantsAre
  <2>2. (1..InMsgs) \ used # {}
    BY UnusedId
  <2>3. (1..InMsgs) \ used \in SUBSET Nat
    BY <2>1
  <2>4. Min((1..InMsgs) \ used) \in (1..InMsgs) \ used
    BY <2>2, <2>3, MinIs
  <2> QED
    BY <2>3, <2>4
<1> HIDE DEF id
<1>3. p \in Packets /\ p.kind = "PUBLISH"
  <2>1. m \in 0..TopMsg
    BY TopIs
  <2> QED
    BY <1>2, <2>1, PacketIs DEF Kinds, Packet
<1> HIDE DEF p
<1>4. /\ ObjectOK(c) /\ (c.connected => c.sock # NoSocket)
      /\ b \in Sockets \union {NoSocket}
  BY SockIs
<1>5. Calm(c, b, c, b)
  BY <1>4, CalmSame
<1>6. Calm(c', b, c, b)
  BY <1>1, <1>3, <1>4, <1>5, DeliverCalm DEF Receipts
<1> QED
  BY <1>1, <1>6 DEF Eases

\* The broker has read a packet and done nothing yet.
LEMMA PoppedIs ==
    ASSUME Typed, ConnInv, StreamInv, NEW s \in Sockets, c.up[s] # <<>>
    PROVE  LET p == Head(c.up[s])
               o == [c EXCEPT !.up[s] = Tail(@)]
           IN  /\ ObjectOK(o) /\ p \in Packets
               /\ o.connected = c.connected /\ o.sock = c.sock
               /\ o.clean = c.clean /\ o.sent = c.sent /\ o.link = c.link
               /\ o.buffered = c.buffered /\ o.down = c.down /\ o.on = c.on
               /\ \A x \in Sockets :
                     o.up[x] = IF x = s THEN Tail(c.up[s]) ELSE c.up[x]
               /\ s # broker.conn =>
                     /\ Tail(c.up[s]) = <<>> /\ p.kind = "CONNECT"
                     /\ p.id = 1 <=> c.clean
               /\ Calm(o, broker.conn, c, broker.conn)
<1> DEFINE u == c.up[s]
           p == Head(u)
           o == [c EXCEPT !.up[s] = Tail(@)]
           b == broker.conn
<1>1. /\ ObjectOK(c) /\ DOMAIN c = Fields /\ (c.connected => c.sock # NoSocket)
  BY SockIs
<1>2. u \in Seq(Packets)
  BY <1>1 DEF ObjectOK
<1>3. /\ p \in Packets /\ Tail(u) \in Seq(Packets)
      /\ Len(u) > 0 /\ p = u[1] /\ Len(Tail(u)) = Len(u) - 1
  BY <1>2, TailIs
<1>4. /\ ObjectOK(o)
      /\ o.connected = c.connected /\ o.sock = c.sock
      /\ o.clean = c.clean /\ o.sent = c.sent /\ o.link = c.link
      /\ o.buffered = c.buffered /\ o.down = c.down /\ o.on = c.on
      /\ \A x \in Sockets : o.up[x] = IF x = s THEN Tail(u) ELSE c.up[x]
  <2>1. /\ o.connected = c.connected /\ o.sock = c.sock
        /\ o.clean = c.clean /\ o.sent = c.sent /\ o.link = c.link
        /\ o.buffered = c.buffered /\ o.down = c.down /\ o.on = c.on
        /\ o.up = [c.up EXCEPT ![s] = Tail(@)]
    BY <1>1 DEF Fields
  <2>2. c.up \in [Sockets -> Seq(Packets)]
    BY <1>1 DEF ObjectOK
  <2>3. ObjectOK(o)
    BY TakenUp, <1>1
  <2> QED
    BY <1>3, <2>1, <2>2, <2>3
<1> HIDE DEF o, p
<1>5. s # b => Tail(u) = <<>> /\ p.kind = "CONNECT" /\ (p.id = 1 <=> c.clean)
  <2>1. s # b => Hello(u, c.clean)
    BY DEF StreamInv, StreamOK, QuietOK
  <2>2. Len(u) = 1 => Tail(u) = <<>>
    <3>1. Len(u) = 1 => Len(Tail(u)) = 0
      BY <1>3
    <3>2. \A t \in Seq(Packets) : Len(t) = 0 => t = <<>>
      OBVIOUS
    <3> QED
      BY <1>3, <3>1, <3>2
  <2> QED
    BY <1>3, <2>1, <2>2 DEF Hello
<1>6. Calm(o, b, c, b)
  <2>1. Admitted(o) => Admitted(c)
    BY <1>4 DEF Admitted
  <2>2. c.connected => Part(c.down[c.sock], c.down[c.sock], Receipts)
    BY <1>1, SocketIs, PartSame DEF ObjectOK
  <2>3. Part(Tail(u), u, Asking)
    BY <1>2, PartTail
  <2>4. ASSUME NEW x \in Sockets
        PROVE  \/ o.up[x] = <<>> \/ o.up[x] = c.up[x]
               \/ x # b /\ Hello(o.up[x], o.clean)
               \/ /\ x = b /\ Part(o.up[x], c.up[x], Asking)
                  /\ Admitted(o) => x = o.sock \/ c.up[x] # <<>>
    BY <1>4, <1>5, <2>3
  <2> QED
    BY <1>4, <2>1, <2>2, <2>4 DEF Calm
<1> QED
  BY <1>3, <1>4, <1>5, <1>6 DEF o, p

\* The answers that tell of no message.
LEMMA ReceiveEases ==
    ASSUME Typed, ConnInv, StreamInv, NEW s \in Sockets, BrokerReceive(s),
           NEW p, p = Head(c.up[s]), NEW o, o = [c EXCEPT !.up[s] = Tail(@)],
           \/ BrokerRefuse(o, s) /\ s # broker.conn
           \/ BrokerRejects(o, s)
           \/ BrokerAnswers(o, s, p) /\ p.kind \notin {"PUBLISH", "PUBREL"}
    PROVE  Eases
<1> DEFINE b == broker.conn
<1>1. /\ ObjectOK(o) /\ p \in Packets /\ Calm(o, b, c, b)
      /\ o.connected = c.connected /\ o.sock = c.sock
  <2>1. c.up[s] # <<>>
    BY DEF BrokerReceive
  <2> QED
    BY <2>1, PoppedIs
<1>2. /\ (o.connected => o.sock # NoSocket) /\ b \in Sockets \union {NoSocket}
  BY <1>1, SockIs
<1>3. UNCHANGED outQos
  BY DEF BrokerReceive
<1>4. broker \in [conn : Sockets \union {NoSocket}, rec : SUBSET Nat,
                  out : Seq(Flights)]
  BY DEF Typed, TypeInv, BrokerOK
<1>5. p.id \in Nat
  BY <1>1 DEF Packets
<1>6. ASSUME NEW kind \in {"REFUSED", "REQUESTACK", "PUBREL"}, NEW i \in Nat
      PROVE  /\ Calm(Deliver(o, s, <<Control(kind, i)>>), b, c, b)
             /\ ObjectOK(Deliver(o, s, <<Control(kind, i)>>))
  <2> DEFINE e == Control(kind, i)
  <2>1. e \in Packets /\ e.kind = kind
    BY ControlIs DEF Kinds, Control, Packet
  <2> HIDE DEF e
  <2>2. <<e>> \in Seq(Packets)
    BY <2>1
  <2>3. e.kind \notin Receipts /\ e.kind # "CONNACK"
    BY <2>1 DEF Receipts
  <2> QED
    BY <1>1, <1>2, <2>1, <2>2, <2>3, DeliverCalm, DeliverOK DEF e
<1>7. CASE BrokerRefuse(o, s)
  <2> DEFINE r == Deliver(o, s, <<Control("REFUSED", 0)>>)
  <2>1. c' = Drop(r, s) /\ UNCHANGED <<broker, taken>>
    BY <1>7 DEF BrokerRefuse
  <2>2. Calm(r, b, c, b) /\ ObjectOK(r)
    BY <1>6
  <2> HIDE DEF r
  <2>3. Calm(c', b, c, b)
    BY <1>2, <2>1, <2>2, DropCalm
  <2> QED
    BY <1>3, <2>1, <2>3 DEF Eases
<1>8. CASE BrokerRejects(o, s)
  <2>1. /\ c' = Drop(o, s) /\ UNCHANGED taken
        /\ broker' = [broker EXCEPT !.conn = IF @ = s THEN NoSocket ELSE @]
    BY <1>8 DEF BrokerRejects
  <2>2. /\ (broker.rec)' = broker.rec
        /\ (broker.conn)' = IF b = s THEN NoSocket ELSE b
    BY <1>4, <2>1
  <2>3. Calm(c', (broker.conn)', c, b)
    BY <1>1, <1>2, <2>1, <2>2, DropCalm
  <2> QED
    BY <1>3, <2>1, <2>2, <2>3 DEF Eases
<1>9. CASE BrokerAnswers(o, s, p) /\ p.kind \notin {"PUBLISH", "PUBREL"}
  <2>0. UNCHANGED taken
    BY <1>9 DEF BrokerAnswers
  <2>1. CASE p.kind = "REQUEST"
    <3>1. c' = Deliver(o, s, <<Control("REQUESTACK", p.id)>>) /\ UNCHANGED broker
      BY <1>9, <2>1 DEF BrokerAnswers
    <3> QED
      BY <1>3, <1>5, <1>6, <2>0, <3>1 DEF Eases
  <2>2. CASE p.kind \in {"PUBACK", "PUBCOMP"}
    <3>1. c' = o /\ broker' = [broker EXCEPT !.out = InFlight(p.id)]
      BY <1>9, <2>2 DEF BrokerAnswers
    <3>2. (broker.rec)' = broker.rec /\ (broker.conn)' = b
      BY <1>4, <3>1
    <3> QED
      BY <1>1, <1>3, <2>0, <3>1, <3>2 DEF Eases
  <2>3. CASE p.kind = "PUBREC"
    <3>1. /\ c' = Deliver(o, s, <<Control("PUBREL", p.id)>>)
          /\ \E out : broker' = [broker EXCEPT !.out = out]
      BY <1>9, <2>3 DEF BrokerAnswers
    <3>2. (broker.rec)' = broker.rec /\ (broker.conn)' = b
      BY <1>4, <3>1
    <3> QED
      BY <1>3, <1>5, <1>6, <2>0, <3>1, <3>2 DEF Eases
  <2>4. CASE p.kind = "DISCONNECT" /\ b = s
    <3>1. c' = Drop(o, s) /\ broker' = [broker EXCEPT !.conn = NoSocket]
      BY <1>9, <2>4 DEF BrokerAnswers
    <3>2. (broker.rec)' = broker.rec /\ (broker.conn)' = NoSocket
      BY <1>4, <3>1
    <3>3. Calm(c', NoSocket, c, b)
      BY <1>1, <1>2, <2>4, <3>1, DropCalm
    <3> QED
      BY <1>3, <2>0, <3>2, <3>3 DEF Eases
  <2>5. p.kind # "CONNECT" => s = b
    <3>1. c.up[s] # <<>>
      BY DEF BrokerReceive
    <3> QED
      BY <3>1, PoppedIs
  <2> QED
    BY <1>9, <2>1, <2>2, <2>3, <2>4, <2>5 DEF BrokerAnswers
<1> QED
  BY <1>7, <1>8, <1>9

\* The broker reads a CONNECT and makes the connection its own.
LEMMA ConnectSend ==
    ASSUME Typed, ConnInv, SendInv, NEW s \in Sockets, BrokerReceive(s),
           s # broker.conn, NEW p, p = Head(c.up[s]),
           NEW o, o = [c EXCEPT !.up[s] = Tail(@)],
           BrokerConnect(o, s, p.id = 1)
    PROVE  SendInv'
<1> DEFINE b == broker.conn
           r == Drop(o, b)
           out == IF p.id = 1 THEN <<>> ELSE broker.out
           ps == <<Control("CONNACK", 0)>>
                    \o [i \in DOMAIN out |-> Redelivery(out[i])]
           rec == IF p.id = 1 THEN {} ELSE broker.rec
           k == c.sock
<1>1. /\ ObjectOK(c) /\ (c.connected => c.sock # NoSocket)
      /\ b \in Sockets \union {NoSocket} /\ NoSocket \notin Sockets
  BY SockIs
<1>2. c.up[s] # <<>> /\ StreamInv
  BY DEF BrokerReceive, SendInv
<1>3. /\ ObjectOK(o) /\ p \in Packets
      /\ o.connected = c.connected /\ o.sock = c.sock
      /\ o.clean = c.clean /\ o.sent = c.sent
      /\ o.buffered = c.buffered /\ o.down = c.down
      /\ \A x \in Sockets :
            o.up[x] = IF x = s THEN <<>> ELSE c.up[x]
      /\ p.id = 1 <=> c.clean
  <2>1. /\ ObjectOK(o) /\ p \in Packets
        /\ o.connected = c.connected /\ o.sock = c.sock
        /\ o.clean = c.clean /\ o.sent = c.sent
        /\ o.buffered = c.buffered /\ o.down = c.down
        /\ \A x \in Sockets :
              o.up[x] = IF x = s THEN Tail(c.up[s]) ELSE c.up[x]
        /\ Tail(c.up[s]) = <<>> /\ (p.id = 1 <=> c.clean)
    BY <1>2, PoppedIs
  <2> QED
    BY <2>1
<1>4. /\ c' = Deliver(r, s, ps) /\ UNCHANGED <<outQos, taken>>
      /\ (broker.conn)' = s /\ (broker.rec)' = rec
  BY DEF BrokerConnect, BrokerReceive
<1>5. c.connected => s # k
  <2>1. c.connected => s # k \/ s = b
    BY <1>1, <1>2, TakenUp
  <2> QED
    BY <2>1
<1> HIDE DEF ps
<1>6. /\ ObjectOK(r) /\ r.connected = c.connected /\ r.sock = k
      /\ r.clean = c.clean /\ r.sent = c.sent
      /\ r.buffered = c.buffered /\ r.down = c.down
      /\ \A x \in Sockets : r.up[x] = IF x = s \/ x = b THEN <<>> ELSE c.up[x]
  <2>1. ObjectOK(r)
    BY <1>1, <1>3, DropOK
  <2>2. b = NoSocket => r = o
    BY DEF Drop
  <2>3. b # NoSocket =>
          /\ r.connected = o.connected /\ r.sock = o.sock
          /\ r.clean = o.clean /\ r.sent = o.sent
          /\ r.buffered = o.buffered /\ r.down = o.down
          /\ r.up = [o.up EXCEPT ![b] = <<>>]
    BY <1>3 DEF Drop, ObjectOK, Fields
  <2>4. o.up \in [Sockets -> Seq(Packets)]
    BY <1>3 DEF ObjectOK
  <2> HIDE DEF r
  <2> QED
    BY <1>1, <1>3, <2>1, <2>2, <2>3, <2>4, ZenonT(30)
<1> HIDE DEF r
<1>7. /\ c'.connected = c.connected /\ c'.sock = k
      /\ c'.clean = c.clean /\ c'.sent = c.sent
      /\ c'.buffered = c.buffered /\ c'.up = r.up
      /\ \A x \in Sockets : x # s => c'.down[x] = c.down[x]
  <2>1. /\ c'.connected = r.connected /\ c'.sock = r.sock
        /\ c'.clean = r.clean /\ c'.sent = r.sent
        /\ c'.buffered = r.buffered /\ c'.up = r.up
        /\ c'.down = r.down \/ c'.down = [r.down EXCEPT ![s] = @ \o ps]
    BY <1>4, <1>6 DEF Deliver, ObjectOK, Fields
  <2>2. r.down \in [Sockets -> Seq(Packets)]
    BY <1>6 DEF ObjectOK
  <2> QED
    BY <1>6, <2>1, <2>2
<1>8. \A x \in Sockets : c'.up[x] = IF x = s \/ x = b THEN <<>> ELSE c.up[x]
  BY <1>6, <1>7
<1>9. Unread(c', s) = <<>>
  BY <1>8 DEF Unread
<1>10. StreamOK(c', s, rec)
  <2>1. QuietOK(c', s)
    BY <1>2, <1>7, <1>8 DEF QuietOK, StreamInv, StreamOK
  <2>2. AdmittedOK(c', s)
    BY <1>9 DEF AdmittedOK
  <2>3. FreshOK(c', s, rec)
    BY <1>3, <1>7 DEF FreshOK
  <2> QED
    BY <2>1, <2>2, <2>3 DEF StreamOK
<1>11. MessagesOK(c, b, broker.rec, outQos, taken)
  BY DEF SendInv
<1>12. Lasts(c', s) => Lasts(c, b) /\ rec = broker.rec /\ ~c.clean
  BY <1>3, <1>5, <1>7 DEF Lasts
<1> HIDE DEF rec
<1>13. MessagesOK(c', s, rec, outQos, taken)
  <2>1. HeldOK(c'.sent, outQos, taken)
    BY <1>7, <1>11 DEF MessagesOK
  <2>2. /\ UnreadOK(<<>>, rec, outQos, taken)
        /\ BufferOK(c'.buffered, <<>>, outQos, taken)
        /\ FitAll(<<>>, Asks, c'.sent)
    BY <1>7, <1>11, NoneUnread DEF MessagesOK
  <2>3. Lasts(c', s) => SessionOK(c'.sent, rec, taken)
    BY <1>7, <1>11, <1>12 DEF MessagesOK
  <2>4. RepliesOK(c', s, rec, taken)
    <3>1. c.connected => c'.down[k] = c.down[k]
      BY <1>1, <1>5, <1>7, SocketIs
    <3> QED
      BY <1>7, <1>11, <1>12, <3>1 DEF MessagesOK, RepliesOK
  <2> QED
    BY <1>9, <2>1, <2>2, <2>3, <2>4 DEF MessagesOK
<1>14. UnsentOK'
  BY <1>4 DEF SendInv, UnsentOK
<1> QED
  BY <1>4, <1>10, <1>13, <1>14 DEF SendInv, StreamInv

\* The packet taken off was the one of its identifier.
LEMMA LoneHead ==
    ASSUME NEW ps \in Seq(Packets), ps # <<>>, NEW P, Lone(ps, P), Head(ps) \in P
    PROVE  Head(ps).id \notin IdsOf(Tail(ps), P)
<1> DEFINE t == Tail(ps)
<1>1. /\ t \in Seq(Packets) /\ Len(ps) > 0 /\ Head(ps) = ps[1]
      /\ Len(t) = Len(ps) - 1 /\ \A i \in 1..Len(t) : t[i] = ps[i + 1]
  BY TailIs
<1>2. DOMAIN ps = 1..Len(ps) /\ DOMAIN t = 1..Len(t) /\ Len(ps) \in Nat
  BY <1>1, SeqIs
<1> HIDE DEF t
<1>3. ASSUME NEW i \in DOMAIN t, t[i] \in P PROVE t[i].id # Head(ps).id
  <2>1. i + 1 \in DOMAIN ps /\ 1 \in DOMAIN ps /\ i + 1 # 1 /\ t[i] = ps[i + 1]
    BY <1>1, <1>2
  <2> QED
    BY <1>1, <1>3, <2>1 DEF Lone
<1> QED
  BY <1>3 DEF IdsOf, t

\* What the broker knows of the packet it has just read on its connection.
LEMMA ReadIs ==
    ASSUME Typed, ConnInv, Tidy, SendInv, NEW s \in Sockets, s = broker.conn,
           c.up[s] # <<>>, NEW p, p = Head(c.up[s]),
           NEW o, o = [c EXCEPT !.up[s] = Tail(@)]
    PROVE  LET u == o.up[s]
           IN  /\ StreamOK(o, s, broker.rec)
               /\ MessagesOK(o, s, broker.rec, outQos, taken)
               /\ p.kind = "PUBLISH" =>
                     /\ Takable(p, broker.rec, outQos, taken)
                     /\ \A k \in Carried(u) : u[k].msg # p.msg
                     /\ \A k \in DOMAIN c.buffered : c.buffered[k].pkt.msg # p.msg
               /\ p \in Asks =>
                     /\ p.id \notin IdsOf(u, Asks)
                     /\ (Lasts(c, s) =>
                           p.id \in DOMAIN c.sent /\ Fits(p, c.sent[p.id]))
                     /\ (c.connected => p.id \notin IdsOf(c.down[s], Answers))
               /\ s = c.sock <=> c.connected
<1> DEFINE v == c.up[s]
           u == o.up[s]
<1>1. StreamInv /\ NoSocket \notin Sockets
  BY DEF SendInv, NoSocket, Sockets
<1>2. /\ ObjectOK(o) /\ p \in Packets /\ o.clean = c.clean
      /\ u = Tail(v) /\ Calm(o, s, c, s)
  BY <1>1, PoppedIs, ZenonT(60)
<1>3. ObjectOK(c) /\ (c.connected => c.sock # NoSocket) /\ c.connected \in BOOLEAN
  BY SockIs DEF ObjectOK
<1>4. StreamOK(o, s, broker.rec) /\ MessagesOK(o, s, broker.rec, outQos, taken)
  BY <1>1, <1>2, <1>3, CalmStream, CalmMessages DEF SendInv, StreamInv
<1>5. /\ v \in Seq(Packets) /\ v # <<>> /\ Unread(c, s) = v
  BY <1>1, <1>3 DEF ObjectOK, Unread
<1>6. /\ Len(v) > 0 /\ p = v[1] /\ u \in Seq(Packets)
      /\ Len(u) = Len(v) - 1 /\ \A i \in 1..Len(u) : u[i] = v[i + 1]
      /\ DOMAIN v = 1..Len(v) /\ DOMAIN u = 1..Len(u) /\ Len(v) \in Nat
  <2>1. /\ Tail(v) \in Seq(Packets) /\ Len(v) > 0 /\ Head(v) = v[1]
        /\ Len(Tail(v)) = Len(v) - 1
        /\ \A i \in 1..Len(Tail(v)) : Tail(v)[i] = v[i + 1]
    BY <1>5, TailIs
  <2> QED
    BY <1>2, <1>5, <2>1, SeqIs
<1>7. /\ UnreadOK(v, broker.rec, outQos, taken)
      /\ BufferOK(c.buffered, v, outQos, taken)
      /\ (~c.clean => FitAll(v, Asks, c.sent))
  BY <1>5 DEF SendInv, MessagesOK
<1>8. s = c.sock <=> c.connected
  <2>1. ASSUME c.connected PROVE s = c.sock
    <3>1. s = c.sock \/ v = <<>>
      BY <1>5, <2>1 DEF SendInv, StreamInv, StreamOK, AdmittedOK, Admitted
    <3> QED
      BY <1>5, <3>1
  <2>2. ASSUME s = c.sock PROVE c.connected
    BY <1>3, <2>2, TakenUp
  <2> QED
    BY <2>1, <2>2
<1> HIDE DEF u, v
<1>9. p.kind = "PUBLISH" =>
         /\ Takable(p, broker.rec, outQos, taken)
         /\ \A k \in Carried(u) : u[k].msg # p.msg
         /\ \A k \in DOMAIN c.buffered : c.buffered[k].pkt.msg # p.msg
  <2> SUFFICES ASSUME p.kind = "PUBLISH"
               PROVE  /\ Takable(p, broker.rec, outQos, taken)
                      /\ \A k \in Carried(u) : u[k].msg # p.msg
                      /\ \A k \in DOMAIN c.buffered : c.buffered[k].pkt.msg # p.msg
    OBVIOUS
  <2>1. 1 \in Carried(v)
    BY <1>6 DEF Carried
  <2>2. ASSUME NEW k \in Carried(u) PROVE u[k].msg # p.msg
    <3>1. /\ k \in DOMAIN u /\ u[k].kind = "PUBLISH"
      BY DEF Carried
    <3>2. k + 1 \in DOMAIN v /\ v[k + 1] = u[k] /\ k + 1 # 1
      BY <1>6, <3>1
    <3>3. k + 1 \in Carried(v)
      BY <3>1, <3>2 DEF Carried
    <3> QED
      BY <1>6, <1>7, <2>1, <3>2, <3>3 DEF UnreadOK
  <2> QED
    BY <1>6, <1>7, <2>1, <2>2 DEF UnreadOK, BufferOK
<1>10. ASSUME p \in Asks
       PROVE  /\ p.id \notin IdsOf(u, Asks)
              /\ (Lasts(c, s) =>
                    p.id \in DOMAIN c.sent /\ Fits(p, c.sent[p.id]))
              /\ (c.connected => p.id \notin IdsOf(c.down[s], Answers))
  <2>1. p = Head(v) /\ u = Tail(v)
    BY <1>2 DEF v
  <2>2. p.id \notin IdsOf(u, Asks)
    BY <1>5, <1>7, <1>10, <2>1, LoneHead DEF UnreadOK
  <2>3. c.connected =>
          /\ p.id \in DOMAIN c.sent /\ Fits(p, c.sent[p.id])
          /\ p.id \notin IdsOf(c.down[s], Answers)
    <3>1. c.connected => TokensOK(v, c.down[s], c.sent)
      BY <1>8 DEF Tidy, TokenInv, TokenOK, v
    <3> QED
      BY <1>5, <1>10, <2>1, <3>1, AskTaken
  <2>4. ~c.clean => p.id \in DOMAIN c.sent /\ Fits(p, c.sent[p.id])
    BY <1>6, <1>7, <1>10 DEF FitAll
  <2> QED
    BY <2>2, <2>3, <2>4 DEF Lasts
<1> QED
  BY <1>4, <1>8, <1>9, <1>10 DEF u

\* The broker's answer changes nothing of who is connected to whom.
LEMMA AnswerStream ==
    ASSUME NEW o, NEW r, NEW s \in Sockets, NEW rec, StreamOK(o, s, rec),
           r.up = o.up, r.connected = o.connected, r.sock = o.sock,
           r.clean = o.clean, \A x \in Sockets : x # s => r.down[x] = o.down[x],
           ObjectOK(o), s = o.sock => o.connected, NEW new
    PROVE  StreamOK(r, s, new)
<1>1. QuietOK(r, s)
  BY DEF StreamOK, QuietOK
<1>2. AdmittedOK(r, s)
  <2>1. s # o.sock /\ Admitted(r) => Admitted(o)
    BY SocketIs DEF Admitted
  <2> QED
    BY <2>1 DEF StreamOK, AdmittedOK, Unread
<1>3. FreshOK(r, s, new)
  BY DEF FreshOK
<1> QED
  BY <1>1, <1>2, <1>3 DEF StreamOK

\* A receipt of what was done may be put on its way.
LEMMA ReceiptPut ==
    ASSUME NEW d \in Seq(Packets), NEW e \in Packets, NEW f, NEW tk, NEW rec
    PROVE  /\ ReceiptsOK(d, f, tk)
                /\ (e.kind \in {"PUBACK", "PUBREC"} =>
                      e.id \in Publishes(f) /\ tk[f[e.id].msg] > 0)
              => ReceiptsOK(Append(d, e), f, tk)
           /\ ReleasesOK(d, rec) /\ (e.kind = "PUBCOMP" => e.id \notin rec)
              => ReleasesOK(Append(d, e), rec)
<1> DEFINE t == Append(d, e)
<1>1. /\ t \in Seq(Packets) /\ Len(t) = Len(d) + 1
      /\ \A i \in 1..Len(d) : t[i] = d[i]
      /\ t[Len(d) + 1] = e
  OBVIOUS
<1>2. DOMAIN t = 1..Len(t) /\ DOMAIN d = 1..Len(d) /\ Len(d) \in Nat
  BY <1>1, SeqIs
<1> HIDE DEF t
<1>3. \A i \in DOMAIN t : t[i] = e \/ (i \in DOMAIN d /\ t[i] = d[i])
  BY <1>1, <1>2
<1> QED
  BY <1>3 DEF ReceiptsOK, ReleasesOK, t

\* The broker's answer, and what it leaves alone.
LEMMA AnswerIs ==
    ASSUME NEW o, ObjectOK(o), NEW s \in Sockets, NEW e \in Packets,
           NEW r, r = o \/ r = Deliver(o, s, <<e>>)
    PROVE  /\ r.connected = o.connected /\ r.sock = o.sock
           /\ r.clean = o.clean /\ r.sent = o.sent
           /\ r.buffered = o.buffered /\ r.up = o.up
           /\ \A x \in Sockets : x # s => r.down[x] = o.down[x]
           /\ (r.down[s] = o.down[s] \/ r.down[s] = Append(o.down[s], e))
           /\ (r = o => r.down[s] = o.down[s])
<1>1. CASE r = o
  BY <1>1
<1>2. CASE r = Deliver(o, s, <<e>>)
  BY <1>2, DeliverIs
<1> QED
  BY <1>1, <1>2

\* The object after an answer e, if there is one.
LEMMA AnsweredIs ==
    ASSUME NEW s \in Sockets, NEW o, ObjectOK(o), ObjectOK(c),
           o.connected = c.connected, o.sock = c.sock, o.clean = c.clean,
           o.sent = c.sent, o.buffered = c.buffered, o.down = c.down,
           s = c.sock <=> c.connected, NEW rec, StreamOK(o, s, rec),
           NEW e \in Packets, c' = o \/ c' = Deliver(o, s, <<e>>)
    PROVE  /\ c'.connected = c.connected /\ c'.sock = c.sock
           /\ c'.clean = c.clean /\ c'.sent = c.sent
           /\ c'.buffered = c.buffered /\ Unread(c', s) = o.up[s]
           /\ c.connected => s = c.sock
           /\ c'.down[s] = c.down[s] \/ c'.down[s] = Append(c.down[s], e)
           /\ c' = o => c'.down[s] = c.down[s]
           /\ c.down[s] \in Seq(Packets) /\ o.up[s] \in Seq(Packets)
           /\ \A new : StreamOK(c', s, new)
<1>1. /\ c'.connected = o.connected /\ c'.sock = o.sock
      /\ c'.clean = o.clean /\ c'.sent = o.sent
      /\ c'.buffered = o.buffered /\ c'.up = o.up
      /\ \A x \in Sockets : x # s => c'.down[x] = o.down[x]
      /\ (c'.down[s] = o.down[s] \/ c'.down[s] = Append(o.down[s], e))
      /\ (c' = o => c'.down[s] = o.down[s])
  BY AnswerIs, SMTT(30)
<1>2. \A new : StreamOK(c', s, new)
  BY <1>1, AnswerStream
<1>3. c.down[s] \in Seq(Packets) /\ o.up[s] \in Seq(Packets)
  BY DEF ObjectOK
<1>4. Unread(c', s) = c'.up[s]
  BY DEF Unread, NoSocket, Sockets
<1> QED
  BY <1>1, <1>2, <1>3, <1>4

\* What the broker knows as it answers.
LEMMA AnsweringIs ==
    ASSUME Typed, ConnInv, Tidy, SendInv, NEW s \in Sockets, s = broker.conn,
           c.up[s] # <<>>, NEW o, o = [c EXCEPT !.up[s] = Tail(@)]
    PROVE  LET u == o.up[s]
           IN  /\ ObjectOK(o) /\ ObjectOK(c)
               /\ o.connected = c.connected /\ o.sock = c.sock
               /\ o.clean = c.clean /\ o.sent = c.sent
               /\ o.buffered = c.buffered /\ o.down = c.down
               /\ s = c.sock <=> c.connected
               /\ StreamOK(o, s, broker.rec)
               /\ HeldOK(c.sent, outQos, taken)
               /\ UnreadOK(u, broker.rec, outQos, taken)
               /\ BufferOK(c.buffered, u, outQos, taken)
               /\ Lasts(c, s) => SessionOK(c.sent, broker.rec, taken)
               /\ ~c.clean => FitAll(u, Asks, c.sent)
               /\ RepliesOK(c, s, broker.rec, taken)
<1>1. /\ ObjectOK(o) /\ o.connected = c.connected /\ o.sock = c.sock
      /\ o.clean = c.clean /\ o.sent = c.sent
      /\ o.buffered = c.buffered /\ o.down = c.down
  BY PoppedIs DEF SendInv
<1>2. /\ StreamOK(o, s, broker.rec) /\ (s = c.sock <=> c.connected)
      /\ MessagesOK(o, s, broker.rec, outQos, taken)
  BY ReadIs
<1>3. ObjectOK(c)
  BY SockIs
<1>4. Unread(o, s) = o.up[s]
  BY DEF Unread, NoSocket, Sockets
<1>5. RepliesOK(c, s, broker.rec, taken)
  BY DEF SendInv, MessagesOK
<1> QED
  BY <1>1, <1>2, <1>3, <1>4, <1>5 DEF MessagesOK, Lasts

\* The broker releases a message of quality 2.
LEMMA ReleaseSend ==
    ASSUME Typed, ConnInv, Tidy, SendInv, NEW s \in Sockets, s = broker.conn,
           BrokerReceive(s), NEW p, p = Head(c.up[s]),
           BrokerAnswers([c EXCEPT !.up[s] = Tail(@)], s, p), p.kind = "PUBREL"
    PROVE  SendInv'
<1> DEFINE o == [c EXCEPT !.up[s] = Tail(@)]
           e == Control("PUBCOMP", p.id)
           u == o.up[s]
           d == c.down[s]
           rec == broker.rec \ {p.id}
<1>1. c.up[s] # <<>> /\ UNCHANGED outQos
  BY DEF BrokerReceive
<1>2. p \in Packets
  BY <1>1, PoppedIs DEF SendInv
<1>3. p \in Asks /\ p.id \in Nat
  BY <1>2 DEF Asks, Packets
<1>4. e \in Packets /\ e.kind = "PUBCOMP" /\ e.id = p.id
  BY <1>3, ControlIs DEF Kinds, Control, Packet
<1>5. /\ c' = Deliver(o, s, <<e>>) /\ UNCHANGED taken
      /\ broker' = [broker EXCEPT !.rec = @ \ {p.id}]
  BY DEF BrokerAnswers
<1>6. (broker.conn)' = s /\ (broker.rec)' = rec
  BY <1>5 DEF Typed, TypeInv, BrokerOK
<1> HIDE DEF e
<1>9. /\ ObjectOK(o) /\ ObjectOK(c)
      /\ o.connected = c.connected /\ o.sock = c.sock
      /\ o.clean = c.clean /\ o.sent = c.sent
      /\ o.buffered = c.buffered /\ o.down = c.down
      /\ (s = c.sock <=> c.connected)
      /\ StreamOK(o, s, broker.rec)
      /\ HeldOK(c.sent, outQos, taken)
      /\ UnreadOK(u, broker.rec, outQos, taken)
      /\ BufferOK(c.buffered, u, outQos, taken)
      /\ (Lasts(c, s) => SessionOK(c.sent, broker.rec, taken))
      /\ (~c.clean => FitAll(u, Asks, c.sent))
      /\ RepliesOK(c, s, broker.rec, taken)
  BY <1>1, AnsweringIs
<1>8. /\ p.id \notin IdsOf(u, Asks)
      /\ (Lasts(c, s) => p.id \in DOMAIN c.sent /\ Fits(p, c.sent[p.id]))
  BY <1>1, <1>3, ReadIs
<1> HIDE DEF o
<1>7. /\ c'.connected = c.connected /\ c'.sock = c.sock
      /\ c'.clean = c.clean /\ c'.sent = c.sent
      /\ c'.buffered = c.buffered /\ Unread(c', s) = u
      /\ (c.connected => s = c.sock)
      /\ (c'.down[s] = d \/ c'.down[s] = Append(d, e))
      /\ d \in Seq(Packets) /\ u \in Seq(Packets) /\ StreamOK(c', s, rec)
  BY <1>4, <1>5, <1>9, AnsweredIs, ZenonT(30)
<1> HIDE DEF u, d
<1>10. Lasts(c', s) <=> Lasts(c, s)
  BY <1>7 DEF Lasts
<1>11. UnreadOK(u, rec, outQos, taken)
  <2> SUFFICES ASSUME NEW k \in Carried(u), Takable(u[k], broker.rec, outQos, taken)
               PROVE  Takable(u[k], rec, outQos, taken)
    BY <1>9 DEF UnreadOK
  <2>1. u[k].qos = 2 => u[k].id # p.id
    <3>2. k \in DOMAIN u /\ u[k] \in Packets /\ u[k].kind = "PUBLISH"
      BY <1>7, SeqIs DEF Carried
    <3>3. u[k].qos = 2 => u[k] \in Asks
      BY <3>2 DEF Asks
    <3> QED
      BY <1>8, <3>2, <3>3 DEF IdsOf
  <2> QED
    BY <2>1 DEF Takable
<1>12. Lasts(c', s) => SessionOK(c.sent, rec, taken)
  <2> SUFFICES ASSUME Lasts(c, s) PROVE SessionOK(c.sent, rec, taken)
    BY <1>10
  <2>1. Fits(p, c.sent[p.id]) /\ SessionOK(c.sent, broker.rec, taken)
    BY <1>8, <1>9
  <2>2. c.sent[p.id].rec
    BY <2>1 DEF Fits
  <2> QED
    BY <2>1, <2>2 DEF SessionOK
<1>13. RepliesOK(c', s, rec, taken)
  <2> SUFFICES ASSUME c.connected
               PROVE  /\ ReceiptsOK(c'.down[s], c.sent, taken) /\ c.buffered = <<>>
                      /\ (Lasts(c', s) => ReleasesOK(c'.down[s], rec))
    BY <1>7 DEF RepliesOK
  <2>1. /\ ReceiptsOK(d, c.sent, taken) /\ c.buffered = <<>>
        /\ (Lasts(c, s) => ReleasesOK(d, broker.rec))
    BY <1>7, <1>9 DEF RepliesOK, d
  <2>2. ReleasesOK(d, broker.rec) => ReleasesOK(d, rec)
    BY DEF ReleasesOK
  <2>3. /\ ReceiptsOK(Append(d, e), c.sent, taken)
        /\ (ReleasesOK(d, rec) => ReleasesOK(Append(d, e), rec))
    BY <1>4, <1>7, <2>1, ReceiptPut
  <2> QED
    BY <1>7, <1>10, <2>1, <2>2, <2>3
<1>14. MessagesOK(c', s, rec, outQos, taken)
  BY <1>7, <1>9, <1>11, <1>12, <1>13 DEF MessagesOK
<1>15. UnsentOK'
  BY <1>1, <1>5 DEF SendInv, UnsentOK
<1> QED
  BY <1>1, <1>5, <1>6, <1>7, <1>14, <1>15 DEF SendInv, StreamInv

\* The messages behind the one taken off are other messages.
LEMMA OtherMessages ==
    ASSUME NEW v \in Seq(Packets), v # <<>>, Head(v).kind = "PUBLISH",
           NEW rec, NEW oq, NEW tk, UnreadOK(v, rec, oq, tk)
    PROVE  \A k \in Carried(Tail(v)) : Tail(v)[k].msg # Head(v).msg
<1> DEFINE u == Tail(v)
<1>1. /\ Len(v) > 0 /\ Head(v) = v[1] /\ u \in Seq(Packets)
      /\ Len(u) = Len(v) - 1 /\ \A i \in 1..Len(u) : u[i] = v[i + 1]
  BY TailIs
<1>2. DOMAIN v = 1..Len(v) /\ DOMAIN u = 1..Len(u) /\ Len(v) \in Nat
  BY <1>1, SeqIs
<1> HIDE DEF u
<1> SUFFICES ASSUME NEW k \in Carried(u) PROVE u[k].msg # v[1].msg
  BY <1>1 DEF u
<1>3. k \in DOMAIN u /\ u[k].kind = "PUBLISH"
  BY DEF Carried
<1>4. k + 1 \in DOMAIN v /\ v[k + 1] = u[k] /\ k + 1 # 1
  BY <1>1, <1>2, <1>3
<1>5. 1 \in Carried(v) /\ k + 1 \in Carried(v)
  BY <1>1, <1>2, <1>3, <1>4 DEF Carried
<1> QED
  BY <1>4, <1>5 DEF UnreadOK

\* What is known of a PUBLISH that the broker reads.
LEMMA MessageReadIs ==
    ASSUME Typed, ConnInv, Tidy, SendInv, NEW s \in Sockets, s = broker.conn,
           c.up[s] # <<>>, NEW p, p = Head(c.up[s]), p.kind = "PUBLISH",
           p.qos > 0 => p \in Asks,
           NEW o, o = [c EXCEPT !.up[s] = Tail(@)]
    PROVE  /\ Takable(p, broker.rec, outQos, taken)
           /\ \A k \in Carried(o.up[s]) : o.up[s][k].msg # p.msg
           /\ \A k \in DOMAIN c.buffered : c.buffered[k].pkt.msg # p.msg
           /\ p.qos > 0 =>
                 /\ Lasts(c, s) => p.id \in DOMAIN c.sent /\ Fits(p, c.sent[p.id])
                 /\ c.connected => p.id \notin IdsOf(c.down[s], Answers)
<1>1. /\ Takable(p, broker.rec, outQos, taken)
      /\ \A k \in Carried(o.up[s]) : o.up[s][k].msg # p.msg
      /\ \A k \in DOMAIN c.buffered : c.buffered[k].pkt.msg # p.msg
  <2>1. Takable(p, broker.rec, outQos, taken)
    BY ReadIs
  <2>2. \A k \in DOMAIN c.buffered : c.buffered[k].pkt.msg # p.msg
    BY ReadIs
  <2>3. /\ c.up[s] \in Seq(Packets) /\ o.up[s] = Tail(c.up[s])
        /\ UnreadOK(c.up[s], broker.rec, outQos, taken)
    <3>1. ObjectOK(c) /\ Unread(c, s) = c.up[s]
      BY DEF Typed, TypeInv, Unread, NoSocket, Sockets
    <3>2. c.up \in [Sockets -> Seq(Packets)] /\ "up" \in DOMAIN c
      BY <3>1 DEF ObjectOK, Fields
    <3> QED
      BY <3>1, <3>2 DEF SendInv, MessagesOK
  <2>4. \A k \in Carried(o.up[s]) : o.up[s][k].msg # p.msg
    BY <2>3, OtherMessages
  <2> QED
    BY <2>1, <2>2, <2>4
<1>2. ASSUME p \in Asks
      PROVE  /\ (Lasts(c, s) => p.id \in DOMAIN c.sent /\ Fits(p, c.sent[p.id]))
             /\ (c.connected => p.id \notin IdsOf(c.down[s], Answers))
  BY <1>2, ReadIs
<1> QED
  BY <1>1, <1>2

\* The broker takes a message.
LEMMA TakeSend ==
    ASSUME Typed, ConnInv, Tidy, SendInv, NEW s \in Sockets, s = broker.conn,
           BrokerReceive(s), NEW p, p = Head(c.up[s]),
           BrokerAnswers([c EXCEPT !.up[s] = Tail(@)], s, p), p.kind = "PUBLISH"
    PROVE  SendInv'
<1> DEFINE o == [c EXCEPT !.up[s] = Tail(@)]
           kind == IF p.qos = 2 THEN "PUBREC" ELSE "PUBACK"
           e == Control(kind, p.id)
           u == o.up[s]
           d == c.down[s]
           rec == IF p.qos = 2 THEN broker.rec \union {p.id} ELSE broker.rec
           tk == taken'
           Takes == p.qos = 2 => p.id \notin broker.rec
<1>1. c.up[s] # <<>> /\ UNCHANGED outQos
  BY DEF BrokerReceive
<1>2. /\ p \in Packets /\ p.qos \in 0..2 /\ p.id \in Nat
      /\ (p.qos = 2 => p.qos > 0)
  <2>1. p \in Packets
    BY <1>1, PoppedIs DEF SendInv
  <2> QED
    BY <2>1 DEF Packets
<1>3. p.qos > 0 => p \in Asks
  BY <1>2 DEF Asks
<1>4. e \in Packets /\ e.kind = kind /\ e.id = p.id
  BY <1>2, ControlIs DEF Kinds, Control, Packet
<1>5. /\ (c' = o \/ c' = Deliver(o, s, <<e>>))
      /\ (p.qos = 0 => c' = o)
      /\ taken' = IF Takes THEN [taken EXCEPT ![p.msg] = Saturate(@)] ELSE taken
      /\ (broker.conn)' = s /\ (broker.rec)' = rec
  <2>1. taken' = IF Takes THEN [taken EXCEPT ![p.msg] = Saturate(@)] ELSE taken
    BY DEF BrokerAnswers
  <2>2. broker \in [conn : Sockets \union {NoSocket}, rec : SUBSET Nat,
                    out : Seq(Flights)]
    BY DEF Typed, TypeInv, BrokerOK
  <2>3. \/ p.qos = 0 /\ c' = o /\ UNCHANGED broker
        \/ /\ p.qos = 1 /\ UNCHANGED broker
           /\ c' = Deliver(o, s, <<Control("PUBACK", p.id)>>)
        \/ /\ p.qos = 2 /\ broker' = [broker EXCEPT !.rec = @ \union {p.id}]
           /\ c' = Deliver(o, s, <<Control("PUBREC", p.id)>>)
    BY DEF BrokerAnswers
  <2>4. /\ (c' = o \/ c' = Deliver(o, s, <<e>>)) /\ (p.qos = 0 => c' = o)
    BY <2>3
  <2>5. (broker.conn)' = s /\ (broker.rec)' = rec
    <3>1. p.qos = 2 => (broker.conn)' = s /\ (broker.rec)' = broker.rec \union {p.id}
      BY <2>2, <2>3
    <3>2. p.qos # 2 => (broker.conn)' = s /\ (broker.rec)' = broker.rec
      BY <2>3
    <3> QED
      BY <3>1, <3>2
  <2> QED
    BY <2>1, <2>4, <2>5
<1>9. /\ ObjectOK(o) /\ ObjectOK(c)
      /\ o.connected = c.connected /\ o.sock = c.sock
      /\ o.clean = c.clean /\ o.sent = c.sent
      /\ o.buffered = c.buffered /\ o.down = c.down
      /\ (s = c.sock <=> c.connected)
      /\ StreamOK(o, s, broker.rec)
      /\ HeldOK(c.sent, outQos, taken)
      /\ UnreadOK(u, broker.rec, outQos, taken)
      /\ BufferOK(c.buffered, u, outQos, taken)
      /\ (Lasts(c, s) => SessionOK(c.sent, broker.rec, taken))
      /\ (~c.clean => FitAll(u, Asks, c.sent))
      /\ RepliesOK(c, s, broker.rec, taken)
  BY <1>1, AnsweringIs
<1>8. /\ Takable(p, broker.rec, outQos, taken)
      /\ \A k \in Carried(u) : u[k].msg # p.msg
      /\ \A k \in DOMAIN c.buffered : c.buffered[k].pkt.msg # p.msg
      /\ (p.qos > 0 =>
            /\ (Lasts(c, s) => p.id \in DOMAIN c.sent /\ Fits(p, c.sent[p.id]))
            /\ (c.connected => p.id \notin IdsOf(d, Answers)))
  BY <1>1, <1>3, MessageReadIs
<1> HIDE DEF o
<1>7. /\ c'.connected = c.connected /\ c'.sock = c.sock
      /\ c'.clean = c.clean /\ c'.sent = c.sent
      /\ c'.buffered = c.buffered /\ Unread(c', s) = u
      /\ (c.connected => s = c.sock)
      /\ (c'.down[s] = d \/ c'.down[s] = Append(d, e))
      /\ (p.qos = 0 => c'.down[s] = d)
      /\ d \in Seq(Packets) /\ u \in Seq(Packets) /\ StreamOK(c', s, rec)
  <2>1. o.up[s] = u /\ c.down[s] = d
    OBVIOUS
  <2> HIDE DEF e, rec, u, d
  <2>2. /\ c'.connected = c.connected /\ c'.sock = c.sock
        /\ c'.clean = c.clean /\ c'.sent = c.sent
        /\ c'.buffered = c.buffered /\ Unread(c', s) = o.up[s]
        /\ (c.connected => s = c.sock)
        /\ (c'.down[s] = c.down[s] \/ c'.down[s] = Append(c.down[s], e))
        /\ (c' = o => c'.down[s] = c.down[s])
        /\ c.down[s] \in Seq(Packets) /\ o.up[s] \in Seq(Packets)
        /\ \A new : StreamOK(c', s, new)
    BY <1>4, <1>5, <1>9, AnsweredIs, ZenonT(30)
  <2> QED
    BY <1>5, <2>1, <2>2
<1> HIDE DEF u, d, e, tk
<1>10. Lasts(c', s) <=> Lasts(c, s)
  BY <1>7 DEF Lasts
<1>11. /\ p.msg \in 1..OutMsgs /\ outQos[p.msg] = p.qos
       /\ \A x \in 1..OutMsgs : /\ taken[x] > 0 => tk[x] > 0
                                /\ x # p.msg => tk[x] = taken[x]
       /\ (Takes => tk[p.msg] > 0)
  <2>1. taken \in [1..OutMsgs -> 0..2]
    BY DEF Typed, TypeInv
  <2>2. p.msg \in 1..OutMsgs /\ outQos[p.msg] = p.qos
    BY <1>8 DEF Takable
  <2>3. \A n : Saturate(n) > 0
    BY DEF Saturate
  <2> QED
    BY <1>5, <2>1, <2>2, <2>3 DEF tk
<1>12. /\ broker.rec \subseteq rec /\ (p.qos = 2 => p.id \in rec)
       /\ \A i \in rec : i \in broker.rec \/ (p.qos = 2 /\ i = p.id)
  OBVIOUS
<1> HIDE DEF rec
<1>13. UnreadOK(u, rec, outQos, tk)
  <2> SUFFICES ASSUME NEW k \in Carried(u), Takable(u[k], broker.rec, outQos, taken)
               PROVE  Takable(u[k], rec, outQos, tk)
    BY <1>9 DEF UnreadOK
  <2> QED
    BY <1>8, <1>11, <1>12 DEF Takable
<1>14. BufferOK(c.buffered, u, outQos, tk)
  <2>1. ASSUME NEW k \in DOMAIN c.buffered PROVE tk[c.buffered[k].pkt.msg] = 0
    <3>1. c.buffered[k].pkt.msg \in 1..OutMsgs /\ taken[c.buffered[k].pkt.msg] = 0
      BY <1>9, <2>1 DEF BufferOK
    <3>2. c.buffered[k].pkt.msg # p.msg
      BY <1>8, <2>1
    <3> QED
      BY <1>11, <3>1, <3>2
  <2> QED
    BY <1>9, <2>1 DEF BufferOK
<1>15. HeldOK(c.sent, outQos, tk)
  BY <1>9, <1>11 DEF HeldOK
<1>16. \A i \in Publishes(c.sent) :
          c.sent[i].msg \in 1..OutMsgs /\ c.sent[i].qos = outQos[c.sent[i].msg]
  BY <1>9 DEF HeldOK
<1>17. p.qos > 0 /\ Lasts(c, s) =>
         /\ p.id \in Publishes(c.sent) /\ c.sent[p.id].qos = p.qos
         /\ c.sent[p.id].msg = p.msg
  <2> SUFFICES ASSUME p.qos > 0, Lasts(c, s)
               PROVE  /\ p.id \in Publishes(c.sent) /\ c.sent[p.id].qos = p.qos
                      /\ c.sent[p.id].msg = p.msg
    OBVIOUS
  <2>1. p.id \in DOMAIN c.sent /\ Fits(p, c.sent[p.id])
    BY <1>8
  <2>2. c.sent[p.id].kind \in {"PUBLISH", "REQUEST"}
    BY <1>9, <2>1 DEF ObjectOK, IsMap, Pending
  <2> QED
    BY <2>1, <2>2 DEF Fits, Publishes
<1>18. Lasts(c', s) => SessionOK(c.sent, rec, tk)
  <2> SUFFICES ASSUME Lasts(c, s) PROVE SessionOK(c.sent, rec, tk)
    BY <1>10
  <2>1. SessionOK(c.sent, broker.rec, taken)
    BY <1>9
  <2>2. ASSUME NEW i \in rec
        PROVE  i \in Publishes(c.sent) /\ c.sent[i].qos = 2 /\ tk[c.sent[i].msg] > 0
    <3>1. CASE i \in broker.rec
      BY <1>11, <1>16, <2>1, <3>1 DEF SessionOK
    <3>2. CASE i \notin broker.rec
      <4>1. p.qos = 2 /\ i = p.id
        BY <1>12, <2>2, <3>2
      <4>2. /\ p.id \in Publishes(c.sent) /\ c.sent[p.id].qos = p.qos
            /\ c.sent[p.id].msg = p.msg
        BY <1>2, <1>17, <4>1
      <4>3. tk[p.msg] > 0
        BY <1>11, <3>2, <4>1
      <4> QED
        BY <4>1, <4>2, <4>3
    <3> QED
      BY <3>1, <3>2
  <2>3. ASSUME NEW i \in Publishes(c.sent), c.sent[i].qos = 2, ~c.sent[i].rec,
               tk[c.sent[i].msg] > 0
        PROVE  i \in rec
    <3>1. CASE c.sent[i].msg # p.msg
      BY <1>11, <1>12, <1>16, <2>1, <2>3, <3>1 DEF SessionOK
    <3>2. CASE c.sent[i].msg = p.msg
      <4>1. p.qos = 2
        BY <1>11, <1>16, <2>3, <3>2
      <4>2. i = p.id
        <5>1. p.id \in Publishes(c.sent) /\ c.sent[p.id].msg = p.msg
          BY <1>2, <1>17, <4>1
        <5>2. \A m, n \in Publishes(c.sent) :
                 c.sent[m].msg = c.sent[n].msg => m = n
          BY <1>9 DEF HeldOK
        <5> QED
          BY <2>3, <3>2, <5>1, <5>2
      <4> QED
        BY <1>12, <4>1, <4>2
    <3> QED
      BY <3>1, <3>2
  <2> QED
    BY <2>2, <2>3 DEF SessionOK
<1>19. RepliesOK(c', s, rec, tk)
  <2> SUFFICES ASSUME c.connected
               PROVE  /\ ReceiptsOK(c'.down[s], c.sent, tk) /\ c.buffered = <<>>
                      /\ (Lasts(c', s) => ReleasesOK(c'.down[s], rec))
    BY <1>7 DEF RepliesOK
  <2>1. /\ ReceiptsOK(d, c.sent, taken) /\ c.buffered = <<>>
        /\ (Lasts(c, s) => ReleasesOK(d, broker.rec))
    BY <1>7, <1>9 DEF RepliesOK, d
  <2>2. Lasts(c, s)
    BY <1>7 DEF Lasts
  <2>3. ReceiptsOK(d, c.sent, tk)
    BY <1>11, <1>16, <2>1 DEF ReceiptsOK
  <2>4. ReleasesOK(d, rec)
    <3> SUFFICES ASSUME NEW k \in DOMAIN d, d[k].kind = "PUBCOMP", p.qos = 2
                 PROVE  d[k].id # p.id
      BY <1>12, <2>1, <2>2 DEF ReleasesOK
    <3>1. d[k] \in Packets
      BY <1>7, SeqIs
    <3>2. d[k] \in Answers
      BY <3>1 DEF Answers
    <3> QED
      <4>1. p.id \notin IdsOf(d, Answers)
        BY <1>2, <1>8
      <4>2. d[k].id \in IdsOf(d, Answers)
        BY <3>2 DEF IdsOf
      <4> QED
        BY <4>1, <4>2
  <2>5. p.qos > 0 => p.id \in Publishes(c.sent) /\ tk[c.sent[p.id].msg] > 0
    <3>1. CASE Takes
      BY <1>11, <1>17, <2>2, <3>1
    <3>2. CASE ~Takes
      <4>1. p.id \in broker.rec /\ SessionOK(c.sent, broker.rec, taken)
        BY <1>9, <2>2, <3>2
      <4> QED
        BY <1>11, <1>16, <4>1 DEF SessionOK
    <3> QED
      BY <3>1, <3>2
  <2>6. p.qos > 0 => /\ ReceiptsOK(Append(d, e), c.sent, tk)
                     /\ ReleasesOK(Append(d, e), rec)
    <3>1. e.kind # "PUBCOMP"
      BY <1>4
    <3> HIDE DEF rec, kind
    <3> QED
      BY <1>4, <1>7, <2>3, <2>4, <2>5, <3>1, ReceiptPut
  <2>7. p.qos > 0 \/ p.qos = 0
    BY <1>2
  <2> QED
    BY <1>7, <2>1, <2>3, <2>4, <2>6, <2>7
<1>20. MessagesOK(c', s, rec, outQos, tk)
  BY <1>7, <1>9, <1>13, <1>14, <1>15, <1>18, <1>19 DEF MessagesOK
<1>21. UnsentOK'
  <2>1. \A x \in 1..OutMsgs : outQos[x] = Unsent => x # p.msg /\ taken[x] = 0
    BY <1>2, <1>11 DEF SendInv, UnsentOK, Unsent
  <2> QED
    BY <1>1, <1>11, <2>1 DEF UnsentOK, tk
<1> QED
  BY <1>1, <1>5, <1>7, <1>20, <1>21 DEF SendInv, StreamInv, tk

\* One packet more to be read.
LEMMA UnreadPut ==
    ASSUME NEW u \in Seq(Packets), NEW p \in Packets, NEW rec, NEW oq, NEW tk,
           UnreadOK(u, rec, oq, tk),
           p \in Asks => p.id \notin IdsOf(u, Asks),
           p.kind = "PUBLISH" => /\ Takable(p, rec, oq, tk)
                                 /\ \A k \in Carried(u) : u[k].msg # p.msg,
           NEW f
    PROVE  /\ UnreadOK(Append(u, p), rec, oq, tk)
           /\ FitAll(u, Asks, f) /\ (p \in Asks => p.id \in DOMAIN f /\ Fits(p, f[p.id]))
              => FitAll(Append(u, p), Asks, f)
<1> DEFINE v == Append(u, p)
           n == Len(u) + 1
<1>1. /\ v \in Seq(Packets) /\ Len(v) = n
      /\ \A i \in 1..Len(u) : v[i] = u[i]
      /\ v[n] = p
  OBVIOUS
<1>2. DOMAIN v = 1..n /\ DOMAIN u = 1..Len(u) /\ Len(u) \in Nat
  BY <1>1, SeqIs
<1>3. \A i \in DOMAIN v : (i = n /\ v[i] = p) \/ (i \in DOMAIN u /\ v[i] = u[i])
  BY <1>1, <1>2
<1>9. n \notin DOMAIN u
  BY <1>2
<1> HIDE DEF v, n
<1>4. Lone(v, Asks)
  <2> SUFFICES ASSUME NEW i \in DOMAIN v, NEW j \in DOMAIN v,
                      v[i] \in Asks, v[j] \in Asks, v[i].id = v[j].id
               PROVE  i = j
    BY DEF Lone
  <2>1. \A k \in DOMAIN u : u[k] \in Asks => u[k].id \in IdsOf(u, Asks)
    BY DEF IdsOf
  <2>2. CASE i = n
    BY <1>3, <1>9, <2>1, <2>2
  <2>3. CASE i # n
    BY <1>3, <2>1, <2>3 DEF UnreadOK, Lone
  <2> QED
    BY <2>2, <2>3
<1>5. \A k \in Carried(v) : \/ k = n /\ p.kind = "PUBLISH" /\ v[k] = p
                            \/ k \in Carried(u) /\ v[k] = u[k]
  BY <1>3 DEF Carried
<1>6. \A k \in Carried(v) : Takable(v[k], rec, oq, tk)
  BY <1>5 DEF UnreadOK
<1>7. \A k, l \in Carried(v) : v[k].msg = v[l].msg => k = l
  BY <1>5 DEF UnreadOK
<1>8. FitAll(u, Asks, f) /\ (p \in Asks => p.id \in DOMAIN f /\ Fits(p, f[p.id]))
         => FitAll(v, Asks, f)
  BY <1>3 DEF FitAll
<1> QED
  BY <1>4, <1>6, <1>7, <1>8 DEF UnreadOK, v

\* A packet sent on a connection that is made.
LEMMA PutSend ==
    ASSUME NEW o, NEW conn \in Sockets \union {NoSocket}, Made(o, conn),
           NEW p \in Packets, p.id < WireIds,
           NEW rec, NEW oq, NEW tk, StreamOK(o, conn, rec),
           MessagesOK(o, conn, rec, oq, tk),
           p \in Asks => /\ p.id \notin IdsOf(o.up[o.sock], Asks)
                         /\ p.id \in DOMAIN o.sent /\ Fits(p, o.sent[p.id]),
           p.kind = "PUBLISH" =>
              /\ Takable(p, rec, oq, tk)
              /\ \A k \in Carried(Unread(o, conn)) : Unread(o, conn)[k].msg # p.msg,
           NEW r, r = Schedule(o, <<p>>) \/ r = ScheduleInHandler(o, p)
    PROVE  StreamOK(r, conn, rec) /\ MessagesOK(r, conn, rec, oq, tk)
<1> DEFINE s == o.sock
           q == [p EXCEPT !.id = @ % WireIds]
           u == Unread(o, conn)
           v == Unread(r, conn)
<1>1. /\ r.sock = s /\ r.sent = o.sent /\ r.connected = o.connected
      /\ r.clean = o.clean /\ r.buffered = o.buffered
      /\ r.down = o.down
      /\ \A x \in Sockets : x # s => r.up[x] = o.up[x]
      /\ \/ r.up[s] = o.up[s]
         \/ conn = s /\ r.up[s] = Append(o.up[s], q)
  BY SentIs
<1>2. q = p
  BY OneEncoded
<1> HIDE DEF q
<1>3. s \in Sockets /\ o.up \in [Sockets -> Seq(Packets)] /\ o.connected
      /\ NoSocket \notin Sockets
  BY SocketIs DEF Made, LinkedOK, ObjectOK, NoSocket, Sockets
<1>4. u \in Seq(Packets)
  BY <1>3 DEF Unread
<1>5. v = u \/ (conn = s /\ u = o.up[s] /\ v = Append(u, p))
  BY <1>1, <1>2, <1>3 DEF Unread
<1>6. /\ HeldOK(o.sent, oq, tk) /\ UnreadOK(u, rec, oq, tk)
      /\ (Lasts(o, conn) => SessionOK(o.sent, rec, tk))
      /\ (~o.clean => FitAll(u, Asks, o.sent))
      /\ RepliesOK(o, conn, rec, tk)
  BY DEF MessagesOK
<1>7. r.buffered = <<>>
  BY <1>1, <1>3, <1>6 DEF RepliesOK
<1>8. UnreadOK(v, rec, oq, tk) /\ (~o.clean => FitAll(v, Asks, o.sent))
  <2>1. CASE v = u
    BY <1>6, <2>1
  <2>2. CASE conn = s /\ u = o.up[s] /\ v = Append(u, p)
    <3>1. p \in Asks => p.id \notin IdsOf(u, Asks)
      BY <2>2
    <3>2. p.kind = "PUBLISH" => /\ Takable(p, rec, oq, tk)
                                /\ \A k \in Carried(u) : u[k].msg # p.msg
      OBVIOUS
    <3> HIDE DEF u, v
    <3>3. UnreadOK(Append(u, p), rec, oq, tk)
      BY <1>4, <1>6, <3>1, <3>2, UnreadPut
    <3>4. FitAll(u, Asks, o.sent) => FitAll(Append(u, p), Asks, o.sent)
      BY <1>4, <1>6, <3>1, <3>2, UnreadPut
    <3> QED
      BY <1>6, <2>2, <3>3, <3>4
  <2> QED
    BY <1>5, <2>1, <2>2
<1>9. Lasts(r, conn) <=> Lasts(o, conn)
  BY <1>1 DEF Lasts
<1>10. BufferOK(r.buffered, v, oq, tk)
  BY <1>7, NoneUnread
<1>11. RepliesOK(r, conn, rec, tk)
  BY <1>1, <1>6, <1>9 DEF RepliesOK
<1>12. MessagesOK(r, conn, rec, oq, tk)
  BY <1>1, <1>6, <1>8, <1>9, <1>10, <1>11 DEF MessagesOK
<1>13. StreamOK(r, conn, rec)
  <2>1. QuietOK(r, conn)
    BY <1>1 DEF StreamOK, QuietOK
  <2>2. AdmittedOK(r, conn)
    <3>1. conn = s \/ u = <<>>
      BY <1>3 DEF StreamOK, AdmittedOK, Admitted
    <3> QED
      BY <1>1, <1>5, <3>1 DEF AdmittedOK
  <2>3. FreshOK(r, conn, rec)
    BY <1>1, <1>3 DEF FreshOK
  <2> QED
    BY <2>1, <2>2, <2>3 DEF StreamOK
<1> QED
  BY <1>12, <1>13

=============================================================================
