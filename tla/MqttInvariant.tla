--------------------------- MODULE MqttInvariant ---------------------------
(***************************************************************************)
(* The inductive invariant of MqttClient in five parts, each of which      *)
(* needs the ones before it: Typed, the types and how many identifiers are *)
(* given out; ConnInv, what the socket, the timers and the queue are when  *)
(* a connection is on its way, made or given up; Tidy, which packets are   *)
(* under way for the messages that await an acknowledgement; SendInv, what *)
(* the broker took of them and may still take; and ReceiveInv, what the    *)
(* client took of the broker's messages and may still take.                *)
(***************************************************************************)
EXTENDS MqttClient

\* A map from some of S into T.
IsMap(f, S, T) ==
    /\ f = [x \in DOMAIN f |-> f[x]]
    /\ DOMAIN f \subseteq S
    /\ \A x \in DOMAIN f : f[x] \in T

Fields == {"connected", "clean", "sock", "reconnecting", "connectTimer",
           "reconnectTimer", "orphans", "pinger", "version", "sent",
           "received", "queue", "notify", "buffered", "cursor", "sequence",
           "ready", "on", "link", "up", "down"}
\* The largest number a message has, either way.
TopMsg == Max({OutMsgs, InMsgs})
Packets == [kind : Kinds, id : Nat, msg : 0..TopMsg, qos : 0..2]
\* What _sentMessages and localStorage keep of a message.
Pending == [kind : {"PUBLISH", "REQUEST"}, msg : 0..OutMsgs, qos : 0..2,
            seq : Nat, rec : BOOLEAN]
\* What the broker keeps of one it has sent.
Flights == [id : Nat, msg : 1..InMsgs, qos : 0..2, rel : BOOLEAN]

\* The types of the object's fields.
ObjectOK(o) ==
    /\ DOMAIN o = Fields
    /\ {o.connected, o.clean, o.reconnecting, o.notify} \subseteq BOOLEAN
    /\ o.sock \in Sockets \union {NoSocket}
    /\ o.connectTimer \in {"null", "idle", "armed"}
    /\ o.reconnectTimer \in {"null", "idle", "armed"}
    /\ o.orphans \in Nat /\ o.pinger \in {"off", "reset", "waiting"}
    /\ o.version \in {3, 4}
    /\ IsMap(o.sent, Nat \ {0}, Pending) /\ IsFiniteSet(DOMAIN o.sent)
    /\ IsMap(o.received, Nat, 0..TopMsg)
    /\ o.queue \in Seq(Packets)
    /\ o.buffered \in Seq([pkt : Packets, seq : Nat])
    /\ o.cursor \in Nat \ {0} /\ o.sequence \in Nat
    /\ o.ready \in [Sockets -> {"connecting", "open", "closed"}]
    /\ o.on \in [Sockets -> BOOLEAN]
    /\ o.link \in [Sockets -> {"up", "down", "dead"}]
    /\ o.up \in [Sockets -> Seq(Packets)]
    /\ o.down \in [Sockets -> Seq(Packets)]

\* The types of what is in localStorage.
StoreOK ==
    /\ DOMAIN store = {"sent", "received"}
    /\ IsMap(store.sent, Nat \ {0}, Pending)
    /\ IsFiniteSet(DOMAIN store.sent)
    /\ IsMap(store.received, Nat, 0..TopMsg)

\* The broker's messages in flight are different ones under different
\* identifiers.
BrokerOK ==
    /\ broker \in [conn : Sockets \union {NoSocket}, rec : SUBSET Nat,
                   out : Seq(Flights)]
    /\ \A i, j \in DOMAIN broker.out :
          \/ broker.out[i].id = broker.out[j].id
          \/ broker.out[i].msg = broker.out[j].msg
          => i = j
    /\ \A i \in DOMAIN broker.out : inQos[broker.out[i].msg] # Unsent

\* The types of every variable.
TypeInv ==
    /\ ObjectOK(c) /\ StoreOK /\ BrokerOK
    /\ outQos \in [1..OutMsgs -> 0..Unsent] /\ inQos \in [1..InMsgs -> 0..Unsent]
    /\ taken \in [1..OutMsgs -> 0..2] /\ arrived \in [1..InMsgs -> 0..2]
    /\ upsets \in 0..MaxUpsets

\* An identifier is given out only after all below it were.
Tried == {m \in 1..OutMsgs : outQos[m] # Unsent}
Tries == Cardinality(Tried) + upsets
CountInv ==
    /\ DOMAIN c.sent \subseteq 1..(1 + Tries)
    /\ DOMAIN store.sent \subseteq 1..(1 + Tries)
    /\ c.cursor \in 1..(1 + Tries)
    /\ c.sequence \in 0..Cardinality(Tried)

\* The first part.
Typed == TypeInv /\ CountInv

-----------------------------------------------------------------------------
\* No attempt to retry fails once it has sent its CONNECT, and none outlasts
\* its connect timeout.  Such a one fails twice: _disconnected leaves the
\* pingers of a retry running (mqttws31.js:1751-1760), so that the connect
\* timeout or the refusal and the pinger set a reconnect timer each.  The
\* second timer starts a connection beside that of the first, and neither
\* ConnectedUsable nor StoreExact survives that.
NoRetryFaults ==
    {"broken retry", "silent retry", "refused retry", "slow retry"}
        \cap Upsets = {}

\* The kinds of packets that go each way on a connection that is made; those
\* of Announced may follow the CONNACK at once.
FromClient == {"PUBLISH", "PUBREL", "REQUEST", "PUBACK", "PUBREC", "PUBCOMP",
               "DISCONNECT"}
Announced == {"PUBLISH", "PUBREL"}
FromBroker == Announced \union {"PUBACK", "PUBREC", "PUBCOMP", "REQUESTACK"}
AreOf(ps, kinds) == \A i \in DOMAIN ps : ps[i].kind \in kinds

\* What holds of the object whatever its current socket has come to: nothing
\* is left on the sockets it has given up, and a timer that will reconnect is
\* the only one.
SettledOK(o) ==
    /\ o.orphans = 0
    /\ \A s \in Sockets :
          /\ o.on[s] <=> o.ready[s] # "closed"
          /\ o.link[s] # "up" => o.up[s] = <<>>
          /\ o.link[s] = "dead" => o.down[s] = <<>>
          /\ o.on[s] /\ s # o.sock => o.link[s] # "up" /\ o.down[s] = <<>>
    /\ \A i \in DOMAIN o.buffered :
          o.buffered[i].pkt.kind = "PUBLISH" /\ o.buffered[i].pkt.qos = 0
    /\ o.reconnectTimer = "armed" => o.reconnecting /\ ~o.connected

\* A queue to be sent when the socket is open, by the first attempt only.
NotifyOK(o) == o.notify => o.queue # <<>> /\ ~o.reconnecting

\* The current socket: its connect timer is armed before its reconnect timer,
\* and a socket without handlers is not heard of.
CurrentOK(o) ==
    /\ o.sock = NoSocket <=> o.connectTimer = "null"
    /\ o.sock # NoSocket =>
        /\ ~o.on[o.sock] => o.link[o.sock] # "up" /\ o.down[o.sock] = <<>>
        /\ o.reconnectTimer = "armed" =>
              /\ o.connectTimer # "armed"
              /\ o.link[o.sock] # "up" /\ o.down[o.sock] = <<>>

\* No pinger runs on a retry that is lost: it would set a reconnect timer
\* beside the connect timeout's.  A retry is not lost when its CONNACK is still
\* to be handled.
PingerOK(o) ==
    o.sock # NoSocket /\ o.reconnecting /\ o.link[o.sock] # "up" =>
        \/ o.pinger = "off"
        \/ o.down[o.sock] # <<>> /\ o.down[o.sock][1].kind = "CONNACK"

\* A connection on its way: no packet but CONNECT one way, and the answer to
\* it before any other the other way.
HandshakeOK(o, conn) ==
    LET s == o.sock
        u == o.up[s]
        d == o.down[s]
    IN  ~o.connected =>
          /\ AreOf(o.queue, {"DISCONNECT"})
          /\ s # NoSocket =>
               /\ o.ready[s] = "connecting" => u = <<>> /\ d = <<>> /\ conn # s
               /\ o.ready[s] = "open" /\ o.link[s] = "up" =>
                    \/ /\ conn # s /\ d = <<>>
                       /\ Len(u) = 1 /\ u[1].kind = "CONNECT"
                    \/ /\ conn = s /\ u = <<>>
                       /\ d # <<>> /\ d[1].kind = "CONNACK"
               /\ d # <<>> =>
                    /\ d[1].kind \in {"CONNACK", "REFUSED"}
                    /\ \A i \in 2..Len(d) : d[i].kind \in Announced
                    /\ d[1].kind = "REFUSED" => Len(d) = 1 /\ o.link[s] # "up"

\* A connection that is made.
LinkedOK(o, conn) ==
    LET s == o.sock
    IN  /\ s # NoSocket /\ o.ready[s] = "open"
        /\ ~o.reconnecting /\ o.connectTimer # "armed"
        /\ AreOf(o.up[s], FromClient) /\ AreOf(o.down[s], FromBroker)
        /\ o.link[s] = "up" => conn = s
UsableOK(o, conn) ==
    o.connected => LinkedOK(o, conn) /\ ~o.notify /\ o.queue = <<>>

\* The second part.
ConnOK(o, conn) ==
    /\ SettledOK(o) /\ NotifyOK(o) /\ CurrentOK(o) /\ PingerOK(o)
    /\ HandshakeOK(o, conn) /\ UsableOK(o, conn)
ConnInv == ConnOK(c, broker.conn)

-----------------------------------------------------------------------------
\* Two bytes hold every identifier given out: there is one more for each
\* message and each upset, and 1 is where the search begins.
IdsFit == 1 + OutMsgs + MaxUpsets < WireIds

\* The packets that settle what was sent under an identifier, each way: one for
\* each identifier at most is under way, and the message that awaits it is of
\* its kind.
Asks == {p \in Packets : \/ p.kind \in {"PUBREL", "REQUEST"}
                         \/ p.kind = "PUBLISH" /\ p.qos > 0}
Answers == {p \in Packets :
              p.kind \in {"PUBACK", "PUBREC", "PUBCOMP", "REQUESTACK"}}
Fits(p, e) ==
    /\ p.kind \in {"REQUEST", "REQUESTACK"} <=> e.kind = "REQUEST"
    /\ p.kind = "PUBLISH" => e.msg = p.msg /\ e.qos = p.qos /\ ~e.rec
    /\ p.kind = "PUBACK" => e.qos = 1
    /\ p.kind = "PUBREC" => e.qos = 2 /\ ~e.rec
    /\ p.kind \in {"PUBREL", "PUBCOMP"} => e.qos = 2 /\ e.rec

\* The identifiers of those packets of ps that are in P; no two of them have
\* the same; and each fits the message f has under its identifier.
IdsOf(ps, P) == {ps[i].id : i \in {j \in DOMAIN ps : ps[j] \in P}}
Lone(ps, P) ==
    \A i, j \in DOMAIN ps :
       ps[i] \in P /\ ps[j] \in P /\ ps[i].id = ps[j].id => i = j
FitAll(ps, P, f) ==
    \A i \in DOMAIN ps :
       ps[i] \in P => ps[i].id \in DOMAIN f /\ Fits(ps[i], f[ps[i].id])

\* The tokens on the way up and down a connection.
TokensOK(u, d, f) ==
    /\ Lone(u, Asks) /\ Lone(d, Answers)
    /\ FitAll(u, Asks, f) /\ FitAll(d, Answers, f)
    /\ IdsOf(u, Asks) \cap IdsOf(d, Answers) = {}
TokenOK(o) == o.connected => TokensOK(o.up[o.sock], o.down[o.sock], o.sent)
\* Only a message of quality 2 gets a PUBREC.
PendingOK(f) ==
    \A i \in DOMAIN f :
       \/ f[i].kind = "REQUEST"
       \/ f[i].qos > 0 /\ (f[i].rec => f[i].qos = 2)
TokenInv == TokenOK(c) /\ PendingOK(c.sent)

\* The third part.
Tidy == TokenInv /\ StoreExact

\* The three hold together, in every state, if no fault hits an attempt to
\* retry and the identifiers fit: a client that is connected has the socket,
\* the timers and the queue it needs, and what comes back on the socket is
\* about the message that waits for it (mqttws31.js _on_socket_message).
ClientInv == Typed /\ ConnInv /\ Tidy

-----------------------------------------------------------------------------
\* What the broker has still to read on its connection.
Unread(o, conn) == IF conn = NoSocket THEN <<>> ELSE o.up[conn]

\* On every other socket there is a CONNECT at most.
Hello(u, clean) ==
    Len(u) = 1 /\ u[1].kind = "CONNECT" /\ ((u[1].id = 1) <=> clean)
QuietOK(o, conn) ==
    \A s \in Sockets : s # conn => o.up[s] = <<>> \/ Hello(o.up[s], o.clean)

\* The broker has answered the current socket's CONNECT; from then on it
\* reads no packet of another socket, and its clean session is a new one.
Admitted(o) ==
    \/ o.connected
    \/ /\ o.sock # NoSocket /\ o.down[o.sock] # <<>>
       /\ o.down[o.sock][1].kind = "CONNACK"
AdmittedOK(o, conn) ==
    Admitted(o) => conn = o.sock \/ Unread(o, conn) = <<>>
FreshOK(o, conn, rec) ==
    o.clean /\ ~o.connected /\ Admitted(o) /\ conn = o.sock => rec = {}
StreamOK(o, conn, rec) ==
    QuietOK(o, conn) /\ AdmittedOK(o, conn) /\ FreshOK(o, conn, rec)

\* The messages that await an acknowledgement are different ones.
Publishes(f) == {i \in DOMAIN f : f[i].kind = "PUBLISH"}
HeldOK(f, oq, tk) ==
    /\ \A i \in Publishes(f) :
          /\ f[i].msg \in 1..OutMsgs /\ oq[f[i].msg] = f[i].qos
          /\ f[i].rec => tk[f[i].msg] > 0
    /\ \A i, j \in Publishes(f) : f[i].msg = f[j].msg => i = j

\* The broker's session is that of the client's messages, but for a clean one,
\* which is given up with its connection.  Its identifiers are those of the
\* messages of quality 2 that it took and has yet to release.
Lasts(o, conn) == o.clean => o.connected /\ conn = o.sock
SessionOK(f, rec, tk) ==
    /\ \A i \in rec : i \in Publishes(f) /\ f[i].qos = 2 /\ tk[f[i].msg] > 0
    /\ \A i \in Publishes(f) :
          f[i].qos = 2 /\ ~f[i].rec /\ tk[f[i].msg] > 0 => i \in rec

\* A PUBLISH the broker has still to read may be taken: never was, or may be
\* again, or the broker knows its identifier.
Carried(u) == {k \in DOMAIN u : u[k].kind = "PUBLISH"}
Takable(p, rec, oq, tk) ==
    /\ p.msg \in 1..OutMsgs /\ oq[p.msg] = p.qos
    /\ p.qos = 1 \/ (p.qos = 2 /\ p.id \in rec) \/ tk[p.msg] = 0
UnreadOK(u, rec, oq, tk) ==
    /\ Lone(u, Asks)
    /\ \A k \in Carried(u) : Takable(u[k], rec, oq, tk)
    /\ \A k, l \in Carried(u) : u[k].msg = u[l].msg => k = l
\* What is buffered was never sent.
BufferOK(b, u, oq, tk) ==
    /\ \A k \in DOMAIN b :
          /\ b[k].pkt.msg \in 1..OutMsgs /\ oq[b[k].pkt.msg] = 0
          /\ tk[b[k].pkt.msg] = 0
          /\ \A l \in Carried(u) : u[l].msg # b[k].pkt.msg
    /\ \A k, l \in DOMAIN b : b[k].pkt.msg = b[l].pkt.msg => k = l

\* What the broker says it took or released, it did.
ReceiptsOK(d, f, tk) ==
    \A k \in DOMAIN d :
       d[k].kind \in {"PUBACK", "PUBREC"} =>
          d[k].id \in Publishes(f) /\ tk[f[d[k].id].msg] > 0
ReleasesOK(d, rec) ==
    \A k \in DOMAIN d : d[k].kind = "PUBCOMP" => d[k].id \notin rec
RepliesOK(o, conn, rec, tk) ==
    o.connected =>
       /\ ReceiptsOK(o.down[o.sock], o.sent, tk) /\ o.buffered = <<>>
       /\ Lasts(o, conn) => ReleasesOK(o.down[o.sock], rec)

MessagesOK(o, conn, rec, oq, tk) ==
    LET u == Unread(o, conn)
    IN  /\ HeldOK(o.sent, oq, tk)
        /\ UnreadOK(u, rec, oq, tk) /\ BufferOK(o.buffered, u, oq, tk)
        /\ Lasts(o, conn) => SessionOK(o.sent, rec, tk)
        /\ ~o.clean => FitAll(u, Asks, o.sent)
        /\ RepliesOK(o, conn, rec, tk)

\* Nothing is taken that was not sent; and what the streams hold.
UnsentOK == \A m \in 1..OutMsgs : outQos[m] = Unsent => taken[m] = 0
StreamInv == StreamOK(c, broker.conn, broker.rec)

\* The fourth part: why no message is taken twice, or forgotten untaken.  What is
\* sent again after CONNACK and what is still to be read can all be taken, and a
\* PUBACK or PUBCOMP on its way is about a message that was (mqttws31.js
\* _handleMessage), however connections and pages come and go.
SendInv ==
    /\ UnsentOK /\ StreamInv
    /\ MessagesOK(c, broker.conn, broker.rec, outQos, taken)
-----------------------------------------------------------------------------
\* The broker gives its messages identifiers that two bytes hold: it has one
\* at most for each message in flight.
BrokerIdsFit == InMsgs < WireIds

\* What the client has still to hear on its current socket.
Unheard(o) == IF o.sock = NoSocket THEN <<>> ELSE o.down[o.sock]

\* What the broker has in flight as a map from identifiers, in the form of
\* the client's messages that await an acknowledgement.
Flying(out) ==
    [i \in {out[k].id : k \in DOMAIN out} |->
        LET e == out[CHOOSE k \in DOMAIN out : out[k].id = i]
        IN  [kind |-> "PUBLISH", msg |-> e.msg, qos |-> e.qos, rec |-> e.rel]]
FlyingOK(f, iq) ==
    /\ \A i \in DOMAIN f :
          /\ i \in 1..InMsgs /\ f[i].kind = "PUBLISH"
          /\ f[i].msg \in 1..InMsgs /\ f[i].qos \in {1, 2}
          /\ iq[f[i].msg] = f[i].qos /\ (f[i].rec => f[i].qos = 2)
    /\ \A i, j \in DOMAIN f : f[i].msg = f[j].msg => i = j

\* The messages of quality 2 the client has and did not hand on yet.
GotOK(g, iq, ar) ==
    /\ \A i \in DOMAIN g : g[i] \in 1..InMsgs /\ iq[g[i]] = 2 /\ ar[g[i]] = 0
    /\ \A i, j \in DOMAIN g : g[i] = g[j] => i = j

\* A PUBLISH on its way to the client may be handed on: never was, or may be
\* again.  The client has a message of quality 2 already only when the broker
\* repeats it, under the identifier it has.
Coming(d, iq, ar) ==
    /\ \A k \in Carried(d) :
          /\ d[k].msg \in 1..InMsgs /\ iq[d[k].msg] = d[k].qos
          /\ d[k].qos # 1 => ar[d[k].msg] = 0
    /\ \A k, l \in Carried(d) : d[k].msg = d[l].msg => k = l
Repeats(d, g, clean) ==
    \A k \in Carried(d), i \in DOMAIN g :
       g[i] = d[k].msg => ~clean /\ i = d[k].id

\* The two ends of a session that lasts agree: the client has just the messages
\* it sent a PUBREC for and did not hand on, and says PUBACK or PUBCOMP only
\* of one it did.
AgreeOK(g, f, ar) ==
    /\ \A i \in DOMAIN g : i \in DOMAIN f /\ f[i].qos = 2 /\ f[i].msg = g[i]
    /\ \A i \in DOMAIN f :
          f[i].qos = 2 => IF f[i].rec THEN i \in DOMAIN g \/ ar[f[i].msg] > 0
                                     ELSE ar[f[i].msg] = 0
SaidOK(u, g, f, ar) ==
    \A k \in DOMAIN u :
       /\ u[k].kind \in {"PUBACK", "PUBCOMP"} => ar[f[u[k].id].msg] > 0
       /\ u[k].kind = "PUBREC" => u[k].id \in DOMAIN g
LastingOK(d, u, g, f, iq, ar) ==
    /\ FlyingOK(f, iq) /\ TokensOK(d, u, f)
    /\ AgreeOK(g, f, ar) /\ SaidOK(u, g, f, ar)

InboundOK(o, conn, out, iq, ar) ==
    LET d == Unheard(o)
        g == o.received
    IN  /\ \A m \in 1..InMsgs : iq[m] = Unsent => ar[m] = 0
        /\ GotOK(g, iq, ar) /\ Coming(d, iq, ar) /\ Repeats(d, g, o.clean)
        /\ ~o.clean => LastingOK(d, Unread(o, conn), g, Flying(out), iq, ar)

\* The fifth part: why no message of quality 0 or 2 is handed on twice, and the
\* broker forgets none before it was.  What is on its way to the client can be
\* handed on, and a PUBACK or PUBCOMP on its way back is about a message that
\* was (mqttws31.js _handleMessage), however connections and pages come and go.
ReceiveInv == InboundOK(c, broker.conn, broker.out, inQos, arrived)
============================================================================
