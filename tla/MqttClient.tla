----------------------------- MODULE MqttClient -----------------------------
(***************************************************************************)
(* The client of mqttws31.js: one ClientImpl object in a page, the         *)
(* WebSockets it makes, what it keeps in localStorage, and a broker with   *)
(* a session for it.  A handler of the code is one action, as the page has *)
(* one thread; the routines the handlers call are operators on the object. *)
(***************************************************************************)
EXTENDS Integers, FiniteSets, Sequences, SequencesExt, FiniteSetsExt

CONSTANTS
    OutMsgs,        \* how many messages the application sends
    InMsgs,         \* how many messages the broker sends
    Qualities,      \* the qualities of service they are sent with
    MaxId,          \* maxMessageIdentifier
    WireIds,        \* how many identifiers two bytes hold
    BufferSize,     \* disconnectedBufferSize
    NumSockets,     \* sockets that exist at a time
    CleanSession,   \* one of which the application connects with
    AutoReconnect, DisconnectedPublishing,   \* options
    KeepAlive,      \* keepAliveInterval > 0
    Fallback,       \* mqttVersion 4 without mqttVersionExplicit
    Upsets,         \* the faults and the rarer calls that happen
    MaxUpsets       \* how many of them

ASSUME MqttAssumption ==
    /\ {OutMsgs, InMsgs, MaxUpsets} \subseteq Nat
    /\ {MaxId, WireIds, BufferSize, NumSockets} \subseteq Nat \ {0}
    /\ Qualities \subseteq 0..2
    /\ CleanSession \subseteq BOOLEAN /\ CleanSession # {}
    /\ {AutoReconnect, DisconnectedPublishing, KeepAlive, Fallback} \subseteq BOOLEAN
    /\ Upsets \subseteq {"break", "silence", "slow", "refuse", "crash",
                         "broken retry", "silent retry", "slow retry",
                         "refused retry", "request", "disconnect"}

VARIABLES
    c,          \* the ClientImpl object and its sockets
    store,      \* localStorage: its "Sent:" and "Received:" keys
    broker,     \* connection, QoS 2 identifiers taken, messages in flight
    outQos, taken, inQos, arrived,     \* what was sent and taken each way
    upsets      \* how many upsets there were

vars == <<c, store, broker, outQos, taken, inQos, arrived, upsets>>

Sockets == 1..NumSockets
NoSocket == 0
Unsent == 3
Undefined == 0      \* a sequence that was never assigned

Packet(kind, id, m, q) == [kind |-> kind, id |-> id, msg |-> m, qos |-> q]
Control(kind, id) == Packet(kind, id, 0, 0)
\* The flag of a clean session takes the place of the identifier.
Connect(o) == Control("CONNECT", IF o.clean THEN 1 ELSE 0)
Encoded(ps) == [i \in DOMAIN ps |-> [ps[i] EXCEPT !.id = @ % WireIds]]
Empty == [i \in {} |-> i]
Bind(f, i, x) == [j \in DOMAIN f \union {i} |-> IF j = i THEN x ELSE f[j]]
Unbind(f, i) == [j \in DOMAIN f \ {i} |-> f[j]]
Saturate(n) == IF n = 0 THEN 1 ELSE 2

-----------------------------------------------------------------------------
(***************************************************************************)
(* The object.  ready, on, link, up and down are the sockets': readyState, *)
(* whether the handlers are attached, whether the connection works ("down" *)
(* has a close event to come, "dead" is silent), and what is in flight.    *)
(***************************************************************************)
NewClient(saved, clean) ==
    [connected |-> FALSE, clean |-> clean, sock |-> NoSocket, reconnecting |-> FALSE,
     connectTimer |-> "null", reconnectTimer |-> "null", orphans |-> 0,
     pinger |-> "off", version |-> 4,
     sent |-> saved.sent, received |-> saved.received,
     queue |-> <<>>, notify |-> FALSE, buffered |-> <<>>, cursor |-> 1, sequence |-> 0,
     ready |-> [s \in Sockets |-> "closed"], on |-> [s \in Sockets |-> FALSE],
     link |-> [s \in Sockets |-> "down"],
     up |-> [s \in Sockets |-> <<>>], down |-> [s \in Sockets |-> <<>>]]

\* A socket that neither side has a use for any more stands for a new one.
Free(o) == {s \in Sockets :
              /\ o.ready[s] = "closed" /\ o.up[s] = <<>>
              /\ s # broker.conn}

\* _socket_send: send() throws on no socket and on one that is connecting,
\* and drops the message on one that is closing.  The pinger is set again,
\* which has a timer only with a keep-alive interval.
CanSend(o) == o.sock # NoSocket /\ o.ready[o.sock] # "connecting"
SocketSend(o, ps) ==
    LET s == o.sock
    IN  [o EXCEPT !.pinger = IF KeepAlive THEN "reset" ELSE @,
                  !.up[s] = IF o.ready[s] = "open" /\ o.link[s] = "up"
                            THEN @ \o Encoded(ps) ELSE @]

DoConnect(o) ==
    LET s == Min(Free(o))
    IN  [o EXCEPT !.connected = FALSE, !.sock = s, !.pinger = "off",
                  !.connectTimer = "armed", !.ready[s] = "connecting",
                  !.on[s] = TRUE, !.link[s] = "up", !.down[s] = <<>>]

Reconnect(o) ==
    IF o.connected THEN o ELSE DoConnect([o EXCEPT !.reconnecting = TRUE])

\* Cancels the callbacks of the current socket and closes it.
Detach(o) ==
    LET d == [o EXCEPT !.pinger = "off", !.connectTimer = "null",
                       !.queue = <<>>, !.notify = FALSE, !.buffered = <<>>,
                       !.sock = NoSocket]
        s == o.sock
    IN  IF s = NoSocket THEN d
        ELSE [d EXCEPT !.on[s] = FALSE, !.ready[s] = "closed",
                       !.down[s] = <<>>]

\* A mutant: the next attempt is left to the close event.
RetryNever(o) == o

RetryLater(o) ==
    [o EXCEPT !.reconnectTimer = "armed",
              !.orphans = @ + IF o.reconnectTimer = "armed" THEN 1 ELSE 0]

\* Mutants of Disconnected: one that falls back from every version, one that
\* still says connected when it reconnects.
DisconnectedLower(o, failed) ==
    LET d == Detach(o)
    IN  IF failed /\ o.reconnecting THEN RetryLater(o)
        ELSE IF o.connected
        THEN IF failed /\ AutoReconnect
             THEN Reconnect([d EXCEPT !.connected = FALSE])
             ELSE [d EXCEPT !.connected = FALSE]
        ELSE IF Fallback THEN DoConnect([d EXCEPT !.version = @ - 1]) ELSE d
DisconnectedStays(o, failed) ==
    LET d == Detach(o)
    IN  IF failed /\ o.reconnecting THEN RetryLater(o)
        ELSE IF o.connected
        THEN IF failed /\ AutoReconnect THEN Reconnect(d)
             ELSE [d EXCEPT !.connected = FALSE]
        ELSE IF Fallback /\ o.version = 4
             THEN DoConnect([d EXCEPT !.version = 3])
             ELSE d

Disconnected(o, failed) ==
    LET d == Detach(o)
    IN  IF failed /\ o.reconnecting THEN RetryLater(o)
        ELSE IF o.connected
        THEN IF failed /\ AutoReconnect
             THEN Reconnect([d EXCEPT !.connected = FALSE])
             ELSE [d EXCEPT !.connected = FALSE]
        ELSE IF Fallback /\ o.version = 4
             THEN DoConnect([d EXCEPT !.version = 3])
             ELSE d

\* Sends the queue.  The callback disconnect() leaves in _notify_msg_sent is
\* under the one key every message has as a string, and so it runs behind
\* the first message that is sent.  It deletes the socket, and what is left
\* cannot be sent: the exception of a missing socket.
Sendable(o) == IF o.notify THEN 1 ELSE Len(o.queue)
ProcessQueue(o) ==
    LET sent == SocketSend([o EXCEPT !.queue = <<>>],
                           SubSeq(o.queue, 1, Sendable(o)))
    IN  IF o.queue = <<>> THEN o
        ELSE IF ~CanSend(o) THEN [o EXCEPT !.queue = Reverse(Tail(@))]
        ELSE IF o.notify THEN Disconnected(sent, FALSE) ELSE sent
ProcessThrows(o) ==
    o.queue # <<>> /\ (~CanSend(o) \/ Sendable(o) < Len(o.queue))

Schedule(o, ps) ==
    LET q == [o EXCEPT !.queue = @ \o ps]
    IN  IF o.connected THEN ProcessQueue(q) ELSE q

\* The catch clause of _handleMessage.
Caught(before, after) ==
    IF ProcessThrows(before) THEN Disconnected(after, TRUE) ELSE after
ScheduleInHandler(o, p) ==
    LET q == [o EXCEPT !.queue = Append(@, p)]
    IN  IF o.connected THEN Caught(q, ProcessQueue(q)) ELSE q

\* An identifier for a message that awaits an acknowledgement.
TooManyMessages == Cardinality(DOMAIN c.sent) > MaxId
\* A mutant: the identifier that comes next, in use or not.
FreeIdTaken == c.cursor

FreeId ==
    Min((c.cursor..(c.cursor + Cardinality(DOMAIN c.sent))) \ DOMAIN c.sent)
RequiresAck(kind, m, q) ==
    LET seq == IF kind = "PUBLISH" THEN c.sequence + 1 ELSE Undefined
    IN  [c EXCEPT !.sent = Bind(@, FreeId,
                     [kind |-> kind, msg |-> m, qos |-> q, seq |-> seq,
                      rec |-> FALSE]),
                  !.cursor = IF FreeId = MaxId THEN 1 ELSE FreeId,
                  !.sequence = IF kind = "PUBLISH" THEN seq ELSE @]

\* store(), for each of its prefixes.
StoreSent(o, i) == [store EXCEPT !.sent = Bind(@, i, o.sent[i])]
StoreReceived(o, i) == [store EXCEPT !.received = Bind(@, i, o.received[i])]

-----------------------------------------------------------------------------
\* What the application does.  A call that throws before it changes anything
\* is no step.
Init ==
    /\ store = [sent |-> Empty, received |-> Empty]
    /\ \E clean \in CleanSession : c = NewClient(store, clean)
    /\ broker = [conn |-> NoSocket, rec |-> {}, out |-> <<>>]
    /\ outQos = [m \in 1..OutMsgs |-> Unsent]
    /\ taken = [m \in 1..OutMsgs |-> 0]
    /\ inQos = [m \in 1..InMsgs |-> Unsent]
    /\ arrived = [m \in 1..InMsgs |-> 0]
    /\ upsets = 0

\* A call or a fault the bound MaxUpsets counts.
Upset(kind) ==
    /\ kind \in Upsets /\ upsets < MaxUpsets
    /\ upsets' = upsets + 1

AppConnect ==
    /\ ~c.connected /\ c.sock = NoSocket
    /\ c.reconnecting => c.reconnectTimer # "null"
    /\ Free(c) # {}
    /\ c' = DoConnect(
           [c EXCEPT !.reconnecting = FALSE, !.version = 4,
                     !.reconnectTimer = IF c.reconnecting THEN "null" ELSE @])
    /\ UNCHANGED <<store, broker, outQos, taken, inQos, arrived, upsets>>

NextOut == Min({m \in 1..OutMsgs : outQos[m] = Unsent})
Offline == c.reconnecting /\ DisconnectedPublishing
BufferFull ==
    Cardinality(DOMAIN c.sent) + Len(c.buffered) > BufferSize

AppSend(q) ==
    /\ \E m \in 1..OutMsgs : outQos[m] = Unsent
    /\ c.connected \/ (Offline /\ ~BufferFull)
    /\ q > 0 => ~TooManyMessages
    /\ LET m == NextOut
           tracked == RequiresAck("PUBLISH", m, q)
           pkt(i) == Packet("PUBLISH", i, m, q)
       IN  /\ c' = IF q > 0
                   THEN IF c.connected THEN Schedule(tracked, <<pkt(FreeId)>>)
                                       ELSE tracked
                   ELSE IF c.connected
                   THEN Schedule([c EXCEPT !.notify = FALSE], <<pkt(0)>>)
                   ELSE [c EXCEPT !.sequence = @ + 1,
                            !.buffered = Append(@,
                               [pkt |-> pkt(0), seq |-> c.sequence + 1])]
           /\ outQos' = [outQos EXCEPT ![m] = q]
           /\ store' = IF q = 0 THEN store ELSE StoreSent(tracked, FreeId)
    /\ UNCHANGED <<broker, taken, inQos, arrived, upsets>>

\* subscribe and unsubscribe: acknowledged, and not stored.
AppRequest ==
    /\ Upset("request")
    /\ c.connected /\ ~TooManyMessages
    /\ c' = Schedule(RequiresAck("REQUEST", 0, 0), <<Control("REQUEST", FreeId)>>)
    /\ UNCHANGED <<store, broker, outQos, taken, inQos, arrived>>

AppDisconnect ==
    /\ Upset("disconnect")
    /\ c.reconnecting => c.reconnectTimer # "null"
    /\ c.reconnecting \/ c.sock # NoSocket
    /\ LET o == IF c.reconnecting
                THEN [c EXCEPT !.reconnecting = FALSE, !.reconnectTimer = "null"]
                ELSE c
       IN  c' = IF c.sock = NoSocket THEN o
                ELSE Schedule([o EXCEPT !.notify = TRUE],
                              <<Control("DISCONNECT", 0)>>)
    /\ UNCHANGED <<store, broker, outQos, taken, inQos, arrived>>

-----------------------------------------------------------------------------
\* A retry that has sent its CONNECT, so that its pinger runs.
Retrying(s) == c.reconnecting /\ s = c.sock /\ c.pinger # "off"

\* What the sockets and the timers call.  Each may make a socket.
Room == Free(c) # {}
Unstored == UNCHANGED <<store, broker, outQos, taken, inQos, arrived>>

\* CONNECT goes out on the current socket, whichever socket opened.
SocketOpen(s) ==
    /\ c.ready[s] = "connecting" /\ c.link[s] = "up"
    /\ LET o == [c EXCEPT !.ready[s] = "open"]
       IN  c' = IF CanSend(o) THEN SocketSend(o, <<Connect(o)>>)
                ELSE o
    /\ Unstored /\ UNCHANGED upsets

\* The error and the close event: onclose finds its work done by onerror.
SocketClosed(s) ==
    /\ c.on[s] /\ c.link[s] = "down" /\ c.down[s] = <<>>
    /\ c.reconnecting \/ Room
    /\ LET o == [c EXCEPT !.ready[s] = "closed", !.on[s] = FALSE,
                          !.up[s] = <<>>]
       IN  c' = IF c.reconnecting THEN o ELSE Disconnected(o, TRUE)
    /\ Unstored /\ UNCHANGED upsets

Broken ==
    \/ c.sock = NoSocket
    \/ c.link[c.sock] # "up" /\ c.down[c.sock] = <<>>
ConnectTimeout ==
    /\ c.connectTimer = "armed" /\ Broken /\ Room
    /\ c' = Disconnected([c EXCEPT !.connectTimer = "idle"], TRUE)
    /\ Unstored /\ UNCHANGED upsets

\* Every reconnect timer calls _reconnect.  One that lost its place to another
\* was set before it, for no longer a time, and so it goes off first.
ReconnectTimeout ==
    /\ c.orphans > 0 \/ c.reconnectTimer = "armed"
    /\ Room
    /\ c' = Reconnect(IF c.orphans > 0 THEN [c EXCEPT !.orphans = @ - 1]
                      ELSE [c EXCEPT !.reconnectTimer = "idle"])
    /\ Unstored /\ UNCHANGED upsets

\* On a connection that works the answer comes before the next ping, and
\* the exchange changes nothing.  On one that broke or fell silent the pinger
\* goes on until something cancels it, which on a retry nothing does.
DoPing ==
    /\ c.pinger # "off" /\ c.sock # NoSocket /\ Broken /\ Room
    /\ c' = IF c.pinger = "reset" THEN [c EXCEPT !.pinger = "waiting"]
            ELSE Disconnected([c EXCEPT !.pinger = "off"], TRUE)
    /\ Unstored /\ UNCHANGED upsets

-----------------------------------------------------------------------------
\* _handleMessage, one operator for each kind of packet; o is the object
\* with the packet p taken off its socket.
Quiet == UNCHANGED <<broker, outQos, taken, inQos>>
NoArrival == UNCHANGED arrived
Arrival(m) == arrived' = [arrived EXCEPT ![m] = Saturate(@)]

Cleaned(o) ==
    IF o.clean THEN [o EXCEPT !.sent = Empty, !.received = Empty] ELSE o

\* A mutant: a message is sent again whole, also when a PUBREC came for it.
ResendWhole(o) ==
    {[seq |-> o.sent[i].seq,
      pkt |-> IF o.sent[i].kind = "REQUEST" THEN Control("REQUEST", i)
              ELSE Packet("PUBLISH", i, o.sent[i].msg, o.sent[i].qos)]
        : i \in DOMAIN o.sent} \union Range(o.buffered)

\* What is sent again: everything that awaits an acknowledgement and what was
\* buffered, sorted by the sequence.  A request has none, and then the sort
\* has no order to keep to.
Resend(o) ==
    {[seq |-> o.sent[i].seq,
      pkt |-> IF o.sent[i].kind = "REQUEST" THEN Control("REQUEST", i)
              ELSE IF o.sent[i].rec THEN Control("PUBREL", i)
              ELSE Packet("PUBLISH", i, o.sent[i].msg, o.sent[i].qos)]
        : i \in DOMAIN o.sent} \union Range(o.buffered)
Sorted(q) ==
    (\A i \in DOMAIN q : q[i].seq # Undefined)
        => \A i, j \in DOMAIN q : i < j => q[i].seq <= q[j].seq
Orders(o) == {q \in SetToSeqs(Resend(o)) : Sorted(q)}

Accepted(o, q) ==
    LET ps == [i \in DOMAIN q |-> q[i].pkt]
        s == [o EXCEPT !.connected = TRUE, !.buffered = <<>>,
                       !.notify = @ /\ o.buffered = <<>>,
                       !.queue = @ \o IF CanSend(o) THEN ps
                                      ELSE SubSeq(ps, 1, Min({1, Len(ps)}))]
        r == [s EXCEPT !.reconnecting =
                           @ /\ ps # <<>> /\ ProcessThrows(s)]
    IN  Caught(s, ProcessQueue(r))

HandleConnack(o, p) ==
    LET t == [o EXCEPT !.connectTimer = "idle",
                       !.reconnectTimer = IF @ = "armed" THEN "idle" ELSE @]
    IN  /\ p.kind \in {"CONNACK", "REFUSED"}
        /\ IF o.connectTimer = "null"
           THEN c' = Disconnected(o, TRUE) /\ UNCHANGED store
           ELSE /\ IF p.kind = "REFUSED"
                   THEN c' = Disconnected(Cleaned(t), TRUE)
                   ELSE \E q \in Orders(Cleaned(t)) :
                            c' = Accepted(Cleaned(t), q)
                /\ store' = IF ~o.clean THEN store ELSE
                     [sent |-> [i \in DOMAIN store.sent \ DOMAIN o.sent |->
                                   store.sent[i]],
                      received |-> [i \in DOMAIN store.received
                                          \ DOMAIN o.received |->
                                        store.received[i]]]
        /\ NoArrival

HandlePublish(o, p) ==
    /\ p.kind = "PUBLISH"
    /\ \/ /\ p.qos = 0
          /\ c' = o /\ UNCHANGED store /\ Arrival(p.msg)
       \/ /\ p.qos = 1
          /\ c' = ScheduleInHandler(o, Control("PUBACK", p.id))
          /\ LET q == [o EXCEPT !.queue = Append(@, Control("PUBACK", p.id))]
             IN  IF o.connected /\ ProcessThrows(q) THEN NoArrival
                                                    ELSE Arrival(p.msg)
          /\ UNCHANGED store
       \/ /\ p.qos = 2
          /\ LET r == [o EXCEPT !.received = Bind(@, p.id, p.msg)]
             IN  /\ c' = ScheduleInHandler(r, Control("PUBREC", p.id))
                 /\ store' = StoreReceived(r, p.id)
          /\ NoArrival

\* A mutant: an acknowledged message stays in localStorage.
ForgetInMemory(o, p) ==
    /\ c' = [o EXCEPT !.sent = Unbind(@, p.id)]
    /\ UNCHANGED store
    /\ NoArrival

Forget(o, p) ==
    /\ c' = [o EXCEPT !.sent = Unbind(@, p.id)]
    /\ store' = [store EXCEPT !.sent = Unbind(@, p.id)]
    /\ NoArrival

HandlePuback(o, p) ==
    /\ p.kind = "PUBACK"
    /\ IF p.id \in DOMAIN o.sent THEN Forget(o, p)
       ELSE c' = o /\ UNCHANGED store /\ NoArrival

\* A mutant: that the PUBREC came is not stored.
PubrecUnstored(o, p) ==
    /\ p.kind = "PUBREC"
    /\ IF p.id \notin DOMAIN o.sent THEN c' = o
       ELSE c' = ScheduleInHandler([o EXCEPT !.sent[p.id].rec = TRUE],
                                   Control("PUBREL", p.id))
    /\ UNCHANGED store /\ NoArrival

HandlePubrec(o, p) ==
    /\ p.kind = "PUBREC"
    /\ IF p.id \notin DOMAIN o.sent THEN c' = o /\ UNCHANGED store
       ELSE LET r == [o EXCEPT !.sent[p.id].rec = TRUE]
            IN  IF o.sent[p.id].kind = "REQUEST"
                THEN c' = Disconnected(r, TRUE) /\ UNCHANGED store
                ELSE /\ c' = ScheduleInHandler(r, Control("PUBREL", p.id))
                     /\ store' = StoreSent(r, p.id)
    /\ NoArrival

\* A mutant: the message stays in _receivedMessages.
PubrelKeeps(o, p) ==
    /\ p.kind = "PUBREL"
    /\ c' = ScheduleInHandler(o, Control("PUBCOMP", p.id))
    /\ UNCHANGED store
    /\ IF p.id \in DOMAIN o.received THEN Arrival(o.received[p.id])
                                     ELSE NoArrival

HandlePubrel(o, p) ==
    /\ p.kind = "PUBREL"
    /\ store' = [store EXCEPT !.received = Unbind(@, p.id)]
    /\ c' = ScheduleInHandler([o EXCEPT !.received = Unbind(@, p.id)],
                              Control("PUBCOMP", p.id))
    /\ IF p.id \in DOMAIN o.received THEN Arrival(o.received[p.id])
                                     ELSE NoArrival

\* Without a message the call of onMessageDelivered fails.
HandlePubcomp(o, p) ==
    /\ p.kind = "PUBCOMP"
    /\ IF p.id \in DOMAIN o.sent THEN Forget(o, p)
       ELSE /\ c' = Disconnected(o, TRUE)
            /\ store' = [store EXCEPT !.sent = Unbind(@, p.id)]
            /\ NoArrival

\* SUBACK and UNSUBACK.
HandleRequestAck(o, p) ==
    /\ p.kind = "REQUESTACK"
    /\ c' = [o EXCEPT !.sent = Unbind(@, p.id)]
    /\ UNCHANGED store /\ NoArrival

HandleMessage(s) ==
    /\ c.on[s] /\ c.down[s] # <<>> /\ Room
    /\ LET p == Head(c.down[s])
           o == [c EXCEPT !.down[s] = Tail(@)]
       IN  \/ HandleConnack(o, p) \/ HandlePublish(o, p) \/ HandlePuback(o, p)
           \/ HandlePubrec(o, p) \/ HandlePubrel(o, p) \/ HandlePubcomp(o, p)
           \/ HandleRequestAck(o, p)
    /\ Quiet /\ UNCHANGED upsets

-----------------------------------------------------------------------------
(***************************************************************************)
(* The broker: one connection for the client, which a new CONNECT takes    *)
(* over, and a session that outlives it unless it is clean.                *)
(***************************************************************************)
Works(o, s) == s # NoSocket /\ o.on[s] /\ o.link[s] = "up"
Deliver(o, s, ps) ==
    IF Works(o, s) THEN [o EXCEPT !.down[s] = @ \o ps] ELSE o
Drop(o, s) ==
    IF s = NoSocket THEN o ELSE [o EXCEPT !.link[s] = "down", !.up[s] = <<>>]

Redelivery(e) ==
    IF e.rel THEN Control("PUBREL", e.id)
    ELSE Packet("PUBLISH", e.id, e.msg, e.qos)
\* What is in flight without the message of an identifier, which is there once
\* at most.
InFlight(id) ==
    LET places == {i \in DOMAIN broker.out : broker.out[i].id = id}
    IN  IF places = {} THEN broker.out
        ELSE RemoveAt(broker.out, CHOOSE i \in places : TRUE)

BrokerConnect(o, s, clean) ==
    LET out == IF clean THEN <<>> ELSE broker.out
    IN  /\ c' = Deliver(Drop(o, broker.conn), s,
                    <<Control("CONNACK", 0)>>
                        \o [i \in DOMAIN out |-> Redelivery(out[i])])
        /\ broker' = [conn |-> s, out |-> out,
                      rec |-> IF clean THEN {} ELSE broker.rec]
        /\ UNCHANGED <<taken, upsets>>

BrokerRefuse(o, s) ==
    /\ Upset(IF Retrying(s) THEN "refused retry" ELSE "refuse")
    /\ c' = Drop(Deliver(o, s, <<Control("REFUSED", 0)>>), s)
    /\ UNCHANGED <<broker, taken>>

\* A packet out of place ends the connection.
BrokerRejects(o, s) ==
    /\ c' = Drop(o, s)
    /\ broker' = [broker EXCEPT !.conn = IF @ = s THEN NoSocket ELSE @]
    /\ UNCHANGED <<taken, upsets>>

BrokerAnswers(o, s, p) ==
    /\ UNCHANGED upsets
    /\ taken' = IF p.kind = "PUBLISH" /\ (p.qos = 2 => p.id \notin broker.rec)
                THEN [taken EXCEPT ![p.msg] = Saturate(@)] ELSE taken
    /\ \/ /\ p.kind = "PUBLISH" /\ p.qos = 0
          /\ c' = o /\ UNCHANGED broker
       \/ /\ p.kind = "PUBLISH" /\ p.qos = 1
          /\ c' = Deliver(o, s, <<Control("PUBACK", p.id)>>)
          /\ UNCHANGED broker
       \/ /\ p.kind = "PUBLISH" /\ p.qos = 2
          /\ c' = Deliver(o, s, <<Control("PUBREC", p.id)>>)
          /\ broker' = [broker EXCEPT !.rec = @ \union {p.id}]
       \/ /\ p.kind = "PUBREL"
          /\ c' = Deliver(o, s, <<Control("PUBCOMP", p.id)>>)
          /\ broker' = [broker EXCEPT !.rec = @ \ {p.id}]
       \/ /\ p.kind = "REQUEST"
          /\ c' = Deliver(o, s, <<Control("REQUESTACK", p.id)>>)
          /\ UNCHANGED broker
       \/ /\ p.kind \in {"PUBACK", "PUBCOMP"}
          /\ c' = o
          /\ broker' = [broker EXCEPT !.out = InFlight(p.id)]
       \/ /\ p.kind = "PUBREC"
          /\ c' = Deliver(o, s, <<Control("PUBREL", p.id)>>)
          /\ broker' = [broker EXCEPT
                !.out = [i \in DOMAIN @ |->
                           IF @[i].id = p.id THEN [@[i] EXCEPT !.rel = TRUE]
                           ELSE @[i]]]
       \/ /\ p.kind = "DISCONNECT"
          /\ c' = Drop(o, s)
          /\ broker' = [broker EXCEPT !.conn = NoSocket]

BrokerReceive(s) ==
    /\ c.up[s] # <<>>
    /\ LET p == Head(c.up[s])
           o == [c EXCEPT !.up[s] = Tail(@)]
       IN  IF p.kind = "CONNECT" /\ s # broker.conn
           THEN BrokerConnect(o, s, p.id = 1) \/ BrokerRefuse(o, s)
           ELSE IF \/ p.kind = "CONNECT" \/ s # broker.conn
                   \/ p.id = 0 /\ (p.kind = "REQUEST" \/ p.qos > 0)
           THEN BrokerRejects(o, s)
           ELSE BrokerAnswers(o, s, p)
    /\ UNCHANGED <<store, outQos, inQos, arrived>>

BrokerSeesEnd ==
    /\ broker.conn # NoSocket /\ c.up[broker.conn] = <<>>
    /\ c.ready[broker.conn] = "closed" \/ c.link[broker.conn] # "up"
    /\ broker' = [broker EXCEPT !.conn = NoSocket]
    /\ UNCHANGED <<c, store, outQos, taken, inQos, arrived, upsets>>

BrokerPublish(q) ==
    /\ broker.conn # NoSocket
    /\ \E m \in 1..InMsgs :
          /\ inQos[m] = Unsent /\ \A k \in 1..(m - 1) : inQos[k] # Unsent
          /\ inQos' = [inQos EXCEPT ![m] = q]
          /\ LET used == {broker.out[i].id : i \in DOMAIN broker.out}
                 id == IF q = 0 THEN 0 ELSE Min((1..InMsgs) \ used)
             IN  /\ c' = Deliver(c, broker.conn, <<Packet("PUBLISH", id, m, q)>>)
                 /\ broker' = IF q = 0 THEN broker
                              ELSE [broker EXCEPT !.out = Append(@,
                                [id |-> id, msg |-> m, qos |-> q, rel |-> FALSE])]
    /\ UNCHANGED <<store, outQos, taken, arrived, upsets>>

-----------------------------------------------------------------------------
\* The faults: a connection that breaks, goes silent or is slow to come up,
\* and a page that is closed and opened again.
Lose(s, l) ==
    /\ Works(c, s)
    /\ c' = [c EXCEPT !.link[s] = l, !.up[s] = <<>>, !.down[s] = <<>>]
    /\ UNCHANGED <<store, broker, outQos, taken, inQos, arrived>>

Break(s) ==
    /\ Upset(IF Retrying(s) THEN "broken retry" ELSE "break")
    /\ Lose(s, "down")
Silence(s) ==
    /\ Upset(IF Retrying(s) THEN "silent retry" ELSE "silence")
    /\ Lose(s, "dead")

\* The system's own timeouts end a silent connection.
SilenceEnds(s) ==
    /\ c.on[s] /\ c.link[s] = "dead"
    /\ c' = [c EXCEPT !.link[s] = "down"]
    /\ UNCHANGED <<store, broker, outQos, taken, inQos, arrived, upsets>>

SlowConnect ==
    /\ Upset(IF c.reconnecting THEN "slow retry" ELSE "slow")
    /\ c.connectTimer = "armed" /\ ~Broken /\ Room
    /\ c' = Disconnected([c EXCEPT !.connectTimer = "idle"], TRUE)
    /\ UNCHANGED <<store, broker, outQos, taken, inQos, arrived>>

Crash ==
    /\ Upset("crash")
    /\ c' = NewClient(store, c.clean)
    /\ UNCHANGED <<store, broker, outQos, taken, inQos, arrived>>

-----------------------------------------------------------------------------
SocketEvent(s) == SocketOpen(s) \/ SocketClosed(s) \/ HandleMessage(s)
Timer == ConnectTimeout \/ ReconnectTimeout \/ DoPing

Next ==
    \/ AppConnect \/ AppRequest \/ AppDisconnect
    \/ \E q \in Qualities : AppSend(q) \/ BrokerPublish(q)
    \/ \E s \in Sockets : SocketEvent(s) \/ BrokerReceive(s)
                             \/ Break(s) \/ Silence(s) \/ SilenceEnds(s)
    \/ Timer \/ BrokerSeesEnd \/ SlowConnect \/ Crash

Spec == Init /\ [][Next]_vars

\* The page, the network and the broker go on, and the application connects
\* again when it has no connection; that it sends is not assumed.
FairSpec ==
    /\ Spec
    /\ WF_vars(\E s \in Sockets : SocketEvent(s)) /\ WF_vars(Timer)
    /\ WF_vars(\E s \in Sockets : BrokerReceive(s))
    /\ WF_vars(BrokerSeesEnd) /\ WF_vars(AppConnect)

-----------------------------------------------------------------------------
Kinds == {"CONNECT", "DISCONNECT", "PUBLISH", "PUBACK", "PUBREC", "PUBREL",
          "PUBCOMP", "REQUEST", "REQUESTACK", "CONNACK", "REFUSED"}
Ids == 1..(MaxId + OutMsgs + MaxUpsets)
PacketOK(p) ==
    /\ p.kind \in Kinds /\ p.id \in Nat /\ p.qos \in 0..2
    /\ p.msg \in 0..Max({OutMsgs, InMsgs})

\* The types of the object's fields and of what the others keep.
TypeOK ==
    /\ {c.connected, c.reconnecting} \subseteq BOOLEAN
    /\ c.sock \in Sockets \union {NoSocket}
    /\ c.connectTimer \in {"null", "idle", "armed"}
    /\ c.reconnectTimer \in {"null", "idle", "armed"}
    /\ c.orphans \in Nat
    /\ c.pinger \in {"off", "reset", "waiting"}
    /\ c.version \in {3, 4}
    /\ DOMAIN c.sent \subseteq Ids /\ c.cursor \in Ids
    /\ c.sequence \in 0..OutMsgs
    /\ \A i \in DOMAIN c.queue : PacketOK(c.queue[i])
    /\ \A s \in Sockets :
          /\ c.ready[s] \in {"connecting", "open", "closed"}
          /\ c.link[s] \in {"up", "down", "dead"}
          /\ \A i \in DOMAIN c.up[s] : PacketOK(c.up[s][i])
          /\ \A i \in DOMAIN c.down[s] : PacketOK(c.down[s][i])
    /\ taken \in [1..OutMsgs -> 0..2] /\ arrived \in [1..InMsgs -> 0..2]
    /\ outQos \in [1..OutMsgs -> 0..Unsent] /\ inQos \in [1..InMsgs -> 0..Unsent]
    /\ broker.conn \in Sockets \union {NoSocket}

\* Nothing that the page would need after a restart is in the object alone:
\* localStorage has every PUBLISH of _sentMessages, in its present state, and
\* all of _receivedMessages.
StoreCovers ==
    /\ \A i \in DOMAIN c.sent :
          c.sent[i].kind = "PUBLISH" =>
              i \in DOMAIN store.sent /\ store.sent[i] = c.sent[i]
    /\ store.received = c.received

\* And nothing is in localStorage alone, where nobody would remove it and
\* from where a restart would bring back what was acknowledged long ago.
StoreExact ==
    \A i \in DOMAIN store.sent :
        i \in DOMAIN c.sent /\ c.sent[i].kind = "PUBLISH"

\* A client that says it is connected has an open socket with its handlers
\* on, so that what the application sends does not end in an exception.
ConnectedUsable ==
    c.connected => /\ c.sock # NoSocket
                   /\ c.ready[c.sock] = "open" /\ c.on[c.sock]

\* Between broker and client every message goes as its quality promises:
\* taken again only at quality 1, forgotten only when it was taken.
Held == {store.sent[i].msg : i \in DOMAIN store.sent}
Out == INSTANCE Delivery WITH
          Msgs <- 1..OutMsgs, clean <- c.clean, qos <- outQos,
          took <- taken, held <- Held
In == INSTANCE Delivery WITH
          Msgs <- 1..InMsgs, clean <- c.clean, qos <- inQos,
          took <- arrived,
          held <- {broker.out[i].msg : i \in DOMAIN broker.out}
SendsAsPromised == Out!Spec
ReceivesAsPromised == In!Spec

\* A message the client holds for sending again is acknowledged in the end,
\* or given up with a clean session: it does not stay in localStorage.
AllSettled == \A m \in 1..OutMsgs : m \in Held ~> m \notin Held

\* After disconnect() the client comes to have no connection: its socket is
\* gone, and connect() is possible again.
Disconnects == {k \in DOMAIN c.queue : c.queue[k].kind = "DISCONNECT"}
DisconnectCompletes == Disconnects # {} ~> c.sock = NoSocket
=============================================================================
