# A TLA+ development for CodingLearners

The repository is a collection of small programs. This project specifies the
ones with state, concurrency or failure to get wrong, model-checks them with
TLC and proves their main properties with TLAPS: the TCP echo and auto-send
server with its event loop over shared records and the linked list it is built
on, the MQTT client of the React Native app with its reconnection and its
persistent sessions, and the chat server whose event loops share one list.

## The system

### Components

| Component | Source | State | Operations | Hard part |
|---|---|---|---|---|
| TCP echo / auto-send server | `src/mix-sources/tcp_echo_server/{server,Thread}.c` | client list, one record per client with a pending write, `fd_set`s of the last `select()`, one shared frame buffer, two flags shared with `main` | accept, read and echo, flush, auto-send round, purge, shutdown | partial writes, deletion while walking the list, stale `select()` results, resets, two threads |
| Singly linked list | `src/mix-sources/tcp_echo_server/List.c` | header node and chain | create, insert, add, get, set, delete, find, size, clear | positions at and past the end |
| Ultrasonic test server | `src/mix-sources/tcp_server_tst_ultrasonic` | as the echo server | eight lines differ | none of its own |
| Netty chat server | `src/sources/cross-platform/netty-websocket-chat-example` | static unsynchronised `ArrayList` of channels | channel active and inactive, upgrade, broadcast | several event loops on one list |
| MQTT client | `src/sources/cross-platform/MqttClientT_react_native/react_mqtt_t/mqttws31.js` | messages in progress in memory and `localStorage`, socket, timers, queues | connect, reconnect, send, subscribe, disconnect, a handler per packet | restarts, lost connections, retries, stale sockets and timers |
| MQTT web chats | `src/sources/cross-platform/{web_secretchat,webchat}_based_mqtt_server` | the last subscription | connect again, subscribe | none but the client's |
| TCP test client | `src/sources/linux/tcptest/tcpclient.c` | one socket | connect with a deadline, send and receive loops | timeouts against partial results |
| ENet UDP test | `src/sources/cross-platform/enet_test/enet_test.c` | sockets, a send budget | send, poll, receive | budget counted per socket |
| Multicast sender and receiver | `src/sources/cross-platform/Multicast-Client-Server-Example-master/src` | last sequence number, loss counter | send, receive | loss, duplication, reordering |
| Flask JWT service `ttapp` | `src/misc/docker/debian_bullseys_with_python3_7_15n/ttapp` | users, token blocklist | login, refresh, revoke | revocation against concurrent requests |
| Ping monitor | `src/sources/linux/ping-monitor/ping.c` | sequence numbers | send, match replies | late replies |
| Tools and demos | `mklowernum`, `inotify-demo`, `httpposttest`, scripts, test plans | none worth the name | | text and library calls |
| Vendored code | `src/third-sources` | | | other projects' |

### How the server's parts interact

`main` creates the context with an empty list, raises `server_thread_flag`,
starts `start_svr_thread` and waits for a key. The thread owns the list. Each
turn of its loop builds the `fd_set`s, waits in `select()`, and then does one
of four things: purge every client (`select()` failed), accept one connection
(the listener is ready, and then nothing else is looked at), run a service pass
(read and echo, or flush, per client), or nothing (timeout). If the timeout
expired or a cycle has passed, an auto-send round follows. After the key, `main`
raises `server_thread_stop_flag` and polls `server_thread_flag`; the thread
closes the listener and every client and lowers it; `main` then destroys the
context.

### How the MQTT client's parts interact

A page holds one `ClientImpl`. The application calls `connect`, `send`,
`subscribe`, `unsubscribe` and `disconnect`; a `WebSocket` calls `_on_socket_open`,
`_on_socket_message`, `_on_socket_error` and `_on_socket_close`; timers call
`_disconnected` (no CONNACK in time), `_reconnect`, and `doPing`. The page has one
thread, so each of these runs to its end before the next. A message of quality
1 or 2 is in `_sentMessages` under its identifier until its last
acknowledgement, and in `localStorage` for the next page; a received message of
quality 2 is in `_receivedMessages` and `localStorage` from PUBLISH to PUBREL.
CONNACK has everything in `_sentMessages` sent again. `_disconnected` is the one
place every failure comes to: it detaches the socket and starts to reconnect,
falls back to protocol version 3, or, while reconnecting, only sets a timer.

### How the chat server's parts interact

netty serves every channel by one of several event loops, each a thread. In
each channel's pipeline, `channelActive` adds the channel to the static
`wbschannels` (as soon as it is connected, before any upgrade), `channelInactive`
removes it, and a text frame with a chat message iterates over the list and
writes to every channel. `ArrayList` has no lock, and nobody else takes one.

### What makes it correct

- The list holds exactly the accepted connections, each once, and nothing is
  lost or leaked except where memory runs out (`ListMatchesSockets`).
- Passes that delete under their own loop come to everybody, once (`PassInv`,
  `ServicePassComplete`, `RoundComplete`).
- The auto-sent bytes a client gets are whole frames, in order, each with a number
  new to it, however the kernel cuts the writes (`FrameInv`,
  `ImplementsFrameService`). That is said of those bytes alone: an echo is sent on
  the same connection and can fall inside a pending frame (server.c:598-611).
- Nobody is dropped without a reason (`HealthyClientKept`).
- The context outlives the thread (`CleanShutdown`), and the key ends the
  process (`StopEndsProcess`).
- Clients that are gone are let go, input is taken, and frames are finished for
  those that do not send all the time (`GoneClientReleased`, `InputTaken`,
  `FrameFinished`).
- The list's heap is one chain, without a leak, a dangling link or a ring
  (`ChainInv`, `CallsEnd`), and each of its functions does to a sequence of
  handles what its comment promises, but for cases that are named
  (`ImplementsHandleList`).
- What a page has in progress is in `localStorage` as well, in the same state,
  and nothing else is (`StoreCovers`, `StoreExact`).
- Each message goes as its quality of service promises, in both directions,
  across lost connections and restarts (`SendsAsPromised`, `ReceivesAsPromised`),
  and what is held is settled in the end (`AllSettled`).
- A client that says it is connected can send (`ConnectedUsable`).
- Where no two event loops overlap in it, the list of channels is exact and a
  broadcast reaches everybody, nobody twice (`SerialListExact`,
  `SerialBroadcastComplete`, `InOrderOnce`); and even where they do, the messages of
  one sender come in their order (`InOrderOnce`).

## The modules

| Module | What it is |
|---|---|
| `EchoServer` | the server, `main`, the kernel and the peers; properties at its end |
| `FrameService` | what the auto-send half promises: per client, a stream of whole frames |
| `EchoServerInvariant` | the inductive invariant, in three layers |
| `MCEchoServer` | the instance TLC checks (symmetry of the clients) |
| `SList` | `List.c`: its functions as loops over a heap of nodes |
| `HandleList` | what the comments of `List.c` promise, on a sequence of handles |
| `MCSList` | the instance TLC checks |
| `SListProofs` | the heap's invariant, and `SList` implements `HandleList` |
| `SeqLemmas` | lemmas on what the models do to sequences |
| `MqttClient` | `ClientImpl`, its sockets and timers, the broker and the network |
| `Delivery` | what a quality of service promises about messages that go one way |
| `DeliveryProofs` | what that promise comes to |
| `MqttInvariant` | the client's inductive invariant, in five parts |
| `MqttProofs` | the types, `localStorage` always covers what is in progress, and usable connections |
| `MqttSessionProofs` | `localStorage` covers nothing else; what the broker and the network do to what the client sends |
| `MqttPromiseProofs` | client and broker implement `Delivery`, in both directions |
| `ChatServer` | the channels, the event loops and the steps of the list |
| `MCChatServer` | the instance TLC checks (symmetry of channels and loops) |
| `ChatServerProofs` | the list and the broadcast without overlap; how far off they get with it |
| `EchoServerProofs` | layer 1 of the invariant: types, frame bookkeeping, threads; layer 2: the list, the passes, shutdown; action properties; layer 3, and the refinement of `FrameService` |

### State and code

- `spc` is the place in `start_svr_thread`: `start` (before the loop), `top`
  (the loop's condition), `select`, `purge` (355-391), `accept` (396-438),
  `service` (514-661) with `echo` and `flush` inside a `tcp_sendn` of it,
  `clock` (664), `round` (671-710), `send` (711-793, also inside `tcp_sendn`),
  `shut` (800-821), `done`. `mpc` is the place in `main`.
- `list` is `connect_tcp_client_list` without its header, so `SL_Size` is
  `Len(list) + 1`; `i` and `size` are the C loop variables. `wsize` and `wptr`
  are `need_write_size` and `need_write_ptr` (as an offset into
  `auto_send_buff`); `got` and `sum` are `ret` of `tcp_recvn` and `sum` of
  `tcp_sendn`; `rd`, `wr` and `ex` are the `fd_set`s.
- `conn`, `inq`, `fin`, `err`, `oob` and `room` are the kernel's side of a
  connection: whether it is in the backlog, accepted or leaked, what waits to be
  read, whether the peer finished, the pending error, urgent data, and the free
  part of the send queue. They are external: modelled by what the code's system
  calls observe.
- `pos` and `had` are history: how far into its current frame a client has been
  written to, and who was sent the number that is in the buffer now. `seen`
  records the clients a pass has handled.

A step is what the thread does between two points where the world can change
under it: each `send()` inside `tcp_sendn` is a step, because queues drain and
connections die between two calls; the rest of a loop body is one step, because
nothing else writes the list or the records and the kernel's side is read once
in it. `tcp_recvn` is one step: data that comes during it is as good as data
that comes before. `local_imsrv_lock` is taken by the server thread only and has
no effect of its own.

In `SList` a step is one turn of a function's loop, or what it does behind the
loop, and `p` and `i` are the C locals. `alloc`, `next` and `handle` are the heap;
`malloc()` returns any free node or fails. `call` is the running call with its
arguments (for `SL_Creat` its size stands in `pos`), and `ret` what came back: the
result, `*p_handle` and `*pos`. `chain` is history: the list's nodes in order. It
is never read by an action; `ChainInv` says that the pointers agree with it. A
call that follows a null pointer ends in `Lost`, after which nothing happens.

`HandleList` is read off the comments of `List.c` and has nothing of what the code
does otherwise: every call can return, `SL_Delete` of a position that is not there and
`SL_Find` of a handle no element has with -1, `SL_Empty` with -1 for a list with
elements, `SL_Clear` with 1. `ImplementsHandleList` says that every step is one of
`HandleList`'s or one of three kinds that `SList` names: a null pointer is followed
(`FollowsNull`, with the positions, handles and lists for which it is), `SL_Find` fails
since the header has the handle (`HeaderHides`), or one of the two codes is another
(`OtherCode`).

`EchoServer` takes the list as a sequence, with `Append` for `SL_Add` and `RemoveAt`
for `SL_Delete`: the effect `HandleList` gives these calls, less the header's slot.
The server's positions are in the list (`PassInv`), where both are defined.

In `MqttClient` the record `c` is the object: `sock` is `this.socket`, `connectTimer`
and `reconnectTimer` are the timeouts ("idle" is one that went off or was
cancelled and is not null), `orphans` counts reconnect timers that lost their
place in `_reconnectTimeout` to a later one and are still set, `sent`, `received`,
`queue`, `buffered`, `cursor` and `sequence` are `_sentMessages`, `_receivedMessages`,
`_msg_queue`, `_buffered_msg_queue`, `_message_identifier` and `_sequence`, and `notify`
is `_notify_msg_sent`, which is indexed by objects and so has only the key
"[object Object]". `pinger` is `sendPinger`: off, set since the last ping, or waiting
for an answer to it; `receivePinger` is never started by the code. `store` is `localStorage`. Per socket, `ready` is its `readyState`, `on` says whether
the handlers are attached, `link` is the network's side, and `up` and `down` are what
is in flight. Each handler of the code is one action; `_handleMessage` is one, with
an operator for each kind of packet. The routines that handlers share
(`_process_queue`, `_disconnected`, `_doConnect`, ...) are operators from object to
object. An exception in a handler runs `Caught`, one in a call of the
application goes to it. The order in which `sort` puts messages where a
request without a sequence is among them is left open.

The broker and the network are external: a broker answers as MQTT has it, keeps
one connection for the client and takes it over for a new CONNECT, keeps a
session that is not clean, and drops a connection on a packet out of place.
`outQos`, `taken`, `inQos` and `arrived` are history.

In `ChatServer` an event loop is `Idle`, or in the middle of `add`, of `remove` or of a
broadcast. `array`, `size` and `modCount` are the `ArrayList`'s (as the JDK has it since
version 9), and its methods are cut at every write to the list and at every read
that a later write goes by, since another loop can come in between: `add` reads the
size (`ChannelActive`), writes the element (`AddStore`) and the size (`AddSize`);
`remove` finds the place (`ChannelInactive`), reads the size (`RemoveCount`), moves the
elements (`RemoveShift`), writes the size (`RemoveSize`) and clears the last place
(`RemoveClear`); the iterator does `hasNext` and `next` for an element at a time
(`BroadcastNext`). `due` and `got` are history, and so is `raced`, which says whether a
loop was in the list, adding, removing or iterating, while another one was in the
middle of adding or removing.

### Abstractions

Byte counts are units; contents are left out, except that unit 0 of a frame is
its number. The number is one unit, so no frame stops inside its digits.
`errno` values are grouped by what the code does with them. `EINTR` inside
`send` and `recv` only repeats the call. `auto_cycle` is zero or positive. The
flags are read and written atomically (they are plain ints in loops with
external calls, which a build reads from memory each time). The descriptor
limit is at most `FD_SETSIZE`. A connection that comes while the listener is
being closed is dropped with the backlog. Log output is left out.

For the MQTT client: a packet comes whole and each WebSocket message holds one;
topics, payloads, passwords, SSL and callbacks that only inform the application
are left out; one host; keep-alive answers arrive in time where the connection
works, and a packet that has arrived is handled before a keep-alive interval or a
connect timeout is over (`Broken`: both go off only on a connection that broke or
fell silent and of which nothing is left to read). When the pinger, the connect
timeout and the reconnect timers go off relative to each other is left open: how
they compare is for the options and for the interval that doubles. A page ends
between two handlers, not inside one. `localStorage` does not fail.

For the chat server: memory is sequentially consistent, the array is as long as is
looked at (growing it is left out), and frames other than chat messages change
nothing. Four things that take several instructions are one step: `remove`'s search,
the copy of the elements, `modCount++` with the read of the size behind it, and
`hasNext` with `next`. All four matter only where loops overlap. A search could then
miss a channel that is being moved, a copy could mix two lists, an increment could get
lost, so that an iterator goes on where the model ends it, or an iterator could end in
an exception where the model ends it without: the list goes as wrong as it does
without them, and what is claimed of overlapping loops (the order of a sender's
messages, the bounds of the size) rests on none of them.

## The runs

All bounds are constants of the `.cfg` files.

| Run | Question | Instance |
|---|---|---|
| `frames` | Is the pending write always the rest of the frame, does the server implement `FrameService`, and is a begun frame finished? | 2 clients that send, frames of 3 units, send queues of 1, which echoes fill too, so that a frame needs three writes |
| `faults` | Do list, sockets and descriptors agree, does a pass come to everybody whoever is deleted, is everybody healthy kept and sent to, does the context outlive the thread, does the invariant the proofs rest on hold? | 2 clients that finish, reset and raise urgent data at any point, one failing `accept`, `calloc` or `select` |
| `input` | Is input taken, is a client that is gone let go, and does the key end the process? | 2 clients that send, finish and reset, descriptors to spare, one fault, no frames |
| `list` | Does every sequence of list calls keep the heap one chain, does every call that follows no null pointer return, and does every call do what `HandleList` says, but for the named cases? | 4 nodes (a header and 3 elements), 2 handles, positions from -1 to 4, sizes 0 and 2 |
| `list_answers` | the disagreement of the list below | the same |
| `sigpipe` | the disagreement of the server below | 2 clients |
| `mqtt` | Do memory and `localStorage` agree, can a client that says it is connected send, and does each direction keep its quality's promise, and does what the proofs need of the broker's messages hold? | 2 messages out and 1 in, qualities 0 to 2, 3 sockets, two upsets out of a broken, silent, slow or refused connection (no retry fails once it sent its CONNECT), a restart, a subscription, a `disconnect()` |
| `mqtt_live` | Is every message settled in the end, and does the rest of the invariant behind the proofs hold? | 1 message out, both kinds of session, 4 sockets, three upsets out of the same without `disconnect()` |
| `mqtt_stale`, `mqtt_disconnect` | the two disagreements of the client below | 2 messages and 2 breaks, also of retries; 1 message and 3 upsets |
| `chat` | Without overlap, is the list exact, does a broadcast reach everybody, and nobody twice; with it, is a sender's order kept, and how far off is the size? | 3 channels, of which 2 may go away, 2 event loops, 2 messages, every interleaving |
| `chat_race` | the disagreement of the chat server below | the same, with all 3 going away |

The bounds are small because the cases are: two clients tell "this one" from
"another one"; a frame of three units is cut in every way a longer one is (not at all,
behind its first unit, behind a later one), and a write that comes short takes one
unit or, with a peer that reads meanwhile, two; one fault meets every state. `FrameInv`, `ListMatchesSockets`,
`PassInv` and the other safety properties are proved for all sizes, so the runs
only have to find mistakes in stating them.

Four nodes let an element be inserted and deleted at the head, in the middle and at
the end, with positions on both sides of the ends; `SListProofs` has every length.

Two messages out are needed because an identifier that comes free is given to the
next message, and a late acknowledgement then settles the wrong one; three
sockets are the old one, the current one and one more, and a socket neither side has
a use for stands for a new one (in `mqtt_live` three connections can be given up
before the broker looks at any, so it has four). `MaxUpsets` bounds faults and the rarer calls
together; two meet each other at every point, which is what reconnecting twice,
restarting within an exchange or disconnecting while reconnecting take. `MaxId`
is 3 and `WireIds` 8, so that identifiers go round in the runs, but never past what
two bytes hold. `BufferSize` is 1, so that the buffer for messages sent while
reconnecting is full. `mqtt` has sessions that last, where the two ends have to agree;
clean ones are in `mqtt_live` and in the proofs. `disconnect()` is not in `mqtt_live`,
since between two attempts to reconnect it leaves a client that never settles
anything (`mqtt_disconnect`); it takes three upsets.

`mqtt` and `mqtt_live` have attempts to retry that never open, but none that fails
after it sent its CONNECT, be it by breaking, falling silent or being refused, and
none that outlasts its connect timeout. That is a real restriction, and not of rare
faults: such a retry leaves two reconnect timers (`orphans`) or a socket with its
handlers on, and with that what these runs check is false of the code. Two plain
breaks do it, which `mqtt_stale` shows; its branch of `ReconnectTimeout` is taken in
that run alone. `StoreCovers` and the types are proved with such retries included.

Two event loops are what a race needs, and three channels let two of them be added
or removed at the same time with a third one in the list. That one channel stays
(`SomebodyStays`) makes the run a third as long; lists with a channel twice and a
size below 0 still come about.

`MaxFaults` bounds failing `accept`, `calloc`, `malloc` and `select` calls
together. Clients reconnect without bound. Symmetry over clients is used in `faults`
only, where no property is about liveness.

### Fairness

- `WF(ServerStep)`: the operating system runs the thread, and every call it
  makes returns (sockets are non-blocking, `select()` has a timeout).
- `WF(MainRuns)`: `main` runs, except for the key, which nobody has to hit.
- `WF(PeerReads(c))`: a live peer goes on reading. A peer that stops reading for
  ever keeps its own frame pending; that is not the server's doing.
- `SF(ClockDue)`: a clock asked again and again says at last that a cycle has
  passed. Weak fairness is not enough, since the thread leaves the place where
  it asks.

`MqttClient` assumes weak fairness of the socket events (`SocketEvent`), of the timers,
of the broker's reading and of its noticing ended connections, and of
`AppConnect`: an application that has no connection and is allowed to connects
again, as the web chats do by a timer (mqttclienta.js:274-286). Sending,
subscribing, disconnecting, restarting and the faults are nobody's duty. The
page's event loop and its timers justify the first two.

`WF(Step)` in `SList`: a function that is running goes on; nobody has to call one.

No fairness is assumed of connecting, sending or leaving. `FrameFinished` is stated for
a client that ceases to send: the flush stands behind the read in an `else if`
(server.c:623), and without that premise TLC shows a client that always has input
waiting and never gets the rest of its frame. `GoneClientReleased`
is stated for the case that new connections cease: each accept takes the place
of a service pass (server.c:396, 514), and without that premise TLC shows a
stream of connections that keeps a dead client in the list for ever.

### Disagreements with the program's own text

- `sigpipe`: a client that closes and then resets makes the next `send()` raise
  SIGPIPE (server.c:101), which ends the process without the key of server.c:888.
- `mqtt_stale`: while reconnecting, the error and close handlers do nothing
  (mqttws31.js:1644, 1654), and `_disconnected` only sets a timer and returns
  (1751-1760), before it cancels the pingers (1762). So when a retry breaks after it
  sent its CONNECT, its pinger goes on; and both the connect timeout and the pinger
  (774-790) call `_disconnected`, which sets a reconnect timer each time. `_reconnect`
  makes a socket for each, and both keep their handlers, in spite of the comment
  "Cancel all socket callbacks so that they cannot be driven again by this socket."
  (1775). Both CONNACKs have everything sent again, two PUBACKs come back, and the
  second settles the next message, which has the same identifier by then: a message
  of quality "1 At least once." (2482) is dropped from `localStorage` and was never
  taken by the broker. Two breaks are enough, the second of them on the retry. A retry
  that falls silent or is refused after its CONNECT sets two timers as well, and one
  that outlasts its connect timeout is connected beside the next. `ConnectedUsable`
  and `StoreExact` fail in the same ways.
- `mqtt_disconnect`: when an attempt to reconnect fails, `_disconnected` sets the
  timer of the next one and returns (1751-1760) without deleting the socket. A
  `disconnect()` at that time is to "Terminate the auto reconnect process." (1114):
  it cancels the timer, finds the closed socket, and queues a packet for a CONNACK
  that cannot come. From then on nothing happens, and `connect()` throws "already
  connected" (953). A `disconnect()` during the first attempt is lost too: when the
  attempt fails, `_disconnected` clears the queue (1770), falls back to version 3
  (1822-1827) and connects. The attempt of the counterexample never opened; if one
  fails after its CONNECT, its pinger releases the socket later.
- `chat_race`: two channels that become active on two event loops at once are
  written to one place of the list, and one of them is never sent anything, where
  readme.txt:10 has chat messages go "to all client". An iterator that meets a
  changed list throws, and `exceptionCaught` closes the channel of whoever sent
  the message. Two removals that find the same channels behind each other can lower
  the size below 0, and from then on every new channel is closed (`TypeOK` has how low
  it can go). And a removal that has moved the elements but not written the size
  leaves the last channel in the list twice: in `[a, b]`, while `a` is taken out, a
  broadcast that begins then is written to `b` twice, and with two removals at once
  the list can stay so.
- `list_answers`: `SL_Find` compares the handle of the node behind the last one (228)
  where its comment (213) promises -1 for what is not there. The property is about
  `SL_Delete` too, which looks at `p->next` after a walk that may have ended at NULL
  (166), as it does for a position two or more behind the last element, where its
  comment (150) promises -1; and about what `SL_Find` answers where `malloc()` left in
  the header, whose handle nobody wrote, what is looked for: it begins there and
  fails (233), although an element has it (213-215).

Some disagreements have no run. `main` ignores `Thread_start`'s result (server.c:886)
and without a thread waits for a flag nobody lowers, which is why `StopEndsProcess`
supposes that the thread came into being. The part of an echo that does not fit the send
queue is dropped (server.c:611) where the usage text (861) says the server echoes
the data. At the descriptor limit `accept()` fails and `continue`
(405) goes back to a `select()` that is ready at once, for ever, which is why `input`
has descriptors to spare.
`SL_Empty` returns 1 for a list that is not empty (List.c:252) where its comment says -1
(242), and `SL_Clear` returns 0 (304) where it says 1 (285): plain constants, which
`OtherCode` has. A refused CONNACK deletes the state of a clean session (mqttws31.js:1425), where the
documentation says "on successful connect" (2139-2140). The sequence that is to
restore "the original sent order" (1480) starts at 0 again after a restart.
`disconnectedBufferSize` lets one message more in than it says (1090).

## The proofs

Assumptions: `ConstantsAssumption` of `EchoServer` (finitely many clients, sizes
of at least one, a receive queue that holds what one read takes) and
`ListAssumption` of `SList` (NULL is no node and no handle, positions are integers,
sizes naturals), `MqttAssumption` of `MqttClient` (the types of its constants) and
`ChatAssumption` of `ChatServer`; TLC evaluates them in every run. The theorems hold
for every number of clients, messages, sockets and faults and every size of frames,
queues and reads. `NoRetryFaults`, `IdsFit` and `BrokerIdsFit` are hypotheses of the
theorems that need them, and every instance of `mqtt` and `mqtt_live` meets them.

The safety properties are not inductive as they stand. `FrameInv` speaks of a
frame inside a running `tcp_sendn`, so it needs that `tcp_sendn` never sends
more than it was given and nothing after an error (`SendInv`), and that the
client the loop is at is a client at all (`LoopInv`); `TypeOK` needs `FrameInv`,
since it is what keeps `pos` inside a frame. That is layer 1, `LocalInv`, with
`ThreadsInv`, which says where both threads can be at once.

Layer 2, `GlobalInv`, adds the list: `ListMatchesSockets` and `PassInv` need
each other's distinctness of entries, `LifeInv` says what the thread holds
before and after its loop, `SelectInv` that the `fd_set`s matter in the service
pass only, `ExceptInv` that urgent data stays pending until its client is
handled, `RoundInv` that a round's handled clients have the number or are behind.

Layer 3, `HadInv`, is what the refinement lacks: a frame that is still to begin
begins with a number its client has not had. It is why the code may print a new
number over the shared buffer while frames are pending in it.

For the list, `ListInv` joins the chain (`ChainInv`) with where each loop is in it
(`LoopInv`): that `p` is entry `i` of the chain is what makes a link set through `p`
an insertion at a position. Because every turn of a loop is a step, the induction
over the list's length is the induction over steps, and the theorems hold for lists
of any length. `LinkKeepsChain` and `UnlinkKeepsChain` say what the pointer
assignments do to the chain, `LinkSlots` and `UnlinkSlots` what they do to the
sequence of handles, and one lemma per function maps its return to its effect in
`HandleList`; the turns of the loops are stutters.

The server's steps are grouped by what they do to the list and the pass over it
(`Control`, `Starts`, `Accepts`, `Deletes`, `Nexts`, `Inside`); each layer has a
lemma per group and a lemma that puts them together.

For the MQTT client, `StoreCovers` alone is not inductive: `Covers` adds that the
object has the fields the property speaks of and that keys agree. The routines that
handlers share change neither `sent` nor `received`; one lemma for each says so
(`...Keeps`), and with `KeepsCovers` each handler comes down to what it does to a
single identifier in both places.

The rest rests on the invariant of `MqttInvariant`, which has five parts; the first
three make up `ClientInv`.

- `Typed` is the types, with two things that are not types. Identifiers are few only
  because one is given out for each message and each request: `CountInv` bounds
  identifiers, cursor and sequence by the messages tried and the upsets spent
  (`CountStep`, `CountTaken`). And the broker's new message has an identifier only
  because those in use belong to different messages, none of them new (`BrokerOK`,
  `UnusedId`).
- `ConnInv` says what socket, timers, queue and the packets on their way are when a
  connection is on its way (`HandshakeOK`: no packet before CONNECT one way and
  before CONNACK the other), made (`LinkedOK`), or given up (`SettledOK`: nothing is
  left on the sockets behind), and that the pinger of a retry is off once its
  connection is gone (`PingerOK`), so that one timer is left to reconnect.
  `ConnectedUsable` follows. It holds as long as no attempt to retry fails after it
  sent its CONNECT or outlasts its connect timeout (`NoRetryFaults`); with such an
  attempt it is false, which is the disagreement `mqtt_stale` shows.
- `Tidy` says that an answer finds the message it settles. For each identifier at
  most one packet is under way, in either direction, and it is of the kind the
  message awaits (`TokenInv`); the handler that takes it off the socket may then
  forget the message in memory and in the store together. `StoreExact` is the part
  of it a reader wants. Without the tokens it does not follow: a second REQUESTACK
  under an identifier that was given to a PUBLISH meanwhile forgets that PUBLISH in
  memory only (mqttws31.js, the handlers of SUBACK and UNSUBACK), and localStorage
  keeps it. `Exact` therefore supposes `NoRetryFaults`, without which two connections
  answer for one message, and `IdsFit`: two bytes hold every identifier that is given
  out, or the broker answers to the remainder of one.
- `SendInv` says what the broker took of the client's messages and may still take.
  Three of its parts are what the refinement stands on. Everything the broker has
  still to read it may take (`UnreadOK`): it never took that message, or may take it
  again at quality 1, or knows its identifier of quality 2. What the broker says it
  took, it did (`ReceiptsOK`), so that the client forgets no other. And the broker's
  session is that of the client's messages (`SessionOK`): it remembers an identifier
  exactly as long as the client may still send that message again, which is why a
  PUBLISH that comes twice is taken once. This last is false for a clean session
  whose connection is given up: then the client clears its messages with CONNACK,
  and the broker its session, and nothing of the one before is read any more
  (`AdmittedOK`, `FreshOK`).
- `ReceiveInv` is about the broker's messages, and in the first place about what is
  on its way down the current socket: it can be handed on (`Coming`), and repeats a
  message of quality 2 the client has already only under the identifier it has it
  under (`Repeats`). In a session that lasts, the two ends agree. What the broker has
  in flight is a map from identifiers to messages (`Flying`), and each of its packets
  and each answer to one stands for an entry of it, of the kind that entry awaits
  (`TokensOK`, the condition of `Tidy` with the directions exchanged). The client has
  just the messages of quality 2 it said PUBREC of and did not hand on (`AgreeOK`);
  and what says PUBACK or PUBCOMP is about one it did hand on (`SaidOK`). In a clean
  session none of the second half is so, and none is needed: a new connection begins
  with nothing in flight. `BrokerIdsFit` is what `IdsFit` is on the other side.

`TidyNext` has one lemma per handler (`...Tokens`), above lemmas on what taking,
adding and losing a packet does to the tokens of one sequence (`HeadTaken`,
`PacketPut`, `OthersChange`). For `SendInv` most steps need no lemma of their own:
after them no more is on its way than before, and no less is known (`Calm`), and
`EasedSend` covers them all (`...Eases`). What is left are the steps that send
(`AppSendSend`, `AcceptedSend` after CONNACK, `HeardSend` after PUBREC), those by
which the broker takes, releases or begins a session (`TakeSend`, `ReleaseSend`,
`ConnectSend`), and the restart (`CrashSend`).

`PromiseStep` then maps each step to one of `Delivery`: `AppSend` to `Accept`, the
broker's reading of a PUBLISH to `Take` (`ReadTakes`), PUBACK and PUBCOMP to `Release`
(`HeardReleases`), CONNACK of a clean session to `GiveUp` (`ConnackGivesUp`), and
everything else to a stutter. `NoRetryFaults` and `IdsFit` are needed: without the
first the statement is false (`mqtt_stale`).

The other direction goes the same way. A step that brings the client no packet that
asks for an answer, and the broker no reply, changes nothing `ReceiveInv` speaks of but
to leave less of it under way (`Hushed`, `HushedReceive`); that is so of every call,
timer and fault, and of all packets about the client's own messages (`...Hushes`).
What is left are the steps that announce a message (`PublishReceive`), begin a session
and send again what is in flight (`ConnectReceive`), hand on, keep and acknowledge
(`PublishHandsOn`, `PublishKeeps`, `PubrelHandsOn`), and read the acknowledgements
(`ForgetReceive`, `FreeReceive`). Each comes down to a lemma about two sequences of
packets and two maps, which is where the argument is (`Announces`, `StartsOver`,
`HandsOn`, `Receives`, `GivesUp`, `Says`, `Forgets`, `Frees`). `ReceiptStep` maps
`BrokerPublish` to `Accept`, the call of `onMessageArrived` to `Take`, the broker's
reading of PUBACK and PUBCOMP to `Release` or, in a clean session, to `GiveUp`, as it
does a clean CONNECT.

`DeliveryProofs` is about the promise itself: nothing of quality 0 or 2 is taken
twice, and nothing of quality 1 or 2 is lost without a clean session. Its theorems
suppose of `clean` only what they state; `BrokerTakesOnce` and `NothingLost` are
what they come to for what the client sends, `ArrivesOnce` and `NothingMissed` for what
it receives.

For the chat server the invariant has two parts. `BaseInv` holds whatever the event
loops do: types, that a loop works on a channel of its own, and that a running
broadcast has a message of its own. `SerialInv` holds as long as nothing overlapped:
the list against `Members` (`Exact`), what a loop in the middle of `add`, `remove` or a
broadcast has read is still so, everybody up to where the iterator is has the message
and nobody behind it (`Within`), broadcasts that are over reached everybody
(`ReachedInv`), and nobody got a message twice (`OnceInv`). `Alone` says the others are
idle while one changes the list. `ListFits` is where the
number of channels comes in: a list without repetition has room for one more.
The theorems assume `ChatAssumption`: finitely many channels and event loops, an
array as long as there are channels.

What holds with overlap too is `SenderInv` and `OrderInv`: an event loop does one thing
at a time, so a broadcast that runs is the last one of its sender, and whatever the
list looks like a message is written after those its sender sent before. The list
itself can then be anything, a channel in it twice included. Its size stays in
bounds (`SizeInv`): no size that was written, or read and is still to be used, counts
more than the channels whose `add` is over (`Done`), nor is further below 0 than
removals have written theirs (`Gone`), which is why `TypeOK` has a negative bound.

| Theorem | Module | States |
|---|---|---|
| `TypeCorrect` | `SListProofs` | `Spec => []TypeOK` |
| `WalksInPlace` | `SListProofs` | `Spec => []LoopInv` |
| `HeapIsChain` | `SListProofs` | `Spec => []ChainInv` |
| `HandleListImplemented` | `SListProofs` | `Spec => ImplementsHandleList` |
| `TypeCorrect` | `EchoServerProofs` | `Spec => []TypeOK` |
| `FramesTracked` | `EchoServerProofs` | `Spec => []FrameInv` |
| `CoreAlways` | `EchoServerProofs` | layers 1 and 2 always hold |
| `ListFaithful` | `EchoServerProofs` | `Spec => []ListMatchesSockets` |
| `PassesInStep` | `EchoServerProofs` | `Spec => []PassInv` |
| `ShutdownClean` | `EchoServerProofs` | `Spec => []CleanShutdown` |
| `HealthyKept` | `EchoServerProofs` | `Spec => HealthyClientKept` |
| `ServicePassesComplete` | `EchoServerProofs` | `Spec => ServicePassComplete` |
| `RoundsComplete` | `EchoServerProofs` | `Spec => RoundComplete` |
| `Inductive` | `EchoServerProofs` | `Spec => []IndInv` |
| `FrameServiceImplemented` | `EchoServerProofs` | `Spec => ImplementsFrameService` |
| `StoreAlwaysCovers` | `MqttProofs` | `Spec => []StoreCovers` |
| `TypeCorrect` | `MqttProofs` | `Spec => []TypeOK` |
| `Usable` | `MqttProofs` | `NoRetryFaults` implies `Spec => []ConnectedUsable` |
| `ClientInvariant` | `MqttSessionProofs` | `NoRetryFaults` and `IdsFit` imply `Spec => []ClientInv` |
| `Exact` | `MqttSessionProofs` | `NoRetryFaults` and `IdsFit` imply `Spec => []StoreExact` |
| `PromiseKept` | `MqttPromiseProofs` | `NoRetryFaults` and `IdsFit` imply `Spec => []SendInv` |
| `DeliveryImplemented` | `MqttPromiseProofs` | `NoRetryFaults` and `IdsFit` imply `Spec => SendsAsPromised` |
| `BrokerTakesOnce` | `MqttPromiseProofs` | under the same, what is not of quality 1 is taken once at most |
| `NothingLost` | `MqttPromiseProofs` | under the same and without a clean session, what is of quality 1 or 2 is held until it is taken |
| `ReceiveKept` | `MqttPromiseProofs` | `NoRetryFaults`, `IdsFit` and `BrokerIdsFit` imply `Spec => []ReceiveInv` |
| `ReceiptImplemented` | `MqttPromiseProofs` | under the same, `Spec => ReceivesAsPromised` |
| `ArrivesOnce` | `MqttPromiseProofs` | under the same, what is not of quality 1 arrives once at most |
| `NothingMissed` | `MqttPromiseProofs` | under the same and without a clean session, what is of quality 1 or 2 is in flight until it arrived |
| `TakenAtMostOnce` | `DeliveryProofs` | `Spec /\ [](clean \in BOOLEAN) => []AtMostOnce` |
| `AcceptedNotLost` | `DeliveryProofs` | `Spec /\ [](clean = FALSE) => []NotLost` |
| `ListExact` | `ChatServerProofs` | `Spec => []SerialListExact` |
| `BroadcastComplete` | `ChatServerProofs` | `Spec => []SerialBroadcastComplete` |
| `TypeCorrect` | `ChatServerProofs` | `Spec => []TypeOK` |
| `InOrder` | `ChatServerProofs` | `Spec => []InOrderOnce` |

Only model-checked: the liveness properties (`StopEndsProcess`, `FrameFinished`,
`GoneClientReleased`, `InputTaken`, `CallsEnd`, `AllSettled`), since fairness and `ENABLED`
are beyond the prover, and the disagreements, which are counterexamples.

## Not modelled

Of the server: the contents of frames and echoes, the digits of the frame number,
its overflow after 2^31 rounds, negative cycles, descriptors beyond `FD_SETSIZE`, the
UDP broadcast branch (`#if 0`, server.c:439-513).

Of the MQTT client: the list of hosts (`uris`, `hostIndex`), encoding and the framing of
packets (with `receiveBuffer`, which is not cleared between connections), validation
of options, the trace, the timeouts of subscriptions (they only call the
application), packets no broker sends to a client. 65536 messages in progress at once,
where the identifier no longer fits two bytes, are beyond the bounds. `App.js` only
calls the client.

Of the chat server: replies to `2probe`, pings and polling requests, static files,
keep-alive, and `nsidsup`, which belongs to one handler and so to one channel.

Of the other components: the ultrasonic server is the echo server with other bytes.
The web chats keep nothing of their own over the client. The TCP test client, the ping
monitor, and the multicast programs are straight lines of calls with one counter or
none; the ENet test has one counter, whose fault is listed as a hazard.
`ttapp` keeps one table, and its database orders the requests on it. Text
converters, demos around one library call, scripts, test plans and vendored code
have no behaviour of the repository's own worth a model.

## Plan

1. The order of `sort` after a restart, as a property of what is sent again.
2. `Multicast`: the loss counter against a reference over bounded streams of
   datagrams; `TcpClient` with its deadline.
3. The chat server over a synchronised list, as the repair the counterexample calls for.
