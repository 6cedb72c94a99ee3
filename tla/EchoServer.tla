------------------------------ MODULE EchoServer ------------------------------
(***************************************************************************)
(* The TCP echo / auto-send server of src/mix-sources/tcp_echo_server:     *)
(* the select() loop of start_svr_thread (server.c), the main thread that  *)
(* starts and stops it, and, as the environment, the kernel's view of the  *)
(* clients' TCP connections.                                               *)
(*                                                                         *)
(* A connection slot c \in Clients is a peer that may connect, be served,  *)
(* go away and connect again.  Byte counts are counts of abstract units:   *)
(* what the bytes say does not matter, except for the unit at position 0   *)
(* of an auto-send frame, which carries the frame number.                  *)
(***************************************************************************)
EXTENDS Integers, Sequences, FiniteSets, SequencesExt

CONSTANTS
  Clients,     \* the peers that may connect
  Cycle,       \* is local_server_auto_send_cycle non-zero?
  FrameSize,   \* send_size_per: the units of one auto-send frame
  RecvMax,     \* sizeof(recv_buff) - 1: the most units one read takes
  RcvBuf,      \* room in a socket's receive queue
  SndBuf,      \* room in a socket's send queue
  MaxFds,      \* descriptors left for the listener and the clients
  MaxFaults,   \* bound on failing system calls of the environment
  PeerMoves    \* the things peers do: "send", "fin", "reset", "urgent"

ASSUME ConstantsAssumption ==
  /\ IsFiniteSet(Clients)
  /\ Cycle \in BOOLEAN
  /\ FrameSize \in Nat \ {0}
  /\ RecvMax \in Nat \ {0}
  /\ RcvBuf \in Nat /\ RecvMax <= RcvBuf
  /\ SndBuf \in Nat \ {0}
  /\ MaxFds \in Nat \ {0}
  /\ MaxFaults \in Nat
  /\ PeerMoves \subseteq {"send", "fin", "reset", "urgent"}

VARIABLES
  \* the kernel's side of each connection
  conn,     \* "none", "queued" (in the backlog), "open" (accepted) or "leaked"
  inq,      \* units waiting to be read
  fin,      \* has the peer finished sending?
  err,      \* "ok", "reset" (ECONNRESET pending), "pipe" (EPIPE pending), "down"
  oob,      \* is urgent data pending?
  room,     \* free units of the send queue
  \* what a peer sees of the auto-send stream
  pos,      \* units of the current frame already accepted for this peer
  had,      \* peers that were sent the frame number now in auto_send_buff
  \* start_svr_thread
  spc,      \* where the thread is
  lfd,      \* is listenfd open?
  list,     \* connect_tcp_client_list, without its header node
  wsize,    \* need_write_size of each client
  wptr,     \* need_write_ptr, as an offset into auto_send_buff
  rd, wr, ex,  \* the fd_sets select() returned
  i, size,  \* the loop variables of the pass over the list
  got,      \* ret: what tcp_recvn returned
  sum,      \* tcp_sendn's count of units sent so far
  seen,     \* history: clients this service pass has handled
  \* main()
  mpc,      \* where main is
  flag,     \* server_thread_flag
  stop,     \* server_thread_stop_flag
  ctx,      \* is the context allocated?
  \* the process and its environment
  proc,     \* "running", "killed" (by SIGPIPE) or "exited"
  faults,   \* failing system calls so far
  leaks     \* descriptors nothing refers to any more

kernelVars == <<conn, inq, fin, err, oob, room>>
streamVars == <<pos, had>>
clientVars == <<wsize, wptr>>
selectVars == <<rd, wr, ex>>
passVars   == <<i, size, got, sum, seen>>
mainVars   == <<mpc, flag, stop, ctx>>
envVars    == <<proc, faults, leaks>>

vars == <<kernelVars, streamVars, clientVars, selectVars, passVars, mainVars,
          envVars, spc, lfd, list>>

ConnStates == {"none", "queued", "open", "leaked"}
ErrStates  == {"ok", "reset", "pipe", "down"}
ServerPcs  == {"none", "start", "top", "select", "purge", "accept", "service",
               "echo", "flush", "clock", "round", "send", "shut", "done"}
MainPcs    == {"boot", "spawn", "input", "join", "free", "end"}

\* the client a pass over the list is at
cur == list[i]

\* a position in a frame; a frame's end is the next one's beginning
Wrap(n) == IF n = FrameSize THEN 0 ELSE n

Least(m, n) == IF m < n THEN m ELSE n

\* descriptors in use
Fds == (IF lfd THEN 1 ELSE 0) + Len(list) + leaks

-----------------------------------------------------------------------------
Init ==
  /\ conn = [c \in Clients |-> "none"]
  /\ inq = [c \in Clients |-> 0]
  /\ fin = [c \in Clients |-> FALSE]
  /\ err = [c \in Clients |-> "ok"]
  /\ oob = [c \in Clients |-> FALSE]
  /\ room = [c \in Clients |-> SndBuf]
  /\ pos = [c \in Clients |-> 0]
  /\ had = {}
  /\ spc = "none" /\ lfd = FALSE /\ list = <<>>
  /\ wsize = [c \in Clients |-> 0]
  /\ wptr = [c \in Clients |-> 0]
  /\ rd = {} /\ wr = {} /\ ex = {}
  /\ i = 0 /\ size = 0 /\ got = 0 /\ sum = 0 /\ seen = {}
  /\ mpc = "boot" /\ flag = FALSE /\ stop = FALSE /\ ctx = TRUE
  /\ proc = "running" /\ faults = 0 /\ leaks = 0

-----------------------------------------------------------------------------
(***************************************************************************)
(* The environment: peers and the kernel's TCP.                            *)
(***************************************************************************)

\* The kernel completes a handshake while the listening socket exists.
PeerConnect(c) ==
  /\ lfd /\ conn[c] = "none"
  /\ conn' = [conn EXCEPT ![c] = "queued"]
  /\ UNCHANGED <<inq, fin, err, oob, room>>

Connected(c) == conn[c] \in {"queued", "open"}

\* A unit arrives, as long as the receive queue has room for it.
PeerSend(c) ==
  /\ "send" \in PeerMoves /\ Connected(c)
  /\ ~fin[c] /\ err[c] = "ok" /\ inq[c] < RcvBuf
  /\ inq' = [inq EXCEPT ![c] = @ + 1]
  /\ UNCHANGED <<conn, fin, err, oob, room>>

\* The peer takes units out of the path, which frees the send queue.
PeerRead(c) ==
  /\ conn[c] = "open" /\ err[c] = "ok" /\ room[c] < SndBuf
  /\ \E r \in (room[c] + 1)..SndBuf : room' = [room EXCEPT ![c] = r]
  /\ UNCHANGED <<conn, inq, fin, err, oob>>

PeerFin(c) ==
  /\ "fin" \in PeerMoves /\ Connected(c)
  /\ ~fin[c] /\ err[c] = "ok"
  /\ fin' = [fin EXCEPT ![c] = TRUE]
  /\ UNCHANGED <<conn, inq, err, oob, room>>

\* A reset.  After the peer's FIN the kernel reports it as EPIPE, before it
\* as ECONNRESET; either way later sends have nowhere to go.
PeerReset(c) ==
  /\ "reset" \in PeerMoves /\ Connected(c) /\ err[c] = "ok"
  /\ err' = [err EXCEPT ![c] = IF fin[c] THEN "pipe" ELSE "reset"]
  /\ UNCHANGED <<conn, inq, fin, oob, room>>

PeerUrgent(c) ==
  /\ "urgent" \in PeerMoves /\ Connected(c)
  /\ ~fin[c] /\ err[c] = "ok" /\ ~oob[c]
  /\ oob' = [oob EXCEPT ![c] = TRUE]
  /\ UNCHANGED <<conn, inq, fin, err, room>>

Peer(c) ==
  /\ proc = "running"
  /\ \/ PeerConnect(c) \/ PeerSend(c) \/ PeerRead(c)
     \/ PeerFin(c) \/ PeerReset(c) \/ PeerUrgent(c)
  /\ UNCHANGED <<streamVars, clientVars, selectVars, passVars, mainVars,
                 envVars, spc, lfd, list>>

\* What select() would report about an accepted connection.
Readable(c) == inq[c] > 0 \/ fin[c] \/ err[c] # "ok"
Writable(c) == room[c] > 0 \/ err[c] # "ok"

-----------------------------------------------------------------------------
(***************************************************************************)
(* tcp_sendn, one send() call per step.  The thread is in it while spc is  *)
(* "echo", "flush" or "send"; the socket's send queue may drain, and the   *)
(* connection may die, between two calls.                                  *)
(***************************************************************************)
Sending ==
  \/ spc \in {"echo", "flush"}
  \/ spc = "send" /\ i < size /\ wsize[cur] = 0

\* a slip: a flush that offers the size of a whole frame
ChunkWholeFrame == CASE spc = "echo"  -> got
                     [] spc = "flush" -> FrameSize
                     [] spc = "send"  -> FrameSize

\* the units the caller asked for
Chunk == CASE spc = "echo"  -> got
           [] spc = "flush" -> wsize[cur]
           [] spc = "send"  -> FrameSize

SendSome ==
  /\ Sending /\ sum < Chunk /\ err[cur] = "ok" /\ room[cur] > 0
  /\ LET k == Least(Chunk - sum, room[cur]) IN
       /\ sum' = sum + k
       /\ room' = [room EXCEPT ![cur] = @ - k]
       /\ IF spc = "echo"
          THEN UNCHANGED streamVars
          ELSE /\ pos' = [pos EXCEPT ![cur] = Wrap(@ + k)]
               /\ had' = IF pos[cur] = 0 THEN had \cup {cur} ELSE had
  /\ UNCHANGED <<conn, inq, fin, err, oob, clientVars, selectVars, i, size, got,
                 seen, mainVars, envVars, spc, lfd, list>>

\* send() on a connection with no peer left: SIGPIPE, which nothing handles.
SendKilled ==
  /\ Sending /\ sum < Chunk /\ err[cur] \in {"pipe", "down"}
  /\ proc' = "killed"
  /\ UNCHANGED <<kernelVars, streamVars, clientVars, selectVars, passVars,
                 mainVars, faults, leaks, spc, lfd, list>>

\* tcp_sendn returns r: all that was asked, what fitted (EAGAIN), or -1.
SendReturns(r) ==
  /\ Sending
  /\ \/ sum = Chunk /\ r = sum /\ UNCHANGED err
     \/ sum < Chunk /\ err[cur] = "ok" /\ room[cur] = 0 /\ r = sum /\ UNCHANGED err
     \/ /\ sum < Chunk /\ err[cur] = "reset" /\ r = -1
        /\ err' = [err EXCEPT ![cur] = "down"]

-----------------------------------------------------------------------------
(***************************************************************************)
(* Passes over the list: for (i = 1; i < size; i++) with the idiom         *)
(* close, free, SL_Delete(i), size--, i-- for a client that has to go.     *)
(***************************************************************************)
StartPass(pc) ==
  /\ spc' = pc /\ i' = 1 /\ size' = Len(list) + 1
  /\ got' = 0 /\ sum' = 0 /\ seen' = {}

\* dead loop variables are cleared, to keep states few
EndPass(pc) ==
  /\ spc' = pc /\ i' = 0 /\ size' = 0
  /\ got' = 0 /\ sum' = 0 /\ seen' = {}

\* i++ at the end of a body that kept the client
NextClient(pc) ==
  /\ spc' = pc /\ i' = i + 1 /\ UNCHANGED size
  /\ got' = 0 /\ sum' = 0 /\ seen' = seen \cup {cur}

\* close() of a client's socket: the kernel forgets the connection
Forget(c) ==
  /\ conn' = [conn EXCEPT ![c] = "none"]
  /\ inq' = [inq EXCEPT ![c] = 0]
  /\ fin' = [fin EXCEPT ![c] = FALSE]
  /\ err' = [err EXCEPT ![c] = "ok"]
  /\ oob' = [oob EXCEPT ![c] = FALSE]
  /\ room' = [room EXCEPT ![c] = SndBuf]
  /\ pos' = [pos EXCEPT ![c] = 0]
  /\ had' = had \ {c}
  /\ wsize' = [wsize EXCEPT ![c] = 0]
  /\ wptr' = [wptr EXCEPT ![c] = 0]

\* slips of the idiom: SL_Delete one entry too far, no size--, no i--, no close()
DeleteNext(pc) ==
  /\ Forget(cur) /\ list' = RemoveAt(list, i + 1)
  /\ spc' = pc /\ i' = i /\ size' = size - 1
  /\ got' = 0 /\ sum' = 0 /\ seen' = seen \cup {cur}
DeleteKeepsSize(pc) ==
  /\ Forget(cur) /\ list' = RemoveAt(list, i)
  /\ spc' = pc /\ i' = i /\ size' = size
  /\ got' = 0 /\ sum' = 0 /\ seen' = seen \cup {cur}
DeleteSkips(pc) ==
  /\ Forget(cur) /\ list' = RemoveAt(list, i)
  /\ spc' = pc /\ i' = i + 1 /\ size' = size - 1
  /\ got' = 0 /\ sum' = 0 /\ seen' = seen \cup {cur}
DeleteKeepsSocket(pc) ==
  /\ UNCHANGED <<kernelVars, streamVars, clientVars>>
  /\ list' = RemoveAt(list, i)
  /\ spc' = pc /\ i' = i /\ size' = size - 1
  /\ got' = 0 /\ sum' = 0 /\ seen' = seen \cup {cur}

\* size--; i--; and the i++ of the loop
DeleteCurrent(pc) ==
  /\ Forget(cur)
  /\ list' = RemoveAt(list, i)
  /\ spc' = pc /\ i' = i /\ size' = size - 1
  /\ got' = 0 /\ sum' = 0 /\ seen' = seen \cup {cur}

-----------------------------------------------------------------------------
(***************************************************************************)
(* start_svr_thread up to the loop.                                        *)
(***************************************************************************)
\* a slip: an error path that forgets server_thread_flag
StartFailsSilently ==
  /\ spc = "start" /\ spc' = "done"
  /\ UNCHANGED <<kernelVars, streamVars, clientVars, selectVars, passVars,
                 mainVars, envVars, lfd, list>>

\* socket(), bind() or listen() fails: no listener, flag cleared, thread ends
StartFails ==
  /\ spc = "start"
  /\ spc' = "done" /\ flag' = FALSE
  /\ UNCHANGED <<kernelVars, streamVars, clientVars, selectVars, passVars, mpc,
                 stop, ctx, envVars, lfd, list>>

StartListening ==
  /\ spc = "start"
  /\ lfd' = TRUE /\ spc' = "top"
  /\ UNCHANGED <<kernelVars, streamVars, clientVars, selectVars, passVars,
                 mainVars, envVars, list>>

\* while (!server_thread_stop_flag), then close(listenfd), which also resets
\* the connections nobody accepted
TopStop ==
  /\ spc = "top" /\ stop
  /\ lfd' = FALSE
  /\ conn' = [c \in Clients |-> IF conn[c] = "queued" THEN "none" ELSE conn[c]]
  /\ StartPass("shut")
  /\ UNCHANGED <<inq, fin, err, oob, room, streamVars, clientVars, selectVars,
                 mainVars, envVars, list>>

TopLoop ==
  /\ spc = "top" /\ ~stop
  /\ spc' = "select"
  /\ UNCHANGED <<kernelVars, streamVars, clientVars, selectVars, passVars,
                 mainVars, envVars, lfd, list>>

-----------------------------------------------------------------------------
(***************************************************************************)
(* select(): the listener and every client for reading, every client for   *)
(* exceptions, the clients with an unfinished frame for writing.           *)
(***************************************************************************)
NewConnection == \E c \in Clients : conn[c] = "queued"
NoWriteSet == {}   \* a slip: writefds never filled in
ReadSet   == {c \in ToSet(list) : Readable(c)}
WriteSet  == {c \in ToSet(list) : wsize[c] > 0 /\ Writable(c)}
ExceptSet == {c \in ToSet(list) : oob[c]}

\* the listener is ready: only a new connection is looked at this time round
SelectListener ==
  /\ spc = "select" /\ NewConnection
  /\ spc' = "accept"
  /\ UNCHANGED <<kernelVars, streamVars, clientVars, selectVars, passVars,
                 mainVars, envVars, lfd, list>>

SelectClients ==
  /\ spc = "select" /\ ~NewConnection
  /\ ReadSet \cup WriteSet \cup ExceptSet # {}
  /\ rd' = ReadSet /\ wr' = WriteSet /\ ex' = ExceptSet
  /\ StartPass("service")
  /\ UNCHANGED <<kernelVars, streamVars, clientVars, mainVars, envVars, lfd, list>>

SelectTimeout ==
  /\ spc = "select" /\ ~NewConnection
  /\ ReadSet \cup WriteSet \cup ExceptSet = {}
  /\ spc' = "round"
  /\ UNCHANGED <<kernelVars, streamVars, clientVars, selectVars, passVars,
                 mainVars, envVars, lfd, list>>

\* -1 with EINTR: nothing is ready, on to the clock
SelectInterrupted ==
  /\ spc = "select" /\ faults < MaxFaults
  /\ faults' = faults + 1 /\ spc' = "clock"
  /\ UNCHANGED <<kernelVars, streamVars, clientVars, selectVars, passVars,
                 mainVars, proc, leaks, lfd, list>>

\* -1 with another error: every client is closed
SelectError ==
  /\ spc = "select" /\ faults < MaxFaults
  /\ faults' = faults + 1
  /\ StartPass("purge")
  /\ UNCHANGED <<kernelVars, streamVars, clientVars, selectVars, mainVars, proc,
                 leaks, lfd, list>>

PurgeClient ==
  /\ spc = "purge" /\ i < size
  /\ DeleteCurrent("purge")
  /\ UNCHANGED <<selectVars, mainVars, envVars, lfd>>

PurgeEnd ==
  /\ spc = "purge" /\ i >= size
  /\ EndPass("clock")
  /\ UNCHANGED <<kernelVars, streamVars, clientVars, selectVars, mainVars,
                 envVars, lfd, list>>

-----------------------------------------------------------------------------
(***************************************************************************)
(* accept().                                                               *)
(***************************************************************************)
\* accept() fails, out of descriptors or otherwise: continue, past the clock
AcceptFails ==
  /\ spc = "accept"
  /\ \/ Fds >= MaxFds /\ UNCHANGED faults
     \/ Fds < MaxFds /\ faults < MaxFaults /\ faults' = faults + 1
  /\ spc' = "top"
  /\ UNCHANGED <<kernelVars, streamVars, clientVars, selectVars, passVars,
                 mainVars, proc, leaks, lfd, list>>

\* no memory for the client's record (continue), or for its list node (SL_Add's
\* result is not looked at): connectfd stays open, and nothing refers to it
AcceptNoMemory(c) ==
  /\ spc = "accept" /\ conn[c] = "queued" /\ Fds < MaxFds
  /\ faults < MaxFaults /\ faults' = faults + 1
  /\ conn' = [conn EXCEPT ![c] = "leaked"] /\ leaks' = leaks + 1
  /\ spc' \in {"top", "clock"}
  /\ UNCHANGED <<inq, fin, err, oob, room, streamVars, clientVars, selectVars,
                 passVars, mainVars, proc, lfd, list>>

\* a slip: no SL_Add
AcceptForgets(c) ==
  /\ spc = "accept" /\ conn[c] = "queued" /\ Fds < MaxFds
  /\ conn' = [conn EXCEPT ![c] = "open"] /\ spc' = "clock"
  /\ UNCHANGED <<inq, fin, err, oob, room, streamVars, clientVars, selectVars,
                 passVars, mainVars, envVars, lfd, list>>

AcceptClient(c) ==
  /\ spc = "accept" /\ conn[c] = "queued" /\ Fds < MaxFds
  /\ conn' = [conn EXCEPT ![c] = "open"]
  /\ list' = Append(list, c)
  /\ spc' = "clock"
  /\ UNCHANGED <<inq, fin, err, oob, room, streamVars, clientVars, selectVars,
                 passVars, mainVars, envVars, lfd>>

-----------------------------------------------------------------------------
(***************************************************************************)
(* The service pass.  Per client, in this order and never two of them: an  *)
(* exception closes it, input is read and echoed, a pending frame is       *)
(* continued.                                                              *)
(***************************************************************************)
Serving == spc = "service" /\ i < size

ServeExcept ==
  /\ Serving /\ cur \in ex
  /\ DeleteCurrent("service")
  /\ UNCHANGED <<selectVars, mainVars, envVars, lfd>>

\* a slip of tcp_recvn: end of file taken for no data
RecvEofIsNothing(c) ==
  IF inq[c] >= RecvMax THEN RecvMax ELSE IF err[c] # "ok" THEN -1 ELSE inq[c]

\* tcp_recvn reads until RecvMax units or EAGAIN; an end of file or an error
\* on the way is -1 even when units were read before it
RecvResult(c) ==
  IF inq[c] >= RecvMax THEN RecvMax
  ELSE IF fin[c] \/ err[c] # "ok" THEN -1
  ELSE inq[c]

ServeReadFails ==
  /\ Serving /\ cur \notin ex /\ cur \in rd /\ RecvResult(cur) = -1
  /\ DeleteCurrent("service")
  /\ UNCHANGED <<selectVars, mainVars, envVars, lfd>>

\* what was read is echoed; nothing read leaves the client as it is
ServeRead ==
  /\ Serving /\ cur \notin ex /\ cur \in rd /\ RecvResult(cur) >= 0
  /\ inq' = [inq EXCEPT ![cur] = @ - RecvResult(cur)]
  /\ IF RecvResult(cur) > 0
     THEN /\ got' = RecvResult(cur) /\ sum' = 0 /\ spc' = "echo"
          /\ UNCHANGED <<i, size, seen>>
     ELSE NextClient("service")
  /\ UNCHANGED <<conn, fin, err, oob, room, streamVars, clientVars, selectVars,
                 mainVars, envVars, lfd, list>>

\* the echo is done, short or failed: only a message is printed
EchoReturn ==
  /\ spc = "echo"
  /\ \E r \in -1..RecvMax : SendReturns(r)
  /\ NextClient("service")
  /\ UNCHANGED <<conn, inq, fin, oob, room, streamVars, clientVars, selectVars,
                 mainVars, envVars, lfd, list>>

ServeWrite ==
  /\ Serving /\ cur \notin ex /\ cur \notin rd /\ cur \in wr
  /\ spc' = "flush" /\ sum' = 0
  /\ UNCHANGED <<kernelVars, streamVars, clientVars, selectVars, i, size, got,
                 seen, mainVars, envVars, lfd, list>>

\* the pending frame moves on by what was sent; an error changes nothing
FlushReturn ==
  /\ spc = "flush"
  /\ \E r \in -1..FrameSize :
       /\ SendReturns(r)
       /\ IF r < 0
          THEN UNCHANGED clientVars
          ELSE /\ wsize' = [wsize EXCEPT ![cur] = @ - r]
               /\ wptr' = [wptr EXCEPT ![cur] = @ + r]
  /\ NextClient("service")
  /\ UNCHANGED <<conn, inq, fin, oob, room, streamVars, selectVars, mainVars,
                 envVars, lfd, list>>

ServeNothing ==
  /\ Serving /\ cur \notin (ex \cup rd \cup wr)
  /\ NextClient("service")
  /\ UNCHANGED <<kernelVars, streamVars, clientVars, selectVars, mainVars,
                 envVars, lfd, list>>

ServiceEnd ==
  /\ spc = "service" /\ i >= size
  /\ EndPass("clock")
  /\ rd' = {} /\ wr' = {} /\ ex' = {}
  /\ UNCHANGED <<kernelVars, streamVars, clientVars, mainVars, envVars, lfd, list>>

-----------------------------------------------------------------------------
(***************************************************************************)
(* The auto-send round.                                                    *)
(***************************************************************************)
\* less than a cycle since the last round
ClockNotDue ==
  /\ spc = "clock"
  /\ spc' = "top"
  /\ UNCHANGED <<kernelVars, streamVars, clientVars, selectVars, passVars,
                 mainVars, envVars, lfd, list>>

ClockDue ==
  /\ spc = "clock"
  /\ spc' = "round"
  /\ UNCHANGED <<kernelVars, streamVars, clientVars, selectVars, passVars,
                 mainVars, envVars, lfd, list>>

Idle(c) == wsize[c] = 0

\* with auto_cycle = 0 a round does nothing
RoundOff ==
  /\ spc = "round" /\ ~Cycle
  /\ spc' = "top"
  /\ UNCHANGED <<kernelVars, streamVars, clientVars, selectVars, passVars,
                 mainVars, envVars, lfd, list>>

\* send_atleast_alive; and a slip that looks at the first client only
FirstIdle == list # <<>> /\ Idle(list[1])
SomeIdle == \E c \in ToSet(list) : Idle(c)

\* if any client can take a frame, ++auto_send_number is printed over the
\* head of the shared buffer
RoundStart ==
  /\ spc = "round" /\ Cycle
  /\ had' = IF SomeIdle THEN {} ELSE had
  /\ StartPass("send")
  /\ UNCHANGED <<kernelVars, pos, clientVars, selectVars, mainVars, envVars, lfd,
                 list>>

\* a client still busy with an earlier frame gets no new one
SendSkips ==
  /\ spc = "send" /\ i < size /\ ~Idle(cur)
  /\ NextClient("send")
  /\ UNCHANGED <<kernelVars, streamVars, clientVars, selectVars, mainVars,
                 envVars, lfd, list>>

\* the frame went out, whole or in part: the rest becomes the pending write
SendReturn ==
  /\ spc = "send"
  /\ \E r \in 0..FrameSize :
       /\ SendReturns(r)
       /\ IF r < FrameSize
          THEN /\ wsize' = [wsize EXCEPT ![cur] = FrameSize - r]
               /\ wptr' = [wptr EXCEPT ![cur] = r]
          ELSE UNCHANGED clientVars
  /\ NextClient("send")
  /\ UNCHANGED <<conn, inq, fin, oob, room, streamVars, selectVars, mainVars,
                 envVars, lfd, list>>

\* tcp_sendn returned -1: the client is closed
SendFails ==
  /\ spc = "send" /\ Sending /\ sum < Chunk /\ err[cur] = "reset"
  /\ DeleteCurrent("send")
  /\ UNCHANGED <<selectVars, mainVars, envVars, lfd>>

SendEnd ==
  /\ spc = "send" /\ i >= size
  /\ EndPass("top")
  /\ UNCHANGED <<kernelVars, streamVars, clientVars, selectVars, mainVars,
                 envVars, lfd, list>>

-----------------------------------------------------------------------------
(***************************************************************************)
(* The end of the thread: every client is closed, then the flag cleared.   *)
(***************************************************************************)
ShutClient ==
  /\ spc = "shut" /\ i < size
  /\ DeleteCurrent("shut")
  /\ UNCHANGED <<selectVars, mainVars, envVars, lfd>>

ShutEnd ==
  /\ spc = "shut" /\ i >= size
  /\ EndPass("done")
  /\ flag' = FALSE
  /\ UNCHANGED <<kernelVars, streamVars, clientVars, selectVars, mpc, stop, ctx,
                 envVars, lfd, list>>

ServerStep ==
  /\ proc = "running"
  /\ \/ StartFails \/ StartListening \/ TopStop \/ TopLoop
     \/ SelectListener \/ SelectClients \/ SelectTimeout
     \/ SelectInterrupted \/ SelectError \/ PurgeClient \/ PurgeEnd
     \/ AcceptFails
     \/ \E c \in Clients : AcceptNoMemory(c) \/ AcceptClient(c)
     \/ ServeExcept \/ ServeReadFails \/ ServeRead \/ ServeWrite
     \/ ServeNothing \/ ServiceEnd
     \/ SendSome \/ SendKilled \/ EchoReturn \/ FlushReturn
     \/ ClockNotDue \/ ClockDue \/ RoundOff \/ RoundStart
     \/ SendSkips \/ SendReturn \/ SendFails \/ SendEnd
     \/ ShutClient \/ ShutEnd

-----------------------------------------------------------------------------
(***************************************************************************)
(* main().                                                                 *)
(***************************************************************************)
serverVars == <<kernelVars, streamVars, clientVars, selectVars, passVars, lfd,
                list>>

\* the flag goes up before the thread exists
MainSetFlag ==
  /\ mpc = "boot"
  /\ flag' = TRUE /\ mpc' = "spawn"
  /\ UNCHANGED <<serverVars, spc, stop, ctx, envVars>>

\* Thread_start; its result is not looked at
MainSpawn ==
  /\ mpc = "spawn"
  /\ mpc' = "input"
  /\ spc' \in {"start", "none"}
  /\ UNCHANGED <<serverVars, flag, stop, ctx, envVars>>

\* fgets() returns a key and main tells the thread to stop
MainEnter ==
  /\ mpc = "input"
  /\ stop' = TRUE /\ mpc' = "join"
  /\ UNCHANGED <<serverVars, spc, flag, ctx, envVars>>

\* while (server_thread_flag) sleep(1)
MainPoll ==
  /\ mpc = "join" /\ flag
  /\ UNCHANGED vars

\* a slip: main does not wait
MainJoinsAtOnce ==
  /\ mpc = "join" /\ mpc' = "free"
  /\ UNCHANGED <<serverVars, spc, flag, stop, ctx, envVars>>

MainJoined ==
  /\ mpc = "join" /\ ~flag
  /\ mpc' = "free"
  /\ UNCHANGED <<serverVars, spc, flag, stop, ctx, envVars>>

\* et_destroy_context: whatever is left in the list is freed with the context
MainFree ==
  /\ mpc = "free"
  /\ ctx' = FALSE /\ mpc' = "end"
  /\ list' = <<>>
  /\ UNCHANGED <<kernelVars, streamVars, clientVars, selectVars, passVars, lfd,
                 spc, flag, stop, envVars>>

MainExit ==
  /\ mpc = "end"
  /\ proc' = "exited"
  /\ UNCHANGED <<serverVars, spc, mainVars, faults, leaks>>

MainStep ==
  /\ proc = "running"
  /\ \/ MainSetFlag \/ MainSpawn \/ MainEnter \/ MainPoll \/ MainJoined
     \/ MainFree \/ MainExit

\* nothing happens after the process
Terminated == proc # "running" /\ UNCHANGED vars

Next ==
  \/ ServerStep
  \/ MainStep
  \/ \E c \in Clients : Peer(c)
  \/ Terminated

Spec == Init /\ [][Next]_vars

(***************************************************************************)
(* The operating system runs both threads, and peers keep reading; nobody  *)
(* has to press a key, connect, send or leave.  Time passes: a clock that  *)
(* is asked again and again says at last that a cycle has gone by.         *)
(***************************************************************************)
MainRuns ==
  /\ proc = "running"
  /\ MainSetFlag \/ MainSpawn \/ MainJoined \/ MainFree \/ MainExit
PeerReads(c) == proc = "running" /\ Peer(c) /\ room'[c] > room[c]

Fairness ==
  /\ WF_vars(ServerStep)
  /\ WF_vars(MainRuns)
  /\ \A c \in Clients : WF_vars(PeerReads(c))
  /\ SF_vars(proc = "running" /\ ClockDue)

FairSpec == Spec /\ Fairness

-----------------------------------------------------------------------------
(***************************************************************************)
(* Properties.                                                             *)
(***************************************************************************)
KernelOK ==
  /\ conn \in [Clients -> ConnStates]
  /\ inq \in [Clients -> 0..RcvBuf]
  /\ fin \in [Clients -> BOOLEAN]
  /\ err \in [Clients -> ErrStates]
  /\ oob \in [Clients -> BOOLEAN]
  /\ room \in [Clients -> 0..SndBuf]

StreamOK ==
  /\ pos \in [Clients -> 0..(FrameSize - 1)]
  /\ had \subseteq Clients
  /\ wsize \in [Clients -> 0..FrameSize]
  /\ wptr \in [Clients -> 0..FrameSize]

PassOK ==
  /\ list \in Seq(Clients)
  /\ spc \in ServerPcs
  /\ i \in Nat /\ size \in Nat
  /\ got \in 0..RecvMax
  /\ sum \in Nat
  /\ seen \subseteq Clients
  /\ rd \subseteq Clients /\ wr \subseteq Clients /\ ex \subseteq Clients

MainOK ==
  /\ mpc \in MainPcs
  /\ lfd \in BOOLEAN /\ flag \in BOOLEAN /\ stop \in BOOLEAN /\ ctx \in BOOLEAN
  /\ proc \in {"running", "killed", "exited"}
  /\ faults \in 0..MaxFaults /\ leaks \in Nat

\* Every variable of the server, its main thread and the kernel holds a value
\* of its kind, and the byte counters stay inside their buffers.
TypeOK == KernelOK /\ StreamOK /\ PassOK /\ MainOK

\* The list and the sockets agree: the records in connect_tcp_client_list are
\* exactly the accepted connections, each once, and the descriptors that the
\* listener, the records and the leaked connections hold are within the limit.
ListMatchesSockets ==
  /\ ToSet(list) = {c \in Clients : conn[c] = "open"}
  /\ \A j, k \in 1..Len(list) : list[j] = list[k] => j = k
  /\ Fds <= MaxFds
  /\ leaks = Cardinality({c \in Clients : conn[c] = "leaked"})

Passing == spc \in {"purge", "service", "echo", "flush", "send", "shut"}

\* The loops over the list stay in step with it while clients are deleted
\* under them: size is one past the last entry, the entries before i are the
\* ones handled, those from i on are still to come, and the fd_sets of the
\* service pass name no client that is no longer there unless it was handled.
PassInv ==
  /\ Passing =>
       /\ i \in 1..size /\ size = Len(list) + 1
       /\ \A j \in 1..Len(list) : list[j] \in seen <=> j < i
  /\ spc \in {"echo", "flush"} => i < size
  /\ rd \cup wr \cup ex \subseteq seen \cup ToSet(list)

\* units of this client's frame inside a tcp_sendn that has not returned
InFlight(c) ==
  IF spc \in {"send", "flush"} /\ i < size /\ c = cur THEN sum ELSE 0

\* need_write_ptr and need_write_size always describe exactly the rest of the
\* frame this client is in the middle of: with nothing pending the client is
\* between two frames, and a pending rest begins where the client's stream
\* stopped and ends with the frame - unless the connection is dead already.
FrameInv ==
  \A c \in Clients :
    /\ Idle(c) => pos[c] = Wrap(InFlight(c))
    /\ ~Idle(c) => /\ wptr[c] + wsize[c] = FrameSize
                   /\ err[c] # "down" => pos[c] = Wrap(wptr[c] + InFlight(c))

\* et_destroy_context runs only when the server thread has returned, and by
\* then the thread has closed the listener and every client it accepted.
CleanShutdown ==
  mpc \in {"free", "end"} =>
    /\ spc = "done"
    /\ list = <<>> /\ ~lfd
    /\ \A c \in Clients : conn[c] # "open"

\* A client leaves the list only for a reason: it finished or reset its
\* connection, sent urgent data, or select() failed, or the server shuts down.
HealthyClientKept ==
  [][\A c \in ToSet(list) \ ToSet(list') :
       fin[c] \/ err[c] # "ok" \/ oob[c] \/ spc \in {"purge", "shut"}]_vars

\* A service pass handles every client select() reported, also when clients
\* are deleted on the way.
ServicePassComplete ==
  [][spc = "service" /\ spc' = "clock" => rd \cup wr \cup ex \subseteq seen]_vars

\* A round leaves nobody out: at its end each client was sent the new number
\* or is still behind with an earlier frame.
RoundComplete ==
  [][spc = "send" /\ spc' = "top" =>
       \A c \in ToSet(list) : c \in had \/ ~Idle(c)]_vars

\* What the server promises about frames, with the clients in the list as
\* those being served.
Frames == INSTANCE FrameService WITH online <- ToSet(list)
ImplementsFrameService == Frames!Spec

\* The process ends only after the enter key was hit.
ExitOnlyOnEnter == proc # "running" => stop

\* Once the key is hit the process ends - if the thread came into being.
StopEndsProcess == stop /\ spc # "none" ~> proc # "running"

\* From some time on nobody connects any more.
ConnectionsCease ==
  <>[][\A c \in Clients : conn'[c] = "queued" => conn[c] = "queued"]_vars

\* The server lets go of a client that has finished or reset its connection,
\* once new connections cease (an accept takes the place of a service pass).
GoneClientReleased ==
  ConnectionsCease =>
    \A c \in Clients :
      conn[c] = "open" /\ (fin[c] \/ err[c] # "ok")
        ~> conn[c] # "open" \/ proc # "running"

\* Input of a connected client is taken up, or the client is let go.
InputTaken ==
  \A c \in Clients :
    conn[c] = "open" /\ inq[c] > 0
      ~> inq[c] = 0 \/ conn[c] # "open" \/ proc # "running"

\* A frame that was begun is finished once its client ceases to send (the flush
\* stands behind the read, server.c:623), unless the client goes away.
FrameFinished ==
  \A c \in Clients :
    <>[][inq'[c] <= inq[c]]_vars =>
      (conn[c] = "open" /\ wsize[c] > 0
         ~> wsize[c] = 0 \/ conn[c] # "open" \/ proc # "running")
=============================================================================
