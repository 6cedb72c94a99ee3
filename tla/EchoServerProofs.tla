--------------------------- MODULE EchoServerProofs ---------------------------
(***************************************************************************)
(* Proofs, for any number of clients and any sizes of frames and buffers,  *)
(* of the safety properties of EchoServer, in the layers of the invariant, *)
(* and that EchoServer implements FrameService, step by step.              *)
(***************************************************************************)
EXTENDS EchoServerInvariant, SeqLemmas, FiniteSetTheorems

USE ConstantsAssumption

-----------------------------------------------------------------------------
(* Layer 1: types, frame bookkeeping, threads.                             *)

\* The current entry of a pass is a client.
LEMMA CurrentIsClient ==
  ASSUME TypeOK, LoopInv, Passing, i < size
  PROVE  /\ i \in 1..Len(list) /\ Len(list) \in Nat
         /\ cur \in Clients /\ cur \in ToSet(list)
<1>1. Len(list) \in Nat /\ DOMAIN list = 1..Len(list)
  BY LenProperties DEF TypeOK, PassOK
<1>2. i \in 1..Len(list)
  BY <1>1 DEF LoopInv, TypeOK, PassOK
<1> QED BY <1>1, <1>2, ElementOfSeq DEF TypeOK, PassOK, cur, ToSet

LEMMA LocalInit == Init => LocalInv
<1> SUFFICES ASSUME Init PROVE LocalInv
  OBVIOUS
<1>1. KernelOK
  BY DEF Init, KernelOK, ConnStates, ErrStates
<1>2. StreamOK
  BY DEF Init, StreamOK
<1>3. PassOK
  BY DEF Init, PassOK, ServerPcs
<1>4. MainOK
  <2>1. faults \in 0..MaxFaults /\ leaks \in Nat
    BY DEF Init
  <2> QED BY <2>1, Zenon DEF Init, MainOK, MainPcs
<1>5. LoopInv /\ SendInv /\ ThreadsInv
  BY DEF Init, LoopInv, SendInv, Passing, ThreadsInv
<1>6. FrameInv
  BY DEF Init, FrameInv, InFlight, Idle, Wrap
<1> QED BY <1>1, <1>2, <1>3, <1>4, <1>5, <1>6 DEF LocalInv, TypeOK

\* close() leaves every per-client variable of its kind.
LEMMA ForgetTypes ==
  ASSUME KernelOK, StreamOK, NEW c \in Clients, Forget(c)
  PROVE  KernelOK' /\ StreamOK'
<1>1. KernelOK'
  BY DEF KernelOK, Forget, ConnStates, ErrStates
<1>2. StreamOK'
  BY DEF StreamOK, Forget
<1> QED BY <1>1, <1>2

\* close, free, SL_Delete, size--, i-- keeps layer 1, whichever loop it is in.
LEMMA LocalDelete ==
  ASSUME LocalInv, NEW pc \in {"purge", "service", "send", "shut"},
         spc = pc, i < size, DeleteCurrent(pc),
         UNCHANGED <<selectVars, mainVars, envVars, lfd>>
  PROVE  LocalInv'
<1> USE DEF LocalInv, TypeOK
<1>1. /\ i \in 1..Len(list) /\ Len(list) \in Nat
      /\ cur \in Clients
  BY CurrentIsClient DEF Passing
<1>2. list' \in Seq(Clients) /\ Len(list') = Len(list) - 1
  BY <1>1, RemoveAtEntries DEF DeleteCurrent, PassOK
<1>3. KernelOK' /\ StreamOK'
  BY <1>1, ForgetTypes DEF DeleteCurrent
<1>4. size = Len(list) + 1
  BY DEF LoopInv, Passing
<1>5. PassOK'
  BY <1>1, <1>2, <1>4 DEF PassOK, DeleteCurrent, selectVars, ServerPcs
<1>6. MainOK'
  BY DEF MainOK, mainVars, envVars
<1>7. LoopInv'
  BY <1>1, <1>2, <1>4 DEF LoopInv, DeleteCurrent, Passing
<1>8. SendInv'
  BY DEF SendInv, DeleteCurrent
<1>9. FrameInv'
  BY <1>1 DEF FrameInv, DeleteCurrent, Forget, InFlight, Idle, Wrap, StreamOK, KernelOK, SendInv
<1>10. ThreadsInv'
  BY DEF ThreadsInv, DeleteCurrent, mainVars
<1> QED BY <1>3, <1>5, <1>6, <1>7, <1>8, <1>9, <1>10

\* i++ past a client that stays, with the per-client variables as they are or
\* as a returning tcp_sendn leaves them: the index part of layer 1.
LEMMA LocalNextIndex ==
  ASSUME TypeOK, LoopInv, NEW pc \in {"service", "send"},
         spc \in {"service", "echo", "flush", "send"}, i < size,
         NextClient(pc), UNCHANGED <<selectVars, list>>
  PROVE  PassOK' /\ LoopInv' /\ SendInv'
<1> USE DEF TypeOK
<1>1. /\ i \in 1..Len(list) /\ Len(list) \in Nat
      /\ cur \in Clients /\ size = Len(list) + 1
  BY CurrentIsClient DEF Passing, LoopInv
<1>2. PassOK'
  BY <1>1 DEF PassOK, NextClient, selectVars, ServerPcs
<1>3. LoopInv'
  BY <1>1 DEF LoopInv, NextClient, Passing
<1>4. SendInv'
  BY <1>1 DEF SendInv, NextClient, PassOK
<1> QED BY <1>2, <1>3, <1>4

\* A pass begins at the first entry.
LEMMA LocalStartPass ==
  ASSUME TypeOK, NEW pc \in {"purge", "service", "send", "shut"},
         StartPass(pc), UNCHANGED list,
         rd' \subseteq Clients, wr' \subseteq Clients, ex' \subseteq Clients
  PROVE  PassOK' /\ LoopInv' /\ SendInv'
<1>1. Len(list) \in Nat
  BY DEF TypeOK, PassOK
<1>2. PassOK'
  BY <1>1 DEF TypeOK, PassOK, StartPass, ServerPcs
<1>3. LoopInv'
  BY <1>1 DEF LoopInv, StartPass, Passing
<1>4. SendInv'
  BY <1>1 DEF SendInv, StartPass
<1> QED BY <1>2, <1>3, <1>4

\* Outside the passes nothing is left of them.
LEMMA LocalQuiet ==
  ASSUME LocalInv, NEW pc \in ServerPcs, spc' = pc,
         pc \notin {"purge", "service", "echo", "flush", "send", "shut"},
         \/ UNCHANGED passVars /\ spc \notin {"echo", "flush", "send"}
         \/ EndPass(pc) /\ i >= size,
         rd' \subseteq Clients, wr' \subseteq Clients, ex' \subseteq Clients,
         list' \in Seq(Clients), UNCHANGED <<pos, wsize, wptr, err>>
  PROVE  PassOK' /\ LoopInv' /\ SendInv' /\ FrameInv'
<1> USE DEF LocalInv, TypeOK
<1>1. PassOK'
  BY DEF PassOK, EndPass, passVars
<1>2. LoopInv'
  BY DEF LoopInv, Passing
<1>3. SendInv' /\ sum' = 0
  BY DEF SendInv, EndPass, passVars, PassOK
<1>4. \A c \in Clients : InFlight(c) = 0 /\ InFlight(c)' = 0
  BY DEF InFlight, PassOK
<1>5. FrameInv'
  BY <1>4 DEF FrameInv, Idle
<1> QED BY <1>1, <1>2, <1>3, <1>5

\* The threads: one step of either keeps ThreadsInv.
LEMMA ThreadsStep == TypeOK /\ ThreadsInv /\ [Next]_vars => ThreadsInv'
<1> SUFFICES ASSUME TypeOK, ThreadsInv, [Next]_vars PROVE ThreadsInv'
  OBVIOUS
<1> USE DEF ThreadsInv, mainVars, ServerPcs
<1>1. ASSUME ServerStep
      PROVE  /\ mpc' = mpc /\ spc \notin {"none", "done"}
             /\ \/ flag' = flag /\ spc' \notin {"none", "done"}
                \/ flag' = FALSE /\ spc' = "done"
  <2> USE DEF StartPass, EndPass, NextClient, DeleteCurrent, Sending, Serving, envVars
  <2>1. CASE StartFails \/ StartListening \/ TopStop \/ TopLoop
    BY <2>1 DEF StartFails, StartListening, TopStop, TopLoop
  <2>2. CASE SelectListener \/ SelectClients \/ SelectTimeout \/ SelectInterrupted
             \/ SelectError \/ PurgeClient \/ PurgeEnd
    BY <2>2 DEF SelectListener, SelectClients, SelectTimeout, SelectInterrupted,
       SelectError, PurgeClient, PurgeEnd
  <2>3. CASE AcceptFails \/ \E c \in Clients : AcceptNoMemory(c) \/ AcceptClient(c)
    BY <2>3 DEF AcceptFails, AcceptNoMemory, AcceptClient
  <2>4. CASE ServeExcept \/ ServeReadFails \/ ServeRead \/ ServeWrite \/ ServeNothing
             \/ ServiceEnd
    BY <2>4 DEF ServeExcept, ServeReadFails, ServeRead, ServeWrite, ServeNothing,
       ServiceEnd
  <2>5. CASE SendSome \/ SendKilled \/ EchoReturn \/ FlushReturn
    BY <2>5 DEF SendSome, SendKilled, EchoReturn, FlushReturn
  <2>6. CASE ClockNotDue \/ ClockDue \/ RoundOff \/ RoundStart
    BY <2>6 DEF ClockNotDue, ClockDue, RoundOff, RoundStart
  <2>7. CASE SendSkips \/ SendReturn \/ SendFails \/ SendEnd \/ ShutClient \/ ShutEnd
    BY <2>7 DEF SendSkips, SendReturn, SendFails, SendEnd, ShutClient, ShutEnd
  <2> QED BY <1>1, <2>1, <2>2, <2>3, <2>4, <2>5, <2>6, <2>7 DEF ServerStep
<1>2. CASE ServerStep
  BY <1>1, <1>2
<1>3. CASE MainStep
  BY <1>3 DEF MainStep, MainSetFlag, MainSpawn, MainEnter, MainPoll, MainJoined,
     MainFree, MainExit, vars
<1>4. ASSUME NEW c \in Clients, Peer(c) PROVE ThreadsInv'
  BY <1>4 DEF Peer
<1>5. CASE Terminated \/ UNCHANGED vars
  BY <1>5 DEF Terminated, vars
<1> QED BY <1>2, <1>3, <1>4, <1>5 DEF Next

-----------------------------------------------------------------------------
(* Layer 1, step by step.  ThreadsInv is kept by ThreadsStep, so each step  *)
(* shows the rest of it.                                                   *)
LocalPart == TypeOK /\ LoopInv /\ SendInv /\ FrameInv

\* Steps outside the passes, and the ends of the passes.
LEMMA LocalControl ==
  ASSUME LocalInv,
         \/ StartFails \/ StartListening \/ TopLoop
         \/ SelectListener \/ SelectTimeout \/ SelectInterrupted \/ PurgeEnd
         \/ AcceptFails \/ ServiceEnd
         \/ ClockNotDue \/ ClockDue \/ RoundOff \/ SendEnd \/ ShutEnd
  PROVE  LocalPart'
<1> USE DEF LocalInv, TypeOK
<1>1. /\ UNCHANGED <<kernelVars, streamVars, clientVars, list>>
      /\ \/ UNCHANGED passVars /\ spc \notin {"echo", "flush", "send"}
         \/ EndPass(spc') /\ i >= size
      /\ spc' \in ServerPcs \ {"purge", "service", "echo", "flush", "send", "shut"}
  BY DEF StartFails, StartListening, TopLoop, SelectListener, SelectTimeout,
     SelectInterrupted, PurgeEnd, AcceptFails, ServiceEnd, ClockNotDue, ClockDue,
     RoundOff, SendEnd, ShutEnd, EndPass, ServerPcs
<1>2. rd' \subseteq Clients /\ wr' \subseteq Clients /\ ex' \subseteq Clients
  BY DEF StartFails, StartListening, TopLoop, SelectListener, SelectTimeout,
     SelectInterrupted, PurgeEnd, AcceptFails, ServiceEnd, ClockNotDue, ClockDue,
     RoundOff, SendEnd, ShutEnd, PassOK, selectVars
<1>3. KernelOK' /\ StreamOK'
  BY <1>1 DEF KernelOK, StreamOK, kernelVars, streamVars, clientVars
<1>4. /\ mpc' = mpc /\ stop' = stop /\ ctx' = ctx /\ proc' = proc /\ leaks' = leaks
      /\ lfd' \in BOOLEAN /\ flag' \in BOOLEAN
  BY DEF StartFails, StartListening, TopLoop, SelectListener, SelectTimeout,
     SelectInterrupted, PurgeEnd, AcceptFails, ServiceEnd, ClockNotDue, ClockDue,
     RoundOff, SendEnd, ShutEnd, MainOK, mainVars, envVars
<1>5. faults' \in 0..MaxFaults
  BY DEF StartFails, StartListening, TopLoop, SelectListener, SelectTimeout,
     SelectInterrupted, PurgeEnd, AcceptFails, ServiceEnd, ClockNotDue, ClockDue,
     RoundOff, SendEnd, ShutEnd, MainOK, envVars
<1>6. MainOK'
  BY <1>4, <1>5, Zenon DEF MainOK
<1>7. PassOK' /\ LoopInv' /\ SendInv' /\ FrameInv'
  BY <1>1, <1>2, LocalQuiet DEF kernelVars, streamVars, clientVars, PassOK
<1> QED BY <1>3, <1>6, <1>7 DEF LocalPart

\* A new connection is accepted, with or without memory for its record.
LEMMA LocalAccept ==
  ASSUME LocalInv, NEW c \in Clients, AcceptNoMemory(c) \/ AcceptClient(c)
  PROVE  LocalPart'
<1> USE DEF LocalInv, TypeOK
<1>1. /\ UNCHANGED <<passVars, selectVars, pos, had, wsize, wptr, err, inq, fin,
                     oob, room, mainVars, proc, lfd>>
      /\ spc = "accept" /\ spc' \in {"top", "clock"}
  BY DEF AcceptNoMemory, AcceptClient, streamVars, clientVars, envVars
<1>2. list' \in Seq(Clients)
  BY AppendSet DEF AcceptNoMemory, AcceptClient, PassOK
<1>3. conn' \in [Clients -> ConnStates]
  BY DEF AcceptNoMemory, AcceptClient, KernelOK, ConnStates
<1>4. KernelOK' /\ StreamOK'
  BY <1>1, <1>3 DEF KernelOK, StreamOK
<1>5. faults' \in 0..MaxFaults /\ leaks' \in Nat
  BY DEF AcceptNoMemory, AcceptClient, MainOK, envVars
<1>6. MainOK'
  BY <1>1, <1>5, Zenon DEF MainOK, mainVars
<1>7. PassOK' /\ LoopInv' /\ SendInv' /\ FrameInv'
  BY <1>1, <1>2, LocalQuiet DEF selectVars, PassOK, ServerPcs
<1> QED BY <1>4, <1>6, <1>7 DEF LocalPart

\* A pass begins.
LEMMA LocalPassStarts ==
  ASSUME LocalInv, TopStop \/ SelectClients \/ SelectError \/ RoundStart
  PROVE  LocalPart'
<1> USE DEF LocalInv, TypeOK
<1>1. PICK pc \in {"purge", "service", "send", "shut"} :
        StartPass(pc) /\ UNCHANGED <<list, pos, clientVars, err>>
  BY DEF TopStop, SelectClients, SelectError, RoundStart, StartPass, streamVars,
     kernelVars
<1>2. rd' \subseteq Clients /\ wr' \subseteq Clients /\ ex' \subseteq Clients
  <2>1. ToSet(list) \subseteq Clients
    BY LenProperties, ElementOfSeq DEF PassOK, ToSet
  <2> QED BY <2>1 DEF TopStop, SelectClients, SelectError, RoundStart, selectVars, PassOK,
            ReadSet, WriteSet, ExceptSet
<1>3. PassOK' /\ LoopInv' /\ SendInv'
  BY <1>1, <1>2, LocalStartPass
<1>4. KernelOK'
  <2>1. CASE TopStop
    BY <2>1 DEF TopStop, KernelOK, ConnStates
  <2>2. CASE SelectClients \/ SelectError \/ RoundStart
    BY <2>2 DEF SelectClients, SelectError, RoundStart, kernelVars, KernelOK
  <2> QED BY <2>1, <2>2
<1>5. had' \subseteq Clients
  BY DEF TopStop, SelectClients, SelectError, RoundStart, streamVars, StreamOK
<1>6. StreamOK'
  BY <1>1, <1>5 DEF StreamOK, clientVars
<1>7. /\ mainVars' = mainVars /\ proc' = proc /\ leaks' = leaks
      /\ lfd' \in BOOLEAN
  BY DEF TopStop, SelectClients, SelectError, RoundStart, envVars, MainOK
<1>8. faults' \in 0..MaxFaults
  BY DEF TopStop, SelectClients, SelectError, RoundStart, envVars, MainOK
<1>9. MainOK'
  BY <1>7, <1>8, Zenon DEF MainOK, mainVars
<1>10. FrameInv'
  <2>1. spc \notin {"send", "flush"} /\ sum' = 0
    BY <1>1 DEF TopStop, SelectClients, SelectError, RoundStart, StartPass
  <2>2. \A c \in Clients : InFlight(c) = 0 /\ InFlight(c)' = 0
    BY <2>1 DEF InFlight
  <2> QED BY <1>1, <2>2 DEF FrameInv, Idle, clientVars
<1> QED BY <1>3, <1>4, <1>6, <1>9, <1>10 DEF LocalPart

\* A client is deleted.
LEMMA LocalDeletes ==
  ASSUME LocalInv,
         PurgeClient \/ ServeExcept \/ ServeReadFails \/ SendFails \/ ShutClient
  PROVE  LocalPart'
<1>1. /\ spc \in {"purge", "service", "send", "shut"} /\ i < size
      /\ DeleteCurrent(spc) /\ UNCHANGED <<selectVars, mainVars, envVars, lfd>>
  BY DEF PurgeClient, ServeExcept, ServeReadFails, SendFails, ShutClient, Serving, Sending
<1> QED BY <1>1, LocalDelete DEF LocalInv, LocalPart

\* A client that needs nothing is passed over.
LEMMA LocalPassedOver ==
  ASSUME LocalInv, ServeNothing \/ SendSkips
  PROVE  LocalPart'
<1> USE DEF LocalInv, TypeOK
<1>1. /\ spc \in {"service", "send"} /\ i < size /\ NextClient(spc)
      /\ UNCHANGED <<kernelVars, streamVars, clientVars, selectVars, mainVars,
                     envVars, lfd, list>>
      /\ spc = "send" => wsize[cur] # 0
  BY DEF ServeNothing, SendSkips, Serving, Idle
<1>2. PassOK' /\ LoopInv' /\ SendInv'
  BY <1>1, LocalNextIndex
<1>3. KernelOK' /\ StreamOK' /\ MainOK'
  BY <1>1 DEF KernelOK, StreamOK, MainOK, kernelVars, streamVars, clientVars, mainVars, envVars
<1>4. cur \in Clients
  BY <1>1, CurrentIsClient DEF Passing
<1>5. \A c \in Clients : InFlight(c) = 0 /\ InFlight(c)' = 0
  BY <1>1, <1>4 DEF InFlight, NextClient, SendInv, StreamOK
<1>6. FrameInv'
  BY <1>1, <1>5 DEF FrameInv, Idle, kernelVars, streamVars, clientVars
<1> QED BY <1>2, <1>3, <1>6 DEF LocalPart

\* A read, and the beginning of a flush.
LEMMA LocalServes ==
  ASSUME LocalInv, ServeRead \/ ServeWrite
  PROVE  LocalPart'
<1> USE DEF LocalInv, TypeOK
<1>1. /\ spc = "service" /\ i < size /\ list' = list
      /\ UNCHANGED <<streamVars, clientVars, selectVars, mainVars, envVars, lfd, err>>
  BY DEF ServeRead, ServeWrite, Serving, kernelVars
<1>2. /\ cur \in Clients /\ i \in 1..Len(list) /\ Len(list) \in Nat
      /\ size = Len(list) + 1
  BY <1>1, CurrentIsClient DEF Passing, LoopInv
<1>3. StreamOK' /\ MainOK'
  BY <1>1 DEF StreamOK, MainOK, streamVars, clientVars, mainVars, envVars
<1>4. /\ RecvResult(cur) \in -1..RecvMax
      /\ RecvResult(cur) >= 0 => RecvResult(cur) <= inq[cur]
  BY <1>2 DEF RecvResult, KernelOK
<1>5. KernelOK'
  <2>1. CASE ServeRead
    <3>1. inq' \in [Clients -> 0..RcvBuf]
      BY <1>2, <1>4, <2>1 DEF ServeRead, KernelOK
    <3> QED BY <2>1, <3>1 DEF ServeRead, KernelOK
  <2>2. CASE ServeWrite
    BY <2>2 DEF ServeWrite, KernelOK, kernelVars
  <2> QED BY <2>1, <2>2
<1>6. PassOK' /\ LoopInv' /\ SendInv' /\ sum' = 0
  <2>1. CASE ServeRead /\ RecvResult(cur) > 0
    <3>1. /\ spc' = "echo" /\ sum' = 0 /\ got' = RecvResult(cur)
          /\ UNCHANGED <<i, size, seen>>
      BY <2>1 DEF ServeRead
    <3>2. got' \in 0..RecvMax
      BY <1>4, <2>1, <3>1
    <3>3. PassOK'
      BY <1>1, <3>1, <3>2 DEF PassOK, selectVars, ServerPcs
    <3>4. LoopInv'
      BY <1>1, <1>2, <3>1 DEF LoopInv, Passing
    <3>5. SendInv'
      BY <3>1, <3>2 DEF SendInv
    <3> QED BY <3>1, <3>3, <3>4, <3>5
  <2>2. CASE ServeRead /\ ~(RecvResult(cur) > 0)
    <3>1. NextClient("service") /\ sum' = 0
      BY <2>2 DEF ServeRead, NextClient
    <3> QED BY <1>1, <3>1, LocalNextIndex
  <2>3. CASE ServeWrite
    <3>1. /\ spc' = "flush" /\ sum' = 0 /\ UNCHANGED <<i, size, got, seen>>
      BY <2>3 DEF ServeWrite
    <3>2. PassOK'
      BY <1>1, <3>1 DEF PassOK, selectVars, ServerPcs
    <3>3. LoopInv'
      BY <1>1, <1>2, <3>1 DEF LoopInv, Passing
    <3>4. cur' = cur /\ wsize' = wsize /\ wsize[cur] \in Nat
      BY <1>1, <1>2, <3>1 DEF cur, clientVars, StreamOK
    <3>5. SendInv'
      BY <3>1, <3>4 DEF SendInv
    <3> QED BY <3>1, <3>2, <3>3, <3>5
  <2> QED BY <2>1, <2>2, <2>3
<1>7. \A c \in Clients : InFlight(c) = 0 /\ InFlight(c)' = 0
  BY <1>1, <1>6 DEF InFlight
<1>8. FrameInv'
  BY <1>1, <1>7 DEF FrameInv, Idle, streamVars, clientVars
<1> QED BY <1>3, <1>5, <1>6, <1>8 DEF LocalPart

\* One send() of tcp_sendn takes some units.
LEMMA LocalSendSome == ASSUME LocalInv, SendSome PROVE LocalPart'
<1> USE DEF LocalInv, TypeOK
<1>1. /\ spc \in {"echo", "flush", "send"} /\ i < size
      /\ spc = "send" => wsize[cur] = 0
      /\ sum < Chunk /\ err[cur] = "ok" /\ room[cur] > 0
  BY DEF SendSome, Sending, LoopInv
<1>2. cur \in Clients
  BY <1>1, CurrentIsClient DEF Passing
<1>3. /\ UNCHANGED <<conn, inq, fin, err, oob, wsize, wptr, selectVars, i, size,
                     got, seen, mainVars, envVars, spc, lfd, list>>
      /\ cur' = cur
  BY DEF SendSome, clientVars, cur
<1>4. Chunk \in Nat
  BY <1>1, <1>2 DEF Chunk, PassOK, StreamOK
<1>5. PICK k \in Nat : /\ 1 <= k /\ k <= Chunk - sum /\ k <= room[cur]
                       /\ sum' = sum + k
                       /\ room' = [room EXCEPT ![cur] = @ - k]
                       /\ IF spc = "echo" THEN UNCHANGED streamVars
                          ELSE /\ pos' = [pos EXCEPT ![cur] = Wrap(@ + k)]
                               /\ had' = IF pos[cur] = 0 THEN had \cup {cur} ELSE had
  <2> DEFINE n == Least(Chunk - sum, room[cur])
  <2>1. room[cur] \in 0..SndBuf /\ sum \in Nat
    BY <1>2 DEF KernelOK, PassOK
  <2>2. n \in Nat /\ 1 <= n /\ n <= Chunk - sum /\ n <= room[cur]
    BY <1>1, <1>4, <2>1 DEF Least
  <2>3. /\ sum' = sum + n
        /\ room' = [room EXCEPT ![cur] = @ - n]
        /\ IF spc = "echo" THEN UNCHANGED streamVars
           ELSE /\ pos' = [pos EXCEPT ![cur] = Wrap(@ + n)]
                /\ had' = IF pos[cur] = 0 THEN had \cup {cur} ELSE had
    BY DEF SendSome
  <2> HIDE DEF n
  <2> QED BY <2>2, <2>3
<1>6. KernelOK'
  BY <1>2, <1>3, <1>5 DEF KernelOK
<1>7. MainOK'
  BY <1>3 DEF MainOK, mainVars, envVars
<1>8. PassOK' /\ LoopInv'
  BY <1>3, <1>5 DEF PassOK, LoopInv, Passing, selectVars
<1>9. Chunk = IF spc = "echo" THEN got ELSE IF spc = "flush" THEN wsize[cur] ELSE FrameSize
  BY <1>1 DEF Chunk
<1>10. sum' \in Nat /\ sum' <= Chunk
  BY <1>4, <1>5 DEF PassOK
<1>11. SendInv'
  <2>1. UNCHANGED <<spc, got, wsize, i, size, err, cur>>
    BY <1>3
  <2>2. wsize'[cur'] = wsize[cur] /\ err'[cur'] = err[cur]
    BY <2>1
  <2>3. spc = "send" => ~(i >= size \/ wsize[cur] > 0)
    BY <1>1 DEF PassOK
  <2> QED BY <1>1, <1>9, <1>10, <2>1, <2>2, <2>3 DEF SendInv
<1>12. CASE spc = "echo"
  <2>1. UNCHANGED streamVars
    BY <1>5, <1>12
  <2>2. StreamOK'
    BY <1>3, <2>1 DEF StreamOK, streamVars
  <2>3. FrameInv'
    BY <1>3, <1>12, <2>1 DEF FrameInv, InFlight, Idle, streamVars
  <2> QED BY <1>6, <1>7, <1>8, <1>11, <2>2, <2>3 DEF LocalPart
<1>13. CASE spc \in {"flush", "send"}
  <2> DEFINE base == IF spc = "flush" THEN wptr[cur] ELSE 0
  <2>1. base \in Nat /\ base + Chunk = FrameSize
    BY <1>1, <1>2, <1>9, <1>13 DEF FrameInv, Idle, StreamOK, PassOK
  <2> HIDE DEF base
  <2>2. base + sum < FrameSize /\ base + sum + k <= FrameSize /\ base + sum \in Nat
    BY <1>1, <1>4, <1>5, <2>1 DEF PassOK
  <2>3. pos[cur] = base + sum
    <3>1. InFlight(cur) = sum
      BY <1>1, <1>13 DEF InFlight
    <3>2. CASE spc = "send"
      <4>1. pos[cur] = Wrap(sum) /\ base = 0
        BY <1>1, <1>2, <3>1, <3>2 DEF FrameInv, Idle, base
      <4> QED BY <2>2, <4>1 DEF Wrap, PassOK
    <3>3. CASE spc = "flush"
      <4>1. wsize[cur] # 0
        BY <1>1, <1>9, <3>3 DEF PassOK
      <4>2. pos[cur] = Wrap(wptr[cur] + sum) /\ base = wptr[cur]
        BY <1>1, <1>2, <3>1, <3>3, <4>1 DEF FrameInv, Idle, base
      <4> QED BY <2>2, <4>2 DEF Wrap
    <3> QED BY <1>13, <3>2, <3>3
  <2>4. /\ pos' = [pos EXCEPT ![cur] = Wrap(base + sum + k)]
        /\ had' \subseteq Clients
    BY <1>2, <1>5, <1>13, <2>3 DEF StreamOK
  <2>5. Wrap(base + sum + k) \in 0..(FrameSize - 1)
    BY <2>2 DEF Wrap
  <2>6. StreamOK'
    BY <1>2, <1>3, <2>4, <2>5 DEF StreamOK
  <2>7. /\ pos'[cur] = Wrap(base + sum')
        /\ \A c \in Clients \ {cur} : pos'[c] = pos[c]
    BY <1>2, <1>5, <2>1, <2>4 DEF StreamOK, PassOK
  <2>8. /\ InFlight(cur)' = sum'
        /\ \A c \in Clients \ {cur} : InFlight(c) = 0 /\ InFlight(c)' = 0
    BY <1>1, <1>2, <1>3, <1>13 DEF InFlight
  <2>9. FrameInv'
    <3>1. ASSUME NEW c \in Clients \ {cur}
          PROVE  /\ Idle(c)' => pos'[c] = Wrap(InFlight(c)')
                 /\ ~Idle(c)' => /\ wptr'[c] + wsize'[c] = FrameSize
                                 /\ err'[c] # "down" => pos'[c] = Wrap(wptr'[c] + InFlight(c)')
      BY <1>3, <2>7, <2>8 DEF FrameInv, Idle
    <3>2. /\ Idle(cur)' => pos'[cur] = Wrap(sum')
          /\ ~Idle(cur)' => /\ wptr'[cur] + wsize'[cur] = FrameSize
                            /\ err'[cur] # "down" => pos'[cur] = Wrap(wptr'[cur] + sum')
      <4>1. CASE spc = "send"
        BY <1>1, <1>3, <1>10, <2>7, <4>1 DEF Idle, base
      <4>2. CASE spc = "flush"
        <5>1. wsize[cur] # 0 /\ wptr[cur] + wsize[cur] = FrameSize
          BY <1>1, <1>2, <1>9, <4>2 DEF FrameInv, Idle, StreamOK, PassOK
        <5> QED BY <1>3, <2>7, <4>2, <5>1 DEF Idle, base
      <4> QED BY <1>13, <4>1, <4>2
    <3> QED BY <1>3, <2>8, <3>1, <3>2 DEF FrameInv, Idle
  <2> QED BY <1>6, <1>7, <1>8, <1>11, <2>6, <2>9 DEF LocalPart
<1> QED BY <1>1, <1>12, <1>13

\* A signal changes nothing but the process.
LEMMA LocalSendKilled == ASSUME LocalInv, SendKilled PROVE LocalPart'
<1> USE DEF LocalInv, TypeOK
<1>1. UNCHANGED <<kernelVars, streamVars, clientVars, selectVars, passVars,
                  mainVars, faults, leaks, spc, lfd, list>> /\ proc' = "killed"
  BY DEF SendKilled
<1>2. KernelOK' /\ StreamOK' /\ PassOK'
  BY <1>1 DEF KernelOK, StreamOK, PassOK, kernelVars, streamVars, clientVars, selectVars,
     passVars
<1>3. MainOK'
  BY <1>1, Zenon DEF MainOK, mainVars
<1>4. LoopInv' /\ SendInv' /\ FrameInv'
  <2>1. UNCHANGED <<spc, i, size, sum, got, list, cur, wsize, wptr, err, pos>>
    BY <1>1 DEF cur, kernelVars, streamVars, clientVars, passVars
  <2>2. LoopInv' /\ SendInv'
    BY <2>1 DEF LoopInv, Passing, SendInv
  <2>3. FrameInv'
    BY <2>1 DEF FrameInv, InFlight, Idle
  <2> QED BY <2>2, <2>3
<1> QED BY <1>2, <1>3, <1>4 DEF LocalPart

\* tcp_sendn returns: the pending frame is what the returned count says.
LEMMA LocalReturns ==
  ASSUME LocalInv, EchoReturn \/ FlushReturn \/ SendReturn
  PROVE  LocalPart'
<1> USE DEF LocalInv, TypeOK
<1>1. /\ spc \in {"echo", "flush", "send"} /\ i < size
      /\ spc = "send" => wsize[cur] = 0
  BY DEF EchoReturn, FlushReturn, SendReturn, SendReturns, Sending, LoopInv
<1>2. cur \in Clients /\ sum \in Nat
  BY <1>1, CurrentIsClient DEF Passing, PassOK
<1>3. /\ UNCHANGED <<conn, inq, fin, oob, room, streamVars, selectVars, mainVars,
                     envVars, lfd, list>>
      /\ NextClient(IF spc = "send" THEN "send" ELSE "service")
  BY DEF EchoReturn, FlushReturn, SendReturn
<1>4. PassOK' /\ LoopInv' /\ SendInv' /\ sum' = 0
  BY <1>1, <1>3, LocalNextIndex DEF NextClient
<1>5. MainOK'
  BY <1>3 DEF MainOK, mainVars, envVars
<1>6. \/ UNCHANGED err
      \/ err' = [err EXCEPT ![cur] = "down"]
  BY DEF EchoReturn, FlushReturn, SendReturn, SendReturns
<1>7. KernelOK'
  <2>1. err' \in [Clients -> ErrStates]
    BY <1>2, <1>6 DEF KernelOK, ErrStates
  <2> QED BY <1>3, <2>1 DEF KernelOK
<1>8. \A c \in Clients : InFlight(c)' = 0
  BY <1>4 DEF InFlight
<1>9. /\ \A c \in Clients \ {cur} : err'[c] = err[c] /\ InFlight(c) = 0
      /\ InFlight(cur) = IF spc = "echo" THEN 0 ELSE sum
  BY <1>1, <1>2, <1>6 DEF KernelOK, InFlight
<1>10. pos' = pos /\ had' = had /\ Wrap(0) = 0 /\ Wrap(FrameSize) = 0
  BY <1>3 DEF streamVars, Wrap
<1>11. SUFFICES StreamOK' /\ FrameInv'
  BY <1>4, <1>5, <1>7 DEF LocalPart
\* nothing of the frame moved: an echo, or a whole frame went out
<1>12. CASE UNCHANGED clientVars /\ (spc = "echo" \/ (spc = "send" /\ sum = FrameSize))
  <2>1. StreamOK'
    BY <1>10, <1>12 DEF StreamOK, clientVars
  <2>2. ASSUME NEW c \in Clients
        PROVE  /\ Idle(c) => pos[c] = 0
               /\ ~Idle(c) => /\ wptr[c] + wsize[c] = FrameSize
                              /\ err'[c] # "down" => pos[c] = Wrap(wptr[c])
    <3>1. err'[c] = err[c] \/ err'[c] = "down"
      BY <1>2, <1>6 DEF KernelOK
    <3>2. InFlight(c) = 0 \/ (c = cur /\ InFlight(c) = FrameSize /\ Idle(c))
      <4>1. CASE c = cur
        BY <1>1, <1>2, <1>9, <1>12, <4>1 DEF Idle
      <4> QED BY <1>9, <4>1
    <3> QED BY <1>10, <3>1, <3>2 DEF FrameInv, StreamOK
  <2>3. UNCHANGED <<pos, wsize, wptr>>
    BY <1>10, <1>12 DEF clientVars
  <2> QED BY <1>8, <1>10, <2>1, <2>2, <2>3 DEF FrameInv, Idle, StreamOK
\* a flush on a connection that turns out dead
<1>13. CASE /\ UNCHANGED clientVars /\ spc = "flush" /\ sum < Chunk
            /\ err' = [err EXCEPT ![cur] = "down"]
  <2>1. StreamOK'
    BY <1>10, <1>13 DEF StreamOK, clientVars
  <2>2. ~Idle(cur) /\ err'[cur] = "down"
    BY <1>2, <1>13 DEF Idle, Chunk, KernelOK
  <2>3. UNCHANGED <<pos, wsize, wptr>>
    BY <1>10, <1>13 DEF clientVars
  <2> QED BY <1>8, <1>9, <1>10, <2>1, <2>2, <2>3 DEF FrameInv, Idle, StreamOK
\* the rest of the frame, or of the pending part of it, stays pending
<1>14. CASE /\ err' = err
            /\ \/ /\ spc = "flush" /\ sum <= wsize[cur]
                  /\ wsize' = [wsize EXCEPT ![cur] = @ - sum]
                  /\ wptr' = [wptr EXCEPT ![cur] = @ + sum]
               \/ /\ spc = "send" /\ sum < FrameSize
                  /\ wsize' = [wsize EXCEPT ![cur] = FrameSize - sum]
                  /\ wptr' = [wptr EXCEPT ![cur] = sum]
  <2>1. /\ wsize[cur] \in 0..FrameSize /\ wptr[cur] \in 0..FrameSize
        /\ wsize[cur] # 0 => wptr[cur] + wsize[cur] = FrameSize
    BY <1>2 DEF StreamOK, FrameInv, Idle
  <2>2. PICK w \in 0..FrameSize, p \in 0..FrameSize :
          /\ wsize' = [wsize EXCEPT ![cur] = w] /\ wptr' = [wptr EXCEPT ![cur] = p]
          /\ w + p = FrameSize \/ (w = 0 /\ sum = 0 /\ spc = "flush")
          /\ p = sum + (IF spc = "flush" THEN wptr[cur] ELSE 0)
    <3>1. CASE spc = "flush" /\ wsize[cur] # 0
      <4>1. wsize[cur] - sum \in 0..FrameSize /\ wptr[cur] + sum \in 0..FrameSize
        BY <1>2, <1>14, <2>1, <3>1
      <4>2. (wsize[cur] - sum) + (wptr[cur] + sum) = FrameSize
            /\ wptr[cur] + sum = sum + wptr[cur]
        BY <1>2, <2>1, <3>1
      <4> QED BY <1>14, <3>1, <4>1, <4>2
    <3>2. CASE spc = "flush" /\ wsize[cur] = 0
      BY <1>2, <1>14, <2>1, <3>2
    <3>3. CASE spc = "send"
      <4>1. FrameSize - sum \in 0..FrameSize /\ sum \in 0..FrameSize
            /\ (FrameSize - sum) + sum = FrameSize /\ sum = sum + 0
        BY <1>2, <1>14, <3>3
      <4> QED BY <1>14, <3>3, <4>1
    <3> QED BY <1>14, <3>1, <3>2, <3>3
  <2>3. StreamOK'
    BY <1>2, <1>10, <2>2 DEF StreamOK
  <2>4. ASSUME NEW c \in Clients \ {cur}
        PROVE  UNCHANGED <<wsize[c], wptr[c], pos[c], err[c]>> /\ InFlight(c) = 0
    BY <1>9, <1>10, <1>14, <2>2 DEF StreamOK
  <2>5. /\ wsize'[cur] = w /\ wptr'[cur] = p
        /\ InFlight(cur) = sum
    BY <1>2, <1>9, <1>14, <2>2 DEF StreamOK
  <2>6. /\ w = 0 => pos[cur] = 0
        /\ w # 0 => w + p = FrameSize /\ (err[cur] # "down" => pos[cur] = Wrap(p))
    <3>1. CASE spc = "send"
      BY <1>1, <1>2, <1>14, <2>2, <2>5, <3>1 DEF FrameInv, Idle
    <3>2. CASE spc = "flush" /\ wsize[cur] # 0
      <4>1. err[cur] # "down" => pos[cur] = Wrap(p)
        <5>1. p = wptr[cur] + InFlight(cur)
          BY <1>2, <2>1, <2>2, <2>5, <3>2
        <5> QED BY <1>2, <3>2, <5>1 DEF FrameInv, Idle
      <4>2. w = 0 => sum > 0 /\ p = FrameSize /\ err[cur] # "down"
        BY <1>1, <1>2, <1>14, <2>1, <2>2, <2>5, <3>2 DEF SendInv, StreamOK
      <4> QED BY <1>10, <2>2, <3>2, <4>1, <4>2
    <3>3. CASE spc = "flush" /\ wsize[cur] = 0
      <4>1. sum = 0 /\ w = 0
        BY <1>2, <1>14, <2>2, <2>5, <3>3 DEF StreamOK
      <4> QED BY <1>2, <1>10, <2>5, <3>3, <4>1 DEF FrameInv, Idle
    <3> QED BY <1>14, <3>1, <3>2, <3>3
  <2> QED BY <1>8, <1>10, <1>14, <2>2, <2>3, <2>4, <2>5, <2>6 DEF FrameInv, Idle, StreamOK
<1>15. CASE EchoReturn
  <2>1. UNCHANGED clientVars /\ spc = "echo"
    BY <1>15 DEF EchoReturn
  <2> QED BY <1>12, <2>1
<1>16. CASE FlushReturn
  <2>1. PICK r \in -1..FrameSize :
          /\ SendReturns(r)
          /\ IF r < 0 THEN UNCHANGED clientVars
             ELSE /\ wsize' = [wsize EXCEPT ![cur] = @ - r]
                  /\ wptr' = [wptr EXCEPT ![cur] = @ + r]
    BY <1>16 DEF FlushReturn
  <2>2. spc = "flush" /\ Chunk = wsize[cur]
    BY <1>16 DEF FlushReturn, Chunk
  <2>3. CASE r < 0
    BY <1>2, <1>13, <2>1, <2>2, <2>3 DEF SendReturns
  <2>4. CASE r >= 0
    <3>1. r = sum /\ err' = err /\ sum <= wsize[cur]
      BY <2>1, <2>2, <2>4 DEF SendReturns, SendInv
    <3> QED BY <1>14, <2>1, <2>2, <2>4, <3>1
  <2> QED BY <2>3, <2>4
<1>17. CASE SendReturn
  <2>1. PICK r \in 0..FrameSize :
          /\ SendReturns(r)
          /\ IF r < FrameSize
             THEN /\ wsize' = [wsize EXCEPT ![cur] = FrameSize - r]
                  /\ wptr' = [wptr EXCEPT ![cur] = r]
             ELSE UNCHANGED clientVars
    BY <1>17 DEF SendReturn
  <2>2. spc = "send" /\ r = sum /\ err' = err
    BY <1>17, <2>1 DEF SendReturn, SendReturns
  <2>3. CASE r < FrameSize
    BY <1>14, <2>1, <2>2, <2>3
  <2>4. CASE r = FrameSize
    BY <1>12, <2>1, <2>2, <2>4
  <2> QED BY <2>3, <2>4
<1> QED BY <1>15, <1>16, <1>17

\* What a peer does changes the kernel's side of its connection only, and
\* never makes a connection one that tcp_sendn found dead.
LEMMA LocalPeer == ASSUME LocalInv, NEW c \in Clients, Peer(c) PROVE LocalPart'
<1> USE DEF LocalInv, TypeOK
<1>1. /\ UNCHANGED <<streamVars, clientVars, selectVars, passVars, mainVars,
                     envVars, spc, lfd, list>>
  BY DEF Peer
<1>2. /\ \A d \in Clients : err'[d] = "down" <=> err[d] = "down"
      /\ err' \in [Clients -> ErrStates]
  BY DEF Peer, PeerConnect, PeerSend, PeerRead, PeerFin, PeerReset, PeerUrgent, KernelOK,
     ErrStates
<1>3. KernelOK'
  <2> USE DEF Peer, KernelOK, ConnStates
  <2>1. CASE PeerConnect(c)
    BY <2>1 DEF PeerConnect
  <2>2. CASE PeerSend(c)
    BY <2>2 DEF PeerSend
  <2>3. CASE PeerRead(c)
    BY <2>3 DEF PeerRead
  <2>4. CASE PeerFin(c)
    BY <2>4 DEF PeerFin
  <2>5. CASE PeerReset(c)
    BY <1>2, <2>5 DEF PeerReset
  <2>6. CASE PeerUrgent(c)
    BY <2>6 DEF PeerUrgent
  <2> QED BY <2>1, <2>2, <2>3, <2>4, <2>5, <2>6
<1>4. UNCHANGED <<spc, i, size, sum, got, seen, list, cur, wsize, wptr, pos, had, rd, wr, ex>>
  BY <1>1 DEF cur, streamVars, clientVars, passVars, selectVars
<1>5. StreamOK' /\ PassOK' /\ LoopInv'
  BY <1>4 DEF StreamOK, PassOK, LoopInv, Passing
<1>6. MainOK'
  BY <1>1 DEF MainOK, mainVars, envVars
<1>7. spc \in {"echo", "flush", "send"} /\ i < size => cur \in Clients
  BY CurrentIsClient DEF Passing
<1>8. SendInv'
  BY <1>2, <1>4, <1>7 DEF SendInv
<1>9. FrameInv'
  BY <1>2, <1>4 DEF FrameInv, InFlight, Idle
<1> QED BY <1>3, <1>5, <1>6, <1>8, <1>9 DEF LocalPart

\* What main does touches the list only when the thread is done.
LEMMA LocalMain == ASSUME LocalInv, MainStep PROVE LocalPart'
<1> USE DEF LocalInv, TypeOK
<1>1. UNCHANGED <<kernelVars, streamVars, clientVars, selectVars, passVars, lfd>>
  BY DEF MainStep, MainSetFlag, MainSpawn, MainEnter, MainPoll, MainJoined, MainFree,
     MainExit, serverVars, vars
<1>2. \/ UNCHANGED <<spc, list>>
      \/ spc \in {"none", "done"} /\ spc' \in {"start", "none", "done"} /\ list' \in {list, <<>>}
  BY DEF MainStep, MainSetFlag, MainSpawn, MainEnter, MainPoll, MainJoined, MainFree,
     MainExit, serverVars, vars, ThreadsInv
<1>3. KernelOK' /\ StreamOK'
  BY <1>1 DEF KernelOK, StreamOK, kernelVars, streamVars, clientVars
<1>4. MainOK'
  <2>1. mpc' \in MainPcs /\ flag' \in BOOLEAN /\ stop' \in BOOLEAN /\ ctx' \in BOOLEAN
        /\ proc' \in {"running", "killed", "exited"} /\ leaks' = leaks /\ faults' = faults
    BY Zenon DEF MainStep, MainSetFlag, MainSpawn, MainEnter, MainPoll, MainJoined,
       MainFree, MainExit, MainOK, MainPcs, mainVars, envVars, vars
  <2> QED BY <1>1, <2>1, Zenon DEF MainOK
<1>5. CASE UNCHANGED <<spc, list>>
  <2>1. UNCHANGED <<spc, i, size, sum, got, seen, list, cur, wsize, wptr, err, pos, rd, wr, ex>>
    BY <1>1, <1>5 DEF cur, kernelVars, streamVars, clientVars, passVars, selectVars
  <2>2. PassOK' /\ LoopInv' /\ SendInv'
    BY <2>1 DEF PassOK, LoopInv, Passing, SendInv
  <2>3. FrameInv'
    BY <2>1 DEF FrameInv, InFlight, Idle
  <2> QED BY <1>3, <1>4, <2>2, <2>3 DEF LocalPart
<1>6. CASE spc \in {"none", "done"} /\ spc' \in {"start", "none", "done"}
           /\ list' \in {list, <<>>}
  <2>1. spc' \in ServerPcs /\ list' \in Seq(Clients)
    BY <1>6, EmptySeq DEF ServerPcs, PassOK
  <2>2. PassOK' /\ LoopInv' /\ SendInv' /\ FrameInv'
    BY <1>1, <1>6, <2>1, LocalQuiet DEF kernelVars, streamVars, clientVars, selectVars, PassOK
  <2> QED BY <1>3, <1>4, <2>2 DEF LocalPart
<1> QED BY <1>2, <1>5, <1>6

LEMMA LocalStutter == ASSUME LocalInv, UNCHANGED vars PROVE LocalPart'
<1> USE DEF LocalInv, TypeOK
<1>1. UNCHANGED <<spc, i, size, sum, got, seen, list, cur, wsize, wptr, err, pos, rd, wr, ex>>
  BY DEF vars, cur, kernelVars, streamVars, clientVars, passVars, selectVars
<1>2. KernelOK' /\ StreamOK'
  BY DEF vars, kernelVars, streamVars, clientVars, KernelOK, StreamOK
<1>3. PassOK' /\ LoopInv' /\ SendInv'
  BY <1>1 DEF PassOK, LoopInv, Passing, SendInv
<1>4. MainOK'
  BY DEF vars, mainVars, envVars, MainOK
<1>5. FrameInv'
  BY <1>1 DEF FrameInv, InFlight, Idle
<1> QED BY <1>2, <1>3, <1>4, <1>5 DEF LocalPart

LEMMA LocalStep == LocalInv /\ [Next]_vars => LocalInv'
<1> SUFFICES ASSUME LocalInv, [Next]_vars PROVE LocalInv'
  OBVIOUS
<1>1. ThreadsInv'
  BY ThreadsStep DEF LocalInv
<1>2. CASE ServerStep
  <2>0. SUFFICES LocalPart'
    BY <1>1 DEF LocalPart, LocalInv
  <2>1. CASE StartFails \/ StartListening \/ TopLoop \/ SelectListener
             \/ SelectTimeout \/ SelectInterrupted \/ PurgeEnd \/ AcceptFails
             \/ ServiceEnd \/ ClockNotDue \/ ClockDue \/ RoundOff \/ SendEnd
             \/ ShutEnd
    BY <2>1, LocalControl
  <2>2. CASE \E c \in Clients : AcceptNoMemory(c) \/ AcceptClient(c)
    BY <2>2, LocalAccept
  <2>3. CASE TopStop \/ SelectClients \/ SelectError \/ RoundStart
    BY <2>3, LocalPassStarts
  <2>4. CASE PurgeClient \/ ServeExcept \/ ServeReadFails \/ SendFails \/ ShutClient
    BY <2>4, LocalDeletes
  <2>5. CASE ServeNothing \/ SendSkips
    BY <2>5, LocalPassedOver
  <2>6. CASE ServeRead \/ ServeWrite
    BY <2>6, LocalServes
  <2>7. CASE SendSome
    BY <2>7, LocalSendSome
  <2>8. CASE SendKilled
    BY <2>8, LocalSendKilled
  <2>9. CASE EchoReturn \/ FlushReturn \/ SendReturn
    BY <2>9, LocalReturns
  <2> QED BY <1>2, <2>1, <2>2, <2>3, <2>4, <2>5, <2>6, <2>7, <2>8, <2>9 DEF ServerStep
<1>3. CASE MainStep
  BY <1>1, <1>3, LocalMain DEF LocalPart, LocalInv
<1>4. ASSUME NEW c \in Clients, Peer(c) PROVE LocalInv'
  BY <1>1, <1>4, LocalPeer DEF LocalPart, LocalInv
<1>5. CASE Terminated \/ UNCHANGED vars
  BY <1>1, <1>5, LocalStutter DEF LocalPart, LocalInv, Terminated
<1> QED BY <1>2, <1>3, <1>4, <1>5 DEF Next

LEMMA LocalAlways == Spec => []LocalInv
  BY LocalInit, LocalStep, PTL DEF Spec

\* Every variable always holds a value of its kind: the offsets and counts of
\* pending bytes stay inside a frame, the receive counts inside the buffers,
\* the loop variables inside the list.
THEOREM TypeCorrect == Spec => []TypeOK
<1>1. LocalInv => TypeOK
  BY DEF LocalInv
<1> QED BY <1>1, LocalAlways, PTL

\* need_write_ptr and need_write_size describe exactly the unfinished rest of
\* each client's frame (server.c:644-657, 756-779), for any frame and buffer
\* sizes and however many pieces the kernel takes a frame in.
THEOREM FramesTracked == Spec => []FrameInv
<1>1. LocalInv => FrameInv
  BY DEF LocalInv
<1> QED BY <1>1, LocalAlways, PTL

-----------------------------------------------------------------------------
(***************************************************************************)
(* Layer 2: the client list and the passes over it, and what follows.      *)
(***************************************************************************)
\* The server's steps by what they do to the list and the pass over it.

Control ==
  \/ StartFails \/ StartListening \/ TopLoop
  \/ SelectListener \/ SelectTimeout \/ SelectInterrupted \/ PurgeEnd
  \/ AcceptFails \/ ServiceEnd
  \/ ClockNotDue \/ ClockDue \/ RoundOff \/ SendEnd \/ ShutEnd

Starts  == TopStop \/ SelectClients \/ SelectError \/ RoundStart
Accepts == \E c \in Clients : AcceptNoMemory(c) \/ AcceptClient(c)
Deletes == PurgeClient \/ ServeExcept \/ ServeReadFails \/ SendFails \/ ShutClient

Takes == ServeRead /\ RecvResult(cur) > 0
Nexts == \/ ServeNothing \/ SendSkips
         \/ EchoReturn \/ FlushReturn \/ SendReturn
         \/ ServeRead /\ ~(RecvResult(cur) > 0)
Inside == Takes \/ ServeWrite \/ SendSome \/ SendKilled

LEMMA ServerSteps ==
  ServerStep => Control \/ Starts \/ Accepts \/ Deletes \/ Nexts \/ Inside
BY DEF ServerStep, Control, Starts, Accepts, Deletes, Takes, Nexts, Inside

LEMMA ControlShape ==
  ASSUME LocalInv, Control
  PROVE  /\ UNCHANGED <<kernelVars, streamVars, clientVars, list, leaks>>
         /\ \/ UNCHANGED passVars /\ spc \notin {"purge", "service", "echo", "flush", "send", "shut"}
            \/ EndPass(spc') /\ i >= size /\ spc \in {"purge", "service", "send", "shut"}
         /\ spc' \notin {"purge", "service", "echo", "flush", "send", "shut"}
         /\ \/ UNCHANGED selectVars /\ spc # "service"
            \/ rd' = {} /\ wr' = {} /\ ex' = {}
<1> USE DEF EndPass
<1>1. CASE StartFails \/ StartListening \/ TopLoop \/ AcceptFails
  BY <1>1 DEF StartFails, StartListening, TopLoop, AcceptFails, envVars
<1>2. CASE SelectListener \/ SelectTimeout \/ SelectInterrupted
  BY <1>2 DEF SelectListener, SelectTimeout, SelectInterrupted, envVars
<1>3. CASE PurgeEnd \/ ServiceEnd \/ SendEnd \/ ShutEnd
  BY <1>3 DEF PurgeEnd, ServiceEnd, SendEnd, ShutEnd, envVars
<1>4. CASE ClockNotDue \/ ClockDue \/ RoundOff
  BY <1>4 DEF ClockNotDue, ClockDue, RoundOff, envVars
<1> QED BY <1>1, <1>2, <1>3, <1>4 DEF Control

LEMMA StartShape ==
  ASSUME Starts
  PROVE  /\ \E pc \in {"purge", "service", "send", "shut"} : StartPass(pc)
         /\ spc \notin {"purge", "service", "echo", "flush", "send", "shut"}
         /\ UNCHANGED <<list, clientVars, inq, fin, err, oob, room, pos, leaks>>
BY DEF Starts, TopStop, SelectClients, SelectError, RoundStart, StartPass, kernelVars,
   streamVars, envVars

LEMMA DeleteShape ==
  ASSUME Deletes
  PROVE  /\ spc \in {"purge", "service", "send", "shut"} /\ i < size
         /\ DeleteCurrent(spc) /\ UNCHANGED <<selectVars, mainVars, envVars, lfd>>
BY DEF Deletes, PurgeClient, ServeExcept, ServeReadFails, SendFails, ShutClient, Serving,
   Sending

LEMMA NextShape ==
  ASSUME LocalInv, Nexts
  PROVE  /\ spc \in {"service", "echo", "flush", "send"} /\ i < size
         /\ NextClient(IF spc = "send" THEN "send" ELSE "service")
         /\ UNCHANGED <<conn, fin, oob, room, pos, had, selectVars, mainVars, envVars,
                        lfd, list>>
<1> USE DEF Serving, Sending, SendReturns, streamVars, kernelVars
<1>1. CASE ServeNothing \/ SendSkips
  BY <1>1 DEF ServeNothing, SendSkips
<1>2. CASE EchoReturn \/ FlushReturn \/ SendReturn
  BY <1>2 DEF EchoReturn, FlushReturn, SendReturn, LocalInv, LoopInv
<1>3. CASE ServeRead /\ ~(RecvResult(cur) > 0)
  BY <1>3 DEF ServeRead
<1> QED BY <1>1, <1>2, <1>3 DEF Nexts

LEMMA InsideShape ==
  ASSUME LocalInv, Inside
  PROVE  /\ spc \in {"service", "echo", "flush", "send"} /\ i < size
         /\ spc' \in {"echo", "flush", "send"} /\ (spc' = "send" <=> spc = "send")
         /\ UNCHANGED <<conn, fin, oob, wsize, wptr, selectVars, i, size, seen,
                        mainVars, faults, leaks, lfd, list>>
<1> USE DEF Serving, Sending, streamVars, kernelVars, clientVars, passVars, envVars
<1>1. CASE Takes \/ ServeWrite
  BY <1>1 DEF Takes, ServeRead, ServeWrite
<1>2. CASE SendSome \/ SendKilled
  BY <1>2 DEF SendSome, SendKilled, LocalInv, LoopInv
<1> QED BY <1>1, <1>2 DEF Inside

-----------------------------------------------------------------------------
(* The list and the sockets.                                               *)

\* Nothing about the list or the sockets of the server's side changed.
LEMMA ListKept ==
  ASSUME ListMatchesSockets, UNCHANGED <<list, leaks>>,
         lfd' = lfd \/ lfd' = FALSE, lfd \in BOOLEAN, list \in Seq(Clients), leaks \in Nat,
         \A c \in Clients : /\ conn'[c] = "open" <=> conn[c] = "open"
                            /\ conn'[c] = "leaked" <=> conn[c] = "leaked"
  PROVE  ListMatchesSockets'
<1>1. Len(list) \in Nat
  BY LenProperties
<1>2. Fds' <= MaxFds
  <2>1. Fds' \in Nat /\ Fds \in Nat /\ Fds' <= Fds
    BY <1>1 DEF Fds
  <2> QED BY <2>1 DEF ListMatchesSockets
<1>3. /\ {c \in Clients : conn'[c] = "open"} = {c \in Clients : conn[c] = "open"}
      /\ {c \in Clients : conn'[c] = "leaked"} = {c \in Clients : conn[c] = "leaked"}
  OBVIOUS
<1> QED BY <1>2, <1>3 DEF ListMatchesSockets

\* The record goes with the socket.
LEMMA ListDelete ==
  ASSUME LocalInv, ListMatchesSockets, Deletes
  PROVE  ListMatchesSockets' /\ ToSet(list') = ToSet(list) \ {cur}
<1> USE DEF LocalInv, TypeOK
<1>1. /\ spc \in {"purge", "service", "send", "shut"} /\ i < size
      /\ DeleteCurrent(spc) /\ lfd' = lfd /\ leaks' = leaks
  BY DeleteShape DEF envVars
<1>2. i \in 1..Len(list) /\ Len(list) \in Nat /\ cur \in Clients /\ cur \in ToSet(list)
  BY <1>1, CurrentIsClient DEF Passing
<1>3. /\ list' = RemoveAt(list, i) /\ conn' = [conn EXCEPT ![cur] = "none"]
  BY <1>1 DEF DeleteCurrent, Forget
<1>4. /\ ToSet(list') = ToSet(list) \ {cur}
      /\ \A a, b \in 1..Len(list') : list'[a] = list'[b] => a = b
  <2>1. /\ list \in Seq(Clients) /\ cur = list[i]
        /\ \A a, b \in 1..Len(list) : list[a] = list[b] => a = b
    BY DEF ListMatchesSockets, PassOK, cur
  <2> QED BY <1>2, <1>3, <2>1, RemoveAtSet
<1>5. Len(list') = Len(list) - 1
  BY <1>2, <1>3, RemoveAtEntries DEF PassOK
<1>6. Fds' <= MaxFds
  <2>1. Fds \in Int /\ Fds' = Fds - 1
    BY <1>1, <1>2, <1>5 DEF Fds, MainOK
  <2> QED BY <2>1 DEF ListMatchesSockets
<1>7. conn[cur] = "open"
  BY <1>2 DEF ListMatchesSockets
<1>8. /\ {c \in Clients : conn'[c] = "open"} = {c \in Clients : conn[c] = "open"} \ {cur}
      /\ {c \in Clients : conn'[c] = "leaked"} = {c \in Clients : conn[c] = "leaked"}
  BY <1>3, <1>7 DEF KernelOK
<1> QED BY <1>1, <1>4, <1>6, <1>8 DEF ListMatchesSockets

LEMMA ListAccept ==
  ASSUME LocalInv, ListMatchesSockets, Accepts
  PROVE  ListMatchesSockets'
<1> USE DEF LocalInv, TypeOK
<1>1. PICK c \in Clients : AcceptNoMemory(c) \/ AcceptClient(c)
  BY DEF Accepts
<1>2. /\ conn[c] = "queued" /\ Fds < MaxFds /\ lfd' = lfd
  BY <1>1 DEF AcceptNoMemory, AcceptClient
<1>3. Len(list) \in Nat /\ Fds \in Nat
  BY LenProperties DEF PassOK, MainOK, Fds
<1>4. CASE AcceptClient(c)
  <2>1. list' = Append(list, c) /\ conn' = [conn EXCEPT ![c] = "open"] /\ leaks' = leaks
    BY <1>4 DEF AcceptClient, envVars
  <2>2. c \notin ToSet(list)
    BY <1>2 DEF ListMatchesSockets
  <2>3. /\ ToSet(list') = ToSet(list) \cup {c} /\ Len(list') = Len(list) + 1
        /\ \A a, b \in 1..Len(list') : list'[a] = list'[b] => a = b
    BY <2>1, <2>2, AppendSet DEF ListMatchesSockets, PassOK
  <2>4. Fds' <= MaxFds
    <3>1. Fds' = Fds + 1
      BY <1>2, <1>3, <2>1, <2>3 DEF Fds, MainOK
    <3> QED BY <1>2, <1>3, <3>1
  <2>5. /\ {d \in Clients : conn'[d] = "open"} = {d \in Clients : conn[d] = "open"} \cup {c}
        /\ {d \in Clients : conn'[d] = "leaked"} = {d \in Clients : conn[d] = "leaked"}
    BY <1>2, <2>1 DEF KernelOK
  <2> QED BY <2>1, <2>3, <2>4, <2>5 DEF ListMatchesSockets
<1>5. CASE AcceptNoMemory(c)
  <2>1. list' = list /\ conn' = [conn EXCEPT ![c] = "leaked"] /\ leaks' = leaks + 1
    BY <1>5 DEF AcceptNoMemory
  <2> DEFINE lost == {d \in Clients : conn[d] = "leaked"}
  <2>2. IsFiniteSet(lost) /\ c \notin lost
    BY <1>2, FS_Subset
  <2>3. Cardinality(lost \cup {c}) = Cardinality(lost) + 1
    BY <2>2, FS_AddElement
  <2>4. /\ {d \in Clients : conn'[d] = "open"} = {d \in Clients : conn[d] = "open"}
        /\ {d \in Clients : conn'[d] = "leaked"} = lost \cup {c}
    BY <1>2, <2>1 DEF KernelOK
  <2>5. Fds' <= MaxFds
    <3>1. Fds' = Fds + 1
      <4> DEFINE base == IF lfd THEN 1 ELSE 0
      <4>1. Len(list') = Len(list) /\ leaks \in Nat /\ base' = base /\ base \in 0..1
        BY <1>2, <2>1 DEF MainOK
      <4>2. Fds = base + Len(list) + leaks /\ Fds' = base' + Len(list') + leaks'
        BY DEF Fds
      <4> HIDE DEF base
      <4> QED BY <1>3, <2>1, <4>1, <4>2
    <3> QED BY <1>2, <1>3, <3>1
  <2> QED BY <2>1, <2>3, <2>4, <2>5 DEF ListMatchesSockets
<1> QED BY <1>1, <1>4, <1>5

LEMMA ListStep ==
  LocalInv /\ ListMatchesSockets /\ LifeInv /\ [Next]_vars => ListMatchesSockets'
<1> SUFFICES ASSUME LocalInv, ListMatchesSockets, LifeInv, [Next]_vars
             PROVE  ListMatchesSockets'
  OBVIOUS
<1>1. lfd \in BOOLEAN /\ list \in Seq(Clients) /\ leaks \in Nat
  BY DEF LocalInv, TypeOK, MainOK, PassOK
<1>2. CASE StartListening
  <2>1. UNCHANGED <<list, conn, leaks>> /\ spc = "start" /\ lfd' = TRUE
    BY <1>2 DEF StartListening, kernelVars, envVars
  <2>2. list = <<>> /\ leaks = 0
    BY <2>1 DEF LifeInv
  <2>3. Fds' <= MaxFds
    BY <2>1, <2>2 DEF Fds
  <2> QED BY <2>1, <2>3 DEF ListMatchesSockets
<1>3. CASE Control /\ ~StartListening
  <2>1. UNCHANGED <<list, conn, leaks>>
    BY <1>3, ControlShape DEF kernelVars
  <2>2. lfd' = lfd
    BY <1>3 DEF Control, StartFails, TopLoop, SelectListener, SelectTimeout,
       SelectInterrupted, PurgeEnd, AcceptFails, ServiceEnd, ClockNotDue, ClockDue,
       RoundOff, SendEnd, ShutEnd
  <2> QED BY <1>1, <2>1, <2>2, ListKept
<1>4. CASE Starts
  <2>1. UNCHANGED <<list, leaks>> /\ lfd' \in {lfd, FALSE}
    BY <1>4, StartShape DEF Starts, TopStop, SelectClients, SelectError, RoundStart
  <2>2. \A c \in Clients : /\ conn'[c] = "open" <=> conn[c] = "open"
                           /\ conn'[c] = "leaked" <=> conn[c] = "leaked"
    BY <1>4 DEF Starts, TopStop, SelectClients, SelectError, RoundStart, kernelVars
  <2> QED BY <1>1, <2>1, <2>2, ListKept
<1>5. CASE Nexts \/ Inside
  <2>1. UNCHANGED <<list, conn, leaks, lfd>>
    BY <1>5, NextShape, InsideShape DEF envVars
  <2> QED BY <1>1, <2>1, ListKept
<1>6. CASE MainStep
  <2>1. UNCHANGED <<conn, leaks, lfd>> /\ (list' = list \/ MainFree)
    BY <1>6 DEF MainStep, MainSetFlag, MainSpawn, MainEnter, MainPoll, MainJoined,
       MainFree, MainExit, serverVars, kernelVars, envVars, vars
  <2>2. list' = list
    <3>1. CASE MainFree
      <4>1. spc = "done" /\ list' = <<>>
        BY <3>1 DEF MainFree, LocalInv, ThreadsInv
      <4> QED BY <4>1 DEF LifeInv
    <3> QED BY <2>1, <3>1
  <2> QED BY <1>1, <2>1, <2>2, ListKept
<1>7. ASSUME NEW c \in Clients, Peer(c) PROVE ListMatchesSockets'
  <2>1. UNCHANGED <<list, leaks, lfd>>
    BY <1>7 DEF Peer, envVars
  <2>2. \A d \in Clients : /\ conn'[d] = "open" <=> conn[d] = "open"
                           /\ conn'[d] = "leaked" <=> conn[d] = "leaked"
    BY <1>7 DEF Peer, PeerConnect, PeerSend, PeerRead, PeerFin, PeerReset, PeerUrgent,
       LocalInv, TypeOK, KernelOK
  <2> QED BY <1>1, <2>1, <2>2, ListKept
<1>8. CASE Terminated \/ UNCHANGED vars
  <2>1. UNCHANGED <<list, conn, leaks, lfd>>
    BY <1>8 DEF Terminated, vars, kernelVars, envVars
  <2> QED BY <1>1, <2>1, ListKept
<1> QED BY <1>2, <1>3, <1>4, <1>5, <1>6, <1>7, <1>8, ListDelete, ListAccept, ServerSteps
        DEF Next

-----------------------------------------------------------------------------
(* What the thread holds before and after its loop.                        *)

\* An empty list, from its pass: nothing is left once i has reached size = 1.
LEMMA NothingLeft ==
  ASSUME LocalInv, spc = "shut", i >= size
  PROVE  list = <<>>
<1>1. Len(list) = 0 /\ list \in Seq(Clients)
  BY LenProperties DEF LocalInv, TypeOK, PassOK, LoopInv, Passing
<1> QED BY <1>1, EmptySeq

LEMMA LifeStep == LocalInv /\ LifeInv /\ [Next]_vars => LifeInv'
<1> SUFFICES ASSUME LocalInv, LifeInv, [Next]_vars PROVE LifeInv'
  OBVIOUS
<1>1. CASE ShutEnd
  <2>1. spc = "shut" /\ i >= size /\ spc' = "done" /\ UNCHANGED <<lfd, list>>
    BY <1>1 DEF ShutEnd, EndPass
  <2> QED BY <2>1, NothingLeft DEF LifeInv
<1>2. CASE TopStop
  BY <1>2 DEF TopStop, StartPass, LifeInv
<1>3. CASE StartFails \/ StartListening
  BY <1>3 DEF StartFails, StartListening, LifeInv
<1>4. CASE ServerStep /\ ~(ShutEnd \/ TopStop \/ StartFails \/ StartListening)
  <2>1. CASE Control
    <3>1. spc' \in {"top", "select", "accept", "round", "clock"}
      BY <1>4, <2>1 DEF Control, TopLoop, SelectListener, SelectTimeout,
         SelectInterrupted, PurgeEnd, AcceptFails, ServiceEnd, ClockNotDue, ClockDue,
         RoundOff, SendEnd, EndPass
    <3> QED BY <3>1 DEF LifeInv
  <2>2. CASE Starts
    BY <1>4, <2>2 DEF Starts, SelectClients, SelectError, RoundStart, StartPass, LifeInv
  <2>3. CASE Accepts
    BY <2>3 DEF Accepts, AcceptNoMemory, AcceptClient, LifeInv
  <2>4. CASE Deletes
    BY <2>4, DeleteShape DEF DeleteCurrent, LifeInv
  <2>5. CASE Nexts
    BY <2>5, NextShape DEF NextClient, LifeInv
  <2>6. CASE Inside
    BY <2>6, InsideShape DEF LifeInv
  <2> QED BY <1>4, <2>1, <2>2, <2>3, <2>4, <2>5, <2>6, ServerSteps
<1>5. CASE MainStep
  <2>1. UNCHANGED <<conn, leaks, lfd>>
    BY <1>5 DEF MainStep, MainSetFlag, MainSpawn, MainEnter, MainPoll, MainJoined,
       MainFree, MainExit, serverVars, kernelVars, envVars, vars
  <2>2. \/ UNCHANGED <<list, spc>>
        \/ list' = list /\ spc = "none" /\ spc' \in {"none", "start"}
        \/ list' = <<>> /\ spc = "done" /\ spc' = "done"
    BY <1>5 DEF MainStep, MainSetFlag, MainSpawn, MainEnter, MainPoll, MainJoined,
       MainFree, MainExit, serverVars, vars, LocalInv, ThreadsInv
  <2> QED BY <2>1, <2>2 DEF LifeInv
<1>6. ASSUME NEW c \in Clients, Peer(c) PROVE LifeInv'
  <2>1. UNCHANGED <<leaks, lfd, list, spc>>
    BY <1>6 DEF Peer, envVars
  <2>2. ~lfd => conn' = conn
    BY <1>6 DEF Peer, PeerConnect, PeerSend, PeerRead, PeerFin, PeerReset, PeerUrgent
  <2> QED BY <2>1, <2>2 DEF LifeInv
<1>7. CASE Terminated \/ UNCHANGED vars
  BY <1>7 DEF Terminated, vars, kernelVars, envVars, LifeInv
<1> QED BY <1>1, <1>2, <1>3, <1>4, <1>5, <1>6, <1>7 DEF Next

-----------------------------------------------------------------------------
(* The passes.                                                             *)

LEMMA PassDelete ==
  ASSUME LocalInv, ListMatchesSockets, PassInv, Deletes
  PROVE  PassInv'
<1> USE DEF LocalInv, TypeOK
<1>1. /\ spc \in {"purge", "service", "send", "shut"} /\ i < size
      /\ DeleteCurrent(spc) /\ UNCHANGED selectVars
  BY DeleteShape
<1>2. i \in 1..Len(list) /\ Len(list) \in Nat /\ size = Len(list) + 1
  BY <1>1, CurrentIsClient DEF Passing, LoopInv
<1>3. /\ list' = RemoveAt(list, i) /\ spc' = spc
      /\ i' = i /\ size' = size - 1 /\ seen' = seen \cup {cur}
  BY <1>1 DEF DeleteCurrent
<1>4. /\ Len(list') = Len(list) - 1
      /\ \A j \in 1..(Len(list) - 1) : list'[j] = IF j < i THEN list[j] ELSE list[j + 1]
  BY <1>2, <1>3, RemoveAtEntries DEF PassOK
<1>5. /\ \A j \in 1..Len(list) : list[j] \in seen <=> j < i
      /\ \A j, k \in 1..Len(list) : list[j] = list[k] => j = k
  BY <1>1 DEF PassInv, Passing, ListMatchesSockets
<1>6. \A j \in 1..Len(list') : list'[j] \in seen' <=> j < i'
  <2> SUFFICES ASSUME NEW j \in 1..(Len(list) - 1) PROVE list'[j] \in seen' <=> j < i
    BY <1>3, <1>4
  <2>1. CASE j < i
    BY <1>2, <1>3, <1>4, <1>5, <2>1
  <2>2. CASE j >= i
    <3>1. /\ list'[j] = list[j + 1] /\ j + 1 \in 1..Len(list) /\ ~(j + 1 < i)
          /\ j + 1 # i
      BY <1>2, <1>4, <2>2
    <3>2. list[j + 1] \notin seen /\ list[j + 1] # list[i]
      BY <1>2, <1>5, <3>1
    <3> QED BY <1>2, <1>3, <2>2, <3>1, <3>2 DEF cur
  <2> QED BY <1>2, <2>1, <2>2
<1>7. rd' \cup wr' \cup ex' \subseteq seen' \cup ToSet(list')
  <2>1. ToSet(list') = ToSet(list) \ {cur}
    BY ListDelete
  <2>2. UNCHANGED <<rd, wr, ex>>
    BY <1>1 DEF selectVars
  <2> QED BY <1>3, <2>1, <2>2 DEF PassInv
<1> QED BY <1>1, <1>2, <1>3, <1>4, <1>6, <1>7 DEF PassInv, Passing

LEMMA PassNext ==
  ASSUME LocalInv, ListMatchesSockets, PassInv, Nexts
  PROVE  PassInv'
<1> USE DEF LocalInv, TypeOK
<1>1. /\ spc \in {"service", "echo", "flush", "send"} /\ i < size
      /\ NextClient(IF spc = "send" THEN "send" ELSE "service")
      /\ UNCHANGED <<selectVars, list>>
  BY NextShape
<1>2. i \in 1..Len(list) /\ Len(list) \in Nat /\ size = Len(list) + 1
  BY <1>1, CurrentIsClient DEF Passing, LoopInv
<1>3. /\ spc' \in {"service", "send"} /\ i' = i + 1 /\ size' = size
      /\ seen' = seen \cup {list[i]}
  BY <1>1 DEF NextClient, cur
<1>4. /\ \A j \in 1..Len(list) : list[j] \in seen <=> j < i
      /\ \A j, k \in 1..Len(list) : list[j] = list[k] => j = k
  BY <1>1 DEF PassInv, Passing, ListMatchesSockets
<1>5. \A j \in 1..Len(list') : list'[j] \in seen' <=> j < i'
  BY <1>1, <1>2, <1>3, <1>4
<1>6. rd' \cup wr' \cup ex' \subseteq seen' \cup ToSet(list')
  BY <1>1, <1>3 DEF PassInv, selectVars
<1> QED BY <1>1, <1>2, <1>3, <1>5, <1>6 DEF PassInv, Passing

LEMMA PassStep ==
  LocalInv /\ ListMatchesSockets /\ PassInv /\ SelectInv /\ [Next]_vars => PassInv'
<1> SUFFICES ASSUME LocalInv, ListMatchesSockets, PassInv, SelectInv, [Next]_vars
             PROVE  PassInv'
  OBVIOUS
<1> USE DEF PassInv, Passing
<1>1. CASE Control
  <2>1. /\ list' = list
        /\ spc' \notin {"purge", "service", "echo", "flush", "send", "shut"}
        /\ \/ UNCHANGED <<seen, selectVars>>
           \/ rd' = {} /\ wr' = {} /\ ex' = {}
           \/ UNCHANGED selectVars /\ rd \cup wr \cup ex = {}
    BY <1>1, ControlShape DEF passVars, SelectInv
  <2> QED BY <2>1 DEF selectVars
<1>2. CASE Starts
  <2>1. PICK pc \in {"purge", "service", "send", "shut"} : StartPass(pc) /\ list' = list
    BY <1>2, StartShape
  <2>2. Len(list) \in Nat
    BY LenProperties DEF LocalInv, TypeOK, PassOK
  <2>3. rd' \cup wr' \cup ex' \subseteq ToSet(list)
    <3>1. rd \cup wr \cup ex = {}
      BY <1>2, StartShape DEF SelectInv
    <3> QED BY <1>2, <3>1 DEF Starts, TopStop, SelectClients, SelectError, RoundStart,
               selectVars, ReadSet, WriteSet, ExceptSet
  <2> QED BY <2>1, <2>2, <2>3 DEF StartPass
<1>3. CASE Accepts
  <2>1. /\ spc = "accept" /\ spc' \in {"top", "clock"} /\ UNCHANGED <<rd, wr, ex>>
    BY <1>3 DEF Accepts, AcceptNoMemory, AcceptClient, selectVars
  <2> QED BY <2>1 DEF SelectInv
<1>4. CASE Inside
  <2>1. UNCHANGED <<list, i, size, seen, rd, wr, ex>>
        /\ spc \in {"service", "echo", "flush", "send"} /\ i < size
    BY <1>4, InsideShape DEF selectVars
  <2> QED BY <2>1
<1>5. CASE MainStep
  <2>1. UNCHANGED <<i, size, seen, rd, wr, ex>>
    BY <1>5 DEF MainStep, MainSetFlag, MainSpawn, MainEnter, MainPoll, MainJoined,
       MainFree, MainExit, serverVars, passVars, selectVars, vars
  <2>2. \/ UNCHANGED <<spc, list>>
        \/ spc \in {"none", "done"} /\ spc' \in {"none", "done", "start"}
    BY <1>5 DEF MainStep, MainSetFlag, MainSpawn, MainEnter, MainPoll, MainJoined,
       MainFree, MainExit, serverVars, vars, LocalInv, ThreadsInv
  <2> QED BY <2>1, <2>2 DEF SelectInv
<1>6. CASE Terminated \/ UNCHANGED vars \/ \E c \in Clients : Peer(c)
  <2>1. UNCHANGED <<spc, list, i, size, seen, rd, wr, ex>>
    BY <1>6 DEF Terminated, vars, Peer, passVars, selectVars
  <2> QED BY <2>1
<1> QED BY <1>1, <1>2, <1>3, <1>4, <1>5, <1>6, PassDelete, PassNext, ServerSteps DEF Next

-----------------------------------------------------------------------------
(* The fd_sets.                                                            *)

LEMMA SelectStep == LocalInv /\ SelectInv /\ [Next]_vars => SelectInv'
<1> SUFFICES ASSUME LocalInv, SelectInv, [Next]_vars PROVE SelectInv'
  OBVIOUS
<1> USE DEF SelectInv
<1>1. CASE Control
  BY <1>1, ControlShape DEF selectVars
<1>2. CASE Starts
  BY <1>2, StartShape DEF Starts, TopStop, SelectClients, SelectError, RoundStart,
     StartPass, selectVars
<1>3. CASE Accepts
  BY <1>3 DEF Accepts, AcceptNoMemory, AcceptClient, selectVars
<1>4. CASE Deletes
  BY <1>4, DeleteShape DEF DeleteCurrent, selectVars
<1>5. CASE Nexts
  BY <1>5, NextShape DEF NextClient, selectVars
<1>6. CASE Inside
  <2>1. CASE Takes \/ ServeWrite
    BY <2>1 DEF Takes, ServeRead, ServeWrite, Serving
  <2>2. CASE SendSome \/ SendKilled
    BY <2>2 DEF SendSome, SendKilled, selectVars
  <2> QED BY <1>6, <2>1, <2>2 DEF Inside
<1>7. CASE MainStep
  BY <1>7 DEF MainStep, MainSetFlag, MainSpawn, MainEnter, MainPoll, MainJoined,
     MainFree, MainExit, serverVars, selectVars, vars, LocalInv, ThreadsInv
<1>8. CASE Terminated \/ UNCHANGED vars \/ \E c \in Clients : Peer(c)
  BY <1>8 DEF Terminated, vars, Peer, selectVars
<1> QED BY <1>1, <1>2, <1>3, <1>4, <1>5, <1>6, <1>7, <1>8, ServerSteps DEF Next

\* Urgent data stays pending until its connection is closed, so what select()
\* reported is still so when the pass comes to the client.
LEMMA ExceptStep ==
  LocalInv /\ SelectInv /\ ExceptInv /\ [Next]_vars => ExceptInv'
<1> SUFFICES ASSUME LocalInv, SelectInv, ExceptInv, [Next]_vars PROVE ExceptInv'
  OBVIOUS
<1> USE DEF ExceptInv
<1>1. CASE Control
  <2>1. UNCHANGED oob /\ (UNCHANGED <<seen, ex>> \/ ex' = {} \/ (UNCHANGED ex /\ ex = {}))
    BY <1>1, ControlShape DEF kernelVars, passVars, selectVars, SelectInv
  <2> QED BY <2>1
<1>2. CASE Starts
  <2>1. oob' = oob /\ ex = {}
    BY <1>2, StartShape DEF SelectInv
  <2>2. ex' = {} \/ ex' = ExceptSet
    BY <1>2, <2>1 DEF Starts, TopStop, SelectClients, SelectError, RoundStart, selectVars
  <2> QED BY <2>1, <2>2 DEF ExceptSet
<1>3. CASE Accepts
  BY <1>3 DEF Accepts, AcceptNoMemory, AcceptClient, selectVars, passVars
<1>4. CASE Deletes
  <2>1. UNCHANGED ex /\ seen' = seen \cup {cur} /\ oob' = [oob EXCEPT ![cur] = FALSE]
    BY <1>4, DeleteShape DEF DeleteCurrent, Forget, selectVars
  <2>2. oob \in [Clients -> BOOLEAN] /\ ex \subseteq Clients
    BY DEF LocalInv, TypeOK, KernelOK, PassOK
  <2> QED BY <2>1, <2>2
<1>5. CASE Nexts
  BY <1>5, NextShape DEF NextClient, selectVars
<1>6. CASE Inside
  BY <1>6, InsideShape DEF selectVars
<1>7. CASE MainStep
  <2>1. UNCHANGED <<ex, seen, oob>>
    BY <1>7 DEF MainStep, MainSetFlag, MainSpawn, MainEnter, MainPoll, MainJoined,
     MainFree, MainExit, serverVars, kernelVars, passVars, selectVars, vars
  <2> QED BY <2>1
<1>8. ASSUME NEW c \in Clients, Peer(c) PROVE ExceptInv'
  <2>1. UNCHANGED <<ex, seen>> /\ \A d \in Clients : oob[d] => oob'[d]
    BY <1>8 DEF Peer, PeerConnect, PeerSend, PeerRead, PeerFin, PeerReset, PeerUrgent,
       passVars, selectVars, LocalInv, TypeOK, KernelOK
  <2>2. ex \subseteq Clients
    BY DEF LocalInv, TypeOK, PassOK
  <2> QED BY <2>1, <2>2
<1>9. CASE Terminated \/ UNCHANGED vars
  BY <1>9 DEF Terminated, vars, kernelVars, passVars, selectVars
<1> QED BY <1>1, <1>2, <1>3, <1>4, <1>5, <1>6, <1>7, <1>8, <1>9, ServerSteps DEF Next

-----------------------------------------------------------------------------
(* The rounds.                                                             *)

\* A client a round has just dealt with has the number or is behind.
LEMMA RoundNext ==
  ASSUME LocalInv, RoundInv, Nexts
  PROVE  RoundInv'
<1> USE DEF LocalInv, TypeOK
<1>1. /\ spc \in {"service", "echo", "flush", "send"} /\ i < size
      /\ NextClient(IF spc = "send" THEN "send" ELSE "service")
      /\ UNCHANGED <<had, list>>
  BY NextShape
<1>2. cur \in Clients
  BY <1>1, CurrentIsClient DEF Passing
<1>3. /\ spc' = "send" <=> spc = "send"
      /\ seen' = seen \cup {cur} /\ sum' = 0
  BY <1>1 DEF NextClient
<1>4. CASE spc # "send"
  BY <1>3, <1>4 DEF RoundInv
<1>5. CASE spc = "send"
  <2>1. SendSkips \/ SendReturn
    BY <1>5 DEF Nexts, ServeNothing, ServeRead, EchoReturn, FlushReturn, Serving
  <2>2. CASE SendSkips
    <3>1. wsize' = wsize /\ ~Idle(cur)
      BY <2>2 DEF SendSkips, clientVars
    <3> QED BY <1>1, <1>3, <1>5, <3>1 DEF RoundInv, Idle
  <2>3. CASE SendReturn
    <3>1. PICK r \in 0..FrameSize :
            /\ SendReturns(r)
            /\ IF r < FrameSize
               THEN /\ wsize' = [wsize EXCEPT ![cur] = FrameSize - r]
                    /\ wptr' = [wptr EXCEPT ![cur] = r]
               ELSE UNCHANGED clientVars
      BY <2>3 DEF SendReturn
    <3>2. r = sum
      BY <3>1 DEF SendReturns
    <3>3. cur \in had \/ wsize'[cur] # 0
      <4>1. CASE r < FrameSize
        <5>1. wsize'[cur] = FrameSize - r
          BY <1>2, <3>1, <4>1 DEF StreamOK
        <5> QED BY <4>1, <5>1
      <4>2. CASE r = FrameSize
        BY <1>1, <1>5, <3>2, <4>2 DEF RoundInv
      <4> QED BY <4>1, <4>2
    <3>4. \A c \in Clients \ {cur} : wsize'[c] = wsize[c]
      BY <1>2, <3>1 DEF StreamOK, clientVars
    <3>5. seen \subseteq Clients
      BY DEF PassOK
    <3> QED BY <1>1, <1>3, <1>5, <3>3, <3>4, <3>5 DEF RoundInv, Idle
  <2> QED BY <2>1, <2>2, <2>3
<1> QED BY <1>4, <1>5

LEMMA RoundStep ==
  LocalInv /\ ListMatchesSockets /\ RoundInv /\ [Next]_vars => RoundInv'
<1> SUFFICES ASSUME LocalInv, ListMatchesSockets, RoundInv, [Next]_vars PROVE RoundInv'
  OBVIOUS
<1> USE DEF LocalInv, TypeOK
<1>1. CASE Control
  BY <1>1, ControlShape DEF RoundInv
<1>2. CASE Starts
  BY <1>2, StartShape DEF StartPass, RoundInv
<1>3. CASE Accepts
  BY <1>3 DEF Accepts, AcceptNoMemory, AcceptClient, RoundInv
<1>4. CASE Deletes
  <2>1. /\ spc \in {"purge", "service", "send", "shut"} /\ i < size
        /\ spc' = spc /\ seen' = seen \cup {cur} /\ sum' = 0
        /\ had' = had \ {cur} /\ wsize' = [wsize EXCEPT ![cur] = 0]
    BY <1>4, DeleteShape DEF DeleteCurrent, Forget
  <2>2. ToSet(list') = ToSet(list) \ {cur} /\ seen \subseteq Clients
    BY <1>4, ListDelete DEF PassOK
  <2>3. \A c \in Clients \ {cur} : wsize'[c] = wsize[c]
    BY <2>1 DEF StreamOK
  <2> QED BY <2>1, <2>2, <2>3 DEF RoundInv, Idle
<1>5. CASE Nexts
  BY <1>5, RoundNext
<1>6. CASE Inside
  <2>1. /\ spc' = "send" <=> spc = "send"
        /\ UNCHANGED <<list, i, size, seen, wsize, cur>> /\ i < size
        /\ spc \in {"service", "echo", "flush", "send"}
    BY <1>6, InsideShape DEF cur
  <2>2. CASE spc # "send"
    BY <2>1, <2>2 DEF RoundInv
  <2>3. CASE spc = "send" /\ SendSome
    <3>1. cur \in Clients
      BY <2>1, CurrentIsClient DEF Passing
    <3>2. had' = IF pos[cur] = 0 THEN had \cup {cur} ELSE had
      BY <2>3 DEF SendSome
    <3>3. sum = 0 => pos[cur] = 0
      <4>1. wsize[cur] = 0
        BY <2>3 DEF SendSome, Sending
      <4> QED BY <2>1, <2>3, <3>1, <4>1 DEF FrameInv, Idle, InFlight, Wrap
    <3>4. cur \in had'
      BY <2>1, <2>3, <3>2, <3>3 DEF RoundInv, PassOK
    <3> QED BY <2>1, <2>3, <3>2, <3>4 DEF RoundInv, Idle
  <2>4. CASE spc = "send" /\ SendKilled
    <3>1. UNCHANGED <<had, sum>>
      BY <2>4 DEF SendKilled, streamVars, passVars
    <3> QED BY <2>1, <2>4, <3>1 DEF RoundInv, Idle
  <2> QED BY <1>6, <2>2, <2>3, <2>4 DEF Inside, Takes, ServeRead, ServeWrite, Serving
<1>7. CASE MainStep
  <2>1. UNCHANGED <<i, size, sum, seen, had, wsize>>
    BY <1>7 DEF MainStep, MainSetFlag, MainSpawn, MainEnter, MainPoll, MainJoined,
       MainFree, MainExit, serverVars, passVars, streamVars, clientVars, vars
  <2>2. \/ UNCHANGED <<spc, list>>
        \/ spc' # "send"
    BY <1>7 DEF MainStep, MainSetFlag, MainSpawn, MainEnter, MainPoll, MainJoined,
       MainFree, MainExit, serverVars, vars, ThreadsInv
  <2> QED BY <2>1, <2>2 DEF RoundInv, Idle, cur
<1>8. CASE Terminated \/ UNCHANGED vars \/ \E c \in Clients : Peer(c)
  <2>1. UNCHANGED <<spc, list, i, size, sum, seen, had, wsize, cur>>
    BY <1>8 DEF Terminated, vars, Peer, passVars, streamVars, clientVars, cur
  <2> QED BY <2>1 DEF RoundInv, Idle
<1> QED BY <1>1, <1>2, <1>3, <1>4, <1>5, <1>6, <1>7, <1>8, ServerSteps DEF Next

-----------------------------------------------------------------------------
(* The invariant and what follows from it.                                 *)

LEMMA GlobalInit == Init => GlobalInv
<1> SUFFICES ASSUME Init PROVE GlobalInv
  OBVIOUS
<1> USE DEF Init
<1>1. ListMatchesSockets
  <2>1. {c \in Clients : conn[c] = "open"} = {} /\ {c \in Clients : conn[c] = "leaked"} = {}
    OBVIOUS
  <2>2. ToSet(list) = {} /\ Len(list) = 0
    BY DEF ToSet
  <2>3. Fds = 0
    BY <2>2 DEF Fds
  <2>4. leaks = Cardinality({c \in Clients : conn[c] = "leaked"})
    <3>1. Cardinality({}) = 0
      BY FS_EmptySet
    <3>2. leaks = 0
      OBVIOUS
    <3> QED BY <2>1, <3>1, <3>2
  <2>5. \A j, k \in 1..Len(list) : list[j] = list[k] => j = k
    BY <2>2
  <2>6. ToSet(list) = {c \in Clients : conn[c] = "open"} /\ Fds <= MaxFds
    BY <2>1, <2>2, <2>3
  <2> QED BY <2>4, <2>5, <2>6 DEF ListMatchesSockets
<1>2. PassInv /\ LifeInv /\ SelectInv /\ ExceptInv /\ RoundInv
  BY DEF PassInv, Passing, LifeInv, SelectInv, ExceptInv, RoundInv
<1> QED BY <1>1, <1>2 DEF GlobalInv

LEMMA CoreStep == CoreInv /\ [Next]_vars => CoreInv'
BY LocalStep, ListStep, PassStep, LifeStep, SelectStep, ExceptStep, RoundStep
   DEF CoreInv, GlobalInv

\* CoreInv is inductive and holds at the start: it is the invariant every theorem
\* about the list, the passes and the shutdown is a consequence of.
THEOREM CoreAlways == Spec => []CoreInv
<1>1. Init => CoreInv
  BY LocalInit, GlobalInit DEF CoreInv
<1> QED BY <1>1, CoreStep, PTL DEF Spec

\* connect_tcp_client_list holds exactly the accepted connections, each once,
\* through every accept (server.c:396-436), deletion in the middle of a pass
\* (541-555, 577-596, 739-755, 812-819) and failure, and the descriptor count
\* that bounds accept() is right.
THEOREM ListFaithful == Spec => []ListMatchesSockets
<1>1. CoreInv => ListMatchesSockets
  BY DEF CoreInv, GlobalInv
<1> QED BY <1>1, CoreAlways, PTL

\* size-- and i-- keep every pass in step with the list it deletes from
\* (server.c:359-386, 519-659, 711-793, 802-821).
THEOREM PassesInStep == Spec => []PassInv
<1>1. CoreInv => PassInv
  BY DEF CoreInv, GlobalInv
<1> QED BY <1>1, CoreAlways, PTL

\* main destroys the context (server.c:892-897) only after the thread has let
\* go of the listener and of every client.
THEOREM ShutdownClean == Spec => []CleanShutdown
<1>1. CoreInv => CleanShutdown
  <2> SUFFICES ASSUME CoreInv, mpc \in {"free", "end"}
               PROVE  spc = "done" /\ list = <<>> /\ ~lfd /\ \A c \in Clients : conn[c] # "open"
    BY DEF CleanShutdown
  <2>1. spc = "done"
    BY DEF CoreInv, LocalInv, ThreadsInv
  <2>2. list = <<>> /\ ~lfd
    BY <2>1 DEF CoreInv, GlobalInv, LifeInv
  <2>3. ToSet(list) = {}
    BY <2>2 DEF ToSet
  <2> QED BY <2>1, <2>2, <2>3 DEF CoreInv, GlobalInv, ListMatchesSockets
<1> QED BY <1>1, CoreAlways, PTL

\* A client is dropped only for what it did, when select() itself fails, or
\* at the end: the fd_sets of one select() are never held against a client
\* they do not describe (server.c:349, 534-596, 726-755).
THEOREM HealthyKept == Spec => HealthyClientKept
<1> DEFINE Kept == \A c \in ToSet(list) \ ToSet(list') :
                     fin[c] \/ err[c] # "ok" \/ oob[c] \/ spc \in {"purge", "shut"}
<1>1. CoreInv /\ [Next]_vars => [Kept]_vars
  <2> SUFFICES ASSUME CoreInv, [Next]_vars PROVE Kept
    OBVIOUS
  <2> USE DEF CoreInv, GlobalInv, LocalInv, TypeOK
  <2>1. CASE Deletes
    <3>1. ToSet(list) \ ToSet(list') \subseteq {cur}
      BY <2>1, ListDelete
    <3>2. cur \in Clients /\ i \in 1..Len(list)
      BY <2>1, DeleteShape, CurrentIsClient DEF Passing
    <3>3. fin[cur] \/ err[cur] # "ok" \/ oob[cur] \/ spc \in {"purge", "shut"}
      <4>1. CASE PurgeClient \/ ShutClient
        BY <4>1 DEF PurgeClient, ShutClient
      <4>2. CASE ServeExcept
        <5>1. cur \in ex /\ spc = "service"
          BY <4>2 DEF ServeExcept, Serving
        <5>2. cur \notin seen
          BY <3>2, <5>1 DEF PassInv, Passing, cur, PassOK
        <5> QED BY <5>1, <5>2 DEF ExceptInv
      <4>3. CASE ServeReadFails
        BY <3>2, <4>3 DEF ServeReadFails, RecvResult, KernelOK
      <4>4. CASE SendFails
        BY <4>4 DEF SendFails
      <4> QED BY <2>1, <4>1, <4>2, <4>3, <4>4 DEF Deletes
    <3> QED BY <3>1, <3>3
  <2>2. CASE Accepts
    <3>1. ToSet(list) \subseteq ToSet(list')
      <4>1. list' = list \/ \E c \in Clients : list' = Append(list, c)
        BY <2>2 DEF Accepts, AcceptNoMemory, AcceptClient
      <4>2. list \in Seq(Clients)
        BY DEF PassOK
      <4>3. ASSUME NEW c \in Clients PROVE ToSet(Append(list, c)) = ToSet(list) \cup {c}
        BY <4>2, AppendSet
      <4> QED BY <4>1, <4>3
    <3> QED BY <3>1
  <2>3. CASE MainFree
    <3>1. spc = "done"
      BY <2>3 DEF MainFree, ThreadsInv
    <3>2. ToSet(list) = {}
      BY <3>1 DEF LifeInv, ToSet
    <3> QED BY <3>2
  <2>4. CASE \/ Control \/ Starts \/ Nexts \/ Inside
            \/ (MainStep /\ ~MainFree)
            \/ Terminated \/ UNCHANGED vars
            \/ \E c \in Clients : Peer(c)
    <3>1. list' = list
      BY <2>4, ControlShape, StartShape, NextShape, InsideShape DEF MainStep, MainSetFlag,
         MainSpawn, MainEnter, MainPoll, MainJoined, MainExit, serverVars, Terminated,
         Peer, vars
    <3> QED BY <3>1
  <2> QED BY <2>1, <2>2, <2>3, <2>4, ServerSteps DEF Next
<1> QED BY <1>1, CoreAlways, PTL DEF Spec, HealthyClientKept

\* A service pass comes to every client select() reported, whichever clients
\* are deleted on the way (server.c:519-659).
THEOREM ServicePassesComplete == Spec => ServicePassComplete
<1> DEFINE Complete == spc = "service" /\ spc' = "clock" => rd \cup wr \cup ex \subseteq seen
<1>1. CoreInv /\ [Next]_vars => [Complete]_vars
  <2> SUFFICES ASSUME CoreInv, [Next]_vars, spc = "service", spc' = "clock"
               PROVE  rd \cup wr \cup ex \subseteq seen
    OBVIOUS
  <2> USE DEF CoreInv, GlobalInv, LocalInv, TypeOK
  <2>1. i >= size
    <3>1. CASE Control
      BY <3>1, ControlShape
    <3>2. CASE Starts \/ Accepts
      BY <3>2, StartShape DEF Accepts, AcceptNoMemory, AcceptClient
    <3>3. CASE Deletes \/ Nexts \/ Inside
      BY <3>3, DeleteShape, NextShape, InsideShape DEF DeleteCurrent, NextClient
    <3>4. CASE MainStep
      BY <3>4 DEF MainStep, MainSetFlag, MainSpawn, MainEnter, MainPoll, MainJoined,
         MainFree, MainExit, vars, ThreadsInv
    <3>5. CASE Terminated \/ UNCHANGED vars \/ \E c \in Clients : Peer(c)
      BY <3>5 DEF Terminated, Peer, vars
    <3> QED BY <3>1, <3>2, <3>3, <3>4, <3>5, ServerSteps DEF Next
  <2>2. Len(list) \in Nat /\ i = Len(list) + 1 /\ DOMAIN list = 1..Len(list)
    BY <2>1, LenProperties DEF LoopInv, Passing, PassOK
  <2>3. \A j \in 1..Len(list) : list[j] \in seen
    BY <2>2 DEF PassInv, Passing
  <2>4. ToSet(list) \subseteq seen
    BY <2>2, <2>3 DEF ToSet
  <2> QED BY <2>4 DEF PassInv
<1> QED BY <1>1, CoreAlways, PTL DEF Spec, ServicePassComplete

\* An auto-send round leaves no client out (server.c:711-793): at its end each
\* was sent the new number or still has an earlier frame to finish.
THEOREM RoundsComplete == Spec => RoundComplete
<1> DEFINE Complete == spc = "send" /\ spc' = "top" => \A c \in ToSet(list) : c \in had \/ ~Idle(c)
<1>1. CoreInv /\ [Next]_vars => [Complete]_vars
  <2> SUFFICES ASSUME CoreInv, [Next]_vars, spc = "send", spc' = "top"
               PROVE  \A c \in ToSet(list) : c \in had \/ ~Idle(c)
    OBVIOUS
  <2> USE DEF CoreInv, GlobalInv, LocalInv, TypeOK
  <2>1. i >= size
    <3>1. CASE Control
      BY <3>1, ControlShape
    <3>2. CASE Starts \/ Accepts
      BY <3>2, StartShape DEF Accepts, AcceptNoMemory, AcceptClient
    <3>3. CASE Deletes \/ Nexts \/ Inside
      BY <3>3, DeleteShape, NextShape, InsideShape DEF DeleteCurrent, NextClient
    <3>4. CASE MainStep
      BY <3>4 DEF MainStep, MainSetFlag, MainSpawn, MainEnter, MainPoll, MainJoined,
         MainFree, MainExit, vars, ThreadsInv
    <3>5. CASE Terminated \/ UNCHANGED vars \/ \E c \in Clients : Peer(c)
      BY <3>5 DEF Terminated, Peer, vars
    <3> QED BY <3>1, <3>2, <3>3, <3>4, <3>5, ServerSteps DEF Next
  <2>2. Len(list) \in Nat /\ i = Len(list) + 1 /\ DOMAIN list = 1..Len(list)
    BY <2>1, LenProperties DEF LoopInv, Passing, PassOK
  <2>3. \A j \in 1..Len(list) : list[j] \in seen
    BY <2>2 DEF PassInv, Passing
  <2>4. ToSet(list) \subseteq seen
    BY <2>2, <2>3 DEF ToSet
  <2> QED BY <2>4 DEF RoundInv
<1> QED BY <1>1, CoreAlways, PTL DEF Spec, RoundComplete

-----------------------------------------------------------------------------

\* Before the end of a frame, and at it, Wrap is the remainder.
LEMMA WrapIsRemainder ==
  ASSUME NEW n \in 0..FrameSize
  PROVE  Wrap(n) = n % FrameSize
<1>1. CASE n = FrameSize
  <2>1. FrameSize % FrameSize = 0
    OBVIOUS
  <2> QED BY <1>1, <2>1 DEF Wrap
<1>2. CASE n < FrameSize
  BY <1>2 DEF Wrap
<1> QED BY <1>1, <1>2

-----------------------------------------------------------------------------
(* Layer 3.                                                                *)

LEMMA HadInit == Init => HadInv
BY DEF Init, HadInv, Idle, ToSet

\* Steps that leave the list, the frames and the numbers alone.
LEMMA HadKept ==
  ASSUME HadInv, TypeOK, UNCHANGED <<list, wsize, wptr, had>>,
         \A c \in Clients : err[c] = "down" => err'[c] = "down",
         \A c \in ToSet(list) : InFlight(c)' = 0 => InFlight(c) = 0,
         spc' = "send" => spc = "send" /\ seen \subseteq seen'
  PROVE  HadInv'
<1>1. ToSet(list) \subseteq Clients
  BY LenProperties, ElementOfSeq DEF TypeOK, PassOK, ToSet
<1> QED BY <1>1 DEF HadInv, Idle

\* The position a tcp_sendn of frame units has reached in the client's frame.
LEMMA SendPosition ==
  ASSUME LocalInv, SendSome, spc \in {"flush", "send"}
  PROVE  /\ cur \in Clients /\ cur \in ToSet(list) /\ i < size
         /\ err[cur] = "ok" /\ sum \in Nat /\ InFlight(cur) = sum
         /\ \E base \in Nat :
              /\ base = IF spc = "flush" THEN wptr[cur] ELSE 0
              /\ base + Chunk = FrameSize /\ Chunk \in Nat
              /\ base + sum < FrameSize
              /\ pos[cur] = base + sum
         /\ spc = "send" <=> Idle(cur)
<1> USE DEF LocalInv, TypeOK
<1>1. /\ spc = "send" => i < size /\ wsize[cur] = 0
      /\ spc = "flush" => i < size
      /\ sum < Chunk /\ err[cur] = "ok"
  BY DEF SendSome, Sending, LoopInv
<1>2. cur \in Clients /\ cur \in ToSet(list) /\ sum \in Nat /\ InFlight(cur) = sum
  BY <1>1, CurrentIsClient DEF Passing, PassOK, InFlight
<1>3. CASE spc = "send"
  <2>1. Chunk = FrameSize /\ Idle(cur)
    BY <1>1, <1>3 DEF Chunk, Idle
  <2>2. pos[cur] = sum
    BY <1>1, <1>2, <2>1 DEF FrameInv, Wrap
  <2> QED BY <1>1, <1>2, <1>3, <2>1, <2>2
<1>4. CASE spc = "flush"
  <2>1. Chunk = wsize[cur] /\ wsize[cur] \in Nat /\ wptr[cur] \in Nat
    BY <1>2, <1>4 DEF Chunk, StreamOK
  <2>2. ~Idle(cur) /\ wptr[cur] + wsize[cur] = FrameSize
    BY <1>1, <1>2, <2>1 DEF FrameInv, Idle
  <2>3. wptr[cur] + sum < FrameSize
    BY <1>1, <1>2, <2>1, <2>2
  <2>4. pos[cur] = Wrap(wptr[cur] + sum)
    BY <1>1, <1>2, <2>2 DEF FrameInv
  <2>5. pos[cur] = wptr[cur] + sum
    BY <1>2, <2>1, <2>3, <2>4 DEF Wrap
  <2> QED BY <1>1, <1>2, <1>4, <2>1, <2>2, <2>3, <2>5
<1> QED BY <1>3, <1>4

LEMMA HadSendSome == ASSUME LocalInv, HadInv, SendSome PROVE HadInv'
<1>1. UNCHANGED <<list, wsize, wptr, seen, spc, err, i, size, cur>>
  BY DEF SendSome, clientVars, cur
<1>2. CASE spc = "echo"
  <2>1. had' = had
    BY <1>2 DEF SendSome, streamVars
  <2>2. \A c \in Clients : InFlight(c) = 0 /\ InFlight(c)' = 0
    BY <1>1, <1>2 DEF InFlight
  <2>3. TypeOK /\ ToSet(list) \subseteq Clients
    BY LenProperties, ElementOfSeq DEF LocalInv, TypeOK, PassOK, ToSet
  <2>4. \A c \in ToSet(list) : InFlight(c)' = 0 => InFlight(c) = 0
    BY <2>2, <2>3
  <2>5. spc' # "send" /\ UNCHANGED <<list, wsize, wptr, had, err>>
    BY <1>1, <1>2, <2>1
  <2> QED BY <2>3, <2>4, <2>5, HadKept
<1>3. CASE spc \in {"flush", "send"}
  <2>1. cur \in Clients /\ cur \in ToSet(list) /\ i < size /\ sum \in Nat
    BY <1>3, SendPosition
  <2>2. sum' > 0
    <3>1. sum < Chunk /\ room[cur] > 0 /\ sum' = sum + Least(Chunk - sum, room[cur])
      BY DEF SendSome
    <3>2. Chunk \in Nat /\ room[cur] \in Nat
      BY <1>3, <2>1, SendPosition DEF LocalInv, TypeOK, KernelOK
    <3> QED BY <2>1, <3>1, <3>2 DEF Least
  <2>3. InFlight(cur)' # 0
    BY <1>1, <1>3, <2>1, <2>2 DEF InFlight
  <2>4. \A c \in Clients \ {cur} : InFlight(c)' = InFlight(c)
    BY <1>1, <1>3 DEF InFlight
  <2>5. had' \in {had, had \cup {cur}}
    BY <1>3 DEF SendSome
  <2>6. ToSet(list) \subseteq Clients
    BY LenProperties, ElementOfSeq DEF LocalInv, TypeOK, PassOK, ToSet
  <2> QED BY <1>1, <2>1, <2>3, <2>4, <2>5, <2>6 DEF HadInv, Idle
<1> QED BY <1>2, <1>3 DEF SendSome, Sending

LEMMA HadDelete ==
  ASSUME LocalInv, ListMatchesSockets, HadInv, Deletes
  PROVE  HadInv'
<1>1. /\ spc \in {"purge", "service", "send", "shut"} /\ i < size
      /\ spc' = spc /\ seen' = seen \cup {cur} /\ sum' = 0
      /\ had' = had \ {cur}
      /\ err' = [err EXCEPT ![cur] = "ok"]
      /\ wsize' = [wsize EXCEPT ![cur] = 0] /\ wptr' = [wptr EXCEPT ![cur] = 0]
  BY DeleteShape DEF DeleteCurrent, Forget
<1>2. ToSet(list') = ToSet(list) \ {cur} /\ cur \in Clients
  BY <1>1, ListDelete, CurrentIsClient DEF LocalInv, Passing
<1>3. \A c \in Clients \ {cur} :
        UNCHANGED <<wsize[c], wptr[c], err[c]>> /\ InFlight(c) = 0
  BY <1>1, <1>2 DEF InFlight, LocalInv, TypeOK, StreamOK, KernelOK
<1>4. ToSet(list) \subseteq Clients /\ wsize'[cur] = 0
  BY <1>1, <1>2, LenProperties, ElementOfSeq DEF LocalInv, TypeOK, PassOK, StreamOK, ToSet
<1> QED BY <1>1, <1>2, <1>3, <1>4 DEF HadInv, Idle

\* A tcp_sendn that returned without an error sent exactly what the client's
\* pending frame moved by, so one that sent nothing left the frame to begin.
LEMMA HadNext == ASSUME LocalInv, PassInv, HadInv, Nexts PROVE HadInv'
<1> USE DEF LocalInv, TypeOK
<1>1. /\ spc \in {"service", "echo", "flush", "send"} /\ i < size
      /\ NextClient(IF spc = "send" THEN "send" ELSE "service")
      /\ UNCHANGED <<had, list>>
  BY NextShape
<1>2. /\ spc' = "send" <=> spc = "send"
      /\ seen' = seen \cup {cur} /\ sum' = 0
  BY <1>1 DEF NextClient
<1>3. /\ cur \in Clients /\ cur \in ToSet(list) /\ cur \notin seen
      /\ sum \in Nat /\ ToSet(list) \subseteq Clients
  <2>1. /\ cur \in Clients /\ cur \in ToSet(list) /\ i \in 1..Len(list) /\ i \in Nat
    BY <1>1, CurrentIsClient DEF Passing, PassOK
  <2>2. list[i] \notin seen
    BY <1>1, <2>1 DEF PassInv, Passing
  <2> QED BY <2>1, <2>2, LenProperties, ElementOfSeq DEF cur, PassOK, ToSet
<1>4. /\ \A c \in Clients : InFlight(c)' = 0
      /\ \A c \in Clients \ {cur} : InFlight(c) = 0
      /\ InFlight(cur) = IF spc \in {"flush", "send"} THEN sum ELSE 0
  BY <1>1, <1>2 DEF InFlight
<1>5. \A c \in Clients : err[c] = "down" => err'[c] = "down"
  <2>1. err' = err \/ err' = [err EXCEPT ![cur] = "down"]
    BY DEF Nexts, ServeNothing, SendSkips, EchoReturn, FlushReturn, SendReturn, ServeRead,
       SendReturns, kernelVars
  <2> QED BY <1>3, <2>1 DEF KernelOK
<1>6. CASE ServeNothing \/ SendSkips \/ EchoReturn \/ (ServeRead /\ ~(RecvResult(cur) > 0))
  <2>1. UNCHANGED <<wsize, wptr>> /\ InFlight(cur) = 0
    BY <1>3, <1>4, <1>6 DEF ServeNothing, SendSkips, EchoReturn, ServeRead, Serving,
       clientVars, Idle, SendInv, StreamOK
  <2>2. \A c \in ToSet(list) : InFlight(c) = 0
    BY <1>3, <1>4, <2>1
  <2> QED BY <1>1, <1>2, <1>5, <2>1, <2>2, HadKept
<1>7. CASE FlushReturn
  <2>1. PICK r \in -1..FrameSize :
          /\ SendReturns(r)
          /\ IF r < 0 THEN UNCHANGED clientVars
             ELSE /\ wsize' = [wsize EXCEPT ![cur] = @ - r]
                  /\ wptr' = [wptr EXCEPT ![cur] = @ + r]
    BY <1>7 DEF FlushReturn
  <2>2. spc = "flush" /\ wsize[cur] \in Nat /\ wptr[cur] \in Nat
    BY <1>3, <1>7 DEF FlushReturn, StreamOK
  <2>3. \A c \in Clients \ {cur} : UNCHANGED <<wsize[c], wptr[c]>>
    BY <1>3, <2>1 DEF StreamOK, clientVars
  <2>4. wsize'[cur] # 0 /\ wptr'[cur] = 0 /\ err'[cur] # "down"
          => InFlight(cur) = 0 /\ ~Idle(cur) /\ wptr[cur] = 0
    <3>1. CASE r < 0
      BY <1>3, <2>1, <2>2, <3>1 DEF SendReturns, KernelOK
    <3>2. CASE r >= 0
      <4>1. r = sum /\ wsize'[cur] = wsize[cur] - sum /\ wptr'[cur] = wptr[cur] + sum
        BY <1>3, <2>1, <3>2 DEF SendReturns, StreamOK
      <4>2. wptr'[cur] = 0 => sum = 0 /\ wptr[cur] = 0
        BY <1>3, <2>2, <4>1
      <4> QED BY <1>4, <2>2, <4>1, <4>2 DEF Idle
    <3> QED BY <2>1, <3>1, <3>2
  <2> QED BY <1>1, <1>2, <1>3, <1>4, <1>5, <2>2, <2>3, <2>4 DEF HadInv, Idle
<1>8. CASE SendReturn
  <2>1. PICK r \in 0..FrameSize :
          /\ SendReturns(r)
          /\ IF r < FrameSize
             THEN /\ wsize' = [wsize EXCEPT ![cur] = FrameSize - r]
                  /\ wptr' = [wptr EXCEPT ![cur] = r]
             ELSE UNCHANGED clientVars
    BY <1>8 DEF SendReturn
  <2>2. spc = "send" /\ Idle(cur) /\ r = sum
    BY <1>8, <2>1 DEF SendReturn, SendReturns, Sending, Idle
  <2>3. \A c \in Clients \ {cur} : UNCHANGED <<wsize[c], wptr[c]>>
    BY <1>3, <2>1 DEF StreamOK, clientVars
  <2>4. wsize'[cur] # 0 /\ wptr'[cur] = 0 => cur \notin had
    <3>1. CASE r < FrameSize
      <4>1. wptr'[cur] = sum
        BY <1>3, <2>1, <2>2, <3>1 DEF StreamOK
      <4> QED BY <1>3, <1>4, <2>2, <4>1 DEF HadInv
    <3>2. CASE r = FrameSize
      BY <2>1, <2>2, <3>2 DEF Idle, clientVars
    <3> QED BY <3>1, <3>2
  <2> QED BY <1>1, <1>2, <1>3, <1>4, <1>5, <2>2, <2>3, <2>4 DEF HadInv, Idle
<1> QED BY <1>6, <1>7, <1>8 DEF Nexts

LEMMA HadStep == CoreInv /\ HadInv /\ [Next]_vars => HadInv'
<1> SUFFICES ASSUME CoreInv, HadInv, [Next]_vars PROVE HadInv'
  OBVIOUS
<1> USE DEF CoreInv, GlobalInv, LocalInv
<1>1. CASE Control
  <2>1. /\ UNCHANGED <<list, wsize, wptr, had, err>>
        /\ spc' \notin {"purge", "service", "echo", "flush", "send", "shut"}
        /\ spc \in {"send", "flush"} => i >= size
    BY <1>1, ControlShape DEF clientVars, streamVars, kernelVars
  <2>2. \A c \in Clients : InFlight(c) = 0
    BY <2>1 DEF InFlight, TypeOK, PassOK
  <2>3. ToSet(list) \subseteq Clients
    BY LenProperties, ElementOfSeq DEF TypeOK, PassOK, ToSet
  <2> QED BY <2>1, <2>2, <2>3, HadKept
<1>2. CASE Starts
  <2>1. /\ UNCHANGED <<list, wsize, wptr, err>> /\ spc \notin {"send", "flush"}
        /\ sum' = 0 /\ seen' = {}
    BY <1>2, StartShape DEF clientVars, StartPass
  <2>2. \A c \in Clients : InFlight(c) = 0 /\ InFlight(c)' = 0
    BY <2>1 DEF InFlight
  <2>3. ToSet(list) \subseteq Clients
    BY LenProperties, ElementOfSeq DEF TypeOK, PassOK, ToSet
  <2>4. CASE RoundStart
    <3>1. had' = IF SomeIdle THEN {} ELSE had
      BY <2>4 DEF RoundStart
    <3>2. CASE SomeIdle
      BY <2>1, <3>1, <3>2 DEF HadInv, Idle
    <3>3. CASE ~SomeIdle
      BY <2>1, <2>2, <2>3, <3>1, <3>3 DEF HadInv, Idle, SomeIdle
    <3> QED BY <3>2, <3>3
  <2>5. CASE TopStop \/ SelectClients \/ SelectError
    <3>1. had' = had /\ spc' # "send"
      BY <2>5 DEF TopStop, SelectClients, SelectError, StartPass, streamVars
    <3> QED BY <2>1, <2>2, <2>3, <3>1 DEF HadInv, Idle
  <2> QED BY <1>2, <2>4, <2>5 DEF Starts
<1>3. CASE Accepts
  <2>1. PICK c \in Clients : list' = list \/ list' = Append(list, c)
    BY <1>3 DEF Accepts, AcceptNoMemory, AcceptClient
  <2>2. /\ UNCHANGED <<wsize, wptr, err, had>>
        /\ spc = "accept" /\ spc' \in {"top", "clock"}
    BY <1>3 DEF Accepts, AcceptNoMemory, AcceptClient, clientVars, streamVars
  <2>3. list \in Seq(Clients) /\ ToSet(list) \subseteq Clients
    BY LenProperties, ElementOfSeq DEF TypeOK, PassOK, ToSet
  <2>4. ToSet(list') = ToSet(list) \/ ToSet(list') = ToSet(list) \cup {c}
    BY <2>1, <2>3, AppendSet
  <2>5. \A d \in Clients : InFlight(d) = 0 /\ InFlight(d)' = 0
    BY <2>2 DEF InFlight
  <2> QED BY <2>2, <2>3, <2>4, <2>5 DEF HadInv, Idle
<1>4. CASE Inside
  <2>1. CASE SendSome
    BY <2>1, HadSendSome
  <2>2. CASE SendKilled
    <3>1. UNCHANGED <<spc, list, wsize, wptr, had, err, i, size, sum, seen, cur>>
      BY <2>2 DEF SendKilled, kernelVars, streamVars, clientVars, passVars, cur
    <3> QED BY <3>1 DEF HadInv, Idle, InFlight
  <2>3. CASE Takes \/ ServeWrite
    <3>1. /\ UNCHANGED <<list, wsize, wptr, had, err>> /\ spc = "service"
          /\ spc' \in {"echo", "flush"}
      BY <2>3 DEF Takes, ServeRead, ServeWrite, Serving, kernelVars, streamVars, clientVars
    <3>2. \A c \in ToSet(list) : InFlight(c) = 0
      BY <3>1 DEF InFlight
    <3> QED BY <3>1, <3>2, HadKept
  <2> QED BY <1>4, <2>1, <2>2, <2>3 DEF Inside
<1>5. CASE MainStep
  <2>1. UNCHANGED <<wsize, wptr, had, err, i, size, sum, seen>>
    BY <1>5 DEF MainStep, MainSetFlag, MainSpawn, MainEnter, MainPoll, MainJoined,
       MainFree, MainExit, serverVars, kernelVars, streamVars, clientVars, passVars, vars
  <2>2. list' = list /\ (spc' = spc \/ (spc = "none" /\ spc' \in {"none", "start"}))
    <3>1. CASE MainFree
      <4>1. spc = "done" /\ spc' = spc /\ list' = <<>>
        BY <3>1 DEF MainFree, ThreadsInv
      <4> QED BY <4>1 DEF LifeInv
    <3> QED BY <1>5, <3>1 DEF MainStep, MainSetFlag, MainSpawn, MainEnter, MainPoll,
               MainJoined, MainExit, serverVars, vars, ThreadsInv
  <2>3. \A c \in Clients : InFlight(c)' = InFlight(c)
    BY <2>1, <2>2 DEF InFlight, cur
  <2>4. ToSet(list) \subseteq Clients
    BY LenProperties, ElementOfSeq DEF TypeOK, PassOK, ToSet
  <2> QED BY <2>1, <2>2, <2>3, <2>4, HadKept
<1>6. ASSUME NEW c \in Clients, Peer(c) PROVE HadInv'
  <2>1. UNCHANGED <<spc, list, wsize, wptr, had, i, size, sum, seen, cur>>
    BY <1>6 DEF Peer, streamVars, clientVars, passVars, cur
  <2>2. \A d \in Clients : err[d] = "down" => err'[d] = "down"
    BY <1>6 DEF Peer, PeerConnect, PeerSend, PeerRead, PeerFin, PeerReset, PeerUrgent,
       TypeOK, KernelOK
  <2>3. \A d \in ToSet(list) : InFlight(d)' = 0 => InFlight(d) = 0
    BY <2>1 DEF InFlight
  <2> QED BY <2>1, <2>2, <2>3, HadKept
<1>7. CASE Terminated \/ UNCHANGED vars
  <2>1. UNCHANGED <<spc, list, wsize, wptr, had, err, i, size, sum, seen, cur>>
    BY <1>7 DEF Terminated, vars, kernelVars, streamVars, clientVars, passVars, cur
  <2> QED BY <2>1 DEF HadInv, Idle, InFlight
<1> QED BY <1>1, <1>2, <1>3, <1>4, <1>5, <1>6, <1>7, HadDelete, HadNext, ServerSteps DEF Next

\* The whole invariant that the TLC run of IndInv checks on a small instance.
THEOREM Inductive == Spec => []IndInv
<1>1. Init => HadInv
  BY HadInit
<1>2. CoreInv /\ HadInv /\ [Next]_vars => HadInv'
  BY HadStep
<1>3. Spec => []HadInv
  BY <1>1, <1>2, CoreAlways, PTL DEF Spec
<1>4. CoreInv /\ HadInv => IndInv
  BY DEF IndInv
<1> QED BY <1>3, <1>4, CoreAlways, PTL

-----------------------------------------------------------------------------
(* The simulation.                                                         *)

\* The units one send() takes are a Push of FrameService.
LEMMA PushRefines ==
  ASSUME IndInv, SendSome, spc \in {"flush", "send"}
  PROVE  \E n \in 1..FrameSize : Frames!Push(cur, n)
<1> USE DEF IndInv, CoreInv, GlobalInv, LocalInv
<1>1. /\ cur \in Clients /\ cur \in ToSet(list) /\ i < size
      /\ err[cur] = "ok" /\ sum \in Nat /\ InFlight(cur) = sum
  BY SendPosition
<1>2. PICK base \in Nat :
        /\ base = IF spc = "flush" THEN wptr[cur] ELSE 0
        /\ base + Chunk = FrameSize /\ Chunk \in Nat
        /\ base + sum < FrameSize
        /\ pos[cur] = base + sum
  BY SendPosition
<1> DEFINE n == Least(Chunk - sum, room[cur])
<1>3. /\ sum < Chunk /\ room[cur] > 0
      /\ pos' = [pos EXCEPT ![cur] = Wrap(@ + n)]
      /\ had' = IF pos[cur] = 0 THEN had \cup {cur} ELSE had
      /\ list' = list
  BY DEF SendSome
<1>4. room[cur] \in Nat
  BY <1>1 DEF TypeOK, KernelOK
<1>5. n \in 1..FrameSize /\ n <= Chunk - sum
  BY <1>1, <1>2, <1>3, <1>4 DEF Least
<1> HIDE DEF n
<1>6. pos[cur] + n \in 0..FrameSize
  BY <1>1, <1>2, <1>5
<1>7. pos' = [pos EXCEPT ![cur] = (@ + n) % FrameSize]
  BY <1>3, <1>6, WrapIsRemainder
<1>8. pos[cur] = 0 => cur \notin had
  <2>1. SUFFICES ASSUME pos[cur] = 0 PROVE cur \notin had
    OBVIOUS
  <2>2. base = 0 /\ sum = 0
    BY <1>1, <1>2, <2>1
  <2>3. CASE spc = "flush"
    <3>1. ~Idle(cur) /\ wptr[cur] = 0
      BY <1>2, <2>2, <2>3, SendPosition
    <3> QED BY <1>1, <2>2, <3>1 DEF HadInv
  <2>4. CASE spc = "send"
    <3>1. Idle(cur)
      BY <2>4, SendPosition
    <3>2. cur \notin seen
      <4>1. i \in 1..Len(list) /\ i \in Nat
        BY <1>1, <2>4, CurrentIsClient DEF Passing, TypeOK, PassOK
      <4> QED BY <2>4, <4>1 DEF PassInv, Passing, cur
    <3> QED BY <1>1, <2>2, <2>4, <3>1, <3>2 DEF HadInv
  <2> QED BY <2>3, <2>4
<1>9. Frames!Push(cur, n)
  <2>1. ToSet(list') = ToSet(list) /\ pos[cur] + n <= FrameSize
    BY <1>3, <1>6
  <2>2. had' = IF pos[cur] = 0 THEN had \cup {cur} ELSE had
    BY <1>3
  <2> QED BY <1>1, <1>7, <1>8, <2>1, <2>2, Zenon DEF Frames!Push
<1> QED BY <1>5, <1>9

LEMMA StepRefines ==
  IndInv /\ [Next]_vars => [Frames!Next]_(Frames!vars)
<1> SUFFICES ASSUME IndInv, [Next]_vars PROVE [Frames!Next]_(Frames!vars)
  OBVIOUS
<1> USE DEF IndInv, CoreInv, GlobalInv, LocalInv
<1>1. ASSUME list' = list, pos' = pos, had' = had
      PROVE  UNCHANGED Frames!vars
  BY <1>1 DEF Frames!vars
<1>2. CASE Control \/ Nexts \/ Takes \/ ServeWrite \/ SendKilled
  <2>1. list' = list /\ pos' = pos /\ had' = had
    BY <1>2, ControlShape, NextShape DEF Takes, ServeRead, ServeWrite, SendKilled, streamVars
  <2> QED BY <1>1, <2>1
<1>3. CASE SendSome
  <2>1. CASE spc = "echo"
    <3>1. list' = list /\ pos' = pos /\ had' = had
      BY <1>3, <2>1 DEF SendSome, streamVars
    <3> QED BY <1>1, <3>1
  <2>2. CASE spc \in {"flush", "send"}
    <3>1. cur \in Clients
      BY <1>3, <2>2, SendPosition
    <3> QED BY <1>3, <2>2, <3>1, PushRefines DEF Frames!Next
  <2> QED BY <1>3, <2>1, <2>2 DEF SendSome, Sending
<1>4. CASE Starts
  <2>1. list' = list /\ pos' = pos
    BY <1>4, StartShape
  <2>2. CASE RoundStart /\ SomeIdle
    <3>1. had' = {} /\ spc = "round"
      BY <2>2 DEF RoundStart
    <3>2. PICK c \in ToSet(list) : Idle(c)
      BY <2>2 DEF SomeIdle
    <3>3. c \in Clients /\ InFlight(c) = 0
      BY <3>1, LenProperties, ElementOfSeq DEF TypeOK, PassOK, ToSet, InFlight
    <3>4. pos[c] = 0
      BY <3>2, <3>3 DEF FrameInv, Wrap
    <3>5. Frames!Stamp
      BY <2>1, <3>1, <3>2, <3>4 DEF Frames!Stamp
    <3> QED BY <3>5 DEF Frames!Next
  <2>3. CASE ~(RoundStart /\ SomeIdle)
    <3>1. had' = had
      BY <1>4, <2>3 DEF Starts, TopStop, SelectClients, SelectError, RoundStart, streamVars
    <3> QED BY <1>1, <2>1, <3>1
  <2> QED BY <2>2, <2>3
<1>5. CASE Accepts
  <2>1. PICK c \in Clients : AcceptNoMemory(c) \/ AcceptClient(c)
    BY <1>5 DEF Accepts
  <2>2. pos' = pos /\ had' = had /\ conn[c] = "queued"
    BY <2>1 DEF AcceptNoMemory, AcceptClient, streamVars
  <2>3. CASE list' = list
    BY <1>1, <2>2, <2>3
  <2>4. CASE list' = Append(list, c)
    <3>1. ToSet(list') = ToSet(list) \cup {c}
      BY <2>4, AppendSet DEF TypeOK, PassOK
    <3>2. c \notin ToSet(list)
      BY <2>2 DEF ListMatchesSockets
    <3>3. Frames!Join(c)
      BY <2>2, <3>1, <3>2 DEF Frames!Join
    <3> QED BY <3>3 DEF Frames!Next
  <2> QED BY <2>1, <2>3, <2>4 DEF AcceptNoMemory, AcceptClient
<1>6. CASE Deletes
  <2>1. /\ pos' = [pos EXCEPT ![cur] = 0] /\ had' = had \ {cur} /\ i < size
        /\ spc \in {"purge", "service", "send", "shut"}
    BY <1>6, DeleteShape DEF DeleteCurrent, Forget
  <2>2. ToSet(list') = ToSet(list) \ {cur}
    BY <1>6, ListDelete
  <2>3. cur \in Clients /\ cur \in ToSet(list)
    BY <2>1, CurrentIsClient DEF Passing
  <2>4. Frames!Leave(cur)
    BY <2>1, <2>2, <2>3 DEF Frames!Leave
  <2> QED BY <2>3, <2>4 DEF Frames!Next
<1>7. CASE MainStep
  <2>1. pos' = pos /\ had' = had
    BY <1>7 DEF MainStep, MainSetFlag, MainSpawn, MainEnter, MainPoll, MainJoined,
       MainFree, MainExit, serverVars, streamVars, vars
  <2>2. list' = list
    <3>1. CASE MainFree
      <4>1. spc = "done" /\ list' = <<>>
        BY <3>1 DEF MainFree, ThreadsInv
      <4> QED BY <4>1 DEF LifeInv
    <3> QED BY <1>7, <3>1 DEF MainStep, MainSetFlag, MainSpawn, MainEnter, MainPoll,
               MainJoined, MainExit, serverVars, vars
  <2> QED BY <1>1, <2>1, <2>2
<1>8. CASE Terminated \/ UNCHANGED vars \/ \E c \in Clients : Peer(c)
  <2>1. list' = list /\ pos' = pos /\ had' = had
    BY <1>8 DEF Terminated, vars, Peer, streamVars
  <2> QED BY <1>1, <2>1
<1> QED BY <1>2, <1>3, <1>4, <1>5, <1>6, <1>7, <1>8, ServerSteps DEF Next, Inside

\* The server implements FrameService: whatever the kernel takes of each
\* send() and whoever comes and goes, every client sees whole frames one after
\* the other, each begun with a number it was not sent before
\* (server.c:623-657, 704-790).
THEOREM FrameServiceImplemented == Spec => ImplementsFrameService
<1>1. Init => Frames!Init
  BY DEF Init, Frames!Init, ToSet
<1> QED BY <1>1, StepRefines, Inductive, PTL DEF Spec, ImplementsFrameService, Frames!Spec
=============================================================================
