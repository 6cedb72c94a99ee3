------------------------- MODULE EchoServerInvariant -------------------------
(***************************************************************************)
(* The inductive invariant behind the safety properties of EchoServer, in  *)
(* three layers: LocalInv needs nothing but itself, GlobalInv needs it     *)
(* too, and HadInv, which only the refinement needs, rests on both.  TLC   *)
(* checks them on a small instance, and EchoServerProofs proves them for   *)
(* every instance.                                                         *)
(***************************************************************************)
EXTENDS EchoServer

-----------------------------------------------------------------------------
(* Layer 1: types, loop indexes, what a tcp_sendn may still do, and where    *)
(* the two threads are.                                                    *)

LoopInv ==
  /\ Passing => i \in 1..size /\ size = Len(list) + 1
  /\ spc \in {"echo", "flush"} => i < size
  /\ spc \in {"purge", "shut"} => i = 1

\* tcp_sendn never sends more than it was given, and after an error nothing
SendInv ==
  /\ spc \notin {"echo", "flush", "send"} => sum = 0
  /\ spc = "echo" => sum <= got
  /\ spc = "flush" => sum <= wsize[cur]
  /\ spc = "send" => sum <= FrameSize
  /\ spc = "send" /\ (i >= size \/ wsize[cur] > 0) => sum = 0
  /\ spc \in {"flush", "send"} /\ i < size /\ sum > 0 => err[cur] # "down"

\* where main and the server thread can be at the same time
ThreadsInv ==
  /\ mpc = "boot" => ~flag
  /\ mpc \in {"boot", "spawn"} => spc = "none"
  /\ spc \notin {"none", "done"} => flag
  /\ spc = "none" /\ mpc # "boot" => flag
  /\ spc = "done" => ~flag
  /\ mpc \in {"free", "end"} => ~flag

LocalInv == TypeOK /\ LoopInv /\ SendInv /\ FrameInv /\ ThreadsInv

-----------------------------------------------------------------------------
(* Layer 2: the list against the sockets, and the passes.                  *)

\* what the thread holds before its loop and after it
LifeInv ==
  /\ spc \in {"none", "start"} => leaks = 0 /\ \A c \in Clients : conn[c] = "none"
  /\ spc \in {"none", "start", "done"} => list = <<>> /\ ~lfd
  /\ spc = "shut" => ~lfd

\* the fd_sets are looked at in the service pass only
SelectInv == spc \notin {"service", "echo", "flush"} => rd \cup wr \cup ex = {}

\* the exceptions select() reported are still there when they are looked at
ExceptInv == \A c \in ex : oob[c] \/ c \in seen

\* in a round, a client that was handled has the number or is behind
RoundInv ==
  /\ spc = "send" =>
       \A c \in ToSet(list) \cap seen : c \in had \/ ~Idle(c)
  /\ spc = "send" /\ i < size /\ sum > 0 => cur \in had

GlobalInv ==
  ListMatchesSockets /\ PassInv /\ LifeInv /\ SelectInv /\ ExceptInv /\ RoundInv

CoreInv == LocalInv /\ GlobalInv

-----------------------------------------------------------------------------
(* Layer 3: who was sent the current frame number.                         *)

\* A frame that is still to begin, be it pending as a whole or due in this
\* round, does so with a number its client was not sent yet; a client that is
\* not in the list has nothing pending.
HadInv ==
  /\ \A c \in ToSet(list) :
       ~Idle(c) /\ wptr[c] = 0 /\ InFlight(c) = 0 /\ err[c] # "down" => c \notin had
  /\ spc = "send" =>
       \A c \in ToSet(list) \ seen : Idle(c) /\ InFlight(c) = 0 => c \notin had
  /\ \A c \in Clients \ ToSet(list) : Idle(c) /\ c \notin had

IndInv == CoreInv /\ HadInv
=============================================================================
