----------------------------- MODULE FrameService -----------------------------
(***************************************************************************)
(* What the auto-send half of the TCP server promises each client: while   *)
(* it is connected, a stream of whole frames of FrameSize units, one after *)
(* the other from the first unit of the first, each of which begins with   *)
(* a frame number this client was not sent before.  Nothing is said of     *)
(* when a frame comes or of how many pieces it comes in.                   *)
(***************************************************************************)
EXTENDS Integers

CONSTANTS Clients, FrameSize

VARIABLES
  online,   \* the clients being served
  pos,      \* units of its current frame each client was sent
  had       \* the clients that were sent the current number

vars == <<online, pos, had>>

Init ==
  /\ online = {}
  /\ pos = [c \in Clients |-> 0]
  /\ had = {}

Join(c) ==
  /\ c \notin online
  /\ online' = online \cup {c}
  /\ UNCHANGED <<pos, had>>

\* whatever part of a frame the client had not been sent is never sent
Leave(c) ==
  /\ c \in online
  /\ online' = online \ {c}
  /\ pos' = [pos EXCEPT ![c] = 0]
  /\ had' = had \ {c}

\* a new number, as long as somebody is there to begin a frame with it
Stamp ==
  /\ \E c \in online : pos[c] = 0
  /\ had' = {}
  /\ UNCHANGED <<online, pos>>

\* n units for one client: never past the end of the frame, and the first
\* unit of a frame only under a number that is new to this client
Push(c, n) ==
  /\ c \in online
  /\ pos[c] + n <= FrameSize
  /\ pos[c] = 0 => c \notin had
  /\ pos' = [pos EXCEPT ![c] = (@ + n) % FrameSize]
  /\ had' = IF pos[c] = 0 THEN had \cup {c} ELSE had
  /\ UNCHANGED online

Next ==
  \/ Stamp
  \/ \E c \in Clients :
       \/ Join(c) \/ Leave(c)
       \/ \E n \in 1..FrameSize : Push(c, n)

Spec == Init /\ [][Next]_vars
=============================================================================
