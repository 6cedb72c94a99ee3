---- MODULE MCChatServer ----
(***************************************************************************)
(* ChatServer on a small instance: channels and event loops as model       *)
(* values.                                                                 *)
(***************************************************************************)
EXTENDS ChatServer, TLC

\* The channels and the event loops are interchangeable.
Symmetry == Permutations(Channels) \union Permutations(Loops)

\* A bound: all but one of the channels may go away.
SomebodyStays == \E ch \in Channels : phase[ch] \notin {"closing", "dead"}
=============================
