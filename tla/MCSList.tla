------------------------------- MODULE MCSList -------------------------------
(***************************************************************************)
(* SList on small heaps.                                                   *)
(***************************************************************************)
EXTENDS SList

\* from in front of the list to past its end
MCPositions == -1..4
=============================================================================
