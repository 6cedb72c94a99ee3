----------------------------- MODULE MCEchoServer -----------------------------
(***************************************************************************)
(* EchoServer on small instances: two or three clients as model values.    *)
(***************************************************************************)
EXTENDS EchoServerInvariant

\* clients are interchangeable: nothing in the specification orders them
Symmetry == Permutations(Clients)
=============================================================================
