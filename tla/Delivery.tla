------------------------------ MODULE Delivery ------------------------------
(***************************************************************************)
(* What a quality of service of MQTT promises about messages that go one   *)
(* way: 0 is best effort, 1 is at least once, 2 is exactly once.           *)
(***************************************************************************)
EXTENDS Naturals

CONSTANT Msgs       \* the messages

Unsent == 3

VARIABLES qos,      \* quality of service, or Unsent
          took,     \* how often the receiver took the message: 0, 1 or more
          held,     \* the messages the sender has to send again
          clean     \* whether the session is one that may be given up

vars == <<qos, took, held>>

TypeOK ==
    /\ qos \in [Msgs -> 0..Unsent]
    /\ took \in [Msgs -> 0..2]
    /\ held \subseteq Msgs
    /\ clean \in BOOLEAN

Init ==
    /\ qos = [m \in Msgs |-> Unsent]
    /\ took = [m \in Msgs |-> 0]
    /\ held = {}

Accept(m, q) ==
    /\ qos[m] = Unsent
    /\ qos' = [qos EXCEPT ![m] = q]
    /\ held' = IF q = 0 THEN held ELSE held \union {m}
    /\ UNCHANGED took

\* Only at quality 1 may the receiver take a message again.
Take(m) ==
    /\ qos[m] # Unsent
    /\ took[m] = 0 \/ qos[m] = 1
    /\ took' = [took EXCEPT ![m] = IF @ = 0 THEN 1 ELSE 2]
    /\ UNCHANGED <<qos, held>>

\* The sender forgets a message the receiver has.
Release(m) ==
    /\ m \in held
    /\ took[m] > 0
    /\ held' = held \ {m}
    /\ UNCHANGED <<qos, took>>

\* A clean session: what was held is given up.
GiveUp ==
    /\ clean
    /\ held' \in SUBSET held
    /\ UNCHANGED <<qos, took>>

Next ==
    \/ \E m \in Msgs : Take(m) \/ Release(m) \/ \E q \in 0..2 : Accept(m, q)
    \/ GiveUp

Spec == Init /\ [][Next]_vars
=============================================================================
