--------------------------- MODULE DeliveryProofs ---------------------------
(***************************************************************************)
(* What Delivery comes to: at most once but for quality 1, and nothing     *)
(* accepted at quality 1 or 2 is lost while no session is given up.        *)
(***************************************************************************)
EXTENDS Delivery, TLAPS

\* At quality 0 and 2 no message is taken a second time.
AtMostOnce == \A m \in Msgs : qos[m] # 1 => took[m] <= 1

\* A message accepted at quality 1 or 2 is still to be sent or was taken.
NotLost == \A m \in Msgs : qos[m] \in {1, 2} => m \in held \/ took[m] > 0

LEMMA Types == Spec /\ [](clean \in BOOLEAN) => []TypeOK
<1>1. Init /\ clean \in BOOLEAN => TypeOK
  BY DEF Init, TypeOK, Unsent
<1>2. TypeOK /\ [Next]_vars /\ (clean \in BOOLEAN)' => TypeOK'
  <2> SUFFICES ASSUME TypeOK, [Next]_vars, clean' \in BOOLEAN
               PROVE  TypeOK'
    OBVIOUS
  <2>1. ASSUME NEW m \in Msgs, NEW q \in 0..2, Accept(m, q)
        PROVE  TypeOK'
    BY <2>1 DEF Accept, TypeOK, Unsent
  <2>2. ASSUME NEW m \in Msgs, Take(m)
        PROVE  TypeOK'
    BY <2>2 DEF Take, TypeOK
  <2>3. ASSUME NEW m \in Msgs, Release(m)
        PROVE  TypeOK'
    BY <2>3 DEF Release, TypeOK
  <2>4. CASE GiveUp
    BY <2>4 DEF GiveUp, TypeOK
  <2>5. CASE UNCHANGED vars
    BY <2>5 DEF vars, TypeOK
  <2> QED
    BY <2>1, <2>2, <2>3, <2>4, <2>5 DEF Next
<1> QED
  BY <1>1, <1>2, PTL DEF Spec

\* Quality 2 is exactly once and quality 0 at most once, whatever the client
\* and the broker of the promise do (mqttws31.js:2481-2483).
THEOREM TakenAtMostOnce == Spec /\ [](clean \in BOOLEAN) => []AtMostOnce
<1>1. Init => AtMostOnce
  BY DEF Init, AtMostOnce
<1>2. TypeOK /\ AtMostOnce /\ [Next]_vars => AtMostOnce'
  <2> SUFFICES ASSUME TypeOK, AtMostOnce, [Next]_vars
               PROVE  AtMostOnce'
    OBVIOUS
  <2>1. ASSUME NEW m \in Msgs, NEW q \in 0..2, Accept(m, q)
        PROVE  AtMostOnce'
    BY <2>1 DEF Accept, TypeOK, AtMostOnce, Unsent
  <2>2. ASSUME NEW m \in Msgs, Take(m)
        PROVE  AtMostOnce'
    BY <2>2 DEF Take, TypeOK, AtMostOnce
  <2>3. CASE UNCHANGED <<qos, took>>
    BY <2>3 DEF AtMostOnce
  <2> QED
    BY <2>1, <2>2, <2>3 DEF Next, Release, GiveUp, vars
<1> QED
  BY <1>1, <1>2, Types, PTL DEF Spec

\* Without a clean session every message accepted at quality 1 or 2 is held
\* until it was taken (mqttws31.js:2482-2483).
THEOREM AcceptedNotLost == Spec /\ [](clean = FALSE) => []NotLost
<1>1. Init => NotLost
  BY DEF Init, NotLost, Unsent
<1>2. TypeOK /\ clean = FALSE /\ NotLost /\ [Next]_vars => NotLost'
  <2> SUFFICES ASSUME TypeOK, clean = FALSE, NotLost, [Next]_vars
               PROVE  NotLost'
    OBVIOUS
  <2>1. ASSUME NEW m \in Msgs, NEW q \in 0..2, Accept(m, q)
        PROVE  NotLost'
    BY <2>1 DEF Accept, TypeOK, NotLost
  <2>2. ASSUME NEW m \in Msgs, Take(m)
        PROVE  NotLost'
    BY <2>2 DEF Take, TypeOK, NotLost
  <2>3. ASSUME NEW m \in Msgs, Release(m)
        PROVE  NotLost'
    BY <2>3 DEF Release, TypeOK, NotLost
  <2>4. CASE UNCHANGED vars
    BY <2>4 DEF vars, NotLost
  <2> QED
    BY <2>1, <2>2, <2>3, <2>4 DEF Next, GiveUp
<1>3. clean = FALSE => clean \in BOOLEAN
  OBVIOUS
<1> QED
  BY <1>1, <1>2, <1>3, Types, PTL DEF Spec
=============================================================================
