-------------------------- MODULE ChatServerProofs --------------------------
(***************************************************************************)
(* For any number of channels, event loops and messages: as long as no     *)
(* event loop is in the list while another one changes it, the list is     *)
(* right, broadcasts are complete and nobody gets a message twice; and     *)
(* whatever they do to it, the messages of one sender come in their order  *)
(* and the size is only so far off.                                        *)
(***************************************************************************)
EXTENDS ChatServer, FiniteSetTheorems, TLAPS

Phases == {"new", "open", "upgraded", "closing", "dead"}
OpType == [kind : {"idle", "cast"} \union Adds \union Removes,
           ch : Channels \union {None}, at : Int, count : Int,
           expected : Nat, msg : 0..MaxMsgs]

Types ==
    /\ phase \in [Channels -> Phases]
    /\ loopOf \in [Channels -> Loops \union {None}]
    /\ DOMAIN array = 1..Slots
    /\ size \in Int /\ modCount \in Nat
    /\ op \in [Loops -> OpType]
    /\ sent \in 0..MaxMsgs
    /\ due \in [1..MaxMsgs -> SUBSET Channels]
    /\ got \in [Channels -> Seq(1..MaxMsgs)]
    /\ raced \in BOOLEAN

\* An event loop works for a channel of its own.
OwnInv ==
    \A l \in Loops :
        IF op[l].kind = "idle" THEN op[l] = Idle
        ELSE /\ op[l].ch \in Channels /\ loopOf[op[l].ch] = l
             /\ phase[op[l].ch] # "new"
             /\ op[l].kind \in Removes => phase[op[l].ch] = "dead"
             /\ op[l].kind \in Adds => phase[op[l].ch] # "dead"

\* Every broadcast has a message of its own, and who was in the chat when it
\* began does not come into the chat again.
CastInv ==
    /\ \A l \in Loops : op[l].kind = "cast" => op[l].msg \in 1..sent
    /\ \A k, l \in Loops :
          /\ op[k].kind = "cast" /\ op[l].kind = "cast"
          /\ op[k].msg = op[l].msg
          => k = l
    /\ \A m \in 1..MaxMsgs : \A x \in due[m] :
          m <= sent /\ phase[x] \in {"upgraded", "closing", "dead"}

\* Types, owners and messages, whatever the event loops do to the list.
BaseInv == Types /\ OwnInv /\ CastInv

-----------------------------------------------------------------------------
\* What a step does to the types, part by part.
LEMMA TypesParts ==
    ASSUME Types, raced' \in BOOLEAN, sent' \in 0..MaxMsgs,
           NEW l \in Loops, NEW ch \in Channels, NEW o \in OpType,
           NEW f \in Phases,
           op' \in {op, [op EXCEPT ![l] = o]},
           phase' \in {phase, [phase EXCEPT ![ch] = f]},
           loopOf' \in {loopOf, [loopOf EXCEPT ![ch] = l]},
           DOMAIN array' = 1..Slots,
           size' \in Int, modCount' \in Nat,
           due' \in [1..MaxMsgs -> SUBSET Channels],
           got' \in [Channels -> Seq(1..MaxMsgs)]
    PROVE  Types'
<1>1. op' \in [Loops -> OpType]
  BY DEF Types
<1>2. phase' \in [Channels -> Phases]
  BY DEF Types
<1>3. loopOf' \in [Channels -> Loops \union {None}]
  BY DEF Types
<1> QED
  BY <1>1, <1>2, <1>3 DEF Types, OpType, Phases

LEMMA IdleType == Idle \in OpType
BY ChatAssumption DEF ChatAssumption, Idle, OpType

LEMMA BusyType ==
    ASSUME NEW k \in {"add", "remove", "cast"}, NEW ch \in Channels,
           NEW i \in Int, NEW n \in Int, NEW e \in Nat, NEW m \in 0..MaxMsgs
    PROVE  /\ Busy(k, ch, i, n, e, m) \in OpType
           /\ Busy(k, ch, i, n, e, m).kind = k
           /\ Busy(k, ch, i, n, e, m).ch = ch
           /\ Busy(k, ch, i, n, e, m).at = i
           /\ Busy(k, ch, i, n, e, m).count = n
           /\ Busy(k, ch, i, n, e, m).expected = e
           /\ Busy(k, ch, i, n, e, m).msg = m
<1>1. k \in {"idle", "cast"} \union Adds \union Removes
  BY DEF Adds, Removes
<1> QED
  BY <1>1 DEF Busy, OpType

\* The steps of add and fastRemove behind the first one.
Works(l) == \/ AddStore(l) \/ AddSize(l) \/ RemoveCount(l) \/ RemoveShift(l)
            \/ RemoveSize(l) \/ RemoveClear(l)

LEMMA WorkIs ==
    ASSUME BaseInv, NEW l \in Loops, Works(l)
    PROVE  /\ UNCHANGED <<phase, loopOf, sent, sender, due, got>>
           /\ \E o \in OpType :
                 /\ op' = [op EXCEPT ![l] = o]
                 /\ o = Idle \/ (o.ch = op[l].ch /\ o.at = op[l].at)
                 /\ op[l].kind \in Adds =>
                       o = Idle \/ (o.kind = "stored" /\ o.count = op[l].count)
                 /\ op[l].kind \in Removes =>
                       o = Idle \/ o.kind \in {"shift", "shrink", "clear"}
           /\ op[l].kind \in Adds \union Removes
<1>1. op[l] \in OpType /\ size \in Int
  BY DEF BaseInv, Types
<1>2. Idle \in OpType
  BY IdleType
<1>3. CASE AddStore(l)
  <2> DEFINE o == [op[l] EXCEPT !.kind = "stored"]
  <2>1. /\ o \in OpType /\ o.kind = "stored" /\ o.ch = op[l].ch
        /\ o.at = op[l].at /\ o.count = op[l].count
    BY <1>1 DEF OpType, Adds
  <2> QED
    BY <1>3, <2>1 DEF AddStore, SetOp, Adds, Removes
<1>4. CASE AddSize(l) \/ RemoveClear(l)
  BY <1>2, <1>4 DEF AddSize, RemoveClear, SetOp, Adds, Removes
<1>5. CASE RemoveCount(l)
  <2> DEFINE o == [op[l] EXCEPT !.kind = "shift", !.count = size]
  <2>1. o \in OpType /\ o.kind = "shift" /\ o.ch = op[l].ch /\ o.at = op[l].at
    BY <1>1 DEF OpType, Removes
  <2> QED
    BY <1>5, <2>1 DEF RemoveCount, SetOp, Adds, Removes
<1>6. CASE RemoveShift(l)
  <2> DEFINE o == [op[l] EXCEPT !.kind = "shrink"]
  <2>1. o \in OpType /\ o.kind = "shrink" /\ o.ch = op[l].ch /\ o.at = op[l].at
    BY <1>1 DEF OpType, Removes
  <2> QED
    BY <1>6, <2>1 DEF RemoveShift, SetOp, Adds, Removes
<1>7. CASE RemoveSize(l)
  <2> DEFINE o == [op[l] EXCEPT !.kind = "clear"]
  <2>1. o \in OpType /\ o.kind = "clear" /\ o.ch = op[l].ch /\ o.at = op[l].at
    BY <1>1 DEF OpType, Removes
  <2> QED
    BY <1>7, <2>1 DEF RemoveSize, SetOp, Adds, Removes
<1> QED
  BY <1>3, <1>4, <1>5, <1>6, <1>7 DEF Works

\* A step that begins no broadcast.
LEMMA CastParts ==
    ASSUME Types, CastInv, sent' = sent, due' = due,
           \A k \in Loops : op'[k].kind = "cast" =>
               op[k].kind = "cast" /\ op'[k].msg = op[k].msg,
           \A x \in Channels : phase[x] \in {"upgraded", "closing", "dead"}
               => phase'[x] \in {"upgraded", "closing", "dead"}
    PROVE  CastInv'
<1>1. \A m \in 1..MaxMsgs : \A x \in due[m] : x \in Channels
  BY DEF Types
<1>2. \A m \in 1..MaxMsgs : \A x \in due'[m] :
         m <= sent' /\ phase'[x] \in {"upgraded", "closing", "dead"}
  BY <1>1 DEF CastInv
<1> QED
  BY <1>2 DEF CastInv

LEMMA ActiveBase ==
    ASSUME BaseInv, NEW ch \in Channels, NEW l \in Loops,
           ChannelActive(ch, l), raced' \in BOOLEAN
    PROVE  BaseInv'
<1>1. /\ phase' = [phase EXCEPT ![ch] = "open"] /\ phase[ch] = "new"
      /\ loopOf' = [loopOf EXCEPT ![ch] = l]
      /\ modCount' = modCount + 1 /\ modCount' \in Nat /\ op[l] = Idle
      /\ UNCHANGED <<array, size, sent, sender, due, got>>
  BY DEF ChannelActive, BaseInv, Types
<1>2. PICK o \in OpType :
         op' = [op EXCEPT ![l] = o] /\ o.kind = "add" /\ o.ch = ch
  <2>1. size \in Int /\ 0 \in 0..MaxMsgs
    BY ChatAssumption DEF ChatAssumption, BaseInv, Types
  <2>2. LET o == Busy("add", ch, 0, size, 0, 0)
        IN  o \in OpType /\ o.kind = "add" /\ o.ch = ch
    BY <2>1, BusyType
  <2> QED
    BY <2>2 DEF ChannelActive, SetOp
<1>3. Types'
  BY <1>1, <1>2, TypesParts DEF BaseInv, Types, Phases
<1>4. OwnInv'
  <2>1. \A x \in Channels : x # ch =>
           phase'[x] = phase[x] /\ loopOf'[x] = loopOf[x]
    BY <1>1 DEF BaseInv, Types
  <2>2. phase'[ch] = "open" /\ loopOf'[ch] = l
    BY <1>1 DEF BaseInv, Types
  <2>3. \A k \in Loops : op'[k] = IF k = l THEN o ELSE op[k]
    BY <1>2 DEF BaseInv, Types
  <2>4. \A k \in Loops : k # l /\ op[k].kind # "idle" => op[k].ch # ch
    BY <1>1 DEF BaseInv, OwnInv
  <2> QED
    BY <1>2, <2>1, <2>2, <2>3, <2>4 DEF BaseInv, OwnInv, Adds, Removes
<1>5. CastInv'
  <2>1. \A k \in Loops : op'[k].kind = "cast" => op'[k] = op[k]
    BY <1>1, <1>2 DEF BaseInv, Types
  <2>2. \A x \in Channels : phase[x] \in {"upgraded", "closing", "dead"}
           => phase'[x] \in {"upgraded", "closing", "dead"}
    BY <1>1 DEF BaseInv, Types
  <2> QED
    BY <1>1, <2>1, <2>2, CastParts DEF BaseInv
<1> QED
  BY <1>3, <1>4, <1>5 DEF BaseInv

LEMMA WorkBase ==
    ASSUME BaseInv, NEW l \in Loops, Works(l), raced' \in BOOLEAN
    PROVE  BaseInv'
<1>1. /\ UNCHANGED <<phase, loopOf, sent, due, got>>
      /\ op[l].kind \in Adds \union Removes
  BY WorkIs
<1>2. PICK o \in OpType :
         /\ op' = [op EXCEPT ![l] = o]
         /\ o = Idle \/ o.ch = op[l].ch
         /\ op[l].kind \in Adds => o = Idle \/ o.kind = "stored"
         /\ op[l].kind \in Removes =>
               o = Idle \/ o.kind \in {"shift", "shrink", "clear"}
  BY WorkIs
<1>3. DOMAIN array' = 1..Slots /\ size' \in Int /\ modCount' \in Nat
  <2>1. size \in Int /\ modCount \in Nat /\ DOMAIN array = 1..Slots
        /\ op[l].count \in Int
    BY DEF BaseInv, Types, OpType
  <2>2. CASE AddStore(l)
    BY <2>1, <2>2 DEF AddStore
  <2>3. CASE AddSize(l) \/ RemoveCount(l) \/ RemoveSize(l)
    BY <2>1, <2>3 DEF AddSize, RemoveCount, RemoveSize
  <2>4. CASE RemoveShift(l) \/ RemoveClear(l)
    BY <2>1, <2>4 DEF RemoveShift, RemoveClear, Shifted
  <2> QED
    BY <2>2, <2>3, <2>4 DEF Works
<1>4. op[l].ch \in Channels /\ op[l].kind # "idle"
  BY <1>1 DEF BaseInv, OwnInv, Adds, Removes
<1>5. Types'
  BY <1>1, <1>2, <1>3, <1>4, TypesParts DEF BaseInv, Types
<1>6. \A k \in Loops : op'[k] = IF k = l THEN o ELSE op[k]
  BY <1>2 DEF BaseInv, Types
<1>7. OwnInv'
  <2>1. ASSUME NEW k \in Loops, k # l
        PROVE  IF op'[k].kind = "idle" THEN op'[k] = Idle
               ELSE /\ op'[k].ch \in Channels /\ loopOf'[op'[k].ch] = k
                    /\ phase'[op'[k].ch] # "new"
                    /\ op'[k].kind \in Removes => phase'[op'[k].ch] = "dead"
                    /\ op'[k].kind \in Adds => phase'[op'[k].ch] # "dead"
    BY <1>1, <1>6, <2>1 DEF BaseInv, OwnInv
  <2>2. IF op'[l].kind = "idle" THEN op'[l] = Idle
        ELSE /\ op'[l].ch \in Channels /\ loopOf'[op'[l].ch] = l
             /\ phase'[op'[l].ch] # "new"
             /\ op'[l].kind \in Removes => phase'[op'[l].ch] = "dead"
             /\ op'[l].kind \in Adds => phase'[op'[l].ch] # "dead"
    BY <1>1, <1>2, <1>4, <1>6
    DEF BaseInv, OwnInv, Adds, Removes, Idle
  <2> QED
    BY <2>1, <2>2 DEF OwnInv
<1>8. \A k \in Loops : op'[k].kind = "cast" => op'[k] = op[k]
  BY <1>1, <1>2, <1>6 DEF Idle
<1>9. CastInv'
  BY <1>1, <1>8, CastParts DEF BaseInv
<1> QED
  BY <1>5, <1>7, <1>9 DEF BaseInv

LEMMA FailsBase ==
    ASSUME BaseInv, NEW l \in Loops, AddFails(l) \/ BroadcastFails(l),
           raced' \in BOOLEAN
    PROVE  BaseInv'
<1> DEFINE ch == op[l].ch
<1>1. /\ op[l].kind \in {"add", "cast"} /\ ch \in Channels
      /\ phase' = [phase EXCEPT ![ch] = IF @ = "dead" THEN @ ELSE "closing"]
      /\ op' = [op EXCEPT ![l] = Idle]
      /\ UNCHANGED <<loopOf, array, size, modCount, sent, due, got>>
  BY DEF BaseInv, OwnInv, AddFails, BroadcastFails, Casting, SetOp, list,
         Closed, Idle
<1>2. PICK f \in Phases :
         /\ phase' = [phase EXCEPT ![ch] = f]
         /\ phase[ch] = "dead" => f = "dead"
         /\ phase[ch] # "dead" => f = "closing"
  BY <1>1 DEF Phases
<1>3. Types'
  BY <1>1, <1>2, TypesParts, IdleType DEF BaseInv, Types
<1>4. OwnInv'
  BY <1>1, <1>2 DEF BaseInv, Types, OwnInv, Idle
<1>5. \A k \in Loops : op'[k].kind = "cast" => op'[k] = op[k]
  BY <1>1 DEF BaseInv, Types, Idle
<1>6. \A x \in Channels : phase[x] \in {"upgraded", "closing", "dead"}
         => phase'[x] \in {"upgraded", "closing", "dead"}
  BY <1>1, <1>2 DEF BaseInv, Types
<1>7. CastInv'
  BY <1>1, <1>5, <1>6, CastParts DEF BaseInv
<1> QED
  BY <1>3, <1>4, <1>7 DEF BaseInv

LEMMA UpgradeBase ==
    ASSUME BaseInv, NEW ch \in Channels, Upgrade(ch) \/ Close(ch),
           raced' \in BOOLEAN
    PROVE  BaseInv'
<1>1. /\ phase[ch] \in {"open", "upgraded"}
      /\ phase' \in {[phase EXCEPT ![ch] = "upgraded"],
                     [phase EXCEPT ![ch] = "closing"]}
      /\ UNCHANGED <<loopOf, array, size, modCount, op, sent, due, got>>
  BY DEF Upgrade, Close, list
<1>2. Types'
  BY <1>1 DEF BaseInv, Types, Phases
<1>3. OwnInv'
  BY <1>1 DEF BaseInv, Types, OwnInv
<1>4. \A x \in Channels : phase[x] \in {"upgraded", "closing", "dead"}
         => phase'[x] \in {"upgraded", "closing", "dead"}
  BY <1>1 DEF BaseInv, Types
<1>5. CastInv'
  BY <1>1, <1>4, CastParts DEF BaseInv
<1> QED
  BY <1>2, <1>3, <1>5 DEF BaseInv

\* What channelInactive begins, if it finds the channel.
LEMMA InactiveIs ==
    ASSUME BaseInv, NEW ch \in Channels, ChannelInactive(ch)
    PROVE  /\ loopOf[ch] \in Loops /\ op[loopOf[ch]] = Idle
           /\ phase[ch] = "closing" /\ phase' = [phase EXCEPT ![ch] = "dead"]
           /\ UNCHANGED <<loopOf, array, size, modCount, sent, sender, due, got>>
           /\ \/ op' = op /\ Places(ch) = {}
              \/ \E i \in 1..size : \E o \in OpType :
                    /\ array[i] = ch /\ op' = [op EXCEPT ![loopOf[ch]] = o]
                    /\ o.kind = "remove" /\ o.ch = ch /\ o.at = i
                    /\ o.count = 0
<1>1. /\ loopOf[ch] \in Loops /\ op[loopOf[ch]] = Idle
      /\ phase[ch] = "closing" /\ phase' = [phase EXCEPT ![ch] = "dead"]
      /\ UNCHANGED <<loopOf, array, size, modCount, sent, sender, due, got>>
  BY DEF BaseInv, Types, ChannelInactive, Free, list
<1>2. CASE Places(ch) = {}
  BY <1>1, <1>2 DEF ChannelInactive
<1>3. CASE Places(ch) # {}
  <2>1. PICK i \in Places(ch) :
           op' = [op EXCEPT ![loopOf[ch]] = Busy("remove", ch, i, 0, 0, 0)]
    BY <1>3 DEF ChannelInactive, SetOp
  <2>2. i \in 1..size /\ i \in Int /\ array[i] = ch /\ 0 \in 0..MaxMsgs
    BY <2>1, ChatAssumption DEF ChatAssumption, Places, BaseInv, Types
  <2> DEFINE o == Busy("remove", ch, i, 0, 0, 0)
  <2>3. /\ o \in OpType /\ o.kind = "remove" /\ o.ch = ch
        /\ o.at = i /\ o.count = 0
    <3>1. ASSUME NEW n \in Int
          PROVE  LET b == Busy("remove", ch, n, 0, 0, 0)
                 IN  /\ b \in OpType /\ b.kind = "remove" /\ b.ch = ch
                     /\ b.at = n /\ b.count = 0
      BY <2>2, BusyType
    <3> QED
      BY <2>2, <3>1
  <2>4. op' = [op EXCEPT ![loopOf[ch]] = o]
    BY <2>1
  <2> HIDE DEF o
  <2> QED
    BY <1>1, <2>2, <2>3, <2>4
<1> QED
  BY <1>2, <1>3

LEMMA InactiveBase ==
    ASSUME BaseInv, NEW ch \in Channels, ChannelInactive(ch),
           raced' \in BOOLEAN
    PROVE  BaseInv'
<1> DEFINE l == loopOf[ch]
<1>1. /\ l \in Loops /\ op[l] = Idle /\ phase[ch] = "closing"
      /\ phase' = [phase EXCEPT ![ch] = "dead"]
      /\ UNCHANGED <<loopOf, array, size, modCount, sent, due, got>>
  BY InactiveIs
<1>2. PICK o \in OpType :
         /\ op' \in {op, [op EXCEPT ![l] = o]}
         /\ o.kind = "remove" => o.ch = ch
         /\ o.kind \in {"remove", "idle"} /\ (o.kind = "idle" => o = Idle)
  BY InactiveIs, IdleType DEF Idle
<1> HIDE DEF l
<1>3. Types'
  BY <1>1, <1>2, TypesParts DEF BaseInv, Types, Phases
<1>4. OwnInv'
  <2>1. \A x \in Channels : phase'[x] = IF x = ch THEN "dead" ELSE phase[x]
    BY <1>1 DEF BaseInv, Types
  <2>2. \A k \in Loops : op'[k] = op[k] \/ (k = l /\ op'[k] = o)
    BY <1>2 DEF BaseInv, Types
  <2>3. \A k \in Loops : op[k].kind # "idle" => op[k].ch # ch
    BY <1>1 DEF BaseInv, OwnInv, Idle, l
  <2> QED
    BY <1>1, <1>2, <2>1, <2>2, <2>3 DEF BaseInv, OwnInv, Adds, Removes, l
<1>5. \A k \in Loops : op'[k].kind = "cast" => op'[k] = op[k]
  BY <1>1, <1>2 DEF BaseInv, Types
<1>6. \A x \in Channels : phase[x] \in {"upgraded", "closing", "dead"}
         => phase'[x] \in {"upgraded", "closing", "dead"}
  BY <1>1 DEF BaseInv, Types
<1>7. CastInv'
  BY <1>1, <1>5, <1>6, CastParts DEF BaseInv
<1> QED
  BY <1>3, <1>4, <1>7 DEF BaseInv

\* What a broadcast begins with.
LEMMA BroadcastIs ==
    ASSUME BaseInv, NEW ch \in Channels, Broadcast(ch)
    PROVE  /\ loopOf[ch] \in Loops /\ op[loopOf[ch]] = Idle
           /\ sent \in Nat /\ MaxMsgs \in Nat /\ sent + 1 \in 1..MaxMsgs
           /\ phase[ch] = "upgraded" /\ sent' = sent + 1
           /\ sender' = [sender EXCEPT ![sent + 1] = ch]
           /\ due' = [due EXCEPT ![sent + 1] =
                        {x \in Channels : phase[x] = "upgraded"}]
           /\ UNCHANGED <<phase, loopOf, array, size, modCount, got>>
           /\ \E o \in OpType :
                 /\ op' = [op EXCEPT ![loopOf[ch]] = o]
                 /\ o.kind = "cast" /\ o.ch = ch /\ o.msg = sent + 1
                 /\ o.expected = modCount /\ o.at = 0 /\ o.count = 0
<1>1. /\ loopOf[ch] \in Loops /\ op[loopOf[ch]] = Idle
      /\ sent \in Nat /\ MaxMsgs \in Nat /\ sent + 1 \in 1..MaxMsgs
  BY ChatAssumption DEF ChatAssumption, BaseInv, Types, Broadcast, Free
<1>2. sent + 1 \in 0..MaxMsgs /\ modCount \in Nat
  BY <1>1 DEF BaseInv, Types
<1>3. LET o == Busy("cast", ch, 0, 0, modCount, sent + 1)
      IN  /\ o \in OpType /\ o.kind = "cast" /\ o.ch = ch
          /\ o.msg = sent + 1 /\ o.expected = modCount
          /\ o.at = 0 /\ o.count = 0
  BY <1>2, BusyType
<1> QED
  BY <1>1, <1>3 DEF Broadcast, SetOp, list

LEMMA BroadcastBase ==
    ASSUME BaseInv, NEW ch \in Channels, Broadcast(ch), raced' \in BOOLEAN
    PROVE  BaseInv'
<1> DEFINE l == loopOf[ch]
<1>1. /\ l \in Loops /\ op[l] = Idle /\ sent \in Nat /\ sent + 1 \in 1..MaxMsgs
      /\ due' = [due EXCEPT ![sent + 1] =
                    {x \in Channels : phase[x] = "upgraded"}]
      /\ sent' = sent + 1 /\ phase[ch] = "upgraded"
      /\ UNCHANGED <<phase, loopOf, array, size, modCount, got>>
  BY BroadcastIs
<1>2. PICK o \in OpType :
         /\ op' = [op EXCEPT ![l] = o]
         /\ o.kind = "cast" /\ o.ch = ch /\ o.msg = sent + 1
  BY BroadcastIs
<1>3. Types'
  BY <1>1, <1>2 DEF BaseInv, Types
<1>4. OwnInv'
  BY <1>1, <1>2 DEF BaseInv, Types, OwnInv, Idle, Adds, Removes
<1>5. CastInv'
  BY <1>1, <1>2 DEF BaseInv, Types, CastInv, Idle
<1> QED
  BY <1>3, <1>4, <1>5 DEF BaseInv

\* What the next step of a broadcast writes.
LEMMA NextIs ==
    ASSUME BaseInv, NEW l \in Loops, BroadcastNext(l)
    PROVE  /\ op[l].kind = "cast" /\ op[l].at \in Int
           /\ op[l].expected = modCount /\ op[l].at # size
           /\ ~(op[l].at > size)
           /\ op[l].ch \in Channels /\ op[l].msg \in 1..sent
           /\ op[l].msg \in 1..MaxMsgs
           /\ got' = IF phase[array[op[l].at + 1]] = "upgraded"
                     THEN [got EXCEPT ![array[op[l].at + 1]] =
                                         Append(@, op[l].msg)]
                     ELSE got
           /\ UNCHANGED <<phase, loopOf, array, size, modCount, sent, sender, due>>
           /\ \E o \in OpType :
                 /\ op' = [op EXCEPT ![l] = o]
                 /\ o.kind = "cast" /\ o.ch = op[l].ch /\ o.msg = op[l].msg
                 /\ o.at = op[l].at + 1 /\ o.count = op[l].count
                 /\ o.expected = op[l].expected
<1>1. op[l] \in OpType /\ op[l].kind = "cast" /\ op[l].at \in Int
  BY DEF BaseInv, Types, OpType, BroadcastNext, Casting
<1>2. op[l].ch \in Channels /\ op[l].msg \in 1..sent /\ sent \in 0..MaxMsgs
  BY <1>1 DEF BaseInv, OwnInv, CastInv, Types
<1>3. op[l].msg \in 1..MaxMsgs
  BY <1>2, ChatAssumption DEF ChatAssumption
<1> DEFINE o == [op[l] EXCEPT !.at = @ + 1]
<1>4. /\ o \in OpType /\ o.kind = "cast" /\ o.ch = op[l].ch
      /\ o.msg = op[l].msg /\ o.at = op[l].at + 1 /\ o.count = op[l].count
      /\ o.expected = op[l].expected
  BY <1>1 DEF OpType
<1>5. op' = [op EXCEPT ![l] = o]
  BY DEF BroadcastNext
<1> HIDE DEF o
<1> QED
  BY <1>1, <1>2, <1>3, <1>4, <1>5
  DEF BroadcastNext, Casting, HasNext, NextFails, list

LEMMA NextBase ==
    ASSUME BaseInv, NEW l \in Loops, BroadcastNext(l), raced' \in BOOLEAN
    PROVE  BaseInv'
<1> DEFINE to == array[op[l].at + 1]
           m == op[l].msg
<1>1. /\ m \in 1..MaxMsgs /\ op[l].kind = "cast" /\ op[l].ch \in Channels
      /\ got' \in {[got EXCEPT ![to] = Append(@, m)], got}
      /\ UNCHANGED <<phase, loopOf, array, size, modCount, sent, due>>
  BY NextIs
<1>2. PICK o \in OpType :
         /\ op' = [op EXCEPT ![l] = o]
         /\ o.kind = "cast" /\ o.ch = op[l].ch /\ o.msg = m
  BY NextIs
<1>3. got' \in [Channels -> Seq(1..MaxMsgs)]
  <2>1. \A x \in Channels : got[x] \in Seq(1..MaxMsgs)
    BY DEF BaseInv, Types
  <2>2. \A x \in Channels : Append(got[x], m) \in Seq(1..MaxMsgs)
    BY <1>1, <2>1
  <2>3. got \in [Channels -> Seq(1..MaxMsgs)]
    BY DEF BaseInv, Types
  <2>4. CASE got' = [got EXCEPT ![to] = Append(@, m)]
    <3> HIDE DEF to, m
    <3>1. DOMAIN got' = Channels
      BY <2>3, <2>4
    <3>2. \A x \in Channels : got'[x] \in {got[x], Append(got[x], m)}
      BY <2>3, <2>4
    <3>3. got' = [x \in Channels |-> got'[x]]
      BY <2>3, <2>4
    <3> QED
      BY <2>1, <2>2, <3>2, <3>3
  <2> QED
    BY <1>1, <2>3, <2>4
<1>4. Types'
  BY <1>1, <1>2, <1>3, TypesParts DEF BaseInv, Types
<1>5. OwnInv'
  BY <1>1, <1>2 DEF BaseInv, Types, OwnInv, Adds, Removes
<1>6. \A k \in Loops : op'[k].kind = "cast" =>
         op[k].kind = "cast" /\ op'[k].msg = op[k].msg
  BY <1>1, <1>2 DEF BaseInv, Types
<1>7. CastInv'
  BY <1>1, <1>6, CastParts DEF BaseInv
<1> QED
  BY <1>4, <1>5, <1>7 DEF BaseInv

LEMMA EndBase ==
    ASSUME BaseInv, NEW l \in Loops, BroadcastEnd(l), raced' \in BOOLEAN
    PROVE  BaseInv'
<1>1. /\ op[l].kind = "cast" /\ op[l].ch \in Channels
      /\ op' = [op EXCEPT ![l] = Idle]
      /\ UNCHANGED <<phase, loopOf, array, size, modCount, sent, due, got>>
  BY DEF BaseInv, OwnInv, BroadcastEnd, Casting, SetOp, list, Idle
<1>2. Types'
  BY <1>1, TypesParts, IdleType DEF BaseInv, Types
<1>3. OwnInv'
  BY <1>1 DEF BaseInv, Types, OwnInv, Idle
<1>4. \A k \in Loops : op'[k].kind = "cast" => op'[k] = op[k]
  BY <1>1 DEF BaseInv, Types, Idle
<1>5. CastInv'
  BY <1>1, <1>4, CastParts DEF BaseInv
<1> QED
  BY <1>2, <1>3, <1>5 DEF BaseInv

LEMMA BaseInit ==
    ASSUME Init
    PROVE  BaseInv
<1> USE ChatAssumption DEF ChatAssumption, Init
<1>1. /\ phase \in [Channels -> Phases]
      /\ loopOf \in [Channels -> Loops \union {None}]
      /\ DOMAIN array = 1..Slots
      /\ size \in Int /\ modCount \in Nat /\ sent \in 0..MaxMsgs
  BY DEF Phases
<1>2. raced \in BOOLEAN
  OBVIOUS
<1>3. op \in [Loops -> OpType] /\ \A l \in Loops : op[l] = Idle
  BY IdleType
<1>4. due \in [1..MaxMsgs -> SUBSET Channels]
  OBVIOUS
<1>5. got \in [Channels -> Seq(1..MaxMsgs)]
  <2>1. << >> \in Seq(1..MaxMsgs)
    OBVIOUS
  <2> QED
    BY <2>1
<1>6. Types
  BY <1>1, <1>2, <1>3, <1>4, <1>5 DEF Types
<1>7. OwnInv
  BY <1>3 DEF OwnInv, Idle
<1>8. CastInv
  BY <1>3 DEF CastInv, Idle
<1> QED
  BY <1>6, <1>7, <1>8 DEF BaseInv

LEMMA BaseNext ==
    ASSUME BaseInv, [Next]_vars
    PROVE  BaseInv'
<1>1. CASE UNCHANGED vars
  BY <1>1 DEF vars, list, BaseInv, Types, OwnInv, CastInv
<1>2. CASE Next
  <2>1. raced' \in BOOLEAN
    BY <1>2 DEF Next, BaseInv, Types
  <2>2. CASE \E ch \in Channels : ChannelStep(ch)
    BY <2>1, <2>2, ActiveBase, UpgradeBase, InactiveBase, BroadcastBase
    DEF ChannelStep
  <2>3. CASE \E l \in Loops : LoopStep(l)
    BY <2>1, <2>3, WorkBase, FailsBase, NextBase, EndBase
    DEF LoopStep, Works
  <2> QED
    BY <1>2, <2>2, <2>3 DEF Next
<1> QED
  BY <1>1, <1>2

-----------------------------------------------------------------------------
(***************************************************************************)
(* Who is written what, whatever the event loops do to the list.           *)
(***************************************************************************)

\* A running broadcast is the last one of its sender.
SenderInv ==
    /\ sender \in [1..MaxMsgs -> Channels \union {None}]
    /\ \A ch \in Channels : \A i \in DOMAIN got[ch] : got[ch][i] <= sent
    /\ \A l \in Loops : op[l].kind = "cast" =>
          /\ sender[op[l].msg] = op[l].ch
          /\ \A m \in 1..sent : sender[m] = op[l].ch => m <= op[l].msg
OrderInv ==
    \A ch \in Channels : \A i, j \in DOMAIN got[ch] :
        i < j /\ sender[got[ch][i]] = sender[got[ch][j]]
            => got[ch][i] <= got[ch][j]

LEMMA SenderKeeps ==
    ASSUME SenderInv, sender' = sender, sent' = sent, got' = got,
           \A k \in Loops : op'[k].kind = "cast" => op'[k] = op[k]
    PROVE  SenderInv'
BY DEF SenderInv

LEMMA SeqIs ==
    ASSUME NEW S, NEW s \in Seq(S)
    PROVE  /\ Len(s) \in Nat /\ DOMAIN s = 1..Len(s)
           /\ \A i \in 1..Len(s) : s[i] \in S
OBVIOUS

LEMMA GotIs ==
    ASSUME BaseInv, NEW x \in Channels
    PROVE  /\ got[x] \in Seq(1..MaxMsgs) /\ Len(got[x]) \in Nat
           /\ DOMAIN got[x] = 1..Len(got[x])
           /\ \A i \in 1..Len(got[x]) : got[x][i] \in 1..MaxMsgs
<1>1. got[x] \in Seq(1..MaxMsgs)
  BY DEF BaseInv, Types
<1> QED
  BY <1>1, SeqIs

LEMMA CastSender ==
    ASSUME BaseInv, SenderInv, OrderInv, NEW ch \in Channels, Broadcast(ch)
    PROVE  SenderInv' /\ OrderInv'
<1> DEFINE l == loopOf[ch]
<1>1. /\ sent' = sent + 1 /\ got' = got
      /\ sender' = [sender EXCEPT ![sent + 1] = ch]
      /\ l \in Loops /\ op[l] = Idle
      /\ sent \in Nat /\ MaxMsgs \in Nat /\ sent + 1 \in 1..MaxMsgs
  BY BroadcastIs
<1>2. /\ \A m \in 1..sent : m \in 1..MaxMsgs /\ m # sent + 1
      /\ \A m \in 1..sent + 1 : m \in 1..sent \/ m = sent + 1
  BY <1>1
<1>3. /\ sender' \in [1..MaxMsgs -> Channels \union {None}]
      /\ sender'[sent + 1] = ch
      /\ \A m \in 1..sent : sender'[m] = sender[m]
  BY <1>1, <1>2 DEF SenderInv
<1>4. PICK o \in OpType :
         /\ op' = [op EXCEPT ![l] = o]
         /\ o.kind = "cast" /\ o.ch = ch /\ o.msg = sent + 1
  BY BroadcastIs
<1>5. \A k \in Loops : op'[k] = IF k = l THEN o ELSE op[k]
  BY <1>1, <1>4 DEF BaseInv, Types
<1>6. \A k \in Loops : k # l /\ op[k].kind = "cast" =>
         op[k].ch # ch /\ op[k].msg \in 1..sent
  BY DEF BaseInv, OwnInv, CastInv
<1>7. \A x \in Channels : \A i \in DOMAIN got[x] : got[x][i] \in 1..sent
  <2>1. \A x \in Channels : \A i \in DOMAIN got[x] : got[x][i] \in 1..MaxMsgs
    BY GotIs
  <2>2. \A x \in Channels : \A i \in DOMAIN got[x] : got[x][i] <= sent
    BY DEF SenderInv
  <2> QED
    BY <1>1, <2>1, <2>2
<1> HIDE DEF l
<1>8. ASSUME NEW k \in Loops, op'[k].kind = "cast"
      PROVE  /\ sender'[op'[k].msg] = op'[k].ch
             /\ \A m \in 1..sent' : sender'[m] = op'[k].ch => m <= op'[k].msg
  <2>1. CASE k = l
    BY <1>1, <1>3, <1>4, <1>5, <2>1
  <2>2. CASE k # l
    <3>1. /\ op'[k] = op[k] /\ op[k].kind = "cast" /\ op[k].ch # ch
          /\ op[k].msg \in 1..sent
      BY <1>5, <1>6, <1>8, <2>2
    <3>2. \A m \in 1..sent' : sender'[m] = op[k].ch
             => m \in 1..sent /\ sender[m] = op[k].ch
      BY <1>1, <1>2, <1>3, <3>1
    <3>3. /\ sender[op[k].msg] = op[k].ch
          /\ \A m \in 1..sent : sender[m] = op[k].ch => m <= op[k].msg
      BY <3>1 DEF SenderInv
    <3> QED
      BY <1>3, <3>1, <3>2, <3>3
  <2> QED
    BY <2>1, <2>2
<1>9. \A x \in Channels : \A i \in DOMAIN got'[x] : got'[x][i] <= sent'
  BY <1>1, <1>7
<1>10. SenderInv'
  BY <1>3, <1>8, <1>9 DEF SenderInv
<1>11. \A x \in Channels : \A i \in DOMAIN got[x] :
          sender'[got'[x][i]] = sender[got[x][i]]
  BY <1>1, <1>3, <1>7
<1>12. OrderInv'
  BY <1>1, <1>11 DEF OrderInv
<1> QED
  BY <1>10, <1>12

LEMMA NextSender ==
    ASSUME BaseInv, SenderInv, OrderInv, NEW l \in Loops, BroadcastNext(l)
    PROVE  SenderInv' /\ OrderInv'
<1> DEFINE to == array[op[l].at + 1]
           m == op[l].msg
<1>1. /\ op[l].kind = "cast" /\ m \in 1..MaxMsgs /\ m \in 1..sent
      /\ sent' = sent /\ sender' = sender
      /\ got' = IF phase[to] = "upgraded"
                THEN [got EXCEPT ![to] = Append(@, m)] ELSE got
  BY NextIs
<1>2. PICK o \in OpType :
         /\ op' = [op EXCEPT ![l] = o]
         /\ o.kind = "cast" /\ o.ch = op[l].ch /\ o.msg = m
  BY NextIs
<1>3. \A k \in Loops : /\ op'[k].kind = op[k].kind /\ op'[k].msg = op[k].msg
                       /\ op'[k].ch = op[k].ch
  BY <1>1, <1>2 DEF BaseInv, Types
<1>4. /\ sender[m] = op[l].ch
      /\ \A n \in 1..sent : sender[n] = op[l].ch => n <= m
  BY <1>1 DEF SenderInv
<1>5. \A x \in Channels :
         /\ got[x] \in Seq(1..MaxMsgs) /\ Len(got[x]) \in Nat
         /\ DOMAIN got[x] = 1..Len(got[x])
         /\ \A i \in 1..Len(got[x]) : got[x][i] \in 1..MaxMsgs
  BY GotIs
<1>6. \A x \in Channels : \A i \in 1..Len(got[x]) : got[x][i] \in 1..sent
  <2>1. \A x \in Channels : \A i \in 1..Len(got[x]) : got[x][i] <= sent
    BY <1>5 DEF SenderInv
  <2>2. sent \in 0..MaxMsgs /\ MaxMsgs \in Nat
    BY ChatAssumption DEF BaseInv, Types, ChatAssumption
  <2> QED
    BY <1>5, <2>1, <2>2
<1>7. \A x \in Channels : got'[x] = got[x]
                            \/ (x = to /\ got'[x] = Append(got[x], m))
  BY <1>1 DEF BaseInv, Types
<1> HIDE DEF to, m
<1>8. ASSUME NEW x \in Channels, x = to, got'[x] = Append(got[x], m)
      PROVE  /\ DOMAIN got'[x] = 1..Len(got[x]) + 1
             /\ got'[x][Len(got[x]) + 1] = m
             /\ \A i \in 1..Len(got[x]) : got'[x][i] = got[x][i]
  BY <1>5, <1>8
<1>9. ASSUME NEW x \in Channels, NEW i \in DOMAIN got'[x]
      PROVE  got'[x][i] <= sent'
  <2>1. sent \in Int
    BY DEF BaseInv, Types
  <2>2. CASE got'[x] = got[x]
    BY <1>1, <1>5, <1>6, <1>9, <2>1, <2>2
  <2>3. CASE x = to /\ got'[x] = Append(got[x], m)
    <3>1. i \in 1..Len(got[x]) \/ i = Len(got[x]) + 1
      BY <1>5, <1>8, <1>9, <2>3
    <3>2. got'[x][i] \in 1..sent
      BY <1>1, <1>6, <1>8, <2>3, <3>1
    <3> QED
      BY <1>1, <2>1, <3>2
  <2> QED
    BY <1>7, <2>2, <2>3
<1>10. SenderInv'
  BY <1>1, <1>3, <1>9 DEF SenderInv
<1>11. ASSUME NEW x \in Channels, NEW i \in DOMAIN got'[x],
              NEW j \in DOMAIN got'[x], i < j,
              sender'[got'[x][i]] = sender'[got'[x][j]]
       PROVE  got'[x][i] <= got'[x][j]
  <2>1. CASE got'[x] = got[x]
    BY <1>1, <1>11, <2>1 DEF OrderInv
  <2>2. CASE x = to /\ got'[x] = Append(got[x], m)
    <3>1. /\ i \in 1..Len(got[x])
          /\ j \in 1..Len(got[x]) \/ j = Len(got[x]) + 1
      BY <1>5, <1>8, <1>11, <2>2
    <3>2. CASE j \in 1..Len(got[x])
      BY <1>1, <1>5, <1>8, <1>11, <2>2, <3>1, <3>2 DEF OrderInv
    <3>3. CASE j = Len(got[x]) + 1
      <4>1. /\ got'[x][i] = got[x][i] /\ got[x][i] \in 1..sent
            /\ got'[x][j] = m
        BY <1>6, <1>8, <2>2, <3>1, <3>3
      <4> QED
        BY <1>1, <1>4, <1>11, <4>1
    <3> QED
      BY <3>1, <3>2, <3>3
  <2> QED
    BY <1>7, <2>1, <2>2
<1>12. OrderInv'
  BY <1>11 DEF OrderInv
<1> QED
  BY <1>10, <1>12

LEMMA SenderNext ==
    ASSUME BaseInv, SenderInv, OrderInv, [Next]_vars
    PROVE  SenderInv' /\ OrderInv'
<1> DEFINE Same == /\ sender' = sender /\ sent' = sent /\ got' = got
                   /\ \A k \in Loops : op'[k].kind = "cast" => op'[k] = op[k]
<1>1. Same => SenderInv' /\ OrderInv'
  BY SenderKeeps DEF OrderInv
<1>2. CASE UNCHANGED vars
  BY <1>1, <1>2 DEF vars
<1>3. ASSUME NEW ch \in Channels, ChannelStep(ch)
      PROVE  SenderInv' /\ OrderInv'
  <2>1. CASE Upgrade(ch) \/ Close(ch)
    BY <1>1, <2>1 DEF Upgrade, Close
  <2>2. CASE ChannelInactive(ch)
    <3>1. /\ got' = got /\ sent' = sent /\ sender' = sender
          /\ \/ op' = op
             \/ \E o \in OpType : /\ op' = [op EXCEPT ![loopOf[ch]] = o]
                                  /\ o.kind = "remove"
      BY <2>2, InactiveIs
    <3>2. \A k \in Loops : op'[k].kind = "cast" => op'[k] = op[k]
      BY <3>1 DEF BaseInv, Types
    <3> QED
      BY <1>1, <3>1, <3>2
  <2>3. ASSUME NEW l \in Loops, ChannelActive(ch, l)
        PROVE  SenderInv' /\ OrderInv'
    BY <1>1, <2>3 DEF ChannelActive, SetOp, Busy, BaseInv, Types
  <2> QED
    BY <1>3, <2>1, <2>2, <2>3, CastSender DEF ChannelStep
<1>4. ASSUME NEW l \in Loops, LoopStep(l)
      PROVE  SenderInv' /\ OrderInv'
  <2>1. CASE BroadcastNext(l)
    BY <2>1, NextSender
  <2>2. CASE Works(l)
    <3>1. sender' = sender /\ sent' = sent /\ got' = got
      BY <2>2, WorkIs
    <3>2. PICK o \in OpType : /\ op' = [op EXCEPT ![l] = o]
                              /\ o.kind # "cast"
      BY <2>2, WorkIs DEF Idle, Adds, Removes
    <3>3. \A k \in Loops : op'[k].kind = "cast" => op'[k] = op[k]
      BY <3>2 DEF BaseInv, Types
    <3> QED
      BY <1>1, <3>1, <3>3
  <2>3. CASE AddFails(l) \/ BroadcastEnd(l) \/ BroadcastFails(l)
    <3>1. /\ op' = [op EXCEPT ![l] = Idle]
          /\ sender' = sender /\ sent' = sent /\ got' = got
      BY <2>3 DEF AddFails, BroadcastEnd, BroadcastFails, SetOp
    <3>2. \A k \in Loops : op'[k].kind = "cast" => op'[k] = op[k]
      BY <3>1 DEF Idle, BaseInv, Types
    <3> QED
      BY <1>1, <3>1, <3>2
  <2> QED
    BY <1>4, <2>1, <2>2, <2>3 DEF LoopStep, Works
<1> QED
  BY <1>2, <1>3, <1>4 DEF Next

LEMMA SenderInit == Init => SenderInv /\ OrderInv
BY DEF Init, SenderInv, OrderInv, Idle

-----------------------------------------------------------------------------
(***************************************************************************)
(* The list and the broadcasts, as long as nothing overlaps.               *)
(***************************************************************************)
Has(s, m) == \E i \in DOMAIN s : s[i] = m

Exact ==
    /\ Length \in 0..Slots
    /\ \A i \in 1..Length : array[i] \in Members
    /\ \A x \in Members : \E i \in 1..Length : array[i] = x
    /\ \A i, j \in 1..Length : array[i] = array[j] => i = j

\* What an event loop has read and written agrees with the list; an iterator
\* has reached whom it passed and nobody it has still to come to.
Within(l) ==
    /\ op[l].kind \in {"add", "stored", "shift", "shrink"} => op[l].count = size
    /\ op[l].kind = "stored" =>
          size + 1 \in 1..Slots /\ array[size + 1] = op[l].ch
    /\ op[l].kind \in {"remove", "shift"} =>
          op[l].at \in 1..size /\ array[op[l].at] = op[l].ch
    /\ op[l].kind = "clear" => op[l].count = size + 1
    /\ op[l].kind = "cast" =>
          /\ op[l].expected = modCount /\ op[l].at \in 0..size
          /\ \A i \in 1..op[l].at :
                array[i] \in due[op[l].msg] /\ phase[array[i]] = "upgraded"
                    => Has(got[array[i]], op[l].msg)
          /\ \A i \in 1..size :
                i > op[l].at => ~Has(got[array[i]], op[l].msg)

ListInv == ~Overlap(op) /\ Exact /\ \A l \in Loops : Within(l)

ReachedInv ==
    \A m \in 1..MaxMsgs : Over(m) =>
        \A x \in due[m] : phase[x] = "upgraded" => Has(got[x], m)

OnceInv ==
    \A ch \in Channels : \A i, j \in DOMAIN got[ch] :
        i < j => got[ch][i] # got[ch][j]

SerialInv == ListInv /\ ReachedInv /\ OnceInv

LEMMA MembersAre ==
    ASSUME BaseInv
    PROVE  \A x : x \in Members <=>
              /\ x \in Channels
              /\ \/ /\ phase[x] \in {"open", "upgraded", "closing"}
                    /\ \A l \in Loops : ~(op[l].kind \in Adds /\ op[l].ch = x)
                 \/ \E l \in Loops :
                       op[l].kind \in {"remove", "shift"} /\ op[l].ch = x
BY DEF BaseInv, OwnInv, Types, Members, Adding, Removing, Removes

LEMMA MembersNext ==
    ASSUME BaseInv'
    PROVE  \A x : x \in Members' <=>
              /\ x \in Channels
              /\ \/ /\ phase'[x] \in {"open", "upgraded", "closing"}
                    /\ \A l \in Loops : ~(op'[l].kind \in Adds /\ op'[l].ch = x)
                 \/ \E l \in Loops :
                       op'[l].kind \in {"remove", "shift"} /\ op'[l].ch = x
BY DEF BaseInv, OwnInv, Types, Members, Adding, Removing, Removes

\* While one event loop adds or removes, the others are idle.
LEMMA Alone ==
    ASSUME NEW o, ~Overlap(o), NEW l \in Loops,
           o[l].kind \in Adds \union Removes
    PROVE  \A k \in Loops : k # l => o[k] = Idle
BY DEF Overlap

LEMMA ListFits ==
    ASSUME BaseInv, Exact, NEW x \in Channels, x \notin Members
    PROVE  Length + 1 \in 1..Slots
<1> DEFINE n == Length
           f == [i \in 1..n |-> array[i]]
           T == Channels \ {x}
<1>1. /\ IsFiniteSet(Channels) /\ Cardinality(Channels) \in Nat
      /\ Cardinality(Channels) <= Slots /\ Slots \in Nat /\ n \in Nat
  BY ChatAssumption, FS_CardinalityType DEF ChatAssumption, Exact
<1>2. IsFiniteSet(T) /\ Cardinality(T) = Cardinality(Channels) - 1
  BY <1>1, FS_RemoveElement
<1>3. \A i \in 1..n : array[i] \in T
  BY MembersAre DEF Exact
<1>4. \A i, j \in 1..n : array[i] = array[j] => i = j
  BY DEF Exact
<1> HIDE DEF n
<1>5. f \in Injection(1..n, T)
  BY <1>3, <1>4 DEF Injection, IsInjective
<1>6. IsFiniteSet(1..n) /\ Cardinality(1..n) = n
  <2>1. /\ IsFiniteSet(1..n)
        /\ Cardinality(1..n) = IF 1 > n THEN 0 ELSE n - 1 + 1
    BY <1>1, FS_Interval, 1 \in Int, n \in Int
  <2> QED
    BY <1>1, <2>1
<1>7. Cardinality(1..n) <= Cardinality(T)
  BY <1>2, <1>5, FS_Injection DEF ExistsInjection
<1> QED
  BY <1>1, <1>2, <1>6, <1>7 DEF n

\* When one event loop is in the list, it is enough to look at that one.
LEMMA ListParts ==
    ASSUME NEW l \in Loops, \A k \in Loops : k # l => op'[k] = Idle,
           Exact', Within(l)'
    PROVE  ListInv'
<1>1. \A k \in Loops : k # l => Within(k)'
  BY DEF Within, Idle
<1>2. ~Overlap(op')
  BY DEF Overlap, Idle, Adds, Removes
<1> QED
  BY <1>1, <1>2 DEF ListInv

\* A step that writes nobody and ends no broadcast.
LEMMA ReachedKeeps ==
    ASSUME ReachedInv, OnceInv, due' = due, sent' = sent, got' = got,
           \A m \in 1..MaxMsgs : \A x \in due[m] :
               phase'[x] = "upgraded" => phase[x] = "upgraded",
           \A k \in Loops : op[k].kind = "cast" =>
               op'[k].kind = "cast" /\ op'[k].msg = op[k].msg
    PROVE  ReachedInv' /\ OnceInv'
<1>1. \A m \in 1..MaxMsgs : Over(m)' => Over(m)
  BY DEF Over, Casting
<1>2. ReachedInv'
  BY <1>1 DEF ReachedInv, Has
<1> QED
  BY <1>2 DEF OnceInv

LEMMA ActiveSerial ==
    ASSUME BaseInv, BaseInv', SerialInv, NEW ch \in Channels,
           NEW l \in Loops, ChannelActive(ch, l), ~Overlap(op')
    PROVE  SerialInv'
<1>1. /\ op[l] = Idle /\ phase[ch] = "new"
      /\ phase' = [phase EXCEPT ![ch] = "open"]
      /\ op' = [op EXCEPT ![l] = Busy("add", ch, 0, size, 0, 0)]
      /\ UNCHANGED <<array, size, sent, due, got>>
  BY DEF ChannelActive, SetOp
<1>2. /\ op'[l].kind = "add" /\ op'[l].ch = ch /\ op'[l].count = size
      /\ \A k \in Loops : k # l => op'[k] = op[k]
  BY <1>1 DEF BaseInv, Types, Busy
<1>3. \A k \in Loops : k # l => op[k] = Idle /\ op'[k] = Idle
  BY <1>2, Alone DEF Adds
<1>4. \A k \in Loops : op[k].kind = "idle" /\ (k # l => op'[k].kind = "idle")
  BY <1>1, <1>3 DEF Idle
<1>5. Length = size /\ Length' = size
  BY <1>1, <1>2, <1>4 DEF Length
<1>6. Members' = Members
  <2>1. \A x \in Channels : x # ch => phase'[x] = phase[x]
    BY <1>1 DEF BaseInv, Types
  <2>2. \A x : x \in Members' <=> x \in Members
    BY <1>1, <1>2, <1>4, <2>1, MembersAre, MembersNext DEF Adds
  <2> QED
    BY <2>2
<1>7. Exact'
  BY <1>1, <1>5, <1>6 DEF SerialInv, ListInv, Exact
<1>8. Within(l)'
  BY <1>1, <1>2 DEF Within
<1>9. ReachedInv' /\ OnceInv'
  <2>1. \A m \in 1..MaxMsgs : \A x \in due[m] :
           phase'[x] = "upgraded" => phase[x] = "upgraded"
    BY <1>1 DEF BaseInv, Types
  <2> QED
    BY <1>1, <1>4, <2>1, ReachedKeeps DEF SerialInv
<1> QED
  BY <1>3, <1>7, <1>8, <1>9, ListParts DEF SerialInv

LEMMA UpgradeSerial ==
    ASSUME BaseInv, BaseInv', SerialInv, NEW ch \in Channels,
           Upgrade(ch) \/ Close(ch)
    PROVE  SerialInv'
<1>1. /\ \/ phase[ch] = "open" /\ phase' = [phase EXCEPT ![ch] = "upgraded"]
         \/ /\ phase[ch] \in {"open", "upgraded"}
            /\ phase' = [phase EXCEPT ![ch] = "closing"]
      /\ UNCHANGED <<array, size, modCount, op, sent, due, got>>
  BY DEF Upgrade, Close, list
<1>2. \A x \in Channels : phase[x] \in {"open", "upgraded", "closing"} <=>
                          phase'[x] \in {"open", "upgraded", "closing"}
  BY <1>1 DEF BaseInv, Types
<1>3. \A x : x \in Members' <=> x \in Members
  BY <1>1, <1>2, MembersAre, MembersNext
<1>4. Members' = Members
  BY <1>3
<1>5. \A m \in 1..MaxMsgs : \A x \in due[m] :
         phase'[x] = "upgraded" => phase[x] = "upgraded"
  BY <1>1 DEF BaseInv, Types, CastInv
<1>6. \A l \in Loops : op[l].kind = "cast" => op[l].msg \in 1..MaxMsgs
  <2> TAKE l \in Loops
  <2> HAVE op[l].kind = "cast"
  <2>1. op[l].msg \in 1..sent /\ sent \in 0..MaxMsgs
    BY DEF BaseInv, Types, CastInv
  <2> QED
    BY <2>1, ChatAssumption DEF ChatAssumption
<1>7. Exact'
  BY <1>1, <1>4 DEF SerialInv, ListInv, Exact, Length
<1>8. \A l \in Loops : Within(l)'
  <2> TAKE l \in Loops
  <2>1. Within(l)
    BY DEF SerialInv, ListInv
  <2> QED
    BY <1>1, <1>5, <1>6, <2>1 DEF Within, Has
<1>9. ReachedInv' /\ OnceInv'
  BY <1>1, <1>5, ReachedKeeps DEF SerialInv
<1> QED
  BY <1>1, <1>7, <1>8, <1>9 DEF SerialInv, ListInv

LEMMA InactiveSerial ==
    ASSUME BaseInv, BaseInv', SerialInv, NEW ch \in Channels,
           ChannelInactive(ch), ~Overlap(op')
    PROVE  SerialInv'
<1> SUFFICES ASSUME NEW l \in Loops, l = loopOf[ch]
             PROVE  SerialInv'
  BY InactiveIs
<1>1. /\ l \in Loops /\ op[l] = Idle /\ phase[ch] = "closing"
      /\ phase' = [phase EXCEPT ![ch] = "dead"]
      /\ UNCHANGED <<array, size, modCount, sent, due, got>>
  BY InactiveIs
<1>2. ch \in Members
  BY <1>1, MembersAre DEF BaseInv, OwnInv, Idle, Adds
<1>3. \E i \in 1..size : array[i] = ch
  <2>1. PICK i \in 1..Length : array[i] = ch
    BY <1>2 DEF SerialInv, ListInv, Exact
  <2>2. size \in Int /\ Length \in Int /\ Length <= size
    BY DEF BaseInv, Types, Length
  <2> QED
    BY <2>1, <2>2
<1>4. Places(ch) # {}
  BY <1>3 DEF Places
<1>5. PICK i \in 1..size, o \in OpType :
         /\ array[i] = ch /\ op' = [op EXCEPT ![l] = o]
         /\ o.kind = "remove" /\ o.ch = ch /\ o.at = i
  BY <1>4, InactiveIs
<1>6. op'[l] = o /\ \A k \in Loops : k # l => op'[k] = op[k]
  BY <1>1, <1>5 DEF BaseInv, Types
<1>7. \A k \in Loops : k # l => op[k] = Idle /\ op'[k] = Idle
  <2>1. op'[l].kind \in Adds \union Removes
    BY <1>5, <1>6 DEF Removes
  <2>2. \A k \in Loops : k # l => op'[k] = Idle
    BY <2>1, Alone
  <2> QED
    BY <1>6, <2>2
<1>8. \A k \in Loops : op[k].kind = "idle" /\ (k # l => op'[k].kind = "idle")
  BY <1>1, <1>7 DEF Idle
<1>9. Members' = Members
  <2>1. \A x \in Channels : x # ch => phase'[x] = phase[x]
    BY <1>1 DEF BaseInv, Types
  <2>2. \A x : x \in Members' <=> x \in Members
    BY <1>1, <1>2, <1>5, <1>6, <1>8, <2>1, MembersAre, MembersNext DEF Adds
  <2> QED
    BY <2>2
<1>10. Length' = Length
  BY <1>1, <1>5, <1>6, <1>8 DEF Length
<1>11. Exact'
  BY <1>1, <1>9, <1>10 DEF SerialInv, ListInv, Exact
<1>12. Within(l)'
  BY <1>1, <1>5, <1>6 DEF Within
<1>13. ReachedInv' /\ OnceInv'
  <2>1. \A m \in 1..MaxMsgs : \A x \in due[m] :
           phase'[x] = "upgraded" => phase[x] = "upgraded"
    BY <1>1 DEF BaseInv, Types
  <2> QED
    BY <1>1, <1>8, <2>1, ReachedKeeps DEF SerialInv
<1> QED
  BY <1>1, <1>7, <1>11, <1>12, <1>13, ListParts DEF SerialInv

\* What the steps of add and fastRemove have in common: nobody else is in the
\* list, and of the members only the channel in question can change.
LEMMA WorkAlone ==
    ASSUME BaseInv, BaseInv', SerialInv, NEW l \in Loops, Works(l)
    PROVE  /\ \A k \in Loops : k # l => op[k] = Idle /\ op'[k] = Idle
           /\ op[l].ch \in Channels
           /\ op[l].kind \in Adds =>
                 phase[op[l].ch] \in {"open", "upgraded", "closing"}
           /\ op[l].kind \in Removes => phase[op[l].ch] = "dead"
           /\ UNCHANGED <<phase, due, got>>
           /\ \A x : x \in Members <=>
                 /\ x \in Channels
                 /\ \/ /\ phase[x] \in {"open", "upgraded", "closing"}
                       /\ ~(op[l].kind \in Adds /\ op[l].ch = x)
                    \/ op[l].kind \in {"remove", "shift"} /\ op[l].ch = x
           /\ \A x : x \in Members' <=>
                 /\ x \in Channels
                 /\ \/ /\ phase[x] \in {"open", "upgraded", "closing"}
                       /\ ~(op'[l].kind \in Adds /\ op'[l].ch = x)
                    \/ op'[l].kind \in {"remove", "shift"} /\ op'[l].ch = x
           /\ Length = IF op[l].kind = "shrink" THEN size - 1 ELSE size
           /\ Length' = IF op'[l].kind = "shrink" THEN size' - 1 ELSE size'
           /\ ReachedInv' /\ OnceInv'
<1>1. /\ UNCHANGED <<phase, loopOf, sent, sender, due, got>>
      /\ op[l].kind \in Adds \union Removes
  BY WorkIs
<1>2. PICK o \in OpType : op' = [op EXCEPT ![l] = o]
  BY WorkIs
<1>3. \A k \in Loops : k # l => op[k] = Idle /\ op'[k] = Idle
  BY <1>1, <1>2, Alone DEF SerialInv, ListInv, BaseInv, Types
<1>4. /\ op[l].ch \in Channels /\ phase[op[l].ch] # "new"
      /\ op[l].kind \in Removes => phase[op[l].ch] = "dead"
      /\ op[l].kind \in Adds => phase[op[l].ch] # "dead"
  BY <1>1 DEF BaseInv, OwnInv, Adds, Removes
<1>5. op[l].kind \in Adds => phase[op[l].ch] \in {"open", "upgraded", "closing"}
  BY <1>4 DEF BaseInv, Types, Phases
<1>6. \A k \in Loops : k # l => op[k].kind = "idle" /\ op'[k].kind = "idle"
  BY <1>3 DEF Idle
<1>7. \A x : x \in Members <=>
         /\ x \in Channels
         /\ \/ /\ phase[x] \in {"open", "upgraded", "closing"}
               /\ ~(op[l].kind \in Adds /\ op[l].ch = x)
            \/ op[l].kind \in {"remove", "shift"} /\ op[l].ch = x
  BY <1>6, MembersAre DEF Adds
<1>8. \A x : x \in Members' <=>
         /\ x \in Channels
         /\ \/ /\ phase[x] \in {"open", "upgraded", "closing"}
               /\ ~(op'[l].kind \in Adds /\ op'[l].ch = x)
            \/ op'[l].kind \in {"remove", "shift"} /\ op'[l].ch = x
  BY <1>1, <1>6, MembersNext DEF Adds
<1>9. /\ Length = IF op[l].kind = "shrink" THEN size - 1 ELSE size
      /\ Length' = IF op'[l].kind = "shrink" THEN size' - 1 ELSE size'
  BY <1>6 DEF Length
<1>10. ReachedInv' /\ OnceInv'
  <2>1. \A k \in Loops : op[k].kind # "cast"
    BY <1>1, <1>6 DEF Adds, Removes
  <2> QED
    BY <1>1, <2>1, ReachedKeeps DEF SerialInv
<1> QED
  BY <1>1, <1>3, <1>4, <1>5, <1>7, <1>8, <1>9, <1>10

LEMMA StoreSerial ==
    ASSUME BaseInv, BaseInv', SerialInv, NEW l \in Loops, AddStore(l)
    PROVE  SerialInv'
<1> DEFINE ch == op[l].ch
           o == [op[l] EXCEPT !.kind = "stored"]
<1>1. Works(l) /\ op[l].kind = "add"
  BY DEF Works, AddStore
<1>2. op[l].count = size /\ Length = size /\ size \in 0..Slots /\ size \in Int
  BY <1>1, WorkAlone DEF SerialInv, ListInv, Within, Exact
<1>3. /\ array' = [array EXCEPT ![size + 1] = ch] /\ size' = size
      /\ op' = [op EXCEPT ![l] = o]
  BY <1>2 DEF AddStore, SetOp
<1>4. o.kind = "stored" /\ o.ch = ch /\ o.count = op[l].count
  BY DEF BaseInv, Types, OpType
<1>5. op'[l] = o
  BY <1>3 DEF BaseInv, Types
<1> HIDE DEF o
<1>6. \A x : x \in Members' <=> x \in Members
  BY <1>1, <1>4, <1>5, WorkAlone DEF Adds
<1>7. ch \notin Members
  BY <1>1, WorkAlone DEF Adds, Removes
<1>8. size + 1 \in 1..Slots
  BY <1>1, <1>2, <1>7, ListFits, WorkAlone DEF SerialInv, ListInv
<1>9. array'[size + 1] = ch /\ \A i \in 1..size : array'[i] = array[i]
  BY <1>2, <1>3, <1>8 DEF BaseInv, Types
<1>10. Length' = size
  BY <1>1, <1>3, <1>4, <1>5, WorkAlone
<1>11. Exact'
  BY <1>2, <1>6, <1>9, <1>10 DEF SerialInv, ListInv, Exact
<1>12. Within(l)'
  BY <1>2, <1>3, <1>4, <1>5, <1>8, <1>9 DEF Within
<1> QED
  BY <1>1, <1>11, <1>12, WorkAlone, ListParts DEF SerialInv

LEMMA AddedSerial ==
    ASSUME BaseInv, BaseInv', SerialInv, NEW l \in Loops, AddSize(l)
    PROVE  SerialInv'
<1> DEFINE ch == op[l].ch
<1>1. Works(l) /\ op[l].kind = "stored"
  BY DEF Works, AddSize
<1>2. /\ op[l].count = size /\ Length = size /\ size \in 0..Slots
      /\ size + 1 \in 1..Slots /\ array[size + 1] = ch
  BY <1>1, WorkAlone DEF SerialInv, ListInv, Within, Exact
<1>3. size' = size + 1 /\ array' = array /\ op' = [op EXCEPT ![l] = Idle]
  BY <1>2 DEF AddSize, SetOp
<1>4. op'[l] = Idle /\ op'[l].kind = "idle"
  BY <1>3 DEF BaseInv, Types, Idle
<1>5. ch \notin Members /\ \A x : x \in Members' <=> x \in Members \/ x = ch
  BY <1>1, <1>4, WorkAlone DEF Adds, Removes
<1>6. Length' = size + 1 /\ 1..(size + 1) = (1..size) \union {size + 1}
  BY <1>1, <1>2, <1>3, <1>4, WorkAlone
<1>7. Exact'
  <2>1. /\ \A i \in 1..size : array[i] \in Members
        /\ \A x \in Members : \E i \in 1..size : array[i] = x
        /\ \A i, j \in 1..size : array[i] = array[j] => i = j
    BY <1>2 DEF SerialInv, ListInv, Exact
  <2>2. \A i \in 1..(size + 1) : array[i] \in Members'
    BY <1>2, <1>5, <1>6, <2>1
  <2>3. \A x \in Members' : \E i \in 1..(size + 1) : array[i] = x
    BY <1>2, <1>5, <1>6, <2>1
  <2>4. \A i, j \in 1..(size + 1) : array[i] = array[j] => i = j
    BY <1>2, <1>5, <1>6, <2>1
  <2>5. Length' \in 0..Slots
    BY <1>2, <1>6
  <2> QED
    BY <1>3, <1>6, <2>2, <2>3, <2>4, <2>5 DEF Exact
<1>8. Within(l)'
  BY <1>4 DEF Within
<1> QED
  BY <1>1, <1>7, <1>8, WorkAlone, ListParts DEF SerialInv

LEMMA CountSerial ==
    ASSUME BaseInv, BaseInv', SerialInv, NEW l \in Loops, RemoveCount(l)
    PROVE  SerialInv'
<1> DEFINE o == [op[l] EXCEPT !.kind = "shift", !.count = size]
<1>1. Works(l) /\ op[l].kind = "remove"
  BY DEF Works, RemoveCount
<1>2. Length = size /\ op[l].at \in 1..size /\ array[op[l].at] = op[l].ch
  BY <1>1, WorkAlone DEF SerialInv, ListInv, Within
<1>3. size' = size /\ array' = array /\ op' = [op EXCEPT ![l] = o]
  BY DEF RemoveCount, SetOp
<1>4. /\ o.kind = "shift" /\ o.ch = op[l].ch /\ o.at = op[l].at
      /\ o.count = size
  BY DEF BaseInv, Types, OpType
<1>5. op'[l] = o
  BY <1>3 DEF BaseInv, Types
<1> HIDE DEF o
<1>6. \A x : x \in Members' <=> x \in Members
  BY <1>1, <1>4, <1>5, WorkAlone DEF Adds
<1>7. Members' = Members /\ Length' = Length
  BY <1>1, <1>2, <1>3, <1>4, <1>5, <1>6, WorkAlone
<1>8. Exact'
  BY <1>3, <1>7 DEF SerialInv, ListInv, Exact
<1>9. Within(l)'
  BY <1>2, <1>3, <1>4, <1>5 DEF Within
<1> QED
  BY <1>1, <1>8, <1>9, WorkAlone, ListParts DEF SerialInv

LEMMA ShiftSerial ==
    ASSUME BaseInv, BaseInv', SerialInv, NEW l \in Loops, RemoveShift(l)
    PROVE  SerialInv'
<1> DEFINE ch == op[l].ch
           at == op[l].at
           o == [op[l] EXCEPT !.kind = "shrink"]
<1>1. Works(l) /\ op[l].kind = "shift"
  BY DEF Works, RemoveShift
<1>2. /\ op[l].count = size /\ at \in 1..size /\ array[at] = ch
      /\ Length = size /\ size \in 0..Slots /\ size \in Int /\ at \in Int
  BY <1>1, WorkAlone DEF SerialInv, ListInv, Within, Exact
<1>3. /\ array' = Shifted(at, size) /\ size' = size
      /\ op' = [op EXCEPT ![l] = o]
  BY <1>2 DEF RemoveShift, SetOp
<1>4. o.kind = "shrink" /\ o.ch = ch /\ o.count = op[l].count
  BY DEF BaseInv, Types, OpType
<1>5. op'[l] = o
  BY <1>3 DEF BaseInv, Types
<1> HIDE DEF o
<1>6. \A x : x \in Members' <=> x \in Members /\ x # ch
  BY <1>1, <1>4, <1>5, WorkAlone DEF Adds, Removes
<1>7. ch \in Channels
  BY <1>1, WorkAlone
<1>8. Length' = size - 1 /\ Slots \in Nat
  BY <1>1, <1>3, <1>4, <1>5, WorkAlone, ChatAssumption DEF ChatAssumption
<1> HIDE DEF ch, at
<1>9. \A j \in 1..(size - 1) :
         array'[j] = IF j < at THEN array[j] ELSE array[j + 1]
  <2> TAKE j \in 1..(size - 1)
  <2>1. j \in 1..Slots /\ j < size
    BY <1>2, <1>8
  <2> QED
    BY <1>2, <1>3, <2>1 DEF Shifted
<1>10. Exact'
  <2>1. Length' \in 0..Slots
    BY <1>2, <1>8
  <2>2. /\ \A i \in 1..size : array[i] \in Members
        /\ \A x \in Members : \E i \in 1..size : array[i] = x
        /\ \A i, j \in 1..size : array[i] = array[j] => i = j
    BY <1>2 DEF SerialInv, ListInv, Exact
  <2>3. \A j \in 1..(size - 1) : array'[j] \in Members'
    <3> TAKE j \in 1..(size - 1)
    <3>1. PICK i \in 1..size : array'[j] = array[i] /\ i # at
      BY <1>2, <1>9
    <3>2. array[i] \in Members /\ array[i] # ch
      BY <1>2, <2>2, <3>1
    <3> QED
      BY <1>6, <3>1, <3>2
  <2>4. \A x \in Members' : \E j \in 1..(size - 1) : array'[j] = x
    <3> TAKE x \in Members'
    <3>1. PICK i \in 1..size : array[i] = x /\ i # at
      BY <1>2, <1>6, <2>2
    <3>2. CASE i < at
      BY <1>2, <1>9, <3>1, <3>2
    <3>3. CASE i > at
      <4>1. i - 1 \in 1..(size - 1) /\ ~(i - 1 < at) /\ (i - 1) + 1 = i
        BY <1>2, <3>3
      <4>2. array'[i - 1] = array[(i - 1) + 1]
        BY <1>9, <4>1
      <4> QED
        BY <3>1, <4>1, <4>2
    <3> QED
      BY <1>2, <3>1, <3>2, <3>3
  <2>5. \A i, j \in 1..(size - 1) : array'[i] = array'[j] => i = j
    <3>1. \A i \in 1..(size - 1) : i \in 1..size /\ i + 1 \in 1..size
      BY <1>2
    <3> TAKE i, j \in 1..(size - 1)
    <3>2. i \in Int /\ j \in Int
      BY <1>2
    <3> QED
      BY <1>2, <1>9, <2>2, <3>1, <3>2
  <2> QED
    BY <1>8, <2>1, <2>3, <2>4, <2>5 DEF Exact
<1>11. Within(l)'
  BY <1>2, <1>3, <1>4, <1>5 DEF Within
<1> QED
  BY <1>1, <1>10, <1>11, WorkAlone, ListParts DEF SerialInv

LEMMA SizeSerial ==
    ASSUME BaseInv, BaseInv', SerialInv, NEW l \in Loops, RemoveSize(l)
    PROVE  SerialInv'
<1> DEFINE o == [op[l] EXCEPT !.kind = "clear"]
<1>1. Works(l) /\ op[l].kind = "shrink"
  BY DEF Works, RemoveSize
<1>2. Length = size - 1 /\ op[l].count = size /\ size \in Int
  BY <1>1, WorkAlone DEF SerialInv, ListInv, Within, BaseInv, Types
<1>3. size' = size - 1 /\ array' = array /\ op' = [op EXCEPT ![l] = o]
  BY <1>2 DEF RemoveSize, SetOp
<1>4. o.kind = "clear" /\ o.ch = op[l].ch /\ o.count = op[l].count
  BY DEF BaseInv, Types, OpType
<1>5. op'[l] = o
  BY <1>3 DEF BaseInv, Types
<1> HIDE DEF o
<1>6. \A x : x \in Members' <=> x \in Members
  BY <1>1, <1>4, <1>5, WorkAlone DEF Adds
<1>7. Members' = Members /\ Length' = Length
  BY <1>1, <1>2, <1>3, <1>4, <1>5, <1>6, WorkAlone
<1>8. Exact'
  BY <1>3, <1>7 DEF SerialInv, ListInv, Exact
<1>9. Within(l)'
  BY <1>2, <1>3, <1>4, <1>5 DEF Within
<1> QED
  BY <1>1, <1>8, <1>9, WorkAlone, ListParts DEF SerialInv

LEMMA ClearSerial ==
    ASSUME BaseInv, BaseInv', SerialInv, NEW l \in Loops, RemoveClear(l)
    PROVE  SerialInv'
<1>1. Works(l) /\ op[l].kind = "clear"
  BY DEF Works, RemoveClear
<1>2. Length = size /\ op[l].count = size + 1 /\ size \in 0..Slots
  BY <1>1, WorkAlone DEF SerialInv, ListInv, Within, Exact
<1>3. /\ size' = size /\ op' = [op EXCEPT ![l] = Idle]
      /\ array' = [j \in 1..Slots |-> IF j = size + 1 THEN None ELSE array[j]]
  BY <1>2 DEF RemoveClear, SetOp
<1>4. op'[l] = Idle /\ op'[l].kind = "idle"
  BY <1>3 DEF BaseInv, Types, Idle
<1>5. \A x : x \in Members' <=> x \in Members
  BY <1>1, <1>4, WorkAlone DEF Adds
<1>6. Members' = Members /\ Length' = size
  BY <1>1, <1>3, <1>4, <1>5, WorkAlone
<1>7. \A i \in 1..size : array'[i] = array[i]
  <2> TAKE i \in 1..size
  <2>1. i \in 1..Slots /\ i # size + 1
    BY <1>2, ChatAssumption DEF ChatAssumption
  <2> QED
    BY <1>3, <2>1
<1>8. Exact'
  BY <1>2, <1>6, <1>7 DEF SerialInv, ListInv, Exact
<1>9. Within(l)'
  BY <1>4 DEF Within
<1> QED
  BY <1>1, <1>8, <1>9, WorkAlone, ListParts DEF SerialInv

\* A step of a broadcast leaves the list and its members alone.
LEMMA CastList ==
    ASSUME BaseInv, BaseInv', SerialInv,
           UNCHANGED <<phase, array, size>>,
           NEW l \in Loops, NEW o, op' = [op EXCEPT ![l] = o],
           op[l].kind \in {"idle", "cast"}, o.kind \in {"idle", "cast"}
    PROVE  Members' = Members /\ Length' = Length /\ Exact'
<1>1. op'[l] = o /\ \A k \in Loops : k # l => op'[k] = op[k]
  BY DEF BaseInv, Types
<1>2. \A x : x \in Members' <=> x \in Members
  BY <1>1, MembersAre, MembersNext DEF Adds
<1>3. Members' = Members /\ Length' = Length
  BY <1>1, <1>2 DEF Length
<1> QED
  BY <1>3 DEF SerialInv, ListInv, Exact

\* While a message is broadcast the list has its size.
LEMMA CastLength ==
    ASSUME BaseInv, SerialInv, NEW l \in Loops, op[l].kind = "cast"
    PROVE  Length = size /\ size \in 0..Slots
<1>1. \A k \in Loops : op[k].kind # "shrink"
  BY Alone DEF SerialInv, ListInv, Idle, Removes
<1>2. Length = size
  BY <1>1 DEF Length
<1> QED
  BY <1>2 DEF SerialInv, ListInv, Exact

LEMMA BroadcastSerial ==
    ASSUME BaseInv, BaseInv', SenderInv, SerialInv, NEW ch \in Channels,
           Broadcast(ch), ~Overlap(op')
    PROVE  SerialInv'
<1> SUFFICES ASSUME NEW l \in Loops, l = loopOf[ch]
             PROVE  SerialInv'
  BY BroadcastIs
<1> DEFINE m == sent + 1
<1>1. /\ op[l] = Idle /\ op[l].kind = "idle" /\ sent \in Nat
      /\ MaxMsgs \in Nat /\ m \in 1..MaxMsgs /\ sent' = m
      /\ UNCHANGED <<phase, array, size, modCount, got>>
  BY BroadcastIs DEF Idle
<1>2. \A k \in 1..MaxMsgs : k # m => due'[k] = due[k]
  BY BroadcastIs DEF BaseInv, Types
<1>3. PICK o \in OpType :
         /\ op' = [op EXCEPT ![l] = o] /\ o.kind = "cast" /\ o.msg = m
         /\ o.expected = modCount /\ o.at = 0
  BY BroadcastIs
<1>4. op'[l] = o /\ \A k \in Loops : k # l => op'[k] = op[k]
  BY <1>3 DEF BaseInv, Types
<1>5. \A k \in Loops : op[k].kind = "cast" => op[k].msg \in 1..sent
  BY DEF BaseInv, CastInv
<1>6. \A k \in Loops : op[k].kind = "cast" =>
         op[k].msg \in 1..MaxMsgs /\ op[k].msg # m
  BY <1>1, <1>5
<1>7. \A x \in Channels : ~Has(got[x], m)
  BY <1>1, GotIs DEF SenderInv, Has
<1> HIDE DEF m
<1>8. Members' = Members /\ Length' = Length /\ Exact'
  BY <1>1, <1>3, CastList
<1>9. Length = size /\ size \in 0..Slots
  <2>1. \A k \in Loops : op[k].kind # "shrink"
    <3>1. \A k \in Loops : op'[k].kind # "shrink"
      BY <1>3, <1>4 DEF Overlap, Idle, Removes
    <3> QED
      BY <1>1, <1>4, <3>1
  <2>2. Length = size
    BY <2>1 DEF Length
  <2> QED
    BY <2>2 DEF SerialInv, ListInv, Exact
<1>10. \A i \in 1..size : array[i] \in Channels
  BY <1>9, MembersAre DEF SerialInv, ListInv, Exact
<1>11. ASSUME NEW k \in Loops
       PROVE  Within(k)'
  <2>1. CASE k = l
    BY <1>1, <1>3, <1>4, <1>7, <1>9, <1>10, <2>1 DEF Within
  <2>2. CASE k # l
    <3>1. Within(k) /\ op'[k] = op[k]
      BY <1>4, <2>2 DEF SerialInv, ListInv
    <3> QED
      BY <1>1, <1>2, <1>6, <3>1 DEF Within, Has
  <2> QED
    BY <2>1, <2>2
<1>12. ListInv'
  BY <1>8, <1>11 DEF ListInv
<1>13. ReachedInv'
  <2> SUFFICES ASSUME NEW k \in 1..MaxMsgs, Over(k)'
               PROVE  \A x \in due'[k] : phase'[x] = "upgraded" => Has(got'[x], k)
    BY DEF ReachedInv
  <2>1. k # m
    BY <1>3, <1>4 DEF Over, Casting
  <2>2. Over(k)
    BY <1>1, <1>4, <2>1 DEF Over, Casting, m
  <2> QED
    BY <1>1, <1>2, <2>1, <2>2 DEF SerialInv, ReachedInv, Has
<1>14. OnceInv'
  BY <1>1 DEF SerialInv, OnceInv
<1> QED
  BY <1>12, <1>13, <1>14 DEF SerialInv

\* A sequence with one message more.
LEMMA HasAppend ==
    ASSUME NEW S, NEW s \in Seq(S), NEW m
    PROVE  \A k : Has(Append(s, m), k) <=> Has(s, k) \/ k = m
<1>1. /\ Len(s) \in Nat /\ DOMAIN s = 1..Len(s)
      /\ DOMAIN Append(s, m) = 1..Len(s) + 1
      /\ Append(s, m)[Len(s) + 1] = m
      /\ \A i \in 1..Len(s) : Append(s, m)[i] = s[i]
  OBVIOUS
<1>2. \A i : i \in 1..Len(s) + 1 <=> i \in 1..Len(s) \/ i = Len(s) + 1
  BY <1>1
<1> HIDE <1>1
<1> QED
  BY <1>1, <1>2 DEF Has

LEMMA NextSerial ==
    ASSUME BaseInv, BaseInv', SerialInv, NEW l \in Loops,
           BroadcastNext(l), ~Overlap(op')
    PROVE  SerialInv'
<1> DEFINE at == op[l].at
           to == array[at + 1]
           m == op[l].msg
<1>1. /\ op[l].kind = "cast" /\ at # size /\ m \in 1..MaxMsgs
      /\ got' = IF phase[to] = "upgraded"
                THEN [got EXCEPT ![to] = Append(@, m)] ELSE got
      /\ UNCHANGED <<phase, array, size, modCount, sent, due>>
  BY NextIs
<1>2. PICK o \in OpType :
         /\ op' = [op EXCEPT ![l] = o] /\ o.kind = "cast" /\ o.msg = m
         /\ o.at = at + 1 /\ o.expected = op[l].expected
  BY NextIs
<1>3. op'[l] = o /\ \A k \in Loops : k # l => op'[k] = op[k]
  BY <1>2 DEF BaseInv, Types
<1>4. Length = size /\ size \in 0..Slots /\ Slots \in Nat
  BY <1>1, CastLength, ChatAssumption DEF ChatAssumption
<1>5. /\ op[l].expected = modCount /\ at \in 0..size
      /\ \A i \in 1..at :
            array[i] \in due[m] /\ phase[array[i]] = "upgraded"
                => Has(got[array[i]], m)
      /\ \A i \in 1..size : i > at => ~Has(got[array[i]], m)
  BY <1>1 DEF SerialInv, ListInv, Within
<1>6. at + 1 \in 1..size /\ 1..(at + 1) = (1..at) \union {at + 1}
  BY <1>1, <1>4, <1>5
<1>7. /\ \A i \in 1..size : array[i] \in Channels
      /\ \A i, j \in 1..size : array[i] = array[j] => i = j
  BY <1>4, MembersAre DEF SerialInv, ListInv, Exact
<1>8. to \in Channels /\ ~Has(got[to], m)
  BY <1>4, <1>5, <1>6, <1>7
<1>9. \A x \in Channels : got[x] \in Seq(1..MaxMsgs)
  BY DEF BaseInv, Types
<1>10. \A x \in Channels :
          got'[x] = IF x = to /\ phase[to] = "upgraded"
                    THEN Append(got[x], m) ELSE got[x]
  BY <1>1 DEF BaseInv, Types
<1>11. \A x \in Channels : \A k :
          Has(got'[x], k) <=>
             Has(got[x], k) \/ (x = to /\ phase[to] = "upgraded" /\ k = m)
  BY <1>9, <1>10, HasAppend
<1>12. Members' = Members /\ Length' = Length /\ Exact'
  BY <1>1, <1>2, CastList
<1> HIDE DEF at, to, m
<1>13. ASSUME NEW k \in Loops
       PROVE  Within(k)'
  <2>1. CASE k = l
    <3>1. \A i \in 1..(at + 1) :
             array[i] \in due[m] /\ phase[array[i]] = "upgraded"
                 => Has(got'[array[i]], m)
      <4>1. \A i \in 1..at : i \in 1..size
        BY <1>4, <1>5
      <4> QED
        BY <1>5, <1>6, <1>7, <1>11, <4>1 DEF to
    <3>2. \A i \in 1..size : i > at + 1 => ~Has(got'[array[i]], m)
      <4> SUFFICES ASSUME NEW i \in 1..size, i > at + 1
                   PROVE  ~Has(got'[array[i]], m)
        OBVIOUS
      <4>1. i > at /\ i # at + 1
        BY <1>4, <1>5
      <4> QED
        BY <1>5, <1>6, <1>7, <1>11, <4>1 DEF to
    <3>3. at + 1 \in 0..size
      BY <1>4, <1>6
    <3> QED
      BY <1>1, <1>2, <1>3, <1>5, <2>1, <3>1, <3>2, <3>3 DEF Within
  <2>2. CASE k # l
    <3>1. Within(k) /\ op'[k] = op[k]
      BY <1>3, <2>2 DEF SerialInv, ListInv
    <3>2. CASE op[k].kind = "cast"
      <4>1. op[k].msg # m
        BY <1>1, <2>2, <3>2 DEF BaseInv, CastInv, m
      <4>2. \A x \in Channels : Has(got'[x], op[k].msg) <=> Has(got[x], op[k].msg)
        BY <1>11, <4>1
      <4>3. op[k].at \in 0..size /\ \A i \in 1..op[k].at : i \in 1..size
        BY <1>4, <3>1, <3>2 DEF Within
      <4> QED
        BY <1>1, <1>7, <3>1, <3>2, <4>2, <4>3 DEF Within
    <3>3. CASE op[k].kind # "cast"
      BY <1>1, <3>1, <3>3 DEF Within
    <3> QED
      BY <3>2, <3>3
  <2> QED
    BY <2>1, <2>2
<1>14. ListInv'
  BY <1>12, <1>13 DEF ListInv
<1>15. ReachedInv'
  <2> SUFFICES ASSUME NEW k \in 1..MaxMsgs, Over(k)'
               PROVE  \A x \in due'[k] : phase'[x] = "upgraded" => Has(got'[x], k)
    BY DEF ReachedInv
  <2>1. Over(k)
    BY <1>1, <1>2, <1>3 DEF Over, Casting, m
  <2>2. \A x \in due[k] : x \in Channels
    BY DEF BaseInv, Types
  <2> QED
    BY <1>1, <1>11, <2>1, <2>2 DEF SerialInv, ReachedInv
<1>16. OnceInv'
  <2> SUFFICES ASSUME NEW x \in Channels, NEW i \in DOMAIN got'[x],
                      NEW j \in DOMAIN got'[x], i < j
               PROVE  got'[x][i] # got'[x][j]
    BY DEF OnceInv
  <2>1. CASE got'[x] = got[x]
    BY <2>1 DEF SerialInv, OnceInv
  <2>2. CASE x = to /\ got'[x] = Append(got[x], m)
    <3>1. /\ Len(got[x]) \in Nat /\ DOMAIN got[x] = 1..Len(got[x])
          /\ DOMAIN got'[x] = 1..Len(got[x]) + 1
          /\ got'[x][Len(got[x]) + 1] = m
          /\ \A n \in 1..Len(got[x]) : got'[x][n] = got[x][n]
      BY <1>9, <2>2
    <3>2. /\ i \in 1..Len(got[x])
          /\ j \in 1..Len(got[x]) \/ j = Len(got[x]) + 1
      BY <3>1
    <3>3. CASE j \in 1..Len(got[x])
      BY <3>1, <3>2, <3>3 DEF SerialInv, OnceInv
    <3>4. CASE j = Len(got[x]) + 1
      BY <1>8, <2>2, <3>1, <3>2, <3>4 DEF Has
    <3> QED
      BY <3>2, <3>3, <3>4
  <2> QED
    BY <1>10, <2>1, <2>2
<1> QED
  BY <1>14, <1>15, <1>16 DEF SerialInv

LEMMA EndSerial ==
    ASSUME BaseInv, BaseInv', SerialInv, NEW l \in Loops, BroadcastEnd(l),
           ~Overlap(op')
    PROVE  SerialInv'
<1> DEFINE m == op[l].msg
<1>1. /\ op[l].kind = "cast" /\ op[l].at = size
      /\ op' = [op EXCEPT ![l] = Idle]
      /\ UNCHANGED <<phase, array, size, modCount, sent, due, got>>
  BY DEF BroadcastEnd, Casting, HasNext, SetOp, list
<1>2. op'[l] = Idle /\ \A k \in Loops : k # l => op'[k] = op[k]
  BY <1>1 DEF BaseInv, Types
<1>3. Idle.kind = "idle"
  BY DEF Idle
<1>4. Members' = Members /\ Length' = Length /\ Exact'
  BY <1>1, <1>3, CastList
<1>5. \A k \in Loops : Within(k)'
  <2>1. \A k \in Loops : Within(k)
    BY DEF SerialInv, ListInv
  <2> QED
    BY <1>1, <1>2, <1>3, <2>1 DEF Within, Has
<1>6. ListInv'
  BY <1>4, <1>5 DEF ListInv
<1>7. ReachedInv'
  <2> SUFFICES ASSUME NEW k \in 1..MaxMsgs, Over(k)'
               PROVE  \A x \in due'[k] : phase'[x] = "upgraded" => Has(got'[x], k)
    BY DEF ReachedInv
  <2>1. CASE k = m
    <3>1. \A j \in Loops : op[j].kind \notin Adds
      BY <1>1 DEF SerialInv, ListInv, Overlap, Idle, Adds
    <3>2. ASSUME NEW x \in due[k], phase[x] = "upgraded"
          PROVE  Has(got[x], k)
      <4>1. x \in Members
        BY <3>1, <3>2, MembersAre DEF BaseInv, Types
      <4>2. PICK i \in 1..size : array[i] = x
        BY <1>1, <4>1, CastLength DEF SerialInv, ListInv, Exact
      <4> QED
        BY <1>1, <2>1, <3>2, <4>2 DEF SerialInv, ListInv, Within
    <3> QED
      BY <1>1, <3>2 DEF Has
  <2>2. CASE k # m
    <3>1. Over(k)
      BY <1>1, <1>2, <2>2 DEF Over, Casting
    <3> QED
      BY <1>1, <3>1 DEF SerialInv, ReachedInv, Has
  <2> QED
    BY <2>1, <2>2
<1>8. OnceInv'
  BY <1>1 DEF SerialInv, OnceInv
<1> QED
  BY <1>6, <1>7, <1>8 DEF SerialInv

\* What fails is what another event loop came between.
LEMMA FailsNever ==
    ASSUME BaseInv, SerialInv, NEW l \in Loops
    PROVE  ~AddFails(l) /\ ~BroadcastFails(l)
<1>1. Slots \in Nat /\ None \notin Channels
  BY ChatAssumption DEF ChatAssumption
<1>2. ASSUME AddFails(l)
      PROVE  FALSE
  <2>1. op[l].kind = "add" /\ op[l].count = size /\ op[l].count < 0
    BY <1>2 DEF AddFails, SerialInv, ListInv, Within
  <2>2. \A k \in Loops : op[k].kind # "shrink"
    BY <2>1, Alone DEF SerialInv, ListInv, Idle, Adds
  <2>3. Length = size /\ size \in 0..Slots
    BY <2>2 DEF Length, SerialInv, ListInv, Exact
  <2> QED
    BY <1>1, <2>1, <2>3
<1>3. ASSUME BroadcastFails(l)
      PROVE  FALSE
  <2>1. /\ op[l].kind = "cast" /\ op[l].at # size
        /\ \/ modCount # op[l].expected \/ op[l].at > size
           \/ array[op[l].at + 1] = None
    BY <1>3 DEF BroadcastFails, Casting, HasNext, NextFails
  <2>2. op[l].expected = modCount /\ op[l].at \in 0..size
    BY <2>1 DEF SerialInv, ListInv, Within
  <2>3. Length = size /\ size \in 0..Slots
    BY <2>1, CastLength
  <2>4. op[l].at + 1 \in 1..size /\ ~(op[l].at > size)
    BY <1>1, <2>1, <2>2, <2>3
  <2>5. array[op[l].at + 1] \in Channels
    BY <2>3, <2>4, MembersAre DEF SerialInv, ListInv, Exact
  <2> QED
    BY <1>1, <2>1, <2>2, <2>4, <2>5
<1> QED
  BY <1>2, <1>3

-----------------------------------------------------------------------------
LEMMA SerialInit ==
    ASSUME Init, BaseInv
    PROVE  SerialInv
<1>1. size = 0 /\ sent = 0 /\ \A l \in Loops : op[l] = Idle
  BY DEF Init
<1>2. \A x : x \notin Members
  BY <1>1, MembersAre DEF Init, Idle
<1>3. Length = 0
  BY <1>1 DEF Length, Idle
<1>4. Exact
  BY <1>2, <1>3, ChatAssumption DEF ChatAssumption, Exact
<1>5. ListInv
  BY <1>1, <1>4 DEF ListInv, Within, Overlap, Idle, Adds, Removes
<1>6. ReachedInv /\ OnceInv
  BY <1>1 DEF ReachedInv, OnceInv, Over, Init
<1> QED
  BY <1>5, <1>6 DEF SerialInv

LEMMA SerialNext ==
    ASSUME BaseInv, BaseInv', SenderInv, SerialInv, [Next]_vars, ~raced'
    PROVE  SerialInv'
<1>1. CASE UNCHANGED vars
  BY <1>1 DEF vars, list, SerialInv, ListInv, Exact, Within, ReachedInv,
     OnceInv, Length, Members, Adding, Removing, Overlap, Over, Casting, Has
<1>2. CASE Next
  <2>1. ~Overlap(op')
    BY <1>2 DEF Next
  <2>2. CASE \E ch \in Channels : ChannelStep(ch)
    BY <2>1, <2>2, ActiveSerial, UpgradeSerial, InactiveSerial,
       BroadcastSerial DEF ChannelStep
  <2>3. CASE \E l \in Loops : LoopStep(l)
    BY <2>1, <2>3, StoreSerial, AddedSerial, CountSerial, ShiftSerial,
       SizeSerial, ClearSerial, NextSerial, EndSerial, FailsNever
    DEF LoopStep
  <2> QED
    BY <1>2, <2>2, <2>3 DEF Next
<1> QED
  BY <1>1, <1>2

\* The inductive invariant: what holds always, and what holds without a race.
ChatInv ==
    BaseInv /\ SenderInv /\ OrderInv /\ (~raced => SerialInv)

LEMMA ChatInvAlways == Spec => []ChatInv
<1>1. Init => ChatInv
  BY BaseInit, SenderInit, SerialInit DEF ChatInv
<1>2. ChatInv /\ [Next]_vars => ChatInv'
  <2> SUFFICES ASSUME ChatInv, [Next]_vars
               PROVE  ChatInv'
    OBVIOUS
  <2>1. BaseInv'
    BY BaseNext DEF ChatInv
  <2>2. SenderInv' /\ OrderInv'
    BY SenderNext DEF ChatInv
  <2>3. raced => raced'
    BY DEF Next, vars
  <2>4. ~raced' => SerialInv'
    BY <2>1, <2>3, SerialNext DEF ChatInv
  <2> QED
    BY <2>1, <2>2, <2>4 DEF ChatInv
<1> QED
  BY <1>1, <1>2, PTL DEF Spec

\* As long as the event loops do not overlap in the list, it holds exactly the
\* channels that are connected, each once (channelActive and channelInactive,
\* HttpAndWebSocketServer.java:196-208).
THEOREM ListExact == Spec => []SerialListExact
<1>1. ChatInv => SerialListExact
  BY DEF ChatInv, SerialInv, ListInv, Exact, SerialListExact
<1> QED
  BY <1>1, ChatInvAlways, PTL

\* As long as the event loops do not overlap in the list, a broadcast reaches
\* everybody who is in the chat from its beginning to its end (the loop over
\* wbschannels, HttpAndWebSocketServer.java:145-147).
THEOREM BroadcastComplete == Spec => []SerialBroadcastComplete
<1>1. ChatInv => SerialBroadcastComplete
  BY DEF ChatInv, SerialInv, ReachedInv, Has, SerialBroadcastComplete, Reached
<1> QED
  BY <1>1, ChatInvAlways, PTL

\* Whatever the event loops do to the list at the same time, the messages of
\* one sender come in their order: its event loop begins no broadcast before
\* the last one is over.  As long as they do not overlap in the list nobody is
\* written a message twice: the iterator meets a channel once (the loop over
\* wbschannels, HttpAndWebSocketServer.java:145-147).
THEOREM InOrder == Spec => []InOrderOnce
<1>1. ChatInv => InOrderOnce
  BY DEF ChatInv, OrderInv, SerialInv, OnceInv, InOrderOnce
<1> QED
  BY <1>1, ChatInvAlways, PTL
-----------------------------------------------------------------------------
(***************************************************************************)
(* How far the size can be off, whatever the event loops do to the list.   *)
(***************************************************************************)

\* Those whose add() is over: no size is written that counts more.
Done == {ch \in Channels : phase[ch] # "new"} \ Adding
\* Those whose removal wrote its size: no size is written below as many.
Gone ==
    {ch \in Channels : phase[ch] = "dead" /\ \A l \in Loops :
        ~(op[l].kind \in {"remove", "shift", "shrink"} /\ op[l].ch = ch)}
Bounds(n, gone, done) == n >= -Cardinality(gone) /\ n <= Cardinality(done)

SizeInv ==
    /\ array \in [1..Slots -> Channels \union {None}]
    /\ Bounds(size, Gone, Done)
    /\ \A l \in Loops :
          /\ op[l].at \in 0..Slots /\ Bounds(op[l].count, Gone, Done)
          /\ op[l].kind = "stored" => op[l].count >= 0

LEMMA CountsAre ==
    ASSUME BaseInv
    PROVE  /\ \A x : x \in Done <=>
                 /\ x \in Channels /\ phase[x] # "new"
                 /\ \A l \in Loops : ~(op[l].kind \in Adds /\ op[l].ch = x)
           /\ \A x : x \in Gone <=>
                 /\ x \in Channels /\ phase[x] = "dead"
                 /\ \A l \in Loops :
                       ~(op[l].kind \in {"remove", "shift", "shrink"}
                           /\ op[l].ch = x)
           /\ IsFiniteSet(Done) /\ IsFiniteSet(Gone)
           /\ Cardinality(Done) \in Nat /\ Cardinality(Done) <= Slots
           /\ Cardinality(Gone) \in Nat /\ Slots \in Nat
           /\ Cardinality(Gone) <= Cardinality(Channels)
           /\ Cardinality(Channels) \in Nat
<1>1. Done \subseteq Channels /\ Gone \subseteq Channels
  BY DEF Done, Gone
<1>2. /\ IsFiniteSet(Channels) /\ Cardinality(Channels) <= Slots
      /\ Slots \in Nat /\ Cardinality(Channels) \in Nat
  BY ChatAssumption, FS_CardinalityType DEF ChatAssumption
<1>3. /\ IsFiniteSet(Done) /\ Cardinality(Done) <= Cardinality(Channels)
      /\ Cardinality(Done) \in Nat
  BY <1>1, <1>2, FS_Subset, FS_CardinalityType
<1>4. /\ IsFiniteSet(Gone) /\ Cardinality(Gone) <= Cardinality(Channels)
      /\ Cardinality(Gone) \in Nat
  BY <1>1, <1>2, FS_Subset, FS_CardinalityType
<1>5. \A x : x \in Done <=>
         /\ x \in Channels /\ phase[x] # "new"
         /\ \A l \in Loops : ~(op[l].kind \in Adds /\ op[l].ch = x)
  BY DEF Done, Adding
<1>6. \A x : x \in Gone <=>
         /\ x \in Channels /\ phase[x] = "dead"
         /\ \A l \in Loops :
               ~(op[l].kind \in {"remove", "shift", "shrink"} /\ op[l].ch = x)
  BY DEF Gone
<1> QED
  BY <1>2, <1>3, <1>4, <1>5, <1>6

\* The same of the state after a step.
LEMMA CountsNext ==
    ASSUME BaseInv'
    PROVE  /\ \A x : x \in Done' <=>
                 /\ x \in Channels /\ phase'[x] # "new"
                 /\ \A l \in Loops : ~(op'[l].kind \in Adds /\ op'[l].ch = x)
           /\ \A x : x \in Gone' <=>
                 /\ x \in Channels /\ phase'[x] = "dead"
                 /\ \A l \in Loops :
                       ~(op'[l].kind \in {"remove", "shift", "shrink"}
                           /\ op'[l].ch = x)
           /\ IsFiniteSet(Done') /\ IsFiniteSet(Gone')
           /\ Cardinality(Done') \in Nat /\ Cardinality(Gone') \in Nat
<1>1. Done' \subseteq Channels /\ Gone' \subseteq Channels
  BY DEF Done, Gone
<1>2. IsFiniteSet(Channels)
  BY ChatAssumption DEF ChatAssumption
<1>3. /\ IsFiniteSet(Done') /\ IsFiniteSet(Gone')
      /\ Cardinality(Done') \in Nat /\ Cardinality(Gone') \in Nat
  BY <1>1, <1>2, FS_Subset, FS_CardinalityType
<1>4. \A x : x \in Done' <=>
         /\ x \in Channels /\ phase'[x] # "new"
         /\ \A l \in Loops : ~(op'[l].kind \in Adds /\ op'[l].ch = x)
  BY DEF Done, Adding
<1>5. \A x : x \in Gone' <=>
         /\ x \in Channels /\ phase'[x] = "dead"
         /\ \A l \in Loops :
               ~(op'[l].kind \in {"remove", "shift", "shrink"} /\ op'[l].ch = x)
  BY DEF Gone
<1> QED
  BY <1>3, <1>4, <1>5

\* Nothing that a step does takes a channel back out of Done or Gone.
LEMMA CountsGrow ==
    ASSUME BaseInv, BaseInv',
           \A x \in Channels :
              /\ phase[x] # "new" => phase'[x] # "new"
              /\ phase[x] = "dead" => phase'[x] = "dead",
           \A k \in Loops :
              /\ op'[k].kind \in Adds =>
                    \/ op[k].kind \in Adds /\ op'[k].ch = op[k].ch
                    \/ phase[op'[k].ch] = "new"
              /\ op'[k].kind \in {"remove", "shift", "shrink"} =>
                    \/ /\ op[k].kind \in {"remove", "shift", "shrink"}
                       /\ op'[k].ch = op[k].ch
                    \/ phase[op'[k].ch] # "dead"
    PROVE  /\ Done \subseteq Done' /\ Gone \subseteq Gone'
           /\ Cardinality(Done) <= Cardinality(Done')
           /\ Cardinality(Gone) <= Cardinality(Gone')
           /\ \A n \in Int : Bounds(n, Gone, Done) => Bounds(n, Gone', Done')
<1>1. Done \subseteq Done'
  BY CountsAre, CountsNext
<1>2. Gone \subseteq Gone'
  BY CountsAre, CountsNext
<1>3. /\ Cardinality(Done) <= Cardinality(Done')
      /\ Cardinality(Gone) <= Cardinality(Gone')
  BY <1>1, <1>2, CountsNext, FS_Subset
<1>4. ASSUME NEW n \in Int, Bounds(n, Gone, Done)
      PROVE  Bounds(n, Gone', Done')
  BY <1>3, <1>4, CountsAre, CountsNext DEF Bounds
<1> QED
  BY <1>1, <1>2, <1>3, <1>4

\* One step at a time: what the event loop in question leaves behind.
LEMMA SizeParts ==
    ASSUME BaseInv, BaseInv', SizeInv,
           \A n \in Int : Bounds(n, Gone, Done) => Bounds(n, Gone', Done'),
           array' \in [1..Slots -> Channels \union {None}],
           size' = size \/ Bounds(size', Gone', Done'),
           NEW l \in Loops, \A k \in Loops : k # l => op'[k] = op[k],
           \/ op'[l] = op[l]
           \/ /\ op'[l].at \in 0..Slots
              /\ Bounds(op'[l].count, Gone', Done')
              /\ op'[l].kind = "stored" => op'[l].count >= 0
    PROVE  SizeInv'
<1>1. size \in Int /\ \A k \in Loops : op[k].count \in Int
  BY DEF BaseInv, Types, OpType
<1>2. Bounds(size', Gone', Done')
  BY <1>1 DEF SizeInv
<1>3. \A k \in Loops :
         /\ op'[k].at \in 0..Slots /\ Bounds(op'[k].count, Gone', Done')
         /\ op'[k].kind = "stored" => op'[k].count >= 0
  BY <1>1 DEF SizeInv
<1> QED
  BY <1>2, <1>3 DEF SizeInv

LEMMA ZeroBounds ==
    ASSUME BaseInv'
    PROVE  Bounds(0, Gone', Done') /\ 0 \in 0..Slots
BY CountsNext, ChatAssumption DEF Bounds, ChatAssumption

LEMMA ActiveSize ==
    ASSUME BaseInv, BaseInv', SizeInv,
           NEW ch \in Channels, NEW l \in Loops, ChannelActive(ch, l)
    PROVE  SizeInv'
<1>1. /\ op[l] = Idle /\ phase[ch] = "new"
      /\ phase' = [phase EXCEPT ![ch] = "open"]
      /\ op' = [op EXCEPT ![l] = Busy("add", ch, 0, size, 0, 0)]
      /\ UNCHANGED <<array, size>>
  BY DEF ChannelActive, SetOp
<1>2. /\ op'[l].kind = "add" /\ op'[l].ch = ch /\ op'[l].count = size
      /\ op'[l].at = 0 /\ \A k \in Loops : k # l => op'[k] = op[k]
  BY <1>1 DEF BaseInv, Types, Busy
<1>3. \A x \in Channels :
         /\ phase[x] # "new" => phase'[x] # "new"
         /\ phase[x] = "dead" => phase'[x] = "dead"
  BY <1>1 DEF BaseInv, Types
<1>4. \A n \in Int : Bounds(n, Gone, Done) => Bounds(n, Gone', Done')
  BY <1>1, <1>2, <1>3, CountsGrow
<1>5. Bounds(size, Gone', Done') /\ Bounds(op'[l].count, Gone', Done')
  BY <1>2, <1>4 DEF SizeInv, BaseInv, Types
<1> QED
  BY <1>1, <1>2, <1>4, <1>5, SizeParts, ZeroBounds DEF SizeInv

LEMMA WorkSize ==
    ASSUME BaseInv, BaseInv', SizeInv, NEW l \in Loops, Works(l)
    PROVE  SizeInv'
<1>1. phase' = phase /\ op[l].kind \in Adds \union Removes
  BY WorkIs
<1>2. PICK o \in OpType :
         /\ op' = [op EXCEPT ![l] = o]
         /\ o = Idle \/ (o.ch = op[l].ch /\ o.at = op[l].at)
         /\ op[l].kind \in Adds => o = Idle \/ o.kind = "stored"
         /\ op[l].kind \in Removes =>
               o = Idle \/ o.kind \in {"shift", "shrink", "clear"}
  BY WorkIs
<1>3. op'[l] = o /\ \A k \in Loops : k # l => op'[k] = op[k]
  BY <1>2 DEF BaseInv, Types
<1>4. /\ op[l].ch \in Channels /\ loopOf[op[l].ch] = l
      /\ phase[op[l].ch] # "new"
      /\ op[l].kind \in Removes => phase[op[l].ch] = "dead"
  BY <1>1 DEF BaseInv, OwnInv, Adds, Removes
<1>5. Idle.kind = "idle" /\ Idle.at = 0 /\ Idle.count = 0
  BY DEF Idle
<1>6. op[l].kind = "clear" => o = Idle
  <2>1. op[l].kind = "clear" => RemoveClear(l)
    BY DEF Works, AddStore, AddSize, RemoveCount, RemoveShift, RemoveSize
  <2> QED
    BY <1>3, <2>1 DEF RemoveClear, SetOp, BaseInv, Types
<1>7. /\ Done \subseteq Done' /\ Gone \subseteq Gone'
      /\ Cardinality(Done) <= Cardinality(Done')
      /\ Cardinality(Gone) <= Cardinality(Gone')
      /\ \A n \in Int : Bounds(n, Gone, Done) => Bounds(n, Gone', Done')
  <2>1. ASSUME NEW k \in Loops
        PROVE  /\ op'[k].kind \in Adds =>
                     op[k].kind \in Adds /\ op'[k].ch = op[k].ch
               /\ op'[k].kind \in {"remove", "shift", "shrink"} =>
                     /\ op[k].kind \in {"remove", "shift", "shrink"}
                     /\ op'[k].ch = op[k].ch
    BY <1>1, <1>2, <1>3, <1>5, <1>6 DEF Adds, Removes
  <2> QED
    BY <1>1, <2>1, CountsGrow
<1>8. /\ size \in Int /\ op[l].count \in Int /\ Slots \in Nat
      /\ Cardinality(Done) \in Nat /\ Cardinality(Done') \in Nat
      /\ Cardinality(Gone) \in Nat /\ Cardinality(Gone') \in Nat
      /\ Cardinality(Done) <= Slots
  BY CountsAre, CountsNext DEF BaseInv, Types, OpType
<1>9. /\ Bounds(size, Gone, Done) /\ Bounds(op[l].count, Gone, Done)
      /\ Bounds(size, Gone', Done') /\ Bounds(op[l].count, Gone', Done')
      /\ op[l].at \in 0..Slots
      /\ array \in [1..Slots -> Channels \union {None}]
  BY <1>7, <1>8 DEF SizeInv
<1>10. Bounds(0, Gone', Done') /\ 0 \in 0..Slots
  BY ZeroBounds
<1>11. CASE AddStore(l)
  <2>1. /\ op[l].count >= 0 /\ o.count = op[l].count /\ o.at = op[l].at
        /\ array' = [array EXCEPT ![op[l].count + 1] = op[l].ch]
        /\ size' = size
    BY <1>3, <1>11 DEF AddStore, SetOp, BaseInv, Types, OpType
  <2>2. array' \in [1..Slots -> Channels \union {None}]
    BY <1>4, <1>9, <2>1
  <2> QED
    BY <1>3, <1>7, <1>8, <1>9, <2>1, <2>2, SizeParts
<1>12. CASE AddSize(l)
  <2>1. /\ o = Idle /\ size' = op[l].count + 1 /\ array' = array
        /\ op[l].kind = "stored"
    BY <1>3, <1>12 DEF AddSize, SetOp, BaseInv, Types
  <2>2. op[l].ch \in Done' /\ op[l].ch \notin Done
    <3>1. op'[l].kind = "idle"
      BY <1>3, <1>5, <2>1
    <3>2. \A k \in Loops : k # l /\ op'[k].kind \in Adds => op'[k].ch # op[l].ch
      BY <1>3, <1>4 DEF BaseInv, OwnInv, Adds
    <3> QED
      BY <1>1, <1>4, <2>1, <3>1, <3>2, CountsAre, CountsNext DEF Adds
  <2>3. Cardinality(Done) < Cardinality(Done')
    <3>1. Done # Done'
      BY <2>2
    <3> QED
      BY <1>7, <1>8, <3>1, CountsNext, FS_Subset
  <2>4. op[l].count >= 0
    BY <2>1 DEF SizeInv
  <2>5. Bounds(size', Gone', Done')
    BY <1>8, <1>9, <2>1, <2>3, <2>4 DEF Bounds
  <2> QED
    BY <1>3, <1>5, <1>7, <1>9, <1>10, <2>1, <2>5, SizeParts
<1>13. CASE RemoveCount(l)
  <2>1. /\ o.count = size /\ o.at = op[l].at /\ o.kind = "shift"
        /\ array' = array /\ size' = size
    BY <1>3, <1>13 DEF RemoveCount, SetOp, BaseInv, Types, OpType
  <2> QED
    BY <1>3, <1>7, <1>9, <2>1, SizeParts
<1>14. CASE RemoveShift(l)
  <2>1. /\ o.count = op[l].count /\ o.at = op[l].at /\ o.kind = "shrink"
        /\ array' = Shifted(op[l].at, op[l].count) /\ size' = size
    BY <1>3, <1>14 DEF RemoveShift, SetOp, BaseInv, Types, OpType
  <2>2. \A j \in 1..Slots : j < op[l].count => j + 1 \in 1..Slots
    BY <1>8, <1>9 DEF Bounds
  <2>3. array' \in [1..Slots -> Channels \union {None}]
    BY <1>9, <2>1, <2>2 DEF Shifted
  <2> QED
    BY <1>3, <1>7, <1>8, <1>9, <2>1, <2>3, SizeParts
<1>15. CASE RemoveSize(l)
  <2>1. /\ o.count = op[l].count /\ o.at = op[l].at /\ o.kind = "clear"
        /\ size' = op[l].count - 1 /\ array' = array
        /\ op[l].kind = "shrink"
    BY <1>3, <1>15 DEF RemoveSize, SetOp, BaseInv, Types, OpType
  <2>2. op[l].ch \in Gone' /\ op[l].ch \notin Gone
    <3>1. op'[l].kind = "clear"
      BY <1>3, <2>1
    <3>2. \A k \in Loops : k # l /\ op'[k].kind \in {"remove", "shift", "shrink"}
             => op'[k].ch # op[l].ch
      BY <1>3, <1>4 DEF BaseInv, OwnInv
    <3> QED
      BY <1>1, <1>4, <2>1, <3>1, <3>2, CountsAre, CountsNext DEF Removes
  <2>3. Cardinality(Gone) < Cardinality(Gone')
    <3>1. Gone # Gone'
      BY <2>2
    <3> QED
      BY <1>7, <1>8, <3>1, CountsNext, FS_Subset
  <2>4. Bounds(size', Gone', Done')
    BY <1>7, <1>8, <1>9, <2>1, <2>3 DEF Bounds
  <2> QED
    BY <1>3, <1>7, <1>8, <1>9, <2>1, <2>4, SizeParts
<1>16. CASE RemoveClear(l)
  <2>1. /\ o = Idle /\ size' = size
        /\ array' = [j \in 1..Slots |-> IF j = op[l].count THEN None ELSE array[j]]
    BY <1>3, <1>16 DEF RemoveClear, SetOp, BaseInv, Types
  <2>2. array' \in [1..Slots -> Channels \union {None}]
    BY <1>9, <2>1
  <2> QED
    BY <1>3, <1>5, <1>7, <1>9, <1>10, <2>1, <2>2, SizeParts
<1> QED
  BY <1>11, <1>12, <1>13, <1>14, <1>15, <1>16 DEF Works

LEMMA InactiveSize ==
    ASSUME BaseInv, BaseInv', SizeInv, NEW ch \in Channels, ChannelInactive(ch)
    PROVE  SizeInv'
<1> SUFFICES ASSUME NEW l \in Loops, l = loopOf[ch]
             PROVE  SizeInv'
  BY InactiveIs
<1>1. /\ op[l] = Idle /\ phase[ch] = "closing"
      /\ phase' = [phase EXCEPT ![ch] = "dead"]
      /\ UNCHANGED <<array, size>>
  BY InactiveIs
<1>2. \/ op' = op
      \/ \E i \in 1..size : \E o \in OpType :
            /\ op' = [op EXCEPT ![l] = o]
            /\ o.kind = "remove" /\ o.ch = ch /\ o.at = i /\ o.count = 0
  BY InactiveIs
<1>3. /\ \A k \in Loops : k # l => op'[k] = op[k]
      /\ \/ op'[l] = op[l]
         \/ /\ op'[l].kind = "remove" /\ op'[l].ch = ch
            /\ op'[l].at \in 1..size /\ op'[l].count = 0
  BY <1>2 DEF BaseInv, Types
<1>4. \A x \in Channels :
         /\ phase[x] # "new" => phase'[x] # "new"
         /\ phase[x] = "dead" => phase'[x] = "dead"
  BY <1>1 DEF BaseInv, Types
<1>5. \A n \in Int : Bounds(n, Gone, Done) => Bounds(n, Gone', Done')
  BY <1>1, <1>3, <1>4, CountsGrow DEF Adds
<1>6. size \in Int /\ size <= Slots /\ Slots \in Nat
  BY CountsAre DEF SizeInv, Bounds, BaseInv, Types
<1>7. \A i \in 1..size : i \in 0..Slots
  BY <1>6
<1> QED
  BY <1>1, <1>3, <1>5, <1>7, SizeParts, ZeroBounds DEF SizeInv

\* Steps of a broadcast, and those that leave the list alone.
LEMMA OtherSize ==
    ASSUME BaseInv, BaseInv', SizeInv, UNCHANGED <<array, size>>,
           \A x \in Channels :
              /\ phase[x] # "new" => phase'[x] # "new"
              /\ phase[x] = "dead" => phase'[x] = "dead",
           NEW l \in Loops, \A k \in Loops : k # l => op'[k] = op[k],
           \/ op'[l] = op[l]
           \/ /\ op'[l].kind \in {"idle", "cast"}
              /\ op'[l].at \in 0..Slots
              /\ op'[l].count = 0 \/ op'[l].count = op[l].count
    PROVE  SizeInv'
<1>1. \A n \in Int : Bounds(n, Gone, Done) => Bounds(n, Gone', Done')
  BY CountsGrow DEF Adds
<1>2. op[l].count \in Int /\ Bounds(op[l].count, Gone, Done)
  BY DEF SizeInv, BaseInv, Types, OpType
<1>3. op'[l].count = op[l].count => Bounds(op'[l].count, Gone', Done')
  BY <1>1, <1>2
<1> QED
  BY <1>1, <1>3, SizeParts, ZeroBounds DEF SizeInv

LEMMA SizeNext ==
    ASSUME BaseInv, BaseInv', SizeInv, [Next]_vars
    PROVE  SizeInv'
<1>1. CASE UNCHANGED vars
  BY <1>1 DEF vars, list, SizeInv, Bounds, Done, Gone, Adding
<1>2. Idle.kind = "idle" /\ Idle.at = 0 /\ Idle.count = 0 /\ 0 \in 0..Slots
  BY ChatAssumption DEF ChatAssumption, Idle
<1>3. ASSUME NEW ch \in Channels, ChannelStep(ch)
      PROVE  SizeInv'
  <2>1. CASE Upgrade(ch) \/ Close(ch)
    <3>1. /\ op' = op /\ UNCHANGED <<array, size>>
          /\ \A x \in Channels :
                /\ phase[x] # "new" => phase'[x] # "new"
                /\ phase[x] = "dead" => phase'[x] = "dead"
      BY <2>1 DEF Upgrade, Close, list, BaseInv, Types
    <3>2. PICK l \in Loops : TRUE
      BY ChatAssumption DEF ChatAssumption
    <3> QED
      BY <3>1, <3>2, OtherSize
  <2>2. CASE Broadcast(ch)
    <3>1. /\ loopOf[ch] \in Loops /\ op[loopOf[ch]] = Idle
          /\ UNCHANGED <<phase, array, size>>
      BY <2>2, BroadcastIs
    <3>2. PICK o \in OpType : /\ op' = [op EXCEPT ![loopOf[ch]] = o]
                              /\ o.kind = "cast" /\ o.at = 0 /\ o.count = 0
      BY <2>2, BroadcastIs
    <3>3. /\ op'[loopOf[ch]] = o
          /\ \A k \in Loops : k # loopOf[ch] => op'[k] = op[k]
      BY <3>1, <3>2 DEF BaseInv, Types
    <3> QED
      BY <1>2, <3>1, <3>2, <3>3, OtherSize
  <2> QED
    BY <1>3, <2>1, <2>2, ActiveSize, InactiveSize DEF ChannelStep
<1>4. ASSUME NEW l \in Loops, LoopStep(l)
      PROVE  SizeInv'
  <2>1. CASE BroadcastNext(l)
    <3>1. /\ op[l].at # size /\ ~(op[l].at > size)
          /\ UNCHANGED <<phase, array, size>>
      BY <2>1, NextIs
    <3>2. PICK o \in OpType :
             /\ op' = [op EXCEPT ![l] = o] /\ o.kind = "cast"
             /\ o.at = op[l].at + 1 /\ o.count = op[l].count
      BY <2>1, NextIs
    <3>3. op'[l] = o /\ \A k \in Loops : k # l => op'[k] = op[k]
      BY <3>2 DEF BaseInv, Types
    <3>4. /\ size \in Int /\ size <= Slots /\ Slots \in Nat
          /\ op[l].at \in 0..Slots
      BY CountsAre DEF SizeInv, Bounds, BaseInv, Types
    <3>5. op[l].at + 1 \in 0..Slots
      BY <3>1, <3>4
    <3> QED
      BY <3>1, <3>2, <3>3, <3>5, OtherSize
  <2>2. CASE BroadcastEnd(l) \/ BroadcastFails(l) \/ AddFails(l)
    <3>1. /\ op' = [op EXCEPT ![l] = Idle] /\ UNCHANGED <<array, size>>
          /\ \A x \in Channels :
                /\ phase[x] # "new" => phase'[x] # "new"
                /\ phase[x] = "dead" => phase'[x] = "dead"
      BY <2>2 DEF BroadcastEnd, BroadcastFails, AddFails, SetOp, Closed, list,
                 BaseInv, Types
    <3>2. op'[l] = Idle /\ \A k \in Loops : k # l => op'[k] = op[k]
      BY <3>1 DEF BaseInv, Types
    <3> QED
      BY <1>2, <3>1, <3>2, OtherSize
  <2> QED
    BY <1>4, <2>1, <2>2, WorkSize DEF LoopStep, Works
<1> QED
  BY <1>1, <1>3, <1>4 DEF Next

LEMMA SizeInit ==
    ASSUME Init, BaseInv
    PROVE  SizeInv
<1>1. size = 0 /\ \A l \in Loops : op[l] = Idle
  BY DEF Init
<1>2. Bounds(0, Gone, Done) /\ 0 \in 0..Slots
  BY CountsAre DEF Bounds
<1>3. array \in [1..Slots -> Channels \union {None}]
  BY DEF Init
<1> QED
  BY <1>1, <1>2, <1>3 DEF SizeInv, Idle

LEMMA SizeInvAlways == Spec => [](ChatInv /\ SizeInv)
<1>1. Init => BaseInv /\ SizeInv
  BY BaseInit, SizeInit
<1>2. BaseInv /\ SizeInv /\ [Next]_vars => (BaseInv /\ SizeInv)'
  BY BaseNext, SizeNext
<1>3. Spec => [](BaseInv /\ SizeInv)
  BY <1>1, <1>2, PTL DEF Spec
<1> QED
  BY <1>3, ChatInvAlways, PTL

\* The types of the variables, and that the size of the list is never more
\* than its array holds and never further below zero than there are channels,
\* whatever the event loops do to each other (channelActive and
\* channelInactive, HttpAndWebSocketServer.java:196-208).
THEOREM TypeCorrect == Spec => []TypeOK
<1>1. ChatInv /\ SizeInv => TypeOK
  <2> SUFFICES ASSUME BaseInv, SenderInv, SizeInv
               PROVE  TypeOK
    BY DEF ChatInv
  <2>1. \A n \in Int : Bounds(n, Gone, Done) => n \in Least..Slots
    BY CountsAre DEF Bounds, Least
  <2>2. size \in Least..Slots
    BY <2>1 DEF SizeInv, BaseInv, Types
  <2>3. op \in [Loops -> OpType]
    BY DEF BaseInv, Types
  <2>4. \A l \in Loops : op[l].at \in 0..Slots /\ op[l].count \in Least..Slots
    BY <2>1, <2>3 DEF SizeInv, OpType
  <2>5. op \in [Loops -> [kind : {"idle", "cast"} \union Adds \union Removes,
                          ch : Channels \union {None},
                          at : 0..Slots, count : Least..Slots,
                          expected : Nat, msg : 0..MaxMsgs]]
    BY <2>3, <2>4 DEF OpType
  <2> QED
    BY <2>2, <2>5 DEF BaseInv, Types, Phases, SizeInv, SenderInv, TypeOK
<1> QED
  BY <1>1, SizeInvAlways, PTL
=============================================================================
