----------------------------- MODULE ChatServer -----------------------------
(***************************************************************************)
(* The chat of HttpAndWebSocketServer: every channel is served by one of   *)
(* several event loops, and all of them work on one ArrayList, wbschannels,*)
(* without a lock.  add, fastRemove and the iterator are cut where another *)
(* event loop can come between: at every write to the list and at every    *)
(* read of it that a later write goes by.  A scan, a copy and modCount++   *)
(* are a step each.                                                        *)
(***************************************************************************)
EXTENDS Integers, FiniteSets, Sequences

CONSTANTS Channels, Loops,
          Slots,        \* the array of the list, as far as it is looked at
          MaxMsgs,      \* chat messages that are sent
          None          \* no channel, null

ASSUME ChatAssumption ==
    /\ None \notin Channels
    /\ Slots \in Nat /\ MaxMsgs \in Nat
    /\ IsFiniteSet(Channels) /\ Cardinality(Channels) <= Slots
    /\ IsFiniteSet(Loops) /\ Loops # {}

VARIABLES
    phase,      \* of a channel: new, open, upgraded, closing, dead
    loopOf,     \* the event loop of a channel
    array, size, modCount,      \* the ArrayList
    op,         \* what an event loop is in the middle of
    sent,       \* how many messages were broadcast
    sender,     \* their channels
    due,        \* who was in the chat when their broadcast began
    got,        \* the messages a channel was written
    raced       \* whether event loops ever overlapped in the list

list == <<array, size, modCount>>
vars == <<phase, loopOf, array, size, modCount, op, sent, sender, due, got,
          raced>>

\* An operation on the list: its channel, the place it is at, the size it read,
\* and of an iterator the modCount it expects and the message.
Idle == [kind |-> "idle", ch |-> None, at |-> 0, count |-> 0,
         expected |-> 0, msg |-> 0]
Busy(kind, ch, at, count, expected, m) ==
    [kind |-> kind, ch |-> ch, at |-> at, count |-> count,
     expected |-> expected, msg |-> m]
Adds == {"add", "stored"}
Removes == {"remove", "shift", "shrink", "clear"}
Free(ch) == loopOf[ch] # None /\ op[loopOf[ch]] = Idle
SetOp(l, o) == op' = [op EXCEPT ![l] = o]
\* One event loop in the list while another one changes it.
Overlap(o) ==
    \E k, l \in Loops :
        k # l /\ o[k].kind \in Adds \union Removes /\ o[l] # Idle

Init ==
    /\ phase = [ch \in Channels |-> "new"]
    /\ loopOf = [ch \in Channels |-> None]
    /\ array = [i \in 1..Slots |-> None] /\ size = 0 /\ modCount = 0
    /\ op = [l \in Loops |-> Idle]
    /\ sent = 0
    /\ sender = [m \in 1..MaxMsgs |-> None]
    /\ due = [m \in 1..MaxMsgs |-> {}]
    /\ got = [ch \in Channels |-> <<>>]
    /\ raced = FALSE

-----------------------------------------------------------------------------
\* channelActive: add() reads the size ...
ChannelActive(ch, l) ==
    /\ phase[ch] = "new" /\ op[l] = Idle
    /\ phase' = [phase EXCEPT ![ch] = "open"]
    /\ loopOf' = [loopOf EXCEPT ![ch] = l]
    /\ modCount' = modCount + 1
    /\ SetOp(l, Busy("add", ch, 0, size, 0, 0))
    /\ UNCHANGED <<array, size, sent, sender, due, got>>

\* ... writes the element behind it ...
AddStore(l) ==
    /\ op[l].kind = "add" /\ op[l].count >= 0
    /\ array' = [array EXCEPT ![op[l].count + 1] = op[l].ch]
    /\ SetOp(l, [op[l] EXCEPT !.kind = "stored"])
    /\ UNCHANGED <<phase, loopOf, size, modCount, sent, sender, due, got>>

\* ... and then the size.
AddSize(l) ==
    /\ op[l].kind = "stored"
    /\ size' = op[l].count + 1
    /\ SetOp(l, Idle)
    /\ UNCHANGED <<phase, loopOf, array, modCount, sent, sender, due, got>>

\* Closing is what exceptionCaught does.
Closed(ch) == [phase EXCEPT ![ch] = IF @ = "dead" THEN @ ELSE "closing"]

\* A size below zero is no place to write at.
AddFails(l) ==
    /\ op[l].kind = "add" /\ op[l].count < 0
    /\ phase' = Closed(op[l].ch)
    /\ SetOp(l, Idle)
    /\ UNCHANGED <<loopOf, list, sent, sender, due, got>>

\* A mutant: the handshake adds the channel to the list as well.
UpgradeAdds(ch) ==
    /\ phase[ch] = "open" /\ Free(ch)
    /\ phase' = [phase EXCEPT ![ch] = "upgraded"]
    /\ SetOp(loopOf[ch], Busy("add", ch, 0, size, 0, 0))
    /\ UNCHANGED <<loopOf, list, sent, sender, due, got>>

\* The request with the headers of an upgrade: the handshake.
Upgrade(ch) ==
    /\ phase[ch] = "open" /\ Free(ch)
    /\ phase' = [phase EXCEPT ![ch] = "upgraded"]
    /\ UNCHANGED <<loopOf, list, op, sent, sender, due, got>>

\* The peer closes, or a response with the listener CLOSE went out.
Close(ch) ==
    /\ phase[ch] \in {"open", "upgraded"}
    /\ phase' = [phase EXCEPT ![ch] = "closing"]
    /\ UNCHANGED <<loopOf, list, op, sent, sender, due, got>>

\* channelInactive: remove() looks for the channel ...
Places(ch) == {i \in 1..size : array[i] = ch}
\* A mutant: a channel that is gone stays in the list.
InactiveKeeps(ch) ==
    /\ phase[ch] = "closing" /\ Free(ch)
    /\ phase' = [phase EXCEPT ![ch] = "dead"]
    /\ UNCHANGED <<loopOf, list, op, sent, sender, due, got>>

ChannelInactive(ch) ==
    /\ phase[ch] = "closing" /\ Free(ch)
    /\ phase' = [phase EXCEPT ![ch] = "dead"]
    /\ IF Places(ch) = {} THEN UNCHANGED op
       ELSE \E i \in Places(ch) :
               /\ \A j \in Places(ch) : i <= j
               /\ SetOp(loopOf[ch], Busy("remove", ch, i, 0, 0, 0))
    /\ UNCHANGED <<loopOf, list, sent, sender, due, got>>

\* ... fastRemove() reads the size ...
RemoveCount(l) ==
    /\ op[l].kind = "remove"
    /\ modCount' = modCount + 1
    /\ SetOp(l, [op[l] EXCEPT !.kind = "shift", !.count = size])
    /\ UNCHANGED <<phase, loopOf, array, size, sent, sender, due, got>>

\* ... moves what it takes to be behind the channel ...
Shifted(i, n) ==
    [j \in 1..Slots |-> IF i <= j /\ j < n THEN array[j + 1] ELSE array[j]]
RemoveShift(l) ==
    /\ op[l].kind = "shift"
    /\ array' = Shifted(op[l].at, op[l].count)
    /\ SetOp(l, [op[l] EXCEPT !.kind = "shrink"])
    /\ UNCHANGED <<phase, loopOf, size, modCount, sent, sender, due, got>>

\* ... writes the size, one less than it read ...
RemoveSize(l) ==
    /\ op[l].kind = "shrink"
    /\ size' = op[l].count - 1
    /\ SetOp(l, [op[l] EXCEPT !.kind = "clear"])
    /\ UNCHANGED <<phase, loopOf, array, modCount, sent, sender, due, got>>

\* ... and null behind it: below the first place that is an exception, which
\* closes a channel that is closed.
RemoveClear(l) ==
    /\ op[l].kind = "clear"
    /\ array' = [j \in 1..Slots |-> IF j = op[l].count THEN None ELSE array[j]]
    /\ SetOp(l, Idle)
    /\ UNCHANGED <<phase, loopOf, size, modCount, sent, sender, due, got>>

\* channelRead0 with a chat message: an iterator over the list.
Broadcast(ch) ==
    /\ phase[ch] = "upgraded" /\ Free(ch) /\ sent < MaxMsgs
    /\ sent' = sent + 1
    /\ sender' = [sender EXCEPT ![sent + 1] = ch]
    /\ due' = [due EXCEPT ![sent + 1] =
                 {x \in Channels : phase[x] = "upgraded"}]
    /\ SetOp(loopOf[ch], Busy("cast", ch, 0, 0, modCount, sent + 1))
    /\ UNCHANGED <<phase, loopOf, list, got>>

Casting(l) == op[l].kind = "cast"
HasNext(l) == op[l].at # size
\* ConcurrentModificationException, NoSuchElementException, or null.
NextFails(l) ==
    \/ modCount # op[l].expected \/ op[l].at > size
    \/ array[op[l].at + 1] = None

\* Mutants: the sender is left out, the iterator stays where it is.
BroadcastOthers(l) ==
    /\ Casting(l) /\ HasNext(l) /\ ~NextFails(l)
    /\ LET to == array[op[l].at + 1]
       IN  got' = IF phase[to] = "upgraded" /\ to # op[l].ch
                  THEN [got EXCEPT ![to] = Append(@, op[l].msg)] ELSE got
    /\ op' = [op EXCEPT ![l].at = @ + 1]
    /\ UNCHANGED <<phase, loopOf, list, sent, sender, due>>
BroadcastStays(l) ==
    /\ Casting(l) /\ HasNext(l) /\ ~NextFails(l)
    /\ LET to == array[op[l].at + 1]
       IN  got' = IF phase[to] = "upgraded"
                  THEN [got EXCEPT ![to] = Append(@, op[l].msg)] ELSE got
    /\ UNCHANGED <<phase, loopOf, list, op, sent, sender, due>>

\* A write to a channel that is no WebSocket (any more) fails by itself.
BroadcastNext(l) ==
    /\ Casting(l) /\ HasNext(l) /\ ~NextFails(l)
    /\ LET to == array[op[l].at + 1]
       IN  got' = IF phase[to] = "upgraded"
                  THEN [got EXCEPT ![to] = Append(@, op[l].msg)] ELSE got
    /\ op' = [op EXCEPT ![l].at = @ + 1]
    /\ UNCHANGED <<phase, loopOf, list, sent, sender, due>>

BroadcastEnd(l) ==
    /\ Casting(l) /\ ~HasNext(l)
    /\ SetOp(l, Idle)
    /\ UNCHANGED <<phase, loopOf, list, sent, sender, due, got>>

\* The channel the message came from is closed.
BroadcastFails(l) ==
    /\ Casting(l) /\ HasNext(l) /\ NextFails(l)
    /\ phase' = Closed(op[l].ch)
    /\ SetOp(l, Idle)
    /\ UNCHANGED <<loopOf, list, sent, sender, due, got>>

-----------------------------------------------------------------------------
ChannelStep(ch) ==
    \/ Upgrade(ch) \/ ChannelInactive(ch) \/ Broadcast(ch) \/ Close(ch)
    \/ \E l \in Loops : ChannelActive(ch, l)
LoopStep(l) ==
    \/ AddStore(l) \/ AddSize(l) \/ AddFails(l)
    \/ RemoveCount(l) \/ RemoveShift(l) \/ RemoveSize(l) \/ RemoveClear(l)
    \/ BroadcastNext(l) \/ BroadcastEnd(l) \/ BroadcastFails(l)

Next ==
    /\ (\E ch \in Channels : ChannelStep(ch)) \/ \E l \in Loops : LoopStep(l)
    /\ raced' = (raced \/ Overlap(op'))

Spec == Init /\ [][Next]_vars

-----------------------------------------------------------------------------
\* How far the size can fall: a removal lowers it by one.
Least == -Cardinality(Channels)

\* The types of the variables, and how far the size can be off.
TypeOK ==
    /\ phase \in [Channels -> {"new", "open", "upgraded", "closing", "dead"}]
    /\ loopOf \in [Channels -> Loops \union {None}]
    /\ array \in [1..Slots -> Channels \union {None}]
    /\ size \in Least..Slots /\ modCount \in Nat
    /\ op \in [Loops -> [kind : {"idle", "cast"} \union Adds \union Removes,
                         ch : Channels \union {None},
                         at : 0..Slots, count : Least..Slots,
                         expected : Nat, msg : 0..MaxMsgs]]
    /\ sent \in 0..MaxMsgs
    /\ sender \in [1..MaxMsgs -> Channels \union {None}]
    /\ due \in [1..MaxMsgs -> SUBSET Channels]
    /\ got \in [Channels -> Seq(1..MaxMsgs)]
    /\ raced \in BOOLEAN

\* The channels that are to be in the list: those that were made active, but
\* for the one that is being added, and the one that is not taken out yet.
Adding == {op[l].ch : l \in {k \in Loops : op[k].kind \in Adds}}
Removing == {op[l].ch : l \in {k \in Loops : op[k].kind \in {"remove", "shift"}}}
Members ==
    ({ch \in Channels : phase[ch] \in {"open", "upgraded", "closing"}}
        \ Adding) \union Removing

\* Between the copy and the size the last place is one too many.
Length == IF \E l \in Loops : op[l].kind = "shrink" THEN size - 1 ELSE size

\* As long as no event loop was in the list while another one changed it, it
\* holds exactly the channels that are connected, each once.
SerialListExact ==
    ~raced =>
        /\ {array[i] : i \in 1..Length} = Members
        /\ \A i, j \in 1..Length : array[i] = array[j] => i = j

\* As long as no event loop was in the list while another one changed it, a
\* broadcast that is over has reached everybody who was in the chat from its
\* beginning on.
Over(m) == m <= sent /\ \A l \in Loops : ~(Casting(l) /\ op[l].msg = m)
Reached(m) ==
    \A ch \in due[m] : phase[ch] = "upgraded" => m \in {got[ch][i] : i \in DOMAIN got[ch]}
SerialBroadcastComplete ==
    ~raced => \A m \in 1..MaxMsgs : Over(m) => Reached(m)

\* Whatever the event loops do to the list, nobody gets two messages of one
\* sender in the wrong order; and as long as no event loop was in the list while
\* another one changed it, nobody gets a message twice
\* (HttpAndWebSocketServer.java:145-147).
InOrderOnce ==
    \A ch \in Channels : \A i, j \in DOMAIN got[ch] : i < j =>
        /\ sender[got[ch][i]] = sender[got[ch][j]] => got[ch][i] <= got[ch][j]
        /\ ~raced => got[ch][i] # got[ch][j]

\* "broadcast to all client": with no condition on the event loops.
BroadcastToAll == \A m \in 1..MaxMsgs : Over(m) => Reached(m)
=============================================================================
