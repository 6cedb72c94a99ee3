----------------------------- MODULE HandleList -----------------------------
(***************************************************************************)
(* What the comments of List.c promise of its calls, with the list as a    *)
(* sequence of items: slot 1 is the header node, the element at position k *)
(* is slot k + 1, and no slot at all is a list that was not created or was *)
(* cleared.  One call is pending at a time; it takes effect when it        *)
(* returns, and every call can return.                                     *)
(***************************************************************************)
EXTENDS Integers, Sequences, SequencesExt

CONSTANTS
  Handles,    \* the values a caller stores
  NULL,       \* the null pointer, as a handle or as a list
  Positions,  \* the positions a caller asks for
  Sizes       \* the sizes a caller creates a list with

VARIABLES slots, call, ret

vars == <<slots, call, ret>>

Items == Handles \cup {NULL}

Call(op, pos, item) == [op |-> op, pos |-> pos, item |-> item]

Idle == Call("none", 0, NULL)

Calls ==
  {Call("Creat", n, NULL) : n \in Sizes}
    \cup {Call(op, k, x) : op \in {"Insert", "Sethandle"}, k \in Positions, x \in Items}
    \cup {Call(op, k, NULL) : op \in {"Gethandle", "Delete"}, k \in Positions}
    \cup {Call(op, 0, x) : op \in {"Add", "Find"}, x \in Items}
    \cup {Call(op, 0, NULL) : op \in {"Empty", "Size", "Clear"}}

\* what a call hands back: its result, *p_handle and *pos
Answer(code, item, pos) == [code |-> code, item |-> item, pos |-> pos]
Nothing == Answer(0, NULL, 0)

Init == slots = <<>> /\ call = Idle /\ ret = Nothing

\* a list is created where there is none
Invoke(c) ==
  /\ call = Idle
  /\ c.op = "Creat" => slots = <<>>
  /\ call' = c /\ ret' = Nothing /\ slots' = slots

Return(op, answer) == call.op = op /\ call' = Idle /\ ret' = answer
Result(op, code) == Return(op, Answer(code, NULL, 0))

Created ==
  \/ Result("Creat", -1) /\ slots' = <<>>
  \/ \E g \in Items, n \in 0..call.pos :
       /\ Result("Creat", IF n = call.pos THEN 0 ELSE -1)
       /\ slots' = <<g>> \o [k \in 1..n |-> NULL]

Inserted ==
  \/ /\ call.pos \in 1..Len(slots)
     /\ Result("Insert", 0)
     /\ slots' = InsertAt(slots, call.pos + 1, call.item)
  \/ Result("Insert", -1) /\ slots' = slots

Added ==
  \/ slots # <<>> /\ Result("Add", 0) /\ slots' = Append(slots, call.item)
  \/ Result("Add", -1) /\ slots' = slots

Got ==
  /\ IF call.pos \in 0..(Len(slots) - 1)
       THEN Return("Gethandle", Answer(0, slots[call.pos + 1], 0))
       ELSE Result("Gethandle", -1)
  /\ slots' = slots

Deleted ==
  IF call.pos \in 1..(Len(slots) - 1)
    THEN /\ Return("Delete", Answer(0, slots[call.pos + 1], 0))
         /\ slots' = RemoveAt(slots, call.pos + 1)
    ELSE Result("Delete", -1) /\ slots' = slots

Stored ==
  IF call.pos \in 0..(Len(slots) - 1)
    THEN Result("Sethandle", 0) /\ slots' = [slots EXCEPT ![call.pos + 1] = call.item]
    ELSE Result("Sethandle", -1) /\ slots' = slots

\* the header is no element
Found ==
  /\ \/ /\ \A k \in 2..Len(slots) : slots[k] # call.item
        /\ Result("Find", -1)
     \/ \E k \in 1..(Len(slots) - 1) :
          /\ slots[k + 1] = call.item
          /\ \A m \in 2..k : slots[m] # call.item
          /\ Return("Find", Answer(0, NULL, k))
  /\ slots' = slots

Tested ==
  /\ Result("Empty", IF Len(slots) <= 1 THEN 0 ELSE -1)
  /\ slots' = slots

Counted == Result("Size", Len(slots)) /\ slots' = slots

Cleared == Result("Clear", 1) /\ slots' = <<>>

Next ==
  \/ \E c \in Calls : Invoke(c)
  \/ Created \/ Inserted \/ Added \/ Got \/ Deleted \/ Stored \/ Found
  \/ Tested \/ Counted \/ Cleared

Spec == Init /\ [][Next]_vars
=============================================================================
