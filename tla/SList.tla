-------------------------------- MODULE SList --------------------------------
(***************************************************************************)
(* The singly linked list of src/mix-sources/tcp_echo_server/List.c on a   *)
(* heap of nodes, with a malloc() that may fail.  A step is one turn of a  *)
(* function's loop, or what it does behind its loop; p and i are the C     *)
(* locals (SL_Add and SL_Clear have no i: it is their history of p).       *)
(*                                                                         *)
(* One caller makes one call at a time, as the server thread does.         *)
(***************************************************************************)
EXTENDS Integers, Sequences, FiniteSets, SequencesExt

CONSTANTS
  Nodes,      \* the addresses malloc() can return
  Handles,    \* the values a caller stores
  NULL,       \* the null pointer
  Positions,  \* the positions a caller asks for
  Sizes       \* the sizes a caller creates a list with

ASSUME ListAssumption ==
  /\ NULL \notin Nodes /\ NULL \notin Handles
  /\ Positions \subseteq Int /\ Sizes \subseteq Nat

VARIABLES
  list,    \* the caller's SList
  alloc,   \* the nodes that are allocated
  next,    \* of each node
  handle,  \* of each node
  call,    \* the call that is running
  p, i,    \* its locals
  ret,     \* what the last call handed back
  chain    \* history: the list's nodes, in order, from the header on

heapVars == <<list, alloc, next, handle, chain>>
vars == <<heapVars, call, p, i, ret>>

\* The list as HandleList sees it: SL_Creat is building one until it returns.
Slots ==
  IF call.op = "Creat" THEN <<>> ELSE [k \in DOMAIN chain |-> handle[chain[k]]]

List == INSTANCE HandleList WITH slots <- Slots

Items == List!Items
Refs  == Nodes \cup {NULL}

\* a call that followed a null pointer
Lost == List!Call("lost", 0, NULL)

-----------------------------------------------------------------------------
Init ==
  /\ list = NULL /\ alloc = {} /\ chain = <<>>
  /\ next = [n \in Nodes |-> NULL]
  /\ handle = [n \in Nodes |-> NULL]
  /\ call = List!Idle /\ ret = List!Nothing
  /\ p = NULL /\ i = 0

\* A caller creates a list where it has none, and asks for anything else at
\* any time.  SL_Creat counts i down from its size.
Invoke(c) ==
  /\ call = List!Idle
  /\ c.op = "Creat" => list = NULL
  /\ call' = c /\ ret' = List!Nothing
  /\ p' = list
  /\ i' = IF c.op = "Creat" THEN c.pos ELSE 0
  /\ UNCHANGED heapVars

Return(answer) == call' = List!Idle /\ ret' = answer /\ p' = NULL /\ i' = 0
Result(code) == Return(List!Answer(code, NULL, 0))

\* a null pointer is followed
Derail == call' = Lost /\ UNCHANGED <<heapVars, p, i, ret>>

\* a slip: i++ is forgotten
AdvanceUncounted ==
  /\ p' = next[p] /\ i' = i
  /\ UNCHANGED <<heapVars, call, ret>>

\* p = p->next; i++
Advance ==
  /\ p' = next[p] /\ i' = i + 1
  /\ UNCHANGED <<heapVars, call, ret>>

\* a slip: free() is forgotten
FreeNothing(q) == alloc' = alloc

Free(q) == alloc' = alloc \ {q}

\* q = malloc(sizeof(Node)), linked in behind node b, whose place in the
\* chain is k; the new node becomes entry k + 1
LinkBehind(b, k, q, item) ==
  /\ q \in Nodes \ alloc
  /\ alloc' = alloc \cup {q}
  /\ handle' = [handle EXCEPT ![q] = item]
  /\ next' = [next EXCEPT ![q] = next[b], ![b] = q]
  /\ chain' = InsertAt(chain, k + 1, q)
  /\ list' = list

\* the node behind b unlinked and freed; free() leaves in it what nobody
\* reads: NULL stands for that
UnlinkBehind(b, k) ==
  LET q == next[b] IN
  /\ next' = [next EXCEPT ![b] = next[q], ![q] = NULL]
  /\ handle' = [handle EXCEPT ![q] = NULL]
  /\ Free(q)
  /\ chain' = RemoveAt(chain, k + 1)
  /\ list' = list

-----------------------------------------------------------------------------
\* The header's handle is what malloc() left there.
CreatHeader ==
  /\ call.op = "Creat" /\ list = NULL
  /\ \E q \in Nodes \ alloc, g \in Items :
       /\ list' = q /\ alloc' = alloc \cup {q} /\ chain' = <<q>>
       /\ next' = [next EXCEPT ![q] = NULL]
       /\ handle' = [handle EXCEPT ![q] = g]
  /\ UNCHANGED <<call, p, i, ret>>

\* a slip: the loop runs once more, with i at 0
CreatOneMore ==
  /\ call.op = "Creat" /\ list # NULL /\ i >= 0
  /\ \E q \in Nodes : LinkBehind(list, 1, q, NULL)
  /\ i' = i - 1
  /\ UNCHANGED <<call, p, ret>>

CreatNode ==
  /\ call.op = "Creat" /\ list # NULL /\ i > 0
  /\ \E q \in Nodes : LinkBehind(list, 1, q, NULL)
  /\ i' = i - 1
  /\ UNCHANGED <<call, p, ret>>

\* what was built so far stays with the caller
CreatNoMemory ==
  /\ call.op = "Creat" /\ (list = NULL \/ i > 0)
  /\ Result(-1) /\ UNCHANGED heapVars

CreatReturns ==
  /\ call.op = "Creat" /\ list # NULL /\ i = 0
  /\ Result(0) /\ UNCHANGED heapVars

\* while (p != NULL && i < target), in the four functions that go to a position
Walkers == {"Insert", "Delete", "Gethandle", "Sethandle"}

\* a slip: the insertion's loop stops at the place, not in front of it
TargetAtPlace == IF call.op = "Delete" THEN call.pos - 1 ELSE call.pos

Target == IF call.op \in {"Insert", "Delete"} THEN call.pos - 1 ELSE call.pos
Arrived == p = NULL \/ i >= Target
Missed  == p = NULL \/ i > Target

Walk ==
  /\ call.op \in Walkers /\ ~Arrived
  /\ Advance

InsertReturns ==
  /\ call.op = "Insert" /\ Arrived
  /\ \/ ~Missed /\ Result(0) /\ \E q \in Nodes : LinkBehind(p, i + 1, q, call.item)
     \/ Result(-1) /\ UNCHANGED heapVars

\* a slip: p = p->next is forgotten
AddStays ==
  /\ call.op = "Add" /\ p # NULL
  /\ next[p] # NULL
  /\ UNCHANGED vars

AddWalk ==
  /\ call.op = "Add" /\ p # NULL
  /\ next[p] # NULL
  /\ Advance

AddReturns ==
  /\ call.op = "Add"
  /\ p # NULL => next[p] = NULL
  /\ \/ p # NULL /\ Result(0) /\ \E q \in Nodes : LinkBehind(p, i + 1, q, call.item)
     \/ Result(-1) /\ UNCHANGED heapVars

GethandleReturns ==
  /\ call.op = "Gethandle" /\ Arrived
  /\ IF Missed THEN Result(-1) ELSE Return(List!Answer(0, handle[p], 0))
  /\ UNCHANGED heapVars

DeleteReturns ==
  /\ call.op = "Delete" /\ Arrived /\ p # NULL
  /\ IF next[p] = NULL \/ i > Target
       THEN Result(-1) /\ UNCHANGED heapVars
       ELSE Return(List!Answer(0, handle[next[p]], 0)) /\ UnlinkBehind(p, i + 1)

DeleteDerails == call.op = "Delete" /\ Arrived /\ p = NULL /\ Derail

SethandleReturns ==
  /\ call.op = "Sethandle" /\ Arrived
  /\ IF Missed
       THEN Result(-1) /\ UNCHANGED heapVars
       ELSE /\ Result(0)
            /\ handle' = [handle EXCEPT ![p] = call.item]
            /\ UNCHANGED <<list, alloc, next, chain>>

\* while (p != NULL && p->handle != handle): one step on, then a second look
Searching == call.op = "Find" /\ p # NULL /\ handle[p] # call.item

FindWalk ==
  /\ Searching /\ next[p] # NULL
  /\ IF handle[next[p]] = call.item
       THEN Return(List!Answer(0, NULL, i + 1)) /\ UNCHANGED heapVars
       ELSE Advance

FindDerails == Searching /\ next[p] = NULL /\ Derail

FindFails == call.op = "Find" /\ ~Searching /\ Result(-1) /\ UNCHANGED heapVars

EmptyReturns ==
  /\ call.op = "Empty" /\ p # NULL
  /\ Result(IF next[p] = NULL THEN 0 ELSE 1)
  /\ UNCHANGED heapVars

EmptyDerails == call.op = "Empty" /\ p = NULL /\ Derail

SizeWalk == call.op = "Size" /\ p # NULL /\ Advance

SizeReturns == call.op = "Size" /\ p = NULL /\ Result(i) /\ UNCHANGED heapVars

\* q = p->next; free(p); p = q
ClearNode ==
  /\ call.op = "Clear" /\ p # NULL
  /\ Free(p)
  /\ p' = next[p] /\ i' = i + 1
  /\ UNCHANGED <<list, next, handle, chain, call, ret>>

ClearReturns ==
  /\ call.op = "Clear" /\ p = NULL
  /\ Result(0)
  /\ list' = NULL /\ chain' = <<>>
  /\ next' = [n \in Nodes |-> NULL]
  /\ handle' = [n \in Nodes |-> NULL]
  /\ alloc' = alloc

-----------------------------------------------------------------------------
Step ==
  \/ CreatHeader \/ CreatNode \/ CreatNoMemory \/ CreatReturns
  \/ Walk \/ InsertReturns \/ AddWalk \/ AddReturns \/ GethandleReturns
  \/ DeleteReturns \/ DeleteDerails \/ SethandleReturns
  \/ FindWalk \/ FindDerails \/ FindFails
  \/ EmptyReturns \/ EmptyDerails \/ SizeWalk \/ SizeReturns
  \/ ClearNode \/ ClearReturns

\* nothing happens after a null pointer was followed
Terminated == call = Lost /\ UNCHANGED vars

Next == Step \/ (\E c \in List!Calls : Invoke(c)) \/ Terminated

Spec == Init /\ [][Next]_vars

\* a function that is running goes on
FairSpec == Spec /\ WF_vars(Step)

-----------------------------------------------------------------------------
TypeOK ==
  /\ list \in Refs /\ p \in Refs /\ i \in Nat
  /\ alloc \subseteq Nodes
  /\ next \in [Nodes -> Refs]
  /\ handle \in [Nodes -> Items]
  /\ chain \in Seq(Nodes)
  /\ call \in List!Calls \cup {List!Idle, Lost}
  /\ ret \in [code : Int, item : Items, pos : Nat]

\* The heap is one chain: from the caller's pointer, every node's link leads
\* to the next, the last one's nowhere, no node is met twice, and what is
\* allocated is just what is on it (of a list that SL_Clear is taking apart,
\* what it has not come to), so that nothing leaks and no link dangles
\* (List.c:65-67, 168-172, 297-302).
ChainInv ==
  /\ \A j, k \in DOMAIN chain : chain[j] = chain[k] => j = k
  /\ list = IF chain = <<>> THEN NULL ELSE chain[1]
  /\ \A k \in DOMAIN chain :
       next[chain[k]] = IF k = Len(chain) THEN NULL ELSE chain[k + 1]
  /\ alloc = {chain[k] : k \in {m \in DOMAIN chain : call.op = "Clear" => m > i}}

\* A loop is where its counter says.  SL_Creat has built what it has counted
\* down; a walk stands at entry i of the chain, on a node that is allocated, and
\* has not gone past its target nor over a match (List.c:25-32, 55-59, 131-135,
\* 161-165, 194-198, 224-232, 272-276).
LoopInv ==
  /\ call.op = "Creat" =>
       /\ i = IF chain = <<>> THEN call.pos ELSE call.pos + 1 - Len(chain)
       /\ \A k \in 2..Len(chain) : handle[chain[k]] = NULL
  /\ call.op \notin {"none", "lost", "Creat"} =>
       /\ i <= Len(chain)
       /\ p = IF i = Len(chain) THEN NULL ELSE chain[i + 1]
       /\ p \in alloc \cup {NULL}
       /\ call.op = "Empty" => i = 0
       /\ i > 0 /\ call.op \in Walkers => i <= Target
       /\ i > 0 /\ call.op = "Find" =>
            i < Len(chain) /\ \A k \in 1..(i + 1) : handle[chain[k]] # call.item

ListInv == TypeOK /\ ChainInv /\ LoopInv

\* Where the code does not do what its comments promise.  A null pointer is
\* followed, at a position two or more behind the last element, behind the last
\* node, and where there is no list (List.c:166, 228, 250).
FollowsNull ==
  /\ call' = Lost /\ Slots' = Slots /\ ret' = ret
  /\ \/ call.op = "Delete" /\ (Slots = <<>> \/ call.pos > Len(Slots))
     \/ call.op = "Find" /\ Slots # <<>> /\ call.item \notin ToSet(Slots)
     \/ call.op = "Empty" /\ Slots = <<>>

\* The handle of the header hides the elements that have the same one (224).
HeaderHides ==
  /\ List!Result("Find", -1) /\ Slots' = Slots
  /\ Slots # <<>> /\ Slots[1] = call.item

\* SL_Empty answers 1 where its comment has -1 (242, 252), SL_Clear 0 where its
\* comment has 1 (285, 304).
OtherCode ==
  \/ List!Result("Empty", 1) /\ Slots' = Slots /\ Len(Slots) > 1
  \/ List!Result("Clear", 0) /\ Slots' = <<>>

\* Every call does to the list what its comment promises, and answers so, for
\* every order of calls and every failing malloc(), but for just these cases
\* (List.c:16-305).
ImplementsHandleList ==
  List!Init /\ [][List!Next \/ FollowsNull \/ HeaderHides \/ OtherCode]_(List!vars)

\* SL_Delete and SL_Find answer 0 or -1, whatever position or handle they are
\* asked for, and SL_Find fails only for a handle no element has (List.c:150,
\* 213-215).
AnswersAsCommented ==
  [][call.op \in {"Delete", "Find"} /\ list # NULL /\ call' # call =>
       /\ call' = List!Idle /\ ret'.code \in {0, -1}
       /\ call.op = "Find" /\ ret'.code = -1 => call.item \notin ToSet(Tail(Slots))]_vars

\* Every call that follows no null pointer returns: no walk goes in a circle
\* (List.c:55, 96, 131, 161, 194, 224, 272, 297).
CallsEnd == call.op \notin {"none", "lost"} ~> call.op \in {"none", "lost"}
=============================================================================
